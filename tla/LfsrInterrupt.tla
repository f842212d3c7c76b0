---------------------------- MODULE LfsrInterrupt ----------------------------
(***************************************************************************)
(* The shift register LFSR and the interrupt its clock raises at the       *)
(* processor (student_code.c): the handler reads the register, chooses the *)
(* tone of the FSK modulation from its lowest bit, and clears the edge     *)
(* capture register.  Of the register only that bit is kept.  Edges come   *)
(* at any time.                                                            *)
(***************************************************************************)
EXTENDS Naturals

VARIABLES
  lfsr,            \* lowest bit of the shift register
  edge_capture,    \* the capture register of the PIO port
  irq_enabled,     \* the handler is registered
  handler,         \* place in handle_lfsr_interrupts
  data,            \* its local copy of the bit
  dds_increment,   \* the output port, 0 before the first interrupt
  missed           \* history: an edge fell into the last run of the handler

lfsrVars == <<lfsr, edge_capture, irq_enabled, handler, data, dds_increment, missed>>

LfsrInit ==
  /\ lfsr = 1
  /\ edge_capture \in BOOLEAN
  /\ irq_enabled = FALSE
  /\ handler = "idle"
  /\ data = 0
  /\ dds_increment = 0
  /\ missed = FALSE

LfsrTypeOK ==
  /\ lfsr \in {0, 1} /\ data \in {0, 1} /\ dds_increment \in {0, 86, 430}
  /\ handler \in {"idle", "write", "clear"}
  /\ edge_capture \in BOOLEAN /\ irq_enabled \in BOOLEAN /\ missed \in BOOLEAN

Tone(bit) == IF bit = 1 THEN 430 ELSE 86

(* An edge of the 1 Hz clock shifts the register and sets the capture bit. *)
Edge ==
  /\ lfsr' \in {0, 1}
  /\ edge_capture' = TRUE
  /\ missed' = (handler # "idle")
  /\ UNCHANGED <<irq_enabled, handler, data, dds_increment>>

HandlerReads ==
  /\ irq_enabled /\ edge_capture /\ handler = "idle"
  /\ handler' = "write"
  /\ data' = lfsr
  /\ missed' = FALSE
  /\ UNCHANGED <<lfsr, edge_capture, irq_enabled, dds_increment>>

(* mutant: the increment is written for a 1 only *)
HandlerWritesOnes ==
  /\ handler = "write"
  /\ handler' = "clear"
  /\ dds_increment' = IF data = 1 THEN Tone(data) ELSE dds_increment
  /\ UNCHANGED <<lfsr, edge_capture, irq_enabled, data, missed>>

HandlerWrites ==
  /\ handler = "write"
  /\ handler' = "clear"
  /\ dds_increment' = Tone(data)
  /\ UNCHANGED <<lfsr, edge_capture, irq_enabled, data, missed>>

HandlerClears ==
  /\ handler = "clear"
  /\ handler' = "idle"
  /\ edge_capture' = FALSE
  /\ UNCHANGED <<lfsr, irq_enabled, data, dds_increment, missed>>

Handler == HandlerReads \/ HandlerWrites \/ HandlerClears

(* init_lfsr_interrupt: the capture register is reset, then the handler is *)
(* registered.                                                             *)
ResetCapture ==
  /\ edge_capture' = FALSE
  /\ UNCHANGED <<lfsr, irq_enabled, handler, data, dds_increment, missed>>

RegisterHandler ==
  /\ irq_enabled' = TRUE
  /\ UNCHANGED <<lfsr, edge_capture, handler, data, dds_increment, missed>>
=============================================================================
