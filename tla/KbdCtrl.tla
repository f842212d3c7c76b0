------------------------------ MODULE KbdCtrl --------------------------------
(***************************************************************************)
(* Kbd_ctrl: the shift registers behind the PS/2 connector and the rule    *)
(* that decides when a key is ready.  A frame is shifted in bit by bit; as *)
(* the circuit looks at whole frames only, a step here is a whole frame.   *)
(* The value of a byte or a register is the set of its bits that are 1.    *)
(***************************************************************************)
EXTENDS Naturals, FiniteSets, AsyncTrap

VARIABLES
  kbd_reg,              \* the last eleven bits received
  old_kbd_reg,          \* the eleven bits before them
  bit_count,            \* bits since the last reset, six bits wide
  data_ready,
  check_trap            \* data_ready_clk_enable

kbdVars == <<kbd_reg, old_kbd_reg, bit_count, data_ready, check_trap>>

EXTENDED_SCAN_CODE == 5 .. 7
KEY_UP_SCAN_CODE == 4 .. 7

\* A byte on the wire: start bit, data bits from the lowest, odd parity, stop
\* bit.  The register holds the start bit uppermost.
Frame(byte) ==
  LET parity == IF Cardinality(byte) % 2 = 0 THEN {1} ELSE {}
  IN {9 - i : i \in byte} \cup parity \cup {0}

scan_code == {i \in 0 .. 7 : 9 - i \in kbd_reg}

KbdInit ==
  /\ kbd_reg = {} /\ old_kbd_reg = {}
  /\ bit_count = 0
  /\ data_ready = FALSE
  /\ check_trap = 0

Receive(byte) ==
  /\ kbd_reg' = Frame(byte)
  /\ old_kbd_reg' = kbd_reg
  /\ bit_count' = (bit_count + 11) % 64
  /\ check_trap' \in 1 .. Sync
  /\ UNCHANGED data_ready

KeyReadyPrefixesToo ==                          \* mutant: E0 and F0 are keys as well
  bit_count \in {11, 33}

KeyReadyTwice ==                                \* mutant: the third frame is ignored
  bit_count = 11 /\ scan_code \notin {EXTENDED_SCAN_CODE, KEY_UP_SCAN_CODE}

\* The second case compares eleven bits, the lowest a stop bit, with a code of
\* eight.
KeyReady ==
  \/ bit_count = 11 /\ scan_code \notin {EXTENDED_SCAN_CODE, KEY_UP_SCAN_CODE}
  \/ /\ bit_count = 22
     /\ old_kbd_reg = KEY_UP_SCAN_CODE
     /\ scan_code # EXTENDED_SCAN_CODE
  \/ bit_count >= 33

KbdStep(reset) ==
  /\ bit_count' = IF reset THEN 0 ELSE bit_count
  /\ data_ready' = (~reset /\ (IF Fires(check_trap) THEN KeyReady ELSE data_ready))
  /\ check_trap' \in Trapped(check_trap, FALSE)
  /\ UNCHANGED <<kbd_reg, old_kbd_reg>>
=============================================================================
