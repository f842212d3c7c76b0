------------------------------ MODULE FsmMaster ------------------------------
(***************************************************************************)
(* The address and audio state machine of the iPod player (FSM_master),    *)
(* one step per rising edge of the 50 MHz clock.  A 32-bit word of the     *)
(* flash is abstracted to its address, a 16-bit sample to the word and the *)
(* half it is cut from.  The inputs of a step are the values the wires     *)
(* have before the clock edge.                                             *)
(***************************************************************************)
EXTENDS Naturals

CONSTANT MaxAddr        \* last word of the song: 23'h7FFFF in the source

ASSUME MaxAddrAssumption == MaxAddr \in Nat \ {0}

VARIABLES
  master,               \* state of the master
  addr,                 \* word address driven to the flash
  audio_signal          \* sample driven to the audio converter

masterVars == <<master, addr, audio_signal>>

Addresses == 0 .. MaxAddr

\* What a data register holds before the flash has written it: no word at all.
NoWord == MaxAddr + 1

Words == Addresses \cup {NoWord}

MasterStates ==
  {"idle", "start_read_addr", "wait_read_addr", "wait_berct_lsb",
   "transfer_berct_lsb", "wait_berct_msb", "transfer_berct_msb", "Finished"}

Samples == [word : Words, half : {"lsb", "msb"}]

Silence == [word |-> NoWord, half |-> "lsb"]

MasterTypeOK ==
  /\ master \in MasterStates
  /\ addr \in Addresses
  /\ audio_signal \in Samples

MasterInit ==
  /\ master = "idle"
  /\ addr = 0
  /\ audio_signal = Silence

\* Moore outputs: bits 0 and 1 of the state encoding.
master_finish == master = "Finished"
slave_start == master = "start_read_addr"

\* The half that is heard first, and the one heard second, in a direction.
FirstHalf(dir)  == IF dir THEN "lsb" ELSE "msb"
SecondHalfRepeated(dir) == FirstHalf(dir)       \* mutant: the same half twice
SecondHalf(dir) == IF dir THEN "msb" ELSE "lsb"

\* The word after a in a direction; restart goes to that direction's origin.
Origin(dir) == IF dir THEN 0 ELSE MaxAddr
BeyondEnd(a, dir) ==                            \* mutant: wraps one word late
  IF dir THEN IF a <= MaxAddr THEN a + 1 ELSE Origin(dir)
         ELSE IF a > 0 THEN a - 1 ELSE Origin(dir)
Beyond(a, dir) ==
  IF dir THEN IF a < MaxAddr THEN a + 1 ELSE Origin(dir)
         ELSE IF a > 0 THEN a - 1 ELSE Origin(dir)
NextAddrNoRestart(a, dir, restart) == Beyond(a, dir)  \* mutant: restart ignored
NextAddr(a, dir, restart) == IF restart THEN Origin(dir) ELSE Beyond(a, dir)

\* Stay in a state until a condition holds, then go on.
Await(from, cond, to) ==
  /\ master = from
  /\ master' = IF cond THEN to ELSE from
  /\ UNCHANGED <<addr, audio_signal>>

Transfer(from, word, half, to) ==
  /\ master = from
  /\ master' = to
  /\ audio_signal' = [word |-> word, half |-> half]
  /\ UNCHANGED addr

IdleStep(play) == Await("idle", play, "start_read_addr")
StartReadStep == Await("start_read_addr", TRUE, "wait_read_addr")
WaitReadNoWait(slave_finish) ==                 \* mutant: the reader is not awaited
  Await("wait_read_addr", TRUE, "wait_berct_lsb")
WaitReadStep(slave_finish) == Await("wait_read_addr", slave_finish, "wait_berct_lsb")
WaitLsbStep(edge_clk) == Await("wait_berct_lsb", edge_clk, "transfer_berct_lsb")
TransferLsbStep(dir, data) ==
  Transfer("transfer_berct_lsb", data, FirstHalf(dir), "wait_berct_msb")
WaitMsbNoEdge(edge_clk) ==                      \* mutant: no pulse between the halves
  Await("wait_berct_msb", TRUE, "transfer_berct_msb")
WaitMsbStep(edge_clk) == Await("wait_berct_msb", edge_clk, "transfer_berct_msb")
TransferMsbStep(dir, data) ==
  Transfer("transfer_berct_msb", data, SecondHalf(dir), "Finished")
FinishedStep(dir, restart) ==
  /\ master = "Finished"
  /\ master' = "idle"
  /\ addr' = NextAddr(addr, dir, restart)
  /\ UNCHANGED audio_signal

MasterStep(edge_clk, restart, play, dir, slave_finish, data) ==
  \/ IdleStep(play)
  \/ StartReadStep
  \/ WaitReadStep(slave_finish)
  \/ WaitLsbStep(edge_clk)
  \/ TransferLsbStep(dir, data)
  \/ WaitMsbStep(edge_clk)
  \/ TransferMsbStep(dir, data)
  \/ FinishedStep(dir, restart)
=============================================================================
