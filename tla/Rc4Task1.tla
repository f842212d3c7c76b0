------------------------------ MODULE Rc4Task1 -------------------------------
(***************************************************************************)
(* Task 1 of the RC4 lab (rc4_task1): fill S with the identity, over and   *)
(* over.  The write enable is a bit of the state, address and data are     *)
(* registers that run one cycle behind, so each word is written in the     *)
(* cycle after the one that chose it.                                      *)
(***************************************************************************)
EXTENDS SMemory

VARIABLES state, counter

vars == <<state, counter, mem, q, address, data>>

States == {"idle", "init_counter", "counter_increment", "finish"}

\* Bit 0 of the state encoding.
wren == state \in {"init_counter", "counter_increment"}

Init ==
  /\ MemoryInit
  /\ state = "idle"
  /\ counter = 0

Idle ==
  /\ state = "idle"
  /\ state' = "init_counter"
  /\ UNCHANGED <<counter, address, data>>

InitCounter ==
  /\ state = "init_counter"
  /\ state' = "counter_increment"
  /\ counter' = 0
  /\ UNCHANGED <<address, data>>

CounterIncrementShort ==                        \* mutant: the last address is skipped
  /\ state = "counter_increment"
  /\ data' = counter
  /\ address' = counter
  /\ counter' = Plus(counter, 1)
  /\ state' = IF counter = N - 2 THEN "finish" ELSE "counter_increment"

CounterIncrement ==
  /\ state = "counter_increment"
  /\ data' = counter
  /\ address' = counter
  /\ counter' = Plus(counter, 1)
  /\ state' = IF counter = N - 1 THEN "finish" ELSE "counter_increment"

Finish ==
  /\ state = "finish"
  /\ state' = "idle"
  /\ UNCHANGED <<counter, address, data>>

Next ==
  /\ Idle \/ InitCounter \/ CounterIncrement \/ Finish
  /\ MemoryStep(wren)

Spec == Init /\ [][Next]_vars /\ WF_vars(Next)
-----------------------------------------------------------------------------
TypeOK ==
  /\ MemoryTypeOK
  /\ state \in States
  /\ counter \in Cells

\* A pass has written every word but the last when it ends.
PassFillsAllButLast == state = "finish" => \A c \in 0 .. N - 2 : mem[c] = c

\* No cycle of any pass makes a word wrong that was right: address and data
\* move together.
WordsStayRight == [][\A c \in Cells : mem[c] = c => mem'[c] = c]_vars

\* A pass leaves the last word in the registers, because finish does not
\* write; the first cycle of the next pass writes it.  From then on S is the
\* identity, and no later pass disturbs it.
EventuallyIdentity == <>[](\A c \in Cells : mem[c] = c)
=============================================================================
