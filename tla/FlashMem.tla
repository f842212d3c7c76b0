------------------------------ MODULE FlashMem -------------------------------
(***************************************************************************)
(* The flash controller as the player sees it (the block flash_inst is a   *)
(* binary): an Avalon slave with pipelined reads.  A read is accepted in   *)
(* every cycle in which read is high and waitrequest low, and each         *)
(* accepted read is answered, in order, within Latency cycles.             *)
(***************************************************************************)
EXTENDS Naturals, Sequences

CONSTANTS
  Latency,              \* cycles from acceptance to readdatavalid, at most
  MaxWait               \* cycles a read is kept waiting, at most

ASSUME LatencyAssumption == Latency \in Nat \ {0}
ASSUME MaxWaitAssumption == MaxWait \in Nat

VARIABLES
  pending,              \* accepted reads, oldest first: word and age
  stalled,              \* cycles the present read has been kept waiting
  readdatavalid         \* the answer strobe

flashVars == <<pending, stalled, readdatavalid>>

FlashInit ==
  /\ pending = <<>>
  /\ stalled = 0
  /\ readdatavalid = FALSE

\* Whether the flash answers now: it may when it owes an answer, and must
\* when the oldest one is due.
MayAnswer(answer) ==
  /\ answer => pending # <<>>
  /\ pending # <<>> /\ Head(pending).age >= Latency => answer

Accepted(read, waitrequest) == read /\ ~waitrequest

Owed(answer) == IF answer THEN Tail(pending) ELSE pending

OneOlder(reads) == [i \in DOMAIN reads |-> [reads[i] EXCEPT !.age = @ + 1]]

FlashStep(read, address, waitrequest, answer) ==
  /\ MayAnswer(answer)
  /\ waitrequest => read /\ stalled < MaxWait
  /\ stalled' = IF waitrequest THEN stalled + 1 ELSE 0
  /\ pending' = IF Accepted(read, waitrequest)
                  THEN Append(OneOlder(Owed(answer)), [word |-> address, age |-> 1])
                  ELSE OneOlder(Owed(answer))
  /\ readdatavalid' = answer
=============================================================================
