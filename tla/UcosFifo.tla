------------------------------- MODULE UcosFifo -------------------------------
(***************************************************************************)
(* What a message queue promises: a sequence of at most Size messages that *)
(* grows at either end, shrinks at the front and can be emptied.           *)
(***************************************************************************)
EXTENDS Naturals, Sequences

CONSTANTS Msgs, Size

VARIABLE q

Init == q = << >>

PutBack  == Len(q) < Size /\ \E m \in Msgs : q' = Append(q, m)
PutFront == Len(q) < Size /\ \E m \in Msgs : q' = <<m>> \o q
Take     == q # << >> /\ q' = Tail(q)
Flush    == q' = << >>

Next == PutBack \/ PutFront \/ Take \/ Flush

Spec == Init /\ [][Next]_q
=============================================================================
