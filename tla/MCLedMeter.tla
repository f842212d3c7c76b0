----------------------------- MODULE MCLedMeter ------------------------------
(***************************************************************************)
(* The LED meter with registers of two bits, a delay of two short loops,   *)
(* and samples at the shortest spacing that the interrupt routine bears.   *)
(***************************************************************************)
EXTENDS LedMeter

ShortDelay == [k \in 0 .. Top |-> 1 + (k % 2)]
Slowest == Longest + 1
=============================================================================
