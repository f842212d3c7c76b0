---------------------------- MODULE SpeedControl -----------------------------
(***************************************************************************)
(* Speed_Control: the divider count of the sample clock, moved in steps by *)
(* the speed keys within its two boundaries.                               *)
(***************************************************************************)
EXTENDS Naturals

CONSTANTS
  Count_22K,            \* default count
  CountStep,            \* what a key press adds or takes: 16
  TopCount              \* the last count that may still be increased

ASSUME SpeedAssumption ==
  /\ Count_22K \in Nat /\ TopCount \in Nat
  /\ CountStep \in Nat \ {0}
  /\ Count_22K % CountStep = 0 /\ TopCount % CountStep = 0
  /\ Count_22K <= TopCount

VARIABLE div_clk_count

SpeedInit == div_clk_count = Count_22K

SlowerUnbounded ==                              \* mutant: no lower speed limit
  div_clk_count' = div_clk_count + CountStep

Slower ==
  div_clk_count' =
    IF div_clk_count <= TopCount THEN div_clk_count + CountStep ELSE div_clk_count

Faster ==
  div_clk_count' =
    IF div_clk_count >= CountStep THEN div_clk_count - CountStep ELSE div_clk_count

\* Reset comes before up, up before down.
SpeedStep(speed_down, speed_up, speed_reset) ==
  \/ speed_reset /\ div_clk_count' = Count_22K
  \/ ~speed_reset /\ speed_up /\ Faster
  \/ ~speed_reset /\ ~speed_up /\ speed_down /\ Slower
  \/ ~speed_reset /\ ~speed_up /\ ~speed_down /\ UNCHANGED div_clk_count
=============================================================================
