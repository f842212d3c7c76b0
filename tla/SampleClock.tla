----------------------------- MODULE SampleClock -----------------------------
(***************************************************************************)
(* The sample clock of the iPod: the speed control sets the count of the   *)
(* clock divider, and each rising edge of the divided clock becomes a      *)
(* pulse of one cycle, Clock_22K_Sync, by which the player takes samples.  *)
(* One step is one edge of CLK_50M.                                        *)
(***************************************************************************)
EXTENDS SpeedControl, ClockDivider, EdgeDetect

VARIABLES
  edge_age,             \* history: cycles since the last rising edge, up to 3
  pulse_age,            \* history: cycles since the last pulse, up to 2 * Longest + 1
  off_limit             \* history: cycles since the count was last 0, up to Settle

vars == <<div_clk_count, dividerVars, detectorVars, edge_age, pulse_age, off_limit>>

\* How long the detector needs to recover from the fastest clock.
Settle == 4

\* A period of the slowest clock.
Longest == 2 * (TopCount + CountStep + 1)

Init ==
  /\ SpeedInit
  /\ DividerInit
  /\ DetectorInit
  /\ edge_age = 3
  /\ pulse_age = 0
  /\ off_limit = IF div_clk_count = 0 THEN 0 ELSE Settle

Observe ==
  /\ edge_age' = IF outclk' /\ ~outclk THEN 0
                 ELSE IF edge_age < 3 THEN edge_age + 1 ELSE edge_age
  /\ pulse_age' = IF out_sync_sig' THEN 0
                  ELSE IF pulse_age <= 2 * Longest THEN pulse_age + 1 ELSE pulse_age
  /\ off_limit' = IF div_clk_count = 0 THEN 0
                  ELSE IF off_limit < Settle THEN off_limit + 1 ELSE off_limit

Cycle(speed_down, speed_up, speed_reset) ==
  /\ SpeedStep(speed_down, speed_up, speed_reset)
  /\ DividerStep(div_clk_count)
  /\ DetectorStep(outclk, outclk')
  /\ Observe

Next == \E speed_down, speed_up, speed_reset \in BOOLEAN :
          Cycle(speed_down, speed_up, speed_reset)

\* The clock never stops.
Spec == Init /\ [][Next]_vars /\ WF_vars(Next)
-----------------------------------------------------------------------------
\* Two pulses are never two of the longest periods apart: of two rising edges in
\* a row one at least is seen.
TypeOK ==
  /\ div_clk_count \in {CountStep * k : k \in 0 .. TopCount \div CountStep + 1}
  /\ count \in 0 .. TopCount + CountStep
  /\ {outclk, Q_A, Q_B, Q_C, Q_D} \subseteq BOOLEAN
  /\ edge_age \in 0 .. 3
  /\ pulse_age \in 0 .. 2 * Longest
  /\ off_limit \in 0 .. Settle

\* Unless the divider has just run at its lowest count, where it toggles in
\* every cycle, the pulses are exactly the rising edges, two cycles later.
PulsePerEdge == off_limit = Settle => (out_sync_sig <=> edge_age = 2)

\* Whatever the speed keys do, a pulse lasts one cycle and two pulses are three
\* cycles apart or more.
PulsesApart == [][out_sync_sig' => pulse_age >= 2]_vars

\* The player never runs out of sample pulses, whatever the speed keys do.
PulsesForever == []<>out_sync_sig
=============================================================================
