------------------------- MODULE SampleClock_proofs --------------------------
(***************************************************************************)
(* The shortest and the longest time between two sample pulses, and a      *)
(* pulse for each edge, for every default count, step and boundary of the  *)
(* speed control.                                                          *)
(***************************************************************************)
EXTENDS SampleClock, TLAPS

\* How far an edge has come in the detector.
Detected ==
  /\ pulse_age \in Nat
  /\ out_sync_sig => Q_B
  /\ Q_B /\ ~Q_C => Q_A /\ pulse_age >= 2
  /\ Q_A /\ ~outclk => Q_B /\ ~Q_C
  /\ Q_A /\ ~Q_B => pulse_age >= 1

LEMMA LongestIsLong == Longest \in Nat /\ Longest >= 2
  BY SpeedAssumption DEF Longest

LEMMA DetectedNext == Detected /\ [Next]_vars => Detected'
<1> SUFFICES ASSUME Detected, [Next]_vars PROVE Detected'
  OBVIOUS
<1>1. CASE UNCHANGED vars
  BY <1>1 DEF vars, detectorVars, dividerVars, Detected, out_sync_sig
<1>2. CASE Next
  <2>1. DetectorStep(outclk, outclk') /\ Observe
    BY <1>2 DEF Next, Cycle
  <2>2. /\ out_sync_sig' => pulse_age' = 0
        /\ ~out_sync_sig' => pulse_age' = pulse_age + 1 \/ (pulse_age' = pulse_age /\ pulse_age >= 2)
    <3>1. pulse_age \in Nat
      BY DEF Detected
    <3>2. ~(pulse_age <= 2 * Longest) => pulse_age >= 2
      BY <3>1, LongestIsLong
    <3> QED
      BY <2>1, <3>2 DEF Observe
  <2>3. (Q_B' <=> Q_A) /\ (Q_C' <=> Q_B) /\ (Q_D' <=> Q_C)
    BY <2>1 DEF DetectorStep
  <2>4. out_sync_sig' <=> Q_B /\ ~Q_C
    BY <2>3 DEF out_sync_sig
  <2>5. FF_A(outclk, outclk')
    BY <2>1 DEF DetectorStep
  <2>6. pulse_age' \in Nat
    BY <2>2 DEF Detected
  <2>7. out_sync_sig' => Q_B'
    BY <2>3, <2>4 DEF Detected
  <2>8. Q_B' /\ ~Q_C' => Q_A' /\ pulse_age' >= 2
    <3> SUFFICES ASSUME Q_A, ~Q_B PROVE Q_A' /\ pulse_age' >= 2
      BY <2>3
    <3>1. outclk /\ ~Q_C' /\ ~out_sync_sig'
      BY <2>3, <2>4 DEF Detected
    <3>2. Q_A'
      BY <2>5, <3>1 DEF FF_A
    <3>3. pulse_age' >= 2
      BY <2>2, <3>1 DEF Detected
    <3> QED
      BY <3>2, <3>3
  <2>9. Q_A' /\ ~outclk' => Q_B' /\ ~Q_C'
    BY <2>3, <2>5 DEF FF_A
  <2>10. Q_A' /\ ~Q_B' => pulse_age' >= 1
    <3> SUFFICES ASSUME ~Q_A PROVE pulse_age' >= 1
      BY <2>3
    <3>1. ~out_sync_sig'
      BY <2>4 DEF Detected
    <3> QED
      BY <2>2, <3>1 DEF Detected
  <2> QED
    BY <2>6, <2>7, <2>8, <2>9, <2>10 DEF Detected
<1> QED
  BY <1>1, <1>2

\* A pulse of the sample clock lasts one cycle and is at least three cycles
\* from the last, however the speed is changed and whichever way the race
\* between the clear and the clock of FF_A goes.
THEOREM PulsesApartCorrect == Spec => PulsesApart
<1>1. Init => Detected
  BY DEF Init, DetectorInit, Detected, out_sync_sig
<1>2. Detected /\ [Next]_vars => [out_sync_sig' => pulse_age >= 2]_vars
  <2> SUFFICES ASSUME Detected, Next, out_sync_sig' PROVE pulse_age >= 2
    OBVIOUS
  <2>1. (Q_C' <=> Q_B) /\ (Q_D' <=> Q_C)
    BY DEF Next, Cycle, DetectorStep
  <2> QED
    BY <2>1 DEF Detected, out_sync_sig
<1> QED
  BY <1>1, <1>2, DetectedNext, PTL DEF Spec, PulsesApart
-----------------------------------------------------------------------------
\* A step of three or more: the detector comes to rest in a phase of any count
\* but 0.  The step of the code is 16.
WideStep == CountStep >= 3

Counts == {CountStep * k : k \in 0 .. TopCount \div CountStep + 1}

Ranges ==
  /\ div_clk_count \in Counts
  /\ count \in 0 .. TopCount + CountStep
  /\ {outclk, Q_A, Q_B, Q_C, Q_D} \subseteq BOOLEAN
  /\ edge_age \in 0 .. 3
  /\ off_limit \in 0 .. Settle

\* What the flip-flops hold so many cycles after the clock has toggled, which is
\* what count counts.
Flushed ==
  /\ outclk => /\ ~Q_A => ~Q_B
               /\ count >= 1 => (Q_B <=> Q_A)
               /\ count >= 2 => (Q_C <=> Q_B)
               /\ count >= 3 => (Q_D <=> Q_C)
  /\ ~outclk => /\ count >= 1 => ~Q_A
                /\ count >= 2 => ~Q_B
                /\ count >= 3 => ~Q_C

Aged ==
  /\ outclk => edge_age = IF count < 3 THEN count ELSE 3
  /\ ~outclk => edge_age = 3 \/ edge_age > count

\* What they hold when the clock toggled after a phase of full length.
Clean ==
  off_limit > count =>
    /\ outclk /\ count = 0 => Q_A /\ ~Q_B /\ ~Q_C
    /\ outclk /\ count = 1 => Q_A /\ ~Q_C /\ ~Q_D
    /\ outclk /\ count = 2 => Q_C /\ ~Q_D
    /\ ~outclk => edge_age = 3 /\ ~Q_A
    /\ ~outclk /\ count = 0 => (Q_B <=> Q_C) /\ (Q_C <=> Q_D)
    /\ ~outclk /\ count = 1 => ~Q_B /\ (Q_C <=> Q_D)
    /\ ~outclk /\ count = 2 => ~Q_C

\* A product below the next multiple but one is one of the multiples.
LEMMA StepsDown ==
  ASSUME NEW k \in 0 .. TopCount \div CountStep + 1, CountStep * k >= CountStep
  PROVE  CountStep * k - CountStep \in Counts
<1>1. k >= 1 /\ CountStep * k - CountStep = CountStep * (k - 1)
  BY SpeedAssumption
<1>2. k - 1 \in 0 .. TopCount \div CountStep + 1
  BY <1>1, SpeedAssumption
<1> QED
  BY <1>1, <1>2 DEF Counts

LEMMA StepsUp ==
  ASSUME NEW k \in 0 .. TopCount \div CountStep + 1, CountStep * k <= TopCount
  PROVE  CountStep * k + CountStep \in Counts
<1> DEFINE q == TopCount \div CountStep
<1>1. q \in Nat /\ TopCount = CountStep * q
  BY SpeedAssumption
<1>2. k <= q
  BY <1>1, SpeedAssumption
<1>3. CountStep * k + CountStep = CountStep * (k + 1) /\ k + 1 \in 0 .. q + 1
  BY <1>1, <1>2, SpeedAssumption
<1> QED
  BY <1>3 DEF Counts

LEMMA DefaultIsACount == Count_22K \in Counts
<1> DEFINE q == TopCount \div CountStep
           d == Count_22K \div CountStep
<1>1. q \in Nat /\ TopCount = CountStep * q /\ d \in Nat /\ Count_22K = CountStep * d
  BY SpeedAssumption
<1>2. d <= q
  BY <1>1, SpeedAssumption
<1>3. d \in 0 .. q + 1
  BY <1>1, <1>2
<1> QED
  BY <1>1, <1>3 DEF Counts

\* A count other than 0 is at least a step, and none is above the boundary and
\* a step.
LEMMA CountsAreSpaced ==
  ASSUME NEW d \in Counts
  PROVE  /\ d \in Nat /\ d <= TopCount + CountStep
         /\ d # 0 => d >= CountStep
<1> DEFINE q == TopCount \div CountStep
<1>1. PICK k \in 0 .. q + 1 : d = CountStep * k
  BY DEF Counts
<1>2. q \in Nat /\ TopCount = CountStep * q
  BY SpeedAssumption
<1>3. CountStep * k <= CountStep * (q + 1) /\ CountStep * (q + 1) = TopCount + CountStep
  BY <1>2, SpeedAssumption
<1>4. k # 0 => CountStep * k >= CountStep
  BY <1>2, SpeedAssumption
<1>5. k = 0 => CountStep * k = 0
  BY SpeedAssumption
<1>6. CountStep * k \in Nat
  BY <1>2, SpeedAssumption
<1> QED
  BY <1>1, <1>3, <1>4, <1>5, <1>6, SpeedAssumption

\* The speed keys move the count from one multiple to the next.
LEMMA SpeedStays ==
  ASSUME div_clk_count \in Counts,
         NEW speed_down, NEW speed_up, NEW speed_reset,
         SpeedStep(speed_down, speed_up, speed_reset)
  PROVE  div_clk_count' \in Counts
<1>1. PICK k \in 0 .. TopCount \div CountStep + 1 : div_clk_count = CountStep * k
  BY DEF Counts
<1>2. Slower => div_clk_count' \in Counts
  BY <1>1, StepsUp DEF Slower
<1>3. Faster => div_clk_count' \in Counts
  BY <1>1, StepsDown DEF Faster
<1> QED
  BY <1>2, <1>3, DefaultIsACount DEF SpeedStep
-----------------------------------------------------------------------------
\* What a cycle does to the flip-flops, the race apart.
DetectorMoves ==
  /\ (Q_B' <=> Q_A) /\ (Q_C' <=> Q_B) /\ (Q_D' <=> Q_C)
  /\ outclk /\ outclk' => (Q_A' <=> Q_A)
  /\ ~outclk' /\ Q_B => ~Q_A'
  /\ ~outclk' /\ ~Q_B => (Q_A' <=> Q_A)
  /\ ~outclk /\ outclk' /\ ~Q_C => Q_A'
  /\ {Q_A', Q_B', Q_C', Q_D'} \subseteq BOOLEAN

\* And to the divider.  With a wide step a phase that ends under a count other
\* than 0 has lasted more than three cycles.
DividerMoves ==
  \/ /\ outclk' <=> outclk
     /\ count' = count + 1 /\ count' <= TopCount + CountStep
  \/ /\ outclk' <=> ~outclk
     /\ count' = 0
     /\ off_limit' > 0 => count >= 3

LEMMA CycleMoves ==
  ASSUME WideStep, Ranges, Next
  PROVE  /\ div_clk_count' \in Counts
         /\ DetectorMoves
         /\ DividerMoves
         /\ outclk' \in BOOLEAN
         /\ off_limit' \in 0 .. Settle /\ off_limit' <= off_limit + 1
         /\ Observe
<1>1. PICK speed_down, speed_up, speed_reset \in BOOLEAN :
        Cycle(speed_down, speed_up, speed_reset)
  BY DEF Next
<1>2. div_clk_count' \in Counts
  BY <1>1, SpeedStays DEF Cycle, Ranges
<1>3. DetectorMoves
  <2>1. DetectorStep(outclk, outclk')
    BY <1>1 DEF Cycle
  <2>2. {Q_B', Q_C', Q_D'} \subseteq BOOLEAN
    BY <2>1 DEF DetectorStep, Ranges
  <2>3. FF_A(outclk, outclk') /\ (Q_C' <=> Q_B)
    BY <2>1 DEF DetectorStep
  <2>4. Q_A' \in BOOLEAN
    BY <2>3 DEF FF_A, Ranges
  <2>5. /\ outclk /\ outclk' => (Q_A' <=> Q_A)
        /\ ~outclk' /\ Q_B => ~Q_A'
        /\ ~outclk' /\ ~Q_B => (Q_A' <=> Q_A)
        /\ ~outclk /\ outclk' /\ ~Q_C => Q_A'
    BY <2>3 DEF FF_A
  <2>6. (Q_B' <=> Q_A) /\ (Q_C' <=> Q_B) /\ (Q_D' <=> Q_C)
    BY <2>1 DEF DetectorStep
  <2> QED
    BY <2>2, <2>4, <2>5, <2>6 DEF DetectorMoves
<1>4. off_limit' \in 0 .. Settle /\ off_limit' <= off_limit + 1
      /\ (off_limit' > 0 => div_clk_count # 0)
  <2>1. off_limit' = IF div_clk_count = 0 THEN 0
                     ELSE IF off_limit < Settle THEN off_limit + 1 ELSE off_limit
    BY <1>1 DEF Cycle, Observe
  <2>2. off_limit \in 0 .. Settle
    BY DEF Ranges
  <2> QED
    BY <2>1, <2>2 DEF Settle
<1>5. DividerMoves /\ outclk' \in BOOLEAN
  <2>1. DividerStep(div_clk_count)
    BY <1>1 DEF Cycle
  <2>2. /\ count \in Nat /\ div_clk_count \in Nat
        /\ div_clk_count <= TopCount + CountStep
        /\ div_clk_count # 0 => div_clk_count >= 3
    BY CountsAreSpaced, SpeedAssumption DEF Ranges, WideStep
  <2>3. outclk \in BOOLEAN
    BY DEF Ranges
  <2>4. CASE count < div_clk_count
    <3>1. count' = count + 1 /\ count' <= TopCount + CountStep
      BY <2>1, <2>2, <2>4, SpeedAssumption DEF DividerStep
    <3>2. outclk' = outclk
      BY <2>1, <2>4 DEF DividerStep
    <3> QED
      BY <2>3, <3>1, <3>2 DEF DividerMoves
  <2>5. CASE ~(count < div_clk_count)
    <3>1. off_limit' > 0 => count >= 3
      BY <1>4, <2>2, <2>5
    <3>2. count' = 0 /\ outclk' = ~outclk
      BY <2>1, <2>5 DEF DividerStep
    <3> QED
      BY <2>3, <3>1, <3>2 DEF DividerMoves
  <2> QED
    BY <2>4, <2>5
<1>6. Observe
  BY <1>1 DEF Cycle
<1> QED
  BY <1>2, <1>3, <1>4, <1>5, <1>6

LEMMA RangesNext ==
  ASSUME WideStep, Ranges, Next
  PROVE  Ranges'
<1>1. div_clk_count' \in Counts /\ outclk' \in BOOLEAN /\ off_limit' \in 0 .. Settle
  BY CycleMoves
<1>2. {Q_A', Q_B', Q_C', Q_D'} \subseteq BOOLEAN
  BY CycleMoves DEF DetectorMoves
<1>3. count' \in 0 .. TopCount + CountStep
  BY CycleMoves, SpeedAssumption DEF DividerMoves, Ranges
<1>4. edge_age' \in 0 .. 3
  BY CycleMoves DEF Observe, Ranges
<1> QED
  BY <1>1, <1>2, <1>3, <1>4 DEF Ranges, Counts

LEMMA FlushedNext ==
  ASSUME WideStep, Ranges, Flushed, Detected, Next
  PROVE  Flushed'
<1>1. count \in Nat
  BY DEF Ranges
<1>2. DetectorMoves /\ DividerMoves
  BY CycleMoves
<1>3. CASE count' = count + 1 /\ (outclk' <=> outclk)
  <2>1. (count' >= 2 => count >= 1) /\ (count' >= 3 => count >= 2)
    BY <1>1, <1>3
  <2>2. CASE outclk
    BY <1>2, <1>3, <2>1, <2>2 DEF DetectorMoves, Flushed
  <2>3. CASE ~outclk
    BY <1>2, <1>3, <2>1, <2>3 DEF DetectorMoves, Flushed, Detected
  <2> QED
    BY <2>2, <2>3
<1>4. CASE count' = 0 /\ (outclk' <=> ~outclk)
  <2>1. ~(count' >= 1) /\ ~(count' >= 2) /\ ~(count' >= 3)
    BY <1>4
  <2>2. outclk' /\ ~Q_A' => ~Q_B'
    BY <1>2, <1>4 DEF DetectorMoves, Detected
  <2> QED
    BY <2>1, <2>2 DEF Flushed
<1> QED
  BY <1>2, <1>3, <1>4 DEF DividerMoves

LEMMA AgedNext ==
  ASSUME WideStep, Ranges, Aged, Next
  PROVE  Aged'
<1>1. count \in Nat /\ edge_age \in 0 .. 3
  BY DEF Ranges
<1>2. edge_age' = IF outclk' /\ ~outclk THEN 0
                  ELSE IF edge_age < 3 THEN edge_age + 1 ELSE edge_age
  BY CycleMoves DEF Observe
<1>3. CASE count' = count + 1 /\ (outclk' <=> outclk)
  BY <1>1, <1>2, <1>3 DEF Aged
<1>4. CASE count' = 0 /\ (outclk' <=> ~outclk)
  BY <1>1, <1>2, <1>4 DEF Aged
<1> QED
  BY <1>3, <1>4, CycleMoves DEF DividerMoves

LEMMA CleanNext ==
  ASSUME WideStep, Ranges, Flushed, Aged, Clean, Next
  PROVE  Clean'
<1> SUFFICES ASSUME off_limit' > count'
             PROVE  /\ outclk' /\ count' = 0 => Q_A' /\ ~Q_B' /\ ~Q_C'
                    /\ outclk' /\ count' = 1 => Q_A' /\ ~Q_C' /\ ~Q_D'
                    /\ outclk' /\ count' = 2 => Q_C' /\ ~Q_D'
                    /\ ~outclk' => edge_age' = 3 /\ ~Q_A'
                    /\ ~outclk' /\ count' = 0 => (Q_B' <=> Q_C') /\ (Q_C' <=> Q_D')
                    /\ ~outclk' /\ count' = 1 => ~Q_B' /\ (Q_C' <=> Q_D')
                    /\ ~outclk' /\ count' = 2 => ~Q_C'
  BY DEF Clean
<1>1. count \in Nat /\ edge_age \in 0 .. 3 /\ off_limit \in Nat
  BY DEF Ranges
<1>2. DetectorMoves /\ DividerMoves /\ off_limit' \in Nat /\ off_limit' <= off_limit + 1
  BY CycleMoves
<1>3. edge_age' = IF outclk' /\ ~outclk THEN 0
                  ELSE IF edge_age < 3 THEN edge_age + 1 ELSE edge_age
  BY CycleMoves DEF Observe
<1>4. CASE count' = count + 1 /\ (outclk' <=> outclk)
  <2>1. off_limit > count
    BY <1>1, <1>2, <1>4
  <2>2. count' # 0 /\ (count' = 1 => count = 0) /\ (count' = 2 => count = 1)
        /\ (count >= 1 \/ count = 0)
    BY <1>1, <1>4
  <2>3. CASE outclk
    BY <1>2, <1>4, <2>1, <2>2, <2>3 DEF DetectorMoves, Clean, Flushed
  <2>4. CASE ~outclk
    <3>1. edge_age' = 3
      BY <1>3, <1>4, <2>1, <2>4 DEF Clean
    <3> QED
      BY <1>2, <1>4, <2>1, <2>2, <2>4, <3>1 DEF DetectorMoves, Clean, Flushed
  <2> QED
    BY <2>3, <2>4
<1>5. CASE count' = 0 /\ (outclk' <=> ~outclk)
  <2>1. count >= 3 /\ count >= 2 /\ count >= 1
    BY <1>1, <1>2, <1>5 DEF DividerMoves
  <2>2. count' # 1 /\ count' # 2
    BY <1>5
  <2>3. CASE outclk
    <3>1. edge_age' = 3
      BY <1>3, <1>5, <2>1, <2>3, <1>1 DEF Aged
    <3> QED
      BY <1>2, <1>5, <2>1, <2>2, <2>3, <3>1 DEF DetectorMoves, Flushed
  <2>4. CASE ~outclk
    BY <1>2, <1>5, <2>1, <2>2, <2>4 DEF DetectorMoves, Flushed
  <2> QED
    BY <2>3, <2>4
<1> QED
  BY <1>2, <1>4, <1>5 DEF DividerMoves

RestInv == Ranges /\ Flushed /\ Aged /\ Clean /\ Detected

LEMMA AlwaysRests ==
  ASSUME WideStep
  PROVE  Spec => []RestInv
<1>1. Init => RestInv
  <2> SUFFICES ASSUME Init PROVE RestInv
    OBVIOUS
  <2>1. div_clk_count \in Counts
    BY DefaultIsACount DEF Init, SpeedInit
  <2>2. Ranges
    <3>1. {outclk, Q_A, Q_B, Q_C, Q_D} \subseteq BOOLEAN
      BY DEF Init, DividerInit, DetectorInit
    <3>2. count \in 0 .. TopCount + CountStep
      BY SpeedAssumption DEF Init, DividerInit
    <3>3. edge_age \in 0 .. 3 /\ off_limit \in 0 .. Settle
      BY DEF Init, Settle
    <3> QED
      BY <2>1, <3>1, <3>2, <3>3 DEF Ranges
  <2>3. Flushed /\ Aged /\ Clean /\ Detected
    BY DEF Init, DividerInit, DetectorInit, Flushed, Aged, Clean, Detected, out_sync_sig
  <2> QED
    BY <2>2, <2>3 DEF RestInv
<1>2. RestInv /\ [Next]_vars => RestInv'
  <2> SUFFICES ASSUME RestInv, [Next]_vars PROVE RestInv'
    OBVIOUS
  <2>1. CASE UNCHANGED vars
    <3>1. Ranges'
      BY <2>1 DEF vars, dividerVars, detectorVars, RestInv, Ranges, Counts
    <3>2. Detected'
      BY <2>1, DetectedNext DEF RestInv
    <3>3. Flushed' /\ Aged' /\ Clean'
      BY <2>1 DEF vars, dividerVars, detectorVars, RestInv, Flushed, Aged, Clean
    <3> QED
      BY <3>1, <3>2, <3>3 DEF RestInv
  <2>2. CASE Next
    BY <2>2, RangesNext, FlushedNext, AgedNext, CleanNext, DetectedNext DEF RestInv
  <2> QED
    BY <2>1, <2>2
<1> QED
  BY <1>1, <1>2, PTL DEF Spec

\* Away from the lowest count each rising edge makes one pulse two cycles later
\* and nothing else makes one, however the limit moved under the running count.
THEOREM PulsePerEdgeCorrect ==
  ASSUME WideStep
  PROVE  Spec => []PulsePerEdge
<1>1. RestInv => PulsePerEdge
  <2> SUFFICES ASSUME RestInv, off_limit = 4
               PROVE  out_sync_sig <=> edge_age = 2
    BY DEF PulsePerEdge, Settle
  <2>1. count \in Nat
    BY DEF RestInv, Ranges
  <2>2. CASE count < 3
    <3>1. off_limit > count /\ (count = 0 \/ count = 1 \/ count = 2)
          /\ (count >= 1 \/ count = 0) /\ (count >= 2 \/ count = 0 \/ count = 1)
      BY <2>1, <2>2
    <3>2. outclk => edge_age = count
      BY <2>2 DEF RestInv, Aged
    <3>3. ~outclk => edge_age = 3
      BY <3>1 DEF RestInv, Clean
    <3>4. CASE outclk
      BY <3>1, <3>2, <3>4 DEF RestInv, Clean, Flushed, out_sync_sig
    <3>5. CASE ~outclk
      BY <3>1, <3>3, <3>5 DEF RestInv, Clean, Flushed, out_sync_sig
    <3> QED
      BY <3>4, <3>5
  <2>3. CASE ~(count < 3)
    <3>1. count >= 3 /\ edge_age = 3
      BY <2>1, <2>3 DEF RestInv, Ranges, Aged
    <3> QED
      BY <3>1 DEF RestInv, Flushed, out_sync_sig
  <2> QED
    BY <2>2, <2>3
<1> QED
  BY <1>1, AlwaysRests, PTL
-----------------------------------------------------------------------------
\* The longest phase.
Half == TopCount + CountStep + 1

\* The longest time to the next pulse, by what the flip-flops hold.
DueIn(a, b, c, high, n) ==
  IF b /\ ~c THEN 1
  ELSE IF a /\ ~b THEN 2
  ELSE IF high THEN IF a THEN 3 * Half + 4 - n ELSE 2 * Half + 2 - n
  ELSE IF b THEN 2 * Half + 4
  ELSE IF c THEN 2 * Half + 3
  ELSE Half + 2 - n

\* A rise that is lost comes after a short phase, and the next one is not lost.
Due ==
  /\ pulse_age \in Nat
  /\ pulse_age + DueIn(Q_A, Q_B, Q_C, outclk, count) <= 4 * Half

LEMMA HalfIsLong ==
  ASSUME WideStep
  PROVE  Half \in Nat /\ Half >= 4 /\ 2 * Longest = 4 * Half
  BY SpeedAssumption DEF WideStep, Half, Longest

LEMMA DueBounds ==
  ASSUME WideStep, NEW a, NEW b, NEW c, NEW high, NEW n \in Nat, n <= Half - 1
  PROVE  /\ DueIn(a, b, c, high, n) \in Nat
         /\ DueIn(a, b, c, high, n) <= 3 * Half + 4
         /\ ~(b /\ ~c) => DueIn(a, b, c, high, n) >= 2
  BY HalfIsLong DEF DueIn

LEMMA DueNext ==
  ASSUME WideStep, RestInv, Due, Next
  PROVE  Due'
<1>1. /\ count \in Nat /\ count <= Half - 1
      /\ Half \in Nat /\ Half >= 4 /\ 2 * Longest = 4 * Half
  BY HalfIsLong, SpeedAssumption DEF RestInv, Ranges, Half
<1>2. DetectorMoves /\ DividerMoves
  BY CycleMoves DEF RestInv
<1>3. out_sync_sig' <=> Q_B /\ ~Q_C
  BY <1>2 DEF DetectorMoves, out_sync_sig
<1>4. count' \in Nat /\ count' <= Half - 1 /\ (count' = 0 \/ count' = count + 1)
  BY <1>1, <1>2, SpeedAssumption DEF DividerMoves, Half
<1>5. CASE Q_B /\ ~Q_C
  <2>1. pulse_age' = 0
    BY <1>3, <1>5, CycleMoves DEF Observe, RestInv
  <2>2. /\ DueIn(Q_A', Q_B', Q_C', outclk', count') \in Nat
        /\ DueIn(Q_A', Q_B', Q_C', outclk', count') <= 3 * Half + 4
    BY <1>4, DueBounds
  <2> QED
    BY <1>1, <2>1, <2>2 DEF Due
<1>6. CASE ~(Q_B /\ ~Q_C)
  <2>1. pulse_age \in Nat /\ pulse_age + DueIn(Q_A, Q_B, Q_C, outclk, count) <= 4 * Half
    BY DEF Due
  <2>2. DueIn(Q_A, Q_B, Q_C, outclk, count) \in Nat /\ DueIn(Q_A, Q_B, Q_C, outclk, count) >= 2
    BY <1>1, <1>6, DueBounds
  <2>3. pulse_age' = pulse_age + 1
    BY <1>1, <1>3, <1>6, <2>1, <2>2, CycleMoves DEF Observe, RestInv
  <2>4. DueIn(Q_A', Q_B', Q_C', outclk', count') <= DueIn(Q_A, Q_B, Q_C, outclk, count) - 1
    <3>1. CASE Q_A /\ ~Q_B
      <4>1. Q_B' /\ ~Q_C'
        BY <1>2, <3>1 DEF DetectorMoves
      <4> QED
        BY <3>1, <4>1 DEF DueIn
    <3>2. CASE Q_A /\ Q_B /\ outclk
      <4>1. Q_C /\ Q_B' /\ Q_C'
        BY <1>2, <1>6, <3>2 DEF DetectorMoves
      <4>2. CASE outclk'
        <5>1. Q_A' /\ count' = count + 1
          BY <1>2, <3>2, <4>2 DEF DetectorMoves, DividerMoves
        <5> QED
          BY <1>1, <3>2, <4>1, <4>2, <5>1 DEF DueIn
      <4>3. CASE ~outclk'
        <5>1. ~Q_A'
          BY <1>2, <3>2, <4>3 DEF DetectorMoves
        <5> QED
          BY <1>1, <3>2, <4>1, <4>3, <5>1 DEF DueIn
      <4> QED
        BY <4>2, <4>3
    <3>3. CASE ~Q_A /\ outclk
      <4>1. ~Q_B /\ ~Q_A' /\ ~Q_B' /\ ~Q_C'
        BY <1>2, <3>3 DEF DetectorMoves, RestInv, Flushed
      <4>2. outclk' => count' = count + 1
        BY <1>2, <3>3 DEF DividerMoves
      <4>3. ~outclk' => count' = 0
        BY <1>2, <3>3 DEF DividerMoves
      <4> QED
        BY <1>1, <3>3, <4>1, <4>2, <4>3 DEF DueIn
    <3>4. CASE ~Q_A /\ ~outclk
      <4>1. ~Q_B' /\ (Q_C' <=> Q_B) /\ (outclk' \/ ~Q_A')
        BY <1>2, <3>4 DEF DetectorMoves
      <4>2. outclk' => count' = 0
        BY <1>2, <3>4 DEF DividerMoves
      <4>3. ~outclk' => count' = count + 1
        BY <1>2, <3>4 DEF DividerMoves
      <4>4. ~Q_C /\ outclk' => Q_A'
        BY <1>2, <3>4 DEF DetectorMoves
      <4> QED
        BY <1>1, <1>6, <3>4, <4>1, <4>2, <4>3, <4>4 DEF DueIn
    <3>5. Q_A /\ ~outclk => Q_B /\ ~Q_C
      BY DEF RestInv, Detected
    <3> QED
      BY <1>6, <3>1, <3>2, <3>3, <3>4, <3>5
  <2>5. DueIn(Q_A', Q_B', Q_C', outclk', count') \in Nat
    BY <1>4, DueBounds
  <2> QED
    BY <1>1, <2>1, <2>2, <2>3, <2>4, <2>5 DEF Due
<1> QED
  BY <1>5, <1>6

\* The counts stay among the multiples of the step within one step of the
\* boundary, and no two pulses are further apart than two of the longest
\* periods, whichever way the race at a rise goes.
THEOREM SampleClockTypeCorrect ==
  ASSUME WideStep
  PROVE  Spec => []TypeOK
<1>1. Init => Due
  <2> SUFFICES ASSUME Init PROVE Due
    OBVIOUS
  <2>1. count = 0 /\ pulse_age = 0 /\ ~Q_A /\ ~Q_B /\ ~Q_C /\ ~outclk
    BY DEF Init, DividerInit, DetectorInit
  <2>2. DueIn(Q_A, Q_B, Q_C, outclk, count) = Half + 2
    BY <2>1, HalfIsLong DEF DueIn
  <2> QED
    BY <2>1, <2>2, HalfIsLong DEF Due
<1>2. RestInv /\ Due /\ [Next]_vars => Due'
  <2>1. UNCHANGED vars /\ Due => Due'
    BY DEF vars, dividerVars, detectorVars, Due, DueIn, Half
  <2> QED
    BY <2>1, DueNext
<1>3. RestInv /\ Due => TypeOK
  <2> SUFFICES ASSUME RestInv, Due PROVE TypeOK
    OBVIOUS
  <2>1. count \in Nat /\ count <= Half - 1
    BY HalfIsLong, SpeedAssumption DEF RestInv, Ranges, Half
  <2>2. DueIn(Q_A, Q_B, Q_C, outclk, count) \in Nat
    BY <2>1, DueBounds
  <2>3. pulse_age \in 0 .. 2 * Longest
    BY <2>2, HalfIsLong DEF Due
  <2> QED
    BY <2>3 DEF RestInv, Ranges, Counts, TypeOK
<1> QED
  BY <1>1, <1>2, <1>3, AlwaysRests, PTL DEF Spec
=============================================================================
