-------------------------- MODULE LedMeter_proofs ----------------------------
(***************************************************************************)
(* Proofs about the LED meter: its interrupt routine is not nested,        *)
(* interrupts at any instruction leave the main program undisturbed, and,  *)
(* when samples come no faster than the routine can serve them, each is    *)
(* counted, the sum is exact and the bar shows the average.                *)
(***************************************************************************)
EXTENDS LedMeter, FiniteSetTheorems, WellFoundedInduction, TLAPS

\* The interrupt routine, which has one place to save registers and flags, is
\* never interrupted itself: acceptance disables interrupts and clears the
\* latch, and only RETURNI enables them again.
THEOREM NoNestingCorrect == Spec => []NoNesting
<1>1. Init => NoNesting
  BY DEF Init, NoNesting
<1>2. NoNesting /\ [Next]_vars => NoNesting'
  <2> SUFFICES ASSUME NoNesting, [Next]_vars
               PROVE  NoNesting'
    OBVIOUS
  <2>1. CASE UNCHANGED vars
    BY <2>1 DEF vars, meterVars, NoNesting
  <2>2. ASSUME NEW event \in BOOLEAN, Processor, Latch(event)
        PROVE  NoNesting'
    <3>1. CASE Interrupt
      BY <3>1, <2>2 DEF Interrupt, Latch, NoNesting
    <3>2. CASE Main \/ Leave
      BY <3>2 DEF Main, Leave, NoNesting
    <3>3. CASE Work
      BY <3>3, <2>2 DEF Work, Latch, NoNesting
    <3>4. CASE Input \/ Count \/ Show
      <4>1. isr # "none" /\ interrupt_enable' = interrupt_enable
        BY <3>4 DEF Input, Count, Show
      <4> QED
        BY <4>1, <2>2 DEF Latch, NoNesting
    <3> QED
      BY <2>2, <3>1, <3>2, <3>3, <3>4 DEF Processor
  <2> QED
    BY <2>1, <2>2 DEF Next, Tick
<1> QED
  BY <1>1, <1>2, PTL DEF Spec
-----------------------------------------------------------------------------
\* The registers are an array throughout, whatever they hold.
RegistersFixed ==
  /\ s = [r \in Registers |-> s[r]]
  /\ isr \in {"none", "input", "count", "show", "leave"}

LEMMA StepOfMain ==
  ASSUME RegistersFixed, BlinkerStep
  PROVE  s' = [r \in Registers |-> s'[r]]
<1> USE DEF RegistersFixed, Registers
<1>1. CASE ColdStart
  BY <1>1 DEF ColdStart
<1>2. CASE SubLoop
  BY <1>2 DEF SubLoop
<1>3. CASE LoadLoop
  BY <1>3 DEF LoadLoop
<1>4. ASSUME NEW from, NEW to, NEW light, LoadLight(from, to, light)
      PROVE  s' = [r \in Registers |-> s'[r]]
  BY <1>4 DEF LoadLight
<1>5. ASSUME NEW from, NEW to, OutputLight(from, to) \/ JumpLoop
      PROVE  s' = [r \in Registers |-> s'[r]]
  BY <1>5 DEF OutputLight, JumpLoop
<1> QED
  BY <1>1, <1>2, <1>3, <1>4, <1>5 DEF BlinkerStep

LEMMA AlwaysFixed == Spec => []RegistersFixed
<1> USE DEF RegistersFixed
<1>1. Init => RegistersFixed
  BY DEF Init, BlinkerInit
<1>2. RegistersFixed /\ [Next]_vars => RegistersFixed'
  <2> SUFFICES ASSUME RegistersFixed, [Next]_vars
               PROVE  RegistersFixed'
    OBVIOUS
  <2>1. CASE UNCHANGED vars
    BY <2>1 DEF vars, meterVars, blinkerVars
  <2>2. CASE Processor
    <3>1. CASE Interrupt \/ Work
      BY <3>1 DEF Interrupt, Work, blinkerVars
    <3>2. CASE Main
      BY <3>2, StepOfMain DEF Main
    <3>3. CASE Input
      BY <3>3 DEF Input
    <3>4. CASE Count
      BY <3>4 DEF Count
    <3>5. CASE Show
      BY <3>5 DEF Show
    <3>6. CASE Leave
      BY <3>6 DEF Leave
    <3> QED
      BY <2>2, <3>1, <3>2, <3>3, <3>4, <3>5, <3>6 DEF Processor
  <2> QED
    BY <2>1, <2>2 DEF Next, Tick
<1> QED
  BY <1>1, <1>2, PTL DEF Spec
-----------------------------------------------------------------------------
\* What the main program sees.
SeenRegisters ==
  IF isr \in {"none", "input"} THEN s
  ELSE [r \in Registers |-> IF r \in Preserved THEN preserve[r] ELSE s[r]]
SeenZero == IF isr = "none" THEN zero ELSE zero_saved
Seen == <<at, level, return, SeenRegisters, SeenZero, led_0>>

\* Outside the routine the main program sees the registers themselves.
LEMMA MainIsSeen ==
  ASSUME Main
  PROVE  Uninterrupted!BlinkerStep
<1>1. isr = "none" /\ isr' = "none" /\ BlinkerStep
  BY DEF Main
<1>2. SeenRegisters = s /\ SeenZero = zero /\ SeenRegisters' = s' /\ SeenZero' = zero'
  BY <1>1 DEF SeenRegisters, SeenZero
<1> QED
  BY <1>1, <1>2
     DEF SeenRegisters, SeenZero, BlinkerStep, Uninterrupted!BlinkerStep,
         ColdStart, Uninterrupted!ColdStart, LoadLight, Uninterrupted!LoadLight,
         OutputLight, Uninterrupted!OutputLight, LoadLoop, Uninterrupted!LoadLoop,
         SubLoop, Uninterrupted!SubLoop, JumpLoop, Uninterrupted!JumpLoop,
         EnterBody, Uninterrupted!EnterBody, ReturnFrom, Uninterrupted!ReturnFrom

\* An instruction of the routine changes nothing that the main program sees.
LEMMA RoutineIsUnseen ==
  ASSUME RegistersFixed, Interrupt \/ Work \/ Input \/ Count \/ Show \/ Leave
  PROVE  UNCHANGED Seen
<1> USE DEF RegistersFixed, Seen, SeenRegisters, SeenZero
<1>1. CASE Interrupt
  BY <1>1 DEF Interrupt, blinkerVars
<1>2. CASE Work
  BY <1>2 DEF Work, blinkerVars
<1>3. CASE Input
  BY <1>3 DEF Input, Registers, Preserved
<1>4. CASE Count
  <2>1. \A r \in Registers \ Preserved : s'[r] = s[r]
    BY <1>4 DEF Count, Registers, Preserved
  <2>2. isr = "count" /\ isr' \in {"show", "leave"}
        /\ UNCHANGED <<at, level, return, led_0, preserve, zero_saved>>
    BY <1>4 DEF Count
  <2> QED
    BY <2>1, <2>2
<1>5. CASE Show
  BY <1>5 DEF Show, Registers, Preserved
<1>6. CASE Leave
  BY <1>6 DEF Leave, Registers, Preserved
<1> QED
  BY <1>1, <1>2, <1>3, <1>4, <1>5, <1>6

\* With interrupts at any instruction, at any rate and with any samples, the
\* blinking program does what it does without them: whatever the routine
\* changes of its registers and flags is back when it returns.
THEOREM BlinksUndisturbedCorrect == Spec => BlinksUndisturbed
<1>1. Init => Uninterrupted!BlinkerInit
  <2> SUFFICES ASSUME Init
               PROVE  Uninterrupted!BlinkerInit
    OBVIOUS
  <2>1. isr = "none" /\ zero = FALSE
    BY DEF Init, BlinkerInit
  <2>2. (IF isr = "none" THEN zero ELSE zero_saved) = FALSE
    BY <2>1
  <2> QED
    BY <2>1, <2>2
       DEF Init, BlinkerInit, Uninterrupted!BlinkerInit, Registers, Uninterrupted!Registers
<1>2. RegistersFixed /\ [Next]_vars
        => [Uninterrupted!BlinkerStep]_(Uninterrupted!blinkerVars)
  <2> SUFFICES ASSUME RegistersFixed, [Next]_vars
               PROVE  [Uninterrupted!BlinkerStep]_(Uninterrupted!blinkerVars)
    OBVIOUS
  <2>1. CASE UNCHANGED vars
    BY <2>1 DEF vars, meterVars, blinkerVars, Uninterrupted!blinkerVars
  <2>2. CASE Processor
    <3>1. UNCHANGED Seen => UNCHANGED (Uninterrupted!blinkerVars)
      BY DEF Seen, SeenRegisters, SeenZero, Uninterrupted!blinkerVars
    <3> QED
      BY <2>2, <3>1, MainIsSeen, RoutineIsUnseen DEF Processor
  <2> QED
    BY <2>1, <2>2 DEF Next, Tick
<1> QED
  BY <1>1, <1>2, AlwaysFixed, PTL DEF Spec, BlinksUndisturbed, Uninterrupted!BlinkerSpec
-----------------------------------------------------------------------------
\* A power of two is the number of subsets, so that it grows.
LEMMA PowersOfTwo ==
  ASSUME NEW k \in Nat
  PROVE  /\ 2^k \in Nat /\ 2^k >= 1
         /\ \A m \in 0 .. k : 2^m <= 2^k
<1>1. ASSUME NEW m \in Nat
      PROVE  /\ IsFiniteSet(SUBSET (1 .. m))
             /\ Cardinality(SUBSET (1 .. m)) = 2^m
  <2>1. IsFiniteSet(1 .. m) /\ Cardinality(1 .. m) = m
    BY FS_Interval
  <2> QED
    BY <2>1, FS_SUBSET
<1>2. ASSUME NEW m \in 0 .. k
      PROVE  2^m <= 2^k
  <2>1. SUBSET (1 .. m) \in SUBSET (SUBSET (1 .. k)) /\ m \in Nat
    OBVIOUS
  <2>2. Cardinality(SUBSET (1 .. m)) <= Cardinality(SUBSET (1 .. k))
    BY <1>1, <2>1, FS_Subset
  <2> QED
    BY <1>1, <2>1, <2>2
<1>3. 2^k \in Nat
  BY <1>1, FS_CardinalityType
<1>4. 2^0 <= 2^k
  <2>1. 0 \in 0 .. k
    OBVIOUS
  <2> QED
    BY <1>2, <2>1, Zenon
<1>5. 2^k >= 1
  <2>1. 2^0 = 1
    OBVIOUS
  <2> DEFINE p == 2^k
  <2>2. p \in Nat /\ 1 <= p
    BY <1>3, <1>4, <2>1
  <2> HIDE DEF p
  <2>3. p >= 1
    BY <2>2
  <2> QED
    BY <2>3 DEF p
<1> QED
  BY <1>2, <1>3, <1>5

\* The comparisons of the routine end at the first threshold that is reached.
LEMMA LevelIsFirst ==
  ASSUME NEW high \in Nat
  PROVE  /\ Level(high) \in 1 .. Width
         /\ Level(high) = Width \/ high >= 2^(Width - Level(high))
         /\ \A j \in 1 .. Level(high) - 1 : high < 2^(Width - j)
<1> DEFINE Reached == {i \in 1 .. Width : i = Width \/ high >= 2^(Width - i)}
<1>1. Width \in Reached /\ Reached \subseteq Nat
  BY MeterAssumption
<1>2. PICK i \in Reached : \A y \in Reached : ~(<<y, i>> \in OpToRel(<, Nat))
  <2>1. Reached # {}
    BY <1>1
  <2> HIDE DEF Reached
  <2> QED
    BY <1>1, <2>1, WFMin, NatLessThanWellFounded
<1>3. \A j \in 1 .. i - 1 : j \notin Reached
  <2> SUFFICES ASSUME NEW j \in Reached, j \in 1 .. i - 1 PROVE FALSE
    OBVIOUS
  <2>1. j \in Nat /\ i \in Nat /\ j < i
    BY <1>1
  <2>2. <<j, i>> \in OpToRel(<, Nat)
    BY <2>1 DEF OpToRel
  <2> QED
    BY <1>2, <2>2
<1>4. \A j \in 1 .. i - 1 : high < 2^(Width - j)
  <2> SUFFICES ASSUME NEW j \in 1 .. i - 1 PROVE high < 2^(Width - j)
    OBVIOUS
  <2>1. j \in 1 .. Width /\ Width - j \in Nat
    BY MeterAssumption
  <2>2. 2^(Width - j) \in Nat
    BY <2>1, PowersOfTwo
  <2>3. ~(high >= 2^(Width - j))
    BY <1>3, <2>1
  <2> QED
    BY <2>2, <2>3
<1>5. \E l \in 1 .. Width : /\ l = Width \/ high >= 2^(Width - l)
                            /\ \A j \in 1 .. l - 1 : high < 2^(Width - j)
  BY <1>4
<1> QED
  BY <1>5 DEF Level

LEMMA BarIsByte ==
  ASSUME NEW high \in Nat
  PROVE  /\ Bar(high) \in Byte
         /\ ToShow(high) \in 0 .. 2 * Width + 1
<1>1. Level(high) \in 1 .. Width /\ Width \in Nat
  BY LevelIsFirst, MeterAssumption
<1> DEFINE p == 2^(Level(high) - 1)
<1>2. Level(high) - 1 \in 0 .. Width
  BY <1>1
<1>3. p \in Nat /\ p >= 1
  BY <1>2, PowersOfTwo
<1>4. p <= 2^Width
  BY <1>1, <1>2, PowersOfTwo
<1>5. Base - p \in Byte
  <2> HIDE DEF p
  <2> QED
    BY <1>3, <1>4, MeterAssumption, BlinkerAssumption DEF Byte
<1>6. ToShow(high) \in 0 .. 2 * Width + 1
  BY <1>1 DEF ToShow
<1> QED
  BY <1>5, <1>6 DEF Bar

\* The bar of a high byte has as many lights as it has bits, and at least one.
LEMMA BarIsLights ==
  ASSUME NEW high \in Nat
  PROVE  Bar(high) = Base - 2^(Width - Lights(high))
<1> DEFINE L == Level(high)
           bits == {k \in 0 .. Width - 1 : 2^k <= high}
<1>1. /\ L \in 1 .. Width /\ Width \in Nat
      /\ L = Width \/ high >= 2^(Width - L)
      /\ \A j \in 1 .. L - 1 : high < 2^(Width - j)
  BY LevelIsFirst, MeterAssumption
<1>2. Bar(high) = Base - 2^(L - 1)
  BY DEF Bar
<1> HIDE DEF L
<1>3. ASSUME NEW k \in 0 .. Width - 1, k > Width - L
      PROVE  k \notin bits
  <2>1. Width - k \in 1 .. L - 1 /\ Width - (Width - k) = k
    BY <1>1, <1>3
  <2>2. high < 2^k
    BY <1>1, <2>1
  <2>3. 2^k \in Nat
    BY PowersOfTwo
  <2>4. ~(2^k <= high)
    BY <2>2, <2>3
  <2> QED
    BY <2>4
<1>4. CASE L < Width
  <2>1. ASSUME NEW k \in 0 .. Width - L
        PROVE  k \in bits
    <3>1. k \in 0 .. Width - 1 /\ Width - L \in Nat
      BY <1>1
    <3>2. 2^k <= 2^(Width - L) /\ 2^k \in Nat /\ 2^(Width - L) \in Nat
      BY <3>1, PowersOfTwo
    <3>3. 2^(Width - L) <= high
      BY <1>1, <1>4, <3>2
    <3>4. 2^k <= high
      BY <3>2, <3>3
    <3> QED
      BY <3>1, <3>4
  <2>2. bits = 0 .. Width - L
    <3>1. bits \subseteq 0 .. Width - L
      BY <1>1, <1>3
    <3> QED
      BY <2>1, <3>1
  <2>3. Cardinality(bits) = Width - L + 1
    <3>1. Width - L \in Int /\ ~(0 > Width - L)
      BY <1>1
    <3>2. Cardinality(0 .. Width - L) = Width - L - 0 + 1
      BY <3>1, FS_Interval
    <3> HIDE DEF bits
    <3> QED
      BY <1>1, <2>2, <3>2
  <2>4. Lights(high) = Width - L + 1
    BY <1>1, <1>4, <2>3 DEF Lights
  <2>5. Width - Lights(high) = L - 1
    BY <1>1, <2>4
  <2> QED
    BY <1>2, <2>5, Zenon
<1>5. CASE L = Width
  <2>1. bits \subseteq {0}
    BY <1>1, <1>3, <1>5
  <2>2. IsFiniteSet({0}) /\ Cardinality({0}) = 1
    BY FS_Singleton
  <2>3. Cardinality(bits) \in Nat /\ Cardinality(bits) <= 1
    BY <2>1, <2>2, FS_Subset, FS_CardinalityType
  <2>4. Lights(high) = 1
    BY <2>3 DEF Lights
  <2>5. Width - Lights(high) = L - 1
    BY <1>5, <2>4
  <2> QED
    BY <1>2, <2>5, Zenon
<1> QED
  BY <1>1, <1>4, <1>5
-----------------------------------------------------------------------------
LEMMA MagnitudeBounds ==
  ASSUME NEW x \in Byte
  PROVE  Magnitude(x) \in Byte /\ Magnitude(x) <= Base - Base \div 2
<1>1. Base \in Nat /\ Base >= 2 /\ Base \div 2 \in Nat
      /\ 2 * (Base \div 2) <= Base /\ Base \div 2 >= 1
  BY BlinkerAssumption
<1> QED
  BY <1>1 DEF Magnitude, Byte

LEMMA DividedByBase ==
  ASSUME NEW a \in Nat
  PROVE  /\ a % Base \in Byte /\ a \div Base \in Nat
         /\ a % Base = a - Base * (a \div Base)
<1>1. Base \in Nat /\ Base > 0
  BY BlinkerAssumption
<1>2. a % Base \in Nat /\ a % Base <= Base - 1
  BY <1>1
<1>3. a \div Base \in Nat
  BY <1>1
<1>4. a % Base = a - Base * (a \div Base)
  BY <1>1
<1> QED
  BY <1>1, <1>2, <1>3, <1>4 DEF Byte

LEMMA BlinkerTypeNext ==
  ASSUME BlinkerTypeOK, BlinkerStep
  PROVE  BlinkerTypeOK'
<1> USE BlinkerAssumption DEF BlinkerTypeOK, Labels
<1>1. 0 \in Byte /\ 1 \in Byte /\ Delay \in [0 .. Top -> Byte]
  BY DEF Byte
<1>2. level \in Registers /\ s[level] \in Byte /\ s[1] \in Byte
  BY DEF Registers
<1>3. CASE ColdStart
  BY <1>1, <1>3 DEF ColdStart, Registers
<1>4. ASSUME NEW from, NEW to \in Labels, NEW light \in {0, 1}, LoadLight(from, to, light)
      PROVE  BlinkerTypeOK'
  BY <1>1, <1>4 DEF LoadLight, Registers
<1>5. ASSUME NEW from, NEW to \in {"turn_off", "main_program"}, OutputLight(from, to)
      PROVE  BlinkerTypeOK'
  <2>1. s[1] % 2 \in {0, 1}
    <3>1. s[1] \in Nat
      BY <1>2 DEF Byte
    <3> QED
      BY <3>1
  <2> QED
    BY <1>5, <2>1 DEF OutputLight
<1>6. EnterBody => at' \in Labels /\ level' \in 0 .. Top
  BY DEF EnterBody
<1>7. ReturnFrom => at' \in Labels /\ level' \in 0 .. Top
  BY DEF ReturnFrom
<1>8. CASE LoadLoop
  <2>1. Delay[level] \in Byte
    BY <1>1
  <2> QED
    BY <1>6, <1>8, <2>1 DEF LoadLoop
<1>9. CASE SubLoop
  <2>1. (s[level] + Base - 1) % Base \in Byte
    BY <1>2 DEF Byte
  <2>2. s' \in [Registers -> Byte] /\ zero' \in BOOLEAN
    BY <1>9, <2>1 DEF SubLoop
  <2> QED
    BY <1>9, <2>2 DEF SubLoop
<1>10. CASE JumpLoop
  BY <1>6, <1>7, <1>10 DEF JumpLoop
<1> QED
  BY <1>3, <1>4, <1>5, <1>8, <1>9, <1>10 DEF BlinkerStep

LEMMA MeterTypeNext ==
  ASSUME TypeOK, Processor, NEW event \in BOOLEAN, Latch(event), Sample(event)
  PROVE  TypeOK'
<1> USE BlinkerAssumption, MeterAssumption
<1>1. /\ s \in [Registers -> Byte] /\ preserve \in [Preserved -> Byte]
      /\ input_data \in Byte /\ zero \in BOOLEAN /\ zero_saved \in BOOLEAN
      /\ {counter, stored_data, carry_stored_data, led} \subseteq Byte
      /\ interrupt_enable \in BOOLEAN /\ isr \in {"none", "input", "count", "show", "leave"}
      /\ busy \in 0 .. Longest
  BY DEF TypeOK, BlinkerTypeOK
<1>2. 0 \in Byte /\ Base \in Nat /\ Byte \subseteq Nat
  BY DEF Byte
<1>3. Longest = 34 + 2 * Width /\ Longest \in Nat
  BY DEF Longest, ToInput
<1>4. interrupt_latch' \in BOOLEAN
  BY DEF Latch
<1>5. gap' \in 0 .. MinGap
  BY DEF Sample, TypeOK
<1>6. input_data' \in Byte
  BY <1>1 DEF Sample
<1>7. /\ BlinkerTypeOK'
      /\ isr' \in {"none", "input", "count", "show", "leave"}
      /\ busy' \in 0 .. Longest
      /\ {interrupt_enable', zero_saved'} \subseteq BOOLEAN
      /\ preserve' \in [Preserved -> Byte]
      /\ {counter', stored_data', carry_stored_data', led'} \subseteq Byte
  <2>1. CASE Interrupt
    <3>1. BlinkerTypeOK'
      BY <2>1 DEF Interrupt, blinkerVars, TypeOK, BlinkerTypeOK
    <3>2. busy' \in 0 .. Longest
      BY <1>3, <2>1 DEF Interrupt, ToInput
    <3>3. {interrupt_enable', zero_saved'} \subseteq BOOLEAN
      BY <1>1, <2>1 DEF Interrupt
    <3> QED
      BY <1>1, <2>1, <3>1, <3>2, <3>3 DEF Interrupt
  <2>2. CASE Main
    <3>1. BlinkerTypeOK'
      BY <2>2, BlinkerTypeNext DEF Main, TypeOK
    <3>2. {interrupt_enable', zero_saved'} \subseteq BOOLEAN
      BY <1>1, <2>2 DEF Main
    <3> QED
      BY <1>1, <2>2, <3>1, <3>2 DEF Main
  <2>3. CASE Work
    <3>1. BlinkerTypeOK'
      BY <2>3 DEF Work, blinkerVars, TypeOK, BlinkerTypeOK
    <3>2. busy' \in 0 .. Longest
      BY <1>1, <1>3, <2>3 DEF Work
    <3>3. {interrupt_enable', zero_saved'} \subseteq BOOLEAN
      BY <1>1, <2>3 DEF Work
    <3> QED
      BY <1>1, <2>3, <3>1, <3>2, <3>3 DEF Work
  <2>4. CASE Input
    <3>1. s' \in [Registers -> Byte] /\ preserve' \in [Preserved -> Byte]
      BY <1>1, <2>4 DEF Input, Registers, Preserved
    <3>2. BlinkerTypeOK'
      BY <2>4, <3>1 DEF Input, TypeOK, BlinkerTypeOK
    <3>3. busy' \in 0 .. Longest
      BY <1>3, <2>4 DEF Input, ToCount
    <3>4. {interrupt_enable', zero_saved'} \subseteq BOOLEAN
      BY <1>1, <2>4 DEF Input
    <3> QED
      BY <1>1, <2>4, <3>1, <3>2, <3>3, <3>4 DEF Input
  <2>5. CASE Count
    <3> DEFINE low == s[2] + Magnitude(s[1])
    <3>1. s[0] \in Byte /\ s[2] \in Byte /\ s[3] \in Byte /\ Magnitude(s[1]) \in Byte
      BY <1>1, MagnitudeBounds DEF Registers
    <3>2. low \in Nat /\ s[0] + 1 \in Nat /\ s[3] \in Nat
      <4>1. low \in Nat
        BY <3>1 DEF Byte
      <4>2. s[0] + 1 \in Nat
        BY <3>1 DEF Byte
      <4>3. s[3] \in Nat
        BY <3>1 DEF Byte
      <4> QED
        BY <4>1, <4>2, <4>3
    <3>3. (s[0] + 1) % Base \in Byte /\ low % Base \in Byte /\ (s[3] + low \div Base) % Base \in Byte
      <4> HIDE DEF low
      <4> DEFINE high == low \div Base
      <4>1. high \in Nat
        BY <3>2, DividedByBase
      <4>2. s[3] + high \in Nat
        BY <3>2, <4>1
      <4> QED
        BY <3>2, <4>2, DividedByBase
    <3>4. s' \in [Registers -> Byte]
      BY <1>1, <2>5, <3>1, <3>3 DEF Count
    <3>5. zero' \in BOOLEAN
      BY <2>5 DEF Count
    <3>6. BlinkerTypeOK'
      BY <2>5, <3>4, <3>5 DEF Count, TypeOK, BlinkerTypeOK
    <3>7. s'[3] \in Nat
      <4>1. s'[3] \in Byte
        BY <3>4 DEF Registers
      <4> QED
        BY <1>2, <4>1
    <3>8. isr' \in {"none", "input", "count", "show", "leave"} /\ busy' \in 0 .. Longest
      <4>1. ToShow(s'[3]) \in 0 .. 2 * Width + 1
        BY <3>7, BarIsByte
      <4>2. \/ isr' = "show" /\ busy' = ToShow(s'[3])
            \/ isr' = "leave" /\ busy' = 8
        BY <2>5 DEF Count, ToLeave
      <4>3. busy' \in 0 .. Longest
        <5>1. CASE busy' = ToShow(s'[3])
          BY <1>3, <4>1, <5>1
        <5>2. CASE busy' = 8
          BY <1>3, <5>2
        <5> QED
          BY <4>2, <5>1, <5>2
      <4> QED
        BY <4>2, <4>3
    <3>9. {interrupt_enable', zero_saved'} \subseteq BOOLEAN
      BY <1>1, <2>5 DEF Count
    <3> QED
      BY <1>1, <2>5, <3>6, <3>8, <3>9 DEF Count
  <2>6. CASE Show
    <3>1. s' \in [Registers -> Byte]
      BY <1>1, <1>2, <2>6 DEF Show
    <3>2. BlinkerTypeOK'
      BY <2>6, <3>1 DEF Show, TypeOK, BlinkerTypeOK
    <3>3. s[3] \in Nat
      <4>1. s[3] \in Byte
        BY <1>1 DEF Registers
      <4> QED
        BY <1>2, <4>1
    <3>4. led' \in Byte
      BY <2>6, <3>3, BarIsByte DEF Show
    <3>5. busy' \in 0 .. Longest
      BY <1>3, <2>6 DEF Show, ToLeave
    <3>6. {interrupt_enable', zero_saved'} \subseteq BOOLEAN
      BY <1>1, <2>6 DEF Show
    <3> QED
      BY <1>1, <2>6, <3>2, <3>4, <3>5, <3>6 DEF Show
  <2>7. CASE Leave
    <3>1. s' \in [Registers -> Byte] /\ {counter', stored_data', carry_stored_data'} \subseteq Byte
      BY <1>1, <2>7 DEF Leave, Registers
    <3>2. BlinkerTypeOK'
      BY <1>1, <2>7, <3>1 DEF Leave, TypeOK, BlinkerTypeOK
    <3>3. {interrupt_enable', zero_saved'} \subseteq BOOLEAN
      BY <1>1, <2>7 DEF Leave
    <3> QED
      BY <1>1, <2>7, <3>1, <3>2, <3>3 DEF Leave
  <2> QED
    BY <2>1, <2>2, <2>3, <2>4, <2>5, <2>6, <2>7 DEF Processor
<1> QED
  BY <1>4, <1>5, <1>6, <1>7 DEF TypeOK

\* Registers, scratchpad and the LEDs hold bytes, and a routine has never more
\* before it than the longest one takes.
THEOREM MeterTypeCorrect == Spec => []TypeOK
<1>1. Init => TypeOK
  <2> SUFFICES ASSUME Init PROVE TypeOK
    OBVIOUS
  <2>1. 0 \in Byte /\ Longest \in Nat
    BY BlinkerAssumption, MeterAssumption DEF Byte, Longest, ToInput
  <2>2. BlinkerTypeOK
    <3>1. Top \in 0 .. Top
      BY BlinkerAssumption
    <3>2. s \in [Registers -> Byte]
      BY <2>1 DEF Init, BlinkerInit
    <3> QED
      BY <3>1, <3>2 DEF Init, BlinkerInit, BlinkerTypeOK, Labels
  <2>3. {interrupt_enable, interrupt_latch, zero_saved} \subseteq BOOLEAN
    BY DEF Init
  <2>4. busy \in 0 .. Longest /\ gap \in 0 .. MinGap
    BY <2>1, MeterAssumption DEF Init
  <2> QED
    BY <2>1, <2>2, <2>3, <2>4 DEF Init, TypeOK
<1>2. TypeOK /\ [Next]_vars => TypeOK'
  <2>1. TypeOK /\ UNCHANGED vars => TypeOK'
    BY DEF vars, meterVars, blinkerVars, TypeOK, BlinkerTypeOK
  <2> QED
    BY <2>1, MeterTypeNext DEF Next, Tick
<1> QED
  BY <1>1, <1>2, PTL DEF Spec
-----------------------------------------------------------------------------
\* Samples come no faster than the longest routine serves them.  The player of
\* Lab 3 is thousands of instructions apart.
Unhurried == MinGap > Longest

\* What is still before the routine, at most.
Remaining(place, n) ==
  CASE place = "input" -> n + 2 * Width + 25
    [] place = "count" -> n + 2 * Width + 15
    [] place = "show" -> n + 13
    [] place = "leave" -> n + 1

\* A routine that has begun ends before the next sample, and the sample it takes
\* is the one that called it.
Punctual ==
  /\ isr = "none" => busy = 0
  /\ isr = "none" /\ interrupt_latch => gap = 1
  /\ isr = "none" /\ ~interrupt_enable => at = "cold_start" /\ gap = 0
  /\ isr # "none" => gap + Remaining(isr, busy) <= Longest + 1
  /\ interrupt_latch \/ isr = "input" => input_data = taken
  /\ ~missed

\* The largest magnitude.
Largest == Base - Base \div 2

\* Where the sum is, at each place of the routine, and that it fits there.
Summed ==
  /\ isr \in {"none", "input"} =>
       /\ carry_stored_data * Base + stored_data = total
       /\ total <= counter * Largest
  /\ isr \in {"count", "show", "leave"} => s[3] * Base + s[2] = total
  /\ isr \in {"count", "leave"} => total <= s[0] * Largest

LEMMA RemainingBounds ==
  ASSUME NEW place \in {"input", "count", "show", "leave"}, NEW n \in Nat
  PROVE  /\ Remaining(place, n) \in Nat /\ Remaining(place, n) >= n + 1
         /\ Longest \in Nat /\ Longest = 34 + 2 * Width /\ Width \in Nat
  BY MeterAssumption DEF Remaining, Longest, ToInput

\* No sample comes before the processor is ready for it.
LEMMA SampleFindsReady ==
  ASSUME Unhurried, TypeOK, Punctual, Processor, Sample(TRUE)
  PROVE  isr = "none" /\ ~interrupt_latch /\ interrupt_enable
<1>1. gap \in Nat /\ gap >= MinGap /\ MinGap \in Nat /\ MinGap > Longest
      /\ Longest \in Nat /\ Longest >= 2
  BY RemainingBounds, MeterAssumption DEF Sample, TypeOK, Unhurried
<1>2. isr = "none"
  <2> SUFFICES ASSUME isr # "none" PROVE FALSE
    OBVIOUS
  <2>1. isr \in {"input", "count", "show", "leave"} /\ busy \in Nat
    BY DEF TypeOK
  <2>2. gap + Remaining(isr, busy) <= Longest + 1
    BY DEF Punctual
  <2>3. Remaining(isr, busy) \in Nat /\ Remaining(isr, busy) >= busy + 1
    BY <2>1, RemainingBounds
  <2> QED
    BY <1>1, <2>1, <2>2, <2>3
<1>3. gap # 1 /\ gap # 0
  BY <1>1
<1> QED
  BY <1>2, <1>3 DEF Punctual

LEMMA PunctualNext ==
  ASSUME Unhurried, TypeOK, NoNesting, Punctual, NEW event \in BOOLEAN, Tick(event)
  PROVE  Punctual'
<1>1. Processor /\ Latch(event) /\ Sample(event) /\ Observe(event)
  BY DEF Tick
<1>2. Longest \in Nat /\ Longest = 34 + 2 * Width /\ Width \in Nat /\ MinGap > Longest
      /\ gap \in Nat /\ busy \in Nat /\ MinGap \in Nat
  BY RemainingBounds, MeterAssumption DEF TypeOK, Unhurried
<1>3. CASE event
  <2>1. isr = "none" /\ ~interrupt_latch /\ interrupt_enable
    BY <1>1, <1>3, SampleFindsReady
  <2>2. Main
    BY <1>1, <2>1 DEF Processor, Interrupt, Work, Input, Count, Show, Leave, Punctual
  <2>3. isr' = "none" /\ busy' = 0 /\ interrupt_enable' /\ gap' = 1
    BY <1>1, <1>3, <2>1, <2>2 DEF Main, Sample, Punctual
  <2>4. interrupt_latch'
    BY <1>1, <1>3, <2>1, <2>3 DEF Latch
  <2>5. taken' = input_data' /\ ~missed'
    BY <1>1, <1>3, <2>1, <2>4 DEF Observe, Punctual
  <2> QED
    BY <2>3, <2>5 DEF Punctual
<1>4. CASE ~event
  <2>1. taken' = taken /\ input_data' = input_data
    BY <1>1, <1>4 DEF Observe, Sample
  <2>2. ~missed'
    BY <1>1, <1>4 DEF Observe, Punctual
  <2>3. gap' \in Nat /\ gap' <= gap + 1
    BY <1>1, <1>2, <1>4 DEF Sample
  <2>4. interrupt_latch' => interrupt_latch
    BY <1>1, <1>4 DEF Latch
  <2>5. CASE Interrupt
    <3>1. isr = "none" /\ interrupt_latch /\ isr' = "input" /\ busy' = 8
      BY <2>5 DEF Interrupt, ToInput
    <3>2. gap' <= 2 /\ input_data = taken
      BY <2>3, <3>1 DEF Punctual
    <3>3. gap' + Remaining(isr', busy') <= Longest + 1
      BY <1>2, <2>3, <3>1, <3>2 DEF Remaining
    <3> QED
      BY <2>1, <2>2, <3>1, <3>2, <3>3 DEF Punctual
  <2>6. CASE Main
    <3>1. isr = "none" /\ isr' = "none" /\ ~interrupt_latch /\ busy' = busy /\ interrupt_enable'
      BY <2>6 DEF Main, Punctual
    <3> QED
      BY <2>1, <2>2, <2>4, <3>1 DEF Punctual
  <2>7. CASE Work \/ Input \/ Count \/ Show
    <3>1. isr # "none" /\ isr' # "none" /\ (isr' = "input" => isr = "input")
      <4>1. CASE Work
        <5>1. busy # 0 /\ isr' = isr
          BY <4>1 DEF Work
        <5> QED
          BY <5>1 DEF Punctual
      <4>2. CASE Input \/ Count \/ Show
        BY <4>2 DEF Input, Count, Show
      <4> QED
        BY <2>7, <4>1, <4>2
    <3>2. gap + Remaining(isr, busy) <= Longest + 1
      BY <3>1 DEF Punctual
    <3>3. Remaining(isr', busy') <= Remaining(isr, busy) - 1
      <4>1. CASE Work
        <5>1. isr' = isr /\ busy' = busy - 1
          BY <4>1 DEF Work
        <5>2. isr \in {"input", "count", "show", "leave"}
          BY <3>1 DEF TypeOK
        <5> QED
          BY <1>2, <5>1, <5>2 DEF Remaining
      <4>2. CASE Input
        <5>1. isr = "input" /\ busy = 0 /\ isr' = "count" /\ busy' = ToCount(input_data)
          BY <4>2 DEF Input
        <5>2. busy' \in 0 .. 9
          BY <5>1 DEF ToCount
        <5> QED
          BY <1>2, <5>1, <5>2 DEF Remaining
      <4>3. CASE Count
        <5>1. isr = "count" /\ busy = 0
              /\ (\/ isr' = "show" /\ busy' = ToShow(s'[3])
                  \/ isr' = "leave" /\ busy' = 8)
          BY <4>3 DEF Count, ToLeave
        <5>2. ToShow(s'[3]) \in 0 .. 2 * Width + 1
          <6>1. s'[3] \in Nat
            <7>1. 3 \in Registers /\ s[3] \in Byte /\ s[2] \in Byte /\ s[1] \in Byte
                  /\ s \in [Registers -> Byte]
              BY DEF TypeOK, BlinkerTypeOK, Registers
            <7> DEFINE low == s[2] + Magnitude(s[1])
                       high == low \div Base
            <7>2. low \in Nat
              BY <7>1, MagnitudeBounds DEF Byte
            <7>3. high \in Nat
              BY <7>2, DividedByBase
            <7>4. s'[3] = (s[3] + high) % Base
              BY <4>3, <7>1 DEF Count, Registers
            <7>5. s[3] + high \in Nat
              BY <7>1, <7>3 DEF Byte
            <7>6. s'[3] \in Byte
              BY <7>4, <7>5, DividedByBase
            <7> QED
              BY <7>6 DEF Byte
          <6> QED
            BY <6>1, BarIsByte
        <5>3. CASE isr' = "show"
          BY <1>2, <5>1, <5>2, <5>3 DEF Remaining
        <5>4. CASE isr' = "leave"
          BY <1>2, <5>1, <5>4 DEF Remaining
        <5> QED
          BY <5>1, <5>3, <5>4
      <4>4. CASE Show
        <5>1. isr = "show" /\ busy = 0 /\ isr' = "leave" /\ busy' = 11
          BY <4>4 DEF Show, ToLeave
        <5> QED
          BY <5>1 DEF Remaining
      <4> QED
        BY <2>7, <4>1, <4>2, <4>3, <4>4
    <3>4. isr' \in {"input", "count", "show", "leave"} /\ busy' \in Nat
      BY <1>1, <3>1, MeterTypeNext DEF TypeOK
    <3>5. Remaining(isr, busy) \in Nat /\ Remaining(isr', busy') \in Nat
      BY <1>2, <3>1, <3>4, RemainingBounds DEF TypeOK
    <3>6. gap' + Remaining(isr', busy') <= Longest + 1
      BY <1>2, <2>3, <3>2, <3>3, <3>5
    <3> QED
      BY <2>1, <2>2, <2>4, <3>1, <3>6 DEF Punctual
  <2>8. CASE Leave
    <3>1. isr' = "none" /\ busy' = 0 /\ interrupt_enable' /\ ~interrupt_latch'
      <4>1. isr = "leave" /\ busy = 0 /\ isr' = "none" /\ interrupt_enable' /\ busy' = busy
        BY <2>8 DEF Leave
      <4>2. ~interrupt_latch
        BY <4>1 DEF NoNesting
      <4> QED
        BY <2>4, <4>1, <4>2
    <3> QED
      BY <2>2, <3>1 DEF Punctual
  <2> QED
    BY <1>1, <2>5, <2>6, <2>7, <2>8 DEF Processor
<1> QED
  BY <1>3, <1>4

\* Adding with carry over two bytes adds, as long as the sum fits into them.
LEMMA CarriedSum ==
  ASSUME NEW high \in Byte, NEW low \in Nat, high * Base + low < Base * Base
  PROVE  ((high + low \div Base) % Base) * Base + (low % Base) = high * Base + low
<1> DEFINE q == low \div Base
           r == low % Base
<1>1. q \in Nat /\ r \in Nat /\ low = Base * q + r
  <2>1. r = low - Base * q /\ q \in Nat /\ r \in Byte
    BY DividedByBase
  <2>2. Base * q \in Nat
    BY <2>1, BlinkerAssumption
  <2> HIDE DEF q, r
  <2> QED
    BY <2>1, <2>2 DEF Byte
<1> HIDE DEF q, r
<1>2. high \in Nat /\ Base \in Nat /\ Base > 0
  BY BlinkerAssumption DEF Byte
<1> DEFINE sum == high + q
<1>3. sum \in Nat /\ Base * sum = high * Base + Base * q
  BY <1>1, <1>2
<1> HIDE DEF sum
<1>4. Base * sum < Base * Base
  <2>1. Base * q \in Nat /\ high * Base \in Nat /\ Base * Base \in Nat
    BY <1>1, <1>2
  <2> QED
    BY <1>1, <1>3, <2>1
<1>5. sum < Base
  BY <1>2, <1>3, <1>4
<1>6. sum % Base = sum
  BY <1>2, <1>3, <1>5
<1>7. sum * Base + r = high * Base + low
  BY <1>1, <1>2, <1>3
<1>8. (sum % Base) * Base + r = high * Base + low
  BY <1>6, <1>7, Zenon
<1> QED
  BY <1>8 DEF q, r, sum

LEMMA LargestBounds ==
  /\ Largest \in Nat /\ Base \in Nat
  /\ Base * Largest \in Nat /\ Base * Largest < Base * Base
<1>1. Base \in Nat /\ Base >= 2 /\ Base \div 2 \in Nat
      /\ Base \div 2 >= 1 /\ Base \div 2 <= Base
  BY BlinkerAssumption
<1>2. Largest \in Nat /\ Largest < Base
  BY <1>1 DEF Largest
<1> QED
  BY <1>1, <1>2

LEMMA CountAdds ==
  ASSUME TypeOK, Summed, Count, total' = total + Magnitude(s[1])
  PROVE  /\ s'[3] * Base + s'[2] = total'
         /\ isr' = "leave" => total' <= s'[0] * Largest
<1> DEFINE m == Magnitude(s[1])
<1>1. /\ s \in [Registers -> Byte] /\ s[0] \in Byte /\ s[1] \in Byte /\ s[2] \in Byte
      /\ s[3] \in Byte
  BY DEF TypeOK, BlinkerTypeOK, Registers
<1>2. Byte \subseteq Nat /\ Base \in Nat /\ Base > 0
  BY BlinkerAssumption DEF Byte
<1>3. m \in Byte /\ m <= Largest
  BY <1>1, MagnitudeBounds DEF Largest
<1>4. s[3] * Base + s[2] = total /\ total <= s[0] * Largest
  BY DEF Count, Summed
<1>5. /\ s'[0] = (s[0] + 1) % Base
      /\ s'[2] = (s[2] + m) % Base
      /\ s'[3] = (s[3] + (s[2] + m) \div Base) % Base
      /\ isr' = "leave" => s'[0] # 0
  <2> DEFINE l == s[2] + m
  <2>1. s' = [s EXCEPT ![0] = (s[0] + 1) % Base, ![1] = m, ![2] = l % Base,
                       ![3] = (s[3] + l \div Base) % Base]
    BY Zenon DEF Count
  <2> HIDE DEF m, l
  <2>2. /\ s'[0] = (s[0] + 1) % Base
        /\ s'[2] = l % Base
        /\ s'[3] = (s[3] + l \div Base) % Base
    BY <1>1, <2>1 DEF Registers
  <2>3. isr' = "leave" => s'[0] # 0
    BY DEF Count
  <2> QED
    BY <2>2, <2>3, Zenon DEF l
<1> HIDE DEF m
<1>N. s[0] \in Nat /\ s[2] \in Nat /\ s[3] \in Nat /\ m \in Nat
  <2>1. s[0] \in Nat
    BY <1>1, <1>2
  <2>2. s[2] \in Nat
    BY <1>1, <1>2
  <2>3. s[3] \in Nat
    BY <1>1, <1>2
  <2>4. m \in Nat
    BY <1>2, <1>3
  <2> QED
    BY <2>1, <2>2, <2>3, <2>4
<1>6. total' = s[3] * Base + (s[2] + m)
  <2>1. s[3] * Base \in Nat /\ s[2] \in Nat /\ m \in Nat
    BY <1>2, <1>N
  <2> QED
    BY <1>4, <2>1 DEF m
<1>7. total' <= (s[0] + 1) * Largest /\ total' \in Nat
  <2>1. s[0] * Largest \in Nat /\ (s[0] + 1) * Largest = s[0] * Largest + Largest
    BY <1>N, LargestBounds
  <2>2. s[3] * Base \in Nat /\ s[2] \in Nat /\ m \in Nat /\ Largest \in Nat
    BY <1>2, <1>N, LargestBounds
  <2> QED
    BY <1>3, <1>4, <1>6, <2>1, <2>2
<1>8. s[3] * Base + (s[2] + m) < Base * Base
  <2>1. s[0] + 1 \in Nat /\ s[0] + 1 <= Base
    BY <1>1, <1>2 DEF Byte
  <2>2. (s[0] + 1) * Largest <= Base * Largest
    BY <2>1, LargestBounds
  <2> DEFINE a == (s[0] + 1) * Largest
             b == Base * Largest
             c == Base * Base
  <2>3. a \in Nat /\ b \in Nat /\ c \in Nat /\ a <= b /\ b < c /\ total' <= a
    BY <1>7, <2>1, <2>2, LargestBounds
  <2> HIDE DEF a, b, c
  <2>4. total' < c
    BY <1>7, <2>3
  <2> QED
    BY <1>6, <2>4 DEF c
<1>9. s'[3] * Base + s'[2] = total'
  <2> DEFINE l == s[2] + m
  <2>1. l \in Nat
    BY <1>N
  <2>2. s[3] * Base + l < Base * Base
    BY <1>8
  <2> HIDE DEF l
  <2>3. ((s[3] + l \div Base) % Base) * Base + (l % Base) = s[3] * Base + l
    BY <1>1, <2>1, <2>2, CarriedSum
  <2>4. s'[2] = l % Base /\ s'[3] = (s[3] + l \div Base) % Base
    BY <1>5, Zenon DEF l
  <2>5. total' = s[3] * Base + l
    BY <1>6, Zenon DEF l
  <2> QED
    BY <2>3, <2>4, <2>5
<1>10. ASSUME isr' = "leave" PROVE total' <= s'[0] * Largest
  <2>1. s[0] + 1 # Base
    <3> SUFFICES ASSUME s[0] + 1 = Base PROVE FALSE
      OBVIOUS
    <3>1. Base % Base = 0
      BY <1>2
    <3> QED
      BY <1>5, <1>10, <3>1
  <2>2. s[0] + 1 \in Nat /\ s[0] + 1 < Base
    <3>1. s[0] < Base
      BY <1>1, <1>2 DEF Byte
    <3> QED
      BY <1>2, <1>N, <2>1, <3>1
  <2>3. s'[0] = s[0] + 1
    BY <1>2, <1>5, <2>2
  <2> QED
    BY <1>7, <2>3
<1> QED
  BY <1>9, <1>10

LEMMA SummedNext ==
  ASSUME TypeOK, Summed, Punctual, NEW event \in BOOLEAN, Tick(event)
  PROVE  Summed'
<1>1. Processor /\ Observe(event)
  BY DEF Tick
<1>2. isr = "count" /\ busy = 0 => total' = total + Magnitude(s[1])
  BY <1>1 DEF Observe
<1>3. isr = "show" /\ busy = 0 => total' = 0
  BY <1>1 DEF Observe
<1>4. ~(isr \in {"count", "show"} /\ busy = 0) => total' = total
  BY <1>1 DEF Observe
<1>5. s \in [Registers -> Byte] /\ 0 \in Byte
  BY BlinkerAssumption DEF TypeOK, BlinkerTypeOK, Byte
<1>6. CASE Interrupt
  BY <1>4, <1>6 DEF Interrupt, Summed
<1>7. CASE Main
  BY <1>4, <1>7 DEF Main, Summed
<1>8. CASE Work
  <2>1. busy # 0
    BY <1>8 DEF Work
  <2>2. total' = total
    BY <1>4, <2>1
  <2> QED
    BY <1>8, <2>2 DEF Work, blinkerVars, Summed
<1>9. CASE Input
  <2>1. s'[0] = counter /\ s'[2] = stored_data /\ s'[3] = carry_stored_data
    BY <1>5, <1>9 DEF Input, Registers
  <2>2. isr = "input" /\ isr' = "count"
    BY <1>9 DEF Input
  <2> QED
    BY <1>4, <2>1, <2>2 DEF Summed
<1>10. CASE Count
  <2>1. isr = "count" /\ busy = 0 /\ isr' \in {"show", "leave"}
    BY <1>10 DEF Count
  <2>2. /\ s'[3] * Base + s'[2] = total'
        /\ isr' = "leave" => total' <= s'[0] * Largest
    BY <1>2, <1>10, <2>1, CountAdds
  <2> QED
    BY <2>1, <2>2 DEF Summed
<1>11. CASE Show
  <2>1. isr = "show" /\ busy = 0 /\ isr' = "leave" /\ s'[0] = 0 /\ s'[2] = 0 /\ s'[3] = 0
    BY <1>11 DEF Show, Registers, Preserved
  <2>2. 0 * Base + 0 = 0 /\ 0 <= 0 * Largest
    BY LargestBounds
  <2> QED
    BY <1>3, <2>1, <2>2 DEF Summed
<1>12. CASE Leave
  <2>1. /\ isr = "leave" /\ isr' = "none"
        /\ counter' = s[0] /\ stored_data' = s[2] /\ carry_stored_data' = s[3]
    BY <1>12 DEF Leave
  <2> QED
    BY <1>4, <2>1 DEF Summed
<1> QED
  BY <1>1, <1>6, <1>7, <1>8, <1>9, <1>10, <1>11, <1>12 DEF Processor

LEMMA AlwaysSummed ==
  ASSUME Unhurried
  PROVE  Spec => [](TypeOK /\ Punctual /\ Summed)
<1>1. Init => Punctual /\ Summed
  <2> SUFFICES ASSUME Init PROVE Punctual /\ Summed
    OBVIOUS
  <2>1. 0 * Base + 0 = 0 /\ 0 <= 0 * Largest
    BY LargestBounds
  <2> QED
    BY <2>1 DEF Init, BlinkerInit, Punctual, Summed
<1>2. TypeOK /\ NoNesting /\ Punctual /\ Summed /\ [Next]_vars => Punctual' /\ Summed'
  <2>1. Punctual /\ Summed /\ UNCHANGED vars => Punctual' /\ Summed'
    BY DEF vars, meterVars, blinkerVars, Punctual, Summed
  <2> QED
    BY <2>1, PunctualNext, SummedNext DEF Next
<1> QED
  BY <1>1, <1>2, MeterTypeCorrect, NoNestingCorrect, PTL DEF Spec

\* Every sample is counted, once and as itself, and the two bytes hold the sum of
\* their magnitudes without overflow, for registers of any width.
THEOREM SumExactCorrect ==
  ASSUME Unhurried
  PROVE  Spec => []SumExact
<1>1. Punctual /\ Summed => SumExact
  BY DEF Punctual, Summed, SumExact
<1> QED
  BY <1>1, AlwaysSummed, PTL

\* The bar shows how many bits the average of the last Base magnitudes has.
THEOREM BarShowsAverageCorrect ==
  ASSUME Unhurried
  PROVE  Spec => BarShowsAverage
<1>1. TypeOK /\ Summed /\ Next
        => (isr = "show" /\ busy = 0 => led' = Base - 2^(Width - Lights(total \div Base)))
  <2> SUFFICES ASSUME TypeOK, Summed, Processor, isr = "show", busy = 0
               PROVE  led' = Base - 2^(Width - Lights(total \div Base))
    BY DEF Next, Tick
  <2>1. led' = Bar(s[3])
    BY DEF Processor, Interrupt, Main, Work, Input, Count, Show, Leave
  <2>2. s[2] \in Nat /\ s[3] \in Nat /\ s[2] < Base /\ Base \in Nat
    <3>1. s[2] \in Byte /\ s[3] \in Byte
      BY DEF TypeOK, BlinkerTypeOK, Registers
    <3>2. Byte \subseteq Nat /\ Base \in Nat
      BY BlinkerAssumption DEF Byte
    <3>3. s[2] < Base
      BY <3>1, <3>2 DEF Byte
    <3> QED
      BY <3>1, <3>2, <3>3
  <2>3. s[3] * Base + s[2] = total
    BY DEF Summed
  <2>4. total \div Base = s[3]
    BY <2>2, <2>3
  <2> QED
    BY <2>1, <2>2, <2>4, BarIsLights
<1> QED
  BY <1>1, AlwaysSummed, PTL DEF Spec, BarShowsAverage
=============================================================================
