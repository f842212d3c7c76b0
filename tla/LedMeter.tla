------------------------------ MODULE LedMeter -------------------------------
(***************************************************************************)
(* Lab 3: the PicoBlaze shows the strength of the audio signal.  The       *)
(* player interrupts it with every sample; the interrupt routine adds up   *)
(* the absolute values of Base samples and shows a bar for their average,  *)
(* while the main program goes on blinking.  A step of the processor is an *)
(* instruction, in the routine too: busy counts those until the next one   *)
(* whose effect is modelled.                                               *)
(***************************************************************************)
EXTENDS LedBlinker, FiniteSets

CONSTANTS
  Width,                \* bits of a register: 8
  Samples,              \* upper bytes of audio_data considered
  MinGap                \* shortest time between samples, in instructions

ASSUME MeterAssumption ==
  /\ Width \in Nat \ {0} /\ Base = 2^Width
  /\ Samples \subseteq Byte
  /\ MinGap \in Nat \ {0}

VARIABLES
  isr, busy,            \* place in the interrupt routine, "none" outside
  interrupt_enable, interrupt_latch,
  zero_saved,           \* zero flag saved on interrupt
  preserve,             \* scratchpad: ISR_preserve_s0 .. ISR_preserve_s3
  counter, stored_data, carry_stored_data,      \* scratchpad
  led,                  \* LED[9:2]
  input_data,           \* the sample at the input port
  gap,                  \* instructions since the last sample, up to MinGap
  total,                \* history: sum of the absolute values since the last bar
  taken,                \* history: the sample whose interrupt is being served
  missed                \* history: a sample was not counted

meterVars == <<isr, busy, interrupt_enable, interrupt_latch, zero_saved, preserve,
               counter, stored_data, carry_stored_data, led>>
vars == <<blinkerVars, meterVars, input_data, gap, total, taken, missed>>

Preserved == 0 .. 3

Init ==
  /\ BlinkerInit
  /\ isr = "none" /\ busy = 0
  /\ interrupt_enable = FALSE /\ interrupt_latch = FALSE
  /\ zero_saved = FALSE
  /\ preserve = [r \in Preserved |-> 0]
  /\ counter = 0 /\ stored_data = 0 /\ carry_stored_data = 0
  /\ led = 0
  /\ input_data = 0
  /\ gap = 0
  /\ total = 0 /\ taken = 0 /\ missed = FALSE

Magnitude(x) == IF x >= Base \div 2 THEN Base - x ELSE x

\* mutant: thresholds compared with > instead of >=.
LevelStrict(high) ==
  CHOOSE i \in 1 .. Width :
    /\ i = Width \/ high > 2^(Width - i)
    /\ \A j \in 1 .. i - 1 : high <= 2^(Width - j)

\* The first of the thresholds Base/2, Base/4 ... 2 that is reached, and Width
\* if none is.
Level(high) ==
  CHOOSE i \in 1 .. Width :
    /\ i = Width \/ high >= 2^(Width - i)
    /\ \A j \in 1 .. i - 1 : high < 2^(Width - j)

Bar(high) == Base - 2^(Level(high) - 1)

\* Instructions before the effect of each place in the routine.
ToInput == 8            \* JUMP ISR, four STORE and three FETCH
ToCount(x) == IF x >= Base \div 2 THEN 9 ELSE 6
ToShow(high) == IF Level(high) < Width THEN 2 * Level(high) + 2 ELSE 2 * Width + 1
ToLeave(shown) == IF shown THEN 11 ELSE 8

\* From a sample to the end of its routine.
Longest == 1 + ToInput + 1 + 9 + 1 + 2 * Width + 1 + 1 + 11 + 1

Interrupt ==
  /\ isr = "none" /\ interrupt_latch
  /\ isr' = "input" /\ busy' = ToInput
  /\ interrupt_enable' = FALSE
  /\ zero_saved' = zero
  /\ UNCHANGED <<blinkerVars, preserve, counter, stored_data, carry_stored_data, led>>

Main ==
  /\ isr = "none" /\ ~interrupt_latch
  /\ BlinkerStep
  /\ interrupt_enable' = (interrupt_enable \/ at = "cold_start")
  /\ UNCHANGED <<isr, busy, zero_saved, preserve, counter, stored_data,
                 carry_stored_data, led>>

Work ==
  /\ busy > 0
  /\ busy' = busy - 1
  /\ UNCHANGED <<blinkerVars, isr, interrupt_enable, zero_saved, preserve, counter,
                 stored_data, carry_stored_data, led>>

Input ==
  /\ isr = "input" /\ busy = 0
  /\ preserve' = [r \in Preserved |-> s[r]]
  /\ s' = [s EXCEPT ![0] = counter, ![1] = input_data, ![2] = stored_data,
                    ![3] = carry_stored_data]
  /\ isr' = "count" /\ busy' = ToCount(input_data)
  /\ UNCHANGED <<at, level, return, zero, led_0, interrupt_enable, zero_saved,
                 counter, stored_data, carry_stored_data, led>>

\* mutant: ADD where the code has ADDCY.
CountNoCarry ==
  /\ isr = "count" /\ busy = 0
  /\ s' = [s EXCEPT ![0] = (s[0] + 1) % Base,
                    ![1] = Magnitude(s[1]),
                    ![2] = (s[2] + Magnitude(s[1])) % Base]
  /\ zero' = (s'[0] = 0)
  /\ IF zero' THEN isr' = "show" /\ busy' = ToShow(s'[3])
              ELSE isr' = "leave" /\ busy' = ToLeave(FALSE)
  /\ UNCHANGED <<at, level, return, led_0, interrupt_enable, zero_saved, preserve,
                 counter, stored_data, carry_stored_data, led>>

Count ==
  /\ isr = "count" /\ busy = 0
  /\ LET low == s[2] + Magnitude(s[1])
     IN s' = [s EXCEPT ![0] = (s[0] + 1) % Base,
                       ![1] = Magnitude(s[1]),
                       ![2] = low % Base,
                       ![3] = (s[3] + low \div Base) % Base]
  /\ zero' = (s'[0] = 0)
  /\ IF zero' THEN isr' = "show" /\ busy' = ToShow(s'[3])
              ELSE isr' = "leave" /\ busy' = ToLeave(FALSE)
  /\ UNCHANGED <<at, level, return, led_0, interrupt_enable, zero_saved, preserve,
                 counter, stored_data, carry_stored_data, led>>

Show ==
  /\ isr = "show" /\ busy = 0
  /\ led' = Bar(s[3])
  /\ s' = [r \in Registers |-> IF r \in Preserved THEN 0 ELSE s[r]]
  /\ isr' = "leave" /\ busy' = ToLeave(TRUE)
  /\ UNCHANGED <<at, level, return, zero, led_0, interrupt_enable, zero_saved, preserve,
                 counter, stored_data, carry_stored_data>>

\* mutant: RETURN where the code has RETURNI, without the saved flags.
LeaveFlags ==
  /\ isr = "leave" /\ busy = 0
  /\ counter' = s[0] /\ stored_data' = s[2] /\ carry_stored_data' = s[3]
  /\ s' = [r \in Registers |-> IF r \in Preserved THEN preserve[r] ELSE s[r]]
  /\ isr' = "none" /\ interrupt_enable' = TRUE
  /\ UNCHANGED <<at, level, return, zero, led_0, busy, zero_saved, preserve, led>>

\* mutant: RETURNI DISABLE.
LeaveDisabled ==
  /\ isr = "leave" /\ busy = 0
  /\ counter' = s[0] /\ stored_data' = s[2] /\ carry_stored_data' = s[3]
  /\ s' = [r \in Registers |-> IF r \in Preserved THEN preserve[r] ELSE s[r]]
  /\ zero' = zero_saved
  /\ isr' = "none"
  /\ UNCHANGED <<at, level, return, led_0, busy, interrupt_enable, zero_saved, preserve,
                 led>>

Leave ==
  /\ isr = "leave" /\ busy = 0
  /\ counter' = s[0] /\ stored_data' = s[2] /\ carry_stored_data' = s[3]
  /\ s' = [r \in Registers |-> IF r \in Preserved THEN preserve[r] ELSE s[r]]
  /\ zero' = zero_saved
  /\ isr' = "none" /\ interrupt_enable' = TRUE
  /\ UNCHANGED <<at, level, return, led_0, busy, zero_saved, preserve, led>>

Processor == Interrupt \/ Main \/ Work \/ Input \/ Count \/ Show \/ Leave

\* An interrupt pulse lasts a cycle.  It is latched if interrupts are enabled
\* then, and one that meets the change may go either way; serving an interrupt
\* clears the latch.
Latch(event) ==
  \E enabled \in {interrupt_enable, interrupt_enable'} :
    interrupt_latch' = /\ interrupt_latch \/ (event /\ enabled)
                       /\ ~(isr = "none" /\ isr' = "input")

Sample(event) ==
  /\ event => gap >= MinGap
  /\ gap' = IF event THEN 1 ELSE IF gap < MinGap THEN gap + 1 ELSE gap
  /\ IF event THEN input_data' \in Samples ELSE UNCHANGED input_data

Observe(event) ==
  /\ total' = CASE isr = "count" /\ busy = 0 -> total + Magnitude(s[1])
                [] isr = "show" /\ busy = 0 -> 0
                [] OTHER -> total
  /\ taken' = IF event /\ interrupt_latch' THEN input_data' ELSE taken
  /\ missed' = \/ missed
               \/ event /\ (interrupt_latch \/ ~interrupt_latch')
               \/ isr = "input" /\ busy = 0 /\ input_data # taken

Tick(event) == Processor /\ Latch(event) /\ Sample(event) /\ Observe(event)

Next == \E event \in BOOLEAN : Tick(event)

\* The processor does not stop, and the player goes on.
Spec == Init /\ [][Next]_vars /\ WF_vars(Next) /\ WF_vars(Tick(TRUE))
-----------------------------------------------------------------------------
TypeOK ==
  /\ BlinkerTypeOK
  /\ isr \in {"none", "input", "count", "show", "leave"}
  /\ busy \in 0 .. Longest
  /\ {interrupt_enable, interrupt_latch, zero_saved} \subseteq BOOLEAN
  /\ preserve \in [Preserved -> Byte]
  /\ {counter, stored_data, carry_stored_data, led} \subseteq Byte
  /\ input_data \in Byte
  /\ gap \in 0 .. MinGap

\* The routine is not interrupted itself: it saves registers and flags in one
\* place only.
NoNesting == isr # "none" => ~interrupt_enable /\ ~interrupt_latch

\* The two bytes hold the sum of all the samples exactly: if samples come no
\* faster than the longest interrupt routine every one is counted, and as
\* itself, and not even Base of the largest magnitude overflow the bytes.
SumExact ==
  /\ ~missed
  /\ isr \in {"none", "input"} => carry_stored_data * Base + stored_data = total
  /\ isr \in {"count", "show"} => s[3] * Base + s[2] = total

\* The bar that is shown has as many lights as the average magnitude of the
\* last Base samples has bits, and at least one.
Lights(average) ==
  LET bits == Cardinality({k \in 0 .. Width - 1 : 2^k <= average})
  IN IF bits = 0 THEN 1 ELSE bits

BarShowsAverage ==
  [][isr = "show" /\ busy = 0 => led' = Base - 2^(Width - Lights(total \div Base))]_vars

\* Interrupts at any instruction leave the main program what it would be
\* without them.
Uninterrupted ==
  INSTANCE LedBlinker
    WITH s <- IF isr \in {"none", "input"} THEN s
              ELSE [r \in Registers |-> IF r \in Preserved THEN preserve[r] ELSE s[r]],
         zero <- IF isr = "none" THEN zero ELSE zero_saved

BlinksUndisturbed == Uninterrupted!BlinkerSpec

\* The bar is renewed for ever.
BarRenewed == []<>(isr = "show")
=============================================================================
