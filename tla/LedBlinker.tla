----------------------------- MODULE LedBlinker ------------------------------
(***************************************************************************)
(* The main program of pracPICO.psm as it was written: light LED[0], wait, *)
(* put it out, wait, and so on.  The delay is a nest of loops, a routine   *)
(* and a register for each level, all with the same instructions.  A step  *)
(* is one instruction, together with the CALL or RETURN that may follow    *)
(* it, and the whole of cold_start.                                        *)
(***************************************************************************)
EXTENDS Naturals

CONSTANTS
  Base,                 \* values of a register: 256
  Top,                  \* outermost loop: 4, for delay_1s
  Delay                 \* what each loop counts down from

Registers == 0 .. 4
Byte == 0 .. Base - 1

ASSUME BlinkerAssumption ==
  /\ Base \in Nat \ {0, 1}
  /\ Top \in 1 .. 4
  /\ Delay \in [0 .. Top -> Byte \ {0}]

VARIABLES
  at,                   \* label in the main program or in a loop
  level,                \* which loop, Top outside them
  return,               \* where delay_1s returns to
  s,                    \* registers
  zero,                 \* zero flag
  led_0                 \* LED[0]

blinkerVars == <<at, level, return, s, zero, led_0>>

Labels == {"cold_start", "main_program", "turn_on", "turn_off", "out_off",
           "load", "sub", "jump"}

BlinkerTypeOK ==
  /\ at \in Labels
  /\ level \in 0 .. Top
  /\ return \in {"turn_off", "main_program"}
  /\ s \in [Registers -> Byte]
  /\ zero \in BOOLEAN
  /\ led_0 \in {0, 1}

BlinkerInit ==
  /\ at = "cold_start"
  /\ level = Top
  /\ return = "main_program"
  /\ s = [r \in Registers |-> 0]
  /\ zero = FALSE
  /\ led_0 = 0

ColdStart ==
  /\ at = "cold_start"
  /\ at' = "main_program"
  /\ s' = [s EXCEPT ![0] = 0]
  /\ led_0' = 0
  /\ UNCHANGED <<level, return, zero>>

LoadLight(from, to, light) ==
  /\ at = from
  /\ at' = to
  /\ s' = [s EXCEPT ![1] = light]
  /\ UNCHANGED <<level, return, zero, led_0>>

OutputLight(from, to) ==
  /\ at = from
  /\ led_0' = s[1] % 2
  /\ at' = "load"
  /\ return' = to
  /\ UNCHANGED <<level, s, zero>>

\* The body of a loop: the routine of the level below, and nothing in the lowest.
EnterBody ==
  IF level = 0 THEN at' = "sub" /\ level' = 0
               ELSE at' = "load" /\ level' = level - 1

LoadLoop ==
  /\ at = "load"
  /\ s' = [s EXCEPT ![level] = Delay[level]]
  /\ EnterBody
  /\ UNCHANGED <<return, zero, led_0>>

SubLoop ==
  /\ at = "sub"
  /\ s' = [s EXCEPT ![level] = (s[level] + Base - 1) % Base]
  /\ zero' = (s'[level] = 0)
  /\ at' = "jump"
  /\ UNCHANGED <<level, return, led_0>>

\* mutant: the outermost loop returns into a loop around it.
ReturnFromOnceMore ==
  IF level <= Top THEN at' = "sub" /\ level' = level + 1
                  ELSE at' = return /\ level' = level

\* RETURN, to the SUB of the level above or to the main program.
ReturnFrom ==
  IF level < Top THEN at' = "sub" /\ level' = level + 1
                 ELSE at' = return /\ level' = level

\* JUMP NZ, and RETURN where it falls through.
JumpLoop ==
  /\ at = "jump"
  /\ IF zero THEN ReturnFrom ELSE EnterBody
  /\ UNCHANGED <<return, s, zero, led_0>>

BlinkerStep ==
  \/ ColdStart
  \/ LoadLight("main_program", "turn_on", 1)
  \/ OutputLight("turn_on", "turn_off")
  \/ LoadLight("turn_off", "out_off", 0)
  \/ OutputLight("out_off", "main_program")
  \/ LoadLoop \/ SubLoop \/ JumpLoop

BlinkerSpec == BlinkerInit /\ [][BlinkerStep]_blinkerVars
=============================================================================
