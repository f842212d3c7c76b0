------------------------------- MODULE KeyPath -------------------------------
(***************************************************************************)
(* From a key to the player's mode: a PS/2 keyboard, its controller, the   *)
(* state machine that converts and shows the key, and Keyboard_Ctrl, as    *)
(* simple_ipod_solution.v connects them.  Cycle is one edge of CLK_50M.    *)
(* A PS/2 frame takes thousands of cycles, so the next one is complete     *)
(* only after the circuit has come to rest from the one before.            *)
(***************************************************************************)
EXTENDS KbdCtrl, KbdToScope, KeyboardCtrl, Sequences

CONSTANT
  Typists               \* who types: with which keys, those of Keys and "arrow",
                        \* and whether a key may go down while another one is

ASSUME TypistsAssumption ==
  Typists \subseteq [keys : SUBSET (Keys \cup {"arrow"}), overlap : BOOLEAN]

VARIABLES
  typist,               \* who types, never changed
  reset_trap,           \* data_ready_clk_reset
  down,                 \* keys held down
  latest,               \* the key pressed last
  wire,                 \* frames the keyboard has still to send
  owed                  \* history: presses not yet shown

keyVars == <<down, latest, wire, owed>>
vars == <<typist, kbdVars, writerVars, reset_trap, keyboard, keyVars>>

\* The codes 32, 23, 24, 2B, 2D, some other and that of an arrow, 75.
Code ==
  [ B |-> {1, 4, 5}, D |-> {0, 1, 5}, E |-> {2, 5}, F |-> {0, 1, 3, 5},
    R |-> {0, 2, 3, 5}, other |-> {2, 3, 4}, arrow |-> {0, 2, 4, 5, 6} ]

Letters == Keys \ {"other"}

Letter(code) == CHOOSE k \in Letters : Code[k] = code

AsciiShifted(code) ==                           \* mutant: D and E swapped in the table
  CASE code = Code["D"] -> "E"
    [] code = Code["E"] -> "D"
    [] OTHER -> IF \E k \in Letters : Code[k] = code THEN Letter(code) ELSE "other"

\* The letters the player knows; anything else is some other character.
Ascii(code) == IF \E k \in Letters : Code[k] = code THEN Letter(code) ELSE "other"

Prefix(key) == IF key = "arrow" THEN <<EXTENDED_SCAN_CODE>> ELSE << >>
Make(key) == Prefix(key) \o <<Code[key]>>
Break(key) == Prefix(key) \o <<KEY_UP_SCAN_CODE, Code[key]>>

Init ==
  /\ typist \in Typists
  /\ KbdInit
  /\ WriterInit
  /\ reset_trap = 0
  /\ KeyboardInit
  /\ down = {} /\ latest = "none" /\ wire = << >> /\ owed = << >>

\* The circuit has dealt with all it has received.
AtRest ==
  /\ writer = "idle" /\ ~data_ready
  /\ check_trap = 0 /\ ready_trap = 0 /\ reset_trap = 0

Circuit == <<kbdVars, writerVars, reset_trap, keyboard>>

\* A key goes down, or the one that went down last repeats itself.
Press(key) ==
  /\ wire = << >>
  /\ key \notin down => typist.overlap \/ down = {}
  /\ key \in down => key = latest
  /\ down' = down \cup {key}
  /\ latest' = key
  /\ wire' = Make(key)
  /\ owed' = Append(owed, key)
  /\ UNCHANGED <<typist, Circuit>>

Release(key) ==
  /\ wire = << >>
  /\ key \in down
  /\ down' = down \ {key}
  /\ wire' = Break(key)
  /\ UNCHANGED <<typist, latest, owed, Circuit>>

FrameArrives ==
  /\ wire # << >>
  /\ AtRest
  /\ Receive(Head(wire))
  /\ wire' = Tail(wire)
  /\ UNCHANGED <<typist, down, latest, owed, writerVars, reset_trap, keyboard>>

\* The step that puts a key on the LCD.
Shown == /\ writer # "LCD_byte_change_value_state"
         /\ writer' = "LCD_byte_change_value_state"

Cycle(read_finish) ==
  /\ KbdStep(Fires(reset_trap))
  /\ WriterStep(Ascii(scan_code), data_ready' /\ ~data_ready)
  /\ reset_trap' \in Trapped(reset_trap, ~reset_kbd_data /\ reset_kbd_data')
  /\ KeyboardStep(ascii, data_ready, read_finish)
  /\ owed' = IF Shown /\ owed # << >> THEN Tail(owed) ELSE owed
  /\ UNCHANGED <<typist, down, latest, wire>>

Typing == \E key \in typist.keys : Press(key) \/ Release(key)

Next == Typing \/ FrameArrives \/ \E read_finish \in BOOLEAN : Cycle(read_finish)

\* The clock does not stop, the keyboard sends what it has, and the player
\* goes on finishing words.
Fairness ==
  /\ WF_vars(Cycle(FALSE) \/ Cycle(TRUE))
  /\ SF_vars(FrameArrives)
  /\ SF_vars(keyboard = "Reset_Forward" /\ Cycle(TRUE))

Spec == Init /\ [][Next]_vars /\ Fairness
-----------------------------------------------------------------------------
\* With one key at a time, the keys shown are the keys pressed, in their order:
\* releases are swallowed, and the count they leave behind lets the next
\* press through.
ShowsPressesOnly ==
  [][Shown /\ ~typist.overlap => owed # << >> /\ scope_info'[enabled'] = Head(owed)]_vars

\* None of them is missing once the circuit is at rest.
NoPressMissed == wire = << >> /\ AtRest /\ ~typist.overlap => owed = << >>

\* However keys overlap, and whether or not they have a prefix, after each of
\* their presses and releases the controller is where the next press is seen.
InStepBetweenKeys == wire = << >> /\ AtRest => bit_count \in {0, 22}

\* The player enters a restart only for the key R, as Keyboard_Ctrl says.
RestartOnlyByR ==
  [][~rst /\ rst' => latest = "R"]_vars

\* A pause that is not followed by another key pauses, in whatever mode the
\* player was and whatever restart was under way.
PauseHeeded == <>[](latest = "D") => <>[]~play

\* Whatever comes in, the circuit comes to rest.
ComesToRest == []<>AtRest
=============================================================================
