--------------------------- MODULE KeyPath_proofs ----------------------------
(***************************************************************************)
(* Proofs about KeyPath, for every time a trapped signal may take, any     *)
(* number of bytes on the LCD, and typists with whatever of the keys: what *)
(* the controller counts is back in step after each key, and keys pressed  *)
(* one at a time are shown, each once, in their order.                     *)
(***************************************************************************)
EXTENDS KeyPath, SequenceTheorems, TLAPS

Bytes == SUBSET (0 .. 7)
Registers == SUBSET (0 .. 10)
Prefixes == {EXTENDED_SCAN_CODE, KEY_UP_SCAN_CODE}
Shows == Keys \cup {"none"}

TypeOK ==
  /\ typist \in [keys : SUBSET (Keys \cup {"arrow"}), overlap : BOOLEAN]
  /\ kbd_reg \in Registers /\ old_kbd_reg \in Registers
  /\ bit_count \in 0 .. 63
  /\ data_ready \in BOOLEAN
  /\ check_trap \in Trap /\ ready_trap \in Trap /\ reset_trap \in Trap
  /\ writer \in WriterStates
  /\ enabled \in 0 .. scope_info_bytes
  /\ writer # "init_state" => enabled \in Cells
  /\ ascii \in Shows
  /\ scope_info \in [Cells -> Shows]
  /\ down \subseteq typist.keys /\ latest \in typist.keys \cup {"none"}
  /\ wire \in Seq(Bytes)
  /\ owed \in Seq(typist.keys)

\* What the circuit does with the frame it has received: nothing is left to do,
\* or whether it completes a key is being found out, or a key is ready, or it
\* is being written, or it is shown and being cleared.
Waiting ==
  /\ ~data_ready /\ check_trap = 0 /\ ready_trap = 0 /\ reset_trap = 0
  /\ writer \in {"init_state", "init_scope_LCD_reg", "finished", "idle"}
Checking ==
  /\ ~data_ready /\ check_trap # 0 /\ ready_trap = 0 /\ reset_trap = 0
  /\ writer = "idle"
Noticed ==
  /\ data_ready /\ check_trap = 0 /\ ready_trap # 0 /\ reset_trap = 0
  /\ writer = "idle"
Writing ==
  /\ data_ready /\ check_trap = 0 /\ ready_trap = 0 /\ reset_trap = 0
  /\ writer \in {"convert_to_ascii_now", "LCD_enable_change_state",
                 "LCD_byte_change_value_state"}
Clearing ==
  /\ data_ready /\ check_trap = 0 /\ ready_trap = 0 /\ reset_trap # 0
  /\ writer \in {"clear_kbd_data", "finished", "idle"}

Staged == Waiting \/ Checking \/ Noticed \/ Writing \/ Clearing

\* The count of bits once the circuit is at rest.
Settled ==
  IF data_ready \/ (check_trap # 0 /\ KeyReady) THEN 0 ELSE bit_count

\* One or two frames may be left over; one only in the middle of a key.
Counted ==
  /\ Settled \in {0, 11, 22}
  /\ wire = << >> => Settled # 11
  /\ wire # << >> => wire[Len(wire)] \notin Prefixes

\* A key has been recognised and is not on the LCD yet.
Unshown ==
  \/ Checking /\ KeyReady
  \/ Noticed
  \/ writer \in {"convert_to_ascii_now", "LCD_enable_change_state"}

\* What a keyboard used one key at a time has still to send.
Sends ==
  \/ wire = << >> /\ down = {} /\ Settled # 11
  \/ wire = << >> /\ down = {latest} /\ Settled = 0
  \/ wire = <<Code[latest]>> /\ down = {latest} /\ Settled # 11
  \/ wire = <<KEY_UP_SCAN_CODE, Code[latest]>> /\ down = {} /\ Settled = 0
  \/ wire = <<Code[latest]>> /\ down = {} /\ Settled = 11

\* A press that the keyboard has not sent.
Unsent == wire # << >> /\ down # {}

\* The presses owed are at most two, one in the circuit and one on the wire.
OneAtATime ==
  ~typist.overlap =>
    /\ kbd_reg # KEY_UP_SCAN_CODE
    /\ Sends
    /\ down # {} \/ wire # << >> => latest \in typist.keys
    /\ Len(owed) = (IF Unshown THEN 1 ELSE 0) + (IF Unsent THEN 1 ELSE 0)
    /\ Unshown => scan_code = Code[owed[1]]
    /\ writer \in {"convert_to_ascii_now", "LCD_enable_change_state"} => ascii = owed[1]
    /\ Unsent => owed[Len(owed)] = latest

\* Keys with a prefix are typed only together with others.
PlainKeys == \A t \in Typists : ~t.overlap => "arrow" \notin t.keys
-----------------------------------------------------------------------------
LEMMA KeyCodes ==
  /\ DOMAIN Code = Keys \cup {"arrow"}
  /\ \A key \in DOMAIN Code : Code[key] \in Bytes /\ Code[key] \notin Prefixes
<1>1. DOMAIN Code = Keys \cup {"arrow"}
  BY DEF Code, Keys
<1>2. EXTENDED_SCAN_CODE \in Bytes /\ KEY_UP_SCAN_CODE \in Bytes
  BY DEF EXTENDED_SCAN_CODE, KEY_UP_SCAN_CODE, Bytes
<1>3. ASSUME NEW key \in DOMAIN Code
      PROVE  Code[key] \in Bytes /\ 7 \notin Code[key]
  BY <1>1, <1>3 DEF Code, Keys, Bytes
<1>4. 7 \in EXTENDED_SCAN_CODE /\ 7 \in KEY_UP_SCAN_CODE
  BY DEF EXTENDED_SCAN_CODE, KEY_UP_SCAN_CODE
<1> QED
  BY <1>1, <1>3, <1>4 DEF Prefixes

\* No two keys have a code in common, so the character is that of the key.
LEMMA AsciiOfKey ==
  ASSUME NEW key \in Keys
  PROVE  Ascii(Code[key]) = key
<1>1. \A k \in Letters : Code[k] = Code[key] <=> k = key
  BY DEF Letters, Keys, Code
<1>2. CASE key = "other"
  BY <1>1, <1>2 DEF Ascii, Letters
<1>3. CASE key \in Letters
  BY <1>1, <1>3 DEF Ascii, Letter
<1> QED
  BY <1>2, <1>3 DEF Letters

LEMMA AsciiIsKey ==
  ASSUME NEW code
  PROVE  Ascii(code) \in Keys
BY DEF Ascii, Letter, Letters, Keys

\* A frame holds its byte, and its stop bit.
LEMMA FrameHoldsByte ==
  ASSUME NEW byte \in Bytes
  PROVE  /\ Frame(byte) \in Registers
         /\ 0 \in Frame(byte)
         /\ {i \in 0 .. 7 : 9 - i \in Frame(byte)} = byte
<1>1. PICK parity \in SUBSET {1} : Frame(byte) = {9 - i : i \in byte} \cup parity \cup {0}
  BY DEF Frame
<1>2. byte \subseteq 0 .. 7
  BY DEF Bytes
<1>3. \A i \in 0 .. 7 : 9 - i \in Frame(byte) <=> i \in byte
  BY <1>1, <1>2
<1>4. Frame(byte) \in Registers /\ 0 \in Frame(byte)
  <2>1. \A i \in byte : 9 - i \in 0 .. 10
    BY <1>2
  <2>2. {9 - i : i \in byte} \subseteq 0 .. 10
    BY <2>1
  <2>3. parity \subseteq 0 .. 10 /\ 0 \in 0 .. 10
    OBVIOUS
  <2> QED
    BY <1>1, <2>2, <2>3 DEF Registers
<1>5. {i \in 0 .. 7 : 9 - i \in Frame(byte)} = byte
  BY <1>2, <1>3
<1> QED
  BY <1>4, <1>5

LEMMA TrapNext ==
  ASSUME NEW trap \in Trap
  PROVE  /\ Trapped(trap, TRUE) = Trap \ {0}
         /\ Trapped(trap, FALSE) \in SUBSET Trap
         /\ Trapped(0, FALSE) = {0}
         /\ Fires(trap) => trap # 0 /\ Trapped(trap, FALSE) = {0}
         /\ trap # 0 /\ ~Fires(trap) => Trapped(trap, FALSE) \in SUBSET (Trap \ {0})
BY SyncAssumption DEF Trapped, Trap, Fires

\* One edge of the clock: the stage that follows, what becomes of the count, and
\* which key is left to be shown.
LEMMA CycleStages ==
  ASSUME TypeOK, Staged, NEW read_finish \in BOOLEAN, Cycle(read_finish)
  PROVE  /\ Staged'
         /\ Settled' = Settled
         /\ Shown => Unshown /\ ~Unshown'
         /\ ~Shown => (Unshown' <=> Unshown)
<1>1. /\ kbd_reg' = kbd_reg /\ old_kbd_reg' = old_kbd_reg /\ scan_code' = scan_code
      /\ bit_count' = IF Fires(reset_trap) THEN 0 ELSE bit_count
      /\ data_ready' <=> ~Fires(reset_trap)
                         /\ (IF Fires(check_trap) THEN KeyReady ELSE data_ready)
      /\ check_trap' \in Trapped(check_trap, FALSE)
  BY DEF Cycle, KbdStep, scan_code
<1>2. /\ writer' = IF writer # "idle" THEN Following[writer]
                   ELSE IF Fires(ready_trap) THEN "convert_to_ascii_now" ELSE "idle"
      /\ ready_trap' \in Trapped(ready_trap, data_ready' /\ ~data_ready)
      /\ reset_trap' \in Trapped(reset_trap, ~(writer = "clear_kbd_data")
                                             /\ writer' = "clear_kbd_data")
  BY DEF Cycle, WriterStep, WriterMove, reset_kbd_data
<1>3. ~Fires(0)
  BY DEF Fires
<1>4. check_trap \in Trap /\ ready_trap \in Trap /\ reset_trap \in Trap
      /\ data_ready \in BOOLEAN /\ data_ready' \in BOOLEAN
  BY DEF TypeOK, Cycle, KbdStep
<1>5. ~Fires(reset_trap) => (KeyReady' <=> KeyReady)
  BY <1>1 DEF KeyReady
<1>6. CASE Waiting
  <2>1. ~data_ready' /\ check_trap' = 0 /\ bit_count' = bit_count
    BY <1>1, <1>3, <1>4, <1>6, TrapNext DEF Waiting
  <2>2. writer' \in {"init_scope_LCD_reg", "idle"}
    BY <1>2, <1>3, <1>6 DEF Waiting, Following
  <2>3. ready_trap' = 0 /\ reset_trap' = 0
    BY <1>2, <1>4, <1>6, <2>1, <2>2, TrapNext DEF Waiting
  <2>4. Waiting'
    BY <2>1, <2>2, <2>3 DEF Waiting
  <2> QED
    BY <1>6, <2>1, <2>2, <2>4 DEF Staged, Waiting, Checking, Noticed, Settled, Unshown, Shown
<1>7. CASE Checking /\ ~Fires(check_trap)
  <2>1. ~data_ready' /\ check_trap' \in Trap \ {0} /\ bit_count' = bit_count
    BY <1>1, <1>3, <1>4, <1>7, TrapNext DEF Checking
  <2>2. writer' = "idle" /\ ready_trap' = 0 /\ reset_trap' = 0
    BY <1>2, <1>3, <1>4, <1>7, <2>1, TrapNext DEF Checking
  <2>3. Checking' /\ (KeyReady' <=> KeyReady)
    BY <1>3, <1>5, <1>7, <2>1, <2>2 DEF Checking
  <2> QED
    BY <1>7, <2>1, <2>2, <2>3 DEF Staged, Checking, Noticed, Settled, Unshown, Shown
<1>8. CASE Checking /\ Fires(check_trap) /\ KeyReady
  <2>1. data_ready' /\ check_trap' = 0 /\ bit_count' = bit_count
    BY <1>1, <1>3, <1>4, <1>8, TrapNext DEF Checking
  <2>2. writer' = "idle" /\ ready_trap' \in Trap \ {0} /\ reset_trap' = 0
    BY <1>2, <1>3, <1>4, <1>8, <2>1, TrapNext DEF Checking
  <2>3. Noticed'
    BY <2>1, <2>2 DEF Noticed
  <2> QED
    BY <1>8, <2>1, <2>2, <2>3 DEF Staged, Checking, Noticed, Settled, Unshown, Shown
<1>9. CASE Checking /\ Fires(check_trap) /\ ~KeyReady
  <2>1. ~data_ready' /\ check_trap' = 0 /\ bit_count' = bit_count
    BY <1>1, <1>3, <1>4, <1>9, TrapNext DEF Checking
  <2>2. writer' = "idle" /\ ready_trap' = 0 /\ reset_trap' = 0
    BY <1>2, <1>3, <1>4, <1>9, <2>1, TrapNext DEF Checking
  <2>3. Waiting'
    BY <2>1, <2>2 DEF Waiting
  <2> QED
    BY <1>9, <2>1, <2>2, <2>3 DEF Staged, Waiting, Checking, Noticed, Settled, Unshown, Shown
<1>10. CASE Noticed
  <2>1. data_ready' /\ check_trap' = 0 /\ bit_count' = bit_count
    BY <1>1, <1>3, <1>4, <1>10, TrapNext DEF Noticed
  <2>2. reset_trap' = 0
    BY <1>2, <1>3, <1>4, <1>10, TrapNext DEF Noticed
  <2>3. CASE Fires(ready_trap)
    <3>1. writer' = "convert_to_ascii_now" /\ ready_trap' = 0
      BY <1>2, <1>4, <1>10, <2>1, <2>3, TrapNext DEF Noticed
    <3> QED
      BY <1>10, <2>1, <2>2, <3>1 DEF Staged, Writing, Noticed, Settled, Unshown, Shown
  <2>4. CASE ~Fires(ready_trap)
    <3>1. writer' = "idle" /\ ready_trap' \in Trap \ {0}
      BY <1>2, <1>4, <1>10, <2>1, <2>4, TrapNext DEF Noticed
    <3> QED
      BY <1>10, <2>1, <2>2, <3>1 DEF Staged, Noticed, Settled, Unshown, Shown
  <2> QED
    BY <2>3, <2>4
<1>11. CASE Writing
  <2>1. data_ready' /\ check_trap' = 0 /\ bit_count' = bit_count
    BY <1>1, <1>3, <1>4, <1>11, TrapNext DEF Writing
  <2>2. ready_trap' = 0
    BY <1>2, <1>4, <1>11, <2>1, TrapNext DEF Writing
  <2>3. writer' = Following[writer]
    BY <1>2, <1>11 DEF Writing
  <2>4. CASE writer = "LCD_byte_change_value_state"
    <3>1. writer' = "clear_kbd_data"
      BY <2>3, <2>4 DEF Following
    <3>2. reset_trap' \in Trap \ {0}
      BY <1>2, <1>4, <1>11, <2>4, <3>1, TrapNext DEF Writing
    <3> QED
      BY <1>11, <2>1, <2>2, <2>4, <3>1, <3>2
      DEF Staged, Checking, Writing, Noticed, Clearing, Settled, Unshown, Shown
  <2>5. CASE writer # "LCD_byte_change_value_state"
    <3>1. \/ writer = "convert_to_ascii_now" /\ writer' = "LCD_enable_change_state"
          \/ writer = "LCD_enable_change_state" /\ writer' = "LCD_byte_change_value_state"
      BY <1>11, <2>3, <2>5 DEF Following, Writing
    <3>2. reset_trap' = 0
      BY <1>2, <1>4, <1>11, <3>1, TrapNext DEF Writing
    <3> QED
      BY <1>11, <2>1, <2>2, <3>1, <3>2
      DEF Staged, Checking, Writing, Noticed, Settled, Unshown, Shown
  <2> QED
    BY <2>4, <2>5
<1>12. CASE Clearing
  <2>1. check_trap' = 0 /\ ready_trap' = 0
    BY <1>1, <1>2, <1>3, <1>4, <1>12, TrapNext DEF Clearing
  <2>2. writer' \in {"finished", "idle"}
    BY <1>2, <1>3, <1>12 DEF Clearing, Following
  <2>3. CASE Fires(reset_trap)
    <3>1. ~data_ready' /\ bit_count' = 0 /\ reset_trap' = 0
      BY <1>1, <1>2, <1>4, <1>12, <2>2, <2>3, TrapNext DEF Clearing
    <3> QED
      BY <1>12, <2>1, <2>2, <3>1
      DEF Staged, Waiting, Checking, Noticed, Clearing, Settled, Unshown, Shown
  <2>4. CASE ~Fires(reset_trap)
    <3>1. data_ready' /\ reset_trap' \in Trap \ {0}
      BY <1>1, <1>2, <1>3, <1>4, <1>12, <2>2, <2>4, TrapNext DEF Clearing
    <3> QED
      BY <1>12, <2>1, <2>2, <3>1
      DEF Staged, Checking, Noticed, Clearing, Settled, Unshown, Shown
  <2> QED
    BY <2>3, <2>4
<1> QED
  BY <1>6, <1>7, <1>8, <1>9, <1>10, <1>11, <1>12 DEF Staged

LEMMA TypeNextTyping ==
  ASSUME TypeOK, Typing
  PROVE  TypeOK'
<1>1. PICK key \in typist.keys : Press(key) \/ Release(key)
  BY DEF Typing
<1>2. key \in Keys \cup {"arrow"} /\ typist.keys \subseteq Keys \cup {"arrow"}
  BY <1>1 DEF TypeOK
<1>3. Make(key) \in Seq(Bytes) /\ Break(key) \in Seq(Bytes)
  <2>1. Code[key] \in Bytes /\ EXTENDED_SCAN_CODE \in Bytes /\ KEY_UP_SCAN_CODE \in Bytes
    BY <1>2, KeyCodes DEF EXTENDED_SCAN_CODE, KEY_UP_SCAN_CODE, Bytes
  <2>2. Prefix(key) \in Seq(Bytes)
    BY <2>1 DEF Prefix
  <2> QED
    BY <2>1, <2>2 DEF Make, Break
<1>4. UNCHANGED <<typist, Circuit>> /\ wire' \in Seq(Bytes)
  BY <1>1, <1>3 DEF Press, Release
<1>5. down' \subseteq typist.keys /\ latest' \in typist.keys \cup {"none"}
  BY <1>1 DEF Press, Release, TypeOK
<1>6. owed' \in Seq(typist.keys)
  <2>1. owed' = owed \/ owed' = Append(owed, key)
    BY <1>1 DEF Press, Release
  <2>2. owed \in Seq(typist.keys) /\ key \in typist.keys
    BY DEF TypeOK
  <2> QED
    BY <2>1, <2>2, AppendProperties
<1> QED
  BY <1>4, <1>5, <1>6 DEF TypeOK, Circuit, kbdVars, writerVars

LEMMA TypeNextFrame ==
  ASSUME TypeOK, FrameArrives
  PROVE  TypeOK'
<1>1. Head(wire) \in Bytes /\ wire' \in Seq(Bytes)
  BY DEF TypeOK, FrameArrives
<1>2. kbd_reg' \in Registers /\ old_kbd_reg' \in Registers
  BY <1>1, FrameHoldsByte DEF TypeOK, FrameArrives, Receive
<1>3. bit_count' \in 0 .. 63 /\ check_trap' \in Trap
  BY SyncAssumption DEF TypeOK, FrameArrives, Receive, Trap
<1> QED
  BY <1>1, <1>2, <1>3 DEF TypeOK, FrameArrives, Receive, writerVars

LEMMA TypeNextCycle ==
  ASSUME TypeOK, NEW read_finish \in BOOLEAN, Cycle(read_finish)
  PROVE  TypeOK'
<1>1. /\ bit_count' \in 0 .. 63 /\ data_ready' \in BOOLEAN
      /\ UNCHANGED <<typist, kbd_reg, old_kbd_reg, down, latest, wire>>
  BY DEF TypeOK, Cycle, KbdStep
<1>2. check_trap' \in Trap /\ ready_trap' \in Trap /\ reset_trap' \in Trap
  <2>1. \A trap \in Trap, rose \in BOOLEAN : Trapped(trap, rose) \in SUBSET Trap
    BY TrapNext
  <2>2. /\ (data_ready' /\ ~data_ready) \in BOOLEAN
        /\ (~reset_kbd_data /\ reset_kbd_data') \in BOOLEAN
    OBVIOUS
  <2> QED
    BY <2>1, <2>2 DEF TypeOK, Cycle, KbdStep, WriterStep
<1>3. /\ writer' \in WriterStates \ {"init_state"}
      /\ writer = "init_state" => writer' = "init_scope_LCD_reg"
  <2>1. CASE writer # "idle"
    BY <2>1 DEF TypeOK, Cycle, WriterStep, WriterMove, WriterStates, Following
  <2>2. CASE writer = "idle"
    BY <2>2 DEF Cycle, WriterStep, WriterMove, WriterStates
  <2> QED
    BY <2>1, <2>2
<1>4. enabled' \in Cells
  <2> DEFINE n == scope_info_bytes
  <2>1. n \in Nat \ {0} /\ n - 1 \in Cells /\ Cells = 0 .. n - 1
    BY ScopeAssumption DEF Cells
  <2>2. CASE writer' = "init_scope_LCD_reg"
    BY <2>1, <2>2 DEF Cycle, WriterStep, RingStep
  <2>3. CASE writer' # "init_scope_LCD_reg"
    <3>1. enabled \in Cells
      BY <1>3, <2>3 DEF TypeOK
    <3>2. (enabled + n - 1) % n \in Cells
      BY <2>1, <3>1
    <3> QED
      BY <2>3, <3>1, <3>2 DEF Cycle, WriterStep, RingStep
  <2> QED
    BY <2>2, <2>3
<1>5. ascii' \in Shows /\ scope_info' \in [Cells -> Shows]
  BY AsciiIsKey DEF TypeOK, Cycle, WriterStep, Store, Shows
<1>6. owed' \in Seq(typist.keys)
  BY DEF TypeOK, Cycle
<1> QED
  BY <1>1, <1>2, <1>3, <1>4, <1>5, <1>6, ScopeAssumption DEF TypeOK, Cells

LEMMA TypeNext == TypeOK /\ [Next]_vars => TypeOK'
<1> SUFFICES ASSUME TypeOK, [Next]_vars PROVE TypeOK'
  OBVIOUS
<1>1. CASE Next
  BY <1>1, TypeNextTyping, TypeNextFrame, TypeNextCycle DEF Next
<1>2. CASE UNCHANGED vars
  BY <1>2 DEF TypeOK, vars, kbdVars, writerVars, keyVars
<1> QED
  BY <1>1, <1>2

LEMMA TypeInit == Init => TypeOK
<1> SUFFICES ASSUME Init PROVE TypeOK
  OBVIOUS
<1>1. << >> \in Seq(Bytes) /\ << >> \in Seq(typist.keys)
  OBVIOUS
<1>2. 0 \in Trap /\ scope_info_bytes \in 0 .. scope_info_bytes
  BY SyncAssumption, ScopeAssumption DEF Trap
<1>3. scope_info \in [Cells -> Shows] /\ ascii \in Shows
  BY DEF Init, WriterInit, Shows
<1>4. typist \in [keys : SUBSET (Keys \cup {"arrow"}), overlap : BOOLEAN]
  BY TypistsAssumption DEF Init
<1>5. /\ kbd_reg \in Registers /\ old_kbd_reg \in Registers
      /\ bit_count \in 0 .. 63 /\ data_ready \in BOOLEAN /\ check_trap \in Trap
  <2>1. kbd_reg = {} /\ old_kbd_reg = {} /\ bit_count = 0 /\ data_ready = FALSE
        /\ check_trap = 0
    BY DEF Init, KbdInit
  <2>2. {} \in Registers
    BY DEF Registers
  <2>3. kbd_reg \in Registers /\ old_kbd_reg \in Registers
    BY <2>1, <2>2
  <2>4. bit_count \in 0 .. 63
    BY <2>1
  <2>5. data_ready \in BOOLEAN /\ check_trap \in Trap
    BY <1>2, <2>1
  <2> QED
    BY <2>3, <2>4, <2>5
<1>6. /\ writer \in WriterStates /\ ready_trap \in Trap /\ reset_trap \in Trap
      /\ enabled \in 0 .. scope_info_bytes /\ writer = "init_state"
  BY <1>2 DEF Init, WriterInit, WriterStates
<1>7. /\ down \subseteq typist.keys /\ latest \in typist.keys \cup {"none"}
      /\ wire \in Seq(Bytes) /\ owed \in Seq(typist.keys)
  BY <1>1 DEF Init
<1> QED
  BY <1>3, <1>4, <1>5, <1>6, <1>7 DEF TypeOK

LEMMA FrameReceived ==
  ASSUME TypeOK, FrameArrives
  PROVE  /\ scan_code' = Head(wire) /\ kbd_reg' # KEY_UP_SCAN_CODE
         /\ old_kbd_reg' = kbd_reg
         /\ Waiting /\ writer = "idle" /\ Checking' /\ Settled = bit_count
         /\ bit_count' = (bit_count + 11) % 64
         /\ Settled' = IF KeyReady' THEN 0 ELSE bit_count'
<1>1. Head(wire) \in Bytes
  BY DEF TypeOK, FrameArrives
<1>2. scan_code' = Head(wire) /\ 0 \in kbd_reg'
  BY <1>1, FrameHoldsByte DEF FrameArrives, Receive, scan_code
<1>3. kbd_reg' # KEY_UP_SCAN_CODE
  BY <1>2 DEF KEY_UP_SCAN_CODE
<1>4. /\ ~data_ready /\ check_trap = 0 /\ ready_trap = 0 /\ reset_trap = 0
      /\ writer = "idle" /\ UNCHANGED <<data_ready, ready_trap, reset_trap, writer>>
      /\ bit_count' = (bit_count + 11) % 64 /\ old_kbd_reg' = kbd_reg
      /\ check_trap' # 0
  BY SyncAssumption DEF FrameArrives, AtRest, Receive, writerVars
<1> QED
  BY <1>2, <1>3, <1>4 DEF Waiting, Checking, Settled

LEMMA CircuitUnchanged ==
  ASSUME UNCHANGED Circuit
  PROVE  /\ Staged' <=> Staged
         /\ Settled' = Settled
         /\ Unshown' <=> Unshown
         /\ scan_code' = scan_code
BY DEF Circuit, kbdVars, writerVars, Staged, Waiting, Checking, Noticed, Writing,
       Clearing, Settled, Unshown, KeyReady, scan_code

LEMMA StagedNext == TypeOK /\ Staged /\ [Next]_vars => Staged'
<1> SUFFICES ASSUME TypeOK, Staged, [Next]_vars PROVE Staged'
  OBVIOUS
<1>1. CASE Typing
  BY <1>1, CircuitUnchanged DEF Typing, Press, Release
<1>2. CASE FrameArrives
  BY <1>2, FrameReceived DEF Staged
<1>3. CASE \E read_finish \in BOOLEAN : Cycle(read_finish)
  BY <1>3, CycleStages
<1>4. CASE UNCHANGED vars
  BY <1>4, CircuitUnchanged DEF vars, Circuit
<1> QED
  BY <1>1, <1>2, <1>3, <1>4 DEF Next

LEMMA CountedNext == TypeOK /\ Staged /\ Counted /\ [Next]_vars => Counted'
<1> SUFFICES ASSUME TypeOK, Staged, Counted, [Next]_vars PROVE Counted'
  OBVIOUS
<1>1. CASE Typing
  <2>1. PICK key \in typist.keys : Press(key) \/ Release(key)
    BY <1>1 DEF Typing
  <2>2. Settled' = Settled /\ wire = << >>
    BY <2>1, CircuitUnchanged DEF Press, Release
  <2>3. wire' # << >> /\ wire'[Len(wire')] = Code[key]
    BY <2>1 DEF Press, Release, Make, Break, Prefix
  <2>4. Code[key] \notin Prefixes
    BY <2>1, KeyCodes DEF TypeOK
  <2> QED
    BY <2>2, <2>3, <2>4 DEF Counted
<1>2. CASE FrameArrives
  <2>1. wire \in Seq(Bytes) /\ wire # << >> /\ wire' = Tail(wire)
    BY <1>2 DEF TypeOK, FrameArrives
  <2>2. bit_count \in {0, 11, 22} /\ bit_count' \in {11, 22, 33}
    BY <1>2, FrameReceived DEF Counted
  <2>3. /\ bit_count' = 11 => (KeyReady' <=> Head(wire) \notin Prefixes)
        /\ bit_count' = 33 => KeyReady'
    BY <1>2, FrameReceived DEF KeyReady, Prefixes
  <2>4. CASE wire' = << >>
    <3>1. Head(wire) \notin Prefixes
      <4>1. Len(Tail(wire)) = Len(wire) - 1 /\ Len(<< >>) = 0 /\ Len(wire) \in Nat
        BY <2>1, HeadTailProperties, LenProperties
      <4>2. Head(wire) = wire[Len(wire)]
        <5>1. Tail(wire) = << >>
          BY <2>1, <2>4
        <5>2. Len(Tail(wire)) = 0
          BY <4>1, <5>1
        <5>3. Len(wire) = 1
          BY <4>1, <5>2
        <5>4. Head(wire) = wire[1]
          BY <2>1
        <5> QED
          BY <5>3, <5>4
      <4> QED
        BY <2>1, <4>2 DEF Counted
    <3> QED
      BY <1>2, <2>2, <2>3, <2>4, <3>1, FrameReceived DEF Counted
  <2>5. CASE wire' # << >>
    <3>1. wire'[Len(wire')] = wire[Len(wire)]
      BY <2>1, <2>5, HeadTailProperties
    <3> QED
      BY <1>2, <2>1, <2>2, <2>3, <2>5, <3>1, FrameReceived DEF Counted
  <2> QED
    BY <2>4, <2>5
<1>3. CASE \E read_finish \in BOOLEAN : Cycle(read_finish)
  BY <1>3, CycleStages DEF Counted, Cycle
<1>4. CASE UNCHANGED vars
  BY <1>4, CircuitUnchanged DEF vars, Circuit, keyVars, Counted
<1> QED
  BY <1>1, <1>2, <1>3, <1>4 DEF Next

LEMMA AlwaysCounted == Spec => [](TypeOK /\ Staged /\ Counted)
<1>1. Init => Staged /\ Counted
  BY DEF Init, KbdInit, WriterInit, Staged, Waiting, Counted, Settled
<1> QED
  BY <1>1, TypeInit, TypeNext, StagedNext, CountedNext, PTL DEF Spec

\* However the keys are typed, the controller is back in step after each.
THEOREM InStepCorrect == Spec => []InStepBetweenKeys
<1>1. Counted => InStepBetweenKeys
  BY DEF Counted, Settled, InStepBetweenKeys, AtRest
<1> QED
  BY <1>1, AlwaysCounted, PTL

LEMMA OneAtATimeTyping ==
  ASSUME PlainKeys, TypeOK, typist \in Typists, OneAtATime, Typing
  PROVE  OneAtATime'
<1> SUFFICES ASSUME ~typist.overlap PROVE OneAtATime'
  BY DEF OneAtATime, Typing, Press, Release
<1>1. PICK key \in typist.keys : Press(key) \/ Release(key)
  BY DEF Typing
<1>2. key \in Keys /\ key # "arrow" /\ Prefix(key) = << >>
  BY <1>1 DEF PlainKeys, TypeOK, Prefix
<1>3. Make(key) = <<Code[key]>> /\ Break(key) = <<KEY_UP_SCAN_CODE, Code[key]>>
  BY <1>2 DEF Make, Break
<1>4. /\ wire = << >> /\ UNCHANGED <<typist, Circuit>>
      /\ Settled' = Settled /\ (Unshown' <=> Unshown) /\ scan_code' = scan_code
      /\ kbd_reg' = kbd_reg /\ writer' = writer /\ ascii' = ascii
  BY <1>1, CircuitUnchanged DEF Press, Release, Circuit, kbdVars, writerVars
<1>5. owed \in Seq(typist.keys) /\ key \in typist.keys
  BY DEF TypeOK
<1>6. /\ kbd_reg # KEY_UP_SCAN_CODE
      /\ (down = {} /\ Settled # 11) \/ (down = {latest} /\ Settled = 0)
      /\ Len(owed) = (IF Unshown THEN 1 ELSE 0)
      /\ Unshown => scan_code = Code[owed[1]]
      /\ writer \in {"convert_to_ascii_now", "LCD_enable_change_state"} => ascii = owed[1]
  <2>1. (down = {} /\ Settled # 11) \/ (down = {latest} /\ Settled = 0)
    <3>1. wire # <<Code[latest]>> /\ wire # <<KEY_UP_SCAN_CODE, Code[latest]>>
      BY <1>4
    <3>2. Sends
      BY DEF OneAtATime
    <3> QED
      BY <3>1, <3>2 DEF Sends
  <2>2. Len(owed) = (IF Unshown THEN 1 ELSE 0) + (IF Unsent THEN 1 ELSE 0) /\ ~Unsent
    BY <1>4 DEF OneAtATime, Unsent
  <2> QED
    BY <2>1, <2>2 DEF OneAtATime
<1>7. CASE Press(key)
  <2>1. /\ wire' = <<Code[key]>> /\ latest' = key
        /\ down' = down \cup {key} /\ owed' = Append(owed, key)
    BY <1>3, <1>7 DEF Press
  <2>2. down' = {key} /\ Settled # 11
    BY <1>6, <1>7, <2>1 DEF Press
  <2>3. Sends' /\ Unsent'
    BY <1>4, <2>1, <2>2 DEF Sends, Unsent
  <2>4. /\ Len(owed') = Len(owed) + 1 /\ owed'[Len(owed')] = key
        /\ Len(owed) = 1 => owed'[1] = owed[1]
    BY <1>5, <2>1, AppendProperties
  <2> QED
    BY <1>4, <1>5, <1>6, <2>1, <2>3, <2>4 DEF OneAtATime, Unshown
<1>8. CASE Release(key)
  <2>1. /\ wire' = <<KEY_UP_SCAN_CODE, Code[key]>> /\ latest' = latest
        /\ down' = down \ {key} /\ owed' = owed /\ key \in down
    BY <1>3, <1>8 DEF Release
  <2>2. latest = key /\ down' = {} /\ Settled = 0
    BY <1>6, <2>1
  <2>3. Sends' /\ ~Unsent'
    BY <1>4, <2>1, <2>2 DEF Sends, Unsent
  <2> QED
    BY <1>4, <1>5, <1>6, <2>1, <2>2, <2>3 DEF OneAtATime
<1> QED
  BY <1>1, <1>7, <1>8

LEMMA OneAtATimeFrame ==
  ASSUME PlainKeys, TypeOK, Counted, typist \in Typists, OneAtATime, FrameArrives
  PROVE  OneAtATime'
<1> SUFFICES ASSUME ~typist.overlap PROVE OneAtATime'
  BY DEF OneAtATime, FrameArrives
<1>1. /\ wire # << >> /\ wire' = Tail(wire) /\ owed \in Seq(typist.keys)
      /\ UNCHANGED <<typist, down, latest, owed, writer, ascii>>
  BY DEF TypeOK, FrameArrives, writerVars
<1>2. latest \in typist.keys /\ latest \in Keys
  BY <1>1 DEF OneAtATime, PlainKeys, TypeOK
<1>3. Code[latest] \notin Prefixes
  BY <1>2, KeyCodes
<1>4. /\ scan_code' = Head(wire) /\ kbd_reg' # KEY_UP_SCAN_CODE
      /\ old_kbd_reg' # KEY_UP_SCAN_CODE
      /\ writer = "idle" /\ ~Unshown /\ Checking' /\ Settled = bit_count
      /\ bit_count' = (bit_count + 11) % 64
      /\ Settled' = IF KeyReady' THEN 0 ELSE bit_count'
  BY FrameReceived DEF OneAtATime, Unshown, Waiting, Checking, Noticed
<1>5. Unshown' <=> KeyReady'
  BY <1>1, <1>4 DEF Unshown, Noticed, Checking
<1>6. bit_count \in {0, 11, 22} /\ bit_count' = bit_count + 11
  BY <1>4 DEF Counted
<1>7. KeyReady' <=> \/ bit_count' = 11 /\ Head(wire) \notin Prefixes
                    \/ bit_count' >= 33
  BY <1>4 DEF KeyReady, Prefixes
<1>8. CASE wire = <<Code[latest]>> /\ down = {latest} /\ Settled # 11
  <2>1. wire' = << >> /\ Head(wire) = Code[latest]
    BY <1>1, <1>8
  <2>2. KeyReady' /\ Settled' = 0
    BY <1>3, <1>4, <1>6, <1>7, <1>8, <2>1
  <2>3. Len(owed) = 1 /\ owed[1] = latest
    BY <1>1, <1>4, <1>8 DEF OneAtATime, Unsent
  <2>4. Sends' /\ ~Unsent'
    BY <1>1, <1>8, <2>1, <2>2 DEF Sends, Unsent
  <2> QED
    BY <1>1, <1>2, <1>4, <1>5, <2>1, <2>2, <2>3, <2>4 DEF OneAtATime
<1>9. CASE wire = <<KEY_UP_SCAN_CODE, Code[latest]>> /\ down = {} /\ Settled = 0
  <2>1. wire' = <<Code[latest]>> /\ Head(wire) = KEY_UP_SCAN_CODE
    BY <1>1, <1>9
  <2>2. ~KeyReady' /\ Settled' = 11
    BY <1>4, <1>6, <1>7, <1>9, <2>1 DEF Prefixes
  <2>3. Len(owed) = 0
    BY <1>1, <1>4, <1>9 DEF OneAtATime, Unsent
  <2>4. Sends' /\ ~Unsent'
    BY <1>1, <1>9, <2>1, <2>2 DEF Sends, Unsent
  <2> QED
    BY <1>1, <1>2, <1>4, <1>5, <2>2, <2>3, <2>4 DEF OneAtATime
<1>10. CASE wire = <<Code[latest]>> /\ down = {} /\ Settled = 11
  <2>1. wire' = << >> /\ Head(wire) = Code[latest]
    BY <1>1, <1>10
  <2>2. ~KeyReady' /\ Settled' = 22
    BY <1>4, <1>6, <1>7, <1>10
  <2>3. Len(owed) = 0
    BY <1>1, <1>4, <1>10 DEF OneAtATime, Unsent
  <2>4. Sends' /\ ~Unsent'
    BY <1>1, <1>10, <2>1, <2>2 DEF Sends, Unsent
  <2> QED
    BY <1>1, <1>2, <1>4, <1>5, <2>2, <2>3, <2>4 DEF OneAtATime
<1> QED
  BY <1>1, <1>8, <1>9, <1>10 DEF OneAtATime, Sends

LEMMA OneAtATimeCycle ==
  ASSUME PlainKeys, TypeOK, Staged, typist \in Typists, OneAtATime,
         NEW read_finish \in BOOLEAN, Cycle(read_finish)
  PROVE  /\ OneAtATime'
         /\ Shown /\ ~typist.overlap => owed # << >> /\ scope_info'[enabled'] = Head(owed)
<1> SUFFICES ASSUME ~typist.overlap
             PROVE  /\ OneAtATime'
                    /\ Shown => owed # << >> /\ scope_info'[enabled'] = Head(owed)
  BY DEF OneAtATime, Cycle
<1>1. /\ UNCHANGED <<typist, down, latest, wire>> /\ kbd_reg' = kbd_reg
      /\ scan_code' = scan_code /\ Settled' = Settled
      /\ owed' = IF Shown /\ owed # << >> THEN Tail(owed) ELSE owed
      /\ ascii' = IF writer' = "convert_to_ascii_now" THEN Ascii(scan_code) ELSE ascii
  BY CycleStages DEF Cycle, KbdStep, WriterStep, scan_code
<1>2. Sends' /\ (Unsent' <=> Unsent)
  BY <1>1 DEF OneAtATime, Sends, Unsent
<1>3. owed \in Seq(typist.keys)
      /\ Len(owed) = (IF Unshown THEN 1 ELSE 0) + (IF Unsent THEN 1 ELSE 0)
  BY DEF OneAtATime, TypeOK
<1>4. Unshown => owed # << >> /\ Head(owed) = owed[1] /\ owed[1] \in Keys
  <2> SUFFICES ASSUME Unshown PROVE owed # << >> /\ Head(owed) = owed[1] /\ owed[1] \in Keys
    OBVIOUS
  <2>1. Len(owed) >= 1
    BY <1>3
  <2>2. owed # << >> /\ Head(owed) = owed[1] /\ owed[1] \in typist.keys
    BY <1>3, <2>1
  <2> QED
    BY <2>2 DEF PlainKeys, TypeOK
<1>5. CASE Shown
  <2>1. Unshown /\ ~Unshown' /\ writer = "LCD_enable_change_state"
    BY <1>5, CycleStages DEF Shown, Cycle, WriterStep, WriterMove, Following, TypeOK,
                             WriterStates
  <2>2. /\ writer' = "LCD_byte_change_value_state" /\ enabled' = enabled
        /\ scope_info' = [scope_info EXCEPT ![enabled] = ascii]
    BY <1>5 DEF Shown, Cycle, WriterStep, RingStep, Store
  <2>3. enabled \in Cells /\ scope_info \in [Cells -> Shows] /\ ascii = owed[1]
    BY <2>1 DEF TypeOK, OneAtATime
  <2>4. owed # << >> /\ scope_info'[enabled'] = Head(owed) /\ owed' = Tail(owed)
    BY <1>1, <1>4, <1>5, <2>1, <2>2, <2>3
  <2>5. /\ Len(owed') = Len(owed) - 1
        /\ Unsent => owed'[Len(owed')] = owed[Len(owed)]
    <3>1. \A i \in 1 .. Len(owed') : owed'[i] = owed[i + 1]
      BY <1>3, <2>4, HeadTailProperties
    <3>2. Len(owed') = Len(owed) - 1
      BY <1>3, <2>4, HeadTailProperties
    <3>3. Unsent => Len(owed) = 2
      BY <1>3, <2>1
    <3> QED
      BY <3>1, <3>2, <3>3
  <2>6. Len(owed') = (IF Unshown' THEN 1 ELSE 0) + (IF Unsent' THEN 1 ELSE 0)
    BY <1>2, <1>3, <2>1, <2>5
  <2>7. Unsent' => owed'[Len(owed')] = latest'
    BY <1>1, <1>2, <2>5 DEF OneAtATime
  <2> QED
    BY <1>1, <1>2, <2>1, <2>2, <2>4, <2>6, <2>7 DEF OneAtATime
<1>6. CASE ~Shown
  <2>1. owed' = owed /\ (Unshown' <=> Unshown)
    BY <1>1, <1>6, CycleStages
  <2>2. Unshown => scan_code = Code[owed[1]] /\ Ascii(scan_code) = owed[1]
    BY <1>4, AsciiOfKey DEF OneAtATime
  <2>3. CASE writer' = "convert_to_ascii_now"
    <3>1. Unshown'
      BY <2>3 DEF Unshown
    <3> QED
      BY <1>1, <1>2, <1>3, <1>6, <2>1, <2>2, <2>3, <3>1 DEF OneAtATime
  <2>4. CASE writer' = "LCD_enable_change_state"
    <3>1. writer = "convert_to_ascii_now"
      BY <2>4 DEF Cycle, WriterStep, WriterMove, Following, TypeOK, WriterStates
    <3> QED
      BY <1>1, <1>2, <1>3, <1>6, <2>1, <2>2, <2>4, <3>1 DEF OneAtATime
  <2>5. CASE writer' \notin {"convert_to_ascii_now", "LCD_enable_change_state"}
    BY <1>1, <1>2, <1>3, <1>6, <2>1, <2>2, <2>5 DEF OneAtATime
  <2> QED
    BY <2>3, <2>4, <2>5
<1> QED
  BY <1>5, <1>6

LEMMA AlwaysOneAtATime ==
  ASSUME PlainKeys
  PROVE  Spec => [](TypeOK /\ Staged /\ Counted /\ typist \in Typists /\ OneAtATime)
<1>1. Init => typist \in Typists /\ OneAtATime
  <2> SUFFICES ASSUME Init PROVE OneAtATime
    BY DEF Init
  <2>1. kbd_reg # KEY_UP_SCAN_CODE
    BY DEF Init, KbdInit, KEY_UP_SCAN_CODE
  <2>2. wire = << >> /\ down = {} /\ Settled # 11 /\ ~Unshown /\ owed = << >>
    BY DEF Init, KbdInit, WriterInit, Settled, Unshown, Checking, Noticed
  <2>3. writer = "init_state"
    BY DEF Init, WriterInit
  <2> QED
    BY <2>1, <2>2, <2>3 DEF OneAtATime, Sends, Unsent
<1>2. TypeOK /\ Staged /\ Counted /\ typist \in Typists /\ OneAtATime /\ [Next]_vars
        => (typist \in Typists /\ OneAtATime)'
  <2> SUFFICES ASSUME TypeOK, Staged, Counted, typist \in Typists, OneAtATime, [Next]_vars
               PROVE  (typist \in Typists /\ OneAtATime)'
    OBVIOUS
  <2>1. typist' = typist
    BY DEF Next, Typing, Press, Release, FrameArrives, Cycle, vars
  <2>2. CASE Next
    BY <2>1, <2>2, OneAtATimeTyping, OneAtATimeFrame, OneAtATimeCycle DEF Next
  <2>3. CASE UNCHANGED vars
    <3>1. /\ UNCHANGED Circuit /\ kbd_reg' = kbd_reg /\ writer' = writer /\ ascii' = ascii
          /\ UNCHANGED <<typist, down, latest, wire, owed>>
      BY <2>3 DEF vars, Circuit, keyVars, kbdVars, writerVars
    <3>2. Sends' = Sends /\ Unsent' = Unsent
      BY <3>1, CircuitUnchanged DEF Sends, Unsent
    <3> QED
      BY <2>1, <3>1, <3>2, CircuitUnchanged DEF OneAtATime
  <2> QED
    BY <2>2, <2>3
<1> QED
  BY <1>1, <1>2, AlwaysCounted, PTL DEF Spec

\* No key pressed on its own is missing once the circuit is at rest.
THEOREM NoPressMissedCorrect ==
  ASSUME PlainKeys
  PROVE  Spec => []NoPressMissed
<1>1. TypeOK /\ OneAtATime => NoPressMissed
  <2> SUFFICES ASSUME TypeOK, OneAtATime, wire = << >>, AtRest, ~typist.overlap
               PROVE  owed = << >>
    BY DEF NoPressMissed
  <2>1. ~Unshown /\ ~Unsent
    BY DEF AtRest, Unshown, Checking, Noticed, Unsent
  <2>2. Len(owed) = 0 /\ owed \in Seq(typist.keys)
    BY <2>1 DEF OneAtATime, TypeOK
  <2> QED
    BY <2>2, EmptySeq
<1> QED
  BY <1>1, AlwaysOneAtATime, PTL

\* The keys shown are the keys pressed, in their order, and nothing else.
THEOREM ShowsPressesOnlyCorrect ==
  ASSUME PlainKeys
  PROVE  Spec => ShowsPressesOnly
<1>1. TypeOK /\ Staged /\ typist \in Typists /\ OneAtATime /\ [Next]_vars
        => (Shown /\ ~typist.overlap => owed # << >> /\ scope_info'[enabled'] = Head(owed))
  <2> SUFFICES ASSUME TypeOK, Staged, typist \in Typists, OneAtATime, [Next]_vars,
                      Shown, ~typist.overlap
               PROVE  owed # << >> /\ scope_info'[enabled'] = Head(owed)
    OBVIOUS
  <2>1. writer' # writer
    BY DEF Shown
  <2>2. PICK read_finish \in BOOLEAN : Cycle(read_finish)
    BY <2>1 DEF Next, Typing, Press, Release, Circuit, FrameArrives, writerVars, vars
  <2> QED
    BY <2>2, OneAtATimeCycle
<1> QED
  BY <1>1, AlwaysOneAtATime, PTL DEF Spec, ShowsPressesOnly
=============================================================================
