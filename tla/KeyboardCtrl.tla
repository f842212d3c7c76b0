---------------------------- MODULE KeyboardCtrl -----------------------------
(***************************************************************************)
(* The player's mode (Keyboard_Ctrl): which direction, playing or paused,  *)
(* restarting or not.  R counts only together with kbd_data_ready, every   *)
(* other key acts for as long as its code stands in the keyboard register. *)
(***************************************************************************)
VARIABLE keyboard       \* mode of the player

Keys == {"B", "D", "E", "F", "R", "other"}

KeyboardStates ==
  {"Reset_Forward", "Reset_Backward", "Idle", "Start_Forward",
   "Start_Backward", "Pause_Forward", "Pause_Backward"}

\* Bits 2, 1 and 0 of the state encoding.
dir  == keyboard \in {"Reset_Forward", "Idle", "Start_Forward", "Pause_Forward"}
play == keyboard \in {"Reset_Forward", "Reset_Backward", "Start_Forward",
                      "Start_Backward"}
rst  == keyboard \in {"Reset_Forward", "Reset_Backward"}

KeyboardInit == keyboard = "Idle"

\* Where a key leads from a mode it means something in.
Follow ==
  [ Idle           |-> [E |-> "Start_Forward",  B |-> "Pause_Backward"],
    Start_Forward  |-> [B |-> "Start_Backward", D |-> "Pause_Forward"],
    Start_Backward |-> [F |-> "Start_Forward",  D |-> "Pause_Backward"],
    Pause_Forward  |-> [E |-> "Start_Forward",  B |-> "Pause_Backward"],
    Pause_Backward |-> [E |-> "Start_Backward", F |-> "Pause_Forward"] ]

RestartKey(key, kbd_data_ready) == key = "R" /\ kbd_data_ready

Restart(key, kbd_data_ready) ==
  /\ RestartKey(key, kbd_data_ready)
  /\ keyboard' = CASE keyboard = "Idle" -> "Idle"
                   [] keyboard # "Idle" /\ dir -> "Reset_Forward"
                   [] OTHER -> "Reset_Backward"

PlainKey(key, kbd_data_ready) ==
  /\ ~RestartKey(key, kbd_data_ready)
  /\ ~rst
  /\ keyboard' = IF key \in DOMAIN Follow[keyboard]
                   THEN Follow[keyboard][key] ELSE keyboard

\* mutant: Reset_Forward is left at once, as Reset_Backward is
LeaveResetForwardAtOnce(key, kbd_data_ready, read_finish) ==
  /\ ~RestartKey(key, kbd_data_ready)
  /\ keyboard = "Reset_Forward"
  /\ keyboard' = "Start_Forward"

\* Reset_Forward is left when the master reports the end of a word.
LeaveResetForward(key, kbd_data_ready, read_finish) ==
  /\ ~RestartKey(key, kbd_data_ready)
  /\ keyboard = "Reset_Forward"
  /\ keyboard' = IF read_finish THEN "Start_Forward" ELSE "Reset_Forward"

\* Reset_Backward tests the constant Start_Forward, which is never zero: the
\* mode lasts until the first edge without a restart key.
LeaveResetBackward(key, kbd_data_ready) ==
  /\ ~RestartKey(key, kbd_data_ready)
  /\ keyboard = "Reset_Backward"
  /\ keyboard' = "Start_Backward"

KeyboardStep(key, kbd_data_ready, read_finish) ==
  \/ Restart(key, kbd_data_ready)
  \/ PlainKey(key, kbd_data_ready)
  \/ LeaveResetForward(key, kbd_data_ready, read_finish)
  \/ LeaveResetBackward(key, kbd_data_ready)
=============================================================================
