----------------------------- MODULE KbdToScope ------------------------------
(***************************************************************************)
(* Write_Kbd_To_Scope_LCD: for each key that is ready, have it converted   *)
(* to ASCII, store it in the next of the bytes shown on the LCD, and reset *)
(* the keyboard controller.  Three bits of the state clock other           *)
(* registers: those take their value in the step that enters the state.    *)
(***************************************************************************)
EXTENDS Naturals, AsyncTrap

CONSTANT scope_info_bytes       \* bytes shown: 16

ASSUME ScopeAssumption == scope_info_bytes \in Nat \ {0}

VARIABLES
  writer,               \* state
  ready_trap,           \* actual_kbd_ready
  enabled,              \* the byte enabled for writing, scope_info_bytes for none
  ascii,                \* output of key2ascii
  scope_info            \* the bytes

writerVars == <<writer, ready_trap, enabled, ascii, scope_info>>

WriterStates ==
  {"init_state", "init_scope_LCD_reg", "idle", "convert_to_ascii_now",
   "LCD_enable_change_state", "LCD_byte_change_value_state", "clear_kbd_data", "finished"}

Cells == 0 .. scope_info_bytes - 1

WriterInit ==
  /\ writer = "init_state"
  /\ ready_trap = 0
  /\ enabled = scope_info_bytes
  /\ ascii = "none"
  /\ scope_info = [c \in Cells |-> "none"]

FollowingNoClear ==                             \* mutant: the key is never cleared
  [ init_state |-> "init_scope_LCD_reg", init_scope_LCD_reg |-> "idle",
    convert_to_ascii_now |-> "LCD_enable_change_state",
    LCD_enable_change_state |-> "LCD_byte_change_value_state",
    LCD_byte_change_value_state |-> "finished", clear_kbd_data |-> "finished",
    finished |-> "idle" ]

\* The states that follow one another without waiting.
Following ==
  [ init_state |-> "init_scope_LCD_reg", init_scope_LCD_reg |-> "idle",
    convert_to_ascii_now |-> "LCD_enable_change_state",
    LCD_enable_change_state |-> "LCD_byte_change_value_state",
    LCD_byte_change_value_state |-> "clear_kbd_data",
    clear_kbd_data |-> "finished", finished |-> "idle" ]

WriterMove ==
  writer' = IF writer # "idle" THEN Following[writer]
            ELSE IF Fires(ready_trap) THEN "convert_to_ascii_now" ELSE "idle"

\* The ring of enables starts at the uppermost byte and is shifted down.
RingStep ==
  enabled' =
    CASE writer' = "init_scope_LCD_reg" -> scope_info_bytes - 1
      [] writer' = "LCD_enable_change_state" ->
           (enabled + scope_info_bytes - 1) % scope_info_bytes
      [] OTHER -> enabled

Store ==
  scope_info' = IF writer' = "LCD_byte_change_value_state"
                  THEN [scope_info EXCEPT ![enabled] = ascii] ELSE scope_info

WriterStep(kbd_ascii, kbd_ready_rose) ==
  /\ WriterMove
  /\ RingStep
  /\ Store
  /\ ascii' = IF writer' = "convert_to_ascii_now" THEN kbd_ascii ELSE ascii
  /\ ready_trap' \in Trapped(ready_trap, kbd_ready_rose)

reset_kbd_data == writer = "clear_kbd_data"
=============================================================================
