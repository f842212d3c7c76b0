----------------------------- MODULE SongPlayer ------------------------------
(***************************************************************************)
(* What the iPod player promises its listener, with no clock, bus or key:  *)
(* the song is a circle of words of two samples each.  One sample of each  *)
(* half of a word is played, in the order of the direction, before the     *)
(* player moves to the neighbouring word or restarts at an end of the      *)
(* song.  The direction may turn at any step, even between the two samples *)
(* of a word.  After a rest the first sample may come from another word;   *)
(* no other sample may.                                                    *)
(***************************************************************************)
EXTENDS Naturals

CONSTANTS Last          \* the last word of the song

VARIABLES
  pos,                  \* word being played
  forward,              \* direction of play
  stage,                \* what comes next: "first", "second" sample or "move"
  sample,               \* sample last played
  rest                  \* whether the player has rested before this word

\* The word after w: the song is a circle.
After(w) == IF w = Last THEN 0 ELSE w + 1

Low(w)  == [word |-> w, half |-> "lsb"]
High(w) == [word |-> w, half |-> "msb"]

Start ==
  /\ pos = 0
  /\ forward = TRUE
  /\ stage = "first"
  /\ sample = Low(Last + 1)
  /\ rest = TRUE

Rest ==
  /\ stage = "first"
  /\ rest' = TRUE
  /\ UNCHANGED <<pos, stage, sample>>

PlayFirst ==
  /\ stage = "first"
  /\ stage' = "second"
  /\ \E w \in IF rest THEN 0 .. Last + 1 ELSE {pos} :
       sample' = IF forward THEN Low(w) ELSE High(w)
  /\ UNCHANGED <<pos, rest>>

PlaySecond ==
  /\ stage = "second"
  /\ stage' = "move"
  /\ sample' = IF forward THEN High(pos) ELSE Low(pos)
  /\ UNCHANGED <<pos, rest>>

Move ==
  /\ stage = "move"
  /\ stage' = "first"
  /\ rest' = FALSE
  /\ \/ forward /\ pos' \in {0, After(pos)}
     \/ ~forward /\ (pos' = Last \/ (pos' \in 0 .. Last /\ pos = After(pos')))
  /\ UNCHANGED sample

Turn == UNCHANGED <<pos, stage, sample, rest>>

Play == (Rest \/ PlayFirst \/ PlaySecond \/ Move \/ Turn) /\ forward' \in BOOLEAN

SongSpec == Start /\ [][Play]_<<pos, forward, stage, sample, rest>>
=============================================================================
