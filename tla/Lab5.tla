-------------------------------- MODULE Lab5 ---------------------------------
(***************************************************************************)
(* The firmware of Lab 5 on its processor: main, the tasks, the interrupt  *)
(* of the shift register and the tick.  Interrupts run with interrupts     *)
(* disabled and before any task; of the tasks the kernel runs task1 before *)
(* task2 (HighestRuns of UcosProperties).                                  *)
(***************************************************************************)
EXTENDS LfsrInterrupt, SongTasks

VARIABLE main        \* place in main, "OSStart" when the tasks run

vars == <<main, lfsrVars, taskVars>>

Init == main = "reset" /\ LfsrInit /\ TasksInit

(* init_lfsr_interrupt, then the screen, the tasks and OSStart. *)
MainStep(from, to) == main = from /\ main' = to /\ UNCHANGED taskVars
Main ==
  \/ MainStep("reset", "register") /\ ResetCapture
  \/ MainStep("register", "start") /\ RegisterHandler
  \/ MainStep("start", "OSStart") /\ UNCHANGED lfsrVars

ForInterrupt == UNCHANGED <<main, taskVars>>
ForTasks == main = "OSStart" /\ UNCHANGED <<main, lfsrVars>>

(* The processor is free for main and the tasks. *)
NoInterrupt == handler = "idle" /\ ~(irq_enabled /\ edge_capture)

Song == NoInterrupt /\ Task1 /\ ForTasks
Poll == NoInterrupt /\ Task2 /\ ForTasks
Tick == handler = "idle" /\ SongTick /\ ForTasks

Next ==
  \/ Edge /\ ForInterrupt
  \/ Handler /\ ForInterrupt
  \/ NoInterrupt /\ Main
  \/ Song
  \/ Poll
  \/ Tick
  \/ AudioTakes /\ UNCHANGED <<main, lfsrVars>>

(* The handler ends; edges, a second apart, and ticks leave each task time *)
(* to go on when it is its turn; the audio controller empties the fifo.    *)
Fairness ==
  /\ WF_vars(Handler /\ ForInterrupt)
  /\ SF_vars(NoInterrupt /\ Main)
  /\ SF_vars(Song)
  /\ SF_vars(Poll)
  /\ SF_vars(Tick)
  /\ WF_vars(AudioTakes /\ UNCHANGED <<main, lfsrVars>>)

Spec == Init /\ [][Next]_vars /\ Fairness

TypeOK ==
  /\ main \in {"reset", "register", "start", "OSStart"}
  /\ LfsrTypeOK
  /\ TasksTypeOK

(* Edges that come before the handler reads the register do no harm: at    *)
(* rest the tone is that of the register's bit, unless the very last edge  *)
(* fell between the handler's read and its clearing of the capture bit.    *)
ToneStaleOnlyByEdgeInHandler ==
  irq_enabled /\ dds_increment # 0 /\ NoInterrupt /\ ~missed => dds_increment = Tone(lfsr)

(* A stop is carried out before the next button is looked at, whatever     *)
(* block was being sent: the song stands at its start.                     *)
StopDoneBeforeNextPoll ==
  command = "stop" /\ poll_pc = "poll" /\ dly.poll = 0 /\ dly.song > 0 => address_counter = 0

(* The song is rewound by a stop, or when all of it has been sent since    *)
(* the last rewind; never in between the three stores of another button.   *)
RewoundByStopOrAtEnd ==
  [][address_counter # 0 /\ address_counter' = 0 =>
       command = "stop" \/ 0..size_song - 1 \subseteq covered]_vars

(* When the last button is pause or stop and no other one follows, no      *)
(* block is sent any more.                                                 *)
SilenceObeyed ==
  []<>(command \notin {"pause", "stop"}) \/ <>[](song_pc # "send")

(* Buttons are looked at again and again, though task1 has the higher      *)
(* priority and waits for the fifo in a busy loop.                         *)
KeepsPolling == []<>(poll_pc = "stores")
=============================================================================
