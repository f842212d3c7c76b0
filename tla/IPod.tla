-------------------------------- MODULE IPod ---------------------------------
(***************************************************************************)
(* The iPod player: keyboard control, master, flash reader and flash wired *)
(* together as in simple_ipod_solution.v.  All of them are clocked by      *)
(* CLK_50M, so one step of the system is one clock edge at which each of   *)
(* them steps on the values the others had before it.                      *)
(*                                                                         *)
(* The sample clock (Clock_Divider and edge_detect) is seen as its         *)
(* one-cycle pulse Clock_22K_Sync: two pulses are at least MinGap and at   *)
(* most MaxGap cycles apart, the range being what Speed_Control allows.    *)
(***************************************************************************)
EXTENDS FsmMaster, FsmSlave, KeyboardCtrl, FlashMem

CONSTANTS MinGap, MaxGap

ASSUME GapAssumption == MinGap \in Nat \ {0} /\ MaxGap \in Nat /\ MinGap <= MaxGap

VARIABLES
  gap,                  \* cycles since the last pulse of the sample clock
  rested                \* history: no word has been begun without a pause
                        \* since the last one ended

vars == <<masterVars, slaveVars, keyboard, flashVars, gap, rested>>

Init ==
  /\ MasterInit
  /\ SlaveInit(NoWord)
  /\ KeyboardInit
  /\ FlashInit
  /\ gap = 1
  /\ rested = TRUE

SampleClockLong(edge_clk) ==                    \* mutant: a pulse may last two cycles
  /\ edge_clk => gap >= MinGap \/ gap = 1
  /\ gap >= MaxGap => edge_clk
  /\ gap' = IF edge_clk THEN 1 ELSE gap + 1

SampleClockStep(edge_clk) ==
  /\ edge_clk => gap >= MinGap
  /\ gap >= MaxGap => edge_clk
  /\ gap' = IF edge_clk THEN 1 ELSE gap + 1

\* The word being played was not started on the first edge after its
\* predecessor: the master has stood in idle with play low.
RestedStep ==
  rested' = CASE master = "idle" /\ ~play -> TRUE
              [] master = "Finished" -> FALSE
              [] OTHER -> rested

Tick(edge_clk, key, kbd_data_ready, waitrequest, answer) ==
  /\ SampleClockStep(edge_clk)
  /\ KeyboardStep(key, kbd_data_ready, master_finish)
  /\ MasterStep(edge_clk, rst, play, dir, slave_finish, return_data)
  /\ SlaveStep(slave_start, waitrequest)
  /\ FlashStep(flash_read, addr, waitrequest, answer)
  /\ LatchReturnData(answer /\ ~readdatavalid,
                     IF answer THEN Head(pending).word ELSE NoWord)
  /\ RestedStep

Next ==
  \E edge_clk, kbd_data_ready, waitrequest, answer \in BOOLEAN, key \in Keys :
    Tick(edge_clk, key, kbd_data_ready, waitrequest, answer)

\* The clock never stops.
Spec == Init /\ [][Next]_vars /\ WF_vars(Next)
-----------------------------------------------------------------------------
TypeOK ==
  /\ MasterTypeOK
  /\ slave \in SlaveStates
  /\ return_data \in Words
  /\ keyboard \in KeyboardStates
  /\ pending \in Seq([word : Addresses, age : 1 .. Latency])
  /\ stalled \in 0 .. MaxWait
  /\ readdatavalid \in BOOLEAN
  /\ gap \in 1 .. MaxGap
  /\ rested \in BOOLEAN

\* Nobody in the code acknowledges a pulse: the start pulse finds the reader
\* idle and the finish pulse finds the master waiting, so neither is lost.
HandshakeNotLost ==
  /\ slave_start => slave = "idle"
  /\ slave_finish => master = "wait_read_addr"

\* The reader is at work exactly while the master waits for it, so the
\* address on the bus cannot change under a read.
Lockstep == slave # "idle" <=> master = "wait_read_addr"

\* While a read is outstanding, or about to be, the address driven to the
\* flash is the one it was accepted for.
OutstandingReadsAreOfAddr ==
  \A i \in DOMAIN pending : pending[i].word = addr

\* The sample that goes out second always comes from the current word.
SecondSampleFresh == master = "transfer_berct_msb" => return_data = addr

\* So does the first sample of a word that follows its predecessor without a
\* pause; only after a pause may the sample clock overtake the flash.
FirstSampleFresh ==
  master = "transfer_berct_lsb" /\ ~rested => return_data = addr

\* A forward restart is in force until the master has obeyed it.
RestartForwardObeyed ==
  [][keyboard = "Reset_Forward" /\ keyboard' # "Reset_Forward" => addr' = 0]_vars

\* The same for a backward restart, which has to send the player to the last
\* word of the song.
RestartBackwardObeyed ==
  [][keyboard = "Reset_Backward" /\ keyboard' # "Reset_Backward"
       => addr' = MaxAddr]_vars

\* What the listener hears of a state of the player.
Stage ==
  CASE master \in {"wait_berct_msb", "transfer_berct_msb"} -> "second"
    [] master = "Finished" -> "move"
    [] OTHER -> "first"

Listener == INSTANCE SongPlayer
  WITH Last <- MaxAddr, pos <- addr, forward <- dir, stage <- Stage,
       sample <- audio_signal, rest <- rested

\* The player plays the song: every step of it is a step of the song player,
\* or none that a listener could tell.
PlaysTheSong == Listener!SongSpec

\* A player that keeps playing keeps finishing words.
PlayingProgresses == <>[]play => []<>(master = "Finished")

\* A forward restart is eventually served, whatever keys follow.
RestartForwardServed == keyboard = "Reset_Forward" ~> addr = 0
=============================================================================
