------------------------------ MODULE SongTasks ------------------------------
(***************************************************************************)
(* The two tasks of hello_ucosii.c.  task1 sends the song to the audio     *)
(* fifo, a block at a time, and waits in a busy loop while the fifo is     *)
(* full.  task2 polls the pointer and the space bar and carries out the    *)
(* button under the pointer; task1, of higher priority, may interrupt it   *)
(* between any two of its stores.  Drawing is left out.                    *)
(***************************************************************************)
EXTENDS Integers, Sequences

CONSTANTS
  size_song,              \* samples of the song
  NUMERO_DE_MUESTRAS,     \* samples of a block
  FifoSize,               \* room of the audio fifo
  SongDly, PollDly,       \* ticks task1 and task2 sleep: 10 and 100
  FREQ_READER_INCREMENT, FREQ_READER_NOMINAL,
  Modulations, Signals    \* names of the modulator's buttons

ASSUME SongAssumption ==
  /\ {size_song, NUMERO_DE_MUESTRAS, FifoSize, SongDly, PollDly} \subseteq Nat \ {0}
  /\ SongDly < PollDly
  /\ {FREQ_READER_INCREMENT, FREQ_READER_NOMINAL} \subseteq Nat \ {0}
  /\ FREQ_READER_INCREMENT <= FREQ_READER_NOMINAL
  /\ "ASK" \in Modulations /\ "SQUARE" \in Signals

FREQ_READER_MAX == 2 * FREQ_READER_NOMINAL
SongButtons == {"play", "pause", "stop"}
Buttons == SongButtons \cup {"back", "ford", "elsewhere"} \cup Modulations \cup Signals

VARIABLES
  song_pc, i, address_counter,
  poll_pc, todo,                     \* the stores to the flags still to be made
  dly,                               \* ticks each task still sleeps
  flag,                              \* play_song, pause_song, stop_song
  freq_reader, audio_freq,           \* the second is the register's
  modulator, signal, space,
  fifo,                              \* samples in the fifo
  command,                           \* history: the last song button heeded
  covered                            \* history: samples sent since the last rewind

taskVars == <<song_pc, i, address_counter, poll_pc, todo, dly, flag, freq_reader, audio_freq,
              modulator, signal, space, fifo, command, covered>>

TasksInit ==
  /\ song_pc = "begin" /\ i = 0 /\ address_counter = 0
  /\ poll_pc = "poll" /\ todo = << >>
  /\ dly = [song |-> 0, poll |-> 0]
  /\ flag = [f \in SongButtons |-> 0]
  /\ freq_reader = FREQ_READER_NOMINAL /\ audio_freq = 0
  /\ modulator = "ASK" /\ signal = "SQUARE"
  /\ space = FALSE
  /\ fifo = 0
  /\ command = "none"
  /\ covered = {}

TasksTypeOK ==
  /\ song_pc \in {"begin", "test", "send"} /\ poll_pc \in {"poll", "stores"}
  /\ i \in 0..NUMERO_DE_MUESTRAS
  /\ address_counter \in 0..size_song + NUMERO_DE_MUESTRAS - 1
  /\ dly \in [{"song", "poll"} -> Nat]
  /\ dly["song"] <= SongDly /\ dly["poll"] <= PollDly
  /\ flag \in [SongButtons -> {0, 1}]
  /\ command \in SongButtons \cup {"none"}
  /\ todo \in Seq(SongButtons \X {0, 1})
  /\ freq_reader \in FREQ_READER_INCREMENT..FREQ_READER_MAX
  /\ audio_freq \in 0..FREQ_READER_MAX
  /\ modulator \in Modulations /\ signal \in Signals
  /\ space \in BOOLEAN
  /\ fifo \in 0..FifoSize

pollVars  == <<poll_pc, todo, freq_reader, modulator, signal, space, command>>
songVars  == <<song_pc, i, address_counter, covered>>

-----------------------------------------------------------------------------
(* task1                                                                   *)

SongBegins ==
  /\ song_pc = "begin"
  /\ song_pc' = "test"
  /\ audio_freq' = freq_reader
  /\ UNCHANGED <<i, address_counter, covered, dly, flag, fifo, pollVars>>

Sleeps(name, ticks) == dly' = [dly EXCEPT ![name] = ticks]

(* mutant: the song is rewound whenever it neither plays nor pauses *)
SongTestsUnlessPaused ==
  /\ song_pc = "test"
  /\ IF flag.play = 1
       THEN /\ song_pc' = "send" /\ i' = 0
            /\ UNCHANGED <<address_counter, covered, dly>>
       ELSE /\ IF flag.pause = 0
                 THEN address_counter' = 0 /\ covered' = {}
                 ELSE UNCHANGED <<address_counter, covered>>
            /\ Sleeps("song", SongDly)
            /\ UNCHANGED <<song_pc, i>>
  /\ UNCHANGED <<audio_freq, flag, fifo, pollVars>>

(* The chain of ifs: a block is begun, nothing is done, or the song is     *)
(* rewound.                                                                *)
SongTests ==
  /\ song_pc = "test"
  /\ IF flag.play = 1
       THEN /\ song_pc' = "send" /\ i' = 0
            /\ UNCHANGED <<address_counter, covered, dly>>
       ELSE /\ IF flag.pause = 0 /\ flag.stop = 1
                 THEN address_counter' = 0 /\ covered' = {}
                 ELSE UNCHANGED <<address_counter, covered>>
            /\ Sleeps("song", SongDly)
            /\ UNCHANGED <<song_pc, i>>
  /\ UNCHANGED <<audio_freq, flag, fifo, pollVars>>

(* The place in memory, counted from the start of the song, of sample i of *)
(* the block.                                                              *)
Sample == (address_counter % size_song) + (i % size_song)

SendSample ==
  /\ song_pc = "send" /\ i < NUMERO_DE_MUESTRAS /\ fifo < FifoSize
  /\ fifo' = fifo + 1
  /\ i' = i + 1
  /\ covered' = covered \cup {Sample}
  /\ UNCHANGED <<song_pc, address_counter, audio_freq, dly, flag, pollVars>>

(* mutant: the next block begins at once *)
BlockEndsNoSleep ==
  /\ song_pc = "send" /\ i = NUMERO_DE_MUESTRAS
  /\ song_pc' = "test"
  /\ IF address_counter < size_song
       THEN /\ address_counter' = address_counter + NUMERO_DE_MUESTRAS
            /\ UNCHANGED covered
       ELSE address_counter' = 0 /\ covered' = {}
  /\ UNCHANGED <<i, audio_freq, dly, flag, fifo, pollVars>>

BlockEnds ==
  /\ song_pc = "send" /\ i = NUMERO_DE_MUESTRAS
  /\ song_pc' = "test"
  /\ IF address_counter < size_song
       THEN /\ address_counter' = address_counter + NUMERO_DE_MUESTRAS
            /\ UNCHANGED covered
       ELSE address_counter' = 0 /\ covered' = {}
  /\ Sleeps("song", SongDly)
  /\ UNCHANGED <<i, audio_freq, flag, fifo, pollVars>>

Task1 == dly.song = 0 /\ (SongBegins \/ SongTests \/ SendSample \/ BlockEnds)

-----------------------------------------------------------------------------
(* task2                                                                   *)

(* mutant: the pause button leaves play_song alone *)
StoresPauseOnly(b) ==
  CASE b = "play"  -> << <<"play", 1>>, <<"pause", 0>>, <<"stop", 0>> >>
    [] b = "stop"  -> << <<"play", 0>>, <<"pause", 0>>, <<"stop", 1>> >>
    [] b = "pause" -> << <<"pause", 1>>, <<"stop", 0>> >>
    [] OTHER -> << >>

Stores(b) ==
  CASE b = "play"  -> << <<"play", 1>>, <<"pause", 0>>, <<"stop", 0>> >>
    [] b = "stop"  -> << <<"play", 0>>, <<"pause", 0>>, <<"stop", 1>> >>
    [] b = "pause" -> << <<"play", 0>>, <<"pause", 1>>, <<"stop", 0>> >>
    [] OTHER -> << >>

Slower == IF freq_reader - FREQ_READER_INCREMENT < FREQ_READER_INCREMENT
            THEN FREQ_READER_INCREMENT ELSE freq_reader - FREQ_READER_INCREMENT
Faster == IF freq_reader + FREQ_READER_INCREMENT > FREQ_READER_MAX
            THEN FREQ_READER_MAX ELSE freq_reader + FREQ_READER_INCREMENT

(* mouse_pos: 1 as long as the space bar is down, 2 once when it comes up. *)
MousePos(key) == IF key THEN 1 ELSE IF space THEN 2 ELSE 0

Polls(key, b) ==
  LET event == MousePos(key)
  IN /\ poll_pc = "poll"
     /\ space' = key
     /\ poll_pc' = "stores"
     /\ todo' = IF event = 1 THEN Stores(b) ELSE << >>
     /\ command' = IF event = 1 /\ b \in SongButtons THEN b ELSE command
     /\ modulator' = IF event = 1 /\ b \in Modulations THEN b ELSE modulator
     /\ signal' = IF event = 1 /\ b \in Signals THEN b ELSE signal
     /\ freq_reader' = IF event = 1 /\ b = "back" THEN Slower
                       ELSE IF event = 1 /\ b = "ford" THEN Faster ELSE freq_reader
     /\ audio_freq' = IF event = 1 /\ b \in {"back", "ford"} THEN freq_reader' ELSE audio_freq
     /\ UNCHANGED <<songVars, dly, flag, fifo>>

StoreFlag ==
  /\ poll_pc = "stores" /\ todo # << >>
  /\ flag' = [flag EXCEPT ![Head(todo)[1]] = Head(todo)[2]]
  /\ todo' = Tail(todo)
  /\ UNCHANGED <<songVars, poll_pc, dly, audio_freq, fifo, freq_reader, modulator, signal,
                 space, command>>

(* mutant: the next poll follows at once *)
PollEndsNoSleep ==
  /\ poll_pc = "stores" /\ todo = << >>
  /\ poll_pc' = "poll"
  /\ UNCHANGED <<songVars, todo, dly, flag, audio_freq, fifo, freq_reader, modulator, signal,
                 space, command>>

PollEnds ==
  /\ poll_pc = "stores" /\ todo = << >>
  /\ poll_pc' = "poll"
  /\ Sleeps("poll", PollDly)
  /\ UNCHANGED <<songVars, todo, flag, audio_freq, fifo, freq_reader, modulator, signal,
                 space, command>>

(* It runs while task1 sleeps. *)
Task2 ==
  /\ dly.song > 0 /\ dly.poll = 0
  /\ StoreFlag \/ PollEnds \/ \E key \in BOOLEAN, b \in Buttons : Polls(key, b)

-----------------------------------------------------------------------------
(* OSTimeTick, and the audio controller taking a sample.                   *)

SongTick ==
  /\ dly' = [n \in {"song", "poll"} |-> IF dly[n] > 0 THEN dly[n] - 1 ELSE 0]
  /\ UNCHANGED <<songVars, pollVars, audio_freq, flag, fifo>>

AudioTakes ==
  /\ fifo > 0
  /\ fifo' = fifo - 1
  /\ UNCHANGED <<songVars, pollVars, audio_freq, dly, flag>>
=============================================================================
