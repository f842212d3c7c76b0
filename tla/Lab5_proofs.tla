----------------------------- MODULE Lab5_proofs -----------------------------
(***************************************************************************)
(* Proofs about the firmware of Lab 5, for every length of the song and of *)
(* a block, every size of the fifo and every pair of delays of which       *)
(* task1's is the shorter.                                                 *)
(***************************************************************************)
EXTENDS Lab5, TLAPS

(* What the interrupt has done: as long as no edge fell into it, the local *)
(* copy is the register's bit, and so is the tone afterwards.              *)
ToneFollows ==
  /\ main \in {"reset", "register"} => ~irq_enabled
  /\ ~irq_enabled => handler = "idle" /\ dds_increment = 0
  /\ handler = "write" /\ ~missed => data = lfsr
  /\ handler = "clear" /\ ~missed => dds_increment = Tone(lfsr)
  /\ handler = "idle" /\ ~edge_capture /\ dds_increment # 0 /\ ~missed =>
       dds_increment = Tone(lfsr)
  /\ handler \in {"idle", "write", "clear"}

LEMMA ToneFollowsNext == ToneFollows /\ [Next]_vars => ToneFollows'
<1> SUFFICES ASSUME ToneFollows, [Next]_vars
             PROVE  ToneFollows'
  OBVIOUS
<1> USE DEF ToneFollows
<1>1. CASE UNCHANGED vars
  BY <1>1 DEF vars, lfsrVars, Tone
<1>2. CASE Edge /\ ForInterrupt
  BY <1>2 DEF Edge, ForInterrupt, Tone
<1>3. CASE Handler /\ ForInterrupt
  <2>1. CASE HandlerReads
    BY <2>1, <1>3 DEF HandlerReads, ForInterrupt
  <2>2. CASE HandlerWrites
    BY <2>2, <1>3 DEF HandlerWrites, ForInterrupt, Tone
  <2>3. CASE HandlerClears
    BY <2>3, <1>3 DEF HandlerClears, ForInterrupt, Tone
  <2> QED
    BY <1>3, <2>1, <2>2, <2>3 DEF Handler
<1>4. CASE NoInterrupt /\ Main
  <2>1. CASE MainStep("reset", "register") /\ ResetCapture
    BY <2>1 DEF MainStep, ResetCapture, Tone
  <2>2. CASE MainStep("register", "start") /\ RegisterHandler
    BY <2>2, <1>4 DEF MainStep, RegisterHandler, NoInterrupt, Tone
  <2>3. CASE MainStep("start", "OSStart") /\ UNCHANGED lfsrVars
    BY <2>3 DEF MainStep, lfsrVars, Tone
  <2> QED
    BY <1>4, <2>1, <2>2, <2>3 DEF Main
<1>5. CASE UNCHANGED <<main, lfsrVars>>
  BY <1>5 DEF lfsrVars, Tone
<1> QED
  BY <1>1, <1>2, <1>3, <1>4, <1>5 DEF Next, Song, Poll, Tick, ForTasks

(* Edges that come before the handler reads the register do no harm, at    *)
(* whatever point of main or of the tasks they come: the tone is stale     *)
(* only when the very last edge fell between the handler's read of the     *)
(* register and its clearing of the capture bit.                           *)
THEOREM ToneCorrect == Spec => []ToneStaleOnlyByEdgeInHandler
<1>1. Init => ToneFollows
  BY DEF Init, LfsrInit, ToneFollows
<1>2. ToneFollows => ToneStaleOnlyByEdgeInHandler
  BY DEF ToneFollows, ToneStaleOnlyByEdgeInHandler, NoInterrupt
<1> QED
  BY <1>1, <1>2, ToneFollowsNext, PTL DEF Spec
-----------------------------------------------------------------------------
(* The types of what the tasks keep.                                       *)
TaskTypes ==
  /\ song_pc \in {"begin", "test", "send"} /\ poll_pc \in {"poll", "stores"}
  /\ i \in 0..NUMERO_DE_MUESTRAS
  /\ address_counter \in 0..size_song + NUMERO_DE_MUESTRAS - 1
  /\ dly \in [{"song", "poll"} -> Nat]
  /\ dly["song"] <= SongDly
  /\ flag \in [SongButtons -> {0, 1}]
  /\ command \in SongButtons \cup {"none"}

(* How far a button has been carried out: its first stores are made, the   *)
(* rest are still to be made, and nothing is left when task2 polls again.  *)
Flags(play, pause, stop) == flag["play"] = play /\ flag["pause"] = pause /\ flag["stop"] = stop

CarriesOut ==
  /\ poll_pc = "poll" => todo = << >>
  /\ command = "none" => todo = << >> /\ Flags(0, 0, 0)
  /\ command = "play" =>
       \/ /\ todo = << <<"play", 1>>, <<"pause", 0>>, <<"stop", 0>> >>
          /\ flag["play"] + flag["pause"] + flag["stop"] <= 1
       \/ todo = << <<"pause", 0>>, <<"stop", 0>> >> /\ flag["play"] = 1
       \/ todo = << <<"stop", 0>> >> /\ flag["play"] = 1 /\ flag["pause"] = 0
       \/ todo = << >> /\ Flags(1, 0, 0)
  /\ command = "pause" =>
       \/ /\ todo = << <<"play", 0>>, <<"pause", 1>>, <<"stop", 0>> >>
          /\ flag["play"] + flag["pause"] + flag["stop"] <= 1
       \/ todo = << <<"pause", 1>>, <<"stop", 0>> >> /\ flag["play"] = 0
       \/ todo = << <<"stop", 0>> >> /\ flag["play"] = 0 /\ flag["pause"] = 1
       \/ todo = << >> /\ Flags(0, 1, 0)
  /\ command = "stop" =>
       \/ /\ todo = << <<"play", 0>>, <<"pause", 0>>, <<"stop", 1>> >>
          /\ flag["play"] + flag["pause"] + flag["stop"] <= 1
       \/ todo = << <<"pause", 0>>, <<"stop", 1>> >> /\ flag["play"] = 0
       \/ todo = << <<"stop", 1>> >> /\ flag["play"] = 0 /\ flag["pause"] = 0
       \/ todo = << >> /\ Flags(0, 0, 1)

(* What task1 makes of the flags: it sleeps in front of its test only; the *)
(* song stands at its start while the flags say stop, except that task1    *)
(* has still to wake up once after the stop, which it does first.          *)
Rewinds ==
  /\ dly["song"] > 0 => song_pc = "test"
  /\ Flags(0, 0, 1) /\ command # "stop" => address_counter = 0 /\ song_pc # "send"
  /\ command = "stop" /\ poll_pc = "poll" =>
       /\ song_pc = "test"
       /\ address_counter = 0 \/ dly["song"] = 0 \/ dly["song"] < dly["poll"]

(* Every sample before the place the song has come to has been sent.       *)
Covers ==
  \A k \in 0..size_song - 1 :
    k < address_counter \/ (song_pc = "send" /\ k < address_counter + i) => k \in covered

TasksInv == TaskTypes /\ CarriesOut /\ Rewinds /\ Covers

LEMMA ShortTuples ==
  ASSUME NEW x, NEW y, NEW z
  PROVE  /\ <<x>> # << >> /\ <<x, y>> # << >> /\ <<x, y, z>> # << >>
         /\ Head(<<x, y, z>>) = x /\ Head(<<x, y>>) = x /\ Head(<<x>>) = x
         /\ Tail(<<x, y, z>>) = <<y, z>> /\ Tail(<<x, y>>) = <<y>> /\ Tail(<<x>>) = << >>
<1>1. Len(<<x>>) = 1 /\ Len(<<x, y>>) = 2 /\ Len(<<x, y, z>>) = 3 /\ Len(<< >>) = 0
  OBVIOUS
<1>2. <<x>> # << >> /\ <<x, y>> # << >> /\ <<x, y, z>> # << >>
  BY <1>1
<1>3. Head(<<x, y, z>>) = x /\ Head(<<x, y>>) = x /\ Head(<<x>>) = x
  OBVIOUS
<1>4. Tail(<<x, y, z>>) = <<y, z>>
  OBVIOUS
<1>5. Tail(<<x, y>>) = <<y>>
  OBVIOUS
<1>6. Tail(<<x>>) = << >>
  OBVIOUS
<1> QED
  BY <1>2, <1>3, <1>4, <1>5, <1>6

LEMMA StoreMade ==
  ASSUME NEW n, NEW v, Head(todo) = <<n, v>>, StoreFlag
  PROVE  flag' = [flag EXCEPT ![n] = v] /\ todo' = Tail(todo)
<1>1. Head(todo)[1] = n /\ Head(todo)[2] = v
  OBVIOUS
<1>2. flag' = [flag EXCEPT ![Head(todo)[1]] = Head(todo)[2]] /\ todo' = Tail(todo)
  BY DEF StoreFlag
<1> QED
  BY <1>1, <1>2

LEMMA ModSmall == ASSUME NEW a \in Nat, NEW n \in Nat \ {0}, a < n
                  PROVE  a % n = a
  OBVIOUS

LEMMA TasksInvInit == Init => TasksInv
<1> SUFFICES ASSUME Init
             PROVE  TasksInv
  OBVIOUS
<1> USE SongAssumption DEF Init, TasksInit, SongButtons
<1>1. TaskTypes
  BY DEF TaskTypes
<1>2. CarriesOut
  BY DEF CarriesOut, Flags
<1>3. Rewinds
  BY DEF Rewinds, Flags
<1>4. Covers
  BY DEF Covers
<1> QED
  BY <1>1, <1>2, <1>3, <1>4 DEF TasksInv

(* task1: it changes no flag, and task2 stands still.                      *)
LEMMA SongKeeps == TasksInv /\ Task1 => TasksInv'
<1> SUFFICES ASSUME TasksInv, Task1
             PROVE  TasksInv'
  OBVIOUS
<1> USE SongAssumption DEF TasksInv
<1>0. UNCHANGED <<flag, todo, poll_pc, command>> /\ dly["song"] = 0
  BY DEF Task1, SongBegins, SongTests, SendSample, BlockEnds, pollVars
<1>1. CarriesOut'
  BY <1>0 DEF CarriesOut, Flags
<1>2. CASE SongBegins
  <2> USE <1>2 DEF SongBegins
  <2>1. TaskTypes'
    BY <1>0 DEF TaskTypes
  <2>2. Rewinds'
    BY <1>0 DEF Rewinds, Flags
  <2>3. Covers'
    BY DEF Covers
  <2> QED
    BY <1>1, <2>1, <2>2, <2>3
<1>3. CASE SongTests
  <2> USE <1>3 DEF SongTests, Sleeps
  <2>1. TaskTypes'
    BY <1>0 DEF TaskTypes
  <2>2. Rewinds'
    <3>1. command = "stop" /\ poll_pc = "poll" => Flags(0, 0, 1)
      BY ShortTuples DEF CarriesOut
    <3> QED
      BY <1>0, <3>1 DEF Rewinds, Flags, TaskTypes
  <2>3. Covers'
    BY DEF Covers, TaskTypes
  <2> QED
    BY <1>1, <2>1, <2>2, <2>3
<1>4. CASE SendSample
  <2> USE <1>4 DEF SendSample
  <2>1. TaskTypes'
    BY <1>0 DEF TaskTypes
  <2>2. Rewinds'
    BY <1>0 DEF Rewinds, Flags
  <2>3. ASSUME NEW k \in 0..size_song - 1, k = address_counter + i
        PROVE  k = Sample
    <3>1. /\ address_counter \in Nat /\ i \in Nat
          /\ address_counter < size_song /\ i < size_song
      BY <2>3 DEF TaskTypes
    <3> QED
      BY <3>1, <2>3, ModSmall DEF Sample
  <2>4. Covers'
    BY <2>3 DEF Covers, TaskTypes
  <2> QED
    BY <1>1, <2>1, <2>2, <2>4
<1>5. CASE BlockEnds
  <2> USE <1>5 DEF BlockEnds, Sleeps
  <2>1. TaskTypes'
    BY <1>0 DEF TaskTypes
  <2>2. Rewinds'
    BY <1>0 DEF Rewinds, Flags, TaskTypes
  <2>3. Covers'
    BY DEF Covers, TaskTypes
  <2> QED
    BY <1>1, <2>1, <2>2, <2>3
<1> QED
  BY <1>2, <1>3, <1>4, <1>5 DEF Task1

(* task2: it runs while task1 sleeps in front of its test.                 *)
LEMMA PollKeeps == TasksInv /\ Task2 => TasksInv'
<1> SUFFICES ASSUME TasksInv, Task2
             PROVE  TasksInv'
  OBVIOUS
<1> USE SongAssumption DEF TasksInv
<1>0. /\ UNCHANGED <<song_pc, i, address_counter, covered>>
      /\ dly["song"] > 0 /\ dly["poll"] = 0 /\ song_pc = "test"
  BY DEF Task2, StoreFlag, PollEnds, Polls, songVars, Rewinds
<1>1. Covers'
  BY <1>0 DEF Covers
<1>2. CASE StoreFlag
  <2> USE <1>2 DEF StoreFlag
  <2>1. /\ poll_pc = "stores" /\ poll_pc' = "stores"
        /\ UNCHANGED <<dly, command>>
    OBVIOUS
  <2>2. ASSUME command = "play"
        PROVE  /\ flag' \in [SongButtons -> {0, 1}]
               /\ CarriesOut'
               /\ ~Flags(0, 0, 1)'
    <3>1. CASE todo = << <<"play", 1>>, <<"pause", 0>>, <<"stop", 0>> >>
      <4>1. Head(todo) = <<"play", 1>> /\ Tail(todo) = << <<"pause", 0>>, <<"stop", 0>> >>
        BY <3>1, ShortTuples
      <4>2. flag' = [flag EXCEPT !["play"] = 1] /\ todo' = << <<"pause", 0>>, <<"stop", 0>> >>
        BY <4>1, <1>2, StoreMade
      <4> QED
        BY <4>2, <3>1, <2>2, <2>1, ShortTuples DEF CarriesOut, Flags, TaskTypes, SongButtons
    <3>2. CASE todo = << <<"pause", 0>>, <<"stop", 0>> >>
      <4>1. Head(todo) = <<"pause", 0>> /\ Tail(todo) = << <<"stop", 0>> >>
        BY <3>2, ShortTuples
      <4>2. flag' = [flag EXCEPT !["pause"] = 0] /\ todo' = << <<"stop", 0>> >>
        BY <4>1, <1>2, StoreMade
      <4> QED
        BY <4>2, <3>2, <2>2, <2>1, ShortTuples DEF CarriesOut, Flags, TaskTypes, SongButtons
    <3>3. CASE todo = << <<"stop", 0>> >>
      <4>1. Head(todo) = <<"stop", 0>> /\ Tail(todo) = << >>
        BY <3>3, ShortTuples
      <4>2. flag' = [flag EXCEPT !["stop"] = 0] /\ todo' = << >>
        BY <4>1, <1>2, StoreMade
      <4> QED
        BY <4>2, <3>3, <2>2, <2>1, ShortTuples DEF CarriesOut, Flags, TaskTypes, SongButtons
    <3> QED
      BY <3>1, <3>2, <3>3, <2>2 DEF CarriesOut
  <2>3. ASSUME command = "pause"
        PROVE  /\ flag' \in [SongButtons -> {0, 1}]
               /\ CarriesOut'
               /\ Flags(0, 0, 1)' => Flags(0, 0, 1)
    <3>1. CASE todo = << <<"play", 0>>, <<"pause", 1>>, <<"stop", 0>> >>
      <4>1. Head(todo) = <<"play", 0>> /\ Tail(todo) = << <<"pause", 1>>, <<"stop", 0>> >>
        BY <3>1, ShortTuples
      <4>2. flag' = [flag EXCEPT !["play"] = 0] /\ todo' = << <<"pause", 1>>, <<"stop", 0>> >>
        BY <4>1, <1>2, StoreMade
      <4> QED
        BY <4>2, <3>1, <2>3, <2>1, ShortTuples DEF CarriesOut, Flags, TaskTypes, SongButtons
    <3>2. CASE todo = << <<"pause", 1>>, <<"stop", 0>> >>
      <4>1. Head(todo) = <<"pause", 1>> /\ Tail(todo) = << <<"stop", 0>> >>
        BY <3>2, ShortTuples
      <4>2. flag' = [flag EXCEPT !["pause"] = 1] /\ todo' = << <<"stop", 0>> >>
        BY <4>1, <1>2, StoreMade
      <4> QED
        BY <4>2, <3>2, <2>3, <2>1, ShortTuples DEF CarriesOut, Flags, TaskTypes, SongButtons
    <3>3. CASE todo = << <<"stop", 0>> >>
      <4>1. Head(todo) = <<"stop", 0>> /\ Tail(todo) = << >>
        BY <3>3, ShortTuples
      <4>2. flag' = [flag EXCEPT !["stop"] = 0] /\ todo' = << >>
        BY <4>1, <1>2, StoreMade
      <4> QED
        BY <4>2, <3>3, <2>3, <2>1, ShortTuples DEF CarriesOut, Flags, TaskTypes, SongButtons
    <3> QED
      BY <3>1, <3>2, <3>3, <2>3 DEF CarriesOut
  <2>4. ASSUME command = "stop"
        PROVE  /\ flag' \in [SongButtons -> {0, 1}]
               /\ CarriesOut'
    <3>1. CASE todo = << <<"play", 0>>, <<"pause", 0>>, <<"stop", 1>> >>
      <4>1. Head(todo) = <<"play", 0>> /\ Tail(todo) = << <<"pause", 0>>, <<"stop", 1>> >>
        BY <3>1, ShortTuples
      <4>2. flag' = [flag EXCEPT !["play"] = 0] /\ todo' = << <<"pause", 0>>, <<"stop", 1>> >>
        BY <4>1, <1>2, StoreMade
      <4> QED
        BY <4>2, <3>1, <2>4, <2>1, ShortTuples DEF CarriesOut, Flags, TaskTypes, SongButtons
    <3>2. CASE todo = << <<"pause", 0>>, <<"stop", 1>> >>
      <4>1. Head(todo) = <<"pause", 0>> /\ Tail(todo) = << <<"stop", 1>> >>
        BY <3>2, ShortTuples
      <4>2. flag' = [flag EXCEPT !["pause"] = 0] /\ todo' = << <<"stop", 1>> >>
        BY <4>1, <1>2, StoreMade
      <4> QED
        BY <4>2, <3>2, <2>4, <2>1, ShortTuples DEF CarriesOut, Flags, TaskTypes, SongButtons
    <3>3. CASE todo = << <<"stop", 1>> >>
      <4>1. Head(todo) = <<"stop", 1>> /\ Tail(todo) = << >>
        BY <3>3, ShortTuples
      <4>2. flag' = [flag EXCEPT !["stop"] = 1] /\ todo' = << >>
        BY <4>1, <1>2, StoreMade
      <4> QED
        BY <4>2, <3>3, <2>4, <2>1, ShortTuples DEF CarriesOut, Flags, TaskTypes, SongButtons
    <3> QED
      BY <3>1, <3>2, <3>3, <2>4 DEF CarriesOut
  <2>5. command \in {"play", "pause", "stop"}
    BY DEF CarriesOut, TaskTypes, SongButtons
  <2>6. TaskTypes'
    BY <1>0, <2>1, <2>2, <2>3, <2>4, <2>5 DEF TaskTypes
  <2>7. Rewinds'
    BY <1>0, <2>1, <2>2, <2>3, <2>5 DEF Rewinds
  <2> QED
    BY <1>1, <2>2, <2>3, <2>4, <2>5, <2>6, <2>7
<1>3. CASE PollEnds
  <2> USE <1>3 DEF PollEnds, Sleeps
  <2>1. TaskTypes'
    BY <1>0 DEF TaskTypes
  <2>2. CarriesOut'
    BY DEF CarriesOut, Flags
  <2>3. dly'["song"] < dly'["poll"] /\ UNCHANGED <<flag, command>>
    BY DEF TaskTypes
  <2>4. Rewinds'
    BY <1>0, <2>3 DEF Rewinds, Flags
  <2> QED
    BY <1>1, <2>1, <2>2, <2>4
<1>4. ASSUME NEW key \in BOOLEAN, NEW b \in Buttons, Polls(key, b)
      PROVE  TasksInv'
  <2>1. /\ poll_pc = "poll" /\ poll_pc' = "stores"
        /\ UNCHANGED <<dly, flag, songVars>>
    BY <1>4 DEF Polls
  <2>2. \/ todo' = Stores(b) /\ b \in SongButtons /\ command' = b
        \/ todo' = << >> /\ command' = command
    BY <1>4 DEF Polls, Stores, SongButtons
  <2>3. TaskTypes'
    BY <1>0, <2>1, <2>2 DEF TaskTypes
  <2>4. /\ todo = << >>
        /\ flag["play"] + flag["pause"] + flag["stop"] <= 1
    BY <2>1 DEF CarriesOut, Flags, TaskTypes, SongButtons
  <2>5. CarriesOut'
    BY <2>1, <2>2, <2>4 DEF CarriesOut, Flags, Stores, SongButtons
  <2>6. Rewinds'
    <3>1. Flags(0, 0, 1) => command = "stop"
      BY <2>4, ShortTuples DEF CarriesOut, Flags, TaskTypes, SongButtons
    <3>2. UNCHANGED <<dly, flag, address_counter, song_pc>> /\ poll_pc' # "poll"
      BY <2>1 DEF songVars
    <3>3. Flags(0, 0, 1)' => Flags(0, 0, 1)
      BY <3>2 DEF Flags
    <3> QED
      BY <1>0, <2>1, <3>1, <3>2, <3>3 DEF Rewinds, TaskTypes
  <2> QED
    BY <1>1, <2>3, <2>5, <2>6
<1> QED
  BY <1>2, <1>3, <1>4 DEF Task2

LEMMA TasksInvNext == TasksInv /\ [Next]_vars => TasksInv'
<1> SUFFICES ASSUME TasksInv, [Next]_vars
             PROVE  TasksInv'
  OBVIOUS
<1>1. CASE UNCHANGED taskVars
  BY <1>1 DEF taskVars, TasksInv, TaskTypes, CarriesOut, Flags, Rewinds, Covers
<1>2. CASE SongTick
  <2> USE <1>2, SongAssumption DEF TasksInv, SongTick, songVars, pollVars
  <2>1. TaskTypes'
    BY DEF TaskTypes
  <2>2. CarriesOut'
    BY DEF CarriesOut, Flags
  <2>3. /\ dly["song"] = 0 => dly'["song"] = 0
        /\ dly["song"] > 0 => dly'["song"] = dly["song"] - 1
        /\ dly["poll"] > 0 => dly'["poll"] = dly["poll"] - 1
        /\ dly["song"] \in Nat /\ dly["poll"] \in Nat
    BY DEF TaskTypes
  <2>4. Rewinds'
    BY <2>3 DEF Rewinds, Flags
  <2>5. Covers'
    BY DEF Covers
  <2> QED
    BY <2>1, <2>2, <2>4, <2>5
<1>3. CASE AudioTakes
  BY <1>3 DEF AudioTakes, songVars, pollVars, TasksInv, TaskTypes, CarriesOut, Flags,
              Rewinds, Covers
<1> QED
  BY <1>1, <1>2, <1>3, SongKeeps, PollKeeps
  DEF Next, Song, Poll, Tick, ForInterrupt, Main, MainStep, vars

(* A stop is carried out before the next button is looked at: task2 sleeps *)
(* longer than task1, and task1 sleeps in front of its test only.          *)
THEOREM StopCorrect == Spec => []StopDoneBeforeNextPoll
<1>1. TasksInv => StopDoneBeforeNextPoll
  <2> SUFFICES ASSUME TasksInv
               PROVE  StopDoneBeforeNextPoll
    OBVIOUS
  <2>1. dly["song"] \in Nat /\ dly["poll"] \in Nat
    BY DEF TasksInv, TaskTypes
  <2> QED
    BY <2>1 DEF TasksInv, Rewinds, StopDoneBeforeNextPoll
<1> QED
  BY <1>1, TasksInvInit, TasksInvNext, PTL DEF Spec

(* The song is rewound by a stop, or when all of it has been sent: neither *)
(* task1 between two stores of another button nor the end of a block loses *)
(* a sample of the song.                                                   *)
THEOREM RewindCorrect == Spec => RewoundByStopOrAtEnd
<1>1. TasksInv /\ [Next]_vars =>
        (address_counter # 0 /\ address_counter' = 0 =>
           command = "stop" \/ 0..size_song - 1 \subseteq covered)
  <2> SUFFICES ASSUME TasksInv, [Next]_vars, address_counter # 0, address_counter' = 0
               PROVE  command = "stop" \/ 0..size_song - 1 \subseteq covered
    OBVIOUS
  <2>1. Task1
    BY DEF Next, vars, taskVars, ForInterrupt, Main, MainStep, Song, Poll, Tick, SongTick,
           AudioTakes, songVars, Task2, StoreFlag, PollEnds, Polls
  <2>2. CASE SongTests
    BY <2>2 DEF SongTests, TasksInv, Rewinds, Flags, TaskTypes, SongButtons
  <2>3. CASE BlockEnds
    BY <2>3, SongAssumption DEF BlockEnds, TasksInv, Covers, TaskTypes
  <2> QED
    BY <2>1, <2>2, <2>3 DEF Task1, SongBegins, SendSample
<1> QED
  BY <1>1, TasksInvInit, TasksInvNext, PTL DEF Spec, RewoundByStopOrAtEnd

LEMMA StoresAreStores == ASSUME NEW b
                         PROVE  Stores(b) \in Seq(SongButtons \X {0, 1})
<1> USE DEF SongButtons
<1>1. CASE b = "play"
  BY <1>1 DEF Stores
<1>2. CASE b = "stop"
  BY <1>2 DEF Stores
<1>3. CASE b = "pause"
  BY <1>3 DEF Stores
<1>4. CASE b \notin {"play", "stop", "pause"}
  BY <1>4 DEF Stores
<1> QED
  BY <1>1, <1>2, <1>3, <1>4

LEMMA LfsrTypes ==
  /\ LfsrInit => LfsrTypeOK
  /\ LfsrTypeOK /\ Edge => LfsrTypeOK'
  /\ LfsrTypeOK /\ Handler => LfsrTypeOK'
  /\ LfsrTypeOK /\ (ResetCapture \/ RegisterHandler \/ UNCHANGED lfsrVars) => LfsrTypeOK'
<1> DEFINE Bits == edge_capture \in BOOLEAN /\ irq_enabled \in BOOLEAN /\ missed \in BOOLEAN
           Rest == /\ lfsr \in {0, 1} /\ data \in {0, 1} /\ dds_increment \in {0, 86, 430}
                   /\ handler \in {"idle", "write", "clear"}
<1>1. LfsrTypeOK <=> Bits /\ Rest
  BY DEF LfsrTypeOK
<1>2. LfsrTypeOK' <=> Bits' /\ Rest'
  BY DEF LfsrTypeOK
<1>3. LfsrInit => Bits /\ Rest
  BY DEF LfsrInit
<1>4. Bits /\ Edge => Bits'
  BY Zenon DEF Edge
<1>5. Bits /\ Handler => Bits'
  BY Zenon DEF Handler, HandlerReads, HandlerWrites, HandlerClears
<1>6. Bits /\ (ResetCapture \/ RegisterHandler \/ UNCHANGED lfsrVars) => Bits'
  BY Zenon DEF ResetCapture, RegisterHandler, lfsrVars
<1>7. Rest /\ Edge => Rest'
  BY DEF Edge
<1>8. Rest /\ Handler => Rest'
  BY DEF Handler, HandlerReads, HandlerWrites, HandlerClears, Tone
<1>9. Rest /\ (ResetCapture \/ RegisterHandler \/ UNCHANGED lfsrVars) => Rest'
  BY DEF ResetCapture, RegisterHandler, lfsrVars
<1> QED
  <2> HIDE DEF Bits, Rest
  <2> QED
    BY <1>1, <1>2, <1>3, <1>4, <1>5, <1>6, <1>7, <1>8, <1>9

(* The rates stay between their bounds.                                    *)
RateTypes ==
  /\ freq_reader \in FREQ_READER_INCREMENT..FREQ_READER_MAX
  /\ audio_freq \in 0..FREQ_READER_MAX

LEMMA RateBounds ==
  /\ FREQ_READER_INCREMENT \in Nat /\ FREQ_READER_NOMINAL \in Nat /\ FREQ_READER_MAX \in Nat
  /\ FREQ_READER_NOMINAL \in FREQ_READER_INCREMENT..FREQ_READER_MAX
  BY SongAssumption DEF FREQ_READER_MAX

LEMMA RatesKept ==
  ASSUME RateTypes,
         freq_reader' \in {freq_reader, Slower, Faster},
         audio_freq' \in {audio_freq, freq_reader'} \/ audio_freq' = freq_reader
  PROVE  RateTypes'
<1>1. Slower \in FREQ_READER_INCREMENT..FREQ_READER_MAX
  BY RateBounds DEF RateTypes, Slower
<1>2. Faster \in FREQ_READER_INCREMENT..FREQ_READER_MAX
  BY RateBounds DEF RateTypes, Faster
<1> QED
  BY <1>1, <1>2, RateBounds DEF RateTypes

(* What is left besides TasksInv and the rates.                            *)
OtherTypes ==
  /\ dly["poll"] <= PollDly
  /\ todo \in Seq(SongButtons \X {0, 1})
  /\ modulator \in Modulations /\ signal \in Signals
  /\ fifo \in 0..FifoSize

FirmwareTypes == TasksInv /\ RateTypes /\ OtherTypes /\ space \in BOOLEAN

LEMMA FirmwareTypesInit == Init => FirmwareTypes
<1> SUFFICES ASSUME Init
             PROVE  FirmwareTypes
  OBVIOUS
<1> USE DEF Init, TasksInit
<1>1. RateTypes
  BY RateBounds DEF RateTypes
<1>2. todo \in Seq(SongButtons \X {0, 1})
  OBVIOUS
<1>3. OtherTypes
  BY <1>2, SongAssumption DEF OtherTypes
<1>4. space \in BOOLEAN
  OBVIOUS
<1> QED
  BY <1>1, <1>3, <1>4, TasksInvInit DEF FirmwareTypes

LEMMA FirmwareTypesNext == FirmwareTypes /\ [Next]_vars => FirmwareTypes'
<1> SUFFICES ASSUME FirmwareTypes, [Next]_vars
             PROVE  RateTypes' /\ OtherTypes' /\ space' \in BOOLEAN
  BY TasksInvNext DEF FirmwareTypes
<1>0. /\ RateTypes /\ OtherTypes /\ space \in BOOLEAN
      /\ dly \in [{"song", "poll"} -> Nat]
      /\ FifoSize \in Nat /\ PollDly \in Nat
  BY SongAssumption DEF FirmwareTypes, TasksInv, TaskTypes
<1>1. CASE UNCHANGED taskVars
  BY <1>0, <1>1 DEF taskVars, RateTypes, OtherTypes
<1>2. CASE Task1
  <2>1. UNCHANGED <<freq_reader, todo, modulator, signal, space>>
    BY <1>2 DEF Task1, SongBegins, SongTests, SendSample, BlockEnds, pollVars
  <2>2. audio_freq' \in {audio_freq, freq_reader}
    BY <1>2 DEF Task1, SongBegins, SongTests, SendSample, BlockEnds
  <2>3. fifo' = fifo \/ (fifo < FifoSize /\ fifo' = fifo + 1)
    BY <1>2 DEF Task1, SongBegins, SongTests, SendSample, BlockEnds
  <2>4. dly'["poll"] = dly["poll"]
    BY <1>2, <1>0 DEF Task1, SongBegins, SongTests, SendSample, BlockEnds, Sleeps
  <2>5. RateTypes'
    BY <1>0, <2>1, <2>2, RatesKept
  <2>6. OtherTypes'
    BY <1>0, <2>1, <2>3, <2>4 DEF OtherTypes
  <2> QED
    BY <1>0, <2>1, <2>5, <2>6
<1>3. CASE StoreFlag
  <2>1. UNCHANGED <<dly, audio_freq, fifo, freq_reader, modulator, signal, space>>
    BY <1>3 DEF StoreFlag
  <2>2. todo' \in Seq(SongButtons \X {0, 1})
    BY <1>0, <1>3 DEF StoreFlag, OtherTypes
  <2> QED
    BY <1>0, <2>1, <2>2 DEF RateTypes, OtherTypes
<1>4. CASE PollEnds
  <2>1. /\ UNCHANGED <<todo, audio_freq, fifo, freq_reader, modulator, signal, space>>
        /\ dly' = [dly EXCEPT !["poll"] = PollDly]
    BY <1>4 DEF PollEnds, Sleeps
  <2> QED
    BY <1>0, <2>1 DEF RateTypes, OtherTypes
<1>5. ASSUME NEW key \in BOOLEAN, NEW b \in Buttons, Polls(key, b)
      PROVE  RateTypes' /\ OtherTypes' /\ space' \in BOOLEAN
  <2>1. freq_reader' \in {freq_reader, Slower, Faster}
    BY <1>5 DEF Polls
  <2>2. audio_freq' \in {audio_freq, freq_reader'}
    BY <1>5 DEF Polls
  <2>3. todo' \in Seq(SongButtons \X {0, 1})
    <3>1. << >> \in Seq(SongButtons \X {0, 1})
      OBVIOUS
    <3> QED
      BY <1>5, <3>1, StoresAreStores DEF Polls
  <2>4. modulator' \in Modulations /\ signal' \in Signals
    BY <1>0, <1>5 DEF Polls, OtherTypes
  <2>5. UNCHANGED <<dly, fifo>> /\ space' = key
    BY <1>5 DEF Polls
  <2>6. RateTypes'
    BY <1>0, <2>1, <2>2, RatesKept
  <2>7. OtherTypes'
    BY <1>0, <2>3, <2>4, <2>5 DEF OtherTypes
  <2> QED
    BY <1>5, <2>5, <2>6, <2>7
<1>6. CASE SongTick
  <2>1. UNCHANGED <<audio_freq, fifo, freq_reader, todo, modulator, signal, space>>
    BY <1>6 DEF SongTick, pollVars
  <2>2. dly'["poll"] <= PollDly
    BY <1>0, <1>6 DEF SongTick, OtherTypes
  <2> QED
    BY <1>0, <2>1, <2>2 DEF RateTypes, OtherTypes
<1>7. CASE AudioTakes
  <2>1. UNCHANGED <<audio_freq, dly, freq_reader, todo, modulator, signal, space>>
        /\ fifo > 0 /\ fifo' = fifo - 1
    BY <1>7 DEF AudioTakes, pollVars
  <2> QED
    BY <1>0, <2>1 DEF RateTypes, OtherTypes
<1> QED
  BY <1>1, <1>2, <1>3, <1>4, <1>5, <1>6, <1>7
  DEF Next, Song, Poll, Tick, ForInterrupt, Main, MainStep, Task2, vars

(* The types: the place in the song stays below its length and a block,    *)
(* the rate between its bounds, the fifo within its room, whatever the     *)
(* interleaving of the tasks, the interrupt and the tick.                  *)
THEOREM FirmwareTypeCorrect == Spec => []TypeOK
<1> DEFINE MainTypeOK == main \in {"reset", "register", "start", "OSStart"}
<1>1. Init => LfsrTypeOK /\ MainTypeOK
  BY LfsrTypes DEF Init
<1>2. LfsrTypeOK /\ [Next]_vars => LfsrTypeOK'
  BY LfsrTypes DEF Next, vars, ForInterrupt, ForTasks, Main, MainStep, Song, Poll, Tick
<1>3. MainTypeOK /\ [Next]_vars => MainTypeOK'
  BY DEF Next, vars, ForInterrupt, ForTasks, Main, MainStep, Song, Poll, Tick
<1>4. LfsrTypeOK /\ MainTypeOK /\ FirmwareTypes => TypeOK
  BY DEF FirmwareTypes, TasksInv, TaskTypes, RateTypes, OtherTypes, TasksTypeOK, TypeOK
<1> HIDE DEF MainTypeOK
<1> QED
  BY <1>1, <1>2, <1>3, <1>4, FirmwareTypesInit, FirmwareTypesNext, PTL DEF Spec
=============================================================================
