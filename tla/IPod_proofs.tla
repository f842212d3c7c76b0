----------------------------- MODULE IPod_proofs -----------------------------
(***************************************************************************)
(* Proofs about the iPod player for every length of the song, every        *)
(* latency of the flash and every speed of the sample clock.               *)
(***************************************************************************)
EXTENDS IPod, TLAPS

Reads == [word : Addresses, age : Nat]

FlashTypeOK ==
  /\ pending \in Seq(Reads)
  /\ stalled \in 0 .. MaxWait
  /\ readdatavalid \in BOOLEAN

AgesDecrease ==
  /\ \A i \in 1 .. Len(pending) : pending[i].age \in 1 .. Latency
  /\ \A i, j \in 1 .. Len(pending) : i < j => pending[j].age < pending[i].age

\* What the flash still owes after a cycle, one older.
LEMMA OwedReads ==
  ASSUME FlashTypeOK, NEW answer \in BOOLEAN, MayAnswer(answer)
  PROVE  LET q == OneOlder(Owed(answer))
             k == IF answer THEN 1 ELSE 0
         IN  /\ q \in Seq(Reads)
             /\ Len(q) = Len(pending) - k
             /\ \A i \in 1 .. Len(q) :
                  /\ i + k \in 1 .. Len(pending)
                  /\ q[i].word = pending[i + k].word
                  /\ q[i].age = pending[i + k].age + 1
<1> DEFINE k == IF answer THEN 1 ELSE 0
           o == Owed(answer)
           q == OneOlder(o)
<1>1. /\ o \in Seq(Reads)
      /\ Len(o) = Len(pending) - k
      /\ \A i \in 1 .. Len(o) : i + k \in 1 .. Len(pending) /\ o[i] = pending[i + k]
  BY DEF Owed, MayAnswer, FlashTypeOK
<1>2. DOMAIN o = 1 .. Len(o) /\ Len(o) \in Nat
  BY <1>1
<1>3. \A i \in 1 .. Len(o) : o[i] \in Reads
  BY <1>1
<1>4. q = [i \in 1 .. Len(o) |-> [word |-> o[i].word, age |-> o[i].age + 1]]
  BY <1>2, <1>3 DEF OneOlder, Reads
<1>5. q \in Seq(Reads) /\ Len(q) = Len(o)
  BY <1>2, <1>3, <1>4 DEF Reads
<1> QED
  BY <1>1, <1>4, <1>5

\* One cycle of the flash: its queue stays typed and ordered, and each read in
\* it afterwards was there before, one cycle younger, or has just come.
LEMMA FlashCycle ==
  ASSUME FlashTypeOK, AgesDecrease,
         NEW read \in BOOLEAN, NEW a \in Addresses, NEW waitrequest \in BOOLEAN,
         NEW answer \in BOOLEAN, FlashStep(read, a, waitrequest, answer)
  PROVE  /\ FlashTypeOK'
         /\ AgesDecrease'
         /\ readdatavalid' = answer
         /\ answer => pending # <<>>
         /\ \A i \in 1 .. Len(pending)' :
              \/ /\ Accepted(read, waitrequest)
                 /\ i = Len(pending)'
                 /\ pending'[i] = [word |-> a, age |-> 1]
              \/ \E j \in 1 .. Len(pending) :
                   /\ j = i + (IF answer THEN 1 ELSE 0)
                   /\ pending'[i].word = pending[j].word
                   /\ pending'[i].age = pending[j].age + 1
         /\ Accepted(read, waitrequest) => pending' # <<>>
         /\ pending # <<>> /\ ~answer => pending' # <<>>
<1> DEFINE k == IF answer THEN 1 ELSE 0
           q == OneOlder(Owed(answer))
           new == [word |-> a, age |-> 1]
<1>1. MayAnswer(answer)
  BY DEF FlashStep
<1>2. /\ q \in Seq(Reads)
      /\ Len(q) = Len(pending) - k
      /\ \A i \in 1 .. Len(q) :
           /\ i + k \in 1 .. Len(pending)
           /\ q[i].word = pending[i + k].word
           /\ q[i].age = pending[i + k].age + 1
  BY <1>1, OwedReads
<1> HIDE DEF q
<1>3. new \in Reads
  BY DEF Reads
<1>4. pending' = IF Accepted(read, waitrequest) THEN Append(q, new) ELSE q
  BY DEF FlashStep, q
<1>5. /\ readdatavalid' = answer
      /\ stalled' \in 0 .. MaxWait
  BY MaxWaitAssumption DEF FlashStep, FlashTypeOK
<1>6. FlashTypeOK'
  BY <1>2, <1>3, <1>4, <1>5 DEF FlashTypeOK
<1>7. \A i \in 1 .. Len(q) : q[i].age \in 2 .. Latency
  <2> SUFFICES ASSUME NEW i \in 1 .. Len(q)
               PROVE  q[i].age \in 2 .. Latency
    OBVIOUS
  <2>1. /\ i + k \in 1 .. Len(pending)
        /\ q[i].age = pending[i + k].age + 1
        /\ pending[i + k].age \in 1 .. Latency
        /\ pending[1].age \in 1 .. Latency
    BY <1>2, LatencyAssumption DEF AgesDecrease, FlashTypeOK
  <2>2. CASE answer
    <3>1. pending[i + k].age < pending[1].age
      BY <2>1, <2>2, LatencyAssumption DEF AgesDecrease, FlashTypeOK
    <3> QED
      BY <3>1, <2>1, LatencyAssumption
  <2>3. CASE ~answer
    <3>1. pending # <<>> /\ Head(pending) = pending[1] /\ pending[1].age < Latency
      BY <1>1, <2>1, <2>3, LatencyAssumption DEF MayAnswer, FlashTypeOK
    <3>2. pending[i + k].age <= pending[1].age
      BY <2>1, <2>3, LatencyAssumption DEF AgesDecrease, FlashTypeOK
    <3> QED
      BY <3>1, <3>2, <2>1, LatencyAssumption
  <2> QED
    BY <2>2, <2>3
<1>8. \A i, j \in 1 .. Len(q) : i < j => q[j].age < q[i].age
  <2> SUFFICES ASSUME NEW i \in 1 .. Len(q), NEW j \in 1 .. Len(q), i < j
               PROVE  q[j].age < q[i].age
    OBVIOUS
  <2>1. pending[j + k].age < pending[i + k].age
    BY <1>2 DEF AgesDecrease
  <2>2. /\ q[i].age = pending[i + k].age + 1 /\ q[j].age = pending[j + k].age + 1
        /\ pending[i + k].age \in Nat /\ pending[j + k].age \in Nat
    BY <1>2, LatencyAssumption, SMTT(30) DEF AgesDecrease
  <2> HIDE DEF k
  <2> QED
    BY <2>1, <2>2
<1>9. \A i \in 1 .. Len(pending)' :
        \/ Accepted(read, waitrequest) /\ i = Len(pending)' /\ pending'[i] = new
        \/ i \in 1 .. Len(q) /\ pending'[i] = q[i] /\ i < Len(q) + 1
  BY <1>2, <1>3, <1>4
<1>10. AgesDecrease'
  <2>1. \A i \in 1 .. Len(pending)' : pending'[i].age \in 1 .. Latency
    BY <1>7, <1>9, LatencyAssumption
  <2>2. \A i, j \in 1 .. Len(pending)' : i < j => pending'[j].age < pending'[i].age
    <3> SUFFICES ASSUME NEW i \in 1 .. Len(pending)', NEW j \in 1 .. Len(pending)', i < j
                 PROVE  pending'[j].age < pending'[i].age
      OBVIOUS
    <3>1. Len(pending)' \in Nat
      BY <1>6 DEF FlashTypeOK
    <3>2. i \in 1 .. Len(q) /\ pending'[i] = q[i]
      BY <1>9, <3>1
    <3>3. CASE j \in 1 .. Len(q) /\ pending'[j] = q[j]
      BY <3>2, <3>3, <1>8
    <3>4. CASE pending'[j] = new
      BY <3>2, <3>4, <1>7, LatencyAssumption
    <3> QED
      BY <1>9, <3>3, <3>4
  <2> QED
    BY <2>1, <2>2 DEF AgesDecrease
<1>11. \A i \in 1 .. Len(pending)' :
         \/ /\ Accepted(read, waitrequest)
            /\ i = Len(pending)'
            /\ pending'[i] = new
         \/ \E j \in 1 .. Len(pending) :
              /\ j = i + k
              /\ pending'[i].word = pending[j].word
              /\ pending'[i].age = pending[j].age + 1
  BY <1>2, <1>9
<1>12. /\ Accepted(read, waitrequest) => pending' # <<>>
       /\ pending # <<>> /\ ~answer => pending' # <<>>
  <2>1. \A s \in Seq(Reads) : s = <<>> <=> Len(s) = 0
    OBVIOUS
  <2>2. Len(q) \in Nat /\ Len(Append(q, new)) = Len(q) + 1
    BY <1>2, <1>3
  <2>3. CASE Accepted(read, waitrequest)
    BY <1>4, <1>6, <2>1, <2>2, <2>3 DEF FlashTypeOK
  <2>4. CASE ~Accepted(read, waitrequest)
    BY <1>2, <1>4, <2>1, <2>4 DEF FlashTypeOK
  <2> QED
    BY <2>3, <2>4
<1>13. answer => pending # <<>>
  BY <1>1 DEF MayAnswer
<1> QED
  BY <1>5, <1>6, <1>10, <1>11, <1>12, <1>13
-----------------------------------------------------------------------------
(* Type correctness and the handshake.                                     *)

Typed ==
  /\ MasterTypeOK
  /\ slave \in SlaveStates
  /\ return_data \in Words
  /\ keyboard \in KeyboardStates
  /\ gap \in 1 .. MaxGap
  /\ rested \in BOOLEAN
  /\ FlashTypeOK
  /\ AgesDecrease

LEMMA KeyboardTyped ==
  ASSUME keyboard \in KeyboardStates, NEW key \in Keys, NEW ready \in BOOLEAN,
         NEW fin \in BOOLEAN, KeyboardStep(key, ready, fin)
  PROVE  keyboard' \in KeyboardStates
<1>1. CASE Restart(key, ready)
  BY <1>1 DEF Restart, KeyboardStates
<1>2. CASE PlainKey(key, ready)
  BY <1>2 DEF PlainKey, KeyboardStates, Follow, Keys, rst
<1>3. CASE LeaveResetForward(key, ready, fin)
  BY <1>3 DEF LeaveResetForward, KeyboardStates
<1>4. CASE LeaveResetBackward(key, ready)
  BY <1>4 DEF LeaveResetBackward, KeyboardStates
<1> QED
  BY <1>1, <1>2, <1>3, <1>4 DEF KeyboardStep

LEMMA MasterTyped ==
  ASSUME MasterTypeOK, return_data \in Words, NEW edge \in BOOLEAN,
         NEW fin \in BOOLEAN,
         MasterStep(edge, rst, play, dir, fin, return_data)
  PROVE  MasterTypeOK'
<1> USE MaxAddrAssumption DEF MasterTypeOK, MasterStates
<1>1. CASE IdleStep(play) \/ StartReadStep \/ WaitReadStep(fin)
           \/ WaitLsbStep(edge) \/ WaitMsbStep(edge)
  BY <1>1 DEF IdleStep, StartReadStep, WaitReadStep, WaitLsbStep, WaitMsbStep, Await
<1>2. CASE TransferLsbStep(dir, return_data)
  BY <1>2 DEF TransferLsbStep, Transfer, FirstHalf, Samples
<1>3. CASE TransferMsbStep(dir, return_data)
  BY <1>3 DEF TransferMsbStep, Transfer, SecondHalf, Samples
<1>4. CASE FinishedStep(dir, rst)
  BY <1>4 DEF FinishedStep, NextAddr, Beyond, Origin, Addresses
<1> QED
  BY <1>1, <1>2, <1>3, <1>4 DEF MasterStep

LEMMA LockstepKept ==
  ASSUME Lockstep, slave \in SlaveStates, master \in MasterStates,
         NEW edge \in BOOLEAN, NEW wait \in BOOLEAN,
         MasterStep(edge, rst, play, dir, slave_finish, return_data),
         SlaveStep(slave_start, wait)
  PROVE  Lockstep' /\ slave' \in SlaveStates
BY DEF Lockstep, SlaveStates, MasterStates, MasterStep, SlaveStep, SlaveMove,
       slave_start, slave_finish, IdleStep, StartReadStep, WaitReadStep, WaitLsbStep,
       TransferLsbStep, WaitMsbStep, TransferMsbStep, FinishedStep, Await, Transfer

LEMMA TypedInit == Init => Typed /\ Lockstep
<1> SUFFICES ASSUME Init PROVE Typed /\ Lockstep
  OBVIOUS
<1> USE MaxAddrAssumption, MaxWaitAssumption, GapAssumption
<1>1. MasterTypeOK
  BY DEF Init, MasterInit, MasterTypeOK, MasterStates, Addresses, Samples, Silence,
         Words, NoWord
<1>2. FlashTypeOK /\ AgesDecrease
  <2>1. pending = <<>> /\ stalled = 0 /\ readdatavalid = FALSE
    BY DEF Init, FlashInit
  <2>2. Len(<<>>) = 0 /\ <<>> \in Seq(Reads)
    OBVIOUS
  <2>3. FlashTypeOK
    <3>1. pending \in Seq(Reads)
      BY <2>1, <2>2
    <3>2. stalled \in 0 .. MaxWait
      BY <2>1
    <3>3. readdatavalid \in BOOLEAN
      BY <2>1, Zenon
    <3> QED
      BY <3>1, <3>2, <3>3 DEF FlashTypeOK
  <2>4. AgesDecrease
    BY <2>1, <2>2 DEF AgesDecrease
  <2> QED
    BY <2>3, <2>4
<1> QED
  BY <1>1, <1>2 DEF Init, Typed, MasterInit, SlaveInit, SlaveStates, KeyboardInit,
         KeyboardStates, Words, Lockstep

LEMMA TypedNext == Typed /\ Lockstep /\ [Next]_vars => Typed' /\ Lockstep'
<1> SUFFICES ASSUME Typed, Lockstep, [Next]_vars
             PROVE  Typed' /\ Lockstep'
  OBVIOUS
<1>1. CASE UNCHANGED vars
  BY <1>1 DEF vars, masterVars, slaveVars, flashVars, Typed, MasterTypeOK,
         FlashTypeOK, AgesDecrease, Lockstep
<1>2. CASE Next
  <2>1. PICK edge \in BOOLEAN, ready \in BOOLEAN, wait \in BOOLEAN,
             answer \in BOOLEAN, key \in Keys : Tick(edge, key, ready, wait, answer)
    BY <1>2 DEF Next
  <2>2. keyboard' \in KeyboardStates
    BY <2>1, KeyboardTyped DEF Tick, Typed, master_finish
  <2>3. MasterTypeOK'
    BY <2>1, MasterTyped DEF Tick, Typed, slave_finish
  <2>4. Lockstep' /\ slave' \in SlaveStates
    BY <2>1, LockstepKept DEF Tick, Typed, MasterTypeOK
  <2>5. gap' \in 1 .. MaxGap
    BY <2>1, GapAssumption DEF Tick, Typed, SampleClockStep
  <2>6. rested' \in BOOLEAN
    BY <2>1 DEF Tick, Typed, RestedStep
  <2>7. FlashTypeOK' /\ AgesDecrease'
    <3>1. flash_read \in BOOLEAN /\ addr \in Addresses
      BY DEF Typed, MasterTypeOK, flash_read
    <3>2. FlashStep(flash_read, addr, wait, answer)
      BY <2>1 DEF Tick
    <3>3. FlashTypeOK /\ AgesDecrease
      BY DEF Typed
    <3> QED
      BY <3>1, <3>2, <3>3, FlashCycle
  <2>8. return_data' \in Words
    <3>1. answer => Head(pending) \in Reads
      BY <2>1 DEF Tick, FlashStep, MayAnswer, Typed, FlashTypeOK
    <3> QED
      BY <2>1, <3>1 DEF Tick, LatchReturnData, Typed, Words, Reads
  <2> QED
    BY <2>2, <2>3, <2>4, <2>5, <2>6, <2>7, <2>8 DEF Typed
<1> QED
  BY <1>1, <1>2

LEMMA AlwaysTyped == Spec => [](Typed /\ Lockstep)
  BY TypedInit, TypedNext, PTL DEF Spec

LEMMA TypedIsTypeOK == Typed => TypeOK
<1> SUFFICES ASSUME Typed PROVE TypeOK
  OBVIOUS
<1> DEFINE Due == [word : Addresses, age : 1 .. Latency]
<1>1. \A i \in 1 .. Len(pending) : pending[i] \in Due
  <2> SUFFICES ASSUME NEW i \in 1 .. Len(pending) PROVE pending[i] \in Due
    OBVIOUS
  <2>1. pending[i].age \in 1 .. Latency
    BY DEF Typed, AgesDecrease
  <2>2. pending[i] \in Reads
    BY DEF Typed, FlashTypeOK
  <2> QED
    BY <2>1, <2>2 DEF Reads
<1> HIDE DEF Due
<1>2. pending \in Seq(Due)
  <2>1. Len(pending) \in Nat /\ pending = [i \in 1 .. Len(pending) |-> pending[i]]
    BY DEF Typed, FlashTypeOK
  <2> QED
    BY <1>1, <2>1
<1> QED
  BY <1>2 DEF Typed, TypeOK, FlashTypeOK, Due

\* Every variable keeps its type; for the queue of the flash this needs that
\* the reads in it were accepted one per cycle and are answered in order.
THEOREM TypeCorrect == Spec => []TypeOK
  BY AlwaysTyped, TypedIsTypeOK, PTL

\* The start and finish pulses, which nothing acknowledges, are never lost,
\* whatever the flash, the sample clock and the keyboard do.
THEOREM HandshakeCorrect == Spec => [](Lockstep /\ HandshakeNotLost)
<1>1. Lockstep => HandshakeNotLost
  BY DEF Lockstep, HandshakeNotLost, slave_start, slave_finish
<1> QED
  BY AlwaysTyped, <1>1, PTL

\* A forward restart stays in force until the master has gone to word 0.
THEOREM RestartForwardCorrect == Spec => RestartForwardObeyed
<1>1. Typed /\ Lockstep /\ [Next]_vars
        => [keyboard = "Reset_Forward" /\ keyboard' # "Reset_Forward" => addr' = 0]_vars
  <2> SUFFICES ASSUME Typed, Next,
                      keyboard = "Reset_Forward", keyboard' # "Reset_Forward"
               PROVE  addr' = 0
    OBVIOUS
  <2>1. PICK edge \in BOOLEAN, ready \in BOOLEAN, wait \in BOOLEAN,
             answer \in BOOLEAN, key \in Keys : Tick(edge, key, ready, wait, answer)
    BY DEF Next
  <2>2. dir /\ rst
    BY DEF dir, rst
  <2>3. master = "Finished"
    BY <2>1, <2>2 DEF Tick, KeyboardStep, Restart, PlainKey, LeaveResetForward,
           LeaveResetBackward, master_finish
  <2>4. FinishedStep(dir, rst)
    BY <2>1, <2>3 DEF Tick, MasterStep, IdleStep, StartReadStep, WaitReadStep,
           WaitLsbStep, TransferLsbStep, WaitMsbStep, TransferMsbStep, Await, Transfer
  <2> QED
    BY <2>2, <2>4 DEF FinishedStep, NextAddr, Origin
<1> QED
  BY <1>1, AlwaysTyped, PTL DEF Spec, RestartForwardObeyed
-----------------------------------------------------------------------------
(***************************************************************************)
(* When the samples the iPod player puts out belong to the word it is at:  *)
(* the second one as soon as two pulses of the sample clock are no closer  *)
(* than an answer of the flash takes (SlowEnough), the first one, if there *)
(* was no pause, as soon as a whole read fits between them (ReadFits).     *)
(***************************************************************************)

SlowEnough == Latency <= MinGap + 1
ReadFits == Latency + MaxWait + 5 <= MinGap

N == Len(pending)

\* The flash owes nothing when the master moves to another word.
Drained ==
  /\ master \in {"transfer_berct_msb", "Finished", "idle", "start_read_addr"}
       => pending = <<>>
  /\ master \in {"idle", "start_read_addr"} => ~readdatavalid

\* Reads only grow older once the reader is done; while the master waits to
\* play the second half they are older than the last pulse.
Aging ==
  /\ master = "wait_berct_lsb" => \A i \in 1 .. N : pending[i].age >= 2
  /\ master = "transfer_berct_lsb" =>
       gap = 1 /\ \A i \in 1 .. N : pending[i].age >= 3
  /\ master = "wait_berct_msb" => \A i \in 1 .. N : pending[i].age >= gap + 2

OfAddr == \A i \in 1 .. N : pending[i].word = addr

\* The master is at work on a word that the reader has not delivered.
Owing == master \notin {"idle", "start_read_addr"} /\ return_data # addr

\* Then a read of it is outstanding, or yet to be accepted, and its answer
\* will be seen as a rising edge of readdatavalid.
Delivering ==
  Owing => /\ ~readdatavalid
           /\ slave \in {"handle_read_op", "wait_read"} \/ pending # <<>>

DataInv == Drained /\ Aging /\ OfAddr /\ Delivering

LEMMA DataInit == Init => DataInv
<1> SUFFICES ASSUME Init PROVE DataInv
  OBVIOUS
<1>1. pending = <<>> /\ readdatavalid = FALSE /\ master = "idle"
  BY DEF Init, FlashInit, MasterInit
<1>2. N = 0
  BY <1>1 DEF N
<1> QED
  BY <1>1, <1>2 DEF DataInv, Drained, Aging, OfAddr, Delivering, Owing

LEMMA DataNext ==
  ASSUME SlowEnough, Typed, Lockstep, DataInv,
         NEW edge \in BOOLEAN, NEW key \in Keys, NEW ready \in BOOLEAN,
         NEW wait \in BOOLEAN, NEW answer \in BOOLEAN,
         Tick(edge, key, ready, wait, answer)
  PROVE  DataInv'
<1> DEFINE Same(i) ==
             \E j \in 1 .. N : /\ pending'[i].word = pending[j].word
                               /\ pending'[i].age = pending[j].age + 1
           New(i) == /\ Accepted(flash_read, wait)
                     /\ pending'[i] = [word |-> addr, age |-> 1]
<1>1. /\ flash_read \in BOOLEAN /\ addr \in Addresses
      /\ FlashTypeOK /\ AgesDecrease
      /\ FlashStep(flash_read, addr, wait, answer)
  BY DEF Typed, MasterTypeOK, flash_read, Tick
<1>2. \A i \in 1 .. N' : New(i) \/ Same(i)
  BY <1>1, FlashCycle DEF N
<1>3. /\ readdatavalid' = answer
      /\ answer => pending # <<>>
      /\ Accepted(flash_read, wait) => pending' # <<>>
      /\ pending # <<>> /\ ~answer => pending' # <<>>
      /\ FlashTypeOK'
  BY <1>1, FlashCycle
<1>4. /\ N \in Nat /\ N' \in Nat
      /\ pending = <<>> <=> N = 0
      /\ pending' = <<>> <=> N' = 0
  <2>1. \A s \in Seq(Reads) : Len(s) \in Nat /\ (s = <<>> <=> Len(s) = 0)
    OBVIOUS
  <2> QED
    BY <2>1, <1>1, <1>3 DEF FlashTypeOK, N
<1>5. \A i \in 1 .. N : pending[i].word \in Addresses /\ pending[i].age \in 1 .. Latency
  <2>1. \A i \in 1 .. N : pending[i] \in Reads
    BY <1>1 DEF FlashTypeOK, N
  <2> QED
    BY <1>1, <2>1 DEF AgesDecrease, Reads, N
<1>6. pending = <<>> /\ ~flash_read => pending' = <<>> /\ ~readdatavalid'
  BY <1>2, <1>3, <1>4 DEF Accepted
<1>7. master # "wait_read_addr" => ~flash_read /\ slave = "idle"
  BY DEF Lockstep, flash_read, SlaveStates
<1>8. /\ MasterStep(edge, rst, play, dir, slave_finish, return_data)
      /\ SlaveStep(slave_start, wait)
      /\ edge => gap >= MinGap
      /\ gap' = IF edge THEN 1 ELSE gap + 1
      /\ gap \in Nat
      /\ master \in MasterStates
      /\ return_data' = IF answer /\ ~readdatavalid
                          THEN Head(pending).word ELSE return_data
  BY GapAssumption DEF Tick, SampleClockStep, Typed, MasterTypeOK, LatchReturnData
<1> USE DEF MasterStep, IdleStep, StartReadStep, WaitReadStep, WaitLsbStep,
            TransferLsbStep, WaitMsbStep, TransferMsbStep, FinishedStep, Await, Transfer
<1>9. Drained'
  <2>1. CASE master \in {"transfer_berct_msb", "Finished", "idle"}
    <3>1. pending' = <<>>
      BY <2>1, <1>6, <1>7 DEF DataInv, Drained
    <3>2. master \in {"Finished", "idle"} => ~readdatavalid'
      BY <2>1, <1>6, <1>7 DEF DataInv, Drained
    <3>3. master' \in {"idle", "start_read_addr"} => master \in {"Finished", "idle"}
      BY <2>1, <1>8
    <3> QED
      BY <3>1, <3>2, <3>3 DEF Drained
  <2>2. CASE master = "wait_berct_msb"
    <3>1. master' \in {"wait_berct_msb", "transfer_berct_msb"}
      BY <2>2, <1>8
    <3>2. CASE master' = "transfer_berct_msb"
      <4>1. gap >= MinGap
        BY <2>2, <3>2, <1>8
      <4>2. N = 0
        <5>1. \A i \in 1 .. N : pending[i].age >= gap + 2 /\ pending[i].age <= Latency
          BY <2>2, <1>5, LatencyAssumption DEF DataInv, Aging
        <5>2. \A i \in 1 .. N : FALSE
          BY <5>1, <4>1, <1>5, <1>8, LatencyAssumption, GapAssumption DEF SlowEnough
        <5> QED
          BY <5>2, <1>4
      <4>3. pending' = <<>>
        BY <4>2, <2>2, <1>4, <1>6, <1>7
      <4> QED
        BY <3>2, <4>3 DEF Drained
    <3>3. CASE master' = "wait_berct_msb"
      BY <3>3 DEF Drained
    <3> QED
      BY <3>1, <3>2, <3>3
  <2>3. CASE master \in {"start_read_addr", "wait_read_addr", "wait_berct_lsb",
                         "transfer_berct_lsb"}
    <3>1. master' \in {"wait_read_addr", "wait_berct_lsb", "transfer_berct_lsb",
                       "wait_berct_msb"}
      BY <2>3, <1>8
    <3> QED
      BY <3>1 DEF Drained
  <2> QED
    BY <2>1, <2>2, <2>3, <1>8 DEF MasterStates
<1>10. Aging'
  <2>1. ~flash_read => \A i \in 1 .. N' : Same(i)
    BY <1>2 DEF Accepted
  <2>2. CASE master' = "wait_berct_lsb"
    <3>1. CASE master = "wait_read_addr"
      <4>1. slave = "finished"
        BY <2>2, <3>1, <1>8 DEF slave_finish
      <4>2. \A i \in 1 .. N' : Same(i)
        BY <4>1, <2>1 DEF flash_read
      <4>3. \A i \in 1 .. N' : pending'[i].age >= 2
        BY <4>2, <1>5, LatencyAssumption
      <4> QED
        BY <2>2, <4>3 DEF Aging
    <3>2. CASE master = "wait_berct_lsb"
      <4>1. \A i \in 1 .. N' : pending'[i].age >= 2
        BY <3>2, <2>1, <1>7, <1>5, LatencyAssumption
      <4> QED
        BY <2>2, <4>1 DEF Aging
    <3> QED
      BY <2>2, <3>1, <3>2, <1>8
  <2>3. CASE master' = "transfer_berct_lsb"
    <3>1. master = "wait_berct_lsb" /\ gap' = 1
      BY <2>3, <1>8
    <3>2. \A i \in 1 .. N' : pending'[i].age >= 3
      BY <3>1, <2>1, <1>7, <1>5, LatencyAssumption DEF DataInv, Aging
    <3> QED
      BY <2>3, <3>1, <3>2 DEF Aging
  <2>4. CASE master' = "wait_berct_msb"
    <3>1. CASE master = "transfer_berct_lsb"
      <4>1. \A i \in 1 .. N' : pending'[i].age >= 4
        BY <3>1, <2>1, <1>7, <1>5, LatencyAssumption DEF DataInv, Aging
      <4>2. gap = 1
        BY <3>1 DEF DataInv, Aging
      <4>3. gap' <= 2 /\ gap' \in Nat
        BY <4>2, <1>8
      <4>4. \A i \in 1 .. N' : pending'[i].age >= gap' + 2
        <5>1. \A i \in 1 .. N' : pending'[i].age \in Nat
          BY <2>1, <3>1, <1>7, <1>5, LatencyAssumption
        <5> QED
          BY <4>1, <4>3, <5>1
      <4> QED
        BY <2>4, <4>4 DEF Aging
    <3>2. CASE master = "wait_berct_msb"
      <4>1. ~edge /\ gap' = gap + 1
        BY <2>4, <3>2, <1>8
      <4>2. \A i \in 1 .. N' : pending'[i].age >= gap' + 2
        BY <4>1, <3>2, <2>1, <1>7, <1>5, <1>8, LatencyAssumption DEF DataInv, Aging
      <4> QED
        BY <2>4, <4>2 DEF Aging
    <3> QED
      BY <2>4, <3>1, <3>2, <1>8
  <2> QED
    BY <2>2, <2>3, <2>4 DEF Aging
<1>11. OfAddr'
  <2>1. CASE master = "Finished"
    <3>1. N' = 0
      BY <2>1, <1>4, <1>6, <1>7 DEF DataInv, Drained
    <3> QED
      BY <3>1 DEF OfAddr
  <2>2. CASE master # "Finished"
    <3>1. addr' = addr
      BY <2>2, <1>8
    <3>2. \A i \in 1 .. N' : pending'[i].word = addr
      BY <1>2 DEF DataInv, OfAddr
    <3> QED
      BY <3>1, <3>2 DEF OfAddr
  <2> QED
    BY <2>1, <2>2
<1>12. answer => Head(pending).word = addr
  <2>1. answer => Head(pending) = pending[1] /\ N >= 1
    BY <1>3, <1>4
  <2> QED
    BY <2>1, <1>4 DEF DataInv, OfAddr
<1>13. Delivering'
  <2> SUFFICES ASSUME Owing'
               PROVE  /\ ~readdatavalid'
                      /\ slave' \in {"handle_read_op", "wait_read"} \/ pending' # <<>>
    BY DEF Delivering
  <2>1. CASE master = "start_read_addr"
    <3>1. slave' = "handle_read_op"
      BY <2>1, <1>7, <1>8 DEF SlaveStep, SlaveMove, slave_start
    <3>2. ~readdatavalid'
      BY <2>1, <1>6, <1>7 DEF DataInv, Drained
    <3> QED
      BY <3>1, <3>2
  <2>2. CASE master \in {"idle", "Finished"}
    BY <2>2, <1>8 DEF Owing
  <2>3. CASE master \notin {"idle", "Finished", "start_read_addr"}
    <3>1. addr' = addr
      BY <2>3, <1>8
    <3>2. ~answer /\ return_data # addr
      BY <2>3, <3>1, <1>8, <1>12 DEF Owing, DataInv, Delivering
    <3>3. Owing
      BY <2>3, <3>2 DEF Owing
    <3>4. ~readdatavalid'
      BY <3>2, <1>3
    <3>5. CASE pending # <<>>
      BY <3>4, <3>5, <3>2, <1>3
    <3>6. CASE slave \in {"handle_read_op", "wait_read"} /\ Accepted(flash_read, wait)
      BY <3>4, <3>6, <1>3
    <3>7. CASE slave \in {"handle_read_op", "wait_read"} /\ ~Accepted(flash_read, wait)
      <4>1. slave' = "wait_read"
        BY <3>7, <1>8 DEF SlaveStep, SlaveMove, Accepted, flash_read
      <4> QED
        BY <4>1, <3>4
    <3> QED
      BY <3>3, <3>5, <3>6, <3>7 DEF DataInv, Delivering
  <2> QED
    BY <2>1, <2>2, <2>3
<1> QED
  BY <1>9, <1>10, <1>11, <1>13 DEF DataInv

LEMMA AlwaysData ==
  ASSUME SlowEnough
  PROVE  Spec => [](Typed /\ Lockstep /\ DataInv)
<1>1. Typed /\ Lockstep /\ DataInv /\ [Next]_vars => DataInv'
  <2> SUFFICES ASSUME Typed, Lockstep, DataInv, [Next]_vars PROVE DataInv'
    OBVIOUS
  <2>1. CASE UNCHANGED vars
    BY <2>1 DEF vars, masterVars, slaveVars, flashVars, DataInv, Drained, Aging, OfAddr,
           Delivering, Owing, N
  <2>2. CASE Next
    BY <2>2, DataNext DEF Next
  <2> QED
    BY <2>1, <2>2
<1> QED
  BY <1>1, DataInit, AlwaysTyped, PTL DEF Spec

\* Every read the flash still owes is for the word the master is at.
THEOREM ReadsCorrect ==
  ASSUME SlowEnough
  PROVE  Spec => []OutstandingReadsAreOfAddr
<1>1. Typed /\ DataInv => OutstandingReadsAreOfAddr
  <2> SUFFICES ASSUME Typed, DataInv PROVE OutstandingReadsAreOfAddr
    OBVIOUS
  <2>1. DOMAIN pending = 1 .. N
    BY DEF Typed, FlashTypeOK, N
  <2> QED
    BY <2>1 DEF DataInv, OfAddr, OutstandingReadsAreOfAddr
<1> QED
  BY <1>1, AlwaysData, PTL

\* The second sample of a word is of that word, at every speed of the sample
\* clock at which two pulses are no closer than the flash takes to answer.
THEOREM SecondSampleCorrect ==
  ASSUME SlowEnough
  PROVE  Spec => []SecondSampleFresh
<1>1. Typed /\ Lockstep /\ DataInv => SecondSampleFresh
  BY DEF Lockstep, DataInv, Drained, Delivering, Owing, SecondSampleFresh
<1> QED
  BY <1>1, AlwaysData, PTL
-----------------------------------------------------------------------------
(* The first sample, of a word that was begun without a pause.             *)

\* Where the player is, in cycles after the pulse that ended the last word.
Clocked ==
  /\ master = "transfer_berct_msb" => gap = 1
  /\ master = "Finished" => gap = 2
  /\ master = "idle" /\ ~rested => gap = 3
  /\ master = "start_read_addr" /\ ~rested => gap = 4

\* While the word is owed, the read of it is at most so much younger.
Prompt ==
  Owing /\ ~rested /\ master \in {"wait_read_addr", "wait_berct_lsb", "transfer_berct_lsb"}
    => /\ master # "transfer_berct_lsb"
       /\ \/ /\ pending = <<>>
             /\ slave \in {"handle_read_op", "wait_read"}
             /\ gap = 5 + stalled
          \/ /\ pending # <<>>
             /\ Head(pending).age + 5 + MaxWait >= gap

LEMMA HeadAge ==
  ASSUME FlashTypeOK, AgesDecrease, pending # <<>>
  PROVE  /\ Head(pending) = pending[1]
         /\ Head(pending) \in Reads
         /\ Head(pending).age \in 1 .. Latency
<1>1. Len(pending) \in Nat \ {0} /\ Head(pending) = pending[1] /\ pending[1] \in Reads
  BY DEF FlashTypeOK
<1> QED
  BY <1>1 DEF AgesDecrease

LEMMA HeadOfAddr ==
  ASSUME FlashTypeOK, OfAddr, pending # <<>>
  PROVE  Head(pending).word = addr
<1>1. N \in Nat \ {0} /\ Head(pending) = pending[1]
  BY DEF FlashTypeOK, N
<1> QED
  BY <1>1 DEF OfAddr

LEMMA FlashStaysEmpty ==
  ASSUME FlashTypeOK, AgesDecrease, pending = <<>>,
         NEW read \in BOOLEAN, NEW wait \in BOOLEAN, NEW answer \in BOOLEAN,
         FlashStep(read, addr, wait, answer), addr \in Addresses,
         ~Accepted(read, wait)
  PROVE  pending' = <<>>
<1> DEFINE q == OneOlder(Owed(answer))
<1>1. MayAnswer(answer) /\ ~answer
  BY DEF FlashStep, MayAnswer
<1>2. q \in Seq(Reads) /\ Len(q) = Len(pending)
  BY <1>1, OwedReads
<1>3. Len(pending) = 0
  OBVIOUS
<1>4. pending' = q
  BY DEF FlashStep
<1> QED
  BY <1>2, <1>3, <1>4

LEMMA HeadAges ==
  ASSUME FlashTypeOK, AgesDecrease, pending # <<>>,
         NEW read \in BOOLEAN, NEW wait \in BOOLEAN,
         NEW answer \in BOOLEAN, ~answer,
         FlashStep(read, addr, wait, answer), addr \in Addresses
  PROVE  /\ pending' # <<>>
         /\ Head(pending').age = Head(pending).age + 1
         /\ Head(pending).age \in Nat
         /\ Head(pending).age < Latency
<1> DEFINE q == OneOlder(Owed(answer))
<1>1. MayAnswer(answer) /\ Head(pending) = pending[1] /\ pending[1].age \in 1 .. Latency
  BY HeadAge DEF FlashStep
<1>2. Head(pending).age < Latency
  BY <1>1, LatencyAssumption DEF MayAnswer
<1>3. /\ q \in Seq(Reads) /\ Len(q) = Len(pending)
      /\ \A i \in 1 .. Len(q) : q[i].age = pending[i].age + 1
  BY <1>1, OwedReads
<1>4. Len(pending) \in Nat \ {0}
  BY DEF FlashTypeOK
<1>5. [word |-> addr, age |-> 1] \in Reads
  BY DEF Reads
<1>6. pending' = IF Accepted(read, wait)
                   THEN Append(q, [word |-> addr, age |-> 1]) ELSE q
  BY DEF FlashStep
<1> HIDE DEF q
<1>7. pending' # <<>> /\ Head(pending') = q[1]
  <2>1. Len(Append(q, [word |-> addr, age |-> 1])) = Len(q) + 1
        /\ Append(q, [word |-> addr, age |-> 1])[1] = q[1]
        /\ Append(q, [word |-> addr, age |-> 1]) \in Seq(Reads)
    BY <1>3, <1>4, <1>5
  <2>2. \A s \in Seq(Reads) : Len(s) > 0 => s # <<>> /\ Head(s) = s[1]
    OBVIOUS
  <2> QED
    BY <2>1, <2>2, <1>3, <1>4, <1>6
<1> QED
  BY <1>1, <1>2, <1>3, <1>4, <1>7

LEMMA PromptNext ==
  ASSUME ReadFits, SlowEnough, Typed, Lockstep, DataInv, Clocked, Prompt, DataInv',
         NEW edge \in BOOLEAN, NEW key \in Keys, NEW ready \in BOOLEAN,
         NEW wait \in BOOLEAN, NEW answer \in BOOLEAN,
         Tick(edge, key, ready, wait, answer)
  PROVE  Clocked' /\ Prompt'
<1>1. /\ flash_read \in BOOLEAN /\ addr \in Addresses
      /\ FlashTypeOK /\ AgesDecrease
      /\ FlashStep(flash_read, addr, wait, answer)
  BY DEF Typed, MasterTypeOK, flash_read, Tick
<1>2. /\ FlashTypeOK' /\ AgesDecrease'
      /\ answer => pending # <<>>
      /\ Accepted(flash_read, wait) => pending' # <<>>
  BY <1>1, FlashCycle, ZenonT(60)
<1>3. /\ MasterStep(edge, rst, play, dir, slave_finish, return_data)
      /\ SlaveStep(slave_start, wait)
      /\ edge => gap >= MinGap
      /\ gap' = IF edge THEN 1 ELSE gap + 1
      /\ gap \in Nat
      /\ master \in MasterStates
      /\ return_data' = IF answer /\ ~readdatavalid
                          THEN Head(pending).word ELSE return_data
      /\ rested' = CASE master = "idle" /\ ~play -> TRUE
                     [] master = "Finished" -> FALSE
                     [] OTHER -> rested
  BY GapAssumption
     DEF Tick, SampleClockStep, Typed, MasterTypeOK, LatchReturnData, RestedStep
<1>4. /\ Latency \in Nat \ {0} /\ MaxWait \in Nat /\ MinGap \in Nat
      /\ 6 <= MinGap /\ Latency + MaxWait + 5 <= MinGap
      /\ stalled \in 0 .. MaxWait
      /\ wait => flash_read /\ stalled < MaxWait
      /\ stalled' = IF wait THEN stalled + 1 ELSE 0
  BY LatencyAssumption, MaxWaitAssumption, GapAssumption, <1>1
     DEF ReadFits, FlashTypeOK, FlashStep
<1> USE DEF MasterStep, IdleStep, StartReadStep, WaitReadStep, WaitLsbStep,
            TransferLsbStep, WaitMsbStep, TransferMsbStep, FinishedStep, Await, Transfer
<1>5. Clocked'
  BY <1>3, <1>4 DEF Clocked
<1>6. Prompt'
  <2> SUFFICES ASSUME Owing', ~rested',
                      master' \in {"wait_read_addr", "wait_berct_lsb", "transfer_berct_lsb"}
               PROVE  /\ master' # "transfer_berct_lsb"
                      /\ \/ /\ pending' = <<>>
                            /\ slave' \in {"handle_read_op", "wait_read"}
                            /\ gap' = 5 + stalled'
                         \/ /\ pending' # <<>>
                            /\ Head(pending').age + 5 + MaxWait >= gap'
    BY DEF Prompt
  <2>1. CASE master = "start_read_addr"
    <3>1. slave = "idle" /\ ~flash_read
      BY <2>1 DEF Lockstep, flash_read
    <3>2. slave' = "handle_read_op" /\ stalled' = 0 /\ master' = "wait_read_addr"
      BY <2>1, <3>1, <1>3, <1>4 DEF SlaveStep, SlaveMove, slave_start
    <3>3. pending' = <<>>
      <4>1. pending = <<>>
        BY <2>1 DEF DataInv, Drained
      <4> QED
        BY <4>1, <3>1, <1>1, FlashStaysEmpty DEF Accepted
    <3>4. gap' = 5
      BY <2>1, <1>3, <1>4 DEF Clocked
    <3> QED
      BY <3>2, <3>3, <3>4
  <2>2. CASE master \in {"wait_read_addr", "wait_berct_lsb"}
    <3>1. addr' = addr /\ ~rested
      BY <2>2, <1>3
    <3>2. answer => Head(pending).word = addr
      BY <1>1, <1>2, HeadOfAddr DEF DataInv
    <3>3. ~answer /\ Owing
      BY <2>2, <3>1, <3>2, <1>3 DEF Owing, DataInv, Delivering
    <3>4. CASE pending = <<>> /\ slave \in {"handle_read_op", "wait_read"}
               /\ gap = 5 + stalled
      <4>1. ~edge /\ gap' = gap + 1
        BY <3>4, <1>3, <1>4
      <4>2. master' = "wait_read_addr"
        BY <3>4, <1>3 DEF slave_finish, Lockstep
      <4>3. CASE wait
        <5>1. slave' = "wait_read" /\ stalled' = stalled + 1
          BY <3>4, <4>3, <1>3, <1>4 DEF SlaveStep, SlaveMove
        <5>2. pending' = <<>>
          BY <3>4, <4>3, <1>1, FlashStaysEmpty DEF Accepted
        <5> QED
          BY <3>4, <4>1, <4>2, <5>1, <5>2, <1>4
      <4>4. CASE ~wait
        <5>1. Accepted(flash_read, wait)
          BY <3>4, <4>4 DEF Accepted, flash_read
        <5>2. pending' # <<>> /\ Head(pending').age \in Nat /\ Head(pending').age >= 1
          <6>1. pending' # <<>> /\ pending' \in Seq(Reads)
            BY <5>1, <1>2 DEF FlashTypeOK
          <6>2. /\ Len(pending)' \in Nat \ {0}
                /\ Head(pending') = pending'[1]
            BY <6>1
          <6>3. pending'[1].age \in 1 .. Latency
            BY <6>2, <1>2 DEF AgesDecrease
          <6> QED
            BY <6>1, <6>2, <6>3, <1>4
        <5> QED
          BY <3>4, <4>1, <4>2, <5>2, <1>4
      <4> QED
        BY <4>3, <4>4
    <3>5. CASE pending # <<>> /\ Head(pending).age + 5 + MaxWait >= gap
      <4>1. /\ pending' # <<>> /\ Head(pending').age = Head(pending).age + 1
            /\ Head(pending).age \in Nat /\ Head(pending).age < Latency
        BY <3>3, <3>5, <1>1, HeadAges
      <4>2. ~edge /\ gap' = gap + 1
        BY <3>5, <4>1, <1>3, <1>4, SMTT(30)
      <4>3. master' # "transfer_berct_lsb"
        BY <2>2, <4>2, <1>3
      <4>4. Head(pending').age + 5 + MaxWait >= gap'
        <5> DEFINE young == Head(pending).age
                   old == Head(pending').age
        <5>1. old = young + 1 /\ young \in Nat /\ young + 5 + MaxWait >= gap
          BY <3>5, <4>1
        <5>2. gap \in Nat /\ MaxWait \in Nat /\ gap' = gap + 1
          BY <4>2, <1>3, <1>4
        <5> HIDE DEF young, old
        <5>3. old + 5 + MaxWait >= gap'
          BY <5>1, <5>2
        <5> QED
          BY <5>3 DEF old
      <4> QED
        BY <4>1, <4>3, <4>4
    <3> QED
      BY <2>2, <3>1, <3>3, <3>4, <3>5 DEF Prompt
  <2>3. CASE master \notin {"start_read_addr", "wait_read_addr", "wait_berct_lsb"}
    BY <2>3, <1>3
  <2> QED
    BY <2>1, <2>2, <2>3
<1> QED
  BY <1>5, <1>6

\* A word that follows its predecessor without a pause has come before its
\* first sample is put out, if a whole read fits between two pulses.
THEOREM FirstSampleCorrect ==
  ASSUME ReadFits
  PROVE  Spec => []FirstSampleFresh
<1> SlowEnough
  BY LatencyAssumption, MaxWaitAssumption, GapAssumption DEF SlowEnough, ReadFits
<1> DEFINE Known == Typed /\ Lockstep /\ DataInv
<1>1. Init => Clocked /\ Prompt
  BY DEF Init, MasterInit, Clocked, Prompt, Owing
<1>2. Known /\ Known' /\ Clocked /\ Prompt /\ [Next]_vars => Clocked' /\ Prompt'
  <2> SUFFICES ASSUME Known, Known', Clocked, Prompt, [Next]_vars
               PROVE  Clocked' /\ Prompt'
    OBVIOUS
  <2>1. CASE UNCHANGED vars
    BY <2>1 DEF vars, masterVars, slaveVars, flashVars, Clocked, Prompt, Owing
  <2>2. CASE Next
    BY <2>2, PromptNext DEF Next
  <2> QED
    BY <2>1, <2>2
<1>3. Prompt => FirstSampleFresh
  BY DEF Prompt, Owing, FirstSampleFresh
<1>4. Spec => []Known
  BY AlwaysData
<1> HIDE DEF Known
<1> QED
  BY <1>1, <1>2, <1>3, <1>4, PTL DEF Spec
-----------------------------------------------------------------------------
(* The player implements the song player.                                  *)

LEMMA ListenerStep ==
  ASSUME Typed, SecondSampleFresh, FirstSampleFresh,
         NEW edge \in BOOLEAN, NEW key \in Keys, NEW ready \in BOOLEAN,
         NEW wait \in BOOLEAN, NEW answer \in BOOLEAN,
         Tick(edge, key, ready, wait, answer)
  PROVE  Listener!Play
<1>1. /\ MasterStep(edge, rst, play, dir, slave_finish, return_data)
      /\ rested' = CASE master = "idle" /\ ~play -> TRUE
                     [] master = "Finished" -> FALSE
                     [] OTHER -> rested
      /\ master \in MasterStates /\ addr \in Addresses /\ return_data \in Words
      /\ rested \in BOOLEAN /\ dir \in BOOLEAN /\ dir' \in BOOLEAN
  BY DEF Tick, Typed, MasterTypeOK, RestedStep, dir
<1> USE DEF Await, Transfer, Stage
<1>2. CASE IdleStep(play)
  <2>1. Stage = "first" /\ Stage' = "first" /\ addr' = addr
        /\ audio_signal' = audio_signal /\ master = "idle"
    BY <1>2 DEF IdleStep
  <2>2. rested' = rested \/ rested' = TRUE
    BY <2>1, <1>1
  <2> QED
    BY <1>1, <2>1, <2>2 DEF Listener!Play, Listener!Rest, Listener!Turn
<1>3. CASE StartReadStep \/ WaitReadStep(slave_finish) \/ WaitLsbStep(edge)
           \/ WaitMsbStep(edge)
  <2>1. Stage' = Stage /\ addr' = addr /\ audio_signal' = audio_signal
        /\ rested' = rested
    BY <1>3, <1>1 DEF StartReadStep, WaitReadStep, WaitLsbStep, WaitMsbStep
  <2> QED
    BY <2>1, <1>1 DEF Listener!Play, Listener!Turn
<1>4. CASE TransferLsbStep(dir, return_data)
  <2>1. Stage = "first" /\ Stage' = "second" /\ addr' = addr /\ rested' = rested
        /\ audio_signal' = [word |-> return_data, half |-> FirstHalf(dir)]
        /\ (~rested => return_data = addr)
    BY <1>4, <1>1 DEF TransferLsbStep, FirstSampleFresh
  <2>2. return_data \in IF rested THEN 0 .. MaxAddr + 1 ELSE {addr}
    BY <2>1, <1>1, MaxAddrAssumption DEF Words, NoWord, Addresses
  <2> QED
    BY <1>1, <2>1, <2>2
       DEF FirstHalf, Listener!Play, Listener!PlayFirst, Listener!Low, Listener!High
<1>5. CASE TransferMsbStep(dir, return_data)
  <2>1. Stage = "second" /\ Stage' = "move" /\ addr' = addr /\ rested' = rested
        /\ audio_signal' = [word |-> addr, half |-> SecondHalf(dir)]
    BY <1>5, <1>1 DEF TransferMsbStep, SecondSampleFresh
  <2> QED
    BY <1>1, <2>1
       DEF SecondHalf, Listener!Play, Listener!PlaySecond, Listener!Low, Listener!High
<1>6. CASE FinishedStep(dir, rst)
  <2>1. Stage = "move" /\ Stage' = "first" /\ rested' = FALSE
        /\ audio_signal' = audio_signal /\ addr' = NextAddr(addr, dir, rst)
    BY <1>6, <1>1 DEF FinishedStep
  <2>2. \/ dir /\ addr' \in {0, Listener!After(addr)}
        \/ ~dir /\ (addr' = MaxAddr \/ (addr' \in 0 .. MaxAddr /\ addr = Listener!After(addr')))
    BY <2>1, <1>1, MaxAddrAssumption
       DEF NextAddr, Beyond, Origin, Addresses, Listener!After
  <2> QED
    BY <1>1, <2>1, <2>2 DEF Listener!Play, Listener!Move
<1> QED
  BY <1>1, <1>2, <1>3, <1>4, <1>5, <1>6 DEF MasterStep

\* To a listener the player is the song player: whole words in the order of
\* the direction, with at most the first sample after a pause astray.
THEOREM PlaysTheSongCorrect ==
  ASSUME ReadFits
  PROVE  Spec => PlaysTheSong
<1> SlowEnough
  BY LatencyAssumption, MaxWaitAssumption, GapAssumption DEF SlowEnough, ReadFits
<1>1. Init => Listener!Start
  BY DEF Init, MasterInit, KeyboardInit, Silence, NoWord, Stage, dir,
         Listener!Start, Listener!Low
<1>2. Typed /\ FirstSampleFresh /\ SecondSampleFresh /\ [Next]_vars
        => [Listener!Play]_<<addr, dir, Stage, audio_signal, rested>>
  <2> SUFFICES ASSUME Typed, FirstSampleFresh, SecondSampleFresh, [Next]_vars
               PROVE  [Listener!Play]_<<addr, dir, Stage, audio_signal, rested>>
    OBVIOUS
  <2>1. CASE UNCHANGED vars
    BY <2>1 DEF vars, masterVars, dir, Stage
  <2>2. CASE Next
    BY <2>2, ListenerStep DEF Next
  <2> QED
    BY <2>1, <2>2
<1>3. Spec => []Typed
  BY AlwaysTyped, PTL
<1>4. Spec => []FirstSampleFresh
  BY FirstSampleCorrect
<1>5. Spec => []SecondSampleFresh
  BY SecondSampleCorrect
<1> QED
  BY <1>1, <1>2, <1>3, <1>4, <1>5, PTL DEF Spec, PlaysTheSong, Listener!SongSpec
=============================================================================
