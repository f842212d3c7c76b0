----------------------------- MODULE Ucos_proofs -----------------------------
(***************************************************************************)
(* Proofs about the kernel, for every number of tasks, events and          *)
(* messages and every size of a queue:                                     *)
(*                                                                         *)
(* - The rings of os_q.c implement first-in first-out sequences, for every *)
(*   application.                                                          *)
(* - Of an application that creates its tasks before OSStart, lets them    *)
(*   keep their priorities and uses no mutexes, as the firmware of Lab 5   *)
(*   does (FixedTasks): the highest ready task runs, and every field keeps *)
(*   its type.                                                             *)
(* - Of one whose tasks and events are there for good, which waits for one *)
(*   event at a time and uses its mutexes, if it has any, as priority      *)
(*   inheritance needs it (Discipline): the ready table and the wait lists *)
(*   are exact, the owner of a mutex outranks its waiters, the highest     *)
(*   ready task runs, and no permit and no message is lost.  Every task is *)
(*   in one of four stages of a wait, whatever the other tasks, interrupts *)
(*   and the tick do to it.                                                *)
(* - Of one that besides consumes flags only in the sense in which a group *)
(*   is waited for (LastingFlags): no task waits for what is there.        *)
(***************************************************************************)
EXTENDS UcosProperties, SequenceTheorems, FiniteSetTheorems, WellFoundedInduction,
        TLAPS

(* The rings of the queues                                                 *)

Word == Msgs \cup {NULL}

(* The two indices are as far apart as there are entries.                  *)
InStep(in, out, n, start) ==
  /\ in \in Slots /\ out \in Slots
  /\ n \in 0..OSQSize
  /\ start \in [Slots -> Word]
  /\ in = out + n \/ in = out + n - OSQSize

RingOK(e) == InStep(OSQIn[e], OSQOut[e], OSQEntries[e], OSQStart[e])

(* The slot in front of the oldest message.                                *)
Front(out) == (IF out = 0 THEN OSQSize ELSE out) - 1

(* What a service may do to one ring.                                      *)
Takes(e) ==
  /\ OSQEntries[e] > 0
  /\ OSQOut'[e] = Wrap(OSQOut[e] + 1)
  /\ OSQEntries'[e] = OSQEntries[e] - 1
  /\ OSQIn'[e] = OSQIn[e] /\ OSQStart'[e] = OSQStart[e]
PutsBack(e, m) ==
  /\ OSQEntries[e] < OSQSize
  /\ OSQStart'[e] = [OSQStart[e] EXCEPT ![OSQIn[e]] = m]
  /\ OSQIn'[e] = Wrap(OSQIn[e] + 1)
  /\ OSQEntries'[e] = OSQEntries[e] + 1
  /\ OSQOut'[e] = OSQOut[e]
PutsFront(e, m) ==
  /\ OSQEntries[e] < OSQSize
  /\ OSQOut'[e] = Front(OSQOut[e])
  /\ OSQStart'[e] = [OSQStart[e] EXCEPT ![OSQOut'[e]] = m]
  /\ OSQEntries'[e] = OSQEntries[e] + 1
  /\ OSQIn'[e] = OSQIn[e]
Empties(e) ==
  /\ OSQIn'[e] = 0 /\ OSQOut'[e] = 0 /\ OSQEntries'[e] = 0
  /\ OSQStart'[e] = OSQStart[e]
Keeps(e) ==
  /\ OSQIn'[e] = OSQIn[e] /\ OSQOut'[e] = OSQOut[e] /\ OSQEntries'[e] = OSQEntries[e]
  /\ OSQStart'[e] = OSQStart[e]
RingMoves(e) ==
  \/ Takes(e) \/ Empties(e) \/ Keeps(e)
  \/ \E m \in Word : PutsBack(e, m) \/ PutsFront(e, m)

-----------------------------------------------------------------------------
(* The slot of the k-th entry.                                             *)
SlotOf(out, k) == IF out + k - 1 < OSQSize THEN out + k - 1 ELSE out + k - 1 - OSQSize

LEMMA SlotOfEntry ==
  ASSUME NEW out \in Slots, NEW k \in 1..OSQSize
  PROVE  (out + k - 1) % OSQSize = SlotOf(out, k) /\ SlotOf(out, k) \in Slots
<1>1. /\ OSQSize \in Nat \ {0} /\ out \in Nat /\ k \in Nat /\ out < OSQSize
      /\ 1 <= k /\ k <= OSQSize
  BY QAssumption DEF Slots
<1>2. CASE out + k - 1 < OSQSize
  <2>1. \A x \in Nat : x < OSQSize => x % OSQSize = x
    BY <1>1
  <2> QED
    BY <1>1, <1>2, <2>1 DEF SlotOf, Slots
<1>3. CASE out + k - 1 >= OSQSize
  <2>1. \A x \in Nat : OSQSize <= x /\ x < 2 * OSQSize => x % OSQSize = x - OSQSize
    BY <1>1
  <2>2. out + k - 1 \in Nat /\ out + k - 1 < 2 * OSQSize
    BY <1>1
  <2> QED
    BY <1>1, <1>3, <2>1, <2>2 DEF SlotOf, Slots
<1> QED
  BY <1>1, <1>2, <1>3

(* The messages of a ring, as a function of its fields.                    *)
Contents(out, n, start) == [k \in 1..n |-> start[(out + k - 1) % OSQSize]]

LEMMA ContentsAreASeq ==
  ASSUME NEW out \in Slots, NEW n \in 0..OSQSize, NEW start \in [Slots -> Word]
  PROVE  /\ Contents(out, n, start) \in Seq(Word)
         /\ Len(Contents(out, n, start)) = n
         /\ \A k \in 1..n : /\ Contents(out, n, start)[k] = start[SlotOf(out, k)]
                           /\ SlotOf(out, k) \in Slots
<1> DEFINE c == Contents(out, n, start)
<1>1. n \in Nat /\ n <= OSQSize /\ OSQSize \in Nat
  BY QAssumption
<1>2. \A k \in 1..n : (out + k - 1) % OSQSize = SlotOf(out, k) /\ SlotOf(out, k) \in Slots
  BY <1>1, SlotOfEntry
<1>3. \A k \in 1..n : c[k] = start[SlotOf(out, k)]
  BY <1>2 DEF Contents
<1>4. c \in [1..n -> Word]
  BY <1>2 DEF Contents
<1>5. c \in Seq(Word) /\ Len(c) = n
  <2> HIDE DEF c
  <2> QED
    BY <1>1, <1>4
<1> QED
  BY <1>2, <1>3, <1>5

LEMMA TakeIsTail ==
  ASSUME NEW out \in Slots, NEW n \in 0..OSQSize, NEW start \in [Slots -> Word], n > 0
  PROVE  /\ Contents(out, n, start) # << >>
         /\ Contents(Wrap(out + 1), n - 1, start) = Tail(Contents(out, n, start))
<1> DEFINE c == Contents(out, n, start)
           d == Contents(Wrap(out + 1), n - 1, start)
<1>1. n - 1 \in 0..OSQSize /\ Wrap(out + 1) \in Slots
  BY QAssumption DEF Slots, Wrap
<1>2. /\ c \in Seq(Word) /\ Len(c) = n
      /\ \A k \in 1..n : c[k] = start[SlotOf(out, k)]
  BY ContentsAreASeq
<1>3. /\ d \in Seq(Word) /\ Len(d) = n - 1
      /\ \A k \in 1..n - 1 : d[k] = start[SlotOf(Wrap(out + 1), k)]
  BY <1>1, ContentsAreASeq
<1>4. \A k \in 1..n - 1 : SlotOf(Wrap(out + 1), k) = SlotOf(out, k + 1)
  BY QAssumption DEF Slots, Wrap, SlotOf
<1> HIDE DEF c, d
<1>5. c # << >>
  BY <1>2, EmptySeq
<1>6. /\ Tail(c) \in Seq(Word) /\ Len(Tail(c)) = n - 1
      /\ \A k \in 1..n - 1 : Tail(c)[k] = c[k + 1]
  BY <1>2, <1>5, HeadTailProperties
<1>7. \A k \in 1..n - 1 : k + 1 \in 1..n
  OBVIOUS
<1>8. \A k \in 1..n - 1 : d[k] = Tail(c)[k]
  BY <1>2, <1>3, <1>4, <1>6, <1>7
<1>9. d = Tail(c)
  BY <1>3, <1>6, <1>8, SeqEqual
<1> QED
  BY <1>5, <1>9 DEF c, d

LEMMA PutBackIsAppend ==
  ASSUME NEW out \in Slots, NEW n \in 0..OSQSize, NEW start \in [Slots -> Word], n < OSQSize,
         NEW in \in Slots, in = SlotOf(out, n + 1), NEW m \in Word
  PROVE  Contents(out, n + 1, [start EXCEPT ![in] = m]) = Append(Contents(out, n, start), m)
<1> DEFINE c == Contents(out, n, start)
           new == [start EXCEPT ![in] = m]
           d == Contents(out, n + 1, new)
<1>1. n + 1 \in 0..OSQSize /\ new \in [Slots -> Word]
  BY QAssumption
<1>2. /\ c \in Seq(Word) /\ Len(c) = n
      /\ \A k \in 1..n : c[k] = start[SlotOf(out, k)] /\ SlotOf(out, k) \in Slots
  BY ContentsAreASeq
<1>3. /\ d \in Seq(Word) /\ Len(d) = n + 1
      /\ \A k \in 1..n + 1 : d[k] = new[SlotOf(out, k)]
  <2> HIDE DEF new
  <2> QED
    BY <1>1, ContentsAreASeq
<1>4. \A k \in 1..n : SlotOf(out, k) # in
  BY QAssumption DEF Slots, SlotOf
<1>5. \A k \in 1..n : new[SlotOf(out, k)] = start[SlotOf(out, k)]
  BY <1>2, <1>4
<1>6. new[in] = m
  OBVIOUS
<1> HIDE DEF c, d, new
<1>7. /\ Append(c, m) \in Seq(Word) /\ Len(Append(c, m)) = n + 1
      /\ \A k \in 1..n : Append(c, m)[k] = c[k]
      /\ Append(c, m)[n + 1] = m
  BY <1>2, AppendProperties
<1>8. \A k \in 1..n + 1 : k \in 1..n \/ k = n + 1
  OBVIOUS
<1>9. \A k \in 1..n + 1 : d[k] = Append(c, m)[k]
  BY <1>2, <1>3, <1>5, <1>6, <1>7, <1>8
<1>10. d = Append(c, m)
  BY <1>3, <1>7, <1>9, SeqEqual
<1> QED
  BY <1>10 DEF c, d, new

LEMMA PutFrontIsPrefix ==
  ASSUME NEW out \in Slots, NEW n \in 0..OSQSize, NEW start \in [Slots -> Word], n < OSQSize,
         NEW slot \in Slots, slot = Front(out), NEW m \in Word
  PROVE  Contents(slot, n + 1, [start EXCEPT ![slot] = m]) = <<m>> \o Contents(out, n, start)
<1> DEFINE c == Contents(out, n, start)
           new == [start EXCEPT ![slot] = m]
           d == Contents(slot, n + 1, new)
<1>1. slot \in Slots /\ n + 1 \in 0..OSQSize /\ new \in [Slots -> Word]
  BY QAssumption DEF Slots
<1>2. /\ c \in Seq(Word) /\ Len(c) = n
      /\ \A k \in 1..n : c[k] = start[SlotOf(out, k)] /\ SlotOf(out, k) \in Slots
  BY ContentsAreASeq
<1>3. /\ d \in Seq(Word) /\ Len(d) = n + 1
      /\ \A k \in 1..n + 1 : d[k] = new[SlotOf(slot, k)]
  <2> HIDE DEF new
  <2> QED
    BY <1>1, ContentsAreASeq
<1>4. SlotOf(slot, 1) = slot
  BY <1>1, QAssumption DEF Slots, SlotOf
<1>5. \A k \in 1..n : SlotOf(slot, k + 1) = SlotOf(out, k) /\ SlotOf(out, k) # slot
  BY QAssumption DEF Slots, SlotOf, Front
<1>6. \A k \in 1..n : new[SlotOf(out, k)] = start[SlotOf(out, k)]
  BY <1>2, <1>5
<1>7. new[slot] = m
  BY <1>1
<1> HIDE DEF c, d, new
<1>8. <<m>> \in Seq(Word) /\ Len(<<m>>) = 1 /\ <<m>>[1] = m
  OBVIOUS
<1>9. /\ <<m>> \o c \in Seq(Word) /\ Len(<<m>> \o c) = n + 1
      /\ \A k \in 1..n + 1 : (<<m>> \o c)[k] = IF k <= 1 THEN <<m>>[k] ELSE c[k - 1]
  BY <1>2, <1>8, ConcatProperties
<1>10. \A k \in 1..n + 1 : k = 1 \/ (k > 1 /\ k - 1 \in 1..n /\ (k - 1) + 1 = k)
  OBVIOUS
<1>11. \A k \in 1..n + 1 : d[k] = (<<m>> \o c)[k]
  <2> TAKE k \in 1..n + 1
  <2>1. CASE k = 1
    BY <2>1, <1>3, <1>4, <1>7, <1>8, <1>9
  <2>2. CASE k > 1 /\ k - 1 \in 1..n /\ (k - 1) + 1 = k
    <3>1. SlotOf(slot, k) = SlotOf(out, k - 1)
      BY <2>2, <1>5
    <3>2. d[k] = start[SlotOf(out, k - 1)]
      BY <2>2, <3>1, <1>3, <1>6
    <3> QED
      BY <2>2, <3>2, <1>2, <1>9
  <2> QED
    BY <2>1, <2>2, <1>10
<1>12. d = <<m>> \o c
  BY <1>3, <1>9, <1>11, SeqEqual
<1> QED
  BY <1>1, <1>12 DEF c, d, new

(* Each move of the ring keeps the indices in step with the count.         *)
LEMMA InStepFacts ==
  ASSUME NEW in, NEW out, NEW n, NEW start, InStep(in, out, n, start)
  PROVE  /\ in \in 0..OSQSize - 1 /\ out \in 0..OSQSize - 1 /\ n \in 0..OSQSize
         /\ start \in [Slots -> Word]
         /\ in = out + n \/ in = out + n - OSQSize
         /\ OSQSize \in Nat \ {0}
  BY QAssumption DEF InStep, Slots

LEMMA InStepTake ==
  ASSUME NEW in, NEW out, NEW n, NEW start, InStep(in, out, n, start), n > 0
  PROVE  InStep(in, Wrap(out + 1), n - 1, start)
<1>1. CASE out + 1 = OSQSize
  <2>1. Wrap(out + 1) = 0
    BY <1>1 DEF Wrap
  <2>2. in = 0 + (n - 1)
    BY <1>1, InStepFacts
  <2> QED
    BY <2>1, <2>2, InStepFacts DEF InStep, Slots
<1>2. CASE out + 1 # OSQSize
  <2>1. Wrap(out + 1) = out + 1
    BY <1>2 DEF Wrap
  <2>2. /\ out + 1 \in 0..OSQSize - 1 /\ n - 1 \in 0..OSQSize /\ in \in 0..OSQSize - 1
        /\ in = (out + 1) + (n - 1) \/ in = (out + 1) + (n - 1) - OSQSize
    BY <1>2, InStepFacts
  <2>3. start \in [Slots -> Word]
    BY InStepFacts
  <2> QED
    BY <2>1, <2>2, <2>3 DEF InStep, Slots
<1> QED
  BY <1>1, <1>2

LEMMA InStepEmpty ==
  ASSUME NEW start \in [Slots -> Word]
  PROVE  InStep(0, 0, 0, start)
  BY QAssumption DEF InStep, Slots

LEMMA InStepSlot ==
  ASSUME NEW in, NEW out, NEW n, NEW start, InStep(in, out, n, start), n < OSQSize
  PROVE  in = SlotOf(out, n + 1)
  BY InStepFacts DEF SlotOf

LEMMA InStepBack ==
  ASSUME NEW in, NEW out, NEW n, NEW start, InStep(in, out, n, start), n < OSQSize,
         NEW m \in Word
  PROVE  InStep(Wrap(in + 1), out, n + 1, [start EXCEPT ![in] = m])
<1>1. [start EXCEPT ![in] = m] \in [Slots -> Word]
  BY InStepFacts
<1>2. CASE in + 1 = OSQSize
  <2>1. Wrap(in + 1) = 0
    BY <1>2 DEF Wrap
  <2>2. /\ 0 \in 0..OSQSize - 1 /\ out \in 0..OSQSize - 1 /\ n + 1 \in 0..OSQSize
        /\ 0 = out + (n + 1) - OSQSize
    BY <1>2, InStepFacts
  <2> QED
    BY <1>1, <2>1, <2>2 DEF InStep, Slots
<1>3. CASE in + 1 # OSQSize
  <2>1. Wrap(in + 1) = in + 1
    BY <1>3 DEF Wrap
  <2>2. /\ in + 1 \in 0..OSQSize - 1 /\ out \in 0..OSQSize - 1 /\ n + 1 \in 0..OSQSize
        /\ in + 1 = out + (n + 1) \/ in + 1 = out + (n + 1) - OSQSize
    BY <1>3, InStepFacts
  <2> QED
    BY <1>1, <2>1, <2>2 DEF InStep, Slots
<1> QED
  BY <1>2, <1>3

LEMMA InStepFront ==
  ASSUME NEW in, NEW out, NEW n, NEW start, InStep(in, out, n, start), n < OSQSize,
         NEW slot, slot = Front(out), NEW m \in Word
  PROVE  InStep(in, slot, n + 1, [start EXCEPT ![slot] = m])
<1>1. slot \in 0..OSQSize - 1 /\ in \in 0..OSQSize - 1 /\ n + 1 \in 0..OSQSize
  BY InStepFacts DEF Front
<1>2. [start EXCEPT ![slot] = m] \in [Slots -> Word]
  BY InStepFacts
<1>3. in = slot + (n + 1) \/ in = slot + (n + 1) - OSQSize
  BY InStepFacts DEF Front
<1> QED
  BY <1>1, <1>2, <1>3 DEF InStep, Slots

(* And it is a move of the sequence.                                       *)
LEMMA RingStep ==
  ASSUME NEW e \in OSEventTblAll, RingOK(e), RingMoves(e)
  PROVE  RingOK(e)' /\ [Fifo(e)!Next]_(QContents(e))
<1>1. /\ OSQIn[e] \in Slots /\ OSQOut[e] \in Slots /\ OSQEntries[e] \in 0..OSQSize
      /\ OSQStart[e] \in [Slots -> Word]
      /\ InStep(OSQIn[e], OSQOut[e], OSQEntries[e], OSQStart[e])
  BY DEF RingOK, InStep
<1>2. /\ QContents(e) = Contents(OSQOut[e], OSQEntries[e], OSQStart[e])
      /\ QContents(e)' = Contents(OSQOut'[e], OSQEntries'[e], OSQStart'[e])
  BY DEF QContents, Contents
<1>3. RingOK(e)' <=> InStep(OSQIn'[e], OSQOut'[e], OSQEntries'[e], OSQStart'[e])
  BY DEF RingOK
<1>4. Len(QContents(e)) = OSQEntries[e]
  BY <1>1, <1>2, ContentsAreASeq
<1>5. CASE Takes(e)
  <2>1. RingOK(e)'
    BY <1>1, <1>3, <1>5, InStepTake DEF Takes
  <2>2. QContents(e) # << >> /\ QContents(e)' = Tail(QContents(e))
    BY <1>1, <1>2, <1>5, TakeIsTail DEF Takes
  <2> QED
    BY <2>1, <2>2 DEF Fifo!Next, Fifo!Take
<1>6. CASE Empties(e)
  <2>1. RingOK(e)'
    BY <1>1, <1>3, <1>6, InStepEmpty DEF Empties
  <2>2. QContents(e)' = << >>
    <3>1. OSQEntries'[e] = 0
      BY <1>6 DEF Empties
    <3> QED
      BY <3>1 DEF QContents
  <2> QED
    BY <2>1, <2>2 DEF Fifo!Next, Fifo!Flush
<1>7. CASE Keeps(e)
  BY <1>1, <1>2, <1>3, <1>7 DEF Keeps
<1>8. ASSUME NEW m \in Word, PutsBack(e, m)
      PROVE  RingOK(e)' /\ Fifo(e)!Next
  <2> DEFINE start == [OSQStart[e] EXCEPT ![OSQIn[e]] = m]
  <2>1. m \in Word
    OBVIOUS
  <2>2. /\ OSQOut'[e] = OSQOut[e] /\ OSQEntries'[e] = OSQEntries[e] + 1
        /\ OSQIn'[e] = Wrap(OSQIn[e] + 1) /\ OSQStart'[e] = start
        /\ OSQEntries[e] < OSQSize
    BY <1>8 DEF PutsBack
  <2>3. InStep(Wrap(OSQIn[e] + 1), OSQOut[e], OSQEntries[e] + 1, start)
    BY <1>1, <2>1, <2>2, InStepBack
  <2>4. OSQIn[e] = SlotOf(OSQOut[e], OSQEntries[e] + 1)
    BY <1>1, <2>2, InStepSlot
  <2>5. Contents(OSQOut[e], OSQEntries[e] + 1, start)
          = Append(Contents(OSQOut[e], OSQEntries[e], OSQStart[e]), m)
    <3>1. OSQEntries[e] < OSQSize
      BY <2>2
    <3> QED
      BY <1>1, <2>1, <2>4, <3>1, PutBackIsAppend
  <2> HIDE DEF start
  <2>6. RingOK(e)'
    BY <1>3, <2>2, <2>3
  <2>7. QContents(e)' = Append(QContents(e), m)
    BY <1>2, <2>2, <2>5
  <2> QED
    BY <1>4, <2>2, <2>6, <2>7 DEF Fifo!Next, Fifo!PutBack, Word
<1>9. ASSUME NEW m \in Word, PutsFront(e, m)
      PROVE  RingOK(e)' /\ Fifo(e)!Next
  <2>1. m \in Word
    OBVIOUS
  <2> DEFINE slot == Front(OSQOut[e])
  <2>0. slot = Front(OSQOut[e])
    OBVIOUS
  <2> DEFINE start == [OSQStart[e] EXCEPT ![slot] = m]
  <2>2. /\ OSQOut'[e] = slot /\ OSQEntries'[e] = OSQEntries[e] + 1
        /\ OSQIn'[e] = OSQIn[e] /\ OSQStart'[e] = start
        /\ OSQEntries[e] < OSQSize
    BY <1>9 DEF PutsFront
  <2> HIDE DEF slot
  <2>3. InStep(OSQIn[e], slot, OSQEntries[e] + 1, start)
    <3>1. InStep(OSQIn[e], OSQOut[e], OSQEntries[e], OSQStart[e]) /\ OSQEntries[e] < OSQSize
      BY <1>1, <2>2
    <3> QED
      BY ONLY <2>0, <2>1, <3>1, InStepFront
  <2>4. Contents(slot, OSQEntries[e] + 1, start)
          = <<m>> \o Contents(OSQOut[e], OSQEntries[e], OSQStart[e])
    <3>1. /\ OSQOut[e] \in Slots /\ OSQEntries[e] \in 0..OSQSize
          /\ OSQStart[e] \in [Slots -> Word] /\ OSQEntries[e] < OSQSize
      BY <1>1, <2>2
    <3>2. slot \in Slots
      BY <2>0, <3>1, QAssumption DEF Slots, Front
    <3> QED
      BY ONLY <2>0, <2>1, <3>1, <3>2, PutFrontIsPrefix, ZenonT(60)
  <2> HIDE DEF start
  <2>5. RingOK(e)'
    BY <1>3, <2>2, <2>3
  <2>6. QContents(e)' = <<m>> \o QContents(e)
    BY <1>2, <2>2, <2>4
  <2> QED
    BY <1>4, <2>2, <2>5, <2>6 DEF Fifo!Next, Fifo!PutFront, Word
<1> QED
  BY <1>5, <1>6, <1>7, <1>8, <1>9 DEF RingMoves

-----------------------------------------------------------------------------
(* The four arrays of the rings stay arrays.                               *)
RingArrays ==
  /\ OSQIn = [e \in OSEventTblAll |-> OSQIn[e]]
  /\ OSQOut = [e \in OSEventTblAll |-> OSQOut[e]]
  /\ OSQEntries = [e \in OSEventTblAll |-> OSQEntries[e]]
  /\ OSQStart = [e \in OSEventTblAll |-> OSQStart[e]]

AllMove == RingArrays' /\ \A e \in OSEventTblAll : RingMoves(e)

LEMMA KeepingMoves == RingArrays /\ UNCHANGED qVars => AllMove
  BY DEF RingArrays, AllMove, RingMoves, Keeps, qVars

LEMMA TakingMoves ==
  ASSUME RingArrays, NEW e \in OSEventTblAll, OSQEntries[e] > 0, QTake(e)
  PROVE  AllMove
<1>1. /\ OSQOut' = [OSQOut EXCEPT ![e] = Wrap(OSQOut[e] + 1)]
      /\ OSQEntries' = [OSQEntries EXCEPT ![e] = OSQEntries[e] - 1]
      /\ OSQIn' = OSQIn /\ OSQStart' = OSQStart
  BY DEF QTake
<1>2. RingArrays'
  BY <1>1 DEF RingArrays
<1>3. ASSUME NEW f \in OSEventTblAll
      PROVE  RingMoves(f)
  <2>1. CASE f = e
    BY <1>1, <2>1 DEF RingArrays, RingMoves, Takes
  <2>2. CASE f # e
    BY <1>1, <2>2 DEF RingArrays, RingMoves, Keeps
  <2> QED
    BY <2>1, <2>2
<1> QED
  BY <1>2, <1>3 DEF AllMove

LEMMA PuttingMoves ==
  ASSUME RingArrays, NEW e \in OSEventTblAll, OSQEntries[e] < OSQSize, NEW m \in Word,
         QPutBack(e, m) \/ QPutFront(e, m)
  PROVE  AllMove
<1> DEFINE slot == Front(OSQOut[e])
<1>1. CASE QPutBack(e, m)
  <2>1. /\ OSQStart' = [OSQStart EXCEPT ![e] = [OSQStart[e] EXCEPT ![OSQIn[e]] = m]]
        /\ OSQIn' = [OSQIn EXCEPT ![e] = Wrap(OSQIn[e] + 1)]
        /\ OSQEntries' = [OSQEntries EXCEPT ![e] = OSQEntries[e] + 1]
        /\ OSQOut' = OSQOut
    BY <1>1 DEF QPutBack
  <2>2. RingArrays'
    BY <2>1 DEF RingArrays
  <2>3. PutsBack(e, m)
    BY <2>1 DEF RingArrays, PutsBack
  <2>4. \A f \in OSEventTblAll : f # e => Keeps(f)
    BY <2>1 DEF RingArrays, Keeps
  <2> QED
    BY <2>2, <2>3, <2>4 DEF AllMove, RingMoves
<1>2. CASE QPutFront(e, m)
  <2>1. /\ OSQStart' = [OSQStart EXCEPT ![e] = [OSQStart[e] EXCEPT ![slot] = m]]
        /\ OSQOut' = [OSQOut EXCEPT ![e] = slot]
        /\ OSQEntries' = [OSQEntries EXCEPT ![e] = OSQEntries[e] + 1]
        /\ OSQIn' = OSQIn
    BY <1>2 DEF QPutFront, Front
  <2> HIDE DEF slot
  <2>2. RingArrays'
    BY <2>1 DEF RingArrays
  <2>3. OSQOut'[e] = slot
    BY <2>1 DEF RingArrays
  <2>4. PutsFront(e, m)
    BY <2>1, <2>3 DEF RingArrays, PutsFront, slot
  <2>5. \A f \in OSEventTblAll : f # e => Keeps(f)
    BY <2>1 DEF RingArrays, Keeps
  <2> QED
    BY <2>2, <2>4, <2>5 DEF AllMove, RingMoves
<1> QED
  BY <1>1, <1>2

LEMMA EmptyingMoves ==
  ASSUME RingArrays, NEW e \in OSEventTblAll,
         OSQIn' = [OSQIn EXCEPT ![e] = 0], OSQOut' = [OSQOut EXCEPT ![e] = 0],
         OSQEntries' = [OSQEntries EXCEPT ![e] = 0], OSQStart' = OSQStart
  PROVE  AllMove
<1>1. RingArrays'
  BY DEF RingArrays
<1>2. Empties(e)
  BY DEF RingArrays, Empties
<1>3. \A f \in OSEventTblAll : f # e => Keeps(f)
  BY DEF RingArrays, Keeps
<1> QED
  BY <1>1, <1>2, <1>3 DEF AllMove, RingMoves

LEMMA TakingAllMoves ==
  ASSUME RingArrays, \A e \in OSEventTblAll : OSQEntries[e] \in Int,
         NEW A, \A e \in A : Available(e), TakeAll(A)
  PROVE  AllMove
<1> DEFINE Q == {e \in A : OSEventType[e] = "Q"}
<1>1. /\ OSQOut' = [e \in OSEventTblAll |->
                      IF e \in Q THEN Wrap(OSQOut[e] + 1) ELSE OSQOut[e]]
      /\ OSQEntries' = [e \in OSEventTblAll |-> OSQEntries[e] - (IF e \in Q THEN 1 ELSE 0)]
      /\ OSQIn' = OSQIn /\ OSQStart' = OSQStart
  BY DEF TakeAll
<1>2. RingArrays'
  BY <1>1 DEF RingArrays
<1>3. \A e \in Q : OSQEntries[e] > 0
  BY DEF Available
<1>4. ASSUME NEW e \in OSEventTblAll
      PROVE  RingMoves(e)
  <2> HIDE DEF Q
  <2>1. CASE e \in Q
    BY <1>1, <1>3, <2>1 DEF RingMoves, Takes
  <2>2. CASE e \notin Q
    <3>1. OSQEntries'[e] = OSQEntries[e] - 0
      BY <1>1, <2>2
    <3>2. OSQEntries[e] \in Int => OSQEntries'[e] = OSQEntries[e]
      BY <3>1
    <3> QED
      BY <1>1, <2>2, <3>2 DEF RingMoves, Keeps
  <2> QED
    BY <2>1, <2>2
<1> QED
  BY <1>2, <1>4 DEF AllMove

Counts == \A e \in OSEventTblAll : OSQEntries[e] \in 0..OSQSize

LEMMA EventOfCall ==
  ASSUME NEW c, WellFormed(c),
         c.op \in {"SemAccept", "SemDel", "SemPend", "SemPendAbort", "SemPost", "SemSet",
                   "MboxAccept", "MboxDel", "MboxPend", "MboxPendAbort", "MboxPost",
                   "QAccept", "QDel", "QFlush", "QPend", "QPendAbort", "QPost",
                   "SemCreate", "MboxCreate", "QCreate"}
  PROVE  c.ev \in OSEventTblAll
<1>1. CASE c.op \in {"SemCreate", "MboxCreate", "QCreate"}
  BY <1>1 DEF WellFormed
<1>2. CASE c.op \in {"SemAccept", "SemDel", "SemPend", "SemPendAbort", "SemPost", "SemSet"}
  BY <1>2 DEF WellFormed, TypeFor
<1>3. CASE c.op \in {"MboxAccept", "MboxDel", "MboxPend", "MboxPendAbort", "MboxPost"}
  BY <1>3 DEF WellFormed, TypeFor
<1>4. CASE c.op \in {"QAccept", "QDel", "QFlush", "QPend", "QPendAbort", "QPost"}
  BY <1>4 DEF WellFormed, TypeFor
<1> QED
  BY <1>1, <1>2, <1>3, <1>4

(* Every service moves every ring.                                         *)
LEMMA CommonMoves ==
  ASSUME RingArrays, Counts, NEW c, WellFormed(c), Common(c)
  PROVE  AllMove
<1>1. CASE c.op = "QAccept" /\ OSQAccept(c.ev)
  <2>1. c.ev \in OSEventTblAll
    BY <1>1, EventOfCall
  <2>2. (OSQEntries[c.ev] > 0 /\ QTake(c.ev)) \/ UNCHANGED qVars
    BY <1>1 DEF OSQAccept
  <2> QED
    BY <2>1, <2>2, TakingMoves, KeepingMoves
<1>2. CASE c.op = "QPost" /\ OSQPost(c.ev, c.msg, c.front, c.all)
  <2>1. c.ev \in OSEventTblAll /\ c.msg \in Word
    BY <1>2, EventOfCall DEF WellFormed, Word
  <2>2. \/ ~(OSQEntries[c.ev] >= OSQSize) /\ (QPutFront(c.ev, c.msg) \/ QPutBack(c.ev, c.msg))
        \/ UNCHANGED qVars
    BY <1>2 DEF OSQPost
  <2>3. OSQEntries[c.ev] < OSQSize \/ OSQEntries[c.ev] >= OSQSize
    BY <2>1, QAssumption DEF Counts
  <2> QED
    BY <2>1, <2>2, <2>3, PuttingMoves, KeepingMoves
<1>3. CASE c.op = "QFlush" /\ OSQFlush(c.ev)
  <2>1. c.ev \in OSEventTblAll
    BY <1>3, EventOfCall
  <2> QED
    BY <1>3, <2>1, EmptyingMoves DEF OSQFlush
<1>4. CASE c.op = "QPendAbort" /\ OSQPendAbort(c.ev, c.all)
  BY <1>4, KeepingMoves DEF OSQPendAbort
<1>5. CASE UNCHANGED qVars
  BY <1>5, KeepingMoves
<1> QED
  BY <1>1, <1>2, <1>3, <1>4, <1>5 DEF Common, ForSem, ForQ, ForFlag, ForTask

LEMMA TaskMoves ==
  ASSUME RingArrays, Counts, NEW t, WellFormed(call[t]), TaskSection(t)
  PROVE  AllMove
<1> DEFINE c == call[t]
<1>1. CASE c.op = "QPend" /\ OSQPend(t, c.ev, c.timeout)
  <2>1. c.ev \in OSEventTblAll
    BY <1>1, EventOfCall
  <2>2. (OSQEntries[c.ev] > 0 /\ QTake(c.ev)) \/ UNCHANGED qVars
    BY <1>1 DEF OSQPend, OSQAccept
  <2> QED
    BY <2>1, <2>2, TakingMoves, KeepingMoves
<1>2. CASE c.op = "QCreate" /\ OSQCreate(t, c.ev)
  <2>1. c.ev \in OSEventTblAll
    BY <1>2, EventOfCall DEF WellFormed
  <2>2. \/ /\ OSQIn' = [OSQIn EXCEPT ![c.ev] = 0]
           /\ OSQOut' = [OSQOut EXCEPT ![c.ev] = 0]
           /\ OSQEntries' = [OSQEntries EXCEPT ![c.ev] = 0]
           /\ OSQStart' = OSQStart
        \/ UNCHANGED qVars
    BY <1>2 DEF OSQCreate, qVars
  <2> QED
    BY <2>1, <2>2, EmptyingMoves, KeepingMoves
<1>3. CASE c.op = "QDel" /\ OSQDel(t, c.ev, c.all)
  BY <1>3, KeepingMoves DEF OSQDel
<1>4. CASE c.op = "PendMulti" /\ OSEventPendMulti(t, c.evs, c.timeout)
  <2>1. CASE \E A \in SUBSET {e \in c.evs : Available(e)} : TakeAll(A)
    <3>1. PICK A : (\A e \in A : Available(e)) /\ TakeAll(A)
      BY <2>1
    <3>2. \A e \in OSEventTblAll : OSQEntries[e] \in Int
      BY QAssumption DEF Counts
    <3> QED
      BY <3>1, <3>2, TakingAllMoves
  <2>2. CASE OS_EventTaskWaitMulti(t, c.evs, c.timeout)
    <3>1. UNCHANGED qVars
      BY <2>2 DEF OS_EventTaskWaitMulti
    <3> QED
      BY <3>1, KeepingMoves
  <2> QED
    BY <1>4, <2>1, <2>2 DEF OSEventPendMulti
<1>5. CASE UNCHANGED qVars
  BY <1>5, KeepingMoves
<1> QED
  BY <1>1, <1>2, <1>3, <1>4, <1>5 DEF TaskSection, ForSem, ForQ, ForFlag, ForTask

LEMMA LaterMoves ==
  ASSUME RingArrays, NEW t, LaterSection(t)
  PROVE  AllMove
<1> DEFINE c == call[t]
<1>1. CASE PendMultiReturn(t, c.evs)
  <2>1. UNCHANGED qVars
    BY <1>1 DEF PendMultiReturn
  <2> QED
    BY <2>1, KeepingMoves
<1>2. CASE UNCHANGED qVars
  BY <1>2, KeepingMoves
<1> QED
  BY <1>1, <1>2 DEF LaterSection, ForSem, ForQ, ForFlag, ForTask

-----------------------------------------------------------------------------
(* Calls: what a task is about to execute is well formed.                  *)
CallsOK ==
  \A t \in OSTCBTbl :
    /\ pc[t] = "enter" => WellFormed(call[t])
    /\ pc[t] \in {"create", "link"} => call[t].prio \in Prio

CallsInv ==
  /\ app \in Apps
  /\ pc = [t \in OSTCBTbl |-> pc[t]]
  /\ call = [t \in OSTCBTbl |-> call[t]]
  /\ code \in [OSTCBTbl -> Prio]
  /\ CallsOK

Calm == {"app", "sched", "pend", "resume"}

(* What the end of most sections does to the task that executes it.        *)
Settles(t) ==
  /\ \E x \in Calm : pc' = [pc EXCEPT ![t] = x]
  /\ call' = call \/ call' = [call EXCEPT ![t] = NULL]
  /\ app' = app /\ code' = code

LEMMA SettlingKeepsCalls ==
  ASSUME CallsInv, NEW t \in OSTCBTbl, Settles(t)
  PROVE  CallsInv'
<1>1. PICK x \in Calm : pc' = [pc EXCEPT ![t] = x]
  BY DEF Settles
<1>2. /\ app' \in Apps /\ code' \in [OSTCBTbl -> Prio]
      /\ pc' = [u \in OSTCBTbl |-> pc'[u]]
      /\ call' = [u \in OSTCBTbl |-> call'[u]]
  BY <1>1 DEF CallsInv, Settles
<1>3. pc'[t] \in Calm
  BY <1>1 DEF CallsInv
<1>4. \A u \in OSTCBTbl : u # t => pc'[u] = pc[u] /\ call'[u] = call[u]
  BY <1>1 DEF CallsInv, Settles
<1>5. CallsOK'
  <2> SUFFICES ASSUME NEW u \in OSTCBTbl
               PROVE  /\ pc'[u] = "enter" => WellFormed(call'[u])
                      /\ pc'[u] \in {"create", "link"} => call'[u].prio \in Prio
    BY DEF CallsOK, WellFormed
  <2>1. CASE u = t
    BY <1>3, <2>1 DEF Calm
  <2>2. CASE u # t
    BY <1>4, <2>2 DEF CallsInv, CallsOK
  <2> QED
    BY <2>1, <2>2
<1> QED
  BY <1>2, <1>5 DEF CallsInv

LEMMA ReturnSettles == \A t, r : Return(t, r) => Settles(t)
  BY DEF Return, Settles, Calm

LEMMA UnscheduledSettles == \A t, r : ReturnUnscheduled(t, r) => Settles(t)
  BY DEF ReturnUnscheduled, Settles, Calm

LEMMA WaitSettles == \A t, e, bit, timeout : OS_EventTaskWait(t, e, bit, timeout) => Settles(t)
  BY DEF OS_EventTaskWait, Settles, Calm

(* All but the creation and the deletion of tasks settles.                 *)
LEMMA TaskSettles ==
  ASSUME NEW t, TaskSection(t)
  PROVE  \/ Settles(t)
         \/ call[t].op = "TaskCreate" /\ OSTaskCreate(t, call[t].prio)
         \/ OSTaskDel(t, call[t].prio)
<1> DEFINE c == call[t]
<1>1. CASE \/ OSSemPend(t, c.ev, c.timeout) \/ OSMboxPend(t, c.ev, c.timeout)
           \/ OSQPend(t, c.ev, c.timeout)
  BY <1>1, ReturnSettles, WaitSettles DEF OSSemPend, OSMboxPend, OSQPend
<1>2. CASE \/ OSSemCreate(t, c.ev, c.cnt) \/ OSMboxCreate(t, c.ev, c.msg) \/ OSQCreate(t, c.ev)
  BY <1>2, ReturnSettles DEF OSSemCreate, OSMboxCreate, OSQCreate, EventCreate
<1>3. CASE \/ OSSemDel(t, c.ev, c.all) \/ OSMboxDel(t, c.ev, c.all) \/ OSQDel(t, c.ev, c.all)
  BY <1>3, ReturnSettles DEF OSSemDel, OSMboxDel, OSQDel, EventDel
<1>4. CASE OSEventPendMulti(t, c.evs, c.timeout)
  BY <1>4, ReturnSettles DEF OSEventPendMulti, OS_EventTaskWaitMulti, Settles, Calm
<1>5. CASE OSFlagPend(t, c.wait, c.timeout)
  BY <1>5, ReturnSettles DEF OSFlagPend, OS_FlagBlock, Settles, Calm
<1>6. CASE OSFlagCreate(t, c.grp, c.flags) \/ OSFlagDel(t, c.grp, c.all)
  BY <1>6, ReturnSettles DEF OSFlagCreate, OSFlagDel
<1>7. CASE OSMutexAccept(t, c.ev) \/ OSMutexPend(t, c.ev, c.timeout)
  BY <1>7, ReturnSettles DEF OSMutexAccept, OSMutexPend, MutexWait, Settles, Calm
<1>8. CASE \/ OSMutexPost(t, c.ev) \/ OSMutexCreate(t, c.ev, c.pip) \/ OSMutexDel(t, c.ev, c.all)
  BY <1>8, ReturnSettles, UnscheduledSettles DEF OSMutexPost, OSMutexCreate, OSMutexDel
<1>9. CASE \/ OSTimeDly(t, c.timeout) \/ OSTaskChangePrio(t, c.prio, c.newprio)
           \/ OSTaskDelReq(t, c.prio)
  BY <1>9, ReturnSettles DEF OSTimeDly, OSTaskChangePrio, OSTaskDelReq
<1>10. CASE OSSchedLock(t) \/ OSSchedUnlock(t)
  BY <1>10 DEF OSSchedLock, OSSchedUnlock, Settles, Calm
<1> QED
  BY <1>1, <1>2, <1>3, <1>4, <1>5, <1>6, <1>7, <1>8, <1>9, <1>10 DEF TaskSection

LEMMA CreateKeepsCalls ==
  ASSUME CallsInv, NEW t \in OSTCBTbl, pc[t] = "enter", call[t].op = "TaskCreate",
         OSTaskCreate(t, call[t].prio)
  PROVE  CallsInv'
<1>1. CASE Return(t, FALSE)
  BY <1>1, ReturnSettles, SettlingKeepsCalls
<1>2. CASE pc' = [pc EXCEPT ![t] = "create"] /\ UNCHANGED <<app, call, code>>
  <2>1. /\ app' \in Apps /\ code' \in [OSTCBTbl -> Prio]
        /\ pc' = [u \in OSTCBTbl |-> pc'[u]] /\ call' = [u \in OSTCBTbl |-> call'[u]]
    BY <1>2 DEF CallsInv
  <2>2. call[t].prio \in Prio
    BY DEF CallsInv, CallsOK, WellFormed
  <2>3. pc'[t] = "create" /\ \A u \in OSTCBTbl : u # t => pc'[u] = pc[u]
    BY <1>2 DEF CallsInv
  <2>4. CallsOK'
    <3> SUFFICES ASSUME NEW u \in OSTCBTbl
                 PROVE  /\ pc'[u] = "enter" => WellFormed(call'[u])
                        /\ pc'[u] \in {"create", "link"} => call'[u].prio \in Prio
      BY DEF CallsOK, WellFormed
    <3> QED
      BY <1>2, <2>2, <2>3 DEF CallsInv, CallsOK
  <2> QED
    BY <2>1, <2>4 DEF CallsInv
<1> QED
  BY <1>1, <1>2 DEF OSTaskCreate

LEMMA DeleteKeepsCalls ==
  ASSUME CallsInv, NEW t \in OSTCBTbl, NEW prio, OSTaskDel(t, prio)
  PROVE  CallsInv'
<1>1. CASE Return(t, FALSE)
  BY <1>1, ReturnSettles, SettlingKeepsCalls
<1>2. CASE ~Return(t, FALSE)
  <2>1. PICK u, c : /\ pc' = [pc EXCEPT ![u] = "free", ![t] = "delete"]
                    /\ call' = [call EXCEPT ![u] = NULL, ![t] = c]
                    /\ UNCHANGED <<app, code>>
    <3> DEFINE p == OfPrio(t, prio)
               u == OSTCBPrioTbl[p]
               c == [op |-> "TaskDel", prio |-> p, tcb |-> u]
    <3>1. /\ pc' = [pc EXCEPT ![u] = "free", ![t] = "delete"]
          /\ call' = [call EXCEPT ![u] = NULL, ![t] = c]
          /\ UNCHANGED <<app, code>>
      BY <1>2 DEF OSTaskDel
    <3> HIDE DEF u, c
    <3> QED
      BY <3>1
  <2>2. /\ app' \in Apps /\ code' \in [OSTCBTbl -> Prio]
        /\ pc' = [v \in OSTCBTbl |-> pc'[v]] /\ call' = [v \in OSTCBTbl |-> call'[v]]
    BY <2>1 DEF CallsInv
  <2>3. \A v \in OSTCBTbl : \/ pc'[v] \in {"free", "delete"}
                            \/ pc'[v] = pc[v] /\ call'[v] = call[v]
    BY <2>1 DEF CallsInv
  <2>4. CallsOK'
    <3> SUFFICES ASSUME NEW v \in OSTCBTbl
                 PROVE  /\ pc'[v] = "enter" => WellFormed(call'[v])
                        /\ pc'[v] \in {"create", "link"} => call'[v].prio \in Prio
      BY DEF CallsOK, WellFormed
    <3> QED
      BY <2>3 DEF CallsInv, CallsOK
  <2> QED
    BY <2>2, <2>4 DEF CallsInv
<1> QED
  BY <1>1, <1>2

LEMMA CallKeepsCalls ==
  ASSUME CallsInv, NEW t \in OSTCBTbl, Call(t)
  PROVE  CallsInv'
<1>1. PICK c \in app.calls[code[t]] : call' = [call EXCEPT ![t] = c]
  BY DEF Call
<1>2. WellFormed(c)
  BY <1>1, AppsAssumption DEF CallsInv
<1>3. /\ pc' = [pc EXCEPT ![t] = "enter"] /\ app' = app /\ code' = code
  BY DEF Call
<1>4. /\ app' \in Apps /\ code' \in [OSTCBTbl -> Prio]
      /\ pc' = [u \in OSTCBTbl |-> pc'[u]] /\ call' = [u \in OSTCBTbl |-> call'[u]]
  BY <1>1, <1>3 DEF CallsInv
<1>5. /\ pc'[t] = "enter" /\ call'[t] = c
      /\ \A u \in OSTCBTbl : u # t => pc'[u] = pc[u] /\ call'[u] = call[u]
  BY <1>1, <1>3 DEF CallsInv
<1>6. CallsOK'
  <2> SUFFICES ASSUME NEW u \in OSTCBTbl
               PROVE  /\ pc'[u] = "enter" => WellFormed(call'[u])
                      /\ pc'[u] \in {"create", "link"} => call'[u].prio \in Prio
    BY DEF CallsOK, WellFormed
  <2> QED
    BY <1>2, <1>5 DEF CallsInv, CallsOK
<1> QED
  BY <1>4, <1>6 DEF CallsInv

LEMMA TakeKeepsCalls ==
  ASSUME CallsInv, NEW t \in OSTCBTbl, TCBInitTake(t, call[t].prio)
  PROVE  CallsInv'
<1> DEFINE p == call[t].prio
<1>1. CASE Return(t, FALSE)
  BY <1>1, ReturnSettles, SettlingKeepsCalls
<1>2. CASE \E u : /\ call' = [call EXCEPT ![t] = [op |-> "TCBInit", prio |-> p, tcb |-> u]]
                  /\ pc' = [pc EXCEPT ![t] = "link"]
                  /\ app' = app /\ code' = code
  <2>1. p \in Prio
    BY DEF CallsInv, CallsOK, TCBInitTake
  <2>2. PICK u : /\ call' = [call EXCEPT ![t] = [op |-> "TCBInit", prio |-> p, tcb |-> u]]
                 /\ pc' = [pc EXCEPT ![t] = "link"]
                 /\ app' = app /\ code' = code
    BY <1>2
  <2>3. /\ app' \in Apps /\ code' \in [OSTCBTbl -> Prio]
        /\ pc' = [v \in OSTCBTbl |-> pc'[v]] /\ call' = [v \in OSTCBTbl |-> call'[v]]
    BY <2>2 DEF CallsInv
  <2>4. /\ pc'[t] = "link" /\ call'[t].prio = p
        /\ \A v \in OSTCBTbl : v # t => pc'[v] = pc[v] /\ call'[v] = call[v]
    BY <2>2 DEF CallsInv
  <2>5. CallsOK'
    <3> SUFFICES ASSUME NEW v \in OSTCBTbl
                 PROVE  /\ pc'[v] = "enter" => WellFormed(call'[v])
                        /\ pc'[v] \in {"create", "link"} => call'[v].prio \in Prio
      BY DEF CallsOK, WellFormed
    <3> QED
      BY <2>1, <2>4 DEF CallsInv, CallsOK
  <2> QED
    BY <2>3, <2>5 DEF CallsInv
<1> QED
  BY <1>1, <1>2 DEF TCBInitTake

LEMMA LinkKeepsCalls ==
  ASSUME CallsInv, NEW t \in OSTCBTbl, NEW u, TCBInitLink(t, call[t].prio, u)
  PROVE  CallsInv'
<1> DEFINE p == call[t].prio
<1>1. p \in Prio
  BY DEF CallsInv, CallsOK, TCBInitLink
<1>2. /\ pc' = [pc EXCEPT ![t] = "sched", ![u] = "app"]
      /\ call' = [call EXCEPT ![t] = NULL, ![u] = NULL]
      /\ code' = [code EXCEPT ![u] = p] /\ app' = app
  BY DEF TCBInitLink
<1>3. /\ app' \in Apps /\ code' \in [OSTCBTbl -> Prio]
      /\ pc' = [v \in OSTCBTbl |-> pc'[v]] /\ call' = [v \in OSTCBTbl |-> call'[v]]
  BY <1>1, <1>2 DEF CallsInv
<1>4. \A v \in OSTCBTbl : \/ pc'[v] \in {"sched", "app"}
                          \/ pc'[v] = pc[v] /\ call'[v] = call[v]
  BY <1>2 DEF CallsInv
<1>5. CallsOK'
  <2> SUFFICES ASSUME NEW v \in OSTCBTbl
               PROVE  /\ pc'[v] = "enter" => WellFormed(call'[v])
                      /\ pc'[v] \in {"create", "link"} => call'[v].prio \in Prio
    BY DEF CallsOK, WellFormed
  <2> QED
    BY <1>4 DEF CallsInv, CallsOK
<1> QED
  BY <1>3, <1>5 DEF CallsInv

LEMMA LaterKeepsCalls ==
  ASSUME CallsInv, NEW t \in OSTCBTbl, LaterSection(t)
  PROVE  CallsInv'
<1> DEFINE c == call[t]
<1>1. CASE PendReturn(t, c.ev) \/ PendMultiReturn(t, c.evs) \/ FlagPendReturn(t, c.wait)
  BY <1>1, ReturnSettles, SettlingKeepsCalls DEF PendReturn, PendMultiReturn, FlagPendReturn
<1>2. CASE TCBInitTake(t, c.prio)
  BY <1>2, TakeKeepsCalls
<1>3. CASE TCBInitLink(t, c.prio, c.tcb)
  BY <1>3, LinkKeepsCalls
<1>4. CASE TaskDelEnd(t, c.prio, c.tcb)
  <2>1. Settles(t)
    BY <1>4 DEF TaskDelEnd, Settles, Calm
  <2> QED
    BY <2>1, SettlingKeepsCalls
<1> QED
  BY <1>1, <1>2, <1>3, <1>4 DEF LaterSection

LEMMA CallsInit == Init => CallsInv
<1> SUFFICES ASSUME Init
             PROVE  CallsInv
  OBVIOUS
<1>1. app \in Apps
  BY DEF Init
<1>2. /\ pc = [t \in OSTCBTbl |-> IF t \in app.tasks THEN "app" ELSE "free"]
      /\ call = [t \in OSTCBTbl |-> NULL] /\ code = [t \in OSTCBTbl |-> t]
  BY DEF Init
<1>3. code \in [OSTCBTbl -> Prio]
  BY <1>2, CoreAssumption
<1>4. /\ pc = [t \in OSTCBTbl |-> pc[t]] /\ call = [t \in OSTCBTbl |-> call[t]]
  BY <1>2
<1>5. \A t \in OSTCBTbl : pc[t] \in {"app", "free"}
  BY <1>2
<1>6. CallsOK
  BY <1>5 DEF CallsOK
<1> QED
  BY <1>1, <1>3, <1>4, <1>6 DEF CallsInv

-----------------------------------------------------------------------------
(* The invariant of the whole kernel.                                      *)
RingInv ==
  /\ CallsInv
  /\ RingArrays
  /\ \A e \in OSEventTblAll : RingOK(e)

LEMMA RingInit == Init => RingInv /\ \A e \in OSEventTblAll : Fifo(e)!Init
<1> SUFFICES ASSUME Init
             PROVE  RingInv /\ \A e \in OSEventTblAll : Fifo(e)!Init
  OBVIOUS
<1>1. /\ OSQIn = [e \in OSEventTblAll |-> 0]
      /\ OSQOut = [e \in OSEventTblAll |-> 0]
      /\ OSQEntries = [e \in OSEventTblAll |-> 0]
      /\ OSQStart = [e \in OSEventTblAll |-> [i \in Slots |-> NULL]]
  BY DEF Init, QInit
<1>2. RingArrays
  BY <1>1 DEF RingArrays
<1>3. ASSUME NEW e \in OSEventTblAll
      PROVE  RingOK(e)
  <2>1. OSQIn[e] = 0 /\ OSQOut[e] = 0 /\ OSQEntries[e] = 0 /\ OSQStart[e] \in [Slots -> Word]
    BY <1>1 DEF Word
  <2> QED
    BY <2>1, InStepEmpty DEF RingOK
<1>4. ASSUME NEW e \in OSEventTblAll
      PROVE  Fifo(e)!Init
  <2>1. OSQEntries[e] = 0
    BY <1>1
  <2> QED
    BY <2>1 DEF Fifo!Init, QContents
<1> QED
  BY <1>2, <1>3, <1>4, CallsInit DEF RingInv

LEMMA StepMoves ==
  ASSUME RingInv, NEW t \in OSTCBTbl, Step(t)
  PROVE  AllMove /\ CallsInv'
<1>1. RingArrays /\ Counts /\ CallsInv
  BY DEF RingInv, Counts, RingOK, InStep
<1>2. pc[t] = "enter" => WellFormed(call[t])
  BY <1>1 DEF CallsInv, CallsOK
<1>3. CASE Call(t)
  <2>1. UNCHANGED qVars
    BY <1>3 DEF Call
  <2> QED
    BY <1>1, <1>3, <2>1, KeepingMoves, CallKeepsCalls
<1>4. CASE CommonSection(t)
  <2>1. Settles(t)
    BY <1>4, ReturnSettles, UnscheduledSettles DEF CommonSection
  <2>2. WellFormed(call[t]) /\ Common(call[t])
    BY <1>2, <1>4 DEF CommonSection, Running
  <2> QED
    BY <1>1, <2>1, <2>2, CommonMoves, SettlingKeepsCalls
<1>5. CASE TaskSection(t)
  <2>1. pc[t] = "enter" /\ WellFormed(call[t])
    BY <1>2, <1>5 DEF TaskSection, Running
  <2>2. AllMove
    BY <1>1, <1>5, <2>1, TaskMoves
  <2>3. CallsInv'
    BY <1>1, <1>5, <2>1, TaskSettles, SettlingKeepsCalls, CreateKeepsCalls, DeleteKeepsCalls
  <2> QED
    BY <2>2, <2>3
<1>6. CASE LaterSection(t)
  BY <1>1, <1>6, LaterMoves, LaterKeepsCalls
<1>7. CASE Reschedule(t)
  <2>1. UNCHANGED qVars
    BY <1>7 DEF Reschedule
  <2>2. Settles(t)
    BY <1>7 DEF Reschedule, OS_Sched, Settles, Calm
  <2> QED
    BY <1>1, <2>1, <2>2, KeepingMoves, SettlingKeepsCalls
<1> QED
  BY <1>3, <1>4, <1>5, <1>6, <1>7 DEF Step

LEMMA NextMoves ==
  ASSUME RingInv, [Next]_vars
  PROVE  AllMove /\ CallsInv'
<1>1. RingArrays /\ Counts /\ CallsInv
  BY DEF RingInv, Counts, RingOK, InStep
<1>2. ASSUME UNCHANGED <<app, ctlVars>>
      PROVE  CallsInv'
  <2>1. app' = app /\ pc' = pc /\ call' = call /\ code' = code
    BY <1>2 DEF ctlVars
  <2> QED
    BY <1>1, <2>1 DEF CallsInv, CallsOK, WellFormed
<1>3. CASE Tick
  <2>1. UNCHANGED qVars /\ UNCHANGED <<app, ctlVars>>
    BY <1>3 DEF Tick, OSIntExit
  <2> QED
    BY <1>1, <1>2, <2>1, KeepingMoves
<1>4. CASE Interrupt
  <2>1. PICK c \in app.isr : Common(c) /\ OSIntExit
    BY <1>4 DEF Interrupt
  <2>2. WellFormed(c)
    BY <1>1, AppsAssumption DEF CallsInv
  <2>3. UNCHANGED <<app, ctlVars>>
    BY <2>1 DEF OSIntExit
  <2> QED
    BY <1>1, <1>2, <2>1, <2>2, <2>3, CommonMoves
<1>5. CASE \E t \in OSTCBTbl : Step(t)
  BY <1>5, StepMoves
<1>6. CASE UNCHANGED vars
  <2>1. UNCHANGED qVars /\ UNCHANGED <<app, ctlVars>>
    BY <1>6 DEF vars
  <2> QED
    BY <1>1, <1>2, <2>1, KeepingMoves
<1> QED
  BY <1>3, <1>4, <1>5, <1>6 DEF Next

LEMMA RingNext ==
  ASSUME RingInv, [Next]_vars
  PROVE  RingInv' /\ \A e \in OSEventTblAll : [Fifo(e)!Next]_(QContents(e))
<1>1. AllMove /\ CallsInv'
  BY NextMoves
<1>2. ASSUME NEW e \in OSEventTblAll
      PROVE  RingOK(e)' /\ [Fifo(e)!Next]_(QContents(e))
  BY <1>1, RingStep DEF RingInv, AllMove
<1>3. RingInv'
  BY <1>1, <1>2 DEF RingInv, AllMove
<1> QED
  BY <1>2, <1>3

(* Every queue of the kernel (os_q.c) is a first-in first-out sequence of   *)
(* at most OSQSize messages, whatever the tasks and interrupts call and     *)
(* however their sections interleave: each step leaves it, takes its head,  *)
(* adds at one of its ends or empties it.                                   *)
THEOREM QueuesFifoCorrect == Spec => QueuesAreFifo
<1> DEFINE AllInit == \A e \in OSEventTblAll : Fifo(e)!Init
           AllNext == \A e \in OSEventTblAll : [Fifo(e)!Next]_(QContents(e))
<1>1. Init => RingInv /\ AllInit
  BY RingInit
<1>2. RingInv /\ [Next]_vars => RingInv'
  BY RingNext
<1>3. RingInv /\ [Next]_vars => AllNext
  BY RingNext
<1> HIDE DEF AllInit, AllNext
<1>4. Spec => AllInit /\ [][AllNext]_vars
  BY <1>1, <1>2, <1>3, PTL DEF Spec
<1> QED
  BY <1>4 DEF QueuesAreFifo, AllInit, AllNext

-----------------------------------------------------------------------------
(* Fixed tasks                                                             *)

(* Tasks are created before OSStart only and keep their priorities, as in  *)
(* the firmware of Lab 5.                                                  *)
FixedTasks ==
  \A p \in Prio : \A c \in app.calls[p] :
    c.op \notin {"TaskCreate", "TaskDel", "ChangePrio", "MutexAccept", "MutexPend",
                 "MutexPost", "MutexCreate", "MutexDel"}

Tasks == app.tasks

(* Where a task stands, and with which call.                               *)
Controlled ==
  /\ app \in Apps
  /\ pc = [t \in OSTCBTbl |-> pc[t]] /\ call = [t \in OSTCBTbl |-> call[t]]
  /\ code = [t \in OSTCBTbl |-> t]
  /\ \A t \in OSTCBTbl :
       /\ pc[t] \in {"app", "enter", "sched", "pend", "resume", "free"}
       /\ pc[t] # "free" <=> t \in Tasks
       /\ pc[t] \in {"enter", "pend", "resume"} => call[t] \in app.calls[t]

Tabled ==
  /\ OSTCBPrio = [t \in OSTCBTbl |-> t]
  /\ \A p \in Tasks : OSTCBPrioTbl[p] = p
  /\ \A p \in Prio : OSTCBPrioTbl[p] \in OSTCBTbl => p \in Tasks

OnCpu ==
  /\ OSTCBCur = OSPrioCur /\ OSTCBCur \in Tasks
  /\ OSLockNesting \in 0..255
  /\ deferred \in BOOLEAN

(* Every table of tasks names tasks that exist, and the idle task is ready. *)
Lists ==
  /\ OSRdyTbl \subseteq Tasks /\ Idle \in OSRdyTbl
  /\ OSEventTbl = [e \in OSEventTblAll |-> OSEventTbl[e]]
  /\ \A e \in OSEventTblAll : OSEventTbl[e] \subseteq Tasks
  /\ OSTCBDly = [t \in OSTCBTbl |-> OSTCBDly[t]]
  /\ \A t \in OSTCBTbl : OSTCBDly[t] # 0 => t \in Tasks
  /\ OSTCBFlagNode = [t \in OSTCBTbl |-> OSTCBFlagNode[t]]
  /\ \A t \in OSTCBTbl : OSTCBFlagNode[t] # NULL => t \in Tasks

FixedInv == Controlled /\ Tabled /\ OnCpu /\ Lists

-----------------------------------------------------------------------------
LEMMA HighestIs ==
  ASSUME NEW S, S \subseteq Prio, S # {}
  PROVE  Highest(S) \in S /\ \A q \in S : Highest(S) <= q
<1>1. S \subseteq Nat
  BY CoreAssumption DEF Prio
<1>2. PICK p \in S : \A q \in S : ~ (<<q, p>> \in OpToRel(<, Nat))
  BY <1>1, WFMin, NatLessThanWellFounded
<1>3. \A q \in S : ~ (q < p)
  BY <1>1, <1>2 DEF OpToRel
<1>4. \A q \in S : p <= q
  BY <1>1, <1>3
<1> QED
  BY <1>4 DEF Highest

LEMMA HighestBy ==
  ASSUME NEW S, S \subseteq Prio, NEW p \in S, \A q \in S : p <= q
  PROVE  Highest(S) = p
<1>1. Highest(S) \in S /\ Highest(S) <= p
  BY HighestIs
<1>2. p <= Highest(S)
  BY <1>1
<1>3. p \in Prio /\ Highest(S) \in Prio
  BY <1>1
<1>4. p \in Int /\ Highest(S) \in Int
  BY <1>3, CoreAssumption DEF Prio
<1> QED
  BY <1>1, <1>2, <1>4

LEMMA TasksArePrios ==
  ASSUME app \in Apps
  PROVE  /\ Tasks \subseteq OSTCBTbl /\ Tasks \subseteq Prio /\ Idle \in Tasks
         /\ OSTCBTbl \subseteq Prio
         /\ \A p \in Prio : \A c \in app.calls[p] : WellFormed(c)
         /\ \A c \in app.isr : WellFormed(c)
         /\ app.calls[Idle] = {}
  BY AppsAssumption, CoreAssumption DEF Tasks

(* The end of the scheduler, with the ready table R.                       *)
LEMMA SwitchFinds ==
  ASSUME FixedInv, NEW R, R \subseteq Tasks, R # {}, Switch(R)
  PROVE  /\ OSTCBCur' = OSPrioCur' /\ OSTCBCur' \in Tasks
         /\ OSLockNesting = 0 => OSTCBCur' = Highest(R)
<1>1. R \subseteq Prio /\ Highest(R) \in R
  BY TasksArePrios, HighestIs DEF FixedInv, Controlled
<1>2. OSTCBPrioTbl[Highest(R)] = Highest(R)
  BY <1>1 DEF FixedInv, Tabled
<1> QED
  BY <1>1, <1>2 DEF Switch, FixedInv, OnCpu, cpuVars

-----------------------------------------------------------------------------
(* What the parts of the services do to the tables.                        *)
Unraised(t) == OSRdyTbl' = OSRdyTbl \/ \E p : p # t /\ OSRdyTbl' = OSRdyTbl \ {p}

LEMMA PostLists ==
  ASSUME FixedInv, NEW e, NEW W, W \subseteq Tasks, NEW msg, NEW msk, NEW pend,
         OS_EventTaskRdy(OSRdyTbl, e, W, msg, msk, pend), app' = app,
         UNCHANGED OSTCBFlagNode
  PROVE  Lists'
<1> DEFINE T == {OSTCBPrioTbl[p] : p \in W} \cap OSTCBTbl
           Leaves(f) == {t \in T : f = e \/ f \in OSTCBEventMultiPtr[t]}
<1>1. T \subseteq Tasks /\ \A t \in T : OSTCBPrio[t] = t
  BY DEF FixedInv, Tabled
<1>2. /\ OSTCBDly' = [t \in OSTCBTbl |-> IF t \in T THEN 0 ELSE OSTCBDly[t]]
      /\ OSRdyTbl' = OSRdyTbl \cup {OSTCBPrio[t] : t \in {u \in T : "SUSPEND" \notin OSTCBStat[u]}}
      /\ OSEventTbl' = [f \in OSEventTblAll |->
           OSEventTbl[f] \ {OSTCBPrio[t] : t \in Leaves(f)}]
  BY DEF OS_EventTaskRdy
<1>3. Tasks' = Tasks
  BY DEF Tasks
<1> HIDE DEF T, Leaves
<1>4. OSRdyTbl' \subseteq Tasks /\ Idle \in OSRdyTbl'
  BY <1>1, <1>2 DEF FixedInv, Lists
<1>5. /\ OSEventTbl' = [f \in OSEventTblAll |-> OSEventTbl'[f]]
      /\ \A f \in OSEventTblAll : OSEventTbl'[f] \subseteq Tasks
  BY <1>2 DEF FixedInv, Lists
<1>6. /\ OSTCBDly' = [t \in OSTCBTbl |-> OSTCBDly'[t]]
      /\ \A t \in OSTCBTbl : OSTCBDly'[t] # 0 => t \in Tasks
  BY <1>1, <1>2 DEF FixedInv, Lists
<1> QED
  BY <1>3, <1>4, <1>5, <1>6 DEF FixedInv, Lists

SameLists == UNCHANGED <<OSRdyTbl, OSEventTbl, OSTCBDly, OSTCBFlagNode>>

LEMMA KeepingLists == Lists /\ SameLists /\ app' = app => Lists'
  BY DEF Lists, SameLists, Tasks

LEMMA WaitersAreTasks ==
  ASSUME FixedInv, NEW e \in OSEventTblAll
  PROVE  /\ OSEventTbl[e] \subseteq Tasks
         /\ Waited(e) => HighestWaiter(e) \subseteq OSEventTbl[e] /\ Highest(OSEventTbl[e]) \in OSEventTbl[e]
<1>1. OSEventTbl[e] \subseteq Tasks /\ Tasks \subseteq Prio
  BY TasksArePrios DEF FixedInv, Controlled, Lists
<1>2. ASSUME Waited(e)
      PROVE  Highest(OSEventTbl[e]) \in OSEventTbl[e]
  BY <1>1, <1>2, HighestIs DEF Waited
<1> QED
  BY <1>1, <1>2 DEF HighestWaiter

LEMMA FlagReadyLists ==
  ASSUME FixedInv, NEW T, T \subseteq {t \in OSTCBTbl : OSTCBFlagNode[t] # NULL}, NEW rdy,
         OS_FlagTaskRdy(T, rdy), app' = app
  PROVE  Lists'
<1>1. T \subseteq Tasks /\ \A t \in T : OSTCBPrio[t] = t
  BY DEF FixedInv, Lists, Tabled
<1>2. /\ OSTCBDly' = [t \in OSTCBTbl |-> IF t \in T THEN 0 ELSE OSTCBDly[t]]
      /\ OSRdyTbl' = OSRdyTbl \cup {OSTCBPrio[t] : t \in {u \in T : OSTCBStat[u] \subseteq {"FLAG"}}}
      /\ OSTCBFlagNode' = [t \in OSTCBTbl |-> IF t \in T THEN NULL ELSE OSTCBFlagNode[t]]
      /\ OSEventTbl' = OSEventTbl
  BY DEF OS_FlagTaskRdy
<1>3. Tasks' = Tasks
  BY DEF Tasks
<1>4. OSRdyTbl' \subseteq Tasks /\ Idle \in OSRdyTbl'
  BY <1>1, <1>2 DEF FixedInv, Lists
<1>5. /\ OSTCBDly' = [t \in OSTCBTbl |-> OSTCBDly'[t]]
      /\ \A t \in OSTCBTbl : OSTCBDly'[t] # 0 => t \in Tasks
      /\ OSTCBFlagNode' = [t \in OSTCBTbl |-> OSTCBFlagNode'[t]]
      /\ \A t \in OSTCBTbl : OSTCBFlagNode'[t] # NULL => t \in Tasks
  BY <1>1, <1>2 DEF FixedInv, Lists
<1> QED
  BY <1>2, <1>3, <1>4, <1>5 DEF FixedInv, Lists

LEMMA TickLists ==
  ASSUME FixedInv, OSTimeTick, app' = app, OSTCBFlagNode' = OSTCBFlagNode
  PROVE  Lists'
<1> DEFINE Ends == {t \in OSTCBTbl \ {Idle} : OSTCBDly[t] = 1}
<1>1. Ends \subseteq Tasks /\ \A t \in Ends : OSTCBPrio[t] = t
  BY DEF FixedInv, Lists, Tabled
<1>2. /\ OSTCBDly' = [t \in OSTCBTbl |->
           IF t # Idle /\ OSTCBDly[t] > 0 THEN OSTCBDly[t] - 1 ELSE OSTCBDly[t]]
      /\ OSRdyTbl' = OSRdyTbl \cup {OSTCBPrio[t] : t \in {u \in Ends : "SUSPEND" \notin OSTCBStat[u]}}
      /\ OSEventTbl' = OSEventTbl
  BY DEF OSTimeTick
<1>3. Tasks' = Tasks
  BY DEF Tasks
<1> HIDE DEF Ends
<1>4. OSRdyTbl' \subseteq Tasks /\ Idle \in OSRdyTbl'
  BY <1>1, <1>2 DEF FixedInv, Lists
<1>5. OSTCBDly' = [t \in OSTCBTbl |-> OSTCBDly'[t]]
  BY <1>2
<1>6. \A t \in OSTCBTbl : OSTCBDly'[t] # 0 => t \in Tasks
  BY <1>2 DEF FixedInv, Lists
<1> QED
  BY <1>2, <1>3, <1>4, <1>5, <1>6 DEF FixedInv, Lists

(* The services on one task: p is a priority other than the idle task's.   *)
LEMMA TaskServiceLists ==
  ASSUME FixedInv, NEW p \in Prio \ {Idle}, app' = app,
         OSTimeDlyResume(p) \/ OSTaskSuspend(p) \/ OSTaskResume(p)
  PROVE  Lists'
<1>1. /\ Exists(p) => p \in Tasks /\ OSTCBPrioTbl[p] = p /\ OSTCBPrio[p] = p
      /\ Tasks' = Tasks
  BY TasksArePrios DEF FixedInv, Controlled, Tabled, Exists, Tasks
<1>2. UNCHANGED <<OSEventTbl, OSTCBFlagNode>>
  BY DEF OSTimeDlyResume, OSTaskSuspend, OSTaskResume, flagVars
<1>3. CASE OSTimeDlyResume(p)
  <2>1. OSRdyTbl' = OSRdyTbl \/ (OSRdyTbl' = OSRdyTbl \cup {p} /\ p \in Tasks)
    <3>1. CASE Exists(p)
      <4>1. OSRdyTbl' = OSRdyTbl \/ OSRdyTbl' = OSRdyTbl \cup {OSTCBPrio[OSTCBPrioTbl[p]]}
        BY <1>3, <3>1 DEF OSTimeDlyResume
      <4> QED
        BY <1>1, <3>1, <4>1
    <3>2. CASE ~Exists(p)
      BY <1>3, <3>2 DEF OSTimeDlyResume
    <3> QED
      BY <3>1, <3>2
  <2>2. OSTCBDly' = OSTCBDly \/ OSTCBDly' = [OSTCBDly EXCEPT ![p] = 0]
    BY <1>1, <1>3 DEF OSTimeDlyResume
  <2>3. /\ OSTCBDly' = [t \in OSTCBTbl |-> OSTCBDly'[t]]
        /\ \A t \in OSTCBTbl : OSTCBDly'[t] # 0 => t \in Tasks
    BY <2>2 DEF FixedInv, Lists
  <2> QED
    BY <1>1, <1>2, <2>1, <2>3 DEF FixedInv, Lists
<1>4. CASE OSTaskSuspend(p)
  <2>1. OSRdyTbl' = OSRdyTbl \/ OSRdyTbl' = OSRdyTbl \ {p}
    BY <1>1, <1>4 DEF OSTaskSuspend
  <2>2. OSTCBDly' = OSTCBDly
    BY <1>4 DEF OSTaskSuspend
  <2> QED
    BY <1>1, <1>2, <2>1, <2>2 DEF FixedInv, Lists
<1>5. CASE OSTaskResume(p)
  <2>1. OSRdyTbl' = OSRdyTbl \/ (OSRdyTbl' = OSRdyTbl \cup {p} /\ p \in Tasks)
    <3>1. CASE ResumeReadies(p)
      <4>1. Exists(p) /\ OSRdyTbl' = OSRdyTbl \cup {OSTCBPrio[OSTCBPrioTbl[p]]}
        BY <1>5, <3>1 DEF OSTaskResume, ResumeReadies
      <4> QED
        BY <1>1, <4>1
    <3>2. CASE ~ResumeReadies(p)
      BY <1>5, <3>2 DEF OSTaskResume
    <3> QED
      BY <3>1, <3>2
  <2>2. OSTCBDly' = OSTCBDly
    BY <1>5 DEF OSTaskResume
  <2> QED
    BY <1>1, <1>2, <2>1, <2>2 DEF FixedInv, Lists
<1> QED
  BY <1>3, <1>4, <1>5

-----------------------------------------------------------------------------
LEMMA ListOfOneOrAll ==
  ASSUME FixedInv, NEW e \in OSEventTblAll, app' = app, OSTCBFlagNode' = OSTCBFlagNode,
         NEW all, NEW msg, NEW bit, NEW pend,
         \/ /\ Waited(e)
            /\ \/ OS_EventTaskRdy(OSRdyTbl, e, OSEventTbl[e], msg, bit, pend)
               \/ OS_EventTaskRdy(OSRdyTbl, e, HighestWaiter(e), msg, bit, pend)
         \/ UNCHANGED waitVars
  PROVE  Lists'
<1>1. CASE Waited(e) /\ OS_EventTaskRdy(OSRdyTbl, e, OSEventTbl[e], msg, bit, pend)
  BY <1>1, WaitersAreTasks, PostLists
<1>2. CASE Waited(e) /\ OS_EventTaskRdy(OSRdyTbl, e, HighestWaiter(e), msg, bit, pend)
  <2>1. HighestWaiter(e) \subseteq Tasks
    BY <1>2, WaitersAreTasks
  <2> QED
    BY <1>2, <2>1, PostLists
<1>3. CASE UNCHANGED waitVars
  BY <1>3, KeepingLists DEF waitVars, pendVars, SameLists, FixedInv
<1> QED
  BY <1>1, <1>2, <1>3

(* What a service has to show: the tables are well formed behind it, and   *)
(* the ready table has grown only if it says so.                           *)
LEMMA CommonLists ==
  ASSUME FixedInv, NEW c, WellFormed(c), Common(c), app' = app
  PROVE  Lists' /\ UNCHANGED taskVars
<1> USE DEF ForSem, ForQ, ForFlag, ForTask, flagVars
<1>1. CASE c.op = "SemPost" /\ OSSemPost(c.ev) /\ ForSem
  <2>1. c.ev \in OSEventTblAll
    BY <1>1, EventOfCall
  <2> QED
    BY <1>1, <2>1, ListOfOneOrAll DEF OSSemPost
<1>2. CASE c.op = "MboxPost" /\ OSMboxPost(c.ev, c.msg, c.all) /\ ForSem
  <2>1. c.ev \in OSEventTblAll
    BY <1>2, EventOfCall
  <2> QED
    BY <1>2, <2>1, ListOfOneOrAll DEF OSMboxPost
<1>3. CASE c.op = "QPost" /\ OSQPost(c.ev, c.msg, c.front, c.all) /\ ForQ
  <2>1. c.ev \in OSEventTblAll
    BY <1>3, EventOfCall
  <2> QED
    BY <1>3, <2>1, ListOfOneOrAll DEF OSQPost
<1>4. CASE \/ c.op = "SemPendAbort" /\ OSSemPendAbort(c.ev, c.all) /\ ForSem
           \/ c.op = "MboxPendAbort" /\ OSMboxPendAbort(c.ev, c.all) /\ ForSem
           \/ c.op = "QPendAbort" /\ OSQPendAbort(c.ev, c.all) /\ ForQ
  <2>1. c.ev \in OSEventTblAll
    BY <1>4, EventOfCall
  <2>2. PICK bit : PendAbort(c.ev, c.all, bit)
    BY <1>4 DEF OSSemPendAbort, OSMboxPendAbort, OSQPendAbort
  <2> QED
    BY <1>4, <2>1, <2>2, ListOfOneOrAll DEF PendAbort
<1>5. CASE c.op = "FlagPost" /\ OSFlagPost(c.grp, c.flags, c.set) /\ ForFlag
  <2> DEFINE T == Released(c.grp, c.flags, c.set)
             rdy == [t \in T |-> FlagsRdy(Posted(c.grp, c.flags, c.set), OSTCBFlagNode[t])]
  <2>1. OS_FlagTaskRdy(T, rdy)
    BY <1>5 DEF OSFlagPost
  <2>2. T \subseteq {t \in OSTCBTbl : OSTCBFlagNode[t] # NULL}
    BY DEF Released, Linked
  <2> HIDE DEF T, rdy
  <2>3. Lists'
    BY <2>1, <2>2, FlagReadyLists
  <2> QED
    BY <2>1, <2>3 DEF OS_FlagTaskRdy
<1>6. CASE \/ c.op = "TimeDlyResume" /\ OSTimeDlyResume(c.prio) /\ ForTask
           \/ c.op = "TaskSuspend" /\ OSTaskSuspend(c.prio) /\ ForTask
           \/ c.op = "TaskResume" /\ OSTaskResume(c.prio) /\ ForTask
  <2>1. c.prio \in Prio \ {Idle}
    BY <1>6 DEF WellFormed
  <2>2. Lists'
    BY <1>6, <2>1, TaskServiceLists
  <2> QED
    BY <1>6, <2>2 DEF OSTimeDlyResume, OSTaskSuspend, OSTaskResume
<1>7. CASE \/ c.op = "SemAccept" /\ OSSemAccept(c.ev) /\ ForSem
           \/ c.op = "SemSet" /\ OSSemSet(c.ev, c.cnt) /\ ForSem
           \/ c.op = "MboxAccept" /\ OSMboxAccept(c.ev) /\ ForSem
           \/ c.op = "QAccept" /\ OSQAccept(c.ev) /\ ForQ
           \/ c.op = "QFlush" /\ OSQFlush(c.ev) /\ ForQ
           \/ c.op = "FlagAccept" /\ OSFlagAccept(c.wait) /\ ForFlag
  <2>1. UNCHANGED <<waitVars, taskVars, OSTCBFlagNode>>
    BY <1>7 DEF OSSemAccept, OSSemSet, OSMboxAccept, OSQAccept, OSQFlush, OSFlagAccept, dataVars
  <2> QED
    BY <2>1, KeepingLists DEF FixedInv, SameLists, waitVars, pendVars
<1> QED
  BY <1>1, <1>2, <1>3, <1>4, <1>5, <1>6, <1>7 DEF Common

LEMMA CommonRaises ==
  ASSUME FixedInv, NEW t \in Tasks, NEW c, WellFormed(c), Common(c),
         ~Resched(t, c), NoSched(c) => ~Waited(c.ev)
  PROVE  Unraised(t)
<1> USE DEF Unraised
<1>1. CASE \/ c.op = "SemPost" /\ OSSemPost(c.ev)
           \/ c.op = "MboxPost" /\ OSMboxPost(c.ev, c.msg, c.all)
           \/ c.op = "QPost" /\ OSQPost(c.ev, c.msg, c.front, c.all)
           \/ c.op = "SemPendAbort" /\ OSSemPendAbort(c.ev, c.all)
           \/ c.op = "MboxPendAbort" /\ OSMboxPendAbort(c.ev, c.all)
           \/ c.op = "QPendAbort" /\ OSQPendAbort(c.ev, c.all)
  <2>1. ~Waited(c.ev)
    BY <1>1 DEF Resched
  <2>2. UNCHANGED waitVars
    BY <1>1, <2>1 DEF OSSemPost, OSMboxPost, OSQPost, OSSemPendAbort, OSMboxPendAbort,
                      OSQPendAbort, PendAbort
  <2> QED
    BY <2>2 DEF waitVars
<1>2. CASE c.op = "FlagPost" /\ OSFlagPost(c.grp, c.flags, c.set)
  <2> DEFINE T == Released(c.grp, c.flags, c.set)
  <2>1. OSRdyTbl' = OSRdyTbl \cup {OSTCBPrio[u] : u \in {v \in T : OSTCBStat[v] \subseteq {"FLAG"}}}
    BY <1>2 DEF OSFlagPost, OS_FlagTaskRdy
  <2>2. ~FlagPostReadies(c.grp, c.flags, c.set)
    BY <1>2 DEF Resched
  <2>3. \A v \in T : ~(OSTCBStat[v] \subseteq {"FLAG"})
    BY <2>2 DEF FlagPostReadies
  <2> HIDE DEF T
  <2> QED
    BY <2>1, <2>3
<1>3. CASE c.op = "TimeDlyResume" /\ OSTimeDlyResume(c.prio)
  <2>1. ~(/\ Exists(c.prio) /\ OSTCBDly[OSTCBPrioTbl[c.prio]] > 0
          /\ "SUSPEND" \notin OSTCBStat[OSTCBPrioTbl[c.prio]])
    BY <1>3 DEF Resched
  <2> QED
    BY <1>3, <2>1 DEF OSTimeDlyResume
<1>4. CASE c.op = "TaskSuspend" /\ OSTaskSuspend(c.prio)
  <2>1. c.prio # OSTCBPrio[t] /\ c.prio \in Prio
    BY <1>4 DEF Resched, WellFormed
  <2>2. OSTCBPrio[t] = t
    BY TasksArePrios DEF FixedInv, Controlled, Tabled
  <2>3. Exists(c.prio) => OSTCBPrio[OSTCBPrioTbl[c.prio]] = c.prio
    BY <2>1, TasksArePrios DEF FixedInv, Controlled, Tabled, Exists
  <2>4. CASE Exists(c.prio)
    BY <1>4, <2>1, <2>2, <2>3, <2>4 DEF OSTaskSuspend
  <2>5. CASE ~Exists(c.prio)
    BY <1>4, <2>5 DEF OSTaskSuspend
  <2> QED
    BY <2>4, <2>5
<1>5. CASE c.op = "TaskResume" /\ OSTaskResume(c.prio)
  <2>1. ~ResumeReadies(c.prio)
    BY <1>5 DEF Resched
  <2> QED
    BY <1>5, <2>1 DEF OSTaskResume
<1>6. CASE \/ c.op = "SemAccept" /\ OSSemAccept(c.ev)
           \/ c.op = "SemSet" /\ OSSemSet(c.ev, c.cnt)
           \/ c.op = "MboxAccept" /\ OSMboxAccept(c.ev)
           \/ c.op = "QAccept" /\ OSQAccept(c.ev)
           \/ c.op = "QFlush" /\ OSQFlush(c.ev)
           \/ c.op = "FlagAccept" /\ OSFlagAccept(c.wait)
  <2>1. UNCHANGED waitVars
    BY <1>6 DEF OSSemAccept, OSSemSet, OSMboxAccept, OSQAccept, OSQFlush, OSFlagAccept, dataVars
  <2> QED
    BY <2>1 DEF waitVars
<1> QED
  BY <1>1, <1>2, <1>3, <1>4, <1>5, <1>6 DEF Common

-----------------------------------------------------------------------------
(* The task that executes a section.                                       *)
LEMMA Actor ==
  ASSUME FixedTasks, FixedInv, NEW t \in OSTCBTbl, pc[t] \in {"enter", "pend", "resume"}
  PROVE  /\ t \in Tasks /\ t # Idle /\ t \in Prio /\ OSTCBPrio[t] = t
         /\ call[t] \in app.calls[t] /\ WellFormed(call[t])
         /\ call[t].op \notin {"TaskCreate", "TaskDel", "ChangePrio", "MutexAccept", "MutexPend",
                               "MutexPost", "MutexCreate", "MutexDel"}
<1>1. t \in Tasks /\ call[t] \in app.calls[t] /\ app \in Apps
  BY DEF FixedInv, Controlled
<1>2. t \in Prio /\ t # Idle
  BY <1>1, TasksArePrios
<1> QED
  BY <1>1, <1>2, TasksArePrios DEF FixedTasks, FixedInv, Tabled

WaitLists(t) ==
  /\ OSRdyTbl' = OSRdyTbl \ {OSTCBPrio[t]}
  /\ \E timeout : OSTCBDly' = [OSTCBDly EXCEPT ![t] = timeout]
  /\ \/ OSTCBFlagNode' = OSTCBFlagNode
     \/ \E w : OSTCBFlagNode' = [OSTCBFlagNode EXCEPT ![t] = w]
  /\ \/ OSEventTbl' = OSEventTbl
     \/ \E e : OSEventTbl' = [OSEventTbl EXCEPT ![e] = @ \cup {OSTCBPrio[t]}]
     \/ \E E : OSEventTbl' = [e \in OSEventTblAll |->
                  IF e \in E THEN OSEventTbl[e] \cup {OSTCBPrio[t]} ELSE OSEventTbl[e]]

LEMMA WaitingLists ==
  ASSUME FixedInv, NEW t \in Tasks, t # Idle, WaitLists(t), app' = app
  PROVE  Lists'
<1>1. OSTCBPrio[t] = t /\ Tasks' = Tasks
  BY TasksArePrios DEF FixedInv, Controlled, Tabled, Tasks
<1>2. OSRdyTbl' \subseteq Tasks /\ Idle \in OSRdyTbl'
  BY <1>1 DEF FixedInv, Lists, WaitLists
<1>3. /\ OSTCBDly' = [u \in OSTCBTbl |-> OSTCBDly'[u]]
      /\ \A u \in OSTCBTbl : OSTCBDly'[u] # 0 => u \in Tasks
  BY DEF FixedInv, Lists, WaitLists
<1>4. /\ OSTCBFlagNode' = [u \in OSTCBTbl |-> OSTCBFlagNode'[u]]
      /\ \A u \in OSTCBTbl : OSTCBFlagNode'[u] # NULL => u \in Tasks
  BY DEF FixedInv, Lists, WaitLists
<1>5. /\ OSEventTbl' = [e \in OSEventTblAll |-> OSEventTbl'[e]]
      /\ \A e \in OSEventTblAll : OSEventTbl'[e] \subseteq Tasks
  <2>1. CASE OSEventTbl' = OSEventTbl
    BY <2>1 DEF FixedInv, Lists
  <2>2. ASSUME NEW e, OSEventTbl' = [OSEventTbl EXCEPT ![e] = @ \cup {OSTCBPrio[t]}]
        PROVE  /\ OSEventTbl' = [f \in OSEventTblAll |-> OSEventTbl'[f]]
               /\ \A f \in OSEventTblAll : OSEventTbl'[f] \subseteq Tasks
    BY <1>1, <2>2 DEF FixedInv, Lists
  <2>3. ASSUME NEW E, OSEventTbl' = [e \in OSEventTblAll |->
                  IF e \in E THEN OSEventTbl[e] \cup {OSTCBPrio[t]} ELSE OSEventTbl[e]]
        PROVE  /\ OSEventTbl' = [f \in OSEventTblAll |-> OSEventTbl'[f]]
               /\ \A f \in OSEventTblAll : OSEventTbl'[f] \subseteq Tasks
    BY <1>1, <2>3 DEF FixedInv, Lists
  <2> QED
    BY <2>1, <2>2, <2>3 DEF WaitLists
<1> QED
  BY <1>1, <1>2, <1>3, <1>4, <1>5 DEF Lists

LEMMA LeavingLists ==
  ASSUME FixedInv, app' = app, UNCHANGED <<OSRdyTbl, OSTCBDly>>,
         \/ OSTCBFlagNode' = OSTCBFlagNode
         \/ \E t : OSTCBFlagNode' = [OSTCBFlagNode EXCEPT ![t] = NULL],
         \/ OSEventTbl' = OSEventTbl
         \/ \E e, R : OSEventTbl' = [OSEventTbl EXCEPT ![e] = @ \ R]
         \/ \E e : OSEventTbl' = [OSEventTbl EXCEPT ![e] = {}]
         \/ \E R : OSEventTbl' = [e \in OSEventTblAll |-> OSEventTbl[e] \ R[e]]
  PROVE  Lists'
<1>1. Tasks' = Tasks
  BY DEF Tasks
<1>2. /\ OSTCBFlagNode' = [u \in OSTCBTbl |-> OSTCBFlagNode'[u]]
      /\ \A u \in OSTCBTbl : OSTCBFlagNode'[u] # NULL => u \in Tasks
  BY DEF FixedInv, Lists
<1> DEFINE Fine == /\ OSEventTbl' = [f \in OSEventTblAll |-> OSEventTbl'[f]]
                   /\ \A f \in OSEventTblAll : OSEventTbl'[f] \subseteq Tasks
<1>3. ASSUME OSEventTbl' = OSEventTbl
      PROVE  Fine
  BY <1>3 DEF FixedInv, Lists
<1>4. ASSUME NEW e, NEW R, OSEventTbl' = [OSEventTbl EXCEPT ![e] = @ \ R]
      PROVE  Fine
  BY <1>4 DEF FixedInv, Lists
<1>5. ASSUME NEW e, OSEventTbl' = [OSEventTbl EXCEPT ![e] = {}]
      PROVE  Fine
  BY <1>5 DEF FixedInv, Lists
<1>6. ASSUME NEW R, OSEventTbl' = [e \in OSEventTblAll |-> OSEventTbl[e] \ R[e]]
      PROVE  Fine
  BY <1>6 DEF FixedInv, Lists
<1>7. Fine
  BY <1>3, <1>4, <1>5, <1>6 DEF FixedInv, Lists
<1> QED
  BY <1>1, <1>2, <1>7 DEF FixedInv, Lists

(* How a section leaves its task: with a call of OS_Sched before it, with  *)
(* one behind which a pend goes on, or in the application with nothing     *)
(* ready that was not, unless that is put off.                             *)
PutOff == OSLockNesting > 0 \/ deferred
Outcome(t) ==
  /\ app' = app /\ code' = code /\ UNCHANGED <<taskVars, cpuVars>>
  /\ OSLockNesting' \in 0..255 /\ deferred' \in BOOLEAN
  /\ \/ pc' = [pc EXCEPT ![t] = "sched"] /\ call' = [call EXCEPT ![t] = NULL]
     \/ /\ pc' = [pc EXCEPT ![t] = "pend"] /\ call' = call /\ call[t].op \in PendOps
        /\ OSLockNesting' = OSLockNesting
     \/ /\ pc' = [pc EXCEPT ![t] = "app"] /\ call' = [call EXCEPT ![t] = NULL]
        /\ ~PutOff' => ~PutOff /\ Unraised(t)
        /\ OSLockNesting' = 0 => OSLockNesting = 0 /\ (t \in OSRdyTbl => t \in OSRdyTbl')

LEMMA Returning ==
  ASSUME FixedInv, NEW t, NEW r, Return(t, r), UNCHANGED taskVars, ~r => Unraised(t)
  PROVE  Outcome(t)
<1>1. CASE r
  BY <1>1 DEF Outcome, Return, PutOff, schedVars, cpuVars, FixedInv, OnCpu
<1>2. CASE ~r
  <2>1. t \in OSRdyTbl => t \in OSRdyTbl'
    BY <1>2 DEF Unraised
  <2> QED
    BY <1>2, <2>1 DEF Outcome, Return, PutOff, schedVars, cpuVars, FixedInv, OnCpu
<1> QED
  BY <1>1, <1>2

LEMMA Blocking ==
  ASSUME FixedInv, NEW t, pc' = [pc EXCEPT ![t] = "pend"], call[t].op \in PendOps,
         UNCHANGED <<app, call, code, schedVars, deferred, taskVars>>
  PROVE  Outcome(t)
  BY DEF Outcome, schedVars, cpuVars, FixedInv, OnCpu

LEMMA CommonOutcome ==
  ASSUME FixedTasks, FixedInv, NEW t \in OSTCBTbl, CommonSection(t)
  PROVE  Lists' /\ Outcome(t)
<1> DEFINE c == call[t]
<1>1. /\ pc[t] = "enter" /\ Common(c)
      /\ \/ NoSched(c) /\ ReturnUnscheduled(t, Waited(c.ev))
         \/ ~NoSched(c) /\ Return(t, Resched(t, c))
  BY DEF CommonSection, Running
<1>2. t \in Tasks /\ WellFormed(c)
  BY <1>1, Actor
<1>3. app' = app
  BY <1>1 DEF Return, ReturnUnscheduled
<1>4. Lists' /\ UNCHANGED taskVars
  BY <1>1, <1>2, <1>3, CommonLists
<1> HIDE DEF c
<1>5. CASE ~NoSched(c) /\ Return(t, Resched(t, c))
  BY <1>1, <1>2, <1>4, <1>5, CommonRaises, Returning
<1>6. CASE NoSched(c) /\ ReturnUnscheduled(t, Waited(c.ev))
  <2>1. ~Resched(t, c) <=> ~Waited(c.ev)
    BY <1>6 DEF NoSched, Resched
  <2>2. ~Waited(c.ev) => Unraised(t)
    BY <1>1, <1>2, <2>1, CommonRaises
  <2>3. /\ pc' = [pc EXCEPT ![t] = "app"] /\ call' = [call EXCEPT ![t] = NULL]
        /\ UNCHANGED <<app, code, schedVars>> /\ deferred' = (deferred \/ Waited(c.ev))
    BY <1>6 DEF ReturnUnscheduled
  <2>4. ~PutOff' => ~PutOff /\ Unraised(t)
    BY <2>2, <2>3 DEF PutOff, schedVars
  <2>5. deferred' \in BOOLEAN
    BY <2>3 DEF Waited
  <2>6. OSRdyTbl \subseteq OSRdyTbl'
    BY <1>1, <1>6 DEF NoSched, Common, OSMboxPost, OSQPost, OS_EventTaskRdy, waitVars
  <2> QED
    BY <1>4, <2>3, <2>4, <2>5, <2>6 DEF Outcome, schedVars, FixedInv, OnCpu
<1> QED
  BY <1>1, <1>5, <1>6

LEMMA EventWaitOutcome ==
  ASSUME FixedInv, NEW t \in Tasks, t # Idle, NEW e, NEW bit, NEW timeout,
         OS_EventTaskWait(t, e, bit, timeout), OSTCBFlagNode' = OSTCBFlagNode,
         call[t].op \in PendOps
  PROVE  Lists' /\ Outcome(t)
<1>1. WaitLists(t) /\ app' = app
  BY DEF OS_EventTaskWait, WaitLists
<1>2. Lists'
  BY <1>1, WaitingLists
<1>3. Outcome(t)
  BY Blocking DEF OS_EventTaskWait, histVars
<1> QED
  BY <1>2, <1>3

LEMMA EventDelOutcome ==
  ASSUME FixedInv, NEW t, NEW e \in OSEventTblAll, NEW always, NEW bit,
         EventDel(t, e, always, bit), OSTCBFlagNode' = OSTCBFlagNode
  PROVE  Lists' /\ Outcome(t)
<1>1. app' = app /\ UNCHANGED taskVars /\ Return(t, always /\ Waited(e))
  BY DEF EventDel, Return
<1>2. \/ Waited(e) /\ OS_EventTaskRdy(OSRdyTbl, e, OSEventTbl[e], NULL, bit, "OK")
      \/ UNCHANGED waitVars
  BY DEF EventDel
<1>3. Lists'
  BY <1>1, <1>2, ListOfOneOrAll
<1>4. ~(always /\ Waited(e)) => Unraised(t)
  BY DEF EventDel, Unraised, waitVars
<1> QED
  BY <1>1, <1>3, <1>4, Returning

LEMMA EventCreateOutcome ==
  ASSUME FixedInv, NEW t, NEW e, NEW type, NEW cnt, NEW ptr,
         EventCreate(t, e, type, cnt, ptr), OSTCBFlagNode' = OSTCBFlagNode
  PROVE  Lists' /\ Outcome(t)
<1>1. /\ app' = app /\ UNCHANGED <<OSRdyTbl, OSTCBDly, taskVars>> /\ Return(t, FALSE)
      /\ OSEventTbl' = OSEventTbl \/ OSEventTbl' = [OSEventTbl EXCEPT ![e] = {}]
  BY DEF EventCreate, Return, pendVars
<1>2. Lists'
  BY <1>1, LeavingLists
<1> QED
  BY <1>1, <1>2, Returning DEF Unraised

(* A section that changes no list.                                         *)
LEMMA OtherOutcome ==
  ASSUME FixedInv, NEW t, NEW r, Return(t, r), UNCHANGED <<waitVars, taskVars, OSTCBFlagNode>>
  PROVE  Lists' /\ Outcome(t)
<1>1. SameLists /\ app' = app
  BY DEF SameLists, waitVars, pendVars, Return
<1> QED
  BY <1>1, KeepingLists, Returning DEF FixedInv, Unraised, SameLists

LEMMA TaskOutcome ==
  ASSUME FixedTasks, FixedInv, NEW t \in OSTCBTbl, TaskSection(t)
  PROVE  Lists' /\ Outcome(t)
<1> DEFINE c == call[t]
<1>0. pc[t] = "enter"
  BY DEF TaskSection, Running
<1>1. /\ t \in Tasks /\ t # Idle /\ WellFormed(c)
      /\ c.op \notin {"TaskCreate", "TaskDel", "ChangePrio", "MutexAccept", "MutexPend",
                      "MutexPost", "MutexCreate", "MutexDel"}
  BY <1>0, Actor
<1>2. CASE \/ c.op = "SemPend" /\ OSSemPend(t, c.ev, c.timeout) /\ ForSem
           \/ c.op = "MboxPend" /\ OSMboxPend(t, c.ev, c.timeout) /\ ForSem
           \/ c.op = "QPend" /\ OSQPend(t, c.ev, c.timeout) /\ ForQ
  <2>1. OSTCBFlagNode' = OSTCBFlagNode
    BY <1>2 DEF ForSem, ForQ, flagVars
  <2>2. \/ Return(t, FALSE) /\ UNCHANGED <<waitVars, taskVars>>
        \/ \E bit : OS_EventTaskWait(t, c.ev, bit, c.timeout)
    BY <1>2 DEF OSSemPend, OSMboxPend, OSQPend, OSSemAccept, OSMboxAccept, OSQAccept
  <2>3. c.op \in PendOps
    BY <1>2 DEF PendOps
  <2> QED
    BY <1>1, <2>1, <2>2, <2>3, OtherOutcome, EventWaitOutcome
<1>3. CASE \/ c.op = "SemCreate" /\ OSSemCreate(t, c.ev, c.cnt) /\ ForSem
           \/ c.op = "MboxCreate" /\ OSMboxCreate(t, c.ev, c.msg) /\ ForSem
           \/ c.op = "QCreate" /\ OSQCreate(t, c.ev) /\ ForQ
  <2>1. OSTCBFlagNode' = OSTCBFlagNode
    BY <1>3 DEF ForSem, ForQ, flagVars
  <2>2. \E type, cnt, ptr : EventCreate(t, c.ev, type, cnt, ptr)
    BY <1>3 DEF OSSemCreate, OSMboxCreate, OSQCreate
  <2> QED
    BY <2>1, <2>2, EventCreateOutcome
<1>4. CASE \/ c.op = "SemDel" /\ OSSemDel(t, c.ev, c.all) /\ ForSem
           \/ c.op = "MboxDel" /\ OSMboxDel(t, c.ev, c.all) /\ ForSem
           \/ c.op = "QDel" /\ OSQDel(t, c.ev, c.all) /\ ForQ
  <2>1. OSTCBFlagNode' = OSTCBFlagNode /\ c.ev \in OSEventTblAll
    BY <1>1, <1>4, EventOfCall DEF ForSem, ForQ, flagVars
  <2>2. \E bit : EventDel(t, c.ev, c.all, bit)
    BY <1>4 DEF OSSemDel, OSMboxDel, OSQDel
  <2> QED
    BY <2>1, <2>2, EventDelOutcome
<1>5. CASE c.op = "PendMulti" /\ OSEventPendMulti(t, c.evs, c.timeout) /\ ForQ
  <2>1. OSTCBFlagNode' = OSTCBFlagNode
    BY <1>5 DEF ForQ, flagVars
  <2>2. CASE Return(t, FALSE) /\ \E A : TakeAll(A)
    <3>1. UNCHANGED <<waitVars, taskVars>>
      BY <2>2 DEF TakeAll
    <3> QED
      BY <2>1, <2>2, <3>1, OtherOutcome
  <2>3. CASE OS_EventTaskWaitMulti(t, c.evs, c.timeout)
    <3>1. WaitLists(t) /\ app' = app
      BY <2>1, <2>3 DEF OS_EventTaskWaitMulti, WaitLists
    <3>2. Outcome(t)
      BY <1>5, <2>3, Blocking DEF OS_EventTaskWaitMulti, histVars, PendOps
    <3> QED
      BY <1>1, <3>1, <3>2, WaitingLists
  <2> QED
    BY <1>5, <2>2, <2>3 DEF OSEventPendMulti
<1>6. CASE c.op = "FlagPend" /\ OSFlagPend(t, c.wait, c.timeout)
  <2>1. CASE Return(t, FALSE) /\ UNCHANGED <<OSTCBFlagNode, dataVars>>
    BY <2>1, OtherOutcome DEF dataVars
  <2>2. CASE OS_FlagBlock(t, c.wait, c.timeout)
    <3>1. WaitLists(t) /\ app' = app
      BY <2>2 DEF OS_FlagBlock, WaitLists
    <3>2. Outcome(t)
      BY <1>6, <2>2, Blocking DEF OS_FlagBlock, histVars, PendOps
    <3> QED
      BY <1>1, <3>1, <3>2, WaitingLists
  <2> QED
    BY <1>6, <2>1, <2>2 DEF OSFlagPend
<1>7. CASE OSFlagCreate(t, c.grp, c.flags)
  BY <1>7, OtherOutcome DEF OSFlagCreate, dataVars
<1>8. CASE OSFlagDel(t, c.grp, c.all)
  <2> DEFINE T == IF c.all THEN Linked(c.grp) ELSE {}
             r == c.all /\ Linked(c.grp) # {}
  <2>1. OS_FlagTaskRdy(T, [u \in OSTCBTbl |-> {}]) /\ Return(t, r)
    BY <1>8 DEF OSFlagDel
  <2>2. T \subseteq {u \in OSTCBTbl : OSTCBFlagNode[u] # NULL}
    BY DEF Linked
  <2>3. app' = app /\ (~r => T = {})
    BY <2>1 DEF Return
  <2> HIDE DEF T, r
  <2>4. Lists'
    BY <2>1, <2>2, <2>3, FlagReadyLists
  <2>5. UNCHANGED taskVars /\ (~r => OSRdyTbl' = OSRdyTbl)
    BY <2>1, <2>3 DEF OS_FlagTaskRdy
  <2> QED
    BY <2>1, <2>4, <2>5, Returning DEF Unraised
<1>9. CASE OSTimeDly(t, c.timeout) /\ ForTask
  <2>1. WaitLists(t) /\ app' = app
    BY <1>9 DEF OSTimeDly, WaitLists, Return, flagVars
  <2>2. Lists'
    BY <1>1, <2>1, WaitingLists
  <2> QED
    BY <1>9, <2>2, Returning DEF OSTimeDly
<1>10. CASE OSTaskDelReq(t, c.prio)
  BY <1>10, OtherOutcome DEF OSTaskDelReq, dataVars, flagVars
<1>11. CASE (OSSchedLock(t) \/ OSSchedUnlock(t)) /\ ForSem
  <2>1. Lists' /\ app' = app /\ OSRdyTbl' = OSRdyTbl
    <3>1. SameLists /\ app' = app
      BY <1>11 DEF OSSchedLock, OSSchedUnlock, ForSem, ForQ, flagVars, SameLists, dataVars,
                   waitVars, pendVars
    <3> QED
      BY <3>1, KeepingLists DEF FixedInv, SameLists
  <2>2. UNCHANGED <<code, cpuVars, taskVars, deferred>> /\ call' = [call EXCEPT ![t] = NULL]
    BY <1>11 DEF OSSchedLock, OSSchedUnlock, dataVars, histVars
  <2>3. OSLockNesting \in 0..255 /\ deferred \in BOOLEAN
    BY DEF FixedInv, OnCpu
  <2>4. CASE OSSchedLock(t)
    <3>1. OSLockNesting' \in 1..255 /\ pc' = [pc EXCEPT ![t] = "app"]
      BY <2>3, <2>4 DEF OSSchedLock
    <3>2. OSLockNesting' \in 0..255 /\ PutOff'
      BY <3>1 DEF PutOff
    <3> QED
      BY <2>1, <2>2, <2>3, <3>1, <3>2 DEF Outcome
  <2>5. CASE OSSchedUnlock(t)
    <3>1. OSLockNesting' \in 0..255
      BY <2>3, <2>5 DEF OSSchedUnlock
    <3>2. CASE OSLockNesting = 1
      <4>1. pc' = [pc EXCEPT ![t] = "sched"]
        BY <2>5, <3>2 DEF OSSchedUnlock
      <4> QED
        BY <2>1, <2>2, <2>3, <3>1, <4>1 DEF Outcome
    <3>3. CASE OSLockNesting # 1
      <4>1. pc' = [pc EXCEPT ![t] = "app"]
        BY <2>5, <3>3 DEF OSSchedUnlock
      <4>2. OSLockNesting > 0 => OSLockNesting' > 0
        BY <2>3, <2>5, <3>3 DEF OSSchedUnlock
      <4>3. ~PutOff' => ~PutOff /\ Unraised(t)
        BY <2>1, <2>2, <2>3, <4>2 DEF PutOff, histVars, Unraised
      <4>4. OSLockNesting' = 0 => OSLockNesting = 0 /\ (t \in OSRdyTbl => t \in OSRdyTbl')
        BY <2>1, <2>3, <4>2
      <4> QED
        BY <2>1, <2>2, <2>3, <3>1, <4>1, <4>3, <4>4 DEF Outcome
    <3> QED
      BY <3>2, <3>3
  <2> QED
    BY <1>11, <2>4, <2>5
<1> HIDE DEF c
<1> QED
  BY <1>1, <1>2, <1>3, <1>4, <1>5, <1>6, <1>7, <1>8, <1>9, <1>10, <1>11 DEF TaskSection, c

LEMMA LaterOutcome ==
  ASSUME FixedTasks, FixedInv, NEW t \in OSTCBTbl, LaterSection(t)
  PROVE  pc[t] = "resume" /\ Lists' /\ Outcome(t)
<1> DEFINE c == call[t]
<1>1. pc[t] \notin {"create", "link", "delete"}
  BY DEF FixedInv, Controlled
<1>2. /\ pc[t] = "resume"
      /\ \/ PendReturn(t, c.ev) /\ ForSem
         \/ PendMultiReturn(t, c.evs) /\ ForQ
         \/ FlagPendReturn(t, c.wait)
  BY <1>1 DEF LaterSection, TCBInitTake, TCBInitLink, TaskDelEnd
<1>3. CASE PendReturn(t, c.ev) /\ ForSem
  <2>1. /\ OSEventTbl' = OSEventTbl
           \/ OSEventTbl' = [OSEventTbl EXCEPT ![c.ev] = @ \ {OSTCBPrio[t]}]
        /\ UNCHANGED <<OSTCBFlagNode, OSRdyTbl, OSTCBDly, taskVars, app>> /\ Return(t, FALSE)
    BY <1>3 DEF PendReturn, Return, ForSem, ForQ, flagVars
  <2> QED
    BY <1>2, <2>1, LeavingLists, Returning DEF Unraised
<1>4. CASE PendMultiReturn(t, c.evs) /\ ForQ
  <2> DEFINE R == [f \in OSEventTblAll |->
                     IF (OSTCBStatPend[t] = "TO" \/ OSTCBEventPtr[t] = NULL) /\ f \in c.evs
                       THEN {OSTCBPrio[t]} ELSE {}]
  <2>1. \/ OSEventTbl' = OSEventTbl
        \/ OSEventTbl' = [f \in OSEventTblAll |->
              IF (OSTCBStatPend[t] = "TO" \/ OSTCBEventPtr[t] = NULL) /\ f \in c.evs
                THEN OSEventTbl[f] \ {OSTCBPrio[t]} ELSE OSEventTbl[f]]
    BY <1>4 DEF PendMultiReturn, dataVars, waitVars
  <2>2. UNCHANGED <<OSTCBFlagNode, OSRdyTbl, OSTCBDly, taskVars, app>> /\ Return(t, FALSE)
    BY <1>4 DEF PendMultiReturn, Return, ForQ, flagVars, dataVars, waitVars, pendVars
  <2>3. \/ OSEventTbl' = OSEventTbl
        \/ OSEventTbl' = [f \in OSEventTblAll |-> OSEventTbl[f] \ R[f]]
    BY <2>1
  <2> QED
    BY <1>2, <2>2, <2>3, LeavingLists, Returning DEF Unraised
<1>5. CASE FlagPendReturn(t, c.wait)
  <2>1. /\ OSTCBFlagNode' = OSTCBFlagNode \/ OSTCBFlagNode' = [OSTCBFlagNode EXCEPT ![t] = NULL]
        /\ UNCHANGED <<OSEventTbl, OSRdyTbl, OSTCBDly, taskVars, app>> /\ Return(t, FALSE)
    BY <1>5 DEF FlagPendReturn, Return
  <2> QED
    BY <1>2, <2>1, LeavingLists, Returning DEF Unraised
<1> QED
  BY <1>2, <1>3, <1>4, <1>5
-----------------------------------------------------------------------------
LEMMA FixedInit ==
  ASSUME Init
  PROVE  FixedInv /\ HighestRuns
<1>1. /\ Tasks \subseteq OSTCBTbl /\ Tasks \subseteq Prio /\ Idle \in Tasks /\ app \in Apps
  BY TasksArePrios DEF Init
<1>2. Highest(Tasks) \in Tasks
  BY <1>1, HighestIs
<1>3. Controlled
  BY <1>1 DEF Init, Controlled, Tasks
<1>4. Tabled
  BY <1>1, CoreAssumption DEF Init, Tabled, Tasks
<1>5. OnCpu
  <2>1. OSTCBCur = Highest(Tasks) /\ OSPrioCur = Highest(Tasks)
    BY DEF Init, Tasks
  <2>2. OSLockNesting = 0
    BY DEF Init
  <2>3. deferred = FALSE
    BY Zenon DEF Init
  <2>4. OSTCBCur = OSPrioCur /\ OSTCBCur \in Tasks
    BY <1>2, <2>1
  <2>5. OSLockNesting \in 0..255
    BY <2>2
  <2>6. deferred \in BOOLEAN
    BY <2>3
  <2> QED
    BY <2>4, <2>5, <2>6 DEF OnCpu
<1>6. Lists
  BY <1>1 DEF Init, Lists, Tasks, FlagInit
<1>7. HighestRuns
  BY <1>1, <1>2 DEF Init, HighestRuns, Tasks
<1> QED
  BY <1>3, <1>4, <1>5, <1>6, <1>7 DEF FixedInv

(* A section of task t that ends in one of its outcomes.                   *)
LEMMA OutcomeKeeps ==
  ASSUME FixedInv, HighestRuns, NEW t \in OSTCBTbl, pc[t] \in {"enter", "resume"},
         OSTCBCur = t, Outcome(t), Lists'
  PROVE  FixedInv' /\ HighestRuns' /\ app' = app
<1>1. t \in Tasks /\ call[t] \in app.calls[t] /\ Tasks' = Tasks
  BY DEF FixedInv, Controlled, Outcome, Tasks
<1>2. Controlled'
  BY <1>1 DEF FixedInv, Controlled, Outcome
<1>3. Tabled'
  BY <1>1 DEF FixedInv, Tabled, Outcome, taskVars
<1>4. OnCpu'
  BY <1>1 DEF FixedInv, OnCpu, Outcome, cpuVars
<1>5. ASSUME OSLockNesting' = 0, ~deferred', pc'[t] \notin {"sched", "pend"}
      PROVE  t = OSTCBPrioTbl'[Highest(OSRdyTbl')]
  <2>1. ~PutOff' /\ pc'[t] \notin {"sched", "pend"} /\ pc'[t] # "sched"
    BY <1>5 DEF PutOff
  <2>2. ~PutOff /\ Unraised(t)
    BY <2>1 DEF Outcome, FixedInv, Controlled
  <2>3. OSLockNesting = 0 /\ ~deferred
    BY <2>2 DEF PutOff, FixedInv, OnCpu
  <2>4. t = OSTCBPrioTbl[Highest(OSRdyTbl)]
    BY <2>3 DEF HighestRuns
  <2>5. OSRdyTbl \subseteq Prio /\ OSRdyTbl # {} /\ OSRdyTbl \subseteq Tasks
    BY TasksArePrios DEF FixedInv, Lists, Controlled
  <2>6. Highest(OSRdyTbl) \in OSRdyTbl /\ \A q \in OSRdyTbl : Highest(OSRdyTbl) <= q
    BY <2>5, HighestIs
  <2>7. t = Highest(OSRdyTbl)
    BY <2>4, <2>5, <2>6 DEF FixedInv, Tabled
  <2>8. OSRdyTbl' \subseteq OSRdyTbl /\ t \in OSRdyTbl'
    BY <2>2, <2>6, <2>7 DEF Unraised
  <2>9. Highest(OSRdyTbl') = t
    BY <2>5, <2>6, <2>7, <2>8, HighestBy
  <2> QED
    BY <1>1, <1>3, <2>9 DEF Tabled
<1>6. OSTCBCur' = t
  BY DEF Outcome, cpuVars
<1>7. HighestRuns'
  BY <1>5, <1>6 DEF HighestRuns
<1> QED
  BY <1>2, <1>3, <1>4, <1>7 DEF FixedInv, Outcome

(* The end of an interrupt.                                                *)
LEMMA ExitKeeps ==
  ASSUME FixedInv, OSIntExit, Lists', UNCHANGED taskVars
  PROVE  FixedInv' /\ HighestRuns' /\ app' = app
<1>1. Tasks' = Tasks /\ OSRdyTbl' \subseteq Tasks /\ OSRdyTbl' # {}
  BY DEF OSIntExit, Tasks, Lists
<1>2. /\ OSTCBCur' = OSPrioCur' /\ OSTCBCur' \in Tasks
      /\ OSLockNesting = 0 => OSTCBCur' = Highest(OSRdyTbl')
  BY <1>1, SwitchFinds DEF OSIntExit
<1>3. Controlled'
  BY <1>1 DEF FixedInv, Controlled, OSIntExit, ctlVars
<1>4. Tabled'
  BY <1>1 DEF FixedInv, Tabled, taskVars
<1>5. OnCpu'
  BY <1>1, <1>2 DEF FixedInv, OnCpu, OSIntExit
<1>6. HighestRuns'
  BY <1>1, <1>2, <1>4, <1>5 DEF HighestRuns, Tabled, OSIntExit
<1> QED
  BY <1>3, <1>4, <1>5, <1>6 DEF FixedInv, OSIntExit

LEMMA FixedStep ==
  ASSUME FixedTasks, FixedInv, HighestRuns, NEW t \in OSTCBTbl, Step(t)
  PROVE  FixedInv' /\ HighestRuns' /\ app' = app
<1>1. CASE CommonSection(t)
  BY <1>1, CommonOutcome, OutcomeKeeps DEF CommonSection, Running
<1>2. CASE TaskSection(t)
  BY <1>2, TaskOutcome, OutcomeKeeps DEF TaskSection, Running
<1>3. CASE LaterSection(t)
  BY <1>3, LaterOutcome, OutcomeKeeps DEF LaterSection
<1>4. CASE Call(t)
  <2>1. PICK c \in app.calls[code[t]] : call' = [call EXCEPT ![t] = c]
    BY <1>4 DEF Call
  <2>2. /\ pc' = [pc EXCEPT ![t] = "enter"] /\ pc[t] = "app" /\ OSTCBCur = t
        /\ UNCHANGED <<app, code, schedVars, dataVars, deferred, OSTCBFlagNode>>
    BY <1>4 DEF Call, Running, histVars, flagVars
  <2>3. Tasks' = Tasks /\ c \in app.calls[t]
    BY <2>2 DEF Tasks, FixedInv, Controlled
  <2>4. Controlled'
    BY <2>1, <2>2, <2>3 DEF FixedInv, Controlled
  <2>5. Tabled' /\ OnCpu' /\ Lists'
    BY <2>2, <2>3 DEF FixedInv, Tabled, OnCpu, Lists, dataVars, taskVars, schedVars, cpuVars,
                      waitVars, pendVars
  <2>6. HighestRuns'
    BY <2>2 DEF HighestRuns, dataVars, taskVars, waitVars, schedVars, cpuVars
  <2> QED
    BY <2>2, <2>4, <2>5, <2>6 DEF FixedInv
<1>5. CASE Reschedule(t)
  <2>1. /\ pc[t] \in {"sched", "pend"} /\ Switch(OSRdyTbl)
        /\ pc' = [pc EXCEPT ![t] = IF @ = "pend" THEN "resume" ELSE "app"]
        /\ deferred' = (deferred /\ OSLockNesting > 0)
        /\ UNCHANGED <<app, call, code, OSLockNesting, dataVars, OSTCBFlagNode>>
    BY <1>5 DEF Reschedule, OS_Sched, flagVars
  <2>2. Tasks' = Tasks /\ OSRdyTbl \subseteq Tasks /\ OSRdyTbl # {}
    BY <2>1 DEF Tasks, FixedInv, Lists
  <2>3. /\ OSTCBCur' = OSPrioCur' /\ OSTCBCur' \in Tasks
        /\ OSLockNesting = 0 => OSTCBCur' = Highest(OSRdyTbl)
    BY <2>1, <2>2, SwitchFinds
  <2>4. Controlled'
    BY <2>1, <2>2 DEF FixedInv, Controlled
  <2>5. Tabled' /\ Lists'
    BY <2>1, <2>2 DEF FixedInv, Tabled, Lists, dataVars, taskVars, waitVars, pendVars
  <2>6. OnCpu'
    BY <2>1, <2>2, <2>3 DEF FixedInv, OnCpu
  <2>7. OSRdyTbl' = OSRdyTbl
    BY <2>1 DEF dataVars, waitVars
  <2>8. HighestRuns'
    BY <2>1, <2>2, <2>3, <2>5, <2>7 DEF HighestRuns, Tabled
  <2> QED
    BY <2>1, <2>4, <2>5, <2>6, <2>8 DEF FixedInv
<1> QED
  BY <1>1, <1>2, <1>3, <1>4, <1>5 DEF Step

LEMMA FixedNext ==
  ASSUME FixedTasks, FixedInv, HighestRuns, [Next]_vars
  PROVE  FixedInv' /\ HighestRuns' /\ app' = app
<1>1. CASE Tick
  <2>1. Lists' /\ UNCHANGED taskVars
    BY <1>1, TickLists DEF Tick, OSIntExit, flagVars, OSTimeTick
  <2> QED
    BY <1>1, <2>1, ExitKeeps DEF Tick
<1>2. CASE Interrupt
  <2>1. PICK c \in app.isr : Common(c) /\ OSIntExit
    BY <1>2 DEF Interrupt
  <2>2. WellFormed(c) /\ app' = app
    BY <2>1, TasksArePrios DEF FixedInv, Controlled, OSIntExit
  <2> QED
    BY <2>1, <2>2, CommonLists, ExitKeeps
<1>3. CASE \E t \in OSTCBTbl : Step(t)
  BY <1>3, FixedStep
<1>4. CASE UNCHANGED vars
  <2>1. Tasks' = Tasks
    BY <1>4 DEF vars, Tasks
  <2>2. Controlled' /\ Tabled' /\ OnCpu' /\ Lists'
    BY <1>4, <2>1 DEF vars, FixedInv, Controlled, Tabled, OnCpu, Lists, ctlVars, schedVars, cpuVars,
                dataVars, waitVars, pendVars, taskVars, histVars, flagVars
  <2>3. HighestRuns'
    BY <1>4 DEF vars, HighestRuns, ctlVars, schedVars, cpuVars,
                dataVars, waitVars, taskVars, histVars
  <2> QED
    BY <1>4, <2>2, <2>3 DEF FixedInv, vars
<1> QED
  BY <1>1, <1>2, <1>3, <1>4 DEF Next

(* Between services the processor has the ready task of the highest        *)
(* priority, whatever semaphores, mailboxes, queues, flags, delays,        *)
(* suspensions, deletions of events and interrupts do in between, if the   *)
(* application creates its tasks before OSStart, lets them keep their      *)
(* priorities and uses no mutexes.                                         *)
THEOREM HighestRunsCorrect == Spec /\ FixedTasks => []HighestRuns
<1> DEFINE Inv == FixedTasks /\ FixedInv /\ HighestRuns
<1>1. Init /\ FixedTasks => Inv
  BY FixedInit
<1>2. Inv /\ [Next]_vars => Inv'
  BY FixedNext DEF FixedTasks
<1>3. Inv => HighestRuns
  OBVIOUS
<1> HIDE DEF Inv
<1> QED
  BY <1>1, <1>2, <1>3, PTL DEF Spec

-----------------------------------------------------------------------------
(* Types                                                                   *)

(* The fields of the control blocks, of the events and of the flag groups. *)
PendTyped ==
  /\ OSTCBStat \in [OSTCBTbl -> SUBSET (OS_STAT_PEND_ANY \cup {"MULTI", "SUSPEND"})]
  /\ OSTCBStatPend \in [OSTCBTbl -> {"OK", "TO", "ABORT"}]
  /\ OSTCBDly \in [OSTCBTbl -> Nat]
  /\ OSTCBEventPtr \in [OSTCBTbl -> OSEventTblAll \cup {NULL}]
  /\ OSTCBEventMultiPtr \in [OSTCBTbl -> SUBSET OSEventTblAll]
  /\ OSTCBMsg \in [OSTCBTbl -> Word]

EventTyped ==
  /\ OSEventType \in [OSEventTblAll -> {"SEM", "MBOX", "Q", "MUTEX", "UNUSED"}]
  /\ OSEventCnt \in [OSEventTblAll -> 0..OSSemMax]
  /\ OSEventPtr \in [OSEventTblAll -> Msgs \cup OSTCBTbl \cup {NULL}]
  /\ credit \in [OSEventTblAll -> Int]

FlagTyped ==
  /\ OSFlagType \in [OSFlagTbl -> {"FLAG", "UNUSED"}]
  /\ OSFlagFlags \in [OSFlagTbl -> SUBSET Flags]
  /\ OSTCBFlagNode \in [OSTCBTbl -> FlagWait \cup {NULL}]
  /\ OSTCBFlagsRdy \in [OSTCBTbl -> SUBSET Flags]

TaskTyped ==
  /\ OSTCBPrioTbl \in [Prio -> OSTCBTbl \cup {NULL, OS_TCB_RESERVED}]
  /\ OSTCBFreeList \subseteq OSTCBTbl

FieldsTyped == PendTyped /\ EventTyped /\ FlagTyped /\ OSTCBDelReq \subseteq OSTCBTbl

LEMMA ListSize ==
  ASSUME FixedInv, NEW e \in OSEventTblAll
  PROVE  Cardinality(OSEventTbl[e]) \in Nat
<1>1. OSEventTbl[e] \subseteq Prio
  BY TasksArePrios DEF FixedInv, Controlled, Lists
<1>2. IsFiniteSet(Prio)
  BY CoreAssumption, FS_Interval DEF Prio
<1> QED
  BY <1>1, <1>2, FS_Subset, FS_CardinalityType

(* Readying waiters.                                                       *)
LEMMA ReadyTyped ==
  ASSUME PendTyped, NEW R, NEW e \in OSEventTblAll, NEW W, NEW msg \in Word, NEW bit,
         NEW pend \in {"OK", "ABORT"}, OS_EventTaskRdy(R, e, W, msg, bit, pend)
  PROVE  PendTyped'
<1> DEFINE T == {OSTCBPrioTbl[p] : p \in W} \cap OSTCBTbl
<1>1. /\ OSTCBDly' = [t \in OSTCBTbl |-> IF t \in T THEN 0 ELSE OSTCBDly[t]]
      /\ OSTCBMsg' = [t \in OSTCBTbl |-> IF t \in T THEN msg ELSE OSTCBMsg[t]]
      /\ OSTCBStat' = [t \in OSTCBTbl |->
           IF t \in T THEN OSTCBStat[t] \ {bit} ELSE OSTCBStat[t]]
      /\ OSTCBStatPend' = [t \in OSTCBTbl |->
           IF t \in T THEN pend ELSE OSTCBStatPend[t]]
      /\ OSTCBEventPtr' = [t \in OSTCBTbl |->
           IF t \in T /\ OSTCBEventMultiPtr[t] # {} THEN e ELSE OSTCBEventPtr[t]]
      /\ OSTCBEventMultiPtr' = OSTCBEventMultiPtr
  BY DEF OS_EventTaskRdy
<1> HIDE DEF T
<1>2. OSTCBStat' \in [OSTCBTbl -> SUBSET (OS_STAT_PEND_ANY \cup {"MULTI", "SUSPEND"})]
  BY <1>1 DEF PendTyped
<1>3. OSTCBStatPend' \in [OSTCBTbl -> {"OK", "TO", "ABORT"}]
  BY <1>1 DEF PendTyped
<1>4. OSTCBDly' \in [OSTCBTbl -> Nat] /\ OSTCBMsg' \in [OSTCBTbl -> Word]
  BY <1>1 DEF PendTyped
<1>5. /\ OSTCBEventPtr' \in [OSTCBTbl -> OSEventTblAll \cup {NULL}]
      /\ OSTCBEventMultiPtr' \in [OSTCBTbl -> SUBSET OSEventTblAll]
  BY <1>1 DEF PendTyped
<1> QED
  BY <1>2, <1>3, <1>4, <1>5 DEF PendTyped

LEMMA UnreadiedTyped == PendTyped /\ UNCHANGED waitVars => PendTyped'
  BY DEF PendTyped, waitVars, pendVars

LEMMA FlagReadyTyped ==
  ASSUME PendTyped, FlagTyped, NEW T, NEW rdy, \A t \in T : rdy[t] \in SUBSET Flags,
         OS_FlagTaskRdy(T, rdy),
         OSFlagType' \in [OSFlagTbl -> {"FLAG", "UNUSED"}],
         OSFlagFlags' \in [OSFlagTbl -> SUBSET Flags]
  PROVE  PendTyped' /\ FlagTyped'
<1>1. /\ OSTCBDly' = [t \in OSTCBTbl |-> IF t \in T THEN 0 ELSE OSTCBDly[t]]
      /\ OSTCBFlagsRdy' = [t \in OSTCBTbl |-> IF t \in T THEN rdy[t] ELSE OSTCBFlagsRdy[t]]
      /\ OSTCBStat' = [t \in OSTCBTbl |->
           IF t \in T THEN OSTCBStat[t] \ {"FLAG"} ELSE OSTCBStat[t]]
      /\ OSTCBStatPend' = [t \in OSTCBTbl |-> IF t \in T THEN "OK" ELSE OSTCBStatPend[t]]
      /\ OSTCBFlagNode' = [t \in OSTCBTbl |-> IF t \in T THEN NULL ELSE OSTCBFlagNode[t]]
      /\ UNCHANGED <<OSTCBEventPtr, OSTCBEventMultiPtr, OSTCBMsg>>
  BY DEF OS_FlagTaskRdy
<1>2. OSTCBStat' \in [OSTCBTbl -> SUBSET (OS_STAT_PEND_ANY \cup {"MULTI", "SUSPEND"})]
  BY <1>1 DEF PendTyped
<1>3. OSTCBStatPend' \in [OSTCBTbl -> {"OK", "TO", "ABORT"}] /\ OSTCBDly' \in [OSTCBTbl -> Nat]
  BY <1>1 DEF PendTyped
<1>4. PendTyped'
  BY <1>1, <1>2, <1>3 DEF PendTyped
<1>5. OSTCBFlagNode' \in [OSTCBTbl -> FlagWait \cup {NULL}]
  BY <1>1 DEF FlagTyped
<1>6. OSTCBFlagsRdy' \in [OSTCBTbl -> SUBSET Flags]
  BY <1>1 DEF FlagTyped
<1> QED
  BY <1>4, <1>5, <1>6 DEF FlagTyped

LEMMA TickTyped ==
  ASSUME PendTyped, OSTimeTick
  PROVE  PendTyped'
<1> DEFINE Ends == {t \in OSTCBTbl \ {Idle} : OSTCBDly[t] = 1}
<1>1. /\ OSTCBDly' = [t \in OSTCBTbl |->
           IF t # Idle /\ OSTCBDly[t] > 0 THEN OSTCBDly[t] - 1 ELSE OSTCBDly[t]]
      /\ OSTCBStat' = [t \in OSTCBTbl |->
           IF t \in Ends THEN OSTCBStat[t] \ OS_STAT_PEND_ANY ELSE OSTCBStat[t]]
      /\ OSTCBStatPend' = [t \in OSTCBTbl |->
           IF t \notin Ends THEN OSTCBStatPend[t]
           ELSE IF OSTCBStat[t] \cap OS_STAT_PEND_ANY # {} THEN "TO" ELSE "OK"]
      /\ UNCHANGED <<OSTCBEventPtr, OSTCBEventMultiPtr, OSTCBMsg>>
  BY DEF OSTimeTick
<1> HIDE DEF Ends
<1>2. OSTCBDly' \in [OSTCBTbl -> Nat]
  BY <1>1 DEF PendTyped
<1>3. OSTCBStat' \in [OSTCBTbl -> SUBSET (OS_STAT_PEND_ANY \cup {"MULTI", "SUSPEND"})]
  BY <1>1 DEF PendTyped
<1>4. OSTCBStatPend' \in [OSTCBTbl -> {"OK", "TO", "ABORT"}]
  BY <1>1 DEF PendTyped
<1> QED
  BY <1>1, <1>2, <1>3, <1>4 DEF PendTyped

LEMMA ServiceTyped ==
  ASSUME PendTyped, NEW p, OSTimeDlyResume(p) \/ OSTaskSuspend(p) \/ OSTaskResume(p)
  PROVE  PendTyped'
<1> DEFINE u == OSTCBPrioTbl[p]
           Bits == OS_STAT_PEND_ANY \cup {"MULTI", "SUSPEND"}
<1>1. UNCHANGED <<OSTCBEventPtr, OSTCBEventMultiPtr, OSTCBMsg>>
  BY DEF OSTimeDlyResume, OSTaskSuspend, OSTaskResume
<1>2. \/ OSTCBStat' = OSTCBStat
      \/ OSTCBStat' = [OSTCBStat EXCEPT ![u] = @ \ OS_STAT_PEND_ANY]
      \/ OSTCBStat' = [OSTCBStat EXCEPT ![u] = @ \cup {"SUSPEND"}]
      \/ OSTCBStat' = [OSTCBStat EXCEPT ![u] = @ \ {"SUSPEND"}]
  BY DEF OSTimeDlyResume, OSTaskSuspend, OSTaskResume
<1>3. \/ OSTCBStatPend' = OSTCBStatPend
      \/ OSTCBStatPend' = [OSTCBStatPend EXCEPT ![u] =
           IF OSTCBStat[u] \cap OS_STAT_PEND_ANY # {} THEN "TO" ELSE "OK"]
  BY DEF OSTimeDlyResume, OSTaskSuspend, OSTaskResume
<1>4. OSTCBDly' = OSTCBDly \/ OSTCBDly' = [OSTCBDly EXCEPT ![u] = 0]
  BY DEF OSTimeDlyResume, OSTaskSuspend, OSTaskResume
<1> HIDE DEF u
<1>5. OSTCBStat' \in [OSTCBTbl -> SUBSET Bits]
  BY <1>2 DEF PendTyped
<1>6. OSTCBStatPend' \in [OSTCBTbl -> {"OK", "TO", "ABORT"}]
  BY <1>3 DEF PendTyped
<1>7. OSTCBDly' \in [OSTCBTbl -> Nat]
  BY <1>4 DEF PendTyped
<1> QED
  BY <1>1, <1>5, <1>6, <1>7 DEF PendTyped

(* The services that interrupts may call too.                              *)
LEMMA OneOrAllTyped ==
  ASSUME PendTyped, NEW e \in OSEventTblAll, NEW msg \in Word, NEW bit,
         NEW pend \in {"OK", "ABORT"},
         \/ \E W : OS_EventTaskRdy(OSRdyTbl, e, W, msg, bit, pend)
         \/ UNCHANGED waitVars
  PROVE  PendTyped'
  BY ReadyTyped, UnreadiedTyped

LEMMA AbortTyped ==
  ASSUME PendTyped, EventTyped, NEW e \in OSEventTblAll, NEW all, NEW bit, PendAbort(e, all, bit)
  PROVE  PendTyped' /\ EventTyped'
<1>1. \/ \E W : OS_EventTaskRdy(OSRdyTbl, e, W, NULL, bit, "ABORT")
      \/ UNCHANGED waitVars
  BY DEF PendAbort
<1>2. PendTyped'
  BY <1>1, OneOrAllTyped DEF Word
<1>3. UNCHANGED <<eventVars, credit>>
  BY DEF PendAbort
<1> QED
  BY <1>2, <1>3 DEF EventTyped, eventVars

LEMMA SemTyped ==
  ASSUME PendTyped, EventTyped, NEW c, WellFormed(c),
         \/ c.op = "SemAccept" /\ OSSemAccept(c.ev)
         \/ c.op = "SemPost" /\ OSSemPost(c.ev)
         \/ c.op = "SemSet" /\ OSSemSet(c.ev, c.cnt)
         \/ c.op = "SemPendAbort" /\ OSSemPendAbort(c.ev, c.all)
  PROVE  PendTyped' /\ EventTyped'
<1>1. c.ev \in OSEventTblAll
  BY EventOfCall
<1>2. OSEventCnt[c.ev] \in 0..OSSemMax /\ credit[c.ev] \in Int /\ OSSemMax \in Nat
  BY <1>1, SemAssumption DEF EventTyped
<1>3. CASE c.op = "SemAccept" /\ OSSemAccept(c.ev)
  <2>1. OSEventCnt' \in [OSEventTblAll -> 0..OSSemMax]
    BY <1>1, <1>2, <1>3 DEF OSSemAccept, EventTyped
  <2>2. credit' \in [OSEventTblAll -> Int]
    BY <1>1, <1>2, <1>3 DEF OSSemAccept, EventTyped
  <2>3. UNCHANGED <<waitVars, OSEventType, OSEventPtr>>
    BY <1>3 DEF OSSemAccept
  <2> QED
    BY <2>1, <2>2, <2>3, UnreadiedTyped DEF EventTyped
<1>4. CASE c.op = "SemPost" /\ OSSemPost(c.ev)
  <2>1. OSEventCnt' \in [OSEventTblAll -> 0..OSSemMax]
    BY <1>1, <1>2, <1>4 DEF OSSemPost, EventTyped
  <2>2. credit' \in [OSEventTblAll -> Int]
    BY <1>1, <1>2, <1>4 DEF OSSemPost, EventTyped
  <2>3. UNCHANGED <<OSEventType, OSEventPtr>>
    BY <1>4 DEF OSSemPost
  <2>4. \/ \E W : OS_EventTaskRdy(OSRdyTbl, c.ev, W, NULL, "SEM", "OK")
        \/ UNCHANGED waitVars
    BY <1>4 DEF OSSemPost
  <2>5. PendTyped'
    BY <1>1, <2>4, OneOrAllTyped DEF Word
  <2> QED
    BY <2>1, <2>2, <2>3, <2>5 DEF EventTyped
<1>5. CASE c.op = "SemSet" /\ OSSemSet(c.ev, c.cnt)
  <2>1. c.cnt \in 0..OSSemMax
    BY <1>5 DEF WellFormed
  <2>2. OSEventCnt' \in [OSEventTblAll -> 0..OSSemMax]
    BY <1>1, <2>1, <1>5 DEF OSSemSet, EventTyped
  <2>3. credit' \in [OSEventTblAll -> Int]
    BY <1>1, <1>2, <1>5, <2>1 DEF OSSemSet, EventTyped
  <2>4. UNCHANGED <<waitVars, OSEventType, OSEventPtr>>
    BY <1>5 DEF OSSemSet
  <2> QED
    BY <2>2, <2>3, <2>4, UnreadiedTyped DEF EventTyped
<1>6. CASE c.op = "SemPendAbort" /\ OSSemPendAbort(c.ev, c.all)
  BY <1>1, <1>6, AbortTyped DEF OSSemPendAbort
<1> QED
  BY <1>3, <1>4, <1>5, <1>6

LEMMA MboxTyped ==
  ASSUME FixedInv, PendTyped, EventTyped, NEW c, WellFormed(c),
         \/ c.op = "MboxAccept" /\ OSMboxAccept(c.ev)
         \/ c.op = "MboxPost" /\ OSMboxPost(c.ev, c.msg, c.all)
         \/ c.op = "MboxPendAbort" /\ OSMboxPendAbort(c.ev, c.all)
  PROVE  PendTyped' /\ EventTyped'
<1>1. c.ev \in OSEventTblAll
  BY EventOfCall
<1>2. credit[c.ev] \in Int /\ Cardinality(OSEventTbl[c.ev]) \in Nat
  BY <1>1, ListSize DEF EventTyped
<1>3. CASE c.op = "MboxAccept" /\ OSMboxAccept(c.ev)
  <2>1. OSEventPtr' \in [OSEventTblAll -> Msgs \cup OSTCBTbl \cup {NULL}]
    BY <1>3 DEF OSMboxAccept, EventTyped
  <2>2. credit' \in [OSEventTblAll -> Int]
    BY <1>1, <1>2, <1>3 DEF OSMboxAccept, EventTyped
  <2>3. UNCHANGED <<waitVars, OSEventType, OSEventCnt>>
    BY <1>3 DEF OSMboxAccept
  <2> QED
    BY <2>1, <2>2, <2>3, UnreadiedTyped DEF EventTyped
<1>4. CASE c.op = "MboxPost" /\ OSMboxPost(c.ev, c.msg, c.all)
  <2>1. c.msg \in Msgs
    BY <1>4 DEF WellFormed
  <2>2. OSEventPtr' \in [OSEventTblAll -> Msgs \cup OSTCBTbl \cup {NULL}]
    BY <1>4, <2>1 DEF OSMboxPost, EventTyped
  <2>3. credit' \in [OSEventTblAll -> Int]
    BY <1>1, <1>2, <1>4 DEF OSMboxPost, EventTyped
  <2>4. UNCHANGED <<OSEventType, OSEventCnt>>
    BY <1>4 DEF OSMboxPost
  <2>5. \/ \E W : OS_EventTaskRdy(OSRdyTbl, c.ev, W, c.msg, "MBOX", "OK")
        \/ UNCHANGED waitVars
    BY <1>4 DEF OSMboxPost
  <2>6. PendTyped'
    BY <1>1, <2>1, <2>5, OneOrAllTyped DEF Word
  <2> QED
    BY <2>2, <2>3, <2>4, <2>6 DEF EventTyped
<1>5. CASE c.op = "MboxPendAbort" /\ OSMboxPendAbort(c.ev, c.all)
  BY <1>1, <1>5, AbortTyped DEF OSMboxPendAbort
<1> QED
  BY <1>3, <1>4, <1>5

LEMMA QTyped ==
  ASSUME FixedInv, Counts, PendTyped, EventTyped, NEW c, WellFormed(c),
         \/ c.op = "QAccept" /\ OSQAccept(c.ev)
         \/ c.op = "QPost" /\ OSQPost(c.ev, c.msg, c.front, c.all)
         \/ c.op = "QFlush" /\ OSQFlush(c.ev)
         \/ c.op = "QPendAbort" /\ OSQPendAbort(c.ev, c.all)
  PROVE  PendTyped' /\ EventTyped'
<1>1. c.ev \in OSEventTblAll
  BY EventOfCall
<1>2. /\ credit[c.ev] \in Int /\ Cardinality(OSEventTbl[c.ev]) \in Nat
      /\ OSQEntries[c.ev] \in Int
  BY <1>1, ListSize, QAssumption DEF EventTyped, Counts
<1>3. CASE c.op = "QAccept" /\ OSQAccept(c.ev)
  <2>1. credit' \in [OSEventTblAll -> Int]
    BY <1>1, <1>2, <1>3 DEF OSQAccept, EventTyped
  <2>2. UNCHANGED <<waitVars, eventVars>>
    BY <1>3 DEF OSQAccept
  <2> QED
    BY <2>1, <2>2, UnreadiedTyped DEF EventTyped, eventVars
<1>4. CASE c.op = "QPost" /\ OSQPost(c.ev, c.msg, c.front, c.all)
  <2>1. c.msg \in Word
    BY <1>4 DEF WellFormed, Word
  <2>2. credit' \in [OSEventTblAll -> Int]
    BY <1>1, <1>2, <1>4 DEF OSQPost, EventTyped
  <2>3. UNCHANGED eventVars
    BY <1>4 DEF OSQPost
  <2>4. \/ \E W : OS_EventTaskRdy(OSRdyTbl, c.ev, W, c.msg, "Q", "OK")
        \/ UNCHANGED waitVars
    BY <1>4 DEF OSQPost
  <2>5. PendTyped'
    BY <1>1, <2>1, <2>4, OneOrAllTyped
  <2> QED
    BY <2>2, <2>3, <2>5 DEF EventTyped, eventVars
<1>5. CASE c.op = "QFlush" /\ OSQFlush(c.ev)
  <2>1. credit' \in [OSEventTblAll -> Int]
    BY <1>1, <1>2, <1>5 DEF OSQFlush, EventTyped
  <2>2. UNCHANGED <<waitVars, eventVars>>
    BY <1>5 DEF OSQFlush
  <2> QED
    BY <2>1, <2>2, UnreadiedTyped DEF EventTyped, eventVars
<1>6. CASE c.op = "QPendAbort" /\ OSQPendAbort(c.ev, c.all)
  BY <1>1, <1>6, AbortTyped DEF OSQPendAbort
<1> QED
  BY <1>3, <1>4, <1>5, <1>6

LEMMA ConsumedTyped ==
  ASSUME NEW flags \in SUBSET Flags, NEW w \in FlagWait, NEW rdy \in SUBSET Flags
  PROVE  /\ FlagsRdy(flags, w) \in SUBSET Flags
         /\ Consumed(flags, w, rdy) \in SUBSET Flags
<1>1. w.flags \subseteq Flags
  BY DEF FlagWait
<1> QED
  BY <1>1 DEF FlagsRdy, Consumed

LEMMA FlagPostTyped ==
  ASSUME PendTyped, FlagTyped, NEW c, WellFormed(c), c.op = "FlagPost",
         OSFlagPost(c.grp, c.flags, c.set)
  PROVE  PendTyped' /\ FlagTyped'
<1> DEFINE now == Posted(c.grp, c.flags, c.set)
           T == Released(c.grp, c.flags, c.set)
           rdy == [t \in T |-> FlagsRdy(now, OSTCBFlagNode[t])]
<1>1. c.grp \in OSFlagTbl /\ c.flags \subseteq Flags
  BY DEF WellFormed
<1>2. now \in SUBSET Flags
  BY <1>1 DEF Posted, FlagTyped
<1>3. /\ OSFlagFlags' = [OSFlagFlags EXCEPT ![c.grp] = now]
      /\ OSFlagType' = OSFlagType /\ OS_FlagTaskRdy(T, rdy)
  BY DEF OSFlagPost
<1>4. \A t \in T : OSTCBFlagNode[t] \in FlagWait
  BY DEF Released, Linked, FlagTyped
<1> HIDE DEF now, T
<1>5. \A t \in T : rdy[t] \in SUBSET Flags
  <2>1. \A t \in T : FlagsRdy(now, OSTCBFlagNode[t]) \in SUBSET Flags
    BY <1>2, <1>4, ConsumedTyped
  <2> QED
    BY <2>1
<1> HIDE DEF rdy
<1>6. OSFlagFlags' \in [OSFlagTbl -> SUBSET Flags]
  BY <1>2, <1>3 DEF FlagTyped
<1> QED
  BY <1>3, <1>5, <1>6, FlagReadyTyped DEF FlagTyped

LEMMA CommonTyped ==
  ASSUME FixedInv, Counts, FieldsTyped, NEW c, WellFormed(c), Common(c)
  PROVE  FieldsTyped'
<1>1. OSTCBDelReq' = OSTCBDelReq
  BY DEF Common, ForSem, ForQ, ForFlag, ForTask, OSTimeDlyResume, OSTaskSuspend, OSTaskResume
<1>2. CASE (\/ c.op = "SemAccept" /\ OSSemAccept(c.ev)
            \/ c.op = "SemPost" /\ OSSemPost(c.ev)
            \/ c.op = "SemSet" /\ OSSemSet(c.ev, c.cnt)
            \/ c.op = "SemPendAbort" /\ OSSemPendAbort(c.ev, c.all)) /\ ForSem
  <2>1. PendTyped' /\ EventTyped'
    BY <1>2, SemTyped DEF FieldsTyped
  <2> QED
    BY <1>1, <1>2, <2>1 DEF FieldsTyped, ForSem, ForQ, flagVars, FlagTyped
<1>3. CASE (\/ c.op = "MboxAccept" /\ OSMboxAccept(c.ev)
            \/ c.op = "MboxPost" /\ OSMboxPost(c.ev, c.msg, c.all)
            \/ c.op = "MboxPendAbort" /\ OSMboxPendAbort(c.ev, c.all)) /\ ForSem
  <2>1. PendTyped' /\ EventTyped'
    BY <1>3, MboxTyped DEF FieldsTyped
  <2> QED
    BY <1>1, <1>3, <2>1 DEF FieldsTyped, ForSem, ForQ, flagVars, FlagTyped
<1>4. CASE (\/ c.op = "QAccept" /\ OSQAccept(c.ev)
            \/ c.op = "QPost" /\ OSQPost(c.ev, c.msg, c.front, c.all)
            \/ c.op = "QFlush" /\ OSQFlush(c.ev)
            \/ c.op = "QPendAbort" /\ OSQPendAbort(c.ev, c.all)) /\ ForQ
  <2>1. PendTyped' /\ EventTyped'
    BY <1>4, QTyped DEF FieldsTyped
  <2> QED
    BY <1>1, <1>4, <2>1 DEF FieldsTyped, ForQ, flagVars, FlagTyped
<1>5. CASE c.op = "FlagAccept" /\ OSFlagAccept(c.wait) /\ ForFlag
  <2>1. c.wait \in FlagWait
    BY <1>5 DEF WellFormed
  <2>2. c.wait.grp \in OSFlagTbl
    BY <2>1 DEF FlagWait
  <2>3. OSFlagFlags[c.wait.grp] \in SUBSET Flags
    BY <2>2 DEF FieldsTyped, FlagTyped
  <2>4. Consumed(OSFlagFlags[c.wait.grp], c.wait, FlagsRdy(OSFlagFlags[c.wait.grp], c.wait))
          \in SUBSET Flags
    BY <2>1, <2>3, ConsumedTyped
  <2>5. OSFlagFlags' \in [OSFlagTbl -> SUBSET Flags]
    BY <1>5, <2>4 DEF OSFlagAccept, FieldsTyped, FlagTyped
  <2>6. UNCHANGED <<OSFlagType, OSTCBFlagNode, OSTCBFlagsRdy, waitVars, eventVars, credit>>
    BY <1>5 DEF OSFlagAccept, dataVars
  <2> QED
    BY <1>1, <2>5, <2>6, UnreadiedTyped DEF FieldsTyped, FlagTyped, EventTyped, eventVars
<1>6. CASE c.op = "FlagPost" /\ OSFlagPost(c.grp, c.flags, c.set)
  <2>1. PendTyped' /\ FlagTyped'
    BY <1>6, FlagPostTyped DEF FieldsTyped
  <2>2. UNCHANGED <<eventVars, credit>>
    BY <1>6 DEF OSFlagPost, OS_FlagTaskRdy
  <2> QED
    BY <1>1, <2>1, <2>2 DEF FieldsTyped, EventTyped, eventVars
<1>7. CASE OSTimeDlyResume(c.prio) \/ OSTaskSuspend(c.prio) \/ OSTaskResume(c.prio)
  <2>1. PendTyped'
    BY <1>7, ServiceTyped DEF FieldsTyped
  <2>2. UNCHANGED <<eventVars, credit, flagVars>>
    BY <1>7 DEF OSTimeDlyResume, OSTaskSuspend, OSTaskResume
  <2> QED
    BY <1>1, <2>1, <2>2 DEF FieldsTyped, EventTyped, eventVars, FlagTyped, flagVars
<1> QED
  BY <1>2, <1>3, <1>4, <1>5, <1>6, <1>7 DEF Common

-----------------------------------------------------------------------------
(* The services of tasks.                                                  *)
LEMMA WaitTyped ==
  ASSUME FieldsTyped, NEW t, NEW e \in OSEventTblAll, NEW bit \in OS_STAT_PEND_ANY,
         NEW timeout \in Nat, OS_EventTaskWait(t, e, bit, timeout), UNCHANGED flagVars,
         OSTCBDelReq' = OSTCBDelReq
  PROVE  FieldsTyped'
<1>1. /\ OSTCBStat' = [OSTCBStat EXCEPT ![t] = @ \cup {bit}]
      /\ OSTCBStatPend' = [OSTCBStatPend EXCEPT ![t] = "OK"]
      /\ OSTCBDly' = [OSTCBDly EXCEPT ![t] = timeout]
      /\ OSTCBEventPtr' = [OSTCBEventPtr EXCEPT ![t] = e]
      /\ UNCHANGED <<OSTCBEventMultiPtr, OSTCBMsg, eventVars, credit>>
  BY DEF OS_EventTaskWait, histVars
<1>2. PendTyped'
  BY <1>1 DEF FieldsTyped, PendTyped
<1> QED
  BY <1>1, <1>2 DEF FieldsTyped, EventTyped, eventVars, FlagTyped, flagVars

LEMMA EventWaitTyped ==
  ASSUME FixedInv, Counts, FieldsTyped, NEW t, NEW c, WellFormed(c),
         \/ c.op = "SemPend" /\ OSSemPend(t, c.ev, c.timeout) /\ ForSem
         \/ c.op = "MboxPend" /\ OSMboxPend(t, c.ev, c.timeout) /\ ForSem
         \/ c.op = "QPend" /\ OSQPend(t, c.ev, c.timeout) /\ ForQ
  PROVE  FieldsTyped'
<1>1. c.ev \in OSEventTblAll /\ c.timeout \in Nat
  BY EventOfCall DEF WellFormed, PendOps
<1>2. UNCHANGED flagVars /\ OSTCBDelReq' = OSTCBDelReq
  BY DEF ForSem, ForQ
<1>3. ASSUME NEW bit \in OS_STAT_PEND_ANY, OS_EventTaskWait(t, c.ev, bit, c.timeout)
      PROVE  FieldsTyped'
  BY <1>1, <1>2, <1>3, WaitTyped
<1>4. ASSUME PendTyped', EventTyped'
      PROVE  FieldsTyped'
  BY <1>2, <1>4 DEF FieldsTyped, FlagTyped, flagVars
<1>5. CASE OSSemPend(t, c.ev, c.timeout)
  <2>1. CASE OSSemAccept(c.ev) /\ OSEventCnt[c.ev] > 0
    <3>1. OSEventCnt[c.ev] \in 0..OSSemMax /\ credit[c.ev] \in Int /\ OSSemMax \in Nat
      BY <1>1, SemAssumption DEF FieldsTyped, EventTyped
    <3>2. OSEventCnt' \in [OSEventTblAll -> 0..OSSemMax]
      BY <1>1, <2>1, <3>1 DEF OSSemAccept, FieldsTyped, EventTyped
    <3>3. credit' \in [OSEventTblAll -> Int]
      BY <1>1, <2>1, <3>1 DEF OSSemAccept, FieldsTyped, EventTyped
    <3>4. UNCHANGED <<waitVars, OSEventType, OSEventPtr>>
      BY <2>1 DEF OSSemAccept
    <3>5. PendTyped' /\ EventTyped'
      BY <3>2, <3>3, <3>4, UnreadiedTyped DEF FieldsTyped, EventTyped
    <3> QED
      BY <1>4, <3>5
  <2> QED
    BY <1>3, <1>5, <2>1 DEF OSSemPend, OS_STAT_PEND_ANY
<1>6. CASE OSMboxPend(t, c.ev, c.timeout)
  <2>1. CASE OSMboxAccept(c.ev)
    <3>1. credit[c.ev] \in Int
      BY <1>1 DEF FieldsTyped, EventTyped
    <3>2. OSEventPtr' \in [OSEventTblAll -> Msgs \cup OSTCBTbl \cup {NULL}]
      BY <2>1 DEF OSMboxAccept, FieldsTyped, EventTyped
    <3>3. credit' \in [OSEventTblAll -> Int]
      BY <1>1, <2>1, <3>1 DEF OSMboxAccept, FieldsTyped, EventTyped
    <3>4. UNCHANGED <<waitVars, OSEventType, OSEventCnt>>
      BY <2>1 DEF OSMboxAccept
    <3>5. PendTyped' /\ EventTyped'
      BY <3>2, <3>3, <3>4, UnreadiedTyped DEF FieldsTyped, EventTyped
    <3> QED
      BY <1>4, <3>5
  <2> QED
    BY <1>3, <1>6, <2>1 DEF OSMboxPend, OS_STAT_PEND_ANY
<1>7. CASE OSQPend(t, c.ev, c.timeout)
  <2>1. CASE OSQAccept(c.ev)
    <3>1. credit[c.ev] \in Int
      BY <1>1 DEF FieldsTyped, EventTyped
    <3>2. credit' \in [OSEventTblAll -> Int]
      BY <1>1, <2>1, <3>1 DEF OSQAccept, FieldsTyped, EventTyped
    <3>3. UNCHANGED <<waitVars, eventVars>>
      BY <2>1 DEF OSQAccept
    <3>4. PendTyped' /\ EventTyped'
      BY <3>2, <3>3, UnreadiedTyped DEF FieldsTyped, EventTyped, eventVars
    <3> QED
      BY <1>4, <3>4
  <2> QED
    BY <1>3, <1>7, <2>1 DEF OSQPend, OS_STAT_PEND_ANY
<1> QED
  BY <1>5, <1>6, <1>7

LEMMA EventDelTyped ==
  ASSUME FixedInv, PendTyped, EventTyped, NEW t, NEW e \in OSEventTblAll, NEW always, NEW bit,
         EventDel(t, e, always, bit)
  PROVE  PendTyped' /\ EventTyped'
<1>1. \/ \E W : OS_EventTaskRdy(OSRdyTbl, e, W, NULL, bit, "OK")
      \/ UNCHANGED waitVars
  BY DEF EventDel
<1>2. PendTyped'
  BY <1>1, OneOrAllTyped DEF Word
<1>3. CreditAtDel(e) \in Int
  <2>1. IsFiniteSet(Prio)
    BY CoreAssumption, FS_Interval DEF Prio
  <2>a. Granted(e) \subseteq OSTCBTbl
    BY DEF Granted
  <2>b. Granted(e) \subseteq Prio
    BY <2>a, CoreAssumption
  <2>2. Cardinality(Granted(e)) \in Nat
    BY <2>1, <2>b, FS_Subset, FS_CardinalityType
  <2> QED
    BY <2>2, ListSize DEF CreditAtDel
<1>4. 0 \in 0..OSSemMax
  BY SemAssumption
<1>5. /\ OSEventType' \in [OSEventTblAll -> {"SEM", "MBOX", "Q", "MUTEX", "UNUSED"}]
      /\ OSEventCnt' \in [OSEventTblAll -> 0..OSSemMax]
      /\ OSEventPtr' \in [OSEventTblAll -> Msgs \cup OSTCBTbl \cup {NULL}]
  BY <1>4 DEF EventDel, EventTyped
<1>6. credit' \in [OSEventTblAll -> Int]
  BY <1>3 DEF EventDel, EventTyped
<1> QED
  BY <1>2, <1>5, <1>6 DEF EventTyped

LEMMA EventCreateTyped ==
  ASSUME PendTyped, EventTyped, NEW t, NEW e \in OSEventTblAll, NEW type \in Waitable,
         NEW cnt \in 0..OSSemMax, NEW ptr \in Word, EventCreate(t, e, type, cnt, ptr)
  PROVE  PendTyped' /\ EventTyped'
<1>1. UNCHANGED pendVars
  BY DEF EventCreate
<1>2. PendTyped'
  BY <1>1 DEF PendTyped, pendVars
<1>3. credit[e] \in Int /\ cnt \in Int
  BY SemAssumption DEF EventTyped
<1>4. credit' \in [OSEventTblAll -> Int]
  BY <1>3 DEF EventCreate, EventTyped
<1>5. /\ OSEventType' \in [OSEventTblAll -> {"SEM", "MBOX", "Q", "MUTEX", "UNUSED"}]
      /\ OSEventCnt' \in [OSEventTblAll -> 0..OSSemMax]
      /\ OSEventPtr' \in [OSEventTblAll -> Msgs \cup OSTCBTbl \cup {NULL}]
  BY DEF EventCreate, EventTyped, eventVars, Waitable, Word
<1> QED
  BY <1>2, <1>4, <1>5 DEF EventTyped

LEMMA MultiTyped ==
  ASSUME Counts, FieldsTyped, NEW t, NEW E \in SUBSET OSEventTblAll, NEW timeout \in Nat,
         OSEventPendMulti(t, E, timeout), ForQ
  PROVE  FieldsTyped'
<1>1. ASSUME PendTyped', EventTyped'
      PROVE  FieldsTyped'
  BY <1>1 DEF FieldsTyped, ForQ, FlagTyped, flagVars
<1>2. CASE \E A : (\A e \in A : e \in E /\ Available(e)) /\ TakeAll(A)
  <2>1. PICK A : (\A e \in A : e \in E /\ Available(e)) /\ TakeAll(A)
    BY <1>2
  <2>2. /\ OSEventCnt' = [e \in OSEventTblAll |-> OSEventCnt[e] -
             (IF e \in A /\ OSEventType[e] = "SEM" THEN 1 ELSE 0)]
        /\ OSEventPtr' = [e \in OSEventTblAll |->
             IF e \in A /\ OSEventType[e] = "MBOX" THEN NULL ELSE OSEventPtr[e]]
        /\ credit' = [e \in OSEventTblAll |-> credit[e] - (IF e \in A THEN 1 ELSE 0)]
        /\ UNCHANGED <<waitVars, OSEventType>>
    BY <2>1 DEF TakeAll
  <2>3. \A e \in OSEventTblAll :
          OSEventCnt[e] - (IF e \in A /\ OSEventType[e] = "SEM" THEN 1 ELSE 0) \in 0..OSSemMax
    <3> TAKE e \in OSEventTblAll
    <3>1. OSEventCnt[e] \in 0..OSSemMax /\ OSSemMax \in Nat
      BY SemAssumption DEF FieldsTyped, EventTyped
    <3>2. e \in A /\ OSEventType[e] = "SEM" => OSEventCnt[e] > 0
      BY <2>1 DEF Available
    <3> QED
      BY <3>1, <3>2
  <2>4. OSEventCnt' \in [OSEventTblAll -> 0..OSSemMax]
    BY <2>2, <2>3
  <2>5. OSEventPtr' \in [OSEventTblAll -> Msgs \cup OSTCBTbl \cup {NULL}]
    BY <2>2 DEF FieldsTyped, EventTyped
  <2>6. \A e \in OSEventTblAll : credit[e] - (IF e \in A THEN 1 ELSE 0) \in Int
    BY DEF FieldsTyped, EventTyped
  <2>7. EventTyped'
    BY <2>2, <2>4, <2>5, <2>6 DEF FieldsTyped, EventTyped
  <2> QED
    BY <1>1, <2>2, <2>7, UnreadiedTyped DEF FieldsTyped
<1>3. CASE (\A e \in E : OSEventType[e] \in Waitable) /\ OS_EventTaskWaitMulti(t, E, timeout)
  <2>1. {OSEventType[e] : e \in E} \subseteq OS_STAT_PEND_ANY
    BY <1>3 DEF Waitable, OS_STAT_PEND_ANY
  <2>2. /\ OSTCBStat' = [OSTCBStat EXCEPT
             ![t] = @ \cup {OSEventType[e] : e \in E} \cup {"MULTI"}]
        /\ OSTCBStatPend' = [OSTCBStatPend EXCEPT ![t] = "OK"]
        /\ OSTCBDly' = [OSTCBDly EXCEPT ![t] = timeout]
        /\ OSTCBEventPtr' = [OSTCBEventPtr EXCEPT ![t] = NULL]
        /\ OSTCBEventMultiPtr' = [OSTCBEventMultiPtr EXCEPT ![t] = E]
        /\ UNCHANGED <<OSTCBMsg, eventVars, credit>>
    BY <1>3 DEF OS_EventTaskWaitMulti, histVars
  <2>3. OSTCBStat' \in [OSTCBTbl -> SUBSET (OS_STAT_PEND_ANY \cup {"MULTI", "SUSPEND"})]
    BY <2>1, <2>2 DEF FieldsTyped, PendTyped
  <2>4. PendTyped'
    BY <2>2, <2>3 DEF FieldsTyped, PendTyped
  <2> QED
    BY <1>1, <2>2, <2>4 DEF FieldsTyped, EventTyped, eventVars
<1> QED
  BY <1>2, <1>3 DEF OSEventPendMulti

LEMMA FlagPendTyped ==
  ASSUME FieldsTyped, NEW t, NEW w \in FlagWait, NEW timeout \in Nat, OSFlagPend(t, w, timeout),
         OSTCBDelReq' = OSTCBDelReq
  PROVE  FieldsTyped'
<1>1. w.grp \in OSFlagTbl
  BY DEF FlagWait
<1>2. OSFlagFlags[w.grp] \in SUBSET Flags
  BY <1>1 DEF FieldsTyped, FlagTyped
<1>3. CASE Met(OSFlagFlags[w.grp], w)
  <2> DEFINE rdy == FlagsRdy(OSFlagFlags[w.grp], w)
             left == Consumed(OSFlagFlags[w.grp], w, rdy)
  <2>1. rdy \in SUBSET Flags /\ left \in SUBSET Flags
    BY <1>2, ConsumedTyped
  <2>2. /\ OSFlagFlags' = [OSFlagFlags EXCEPT ![w.grp] = left]
        /\ OSTCBFlagsRdy' = [OSTCBFlagsRdy EXCEPT ![t] = rdy]
        /\ UNCHANGED <<OSFlagType, OSTCBFlagNode, waitVars, eventVars, credit>>
    BY <1>3 DEF OSFlagPend, dataVars
  <2> HIDE DEF rdy, left
  <2>3. FlagTyped'
    BY <2>1, <2>2 DEF FieldsTyped, FlagTyped
  <2> QED
    BY <2>2, <2>3, UnreadiedTyped DEF FieldsTyped, EventTyped, eventVars
<1>4. CASE ~Met(OSFlagFlags[w.grp], w)
  <2>1. /\ OSTCBStat' = [OSTCBStat EXCEPT ![t] = @ \cup {"FLAG"}]
        /\ OSTCBStatPend' = [OSTCBStatPend EXCEPT ![t] = "OK"]
        /\ OSTCBDly' = [OSTCBDly EXCEPT ![t] = timeout]
        /\ OSTCBFlagNode' = [OSTCBFlagNode EXCEPT ![t] = w]
        /\ UNCHANGED <<OSTCBEventPtr, OSTCBEventMultiPtr, OSTCBMsg, eventVars, credit,
                       OSFlagType, OSFlagFlags, OSTCBFlagsRdy>>
    BY <1>4 DEF OSFlagPend, OS_FlagBlock, histVars
  <2>2. PendTyped'
    BY <2>1 DEF FieldsTyped, PendTyped, OS_STAT_PEND_ANY
  <2>3. FlagTyped'
    BY <2>1 DEF FieldsTyped, FlagTyped
  <2> QED
    BY <2>1, <2>2, <2>3 DEF FieldsTyped, EventTyped, eventVars
<1> QED
  BY <1>3, <1>4

(* The sections of tasks.                                                  *)
LEMMA TaskSectionTyped ==
  ASSUME FixedTasks, FixedInv, Counts, FieldsTyped, NEW t \in OSTCBTbl, TaskSection(t)
  PROVE  FieldsTyped'
<1> DEFINE c == call[t]
<1>0. pc[t] = "enter"
  BY DEF TaskSection, Running
<1>1. /\ WellFormed(c)
      /\ c.op \notin {"TaskCreate", "TaskDel", "ChangePrio", "MutexAccept", "MutexPend",
                      "MutexPost", "MutexCreate", "MutexDel"}
  BY <1>0, Actor
<1>a. ASSUME PendTyped', EventTyped', UNCHANGED flagVars, OSTCBDelReq' = OSTCBDelReq
      PROVE  FieldsTyped'
  BY <1>a DEF FieldsTyped, FlagTyped, flagVars
<1>b. ASSUME PendTyped', FlagTyped', UNCHANGED <<eventVars, credit>>, OSTCBDelReq' \subseteq OSTCBTbl
      PROVE  FieldsTyped'
  BY <1>b DEF FieldsTyped, EventTyped, eventVars
<1>2. CASE \/ c.op = "SemPend" /\ OSSemPend(t, c.ev, c.timeout) /\ ForSem
           \/ c.op = "MboxPend" /\ OSMboxPend(t, c.ev, c.timeout) /\ ForSem
           \/ c.op = "QPend" /\ OSQPend(t, c.ev, c.timeout) /\ ForQ
  BY <1>1, <1>2, EventWaitTyped
<1>3. CASE \/ c.op = "SemCreate" /\ OSSemCreate(t, c.ev, c.cnt) /\ ForSem
           \/ c.op = "MboxCreate" /\ OSMboxCreate(t, c.ev, c.msg) /\ ForSem
           \/ c.op = "QCreate" /\ OSQCreate(t, c.ev) /\ ForQ
  <2>1. UNCHANGED flagVars /\ OSTCBDelReq' = OSTCBDelReq /\ c.ev \in OSEventTblAll
    BY <1>1, <1>3, EventOfCall DEF ForSem, ForQ
  <2>2. /\ 0 \in 0..OSSemMax /\ NULL \in Word
        /\ c.op = "SemCreate" => c.cnt \in 0..OSSemMax
        /\ c.op = "MboxCreate" => c.msg \in Word
    BY <1>1, SemAssumption DEF WellFormed, Word
  <2>3. \E type \in Waitable, cnt \in 0..OSSemMax, ptr \in Word :
          EventCreate(t, c.ev, type, cnt, ptr)
    <3>1. CASE c.op = "SemCreate" /\ OSSemCreate(t, c.ev, c.cnt)
      BY <2>2, <3>1 DEF OSSemCreate, Waitable
    <3>2. CASE c.op = "MboxCreate" /\ OSMboxCreate(t, c.ev, c.msg)
      BY <2>2, <3>2 DEF OSMboxCreate, Waitable
    <3>3. CASE OSQCreate(t, c.ev)
      BY <2>2, <3>3 DEF OSQCreate, Waitable
    <3> QED
      BY <1>3, <3>1, <3>2, <3>3
  <2>4. PendTyped' /\ EventTyped'
    BY <2>1, <2>3, EventCreateTyped DEF FieldsTyped
  <2> QED
    BY <1>a, <2>1, <2>4
<1>4. CASE \/ c.op = "SemDel" /\ OSSemDel(t, c.ev, c.all) /\ ForSem
           \/ c.op = "MboxDel" /\ OSMboxDel(t, c.ev, c.all) /\ ForSem
           \/ c.op = "QDel" /\ OSQDel(t, c.ev, c.all) /\ ForQ
  <2>1. UNCHANGED flagVars /\ OSTCBDelReq' = OSTCBDelReq /\ c.ev \in OSEventTblAll
    BY <1>1, <1>4, EventOfCall DEF ForSem, ForQ
  <2>2. \E bit : EventDel(t, c.ev, c.all, bit)
    BY <1>4 DEF OSSemDel, OSMboxDel, OSQDel
  <2>3. PendTyped' /\ EventTyped'
    BY <2>1, <2>2, EventDelTyped DEF FieldsTyped
  <2> QED
    BY <1>a, <2>1, <2>3
<1>5. CASE c.op = "PendMulti" /\ OSEventPendMulti(t, c.evs, c.timeout) /\ ForQ
  <2>1. c.evs \subseteq OSEventTblAll /\ c.timeout \in Nat
    BY <1>1, <1>5 DEF WellFormed, PendOps
  <2> QED
    BY <1>5, <2>1, MultiTyped
<1>6. CASE c.op = "FlagPend" /\ OSFlagPend(t, c.wait, c.timeout) /\ ForFlag
  <2>1. c.wait \in FlagWait /\ c.timeout \in Nat /\ OSTCBDelReq' = OSTCBDelReq
    BY <1>1, <1>6 DEF WellFormed, PendOps, ForFlag
  <2> QED
    BY <1>6, <2>1, FlagPendTyped
<1>7. CASE c.op = "FlagCreate" /\ OSFlagCreate(t, c.grp, c.flags) /\ ForFlag
  <2>1. c.grp \in OSFlagTbl /\ c.flags \in SUBSET Flags /\ OSTCBDelReq' \subseteq OSTCBTbl
    BY <1>1, <1>7 DEF WellFormed, ForFlag, FieldsTyped
  <2>2. UNCHANGED <<OSTCBFlagNode, OSTCBFlagsRdy, waitVars, eventVars, credit>>
    BY <1>7 DEF OSFlagCreate, dataVars
  <2>3. /\ OSFlagType' = OSFlagType \/ OSFlagType' = [OSFlagType EXCEPT ![c.grp] = "FLAG"]
        /\ OSFlagFlags' = OSFlagFlags \/ OSFlagFlags' = [OSFlagFlags EXCEPT ![c.grp] = c.flags]
    BY <1>7 DEF OSFlagCreate
  <2> HIDE DEF c
  <2>4. FlagTyped'
    BY <2>1, <2>2, <2>3 DEF FieldsTyped, FlagTyped
  <2> QED
    BY <1>b, <2>1, <2>2, <2>4, UnreadiedTyped DEF FieldsTyped
<1>8. CASE c.op = "FlagDel" /\ OSFlagDel(t, c.grp, c.all) /\ ForFlag
  <2> DEFINE T == IF c.all THEN Linked(c.grp) ELSE {}
             rdy == [u \in OSTCBTbl |-> {}]
  <2>1. OSTCBDelReq' \subseteq OSTCBTbl
    BY <1>8 DEF ForFlag, FieldsTyped
  <2>2. /\ OS_FlagTaskRdy(T, rdy)
        /\ OSFlagType' = OSFlagType \/ OSFlagType' = [OSFlagType EXCEPT ![c.grp] = "UNUSED"]
        /\ OSFlagFlags' = OSFlagFlags \/ OSFlagFlags' = [OSFlagFlags EXCEPT ![c.grp] = {}]
    BY <1>8 DEF OSFlagDel
  <2>3. \A u \in T : rdy[u] \in SUBSET Flags
    BY DEF Linked
  <2>4. UNCHANGED <<eventVars, credit>>
    BY <2>2 DEF OS_FlagTaskRdy
  <2> HIDE DEF T, rdy, c
  <2>5. /\ OSFlagType' \in [OSFlagTbl -> {"FLAG", "UNUSED"}]
        /\ OSFlagFlags' \in [OSFlagTbl -> SUBSET Flags]
    BY <2>2 DEF FieldsTyped, FlagTyped
  <2>6. PendTyped' /\ FlagTyped'
    BY <2>2, <2>3, <2>5, FlagReadyTyped DEF FieldsTyped
  <2> QED
    BY <1>b, <2>1, <2>4, <2>6
<1>9. CASE c.op = "TimeDly" /\ OSTimeDly(t, c.timeout) /\ ForTask
  <2>1. c.timeout \in Nat
    BY <1>1, <1>9 DEF WellFormed
  <2>2. /\ OSTCBDly' = [OSTCBDly EXCEPT ![t] = c.timeout]
        /\ UNCHANGED <<OSTCBStat, OSTCBStatPend, OSTCBEventPtr, OSTCBEventMultiPtr, OSTCBMsg,
                       eventVars, credit, flagVars, OSTCBDelReq>>
    BY <1>9 DEF OSTimeDly
  <2>3. PendTyped'
    BY <2>1, <2>2 DEF FieldsTyped, PendTyped
  <2>4. EventTyped'
    BY <2>2 DEF FieldsTyped, EventTyped, eventVars
  <2> QED
    BY <1>a, <2>2, <2>3, <2>4
<1>10. CASE OSTaskDelReq(t, c.prio)
  <2>1. UNCHANGED <<waitVars, eventVars, credit, flagVars>> /\ OSTCBDelReq' \subseteq OSTCBTbl
    BY <1>10 DEF OSTaskDelReq, Exists, dataVars, FieldsTyped
  <2> QED
    BY <1>b, <2>1, UnreadiedTyped DEF FieldsTyped, FlagTyped, flagVars
<1>11. CASE (OSSchedLock(t) \/ OSSchedUnlock(t)) /\ ForSem
  <2>1. UNCHANGED <<waitVars, eventVars, credit, flagVars, OSTCBDelReq>>
    BY <1>11 DEF OSSchedLock, OSSchedUnlock, ForSem, ForQ, dataVars, histVars
  <2>2. EventTyped'
    BY <2>1 DEF FieldsTyped, EventTyped, eventVars
  <2> QED
    BY <1>a, <2>1, <2>2, UnreadiedTyped DEF FieldsTyped
<1> HIDE DEF c
<1> QED
  BY <1>1, <1>2, <1>3, <1>4, <1>5, <1>6, <1>7, <1>8, <1>9, <1>10, <1>11 DEF TaskSection, c

LEMMA ReturnTyped ==
  ASSUME FieldsTyped, NEW t, NEW e,
         OSTCBStat' = [OSTCBStat EXCEPT ![t] = {}],
         OSTCBStatPend' = [OSTCBStatPend EXCEPT ![t] = "OK"],
         OSTCBEventPtr' = [OSTCBEventPtr EXCEPT ![t] = NULL],
         OSTCBEventMultiPtr' = [OSTCBEventMultiPtr EXCEPT ![t] = {}],
         OSTCBMsg' = [OSTCBMsg EXCEPT ![t] = NULL],
         credit' = [credit EXCEPT ![e] = @ - 1] \/ credit' = credit,
         UNCHANGED <<OSTCBDly, eventVars>>
  PROVE  PendTyped' /\ EventTyped'
<1>1. NULL \in Word
  BY DEF Word
<1>2. /\ OSTCBStat' \in [OSTCBTbl -> SUBSET (OS_STAT_PEND_ANY \cup {"MULTI", "SUSPEND"})]
      /\ OSTCBStatPend' \in [OSTCBTbl -> {"OK", "TO", "ABORT"}]
      /\ OSTCBDly' \in [OSTCBTbl -> Nat]
  BY DEF FieldsTyped, PendTyped
<1>3. /\ OSTCBEventPtr' \in [OSTCBTbl -> OSEventTblAll \cup {NULL}]
      /\ OSTCBEventMultiPtr' \in [OSTCBTbl -> SUBSET OSEventTblAll]
      /\ OSTCBMsg' \in [OSTCBTbl -> Word]
  BY <1>1 DEF FieldsTyped, PendTyped
<1>4. credit' \in [OSEventTblAll -> Int]
  BY DEF FieldsTyped, EventTyped
<1> QED
  BY <1>2, <1>3, <1>4 DEF FieldsTyped, PendTyped, EventTyped, eventVars

LEMMA LaterSectionTyped ==
  ASSUME FixedTasks, FixedInv, FieldsTyped, NEW t \in OSTCBTbl, LaterSection(t)
  PROVE  FieldsTyped'
<1> DEFINE c == call[t]
<1>1. pc[t] = "resume"
  BY LaterOutcome
<1>2. WellFormed(c)
  BY <1>1, Actor
<1>3. ASSUME PendTyped', EventTyped', ForQ
      PROVE  FieldsTyped'
  BY <1>3 DEF FieldsTyped, FlagTyped, ForQ, flagVars
<1>4. CASE PendReturn(t, c.ev) /\ ForSem
  <2>1. PendTyped' /\ EventTyped'
    BY <1>4, ReturnTyped DEF PendReturn
  <2> QED
    BY <1>3, <1>4, <2>1 DEF ForSem
<1>5. CASE PendMultiReturn(t, c.evs) /\ ForQ
  <2>1. CASE UNCHANGED <<dataVars, credit>>
    <3>1. PendTyped' /\ EventTyped'
      BY <2>1, UnreadiedTyped DEF dataVars, FieldsTyped, EventTyped, eventVars
    <3> QED
      BY <1>3, <1>5, <3>1
  <2>2. CASE /\ OSTCBStat' = [OSTCBStat EXCEPT ![t] = {}]
             /\ OSTCBStatPend' = [OSTCBStatPend EXCEPT ![t] = "OK"]
             /\ OSTCBEventPtr' = [OSTCBEventPtr EXCEPT ![t] = NULL]
             /\ OSTCBEventMultiPtr' = [OSTCBEventMultiPtr EXCEPT ![t] = {}]
             /\ OSTCBMsg' = [OSTCBMsg EXCEPT ![t] = NULL]
             /\ \/ credit' = [credit EXCEPT ![OSTCBEventPtr[t]] = @ - 1]
                \/ credit' = credit
             /\ UNCHANGED <<OSTCBDly, eventVars>>
    <3>1. PendTyped' /\ EventTyped'
      BY <2>2, ReturnTyped
    <3> QED
      BY <1>3, <1>5, <3>1
  <2> QED
    BY <1>5, <2>1, <2>2 DEF PendMultiReturn
<1>6. CASE c.op = "FlagPend" /\ FlagPendReturn(t, c.wait) /\ ForFlag
  <2>1. c.wait \in FlagWait /\ c.wait.grp \in OSFlagTbl
    BY <1>2, <1>6 DEF WellFormed, FlagWait
  <2> DEFINE g == c.wait.grp
             left == Consumed(OSFlagFlags[g], c.wait, OSTCBFlagsRdy[t])
  <2>2. left \in SUBSET Flags
    BY <2>1, ConsumedTyped DEF FieldsTyped, FlagTyped
  <2>3. /\ OSTCBStatPend' = OSTCBStatPend \/ OSTCBStatPend' = [OSTCBStatPend EXCEPT ![t] = "OK"]
        /\ OSTCBStat' = OSTCBStat \/ OSTCBStat' = [OSTCBStat EXCEPT ![t] = {}]
        /\ OSTCBFlagNode' = OSTCBFlagNode \/ OSTCBFlagNode' = [OSTCBFlagNode EXCEPT ![t] = NULL]
        /\ OSFlagFlags' = OSFlagFlags \/ OSFlagFlags' = [OSFlagFlags EXCEPT ![g] = left]
    BY <1>6 DEF FlagPendReturn
  <2>4. UNCHANGED <<OSTCBDly, OSTCBEventPtr, OSTCBEventMultiPtr, OSTCBMsg, eventVars, credit,
                    OSFlagType, OSTCBFlagsRdy, OSTCBDelReq>>
    BY <1>6 DEF FlagPendReturn, ForFlag
  <2> HIDE DEF g, left
  <2>5. PendTyped'
    <3>1. OSTCBStat' \in [OSTCBTbl -> SUBSET (OS_STAT_PEND_ANY \cup {"MULTI", "SUSPEND"})]
      BY <2>3 DEF FieldsTyped, PendTyped
    <3>2. OSTCBStatPend' \in [OSTCBTbl -> {"OK", "TO", "ABORT"}]
      BY <2>3 DEF FieldsTyped, PendTyped
    <3> QED
      BY <2>4, <3>1, <3>2 DEF FieldsTyped, PendTyped
  <2>6. FlagTyped'
    BY <2>2, <2>3, <2>4 DEF FieldsTyped, FlagTyped
  <2> QED
    BY <2>4, <2>5, <2>6 DEF FieldsTyped, EventTyped, eventVars
<1> HIDE DEF c
<1>7. pc[t] \notin {"create", "link", "delete"}
  BY <1>1
<1> QED
  BY <1>4, <1>5, <1>6, <1>7 DEF LaterSection, c, TCBInitTake, TCBInitLink, TaskDelEnd

LEMMA TypesInit ==
  ASSUME Init
  PROVE  FieldsTyped /\ TaskTyped
<1>1. app \in Apps
  BY DEF Init
<1>2. \A e \in OSEventTblAll : EventFormed(app.event[e])
  BY <1>1, AppsAssumption
<1>3. PendTyped
  <2>1. NULL \in Word
    BY DEF Word
  <2> QED
    BY <2>1 DEF Init, PendTyped
<1>4. EventTyped
  <2>1. \A e \in OSEventTblAll : /\ app.event[e].type \in {"SEM", "MBOX", "Q", "MUTEX", "UNUSED"}
                                 /\ app.event[e].cnt \in 0..OSSemMax
    BY <1>2, SemAssumption DEF EventFormed
  <2>2. /\ OSEventType = [e \in OSEventTblAll |-> app.event[e].type]
        /\ OSEventCnt = [e \in OSEventTblAll |-> app.event[e].cnt]
        /\ OSEventPtr = [e \in OSEventTblAll |-> NULL]
        /\ credit = [e \in OSEventTblAll |-> app.event[e].cnt]
    BY DEF Init
  <2>3. \A e \in OSEventTblAll : app.event[e].cnt \in Int
    BY <2>1, SemAssumption
  <2> QED
    BY <2>1, <2>2, <2>3 DEF EventTyped
<1>5. FlagTyped
  BY DEF Init, FlagInit, FlagTyped
<1>6. TaskTyped
  <2>1. app.tasks \subseteq OSTCBTbl
    BY <1>1, AppsAssumption
  <2>2. OSTCBPrioTbl \in [Prio -> OSTCBTbl \cup {NULL, OS_TCB_RESERVED}]
    BY <2>1 DEF Init
  <2>3. OSTCBFreeList \subseteq OSTCBTbl
    BY DEF Init
  <2> QED
    BY <2>2, <2>3 DEF TaskTyped
<1>7. OSTCBDelReq \subseteq OSTCBTbl
  BY DEF Init
<1> QED
  BY <1>3, <1>4, <1>5, <1>6, <1>7 DEF FieldsTyped

LEMMA TypesNext ==
  ASSUME FixedTasks, FixedInv, Counts, FieldsTyped, TaskTyped, [Next]_vars
  PROVE  FieldsTyped' /\ TaskTyped'
<1>1. ASSUME UNCHANGED taskVars
      PROVE  TaskTyped'
  BY <1>1 DEF TaskTyped, taskVars
<1>2. ASSUME UNCHANGED <<pendVars, eventVars, credit, flagVars, OSTCBDelReq>>
      PROVE  FieldsTyped'
  BY <1>2 DEF FieldsTyped, PendTyped, EventTyped, FlagTyped, pendVars, eventVars, flagVars
<1>3. CASE Tick
  <2>1. PendTyped' /\ UNCHANGED taskVars
    BY <1>3, TickTyped DEF Tick, OSTimeTick, FieldsTyped
  <2>2. UNCHANGED <<eventVars, credit, flagVars, OSTCBDelReq>>
    BY <1>3 DEF Tick, OSTimeTick
  <2> QED
    BY <1>1, <2>1, <2>2 DEF FieldsTyped, EventTyped, FlagTyped, eventVars, flagVars
<1>4. CASE Interrupt
  <2>1. PICK c \in app.isr : Common(c) /\ OSIntExit
    BY <1>4 DEF Interrupt
  <2>2. WellFormed(c) /\ app' = app
    BY <2>1, TasksArePrios DEF FixedInv, Controlled, OSIntExit
  <2> QED
    BY <1>1, <2>1, <2>2, CommonTyped, CommonLists
<1>5. ASSUME NEW t \in OSTCBTbl, Step(t)
      PROVE  FieldsTyped' /\ TaskTyped'
  <2>1. CASE CommonSection(t)
    <3>1. WellFormed(call[t]) /\ Common(call[t])
      BY <2>1, Actor DEF CommonSection, Running
    <3>2. UNCHANGED taskVars
      BY <2>1, CommonOutcome DEF Outcome
    <3> QED
      BY <1>1, <3>1, <3>2, CommonTyped
  <2>2. CASE TaskSection(t)
    BY <1>1, <2>2, TaskSectionTyped, TaskOutcome DEF Outcome
  <2>3. CASE LaterSection(t)
    BY <1>1, <2>3, LaterSectionTyped, LaterOutcome DEF Outcome
  <2>4. CASE Call(t)
    BY <1>1, <1>2, <2>4 DEF Call, dataVars, waitVars, histVars
  <2>5. CASE Reschedule(t)
    BY <1>1, <1>2, <2>5 DEF Reschedule, OS_Sched, dataVars, waitVars
  <2> QED
    BY <1>5, <2>1, <2>2, <2>3, <2>4, <2>5 DEF Step
<1>6. CASE UNCHANGED vars
  BY <1>1, <1>2, <1>6 DEF vars, dataVars, waitVars, histVars
<1> QED
  BY <1>3, <1>4, <1>5, <1>6 DEF Next

LEMMA TypesSay ==
  ASSUME FixedInv, RingInv, FieldsTyped, TaskTyped
  PROVE  TypeOK
<1>1. /\ app \in Apps /\ Tasks \subseteq OSTCBTbl /\ OSTCBTbl \subseteq Prio
      /\ \A t \in OSTCBTbl : pc[t] \in {"app", "enter", "sched", "pend", "resume", "free"}
  BY TasksArePrios DEF FixedInv, Controlled
<1>2. /\ OSTCBCur \in OSTCBTbl /\ OSPrioCur \in Prio /\ OSLockNesting \in 0..255
      /\ deferred \in BOOLEAN
  BY <1>1 DEF FixedInv, OnCpu
<1>3. /\ OSRdyTbl \subseteq Prio
      /\ OSEventTbl \in [OSEventTblAll -> SUBSET Prio]
      /\ OSTCBPrio \in [OSTCBTbl -> Prio]
  <2>1. \A e \in OSEventTblAll : OSEventTbl[e] \in SUBSET Prio
    BY <1>1 DEF FixedInv, Lists
  <2>2. OSEventTbl = [e \in OSEventTblAll |-> OSEventTbl[e]]
    BY DEF FixedInv, Lists
  <2> HIDE DEF Prio
  <2> QED
    BY <1>1, <2>1, <2>2 DEF FixedInv, Lists, Tabled
<1>4. /\ OSQIn \in [OSEventTblAll -> Slots] /\ OSQOut \in [OSEventTblAll -> Slots]
      /\ OSQEntries \in [OSEventTblAll -> 0..OSQSize]
      /\ OSQStart \in [OSEventTblAll -> [Slots -> Msgs \cup {NULL}]]
  BY DEF RingInv, RingArrays, RingOK, InStep, Word
<1>5. /\ \A t \in OSTCBTbl : OSTCBStat[t] \subseteq OS_STAT_PEND_ANY \cup {"MULTI", "SUSPEND"}
      /\ OSTCBStatPend \in [OSTCBTbl -> {"OK", "TO", "ABORT"}]
      /\ \A t \in OSTCBTbl : OSTCBDly[t] \in Nat
      /\ OSTCBEventPtr \in [OSTCBTbl -> OSEventTblAll \cup {NULL}]
      /\ \A t \in OSTCBTbl : OSTCBEventMultiPtr[t] \subseteq OSEventTblAll
      /\ OSTCBMsg \in [OSTCBTbl -> Msgs \cup {NULL}]
  BY DEF FieldsTyped, PendTyped, Word
<1>6. /\ \A g \in OSFlagTbl : OSFlagType[g] \in {"FLAG", "UNUSED"} /\ OSFlagFlags[g] \subseteq Flags
      /\ \A t \in OSTCBTbl : OSTCBFlagsRdy[t] \subseteq Flags
  BY DEF FieldsTyped, FlagTyped
<1> QED
  BY <1>1, <1>2, <1>3, <1>4, <1>5, <1>6 DEF TypeOK, FieldsTyped, EventTyped, TaskTyped

(* Every field of a control block, of an event, of a queue and of a flag   *)
(* group keeps its type: no index leaves its ring, no semaphore counts     *)
(* below zero or beyond OSSemMax and no pointer points to what does not    *)
(* exist, in whatever order tasks and interrupts call the services.  The   *)
(* application is one of fixed tasks without mutexes.                      *)
THEOREM KernelTypeCorrect == Spec /\ FixedTasks => []TypeOK
<1> DEFINE Inv == FixedTasks /\ FixedInv /\ HighestRuns /\ RingInv /\ FieldsTyped /\ TaskTyped
<1>1. Init /\ FixedTasks => Inv
  BY FixedInit, RingInit, TypesInit
<1>2. ASSUME Inv, [Next]_vars
      PROVE  Inv'
  <2>1. FixedInv' /\ HighestRuns' /\ app' = app
    BY <1>2, FixedNext
  <2>2. RingInv'
    BY <1>2, RingNext
  <2>3. Counts
    BY <1>2 DEF RingInv, RingOK, InStep, Counts
  <2>4. FieldsTyped' /\ TaskTyped'
    BY <1>2, <2>3, TypesNext
  <2>5. FixedTasks'
    BY <1>2, <2>1 DEF FixedTasks
  <2> QED
    BY <2>1, <2>2, <2>4, <2>5
<1>3. Inv => TypeOK
  BY TypesSay
<1> HIDE DEF Inv
<1> QED
  BY <1>1, <1>2, <1>3, PTL DEF Spec

-----------------------------------------------------------------------------
(* Stages of a wait, and mutexes                                           *)

AllCalls == app.isr \cup UNION {app.calls[p] : p \in Prio}

(* The mutexes the task of priority p asks for, those it asks for without  *)
(* waiting, and the priorities mutex e may ever raise its owner to.        *)
MutexesOf(p) ==
  {c.ev : c \in {d \in app.calls[p] : d.op \in {"MutexAccept", "MutexPend"}}}
Accepts(p) == {c.ev : c \in {d \in app.calls[p] : d.op = "MutexAccept"}}
Pips(e) ==
  {c.pip : c \in {d \in AllCalls : d.op = "MutexCreate" /\ d.ev = e}}
    \cup (IF app.event[e].type = "MUTEX" THEN {app.event[e].pip} ELSE {})

(* What the kernel needs of an application for its priority inheritance to *)
(* work: tasks and events are there for good; a mutex has a priority above *)
(* the tasks that ask for it; a task that may own a mutex without waiting  *)
(* for it asks for no other; nobody suspends a task that asks for mutexes; *)
(* and such a task does not delay itself if it ever locks the scheduler,   *)
(* for OSTimeDly takes it out of the ready table all the same.             *)
Discipline ==
  /\ \A p \in Prio : \A c \in app.calls[p] :
       c.op \notin {"TaskCreate", "TaskDel", "ChangePrio", "SemDel", "MboxDel", "QDel",
                    "MutexDel", "PendMulti"}
  /\ \A p \in Prio : \A e \in MutexesOf(p) : \A pip \in Pips(e) : pip < p
  /\ \A p \in Prio : \A e \in Accepts(p) : MutexesOf(p) = {e}
  /\ \A c \in AllCalls : c.op = "TaskSuspend" =>
       \A p \in Prio : \A e \in MutexesOf(p) : c.prio # p /\ c.prio \notin Pips(e)
  /\ \A p \in Prio : MutexesOf(p) # {} /\ (\E c \in app.calls[p] : c.op = "SchedLock") =>
       \A c \in app.calls[p] : c.op # "TimeDly"

-----------------------------------------------------------------------------
Mutexes == {e \in OSEventTblAll : OSEventType[e] = "MUTEX"}
Raised(t) == OSTCBPrio[t] # t
Ready(t) == OSTCBPrio[t] \in OSRdyTbl
Suspended(t) == "SUSPEND" \in OSTCBStat[t]

(* Every task is found under its own priority and under the one it has.    *)
Numbered ==
  /\ OSTCBPrio \in [OSTCBTbl -> Prio]
  /\ OSTCBPrioTbl = [p \in Prio |-> OSTCBPrioTbl[p]]
  /\ \A t \in Tasks : OSTCBPrioTbl[t] = t /\ OSTCBPrioTbl[OSTCBPrio[t]] = t
  /\ \A p \in Prio : OSTCBPrioTbl[p] \in OSTCBTbl =>
       OSTCBPrioTbl[p] \in Tasks /\ p \in {OSTCBPrioTbl[p], OSTCBPrio[OSTCBPrioTbl[p]]}

(* Task o owns the mutex e, at its own priority or raised to the mutex's,  *)
(* and above every task that waits for it.                                 *)
Owns(o, e) ==
  /\ o \in Tasks /\ e \in MutexesOf(o) /\ OSTCBPrio[o] \in {o, OSMutexPIP[e]}
  /\ o \notin OSEventTbl[e] /\ \A p \in OSEventTbl[e] : OSTCBPrio[o] < p

Mutex(e) ==
  /\ OSMutexPIP[e] \in Pips(e) /\ OSMutexPIP[e] \in Prio /\ OSMutexPIP[e] \notin Tasks
  /\ OSTCBPrioTbl[OSMutexPIP[e]] # NULL
  /\ OSOwnerPrio[e] = OSEventPtr[e]
  /\ OSEventPtr[e] = NULL => OSEventTbl[e] = {}
  /\ OSEventPtr[e] # NULL => Owns(OSEventPtr[e], e)

Owned ==
  /\ OSEventPtr = [e \in OSEventTblAll |-> OSEventPtr[e]]
  /\ OSMutexPIP = [e \in OSEventTblAll |-> OSMutexPIP[e]]
  /\ OSOwnerPrio = [e \in OSEventTblAll |-> OSOwnerPrio[e]]
  /\ \A e \in Mutexes : Mutex(e)
  /\ \A e \in Mutexes, f \in Mutexes : e # f =>
       /\ OSMutexPIP[e] # OSMutexPIP[f]
       /\ OSEventPtr[e] = OSEventPtr[f] => OSEventPtr[e] = NULL
  /\ \A t \in Tasks : Raised(t) =>
       \E e \in Mutexes : OSEventPtr[e] = t /\ OSTCBPrio[t] = OSMutexPIP[e]
  /\ \A t \in Tasks : MutexesOf(t) # {} => ~Suspended(t)

(* An owner starts no pend, and is in none but the one that gave it the    *)
(* mutex.                                                                  *)
OwnerCalls ==
  \A e \in Mutexes : OSEventPtr[e] # NULL =>
    /\ pc[OSEventPtr[e]] = "enter" => call[OSEventPtr[e]].op \notin PendOps
    /\ Pending(OSEventPtr[e]) =>
         call[OSEventPtr[e]].op = "MutexPend" /\ call[OSEventPtr[e]].ev = e

(* Every table of tasks names tasks that exist, and the idle task is ready. *)
ReadyRow ==
  /\ \A p \in OSRdyTbl : \E t \in Tasks : OSTCBPrio[t] = p
  /\ Idle \in OSRdyTbl

ListRows ==
  /\ OSEventTbl = [e \in OSEventTblAll |-> OSEventTbl[e]]
  /\ \A e \in OSEventTblAll : OSEventTbl[e] \subseteq Tasks
  /\ \A t \in OSTCBTbl : OSTCBDly[t] # 0 => t \in Tasks
  /\ OSTCBFlagNode = [t \in OSTCBTbl |-> OSTCBFlagNode[t]]
  /\ \A t \in OSTCBTbl : OSTCBFlagNode[t] # NULL => t \in Tasks

(* The priority of the last switch is the running task's, unless that task *)
(* has been put back from the priority of a mutex since and nobody could   *)
(* have been raised to it.                                                 *)
Stale(e) ==
  /\ OSPrioCur = OSMutexPIP[e] /\ OSTCBPrioTbl[OSMutexPIP[e]] = OS_TCB_RESERVED
  /\ ~Raised(OSTCBCur)
  /\ \/ OSEventPtr[e] \in {NULL, OSTCBCur}
     \/ pc[OSTCBCur] = "sched"
     \/ OSLockNesting > 0

Dispatched ==
  /\ OSTCBCur \in Tasks /\ OSLockNesting \in 0..255 /\ deferred \in BOOLEAN
  /\ \/ OSPrioCur = OSTCBPrio[OSTCBCur]
     \/ \E e \in Mutexes : Stale(e)

-----------------------------------------------------------------------------
EventPends == {"SemPend", "MboxPend", "QPend", "MutexPend"}
OnEvent(t) == Pending(t) /\ call[t].op \in EventPends
OnFlags(t) == Pending(t) /\ call[t].op = "FlagPend"
Bit(t) == IF call[t].op = "FlagPend" THEN "FLAG" ELSE TypeFor(call[t].op)
Queued(t) == (\E e \in OSEventTblAll : t \in OSEventTbl[e]) \/ OSTCBFlagNode[t] # NULL

(* Where the TCB of a task hangs.                                          *)
Placed(t) ==
  /\ Pending(t) => OnEvent(t) \/ OnFlags(t)
  /\ \A e \in OSEventTblAll : t \in OSEventTbl[e] => OnEvent(t) /\ call[t].ev = e
  /\ OSTCBFlagNode[t] # NULL => OnFlags(t) /\ OSTCBFlagNode[t] = call[t].wait
  /\ OSTCBEventPtr[t] = IF OnEvent(t) THEN call[t].ev ELSE NULL
  /\ OSTCBEventMultiPtr[t] = {}
  /\ OnEvent(t) => OSEventType[call[t].ev] = Bit(t)

(* The four stages of a wait. *)
AtWork(t) ==
  /\ ~Pending(t) /\ ~Queued(t) /\ OSTCBStatPend[t] = "OK" /\ OSTCBStat[t] \subseteq {"SUSPEND"}
  /\ Ready(t) <=> ~Suspended(t) /\ OSTCBDly[t] = 0
Waiting(t) ==
  /\ Pending(t) /\ Queued(t) /\ OSTCBStatPend[t] = "OK" /\ OSTCBStat[t] \ {"SUSPEND"} = {Bit(t)}
  /\ ~Ready(t)
TimedOut(t) ==
  /\ Pending(t) /\ Queued(t) /\ OSTCBStatPend[t] = "TO" /\ OSTCBStat[t] \subseteq {"SUSPEND"}
  /\ OSTCBDly[t] = 0 /\ (Ready(t) <=> ~Suspended(t))
Answered(t) ==
  /\ Pending(t) /\ ~Queued(t) /\ OSTCBStatPend[t] \in {"OK", "ABORT"}
  /\ OSTCBStat[t] \subseteq {"SUSPEND"}
  /\ OSTCBDly[t] = 0 /\ (Ready(t) <=> ~Suspended(t))
Staged(t) == AtWork(t) \/ Waiting(t) \/ TimedOut(t) \/ Answered(t)

Arrays ==
  /\ OSTCBStat = [t \in OSTCBTbl |-> OSTCBStat[t]]
  /\ OSTCBStatPend = [t \in OSTCBTbl |-> OSTCBStatPend[t]]
  /\ OSTCBDly \in [OSTCBTbl -> Nat]
  /\ OSTCBEventPtr = [t \in OSTCBTbl |-> OSTCBEventPtr[t]]
  /\ OSTCBEventMultiPtr = [t \in OSTCBTbl |-> OSTCBEventMultiPtr[t]]
  /\ OSEventType = [e \in OSEventTblAll |-> OSEventType[e]]

Stages == \A t \in Tasks : Placed(t) /\ Staged(t)

(* What a call found its event to be, it still is in the section.          *)
RightType(c) == TypeFor(c.op) # "none" => OSEventType[c.ev] = TypeFor(c.op)
TypedCalls == \A t \in OSTCBTbl : pc[t] = "enter" => RightType(call[t])

(* The running task is ready but where it waits for OS_Sched or has locked *)
(* the scheduler.  Then it is in no pend, and still ready if it takes      *)
(* mutexes.                                                                *)
Scheduled ==
  /\ OSLockNesting = 0 /\ pc[OSTCBCur] \notin {"sched", "pend"} => Ready(OSTCBCur)
  /\ OSLockNesting > 0 =>
       /\ \E c \in app.calls[OSTCBCur] : c.op = "SchedLock"
       /\ ~Pending(OSTCBCur)
       /\ pc[OSTCBCur] = "enter" => call[OSTCBCur].op \notin PendOps
       /\ MutexesOf(OSTCBCur) # {} => Ready(OSTCBCur)

TableInv == Controlled /\ Numbered /\ Owned /\ OwnerCalls /\ ReadyRow /\ ListRows /\ Dispatched
DataInv == Arrays /\ Stages
StageInv == TableInv /\ HighestRuns /\ DataInv /\ TypedCalls /\ Scheduled

-----------------------------------------------------------------------------
LEMMA TasksAre ==
  ASSUME StageInv
  PROVE  /\ app \in Apps /\ Tasks \subseteq OSTCBTbl /\ Tasks \subseteq Prio /\ Idle \in Tasks
         /\ OSTCBTbl \subseteq Prio /\ NULL \notin OSTCBTbl
         /\ \A t \in Tasks : OSTCBPrio[t] \in Prio
  BY TasksArePrios, CoreAssumption DEF StageInv, TableInv, Controlled, Numbered

LEMMA Unique ==
  /\ Numbered => \A t, u \in Tasks : OSTCBPrio[t] = OSTCBPrio[u] => t = u
  /\ Numbered' /\ app' = app => \A t, u \in Tasks : OSTCBPrio'[t] = OSTCBPrio'[u] => t = u
BY DEF Numbered, Tasks

(* The idle task calls nothing.                                            *)
LEMMA IdleUnraised ==
  ASSUME StageInv
  PROVE  OSTCBPrio[Idle] = Idle /\ MutexesOf(Idle) = {}
<1>1. MutexesOf(Idle) = {}
  BY TasksAre, TasksArePrios DEF MutexesOf
<1>2. ASSUME Raised(Idle)
      PROVE  FALSE
  <2>1. PICK e \in Mutexes : OSEventPtr[e] = Idle
    BY <1>2, TasksAre DEF StageInv, TableInv, Owned
  <2>2. Idle # NULL
    BY TasksAre
  <2>3. Owns(Idle, e)
    BY <2>1, <2>2 DEF StageInv, TableInv, Owned, Mutex
  <2> QED
    BY <1>1, <2>3 DEF Owns
<1> QED
  BY <1>1, <1>2 DEF Raised

(* A task that owns a mutex is in no wait list.                            *)
LEMMA OwnerFree ==
  ASSUME StageInv, NEW e \in Mutexes, OSEventPtr[e] # NULL
  PROVE  /\ OSEventPtr[e] \in Tasks /\ ~Queued(OSEventPtr[e]) /\ ~Suspended(OSEventPtr[e])
         /\ Staged(OSEventPtr[e]) /\ Placed(OSEventPtr[e])
         /\ Pending(OSEventPtr[e]) => Ready(OSEventPtr[e]) /\ OSTCBEventPtr[OSEventPtr[e]] = e
         /\ ~Pending(OSEventPtr[e]) => OSTCBEventPtr[OSEventPtr[e]] = NULL
<1> DEFINE o == OSEventPtr[e]
<1>1. /\ o \in Tasks /\ e \in MutexesOf(o) /\ o \notin OSEventTbl[e] /\ e \in OSEventTblAll
      /\ Placed(o) /\ Staged(o)
  BY DEF StageInv, TableInv, Owned, Mutex, Owns, Mutexes, DataInv, Stages
<1>2. Pending(o) => call[o].op = "MutexPend" /\ call[o].ev = e
  BY DEF StageInv, TableInv, OwnerCalls
<1>3. ~Suspended(o)
  BY <1>1 DEF StageInv, TableInv, Owned
<1>4. ~Queued(o)
  <2>1. \A f \in OSEventTblAll : o \notin OSEventTbl[f]
    BY <1>1, <1>2 DEF Placed, OnEvent
  <2>2. OSTCBFlagNode[o] = NULL
    BY <1>1, <1>2 DEF Placed, OnFlags
  <2> QED
    BY <2>1, <2>2 DEF Queued
<1>5. Pending(o) => Ready(o)
  BY <1>1, <1>3, <1>4 DEF Staged, AtWork, Waiting, TimedOut, Answered
<1>6. OSTCBEventPtr[o] = IF Pending(o) THEN e ELSE NULL
  BY <1>1, <1>2 DEF Placed, OnEvent, EventPends
<1> HIDE DEF o
<1>7. o \in Tasks /\ ~Queued(o) /\ ~Suspended(o) /\ Staged(o) /\ Placed(o)
      /\ (Pending(o) => Ready(o) /\ OSTCBEventPtr[o] = e)
      /\ (~Pending(o) => OSTCBEventPtr[o] = NULL)
  BY <1>1, <1>3, <1>4, <1>5, <1>6
<1> QED
  BY <1>7 DEF o

(* A task that waits has its own priority.                                 *)
LEMMA WaitersUnraised ==
  ASSUME StageInv, NEW t \in Tasks, Queued(t)
  PROVE  OSTCBPrio[t] = t /\ OSTCBPrioTbl[t] = t /\ t \in OSTCBTbl
<1>1. t \in OSTCBTbl /\ OSTCBPrioTbl[t] = t
  BY TasksAre DEF StageInv, TableInv, Numbered
<1>2. ASSUME Raised(t)
      PROVE  FALSE
  <2>1. PICK e \in Mutexes : OSEventPtr[e] = t
    BY <1>2 DEF StageInv, TableInv, Owned
  <2> QED
    BY <1>1, <2>1, TasksAre, OwnerFree
<1> QED
  BY <1>1, <1>2 DEF Raised

LEMMA ListsAre ==
  ASSUME StageInv, NEW e \in OSEventTblAll
  PROVE  /\ OSEventTbl[e] \subseteq Tasks
         /\ Waited(e) => HighestWaiter(e) \subseteq OSEventTbl[e] /\ Highest(OSEventTbl[e]) \in OSEventTbl[e]
                         /\ \A p \in OSEventTbl[e] : Highest(OSEventTbl[e]) <= p
         /\ \A p \in OSEventTbl[e] : Queued(p)
<1>1. OSEventTbl[e] \subseteq Tasks /\ Tasks \subseteq Prio
  BY TasksAre DEF StageInv, TableInv, ListRows
<1>2. ASSUME Waited(e)
      PROVE  Highest(OSEventTbl[e]) \in OSEventTbl[e] /\ \A p \in OSEventTbl[e] : Highest(OSEventTbl[e]) <= p
  BY <1>1, <1>2, HighestIs DEF Waited
<1> QED
  BY <1>1, <1>2 DEF HighestWaiter, Queued

-----------------------------------------------------------------------------
(* What a step that is not its own leaves of a task's wait.                *)
TypesKept ==
  \A e \in OSEventTblAll : OSEventType[e] # "UNUSED" => OSEventType'[e] = OSEventType[e]
CtlKept(t) ==
  /\ Pending(t)' <=> Pending(t)
  /\ Pending(t) => call'[t] = call[t]

Unmoved(t) ==
  /\ Ready(t)' <=> Ready(t)
  /\ \A e \in OSEventTblAll : t \in OSEventTbl'[e] <=> t \in OSEventTbl[e]
  /\ OSTCBStat'[t] = OSTCBStat[t] /\ OSTCBStatPend'[t] = OSTCBStatPend[t]
  /\ OSTCBDly'[t] = OSTCBDly[t] /\ OSTCBFlagNode'[t] = OSTCBFlagNode[t]
  /\ OSTCBEventPtr'[t] = OSTCBEventPtr[t] /\ OSTCBEventMultiPtr'[t] = OSTCBEventMultiPtr[t]

LEMMA EventOf ==
  ASSUME NEW c, WellFormed(c), TypeFor(c.op) # "none" \/ c.op \in EventPends
  PROVE  c.ev \in OSEventTblAll
<1>1. TypeFor(c.op) # "none"
  BY DEF EventPends, TypeFor
<1> QED
  BY <1>1 DEF WellFormed

LEMMA CallWaits ==
  ASSUME StageInv, NEW t \in OSTCBTbl, Pending(t)
  PROVE  /\ OnEvent(t) =>
              /\ call[t].ev \in OSEventTblAll
              /\ Bit(t) \in {"SEM", "MBOX", "Q", "MUTEX"}
              /\ Bit(t) = "MUTEX" => call[t].op = "MutexPend"
         /\ OnFlags(t) => Bit(t) = "FLAG" /\ call[t].wait # NULL
<1>1. WellFormed(call[t])
  BY TasksAre, TasksArePrios DEF StageInv, TableInv, Controlled, Pending
<1>2. ASSUME OnEvent(t)
      PROVE  /\ call[t].ev \in OSEventTblAll /\ Bit(t) \in {"SEM", "MBOX", "Q", "MUTEX"}
             /\ Bit(t) = "MUTEX" => call[t].op = "MutexPend"
  <2>1. call[t].op \in EventPends
    BY <1>2 DEF OnEvent
  <2>2. call[t].ev \in OSEventTblAll
    BY <1>1, <2>1, EventOf
  <2>3. /\ Bit(t) \in {"SEM", "MBOX", "Q", "MUTEX"}
        /\ Bit(t) = "MUTEX" => call[t].op = "MutexPend"
    BY <2>1 DEF EventPends, Bit, TypeFor
  <2> QED
    BY <2>2, <2>3
<1>3. ASSUME OnFlags(t)
      PROVE  Bit(t) = "FLAG" /\ call[t].wait # NULL
  BY <1>1, <1>3, FlagAssumption DEF OnFlags, Bit, WellFormed
<1> QED
  BY <1>2, <1>3

LEMMA PlacedKept ==
  ASSUME StageInv, NEW t \in Tasks, Placed(t), CtlKept(t), TypesKept,
         \A e \in OSEventTblAll : t \in OSEventTbl'[e] => t \in OSEventTbl[e],
         OSTCBFlagNode'[t] \in {OSTCBFlagNode[t], NULL},
         OSTCBEventPtr'[t] = OSTCBEventPtr[t], OSTCBEventMultiPtr'[t] = OSTCBEventMultiPtr[t]
  PROVE  /\ Placed(t)'
         /\ OnEvent(t)' <=> OnEvent(t)
         /\ OnFlags(t)' <=> OnFlags(t)
         /\ Pending(t) => Bit(t)' = Bit(t)
<1>1. /\ OnEvent(t)' <=> OnEvent(t)
      /\ OnFlags(t)' <=> OnFlags(t)
      /\ Pending(t) => Bit(t)' = Bit(t)
  BY DEF CtlKept, OnEvent, OnFlags, Bit
<1>2. OnEvent(t) => call[t].ev \in OSEventTblAll /\ Bit(t) # "UNUSED"
  BY CallWaits, TasksAre DEF OnEvent
<1>3. OnEvent(t) => Pending(t) /\ call'[t] = call[t]
  BY DEF OnEvent, CtlKept
<1>4. OnFlags(t) => Pending(t) /\ call'[t] = call[t]
  BY DEF OnFlags, CtlKept
<1>5. OnEvent(t)' => OSEventType'[call'[t].ev] = Bit(t)'
  BY <1>1, <1>2, <1>3 DEF TypesKept, Placed
<1>6. Pending(t)' => OnEvent(t)' \/ OnFlags(t)'
  BY <1>1 DEF CtlKept, Placed
<1>7. \A e \in OSEventTblAll : t \in OSEventTbl'[e] => OnEvent(t)' /\ call'[t].ev = e
  BY <1>1, <1>3 DEF Placed
<1>8. OSTCBFlagNode'[t] # NULL => OnFlags(t)' /\ OSTCBFlagNode'[t] = call'[t].wait
  BY <1>1, <1>4 DEF Placed
<1>9. OSTCBEventPtr'[t] = IF OnEvent(t)' THEN call'[t].ev ELSE NULL
  BY <1>1, <1>3 DEF Placed
<1>10. OSTCBEventMultiPtr'[t] = {}
  BY DEF Placed
<1> QED
  BY <1>1, <1>5, <1>6, <1>7, <1>8, <1>9, <1>10 DEF Placed

LEMMA StagedKept ==
  ASSUME StageInv, NEW t \in Tasks, CtlKept(t), TypesKept, Unmoved(t)
  PROVE  Placed(t)' /\ Staged(t)'
<1>0. Placed(t) /\ Staged(t)
  BY DEF StageInv, DataInv, Stages
<1>1. Placed(t)' /\ (Pending(t) => Bit(t)' = Bit(t))
  BY <1>0, PlacedKept DEF Unmoved
<1>2. Queued(t)' <=> Queued(t)
  BY DEF Queued, Unmoved
<1>3. /\ Ready(t)' <=> Ready(t)
      /\ OSTCBStat'[t] = OSTCBStat[t] /\ OSTCBStatPend'[t] = OSTCBStatPend[t]
      /\ OSTCBDly'[t] = OSTCBDly[t]
      /\ Pending(t)' <=> Pending(t)
  BY DEF Unmoved, CtlKept
<1>4. Suspended(t)' <=> Suspended(t)
  BY <1>3 DEF Suspended
<1>5. CASE AtWork(t)
  BY <1>1, <1>2, <1>3, <1>4, <1>5 DEF AtWork, Staged
<1>6. CASE Waiting(t)
  BY <1>1, <1>2, <1>3, <1>4, <1>6 DEF Waiting, Staged
<1>7. CASE TimedOut(t)
  BY <1>1, <1>2, <1>3, <1>4, <1>7 DEF TimedOut, Staged
<1>8. CASE Answered(t)
  BY <1>1, <1>2, <1>3, <1>4, <1>8 DEF Answered, Staged
<1> QED
  BY <1>0, <1>5, <1>6, <1>7, <1>8 DEF Staged

(* A waiting task is given what it waits for, or told that it will not be. *)
LEMMA AnsweredStage ==
  ASSUME StageInv, NEW t \in Tasks, CtlKept(t), TypesKept, Pending(t), Queued(t),
         \A e \in OSEventTblAll : t \notin OSEventTbl'[e], OSTCBFlagNode'[t] = NULL,
         OSTCBEventPtr'[t] = OSTCBEventPtr[t], OSTCBEventMultiPtr'[t] = OSTCBEventMultiPtr[t],
         OSTCBStat'[t] = OSTCBStat[t] \ {Bit(t)}, OSTCBStatPend'[t] \in {"OK", "ABORT"},
         OSTCBDly'[t] = 0, Ready(t)' <=> Ready(t) \/ ~Suspended(t)
  PROVE  Placed(t)' /\ Staged(t)'
<1>0. Placed(t) /\ Staged(t)
  BY DEF StageInv, DataInv, Stages
<1>1. Placed(t)' /\ Pending(t)'
  BY <1>0, PlacedKept DEF CtlKept
<1>2. ~Queued(t)'
  BY DEF Queued
<1>3. Bit(t) # "SUSPEND"
  BY <1>0, CallWaits, TasksAre DEF Placed
<1>4. OSTCBStat[t] \ {"SUSPEND"} \subseteq {Bit(t)}
      /\ (Ready(t) => ~Suspended(t))
  BY <1>0 DEF Staged, AtWork, Waiting, TimedOut, Answered
<1>5. OSTCBStat'[t] \subseteq {"SUSPEND"} /\ (Suspended(t)' <=> Suspended(t))
  BY <1>3, <1>4 DEF Suspended
<1>6. Ready(t)' <=> ~Suspended(t)'
  BY <1>4, <1>5
<1>7. Answered(t)'
  BY <1>1, <1>2, <1>5, <1>6 DEF Answered
<1> QED
  BY <1>1, <1>7 DEF Staged

(* The tick and OSTimeDlyResume end a delay or a pend alike.               *)
Expired(t) ==
  /\ OSTCBDly[t] # 0 /\ OSTCBDly'[t] = 0
  /\ OSTCBStat'[t] = OSTCBStat[t] \ OS_STAT_PEND_ANY
  /\ OSTCBStatPend'[t] = IF OSTCBStat[t] \cap OS_STAT_PEND_ANY # {} THEN "TO" ELSE "OK"
  /\ Ready(t)' <=> Ready(t) \/ ~Suspended(t)
  /\ UNCHANGED <<OSEventTbl, OSTCBFlagNode, OSTCBEventPtr, OSTCBEventMultiPtr>>

LEMMA ExpiredStage ==
  ASSUME StageInv, NEW t \in Tasks, CtlKept(t), TypesKept, Expired(t)
  PROVE  Placed(t)' /\ Staged(t)'
<1>0. Placed(t) /\ Staged(t)
  BY DEF StageInv, DataInv, Stages
<1>2. Placed(t)' /\ (Pending(t)' <=> Pending(t))
  BY <1>0, PlacedKept DEF Expired, CtlKept
<1>3. Queued(t)' <=> Queued(t)
  BY DEF Expired, Queued
<1>4. CASE AtWork(t)
  <2>1. OSTCBStat[t] \subseteq {"SUSPEND"} /\ OSTCBStat[t] \cap OS_STAT_PEND_ANY = {}
    BY <1>4 DEF AtWork, OS_STAT_PEND_ANY
  <2>2. OSTCBStat'[t] = OSTCBStat[t] /\ OSTCBStatPend'[t] = "OK"
    BY <2>1 DEF Expired
  <2>3. Ready(t)' <=> ~Suspended(t)' /\ OSTCBDly'[t] = 0
    BY <1>4, <2>2 DEF Expired, AtWork, Suspended
  <2> QED
    BY <1>2, <1>3, <1>4, <2>1, <2>2, <2>3 DEF AtWork, Staged
<1>5. CASE Waiting(t)
  <2>1. Bit(t) \in OS_STAT_PEND_ANY
    BY <1>0, <1>5, CallWaits, TasksAre DEF Waiting, Placed, OS_STAT_PEND_ANY
  <2>2. /\ OSTCBStat[t] \cap OS_STAT_PEND_ANY # {}
        /\ OSTCBStat'[t] \subseteq {"SUSPEND"}
        /\ Suspended(t)' <=> Suspended(t)
    BY <1>5, <2>1 DEF Waiting, Expired, Suspended, OS_STAT_PEND_ANY
  <2>3. Ready(t)' <=> ~Suspended(t)'
    BY <1>5, <2>2 DEF Waiting, Expired
  <2> QED
    BY <1>2, <1>3, <1>5, <2>2, <2>3 DEF Waiting, Expired, TimedOut, Staged
<1>6. CASE TimedOut(t) \/ Answered(t)
  BY <1>6 DEF Expired, TimedOut, Answered
<1> QED
  BY <1>0, <1>2, <1>4, <1>5, <1>6 DEF Staged

-----------------------------------------------------------------------------
(* Tasks put into the ready table, and a task taken out of it.             *)
LEMMA Readied ==
  ASSUME StageInv, app' = app, UNCHANGED taskVars, NEW X, X \subseteq Tasks,
         OSRdyTbl' = OSRdyTbl \cup {OSTCBPrio[u] : u \in X}
  PROVE  ReadyRow' /\ \A u \in Tasks : Ready(u)' <=> Ready(u) \/ u \in X
<1>1. Tasks' = Tasks /\ OSTCBPrio' = OSTCBPrio
  BY DEF Tasks, taskVars
<1>2. ReadyRow'
  BY <1>1 DEF StageInv, TableInv, ReadyRow
<1>3. \A u, v \in Tasks : OSTCBPrio[u] = OSTCBPrio[v] => u = v
  BY Unique DEF StageInv, TableInv
<1> QED
  BY <1>1, <1>2, <1>3 DEF Ready

LEMMA Unreadied ==
  ASSUME StageInv, app' = app, UNCHANGED taskVars, NEW t \in Tasks, t # Idle,
         OSRdyTbl' = OSRdyTbl \ {OSTCBPrio[t]}
  PROVE  ReadyRow' /\ \A u \in Tasks : Ready(u)' <=> Ready(u) /\ u # t
<1>1. Tasks' = Tasks /\ OSTCBPrio' = OSTCBPrio
  BY DEF Tasks, taskVars
<1>2. \A u, v \in Tasks : OSTCBPrio[u] = OSTCBPrio[v] => u = v
  BY Unique DEF StageInv, TableInv
<1>3. OSTCBPrio[t] # Idle
  BY <1>2, IdleUnraised, TasksAre
<1>4. ReadyRow'
  BY <1>1, <1>3 DEF StageInv, TableInv, ReadyRow
<1> QED
  BY <1>1, <1>2, <1>4 DEF Ready

LEMMA ReadyKept ==
  ASSUME StageInv, app' = app, UNCHANGED taskVars, OSRdyTbl' = OSRdyTbl
  PROVE  ReadyRow' /\ \A u \in Tasks : Ready(u)' <=> Ready(u)
  BY DEF StageInv, TableInv, ReadyRow, taskVars, Ready, Tasks

Kept ==
  /\ TypesKept /\ OSEventType' = [f \in OSEventTblAll |-> OSEventType'[f]]
  /\ app' = app /\ \A t \in Tasks : CtlKept(t)

MutexesKept ==
  /\ \A e \in Mutexes : OSEventTbl'[e] \subseteq OSEventTbl[e]
  /\ \A t \in Tasks : MutexesOf(t) # {} => ~Suspended(t)'

Faithful == ReadyRow' /\ ListRows' /\ DataInv' /\ MutexesKept

LEMMA TakersAre ==
  ASSUME StageInv
  PROVE  \A t \in Tasks : MutexesOf(t) # {} => ~Suspended(t)
  BY DEF StageInv, TableInv, Owned

(* A step that changes nothing of any wait.                                *)
LEMMA OtherFine ==
  ASSUME StageInv, Kept, UNCHANGED <<waitVars, taskVars, OSTCBFlagNode>>
  PROVE  Faithful
<1>1. Tasks' = Tasks
  BY DEF Kept, Tasks
<1>2. ReadyRow' /\ ListRows' /\ Arrays'
  BY <1>1 DEF StageInv, TableInv, ReadyRow, ListRows, DataInv, Arrays, waitVars, pendVars, taskVars, Kept
<1>3. \A t \in Tasks : Unmoved(t)
  BY DEF Unmoved, waitVars, pendVars, taskVars, Ready
<1>4. MutexesKept
  BY TakersAre DEF MutexesKept, Suspended, waitVars, pendVars
<1> QED
  BY <1>1, <1>2, <1>3, <1>4, StagedKept DEF Faithful, DataInv, Stages, Kept

(* R is the ready table with the priorities that tasks have after the step. *)
Renumbered(R) ==
  /\ \A u \in Tasks : OSTCBPrio'[u] \in R <=> Ready(u)
  /\ \A p \in R : \E u \in Tasks : OSTCBPrio'[u] = p
  /\ Idle \in R

LEMMA RenumberedFine ==
  ASSUME StageInv, Kept, UNCHANGED <<pendVars, OSEventTbl, OSTCBFlagNode>>, Renumbered(OSRdyTbl')
  PROVE  Faithful
<1>1. Tasks' = Tasks
  BY DEF Kept, Tasks
<1>2. ReadyRow' /\ \A u \in Tasks : Ready(u)' <=> Ready(u)
  BY <1>1 DEF Renumbered, ReadyRow, Ready
<1>3. ListRows' /\ Arrays'
  BY <1>1 DEF StageInv, TableInv, ListRows, DataInv, Arrays, pendVars, Kept
<1>4. \A t \in Tasks : Unmoved(t)
  BY <1>2 DEF Unmoved, pendVars
<1>5. MutexesKept
  BY TakersAre DEF MutexesKept, Suspended, pendVars
<1> QED
  BY <1>1, <1>2, <1>3, <1>4, <1>5, StagedKept DEF Faithful, DataInv, Stages, Kept

(* What OS_EventTaskRdy does to waiters of e that wait for nothing else.   *)
Answers(R, e, W, bit, pend) ==
  /\ OSTCBDly' = [t \in OSTCBTbl |-> IF t \in W THEN 0 ELSE OSTCBDly[t]]
  /\ OSTCBStat' = [t \in OSTCBTbl |-> IF t \in W THEN OSTCBStat[t] \ {bit} ELSE OSTCBStat[t]]
  /\ OSTCBStatPend' = [t \in OSTCBTbl |-> IF t \in W THEN pend ELSE OSTCBStatPend[t]]
  /\ OSRdyTbl' = R \cup {t \in W : "SUSPEND" \notin OSTCBStat[t]}
  /\ OSEventTbl' = [f \in OSEventTblAll |-> OSEventTbl[f] \ (IF f = e THEN W ELSE {})]
  /\ OSTCBEventPtr' = [t \in OSTCBTbl |-> OSTCBEventPtr[t]]
  /\ OSTCBEventMultiPtr' = OSTCBEventMultiPtr

LEMMA PostAnswers ==
  ASSUME StageInv, NEW R, NEW e \in OSEventTblAll, NEW W, W \subseteq OSEventTbl[e],
         NEW bit, NEW msg, NEW pend, OS_EventTaskRdy(R, e, W, msg, bit, pend)
  PROVE  Answers(R, e, W, bit, pend)
<1> DEFINE T == {OSTCBPrioTbl[p] : p \in W} \cap OSTCBTbl
           Leaves(f) == {t \in T : f = e \/ f \in OSTCBEventMultiPtr[t]}
<1>1. W \subseteq Tasks /\ Tasks \subseteq OSTCBTbl
  BY ListsAre, TasksAre
<1>2. \A t \in W : OSTCBPrioTbl[t] = t /\ OSTCBPrio[t] = t
  BY <1>1, ListsAre, WaitersUnraised
<1>3. T = W
  BY <1>1, <1>2
<1>4. /\ OSTCBDly' = [t \in OSTCBTbl |-> IF t \in T THEN 0 ELSE OSTCBDly[t]]
      /\ OSTCBStat' = [t \in OSTCBTbl |->
           IF t \in T THEN OSTCBStat[t] \ {bit} ELSE OSTCBStat[t]]
      /\ OSTCBStatPend' = [t \in OSTCBTbl |-> IF t \in T THEN pend ELSE OSTCBStatPend[t]]
      /\ OSRdyTbl' = R \cup {OSTCBPrio[t] : t \in {u \in T : "SUSPEND" \notin OSTCBStat[u]}}
      /\ OSEventTbl' = [f \in OSEventTblAll |->
           OSEventTbl[f] \ {OSTCBPrio[t] : t \in Leaves(f)}]
      /\ OSTCBEventPtr' = [t \in OSTCBTbl |->
           IF t \in T /\ OSTCBEventMultiPtr[t] # {} THEN e ELSE OSTCBEventPtr[t]]
      /\ OSTCBEventMultiPtr' = OSTCBEventMultiPtr
  BY DEF OS_EventTaskRdy
<1>5. \A t \in W : OSTCBEventMultiPtr[t] = {}
  BY <1>1 DEF StageInv, DataInv, Stages, Placed
<1>6. \A f \in OSEventTblAll : Leaves(f) = IF f = e THEN W ELSE {}
  BY <1>3, <1>5
<1> HIDE DEF T, Leaves
<1>7. {OSTCBPrio[t] : t \in {u \in W : "SUSPEND" \notin OSTCBStat[u]}}
        = {t \in W : "SUSPEND" \notin OSTCBStat[t]}
  BY <1>2
<1>8. \A f \in OSEventTblAll : {OSTCBPrio[t] : t \in Leaves(f)} = IF f = e THEN W ELSE {}
  BY <1>2, <1>6
<1>9. OSTCBEventPtr' = [t \in OSTCBTbl |-> OSTCBEventPtr[t]]
  BY <1>3, <1>4, <1>5
<1>10. /\ OSRdyTbl' = R \cup {t \in W : "SUSPEND" \notin OSTCBStat[t]}
       /\ OSEventTbl' = [f \in OSEventTblAll |-> OSEventTbl[f] \ (IF f = e THEN W ELSE {})]
  BY <1>3, <1>4, <1>7, <1>8
<1> QED
  BY <1>3, <1>4, <1>9, <1>10 DEF Answers

LEMMA PostFine ==
  ASSUME StageInv, NEW R, NEW e \in OSEventTblAll, NEW W, W \subseteq OSEventTbl[e],
         NEW bit, W # {} => OSEventType[e] = bit, NEW msg, NEW pend \in {"OK", "ABORT"},
         OS_EventTaskRdy(R, e, W, msg, bit, pend), OSTCBFlagNode' = OSTCBFlagNode,
         Kept, Numbered', Renumbered(R), \A u \in W : OSTCBPrio'[u] = OSTCBPrio[u]
  PROVE  Faithful
<1>1. W \subseteq Tasks /\ Tasks \subseteq OSTCBTbl /\ Tasks' = Tasks
  BY ListsAre, TasksAre DEF Kept, Tasks
<1>2. Answers(R, e, W, bit, pend)
  BY PostAnswers
<1>3. \A t \in W : OSTCBPrio'[t] = t
  BY <1>1, ListsAre, WaitersUnraised
<1>4. \A t, u \in Tasks : OSTCBPrio'[t] = OSTCBPrio'[u] => t = u
  BY Unique DEF Kept
<1>5. \A u \in Tasks : Ready(u)' <=> Ready(u) \/ (u \in W /\ ~Suspended(u))
  <2> SUFFICES ASSUME NEW u \in Tasks
               PROVE  Ready(u)' <=> Ready(u) \/ (u \in W /\ ~Suspended(u))
    OBVIOUS
  <2>1. OSTCBPrio'[u] \in {t \in W : "SUSPEND" \notin OSTCBStat[t]} <=> u \in W /\ ~Suspended(u)
    BY <1>1, <1>3, <1>4 DEF Suspended
  <2>2. OSTCBPrio'[u] \in R <=> Ready(u)
    BY DEF Renumbered
  <2>3. OSRdyTbl' = R \cup {t \in W : "SUSPEND" \notin OSTCBStat[t]}
    BY <1>2 DEF Answers
  <2>4. Ready(u)' <=> OSTCBPrio'[u] \in OSRdyTbl'
    BY DEF Ready
  <2> QED
    BY <2>1, <2>2, <2>3, <2>4
<1>6. ReadyRow'
  BY <1>1, <1>2, <1>3 DEF ReadyRow, Renumbered, Answers
<1>7. ListRows'
  <2>1. /\ OSEventTbl' = [f \in OSEventTblAll |-> OSEventTbl'[f]]
        /\ \A f \in OSEventTblAll : OSEventTbl'[f] \subseteq Tasks
    BY <1>2 DEF Answers, StageInv, TableInv, ListRows
  <2>2. \A t \in OSTCBTbl : OSTCBDly'[t] # 0 => t \in Tasks
    BY <1>1, <1>2 DEF Answers, StageInv, TableInv, ListRows
  <2> QED
    BY <1>1, <2>1, <2>2 DEF StageInv, TableInv, ListRows
<1>8. ASSUME NEW t \in Tasks
      PROVE  Placed(t)' /\ Staged(t)' /\ (Suspended(t)' => Suspended(t))
  <2>1. Placed(t) /\ Staged(t) /\ CtlKept(t) /\ TypesKept
    BY DEF StageInv, DataInv, Stages, Kept
  <2>2. CASE t \notin W
    <3>1. Unmoved(t)
      BY <1>1, <1>2, <1>5, <2>2 DEF Unmoved, Answers
    <3> QED
      BY <2>1, <3>1, StagedKept DEF Unmoved, Suspended
  <2>3. CASE t \in W
    <3>1. t \in OSEventTbl[e] /\ OnEvent(t) /\ call[t].ev = e /\ Bit(t) = bit /\ Pending(t)
      BY <2>1, <2>3 DEF Placed, OnEvent
    <3>2. Queued(t)
      BY <3>1 DEF Queued
    <3>3. \A f \in OSEventTblAll : t \notin OSEventTbl'[f]
      BY <1>2, <2>1, <2>3 DEF Placed, Answers
    <3>4. OSTCBFlagNode'[t] = NULL
      BY <2>1, <3>1 DEF Placed, OnFlags, OnEvent, EventPends
    <3>5. /\ OSTCBStat'[t] = OSTCBStat[t] \ {bit} /\ OSTCBStatPend'[t] = pend
          /\ OSTCBDly'[t] = 0
          /\ OSTCBEventPtr'[t] = OSTCBEventPtr[t] /\ OSTCBEventMultiPtr'[t] = OSTCBEventMultiPtr[t]
      BY <1>1, <1>2, <2>3 DEF Answers
    <3>6. Ready(t)' <=> Ready(t) \/ ~Suspended(t)
      BY <1>5, <2>3
    <3>7. Suspended(t)' => Suspended(t)
      BY <3>5 DEF Suspended
    <3> QED
      BY <2>1, <3>1, <3>2, <3>3, <3>4, <3>5, <3>6, <3>7, AnsweredStage
  <2> QED
    BY <2>2, <2>3
<1>9. Arrays'
  BY <1>2 DEF StageInv, DataInv, Arrays, Kept, Answers
<1>10. MutexesKept
  <2>1. \A f \in Mutexes : OSEventTbl'[f] \subseteq OSEventTbl[f]
    BY <1>2 DEF Answers, Mutexes
  <2> QED
    BY <1>8, <2>1, TakersAre DEF MutexesKept
<1> QED
  BY <1>1, <1>6, <1>7, <1>8, <1>9, <1>10 DEF Faithful, DataInv, Stages

(* OS_FlagTaskRdy of tasks whose node is linked.                           *)
LEMMA FlagFine ==
  ASSUME StageInv, NEW T, T \subseteq {t \in OSTCBTbl : OSTCBFlagNode[t] # NULL}, NEW rdy,
         OS_FlagTaskRdy(T, rdy), Kept
  PROVE  Faithful
<1>1. T \subseteq Tasks /\ Tasks \subseteq OSTCBTbl /\ Tasks' = Tasks
  BY TasksAre DEF StageInv, TableInv, ListRows, Kept, Tasks
<1>2. /\ OSTCBDly' = [t \in OSTCBTbl |-> IF t \in T THEN 0 ELSE OSTCBDly[t]]
      /\ OSTCBStat' = [t \in OSTCBTbl |->
           IF t \in T THEN OSTCBStat[t] \ {"FLAG"} ELSE OSTCBStat[t]]
      /\ OSTCBStatPend' = [t \in OSTCBTbl |-> IF t \in T THEN "OK" ELSE OSTCBStatPend[t]]
      /\ OSRdyTbl' = OSRdyTbl \cup {OSTCBPrio[t] : t \in {u \in T : OSTCBStat[u] \subseteq {"FLAG"}}}
      /\ OSTCBFlagNode' = [t \in OSTCBTbl |-> IF t \in T THEN NULL ELSE OSTCBFlagNode[t]]
      /\ UNCHANGED <<OSTCBEventPtr, OSTCBEventMultiPtr, OSEventTbl, taskVars>>
  BY DEF OS_FlagTaskRdy
<1>3. ReadyRow' /\ \A u \in Tasks : Ready(u)' <=> Ready(u) \/ (u \in T /\ OSTCBStat[u] \subseteq {"FLAG"})
  <2>1. PICK X : X = {u \in T : OSTCBStat[u] \subseteq {"FLAG"}}
    OBVIOUS
  <2>2. OSRdyTbl' = OSRdyTbl \cup {OSTCBPrio[u] : u \in X} /\ X \subseteq Tasks
    BY <1>1, <1>2, <2>1
  <2>3. ReadyRow' /\ \A u \in Tasks : Ready(u)' <=> Ready(u) \/ u \in X
    BY <1>2, <2>2, Readied DEF Kept
  <2> QED
    BY <2>1, <2>3
<1>4. ASSUME NEW t \in Tasks
      PROVE  Placed(t)' /\ Staged(t)' /\ (Suspended(t)' => Suspended(t))
  <2>1. Placed(t) /\ Staged(t) /\ CtlKept(t) /\ TypesKept
    BY DEF StageInv, DataInv, Stages, Kept
  <2>2. CASE t \notin T
    <3>1. Unmoved(t)
      BY <1>1, <1>2, <1>3, <2>2 DEF Unmoved
    <3> QED
      BY <2>1, <3>1, StagedKept DEF Unmoved, Suspended
  <2>3. CASE t \in T
    <3>1. OSTCBFlagNode[t] # NULL /\ OnFlags(t) /\ Pending(t) /\ Bit(t) = "FLAG" /\ Queued(t)
      BY <2>1, <2>3 DEF Placed, OnFlags, Bit, Queued
    <3>2. \A f \in OSEventTblAll : t \notin OSEventTbl'[f]
      BY <1>2, <2>1, <3>1 DEF Placed, OnFlags, OnEvent, EventPends
    <3>3. OSTCBFlagNode'[t] = NULL
      BY <1>1, <1>2, <2>3
    <3>4. /\ OSTCBStat'[t] = OSTCBStat[t] \ {"FLAG"} /\ OSTCBStatPend'[t] = "OK"
          /\ OSTCBDly'[t] = 0
      BY <1>1, <1>2, <2>3
    <3>5. OSTCBStat[t] \ {"SUSPEND"} \subseteq {"FLAG"}
      BY <2>1, <3>1 DEF Staged, AtWork, Waiting, TimedOut, Answered
    <3>6. OSTCBStat[t] \subseteq {"FLAG"} <=> ~Suspended(t)
      BY <3>5 DEF Suspended
    <3>7. Ready(t)' <=> Ready(t) \/ ~Suspended(t)
      BY <1>3, <2>3, <3>6
    <3>8. Suspended(t)' => Suspended(t)
      BY <3>4 DEF Suspended
    <3> QED
      BY <1>2, <2>1, <3>1, <3>2, <3>3, <3>4, <3>7, <3>8, AnsweredStage
  <2> QED
    BY <2>2, <2>3
<1>5. Arrays'
  BY <1>2 DEF StageInv, DataInv, Arrays, Kept
<1>6. ListRows'
  BY <1>1, <1>2 DEF StageInv, TableInv, ListRows
<1>7. MutexesKept
  BY <1>2, <1>4, TakersAre DEF MutexesKept
<1> QED
  BY <1>1, <1>3, <1>4, <1>5, <1>6, <1>7 DEF Faithful, DataInv, Stages

LEMMA TickFine ==
  ASSUME StageInv, OSTimeTick, Kept, OSTCBFlagNode' = OSTCBFlagNode
  PROVE  Faithful
<1> DEFINE Ends == {t \in OSTCBTbl \ {Idle} : OSTCBDly[t] = 1}
<1>1. Ends \subseteq Tasks /\ Tasks \subseteq OSTCBTbl /\ Tasks' = Tasks
  BY TasksAre DEF StageInv, TableInv, ListRows, Kept, Tasks
<1>2. /\ OSTCBDly' = [t \in OSTCBTbl |->
           IF t # Idle /\ OSTCBDly[t] > 0 THEN OSTCBDly[t] - 1 ELSE OSTCBDly[t]]
      /\ OSTCBStat' = [t \in OSTCBTbl |->
           IF t \in Ends THEN OSTCBStat[t] \ OS_STAT_PEND_ANY ELSE OSTCBStat[t]]
      /\ OSTCBStatPend' = [t \in OSTCBTbl |->
           IF t \notin Ends THEN OSTCBStatPend[t]
           ELSE IF OSTCBStat[t] \cap OS_STAT_PEND_ANY # {} THEN "TO" ELSE "OK"]
      /\ OSRdyTbl' = OSRdyTbl \cup {OSTCBPrio[t] : t \in {u \in Ends : "SUSPEND" \notin OSTCBStat[u]}}
      /\ UNCHANGED <<OSTCBEventPtr, OSTCBEventMultiPtr, OSEventTbl, taskVars>>
  BY DEF OSTimeTick
<1>3. ReadyRow' /\ \A u \in Tasks : Ready(u)' <=> Ready(u) \/ (u \in Ends /\ "SUSPEND" \notin OSTCBStat[u])
  <2>1. PICK X : X = {u \in Ends : "SUSPEND" \notin OSTCBStat[u]}
    OBVIOUS
  <2> HIDE DEF Ends
  <2>2. OSRdyTbl' = OSRdyTbl \cup {OSTCBPrio[u] : u \in X} /\ X \subseteq Tasks
    BY <1>1, <1>2, <2>1
  <2>3. ReadyRow' /\ \A u \in Tasks : Ready(u)' <=> Ready(u) \/ u \in X
    BY <1>2, <2>2, Readied DEF Kept
  <2> QED
    BY <2>1, <2>3
<1>4. \A t \in OSTCBTbl : OSTCBDly[t] \in Nat
  BY DEF StageInv, DataInv, Arrays
<1>5. ASSUME NEW t \in Tasks
      PROVE  Placed(t)' /\ Staged(t)' /\ (Suspended(t)' => Suspended(t))
  <2>1. Placed(t) /\ Staged(t) /\ CtlKept(t) /\ TypesKept
    BY DEF StageInv, DataInv, Stages, Kept
  <2>2. CASE t \in Ends
    <3>1. OSTCBDly[t] = 1 /\ OSTCBDly'[t] = 0
      BY <1>1, <1>2, <2>2
    <3>2. Expired(t)
      BY <1>1, <1>2, <1>3, <2>2, <3>1 DEF Expired, Suspended
    <3> QED
      BY <2>1, <3>2, ExpiredStage DEF Expired, Suspended
  <2>3. CASE t \notin Ends
    <3>1. /\ Ready(t)' <=> Ready(t)
          /\ OSTCBStat'[t] = OSTCBStat[t] /\ OSTCBStatPend'[t] = OSTCBStatPend[t]
          /\ Suspended(t)' <=> Suspended(t)
      BY <1>1, <1>2, <1>3, <2>3 DEF Suspended
    <3>2. CASE OSTCBDly'[t] = OSTCBDly[t]
      <4>1. Unmoved(t)
        BY <1>2, <3>1, <3>2 DEF Unmoved
      <4> QED
        BY <2>1, <3>1, <4>1, StagedKept
    <3>3. CASE OSTCBDly'[t] # OSTCBDly[t]
      <4>1. OSTCBDly[t] # 0 /\ OSTCBDly'[t] # 0
        <5>1. t # Idle /\ OSTCBDly[t] > 0 /\ OSTCBDly'[t] = OSTCBDly[t] - 1
          BY <1>1, <1>2, <3>3
        <5>2. OSTCBDly[t] # 1
          BY <1>1, <2>3, <5>1
        <5> QED
          BY <1>1, <1>4, <5>1, <5>2
      <4>2. /\ Placed(t)' /\ (Pending(t)' <=> Pending(t))
            /\ Pending(t) => Bit(t)' = Bit(t)
        BY <1>2, <2>1, PlacedKept DEF CtlKept
      <4>3. Queued(t)' <=> Queued(t)
        BY <1>2 DEF Queued
      <4>4. CASE AtWork(t)
        BY <3>1, <4>1, <4>2, <4>3, <4>4 DEF AtWork, Staged
      <4>5. CASE Waiting(t)
        BY <3>1, <4>1, <4>2, <4>3, <4>5 DEF Waiting, Staged
      <4> QED
        BY <2>1, <3>1, <4>1, <4>2, <4>4, <4>5 DEF Staged, TimedOut, Answered
    <3> QED
      BY <3>2, <3>3
  <2> QED
    BY <2>2, <2>3
<1> HIDE DEF Ends
<1>6. Arrays'
  <2>1. \A t \in OSTCBTbl : OSTCBDly'[t] \in Nat
    BY <1>2, <1>4
  <2> QED
    BY <1>2, <2>1 DEF StageInv, DataInv, Arrays, Kept
<1>7. ListRows'
  <2>1. \A t \in OSTCBTbl : OSTCBDly'[t] # 0 => t \in Tasks
    BY <1>2 DEF StageInv, TableInv, ListRows
  <2> QED
    BY <1>1, <1>2, <2>1 DEF StageInv, TableInv, ListRows
<1>8. MutexesKept
  BY <1>2, <1>5, TakersAre DEF MutexesKept
<1> QED
  BY <1>1, <1>3, <1>5, <1>6, <1>7, <1>8 DEF Faithful, DataInv, Stages

(* A priority that is in use names a task, and the idle task only its own. *)
LEMMA PrioNames ==
  ASSUME StageInv, NEW p \in Prio \ {Idle}, Exists(p)
  PROVE  /\ OSTCBPrioTbl[p] \in Tasks /\ OSTCBPrioTbl[p] # Idle /\ OSTCBPrioTbl[p] \in OSTCBTbl
         /\ (\A q \in Prio : \A e \in MutexesOf(q) : p # q /\ p \notin Pips(e))
              => MutexesOf(OSTCBPrioTbl[p]) = {}
<1> DEFINE u == OSTCBPrioTbl[p]
<1>1. u \in Tasks /\ u \in OSTCBTbl /\ p \in {u, OSTCBPrio[u]} /\ u \in Prio
  BY TasksAre DEF Exists, StageInv, TableInv, Numbered
<1>2. u # Idle
  BY <1>1, IdleUnraised
<1>3. ASSUME \A q \in Prio : \A e \in MutexesOf(q) : p # q /\ p \notin Pips(e), NEW e \in MutexesOf(u)
      PROVE  FALSE
  <2>1. Raised(u) /\ p = OSTCBPrio[u]
    BY <1>1, <1>3 DEF Raised
  <2>2. PICK f \in Mutexes : OSEventPtr[f] = u /\ OSTCBPrio[u] = OSMutexPIP[f]
    BY <1>1, <2>1 DEF StageInv, TableInv, Owned
  <2>3. Mutex(f) /\ Owns(u, f)
    BY <1>1, <2>2, TasksAre DEF StageInv, TableInv, Owned, Mutex
  <2>4. p \in Pips(f) /\ f \in MutexesOf(u)
    BY <2>1, <2>2, <2>3 DEF Mutex, Owns
  <2> QED
    BY <1>1, <1>3, <2>4
<1> QED
  BY <1>1, <1>2, <1>3

(* What is common to the services on one task.                             *)
LEMMA ServiceRows ==
  ASSUME StageInv, Kept, NEW u \in Tasks, NEW d, NEW s, NEW x,
         UNCHANGED <<taskVars, OSEventTbl, OSTCBFlagNode, OSTCBEventPtr, OSTCBEventMultiPtr>>,
         OSTCBDly' = [OSTCBDly EXCEPT ![u] = d], d \in Nat,
         OSTCBStat' = [OSTCBStat EXCEPT ![u] = s], "SUSPEND" \in s => MutexesOf(u) = {} \/ Suspended(u),
         OSTCBStatPend' = [OSTCBStatPend EXCEPT ![u] = x],
         ReadyRow', \A v \in Tasks : v # u => (Ready(v)' <=> Ready(v)), Placed(u)', Staged(u)'
  PROVE  Faithful
<1>1. Tasks' = Tasks /\ Tasks \subseteq OSTCBTbl
  BY TasksAre DEF Kept, Tasks
<1>2. Arrays'
  BY DEF StageInv, DataInv, Arrays, Kept
<1>3. ListRows'
  BY <1>1 DEF StageInv, TableInv, ListRows, DataInv, Arrays
<1>4. ASSUME NEW v \in Tasks, v # u
      PROVE  Placed(v)' /\ Staged(v)' /\ (Suspended(v)' <=> Suspended(v))
  <2>1. Unmoved(v)
    BY <1>1, <1>4 DEF Unmoved, StageInv, DataInv, Arrays
  <2> QED
    BY <2>1, StagedKept DEF Kept, Unmoved, Suspended
<1>5. Suspended(u)' <=> "SUSPEND" \in s
  BY <1>1 DEF Suspended, StageInv, DataInv, Arrays
<1>6. MutexesKept
  BY <1>4, <1>5, TakersAre DEF MutexesKept
<1> QED
  BY <1>1, <1>2, <1>3, <1>4, <1>6 DEF Faithful, DataInv, Stages

LEMMA SuspendStage ==
  ASSUME StageInv, NEW t \in Tasks, CtlKept(t), TypesKept,
         OSTCBStat'[t] = OSTCBStat[t] \cup {"SUSPEND"}, ~Ready(t)',
         OSTCBDly'[t] = OSTCBDly[t], OSTCBStatPend'[t] = OSTCBStatPend[t],
         UNCHANGED <<OSEventTbl, OSTCBFlagNode, OSTCBEventPtr, OSTCBEventMultiPtr>>
  PROVE  Placed(t)' /\ Staged(t)'
<1>0. Placed(t) /\ Staged(t)
  BY DEF StageInv, DataInv, Stages
<1>1. /\ Placed(t)' /\ (Pending(t)' <=> Pending(t)) /\ Suspended(t)'
      /\ Pending(t) => Bit(t)' = Bit(t)
  BY <1>0, PlacedKept DEF CtlKept, Suspended
<1>2. Queued(t)' <=> Queued(t)
  BY DEF Queued
<1>3. CASE AtWork(t)
  BY <1>1, <1>2, <1>3 DEF AtWork, Staged
<1>4. CASE Waiting(t)
  <2>1. OSTCBStat'[t] \ {"SUSPEND"} = {Bit(t)}
    BY <1>4 DEF Waiting
  <2> QED
    BY <1>1, <1>2, <1>4, <2>1 DEF Waiting, Staged
<1>5. CASE TimedOut(t)
  BY <1>1, <1>2, <1>5 DEF TimedOut, Staged
<1>6. CASE Answered(t)
  BY <1>1, <1>2, <1>6 DEF Answered, Staged
<1> QED
  BY <1>0, <1>3, <1>4, <1>5, <1>6 DEF Staged

LEMMA ResumeStage ==
  ASSUME StageInv, NEW t \in Tasks, CtlKept(t), TypesKept,
         OSTCBStat'[t] = OSTCBStat[t] \ {"SUSPEND"},
         Ready(t)' <=> Ready(t) \/ (OSTCBStat[t] = {"SUSPEND"} /\ OSTCBDly[t] = 0),
         OSTCBDly'[t] = OSTCBDly[t], OSTCBStatPend'[t] = OSTCBStatPend[t],
         UNCHANGED <<OSEventTbl, OSTCBFlagNode, OSTCBEventPtr, OSTCBEventMultiPtr>>
  PROVE  Placed(t)' /\ Staged(t)'
<1>0. Placed(t) /\ Staged(t)
  BY DEF StageInv, DataInv, Stages
<1>1. /\ Placed(t)' /\ (Pending(t)' <=> Pending(t)) /\ ~Suspended(t)'
      /\ Pending(t) => Bit(t)' = Bit(t)
  BY <1>0, PlacedKept DEF CtlKept, Suspended
<1>2. Queued(t)' <=> Queued(t)
  BY DEF Queued
<1>3. OSTCBStat[t] \subseteq {"SUSPEND"} =>
         OSTCBStat'[t] \subseteq {"SUSPEND"} /\ (Suspended(t) <=> OSTCBStat[t] = {"SUSPEND"})
  BY DEF Suspended
<1>4. CASE AtWork(t)
  <2>1. Ready(t)' <=> OSTCBDly'[t] = 0
    BY <1>3, <1>4 DEF AtWork
  <2> QED
    BY <1>1, <1>2, <1>3, <1>4, <2>1 DEF AtWork, Staged
<1>5. CASE Waiting(t)
  <2>1. OSTCBStat'[t] \ {"SUSPEND"} = {Bit(t)} /\ OSTCBStat[t] # {"SUSPEND"}
    BY <1>5 DEF Waiting
  <2> QED
    BY <1>1, <1>2, <1>5, <2>1 DEF Waiting, Staged
<1>6. CASE TimedOut(t)
  <2>1. Ready(t)'
    BY <1>3, <1>6 DEF TimedOut
  <2> QED
    BY <1>1, <1>2, <1>3, <1>6, <2>1 DEF TimedOut, Staged
<1>7. CASE Answered(t)
  <2>1. Ready(t)'
    BY <1>3, <1>7 DEF Answered
  <2> QED
    BY <1>1, <1>2, <1>3, <1>7, <2>1 DEF Answered, Staged
<1> QED
  BY <1>0, <1>4, <1>5, <1>6, <1>7 DEF Staged

LEMMA ServiceFine ==
  ASSUME StageInv, Kept, NEW p \in Prio \ {Idle},
         \/ OSTimeDlyResume(p)
         \/ OSTaskResume(p)
         \/ /\ OSTaskSuspend(p)
            /\ \A q \in Prio : \A e \in MutexesOf(q) : p # q /\ p \notin Pips(e)
  PROVE  Faithful
<1>0. PICK u : u = OSTCBPrioTbl[p]
  OBVIOUS
<1>1. UNCHANGED <<taskVars, OSEventTbl, OSTCBFlagNode, OSTCBEventPtr, OSTCBEventMultiPtr>>
      /\ app' = app
  BY DEF OSTimeDlyResume, OSTaskSuspend, OSTaskResume, flagVars, Kept
<1>2. Exists(p) => u \in Tasks /\ u # Idle /\ u \in OSTCBTbl /\ CtlKept(u) /\ TypesKept
  BY <1>0, PrioNames DEF Kept
<1>3. Arrays
  BY DEF StageInv, DataInv
<1>4. ASSUME UNCHANGED <<OSTCBDly, OSTCBStat, OSTCBStatPend, OSRdyTbl>>
      PROVE  Faithful
  <2>1. Tasks' = Tasks /\ ReadyRow' /\ ListRows' /\ Arrays'
    BY <1>1, <1>4 DEF StageInv, TableInv, ReadyRow, ListRows, DataInv, Arrays, taskVars, Kept, Tasks
  <2>2. \A t \in Tasks : Unmoved(t)
    BY <1>1, <1>4 DEF Unmoved, taskVars, Ready
  <2>3. MutexesKept
    BY <1>1, <1>4, TakersAre DEF MutexesKept, Suspended
  <2> QED
    BY <2>1, <2>2, <2>3, StagedKept DEF Faithful, DataInv, Stages, Kept
<1>5. CASE OSTimeDlyResume(p)
  <2>1. CASE Exists(p) /\ OSTCBDly[u] > 0
    <3>1. /\ OSTCBDly' = [OSTCBDly EXCEPT ![u] = 0]
          /\ OSTCBStat' = [OSTCBStat EXCEPT ![u] = OSTCBStat[u] \ OS_STAT_PEND_ANY]
          /\ OSTCBStatPend' = [OSTCBStatPend EXCEPT ![u] =
               IF OSTCBStat[u] \cap OS_STAT_PEND_ANY # {} THEN "TO" ELSE "OK"]
          /\ OSRdyTbl' = IF "SUSPEND" \in OSTCBStat[u] THEN OSRdyTbl
                           ELSE OSRdyTbl \cup {OSTCBPrio[u]}
      BY <1>0, <1>3, <1>5, <2>1 DEF OSTimeDlyResume, Arrays
    <3>2. u \in Tasks /\ u \in OSTCBTbl /\ CtlKept(u) /\ TypesKept
      BY <1>2, <2>1
    <3>3. PICK X : X = IF "SUSPEND" \in OSTCBStat[u] THEN {} ELSE {u}
      OBVIOUS
    <3>4. OSRdyTbl' = OSRdyTbl \cup {OSTCBPrio[v] : v \in X} /\ X \subseteq Tasks
      BY <3>1, <3>2, <3>3
    <3>5. ReadyRow' /\ \A v \in Tasks : Ready(v)' <=> Ready(v) \/ v \in X
      BY <1>1, <3>4, Readied
    <3>6. Ready(u)' <=> Ready(u) \/ ~Suspended(u)
      BY <3>2, <3>3, <3>5 DEF Suspended
    <3>7. Expired(u)
      BY <1>1, <1>3, <2>1, <3>1, <3>2, <3>6 DEF Expired, Arrays
    <3>8. Placed(u)' /\ Staged(u)'
      BY <3>2, <3>7, ExpiredStage
    <3>9. "SUSPEND" \in OSTCBStat[u] \ OS_STAT_PEND_ANY => MutexesOf(u) = {} \/ Suspended(u)
      BY DEF Suspended
    <3>10. \A v \in Tasks : v # u => (Ready(v)' <=> Ready(v))
      BY <3>3, <3>5
    <3> QED
      BY <1>1, <3>1, <3>2, <3>5, <3>8, <3>9, <3>10, ServiceRows
  <2>2. CASE ~(Exists(p) /\ OSTCBDly[u] > 0)
    BY <1>0, <1>4, <1>5, <2>2 DEF OSTimeDlyResume
  <2> QED
    BY <2>1, <2>2
<1>6. CASE OSTaskResume(p)
  <2>1. CASE Exists(p)
    <3>1. /\ OSTCBStat' = [OSTCBStat EXCEPT ![u] = OSTCBStat[u] \ {"SUSPEND"}]
          /\ OSRdyTbl' = IF OSTCBStat[u] = {"SUSPEND"} /\ OSTCBDly[u] = 0
                           THEN OSRdyTbl \cup {OSTCBPrio[u]} ELSE OSRdyTbl
          /\ UNCHANGED <<OSTCBDly, OSTCBStatPend>>
      BY <1>0, <1>6, <2>1 DEF OSTaskResume, ResumeReadies
    <3>2. u \in Tasks /\ u \in OSTCBTbl /\ CtlKept(u) /\ TypesKept
      BY <1>2, <2>1
    <3>3. PICK X : X = IF OSTCBStat[u] = {"SUSPEND"} /\ OSTCBDly[u] = 0 THEN {u} ELSE {}
      OBVIOUS
    <3>4. OSRdyTbl' = OSRdyTbl \cup {OSTCBPrio[v] : v \in X} /\ X \subseteq Tasks
      BY <3>1, <3>2, <3>3
    <3>5. ReadyRow' /\ \A v \in Tasks : Ready(v)' <=> Ready(v) \/ v \in X
      BY <1>1, <3>4, Readied
    <3>6. Ready(u)' <=> Ready(u) \/ (OSTCBStat[u] = {"SUSPEND"} /\ OSTCBDly[u] = 0)
      BY <3>2, <3>3, <3>5
    <3>7. OSTCBStat'[u] = OSTCBStat[u] \ {"SUSPEND"}
      BY <1>3, <3>1, <3>2 DEF Arrays
    <3>8. Placed(u)' /\ Staged(u)'
      BY <1>1, <3>1, <3>2, <3>6, <3>7, ResumeStage
    <3>9. OSTCBDly' = [OSTCBDly EXCEPT ![u] = OSTCBDly[u]] /\ OSTCBDly[u] \in Nat
          /\ OSTCBStatPend' = [OSTCBStatPend EXCEPT ![u] = OSTCBStatPend[u]]
      BY <1>3, <3>1, <3>2 DEF Arrays
    <3>10. \A v \in Tasks : v # u => (Ready(v)' <=> Ready(v))
      BY <3>3, <3>5
    <3> QED
      BY <1>1, <3>1, <3>2, <3>5, <3>8, <3>9, <3>10, ServiceRows
  <2>2. CASE ~Exists(p)
    BY <1>4, <1>6, <2>2 DEF OSTaskResume, ResumeReadies
  <2> QED
    BY <2>1, <2>2
<1>7. CASE OSTaskSuspend(p) /\ \A q \in Prio : \A e \in MutexesOf(q) : p # q /\ p \notin Pips(e)
  <2>1. CASE Exists(p)
    <3>1. /\ OSTCBStat' = [OSTCBStat EXCEPT ![u] = OSTCBStat[u] \cup {"SUSPEND"}]
          /\ OSRdyTbl' = OSRdyTbl \ {OSTCBPrio[u]}
          /\ UNCHANGED <<OSTCBDly, OSTCBStatPend>>
      BY <1>0, <1>7, <2>1 DEF OSTaskSuspend
    <3>2. u \in Tasks /\ u \in OSTCBTbl /\ CtlKept(u) /\ TypesKept /\ u # Idle /\ MutexesOf(u) = {}
      BY <1>0, <1>2, <1>7, <2>1, PrioNames
    <3>3. ReadyRow' /\ \A v \in Tasks : Ready(v)' <=> Ready(v) /\ v # u
      BY <1>1, <3>1, <3>2, Unreadied
    <3>4. OSTCBStat'[u] = OSTCBStat[u] \cup {"SUSPEND"} /\ ~Ready(u)'
      BY <1>3, <3>1, <3>2, <3>3 DEF Arrays
    <3>5. Placed(u)' /\ Staged(u)'
      BY <1>1, <3>1, <3>2, <3>4, SuspendStage
    <3>6. OSTCBDly' = [OSTCBDly EXCEPT ![u] = OSTCBDly[u]] /\ OSTCBDly[u] \in Nat
          /\ OSTCBStatPend' = [OSTCBStatPend EXCEPT ![u] = OSTCBStatPend[u]]
      BY <1>3, <3>1, <3>2 DEF Arrays
    <3> QED
      BY <1>1, <3>1, <3>2, <3>3, <3>5, <3>6, ServiceRows
  <2>2. CASE ~Exists(p)
    BY <1>4, <1>7, <2>2 DEF OSTaskSuspend
  <2> QED
    BY <2>1, <2>2
<1> QED
  BY <1>5, <1>6, <1>7

-----------------------------------------------------------------------------
LEMMA OneOrAllFine ==
  ASSUME StageInv, NEW e \in OSEventTblAll, NEW all, NEW msg, NEW bit,
         OSEventType[e] = bit, NEW pend \in {"OK", "ABORT"},
         OSTCBFlagNode' = OSTCBFlagNode, OSEventType' = OSEventType, app' = app,
         UNCHANGED taskVars, \A t \in Tasks : CtlKept(t),
         \/ /\ Waited(e)
            /\ \/ OS_EventTaskRdy(OSRdyTbl, e, OSEventTbl[e], msg, bit, pend)
               \/ OS_EventTaskRdy(OSRdyTbl, e, HighestWaiter(e), msg, bit, pend)
         \/ UNCHANGED waitVars
  PROVE  Faithful
<1>1. Kept
  BY DEF Kept, TypesKept, StageInv, DataInv, Arrays
<1>2. Numbered' /\ Renumbered(OSRdyTbl)
  BY DEF StageInv, TableInv, Numbered, ReadyRow, Renumbered, taskVars, Tasks, Ready
<1>3. OSTCBPrio' = OSTCBPrio
  BY DEF taskVars
<1>4. ASSUME NEW W, W \subseteq OSEventTbl[e], OS_EventTaskRdy(OSRdyTbl, e, W, msg, bit, pend)
      PROVE  Faithful
  BY <1>1, <1>2, <1>3, <1>4, PostFine
<1>5. CASE Waited(e) /\ OS_EventTaskRdy(OSRdyTbl, e, HighestWaiter(e), msg, bit, pend)
  BY <1>4, <1>5, ListsAre
<1>6. CASE UNCHANGED waitVars
  BY <1>1, <1>6, OtherFine
<1> QED
  BY <1>4, <1>5, <1>6

(* What a step does to the tables when it is no service of a mutex.        *)
Plain ==
  /\ app' = app /\ UNCHANGED <<taskVars, mutexVars>>
  /\ OSEventType' = [e \in OSEventTblAll |-> OSEventType'[e]] /\ Mutexes' = Mutexes
  /\ OSEventPtr' = [e \in OSEventTblAll |-> OSEventPtr'[e]]
  /\ \A e \in Mutexes : OSEventPtr'[e] = OSEventPtr[e]

LEMMA OwnedKept ==
  ASSUME StageInv, Plain, MutexesKept
  PROVE  Numbered' /\ Owned'
<1>1. Tasks' = Tasks /\ UNCHANGED <<OSTCBPrio, OSTCBPrioTbl, OSMutexPIP, OSOwnerPrio>>
      /\ \A x : MutexesOf(x)' = MutexesOf(x) /\ Pips(x)' = Pips(x)
  BY DEF Plain, taskVars, mutexVars, Tasks, MutexesOf, Pips, AllCalls
<1>2. Numbered'
  BY <1>1 DEF StageInv, TableInv, Numbered
<1>3. Mutexes' = Mutexes /\ \A e \in Mutexes : OSEventPtr'[e] = OSEventPtr[e] /\ OSEventTbl'[e] \subseteq OSEventTbl[e]
  BY DEF Plain, MutexesKept
<1>4. ASSUME NEW e \in Mutexes
      PROVE  Mutex(e)'
  <2>1. Mutex(e)
    BY DEF StageInv, TableInv, Owned
  <2>2. OSEventPtr[e] # NULL => Owns(OSEventPtr[e], e)'
    <3> SUFFICES ASSUME OSEventPtr[e] # NULL PROVE Owns(OSEventPtr[e], e)'
      OBVIOUS
    <3>1. Owns(OSEventPtr[e], e)
      BY <2>1 DEF Mutex
    <3>2. PICK o : o = OSEventPtr[e] /\ o = OSEventPtr'[e]
      BY <1>3
    <3>3. Owns(o, e)'
      BY <1>1, <1>3, <3>1, <3>2 DEF Owns
    <3> QED
      BY <3>2, <3>3 DEF Owns
  <2> QED
    BY <1>1, <1>3, <2>1, <2>2 DEF Mutex
<1>5. \A e \in Mutexes, f \in Mutexes : e # f =>
       /\ OSMutexPIP'[e] # OSMutexPIP'[f]
       /\ OSEventPtr'[e] = OSEventPtr'[f] => OSEventPtr'[e] = NULL
  BY <1>1, <1>3 DEF StageInv, TableInv, Owned
<1>6. \A t \in Tasks : Raised(t)' =>
       \E e \in Mutexes : OSEventPtr'[e] = t /\ OSTCBPrio'[t] = OSMutexPIP'[e]
  <2>1. \A t \in Tasks : Raised(t) =>
          \E e \in Mutexes : OSEventPtr[e] = t /\ OSTCBPrio[t] = OSMutexPIP[e]
    BY DEF StageInv, TableInv, Owned
  <2>2. \A t : Raised(t)' <=> Raised(t)
    BY <1>1 DEF Raised
  <2> QED
    BY <1>1, <1>3, <2>1, <2>2
<1>7. \A t \in Tasks : MutexesOf(t)' # {} => ~Suspended(t)'
  BY <1>1 DEF MutexesKept
<1>8. /\ OSEventPtr' = [e \in OSEventTblAll |-> OSEventPtr'[e]]
      /\ OSMutexPIP' = [e \in OSEventTblAll |-> OSMutexPIP'[e]]
      /\ OSOwnerPrio' = [e \in OSEventTblAll |-> OSOwnerPrio'[e]]
  BY <1>1 DEF StageInv, TableInv, Owned, Plain
<1> QED
  BY <1>1, <1>2, <1>3, <1>4, <1>5, <1>6, <1>7, <1>8 DEF Owned

-----------------------------------------------------------------------------
(* The services that interrupts may call as well.                          *)
LEMMA SuspendNames ==
  ASSUME Discipline, StageInv, NEW c \in AllCalls, c.op = "TaskSuspend", WellFormed(c)
  PROVE  /\ c.prio \in Prio \ {Idle}
         /\ \A q \in Prio : \A e \in MutexesOf(q) : c.prio # q /\ c.prio \notin Pips(e)
  BY DEF Discipline, WellFormed

LEMMA CommonFine ==
  ASSUME Discipline, StageInv, NEW c \in AllCalls, WellFormed(c), RightType(c), Common(c),
         app' = app, \A t \in Tasks : CtlKept(t)
  PROVE  Faithful /\ UNCHANGED <<taskVars, mutexVars, OSEventType>>
<1> USE DEF ForSem, ForQ, ForFlag, ForTask, flagVars
<1>0. ASSUME UNCHANGED <<taskVars, OSEventType>>
      PROVE  Kept
  BY <1>0 DEF Kept, TypesKept, StageInv, DataInv, Arrays
<1>1. CASE c.op = "SemPost" /\ OSSemPost(c.ev) /\ ForSem
  <2>1. /\ c.ev \in OSEventTblAll /\ OSEventType[c.ev] = "SEM"
        /\ UNCHANGED <<taskVars, mutexVars, OSEventType, OSTCBFlagNode>>
    BY <1>1, EventOf DEF RightType, TypeFor, OSSemPost
  <2>2. \/ Waited(c.ev) /\ OS_EventTaskRdy(OSRdyTbl, c.ev, HighestWaiter(c.ev), NULL, "SEM", "OK")
        \/ UNCHANGED waitVars
    BY <1>1 DEF OSSemPost
  <2> QED
    BY <2>1, <2>2, OneOrAllFine
<1>2. CASE c.op = "MboxPost" /\ OSMboxPost(c.ev, c.msg, c.all) /\ ForSem
  <2>1. /\ c.ev \in OSEventTblAll /\ OSEventType[c.ev] = "MBOX"
        /\ UNCHANGED <<taskVars, mutexVars, OSEventType, OSTCBFlagNode>>
    BY <1>2, EventOf DEF RightType, TypeFor, OSMboxPost
  <2>2. \/ /\ Waited(c.ev)
           /\ \/ OS_EventTaskRdy(OSRdyTbl, c.ev, OSEventTbl[c.ev], c.msg, "MBOX", "OK")
              \/ OS_EventTaskRdy(OSRdyTbl, c.ev, HighestWaiter(c.ev), c.msg, "MBOX", "OK")
        \/ UNCHANGED waitVars
    BY <1>2 DEF OSMboxPost
  <2> QED
    BY <2>1, <2>2, OneOrAllFine
<1>3. CASE c.op = "QPost" /\ OSQPost(c.ev, c.msg, c.front, c.all) /\ ForQ
  <2>1. /\ c.ev \in OSEventTblAll /\ OSEventType[c.ev] = "Q"
        /\ UNCHANGED <<taskVars, mutexVars, OSEventType, OSTCBFlagNode>>
    BY <1>3, EventOf DEF RightType, TypeFor, OSQPost, eventVars
  <2>2. \/ /\ Waited(c.ev)
           /\ \/ OS_EventTaskRdy(OSRdyTbl, c.ev, OSEventTbl[c.ev], c.msg, "Q", "OK")
              \/ OS_EventTaskRdy(OSRdyTbl, c.ev, HighestWaiter(c.ev), c.msg, "Q", "OK")
        \/ UNCHANGED waitVars
    BY <1>3 DEF OSQPost
  <2> QED
    BY <2>1, <2>2, OneOrAllFine
<1>4. CASE \/ c.op = "SemPendAbort" /\ OSSemPendAbort(c.ev, c.all) /\ ForSem
           \/ c.op = "MboxPendAbort" /\ OSMboxPendAbort(c.ev, c.all) /\ ForSem
           \/ c.op = "QPendAbort" /\ OSQPendAbort(c.ev, c.all) /\ ForQ
  <2>1. c.ev \in OSEventTblAll
    BY <1>4, EventOf DEF TypeFor
  <2>2. PICK bit : PendAbort(c.ev, c.all, bit) /\ OSEventType[c.ev] = bit
    BY <1>4 DEF OSSemPendAbort, OSMboxPendAbort, OSQPendAbort, RightType, TypeFor
  <2>3. UNCHANGED <<taskVars, mutexVars, OSEventType, OSTCBFlagNode>>
    BY <1>4, <2>2 DEF PendAbort, eventVars
  <2>4. \/ /\ Waited(c.ev)
           /\ \/ OS_EventTaskRdy(OSRdyTbl, c.ev, OSEventTbl[c.ev], NULL, bit, "ABORT")
              \/ OS_EventTaskRdy(OSRdyTbl, c.ev, HighestWaiter(c.ev), NULL, bit, "ABORT")
        \/ UNCHANGED waitVars
    BY <2>2 DEF PendAbort
  <2> QED
    BY <2>1, <2>2, <2>3, <2>4, OneOrAllFine
<1>5. CASE c.op = "FlagPost" /\ OSFlagPost(c.grp, c.flags, c.set) /\ ForFlag
  <2> DEFINE T == Released(c.grp, c.flags, c.set)
             rdy == [t \in T |-> FlagsRdy(Posted(c.grp, c.flags, c.set), OSTCBFlagNode[t])]
  <2>1. OS_FlagTaskRdy(T, rdy)
    BY <1>5 DEF OSFlagPost
  <2>2. T \subseteq {t \in OSTCBTbl : OSTCBFlagNode[t] # NULL}
    BY DEF Released, Linked
  <2> HIDE DEF T, rdy
  <2>3. UNCHANGED <<taskVars, mutexVars, OSEventType>>
    BY <1>5, <2>1 DEF OS_FlagTaskRdy, eventVars
  <2> QED
    BY <1>0, <2>1, <2>2, <2>3, FlagFine
<1>6. CASE \/ c.op = "TimeDlyResume" /\ OSTimeDlyResume(c.prio) /\ ForTask
           \/ c.op = "TaskSuspend" /\ OSTaskSuspend(c.prio) /\ ForTask
           \/ c.op = "TaskResume" /\ OSTaskResume(c.prio) /\ ForTask
  <2>1. c.prio \in Prio \ {Idle}
    BY <1>6 DEF WellFormed
  <2>2. UNCHANGED <<taskVars, mutexVars, OSEventType>>
    BY <1>6 DEF OSTimeDlyResume, OSTaskSuspend, OSTaskResume, eventVars
  <2>3. \/ OSTimeDlyResume(c.prio)
        \/ OSTaskResume(c.prio)
        \/ /\ OSTaskSuspend(c.prio)
           /\ \A q \in Prio : \A e \in MutexesOf(q) : c.prio # q /\ c.prio \notin Pips(e)
    BY <1>6, SuspendNames
  <2> QED
    BY <1>0, <2>1, <2>2, <2>3, ServiceFine
<1>7. CASE \/ c.op = "SemAccept" /\ OSSemAccept(c.ev) /\ ForSem
           \/ c.op = "SemSet" /\ OSSemSet(c.ev, c.cnt) /\ ForSem
           \/ c.op = "MboxAccept" /\ OSMboxAccept(c.ev) /\ ForSem
           \/ c.op = "QAccept" /\ OSQAccept(c.ev) /\ ForQ
           \/ c.op = "QFlush" /\ OSQFlush(c.ev) /\ ForQ
           \/ c.op = "FlagAccept" /\ OSFlagAccept(c.wait) /\ ForFlag
  <2>1. UNCHANGED <<waitVars, OSTCBFlagNode, taskVars, mutexVars, OSEventType>>
    BY <1>7 DEF OSSemAccept, OSSemSet, OSMboxAccept, OSQAccept, OSQFlush, OSFlagAccept, dataVars,
                eventVars
  <2> QED
    BY <1>0, <2>1, OtherFine
<1> QED
  BY <1>1, <1>2, <1>3, <1>4, <1>5, <1>6, <1>7 DEF Common

LEMMA CommonPlain ==
  ASSUME StageInv, NEW c, RightType(c), Common(c), app' = app,
         UNCHANGED <<taskVars, mutexVars, OSEventType>>
  PROVE  Plain
<1>1. \/ OSEventPtr' = OSEventPtr
      \/ /\ OSEventType[c.ev] = "MBOX"
         /\ \E x : OSEventPtr' = [OSEventPtr EXCEPT ![c.ev] = x]
  <2>1. CASE c.op = "MboxAccept" /\ OSMboxAccept(c.ev)
    BY <2>1 DEF OSMboxAccept, RightType, TypeFor
  <2>2. CASE c.op = "MboxPost" /\ OSMboxPost(c.ev, c.msg, c.all)
    <3>1. \/ OSEventPtr' = OSEventPtr
          \/ OSEventPtr' = [OSEventPtr EXCEPT ![c.ev] = IF @ = NULL THEN c.msg ELSE @]
      BY <2>2 DEF OSMboxPost
    <3> QED
      BY <2>2, <3>1 DEF RightType, TypeFor
  <2>3. CASE ~(c.op = "MboxAccept" /\ OSMboxAccept(c.ev)) /\ ~(c.op = "MboxPost" /\ OSMboxPost(c.ev, c.msg, c.all))
    BY <2>3 DEF Common, OSSemAccept, OSSemPost, OSSemSet, OSSemPendAbort, OSMboxPendAbort, PendAbort,
       OSQAccept, OSQPost, OSQFlush, OSQPendAbort, OSFlagAccept, OSFlagPost, OS_FlagTaskRdy,
       OSTimeDlyResume, OSTaskSuspend, OSTaskResume, eventVars, dataVars
  <2> QED
    BY <2>1, <2>2, <2>3
<1>2. /\ OSEventPtr' = [e \in OSEventTblAll |-> OSEventPtr'[e]]
      /\ \A e \in Mutexes : OSEventPtr'[e] = OSEventPtr[e]
  BY <1>1 DEF StageInv, TableInv, Owned, Mutexes
<1>3. OSEventType' = [e \in OSEventTblAll |-> OSEventType'[e]]
  BY DEF StageInv, DataInv, Arrays
<1>4. Mutexes' = Mutexes
  BY DEF Mutexes
<1> QED
  BY <1>2, <1>3, <1>4 DEF Plain

(* None of them takes a task out of the ready table but OSTaskSuspend, and *)
(* that none that takes mutexes.                                           *)
LEMMA CommonReadies ==
  ASSUME Discipline, StageInv, NEW c \in AllCalls, WellFormed(c), Common(c)
  PROVE  \/ OSRdyTbl \subseteq OSRdyTbl'
         \/ /\ c.op = "TaskSuspend" /\ c.prio \in Tasks /\ MutexesOf(c.prio) = {}
            /\ OSTCBPrio[c.prio] = c.prio /\ OSRdyTbl' = OSRdyTbl \ {c.prio}
<1>1. CASE c.op = "TaskSuspend" /\ OSTaskSuspend(c.prio)
  <2>1. CASE Exists(c.prio)
    <3>1. PICK u : u = OSTCBPrioTbl[c.prio] /\ u \in Tasks /\ MutexesOf(u) = {}
      BY <1>1, <2>1, PrioNames, SuspendNames
    <3>2. ~Raised(u)
      <4>1. ASSUME Raised(u)
            PROVE  FALSE
        <5>1. PICK e \in Mutexes : OSEventPtr[e] = u
          BY <3>1, <4>1 DEF StageInv, TableInv, Owned
        <5>2. OSEventPtr[e] # NULL
          BY <3>1, <5>1, TasksAre
        <5>3. Owns(u, e)
          BY <5>1, <5>2 DEF StageInv, TableInv, Owned, Mutex
        <5> QED
          BY <3>1, <5>3 DEF Owns
      <4> QED
        BY <4>1
    <3>3. OSTCBPrio[u] = u /\ c.prio = u
      BY <1>1, <2>1, <3>1, <3>2, SuspendNames, TasksAre DEF Raised, Exists, StageInv, TableInv, Numbered
    <3> QED
      BY <1>1, <2>1, <3>1, <3>3 DEF OSTaskSuspend
  <2>2. CASE ~Exists(c.prio)
    BY <1>1, <2>2 DEF OSTaskSuspend
  <2> QED
    BY <2>1, <2>2
<1>2. CASE c.op \in {"SemPost", "MboxPost", "QPost"}
  BY <1>2 DEF Common, OSSemPost, OSMboxPost, OSQPost, OS_EventTaskRdy, waitVars
<1>3. CASE c.op \in {"SemPendAbort", "MboxPendAbort", "QPendAbort"}
  BY <1>3 DEF Common, OSSemPendAbort, OSMboxPendAbort, OSQPendAbort, PendAbort, OS_EventTaskRdy, waitVars
<1>4. CASE c.op \in {"FlagPost", "TimeDlyResume", "TaskResume"}
  BY <1>4 DEF Common, OSFlagPost, OS_FlagTaskRdy, OSTimeDlyResume, OSTaskResume
<1>5. CASE c.op \in {"SemAccept", "SemSet", "MboxAccept", "QAccept", "QFlush", "FlagAccept"}
  <2>1. UNCHANGED waitVars
    BY <1>5 DEF Common, OSSemAccept, OSSemSet, OSMboxAccept, OSQAccept, OSQFlush, OSFlagAccept, dataVars
  <2> QED
    BY <2>1 DEF waitVars
<1> QED
  BY <1>1, <1>2, <1>3, <1>4, <1>5 DEF Common

(* Nothing is ready that was not, and the running task keeps its place.    *)
StaysReady(t) ==
  /\ OSTCBPrio'[t] = OSTCBPrio[t]
  /\ OSRdyTbl' = OSRdyTbl \/ \E p : p # OSTCBPrio[t] /\ OSRdyTbl' = OSRdyTbl \ {p}

LEMMA CommonCalm ==
  ASSUME Discipline, StageInv, NEW t \in Tasks, NEW c \in AllCalls, WellFormed(c), Common(c),
         UNCHANGED taskVars, ~Resched(t, c), NoSched(c) => ~Waited(c.ev)
  PROVE  StaysReady(t)
<1>1. CASE c.op = "TaskSuspend"
  <2>1. c.prio # OSTCBPrio[t]
    BY <1>1 DEF Resched
  <2>2. CASE Exists(c.prio)
    <3>1. OSRdyTbl' = OSRdyTbl \ {OSTCBPrio[OSTCBPrioTbl[c.prio]]}
      BY <1>1, <2>2 DEF Common, OSTaskSuspend
    <3>2. OSRdyTbl' = OSRdyTbl \/ OSRdyTbl' = OSRdyTbl \ {c.prio}
      BY <3>1, CommonReadies
    <3> QED
      BY <2>1, <3>2 DEF StaysReady, taskVars
  <2>3. CASE ~Exists(c.prio)
    BY <1>1, <2>3 DEF Common, OSTaskSuspend, StaysReady, taskVars
  <2> QED
    BY <2>2, <2>3
<1>2. CASE c.op \in {"SemPost", "MboxPost", "QPost", "SemPendAbort", "MboxPendAbort", "QPendAbort"}
  <2>1. ~Waited(c.ev)
    BY <1>2 DEF Resched
  <2>2. UNCHANGED waitVars
    BY <1>2, <2>1 DEF Common, OSSemPost, OSMboxPost, OSQPost, OSSemPendAbort, OSMboxPendAbort,
                      OSQPendAbort, PendAbort
  <2> QED
    BY <2>2 DEF waitVars, StaysReady, taskVars
<1>3. CASE c.op = "FlagPost"
  <2> DEFINE T == Released(c.grp, c.flags, c.set)
  <2>1. OSRdyTbl' = OSRdyTbl \cup {OSTCBPrio[u] : u \in {v \in T : OSTCBStat[v] \subseteq {"FLAG"}}}
    BY <1>3 DEF Common, OSFlagPost, OS_FlagTaskRdy
  <2>2. ~FlagPostReadies(c.grp, c.flags, c.set)
    BY <1>3 DEF Resched
  <2>3. \A v \in T : ~(OSTCBStat[v] \subseteq {"FLAG"})
    BY <2>2 DEF FlagPostReadies
  <2> HIDE DEF T
  <2>4. OSRdyTbl' = OSRdyTbl
    BY <2>1, <2>3
  <2> QED
    BY <2>4 DEF StaysReady, taskVars
<1>4. CASE c.op = "TimeDlyResume"
  <2>1. ~(/\ Exists(c.prio) /\ OSTCBDly[OSTCBPrioTbl[c.prio]] > 0
          /\ "SUSPEND" \notin OSTCBStat[OSTCBPrioTbl[c.prio]])
    BY <1>4 DEF Resched
  <2>2. OSTimeDlyResume(c.prio)
    BY <1>4 DEF Common
  <2> QED
    BY <2>1, <2>2 DEF OSTimeDlyResume, StaysReady, taskVars
<1>5. CASE c.op = "TaskResume"
  <2>1. ~ResumeReadies(c.prio)
    BY <1>5 DEF Resched
  <2> QED
    BY <1>5, <2>1 DEF Common, OSTaskResume, StaysReady, taskVars
<1>6. CASE c.op \in {"SemAccept", "SemSet", "MboxAccept", "QAccept", "QFlush", "FlagAccept"}
  <2>1. UNCHANGED waitVars
    BY <1>6 DEF Common, OSSemAccept, OSSemSet, OSMboxAccept, OSQAccept, OSQFlush, OSFlagAccept, dataVars
  <2> QED
    BY <2>1 DEF waitVars, StaysReady, taskVars
<1> QED
  BY <1>1, <1>2, <1>3, <1>4, <1>5, <1>6 DEF Common

-----------------------------------------------------------------------------
(* The sections of a task that is not in a pend leave every other wait     *)
(* alone.                                                                  *)
LEMMA ReturnsKeep ==
  ASSUME StageInv, NEW t \in Tasks, ~Pending(t), NEW x, x \notin {"pend", "resume"}, NEW y,
         pc' = [pc EXCEPT ![t] = x], call' = [call EXCEPT ![t] = y]
  PROVE  \A u \in Tasks : CtlKept(u)
<1>1. t \in OSTCBTbl /\ Tasks \subseteq OSTCBTbl
  BY TasksAre
<1>2. ~Pending(t)'
  BY <1>1 DEF StageInv, TableInv, Controlled, Pending
<1> SUFFICES ASSUME NEW u \in Tasks
             PROVE  CtlKept(u)
  OBVIOUS
<1>3. CASE u = t
  BY <1>2, <1>3 DEF CtlKept
<1>4. CASE u # t
  BY <1>1, <1>4 DEF CtlKept, Pending, StageInv, TableInv, Controlled
<1> QED
  BY <1>3, <1>4

(* A task that makes a call of its own; one that pends owns no mutex.      *)
LEMMA CallerIs ==
  ASSUME StageInv, NEW t \in OSTCBTbl, pc[t] \in {"enter", "pend", "resume"}
  PROVE  /\ t \in Tasks /\ t # Idle /\ call[t] \in app.calls[t] /\ call[t] \in AllCalls
         /\ WellFormed(call[t]) /\ t \in Prio
  BY TasksAre, TasksArePrios DEF StageInv, TableInv, Controlled, AllCalls

LEMMA PenderIs ==
  ASSUME StageInv, NEW t \in OSTCBTbl, pc[t] = "enter", call[t].op \in PendOps
  PROVE  OSTCBPrio[t] = t /\ \A e \in Mutexes : OSEventPtr[e] # t
<1>1. t \in Tasks /\ t # NULL
  BY CallerIs, TasksAre
<1>2. \A e \in Mutexes : OSEventPtr[e] # t
  BY <1>1 DEF StageInv, TableInv, OwnerCalls
<1> QED
  BY <1>1, <1>2 DEF StageInv, TableInv, Owned, Raised

(* A task starts to wait.                                                  *)
LEMMA OthersWait ==
  ASSUME StageInv, NEW t \in Tasks, pc' = [pc EXCEPT ![t] = "pend"],
         UNCHANGED <<app, call, OSEventType, OSTCBEventMultiPtr>>,
         \A u \in Tasks : u # t => (Ready(u)' <=> Ready(u)),
         NEW n \in Nat, OSTCBDly' = [OSTCBDly EXCEPT ![t] = n],
         \E x : OSTCBStat' = [OSTCBStat EXCEPT ![t] = x],
         \E x : OSTCBStatPend' = [OSTCBStatPend EXCEPT ![t] = x],
         \E x : OSTCBEventPtr' = [OSTCBEventPtr EXCEPT ![t] = x],
         OSTCBFlagNode' = OSTCBFlagNode \/ \E w : OSTCBFlagNode' = [OSTCBFlagNode EXCEPT ![t] = w],
         OSEventTbl' = OSEventTbl \/ \E e : OSEventTbl' = [OSEventTbl EXCEPT ![e] = @ \cup {t}]
  PROVE  /\ Arrays' /\ ListRows'
         /\ \A u \in Tasks : u # t => Placed(u)' /\ Staged(u)' /\ (Suspended(u)' <=> Suspended(u))
<1>1. t \in OSTCBTbl /\ Tasks \subseteq OSTCBTbl /\ Tasks' = Tasks
  BY TasksAre DEF Tasks
<1>2. Arrays'
  <2>1. OSTCBDly' \in [OSTCBTbl -> Nat]
    BY <1>1 DEF StageInv, DataInv, Arrays
  <2> QED
    BY <2>1 DEF StageInv, DataInv, Arrays
<1>3. /\ OSEventTbl' = [e \in OSEventTblAll |-> OSEventTbl'[e]]
      /\ \A e \in OSEventTblAll : OSEventTbl'[e] \subseteq Tasks
      /\ \A e \in OSEventTblAll : \A u \in Tasks \ {t} : u \in OSEventTbl'[e] <=> u \in OSEventTbl[e]
  <2>1. CASE OSEventTbl' = OSEventTbl
    BY <2>1 DEF StageInv, TableInv, ListRows
  <2>2. ASSUME NEW e, OSEventTbl' = [OSEventTbl EXCEPT ![e] = @ \cup {t}]
        PROVE  /\ OSEventTbl' = [f \in OSEventTblAll |-> OSEventTbl'[f]]
               /\ \A f \in OSEventTblAll : OSEventTbl'[f] \subseteq Tasks
               /\ \A f \in OSEventTblAll : \A u \in Tasks \ {t} : u \in OSEventTbl'[f] <=> u \in OSEventTbl[f]
    BY <2>2 DEF StageInv, TableInv, ListRows
  <2> QED
    BY <2>1, <2>2
<1>4. /\ OSTCBFlagNode' = [u \in OSTCBTbl |-> OSTCBFlagNode'[u]]
      /\ \A u \in OSTCBTbl : OSTCBFlagNode'[u] # NULL => u \in Tasks
      /\ \A u \in Tasks \ {t} : OSTCBFlagNode'[u] = OSTCBFlagNode[u]
  BY <1>1 DEF StageInv, TableInv, ListRows
<1>5. ListRows'
  <2>1. \A u \in OSTCBTbl : OSTCBDly'[u] # 0 => u \in Tasks
    BY <1>1 DEF StageInv, TableInv, ListRows, DataInv, Arrays
  <2> QED
    BY <1>1, <1>3, <1>4, <2>1 DEF ListRows
<1>6. ASSUME NEW u \in Tasks, u # t
      PROVE  Placed(u)' /\ Staged(u)' /\ (Suspended(u)' <=> Suspended(u))
  <2>1. CtlKept(u) /\ TypesKept
    BY <1>1, <1>6 DEF CtlKept, TypesKept, Pending, StageInv, TableInv, Controlled
  <2>2. /\ OSTCBStat'[u] = OSTCBStat[u] /\ OSTCBStatPend'[u] = OSTCBStatPend[u]
        /\ OSTCBEventPtr'[u] = OSTCBEventPtr[u] /\ OSTCBEventMultiPtr'[u] = OSTCBEventMultiPtr[u]
        /\ OSTCBDly'[u] = OSTCBDly[u]
    BY <1>1, <1>6 DEF StageInv, DataInv, Arrays
  <2>3. Unmoved(u)
    BY <1>3, <1>4, <1>6, <2>2 DEF Unmoved
  <2> QED
    BY <2>1, <2>2, <2>3, StagedKept DEF Suspended
<1> QED
  BY <1>2, <1>5, <1>6

LEMMA EventWaitStages ==
  ASSUME StageInv, NEW t \in OSTCBTbl, pc[t] = "enter", call[t].op \in EventPends,
         RightType(call[t]), NEW e, e = call[t].ev, NEW bit, bit = TypeFor(call[t].op),
         pc' = [pc EXCEPT ![t] = "pend"],
         UNCHANGED <<app, call, OSEventType, OSTCBEventMultiPtr, OSTCBFlagNode>>,
         \A u \in Tasks : Ready(u)' <=> Ready(u) /\ u # t,
         OSTCBStat' = [OSTCBStat EXCEPT ![t] = @ \cup {bit}],
         OSTCBStatPend' = [OSTCBStatPend EXCEPT ![t] = "OK"],
         OSTCBDly' = [OSTCBDly EXCEPT ![t] = call[t].timeout],
         OSTCBEventPtr' = [OSTCBEventPtr EXCEPT ![t] = e],
         OSEventTbl' = [OSEventTbl EXCEPT ![e] = @ \cup {t}]
  PROVE  /\ ListRows' /\ DataInv' /\ e \in OSEventTblAll
         /\ OSEventType[e] = bit /\ bit \in {"SEM", "MBOX", "Q", "MUTEX"}
         /\ \A u \in Tasks : Suspended(u)' <=> Suspended(u)
<1>1. t \in Tasks /\ Tasks \subseteq OSTCBTbl /\ Tasks' = Tasks /\ WellFormed(call[t])
  BY CallerIs, TasksAre DEF Tasks
<1>2. /\ bit \in {"SEM", "MBOX", "Q", "MUTEX"} /\ e \in OSEventTblAll
      /\ call[t].timeout \in Nat /\ OSEventType[e] = bit
  <2>1. bit \in {"SEM", "MBOX", "Q", "MUTEX"} /\ call[t].timeout \in Nat
    BY <1>1 DEF EventPends, TypeFor, WellFormed, PendOps
  <2>2. e \in OSEventTblAll
    BY <1>1, EventOf
  <2> QED
    BY <2>1, <2>2 DEF RightType
<1>3. Placed(t) /\ AtWork(t) /\ ~Pending(t)
  BY <1>1 DEF StageInv, DataInv, Stages, Staged, AtWork, Waiting, TimedOut, Answered, Pending
<1>5. /\ Arrays' /\ ListRows'
      /\ \A u \in Tasks : u # t => Placed(u)' /\ Staged(u)' /\ (Suspended(u)' <=> Suspended(u))
  <2>1. PICK n \in Nat : n = call[t].timeout
    BY <1>2
  <2> QED
    BY <1>1, <2>1, OthersWait
<1>6. /\ OSTCBStat'[t] = OSTCBStat[t] \cup {bit} /\ OSTCBStatPend'[t] = "OK"
      /\ OSTCBEventPtr'[t] = e /\ OSTCBEventMultiPtr'[t] = {} /\ OSTCBFlagNode'[t] = NULL
      /\ ~Ready(t)' /\ pc'[t] = "pend" /\ call'[t] = call[t]
  BY <1>1, <1>3 DEF StageInv, DataInv, Arrays, Placed, OnFlags, TableInv, Controlled
<1>7. t \in OSEventTbl'[e] /\ \A f \in OSEventTblAll : t \in OSEventTbl'[f] => f = e
  BY <1>2, <1>3 DEF StageInv, TableInv, ListRows, Placed, OnEvent
<1>8. OnEvent(t)' /\ Pending(t)' /\ Bit(t)' = bit
  BY <1>6 DEF OnEvent, Pending, Bit, EventPends
<1>9. Placed(t)'
  BY <1>2, <1>6, <1>7, <1>8 DEF Placed
<1>10. Waiting(t)' /\ (Suspended(t)' <=> Suspended(t))
  <2>1. Queued(t)'
    BY <1>2, <1>7 DEF Queued
  <2>2. OSTCBStat'[t] \ {"SUSPEND"} = {bit}
    BY <1>2, <1>3, <1>6 DEF AtWork
  <2> QED
    BY <1>2, <1>6, <1>8, <2>1, <2>2 DEF Waiting, Suspended
<1> QED
  BY <1>1, <1>2, <1>5, <1>9, <1>10 DEF DataInv, Stages, Staged

LEMMA EventWaitFine ==
  ASSUME StageInv, NEW t \in OSTCBTbl, pc[t] = "enter", call[t].op \in EventPends \ {"MutexPend"},
         RightType(call[t]), OSTCBFlagNode' = OSTCBFlagNode,
         OS_EventTaskWait(t, call[t].ev, TypeFor(call[t].op), call[t].timeout)
  PROVE  Faithful /\ UNCHANGED <<taskVars, OSEventType>>
<1>1. t \in Tasks /\ t # Idle /\ OSTCBPrio[t] = t
  BY CallerIs, PenderIs DEF EventPends, PendOps
<1>2. PICK e, bit : e = call[t].ev /\ bit = TypeFor(call[t].op)
  OBVIOUS
<1>3. /\ OSTCBStat' = [OSTCBStat EXCEPT ![t] = @ \cup {bit}]
      /\ OSTCBStatPend' = [OSTCBStatPend EXCEPT ![t] = "OK"]
      /\ OSTCBDly' = [OSTCBDly EXCEPT ![t] = call[t].timeout]
      /\ OSTCBEventPtr' = [OSTCBEventPtr EXCEPT ![t] = e]
      /\ OSEventTbl' = [OSEventTbl EXCEPT ![e] = @ \cup {t}]
      /\ OSRdyTbl' = OSRdyTbl \ {OSTCBPrio[t]}
      /\ pc' = [pc EXCEPT ![t] = "pend"]
      /\ UNCHANGED <<app, call, taskVars, OSTCBEventMultiPtr, OSEventType>>
  BY <1>1, <1>2 DEF OS_EventTaskWait, eventVars
<1>4. ReadyRow' /\ \A u \in Tasks : Ready(u)' <=> Ready(u) /\ u # t
  BY <1>1, <1>3, Unreadied
<1>5. /\ ListRows' /\ DataInv' /\ e \in OSEventTblAll /\ OSEventType[e] = bit
      /\ \A u \in Tasks : Suspended(u)' <=> Suspended(u)
  BY <1>2, <1>3, <1>4, EventWaitStages
<1>6. bit # "MUTEX"
  BY <1>2 DEF TypeFor, EventPends
<1>7. MutexesKept
  BY <1>3, <1>5, <1>6, TakersAre DEF MutexesKept, Mutexes, StageInv, TableInv, ListRows
<1> QED
  BY <1>3, <1>4, <1>5, <1>7 DEF Faithful

LEMMA FlagWaitFine ==
  ASSUME StageInv, NEW t \in OSTCBTbl, pc[t] = "enter", call[t].op = "FlagPend",
         OS_FlagBlock(t, call[t].wait, call[t].timeout)
  PROVE  Faithful /\ UNCHANGED <<taskVars, OSEventType>>
<1>1. /\ t \in Tasks /\ t # Idle /\ OSTCBPrio[t] = t /\ WellFormed(call[t])
      /\ Tasks' = Tasks /\ Tasks \subseteq OSTCBTbl
  BY CallerIs, PenderIs, TasksAre DEF PendOps, OS_FlagBlock, Tasks
<1>2. PICK w, n : w = call[t].wait /\ n = call[t].timeout
  OBVIOUS
<1>3. w # NULL /\ n \in Nat
  BY <1>1, <1>2, FlagAssumption DEF WellFormed, PendOps
<1>4. Placed(t) /\ AtWork(t) /\ ~Pending(t)
  BY <1>1 DEF StageInv, DataInv, Stages, Staged, AtWork, Waiting, TimedOut, Answered, Pending
<1>5. /\ OSTCBStat' = [OSTCBStat EXCEPT ![t] = @ \cup {"FLAG"}]
      /\ OSTCBStatPend' = [OSTCBStatPend EXCEPT ![t] = "OK"]
      /\ OSTCBDly' = [OSTCBDly EXCEPT ![t] = n]
      /\ OSTCBFlagNode' = [OSTCBFlagNode EXCEPT ![t] = w]
      /\ OSRdyTbl' = OSRdyTbl \ {OSTCBPrio[t]}
      /\ pc' = [pc EXCEPT ![t] = "pend"]
      /\ UNCHANGED <<app, call, taskVars, OSTCBEventMultiPtr, OSTCBEventPtr, OSEventType, OSEventTbl>>
  BY <1>1, <1>2 DEF OS_FlagBlock, eventVars
<1>6. ReadyRow' /\ \A u \in Tasks : Ready(u)' <=> Ready(u) /\ u # t
  BY <1>1, <1>5, Unreadied
<1>7. /\ Arrays' /\ ListRows'
      /\ \A u \in Tasks : u # t => Placed(u)' /\ Staged(u)' /\ (Suspended(u)' <=> Suspended(u))
  <2>1. OSTCBEventPtr' = [OSTCBEventPtr EXCEPT ![t] = OSTCBEventPtr[t]]
    BY <1>5 DEF StageInv, DataInv, Arrays
  <2> QED
    BY <1>1, <1>3, <1>5, <1>6, <2>1, OthersWait
<1>8. /\ OSTCBStat'[t] = OSTCBStat[t] \cup {"FLAG"} /\ OSTCBStatPend'[t] = "OK"
      /\ OSTCBEventPtr'[t] = NULL /\ OSTCBEventMultiPtr'[t] = {} /\ OSTCBFlagNode'[t] = w
      /\ ~Ready(t)' /\ pc'[t] = "pend" /\ call'[t] = call[t]
  BY <1>1, <1>4, <1>5, <1>6 DEF StageInv, DataInv, Arrays, Placed, OnEvent, TableInv, Controlled, ListRows
<1>9. \A f \in OSEventTblAll : t \notin OSEventTbl'[f]
  BY <1>4, <1>5 DEF Placed, OnEvent
<1>10. OnFlags(t)' /\ ~OnEvent(t)' /\ Pending(t)' /\ Bit(t)' = "FLAG"
  BY <1>8 DEF OnEvent, OnFlags, Pending, Bit, EventPends
<1>11. Placed(t)'
  BY <1>2, <1>8, <1>9, <1>10 DEF Placed
<1>12. Waiting(t)' /\ (Suspended(t)' <=> Suspended(t))
  <2>1. Queued(t)'
    BY <1>3, <1>8 DEF Queued
  <2>2. OSTCBStat'[t] \ {"SUSPEND"} = {"FLAG"}
    BY <1>4, <1>8 DEF AtWork
  <2> QED
    BY <1>8, <1>10, <2>1, <2>2 DEF Waiting, Suspended
<1>13. MutexesKept
  BY <1>5, <1>7, <1>12, TakersAre DEF MutexesKept
<1> QED
  BY <1>1, <1>5, <1>6, <1>7, <1>11, <1>12, <1>13 DEF Faithful, DataInv, Stages, Staged

(* The list of a block on the free list is empty.                          *)
LEMMA FreeUnlisted ==
  ASSUME StageInv, NEW e \in OSEventTblAll, Free(e)
  PROVE  OSEventTbl[e] = {}
<1> SUFFICES ASSUME NEW t \in OSEventTbl[e]
             PROVE  FALSE
  OBVIOUS
<1>1. t \in Tasks /\ t \in OSTCBTbl
  BY ListsAre, TasksAre
<1>2. OnEvent(t) /\ call[t].ev = e /\ OSEventType[e] = Bit(t) /\ Pending(t)
  BY <1>1 DEF StageInv, DataInv, Stages, Placed, OnEvent
<1> QED
  BY <1>1, <1>2, CallWaits DEF Free

LEMMA CreateFine ==
  ASSUME StageInv, NEW t \in OSTCBTbl, pc[t] = "enter", NEW e \in OSEventTblAll, Return(t, FALSE),
         UNCHANGED <<OSRdyTbl, pendVars, OSTCBPrio, OSTCBFlagNode>>,
         \/ /\ Free(e) /\ OSEventTbl' = [OSEventTbl EXCEPT ![e] = {}]
            /\ \E type : OSEventType' = [OSEventType EXCEPT ![e] = type]
         \/ UNCHANGED <<OSEventTbl, OSEventType>>
  PROVE  Faithful /\ Kept /\ OSEventTbl' = OSEventTbl
<1>1. t \in Tasks
  BY CallerIs
<1>2. OSEventTbl' = OSEventTbl
  BY FreeUnlisted DEF StageInv, TableInv, ListRows
<1>3. TypesKept /\ OSEventType' = [f \in OSEventTblAll |-> OSEventType'[f]]
  BY DEF TypesKept, Free, StageInv, DataInv, Arrays
<1>4. Kept
  BY <1>1, <1>3, ReturnsKeep DEF Return, Pending, Kept
<1>5. Renumbered(OSRdyTbl')
  BY DEF Renumbered, StageInv, TableInv, ReadyRow, Ready
<1> QED
  BY <1>2, <1>4, <1>5, RenumberedFine

LEMMA EventCreateFine ==
  ASSUME StageInv, NEW t \in OSTCBTbl, pc[t] = "enter", NEW e \in OSEventTblAll,
         NEW type \in {"SEM", "MBOX", "Q"}, NEW cnt, NEW ptr,
         EventCreate(t, e, type, cnt, ptr), UNCHANGED <<OSTCBFlagNode, mutexVars>>
  PROVE  Faithful /\ Plain /\ TypesKept
<1>1. /\ UNCHANGED <<OSRdyTbl, pendVars, taskVars, OSTCBPrio>> /\ Return(t, FALSE)
      /\ \/ /\ Free(e) /\ OSEventTbl' = [OSEventTbl EXCEPT ![e] = {}]
            /\ OSEventType' = [OSEventType EXCEPT ![e] = type]
            /\ OSEventPtr' = [OSEventPtr EXCEPT ![e] = ptr]
         \/ UNCHANGED <<OSEventTbl, OSEventType, OSEventPtr>>
  BY DEF EventCreate, eventVars, taskVars
<1>2. Faithful /\ Kept
  BY <1>1, CreateFine
<1>3. Mutexes' = Mutexes
  BY <1>1 DEF Mutexes, Free, StageInv, DataInv, Arrays
<1>4. /\ OSEventPtr' = [f \in OSEventTblAll |-> OSEventPtr'[f]]
      /\ \A f \in Mutexes : OSEventPtr'[f] = OSEventPtr[f]
  BY <1>1 DEF Mutexes, Free, StageInv, TableInv, Owned
<1> QED
  BY <1>1, <1>2, <1>3, <1>4 DEF Plain, Kept

LEMMA DelayFine ==
  ASSUME StageInv, NEW t \in OSTCBTbl, pc[t] = "enter", NEW n \in Nat, n > 0, OSTimeDly(t, n)
  PROVE  Faithful /\ UNCHANGED <<taskVars, OSEventType>>
<1>1. t \in Tasks /\ t # Idle
  BY CallerIs
<1>2. /\ Return(t, TRUE) /\ app' = app
      /\ UNCHANGED <<taskVars, OSEventType, OSTCBStat, OSTCBStatPend, OSTCBEventPtr,
                     OSTCBEventMultiPtr, OSTCBFlagNode, OSEventTbl>>
      /\ OSRdyTbl' = OSRdyTbl \ {OSTCBPrio[t]} /\ OSTCBDly' = [OSTCBDly EXCEPT ![t] = n]
  BY DEF OSTimeDly, Return, eventVars, flagVars
<1>3. Kept
  BY <1>1, <1>2, ReturnsKeep DEF Return, Pending, Kept, TypesKept, StageInv, DataInv, Arrays
<1>4. ReadyRow' /\ \A v \in Tasks : Ready(v)' <=> Ready(v) /\ v # t
  BY <1>1, <1>2, Unreadied
<1>5. Placed(t) /\ AtWork(t) /\ CtlKept(t) /\ TypesKept
  BY <1>1, <1>3 DEF StageInv, DataInv, Stages, Kept, Staged, AtWork, Waiting, TimedOut, Answered, Pending
<1>6. Placed(t)' /\ (Pending(t)' <=> Pending(t))
  BY <1>1, <1>2, <1>5, PlacedKept DEF CtlKept
<1>7. Queued(t)' <=> Queued(t)
  BY <1>2 DEF Queued
<1>8. ~Ready(t)' /\ OSTCBDly'[t] # 0
  BY <1>1, <1>2, <1>4 DEF StageInv, DataInv, Arrays
<1>9. Staged(t)'
  BY <1>2, <1>5, <1>6, <1>7, <1>8 DEF AtWork, Staged
<1>10. /\ OSTCBStat' = [OSTCBStat EXCEPT ![t] = OSTCBStat[t]]
       /\ OSTCBStatPend' = [OSTCBStatPend EXCEPT ![t] = OSTCBStatPend[t]]
  BY <1>2 DEF StageInv, DataInv, Arrays
<1>11. "SUSPEND" \in OSTCBStat[t] => MutexesOf(t) = {} \/ Suspended(t)
  BY DEF Suspended
<1>12. \A v \in Tasks : v # t => (Ready(v)' <=> Ready(v))
  BY <1>4
<1>13. Faithful
  BY <1>1, <1>2, <1>3, <1>4, <1>6, <1>9, <1>10, <1>11, <1>12, ServiceRows
<1> QED
  BY <1>2, <1>13

(* A task that has been readied returns from its pend.                     *)
LEMMA ReturnFine ==
  ASSUME StageInv, NEW t \in OSTCBTbl, pc[t] = "resume", Ready(t),
         Return(t, FALSE), UNCHANGED <<OSRdyTbl, OSTCBDly, OSEventType, taskVars>>,
         OSTCBStat' = [OSTCBStat EXCEPT ![t] = {}] \/ (OSTCBStat' = OSTCBStat /\ OSTCBStatPend[t] = "OK"),
         OSTCBStatPend' = [OSTCBStatPend EXCEPT ![t] = "OK"] \/ (OSTCBStatPend' = OSTCBStatPend /\ OSTCBStatPend[t] = "OK"),
         OSTCBEventPtr' = [OSTCBEventPtr EXCEPT ![t] = NULL] \/ (OSTCBEventPtr' = OSTCBEventPtr /\ OSTCBEventPtr[t] = NULL),
         OSTCBEventMultiPtr' = [OSTCBEventMultiPtr EXCEPT ![t] = {}] \/ OSTCBEventMultiPtr' = OSTCBEventMultiPtr,
         OSTCBFlagNode' = [OSTCBFlagNode EXCEPT ![t] = NULL] \/ OSTCBFlagNode' = OSTCBFlagNode,
         OSEventTbl' = OSEventTbl \/ \E e \in OSEventTblAll : OSEventTbl' = [OSEventTbl EXCEPT ![e] = @ \ {t}],
         \A e \in OSEventTblAll : t \notin OSEventTbl'[e], OSTCBFlagNode'[t] = NULL
  PROVE  Faithful
<1>1. t \in Tasks /\ Tasks \subseteq OSTCBTbl /\ Tasks' = Tasks
  BY CallerIs, TasksAre DEF Return, Tasks
<1>2. Arrays'
  BY <1>1 DEF StageInv, DataInv, Arrays
<1>3. Staged(t) /\ Placed(t) /\ Pending(t) /\ OSTCBStat[t] \subseteq {"SUSPEND"}
      /\ OSTCBDly[t] = 0 /\ ~Suspended(t)
  <2>1. Staged(t) /\ Placed(t) /\ Pending(t)
    BY <1>1 DEF StageInv, DataInv, Stages, Pending
  <2>2. TimedOut(t) \/ Answered(t)
    BY <2>1 DEF Staged, AtWork, Waiting
  <2> QED
    BY <2>1, <2>2 DEF TimedOut, Answered
<1>4. ReadyRow' /\ \A u \in Tasks : Ready(u)' <=> Ready(u)
  BY ReadyKept DEF Return
<1>5. /\ OSTCBStat'[t] = {} /\ OSTCBStatPend'[t] = "OK" /\ OSTCBEventPtr'[t] = NULL
      /\ OSTCBEventMultiPtr'[t] = {} /\ Ready(t)' /\ OSTCBDly'[t] = 0
  <2>1. OSTCBStat'[t] = {}
    BY <1>1, <1>3 DEF StageInv, DataInv, Arrays, Suspended
  <2>2. OSTCBStatPend'[t] = "OK" /\ OSTCBEventPtr'[t] = NULL /\ OSTCBEventMultiPtr'[t] = {}
    BY <1>1, <1>3 DEF StageInv, DataInv, Arrays, Placed
  <2> QED
    BY <1>1, <1>3, <1>4, <2>1, <2>2
<1>6. pc' = [pc EXCEPT ![t] = "app"] /\ call' = [call EXCEPT ![t] = NULL]
  BY DEF Return
<1>7. ~Pending(t)' /\ ~OnEvent(t)' /\ ~OnFlags(t)' /\ ~Queued(t)'
  BY <1>1, <1>6 DEF Pending, OnEvent, OnFlags, StageInv, TableInv, Controlled, Queued
<1>8. Placed(t)'
  BY <1>5, <1>7 DEF Placed
<1>9. AtWork(t)' /\ ~Suspended(t)'
  BY <1>5, <1>7 DEF AtWork, Suspended
<1>10. ASSUME NEW u \in Tasks, u # t
       PROVE  Placed(u)' /\ Staged(u)' /\ (Suspended(u)' <=> Suspended(u))
  <2>1. CtlKept(u) /\ TypesKept
    BY <1>1, <1>6, <1>10 DEF CtlKept, TypesKept, Pending, StageInv, TableInv, Controlled
  <2>2. /\ OSTCBStat'[u] = OSTCBStat[u] /\ OSTCBStatPend'[u] = OSTCBStatPend[u]
        /\ OSTCBEventPtr'[u] = OSTCBEventPtr[u] /\ OSTCBEventMultiPtr'[u] = OSTCBEventMultiPtr[u]
        /\ OSTCBFlagNode'[u] = OSTCBFlagNode[u]
    BY <1>1, <1>10 DEF StageInv, DataInv, Arrays, TableInv, ListRows
  <2>3. \A e \in OSEventTblAll : u \in OSEventTbl'[e] <=> u \in OSEventTbl[e]
    BY <1>10 DEF StageInv, TableInv, ListRows
  <2>4. Unmoved(u)
    BY <1>4, <2>2, <2>3 DEF Unmoved
  <2> QED
    BY <2>1, <2>2, <2>4, StagedKept DEF Suspended
<1>11. OSEventTbl' = [e \in OSEventTblAll |-> OSEventTbl'[e]]
       /\ \A e \in OSEventTblAll : OSEventTbl'[e] \subseteq OSEventTbl[e]
  BY DEF StageInv, TableInv, ListRows
<1>12. ListRows'
  <2>1. /\ OSTCBFlagNode' = [u \in OSTCBTbl |-> OSTCBFlagNode'[u]]
        /\ \A u \in OSTCBTbl : OSTCBFlagNode'[u] # NULL => u \in Tasks
    BY DEF StageInv, TableInv, ListRows
  <2> QED
    BY <1>1, <1>11, <2>1 DEF StageInv, TableInv, ListRows
<1>13. MutexesKept
  BY <1>9, <1>10, <1>11, TakersAre DEF MutexesKept, Mutexes
<1> QED
  BY <1>1, <1>2, <1>4, <1>8, <1>9, <1>10, <1>12, <1>13 DEF Faithful, DataInv, Stages, Staged

LEMMA PendReturnFine ==
  ASSUME StageInv, NEW t \in OSTCBTbl, pc[t] = "resume", Ready(t),
         call[t].op \in EventPends, PendReturn(t, call[t].ev), OSTCBFlagNode' = OSTCBFlagNode
  PROVE  Faithful /\ UNCHANGED <<OSEventType, taskVars, OSRdyTbl>>
<1>1. PICK e : e = call[t].ev
  OBVIOUS
<1>2. /\ t \in Tasks /\ Pending(t) /\ OnEvent(t) /\ ~OnFlags(t) /\ Staged(t) /\ Placed(t)
  BY CallerIs DEF Pending, OnEvent, OnFlags, EventPends, StageInv, DataInv, Stages
<1>3. e \in OSEventTblAll
  BY <1>1, <1>2, CallWaits
<1>4. /\ OSEventTbl' = IF OSTCBStatPend[t] \in {"OK", "ABORT"} THEN OSEventTbl
                       ELSE [OSEventTbl EXCEPT ![e] = @ \ {OSTCBPrio[t]}]
      /\ OSTCBStat' = [OSTCBStat EXCEPT ![t] = {}]
      /\ OSTCBStatPend' = [OSTCBStatPend EXCEPT ![t] = "OK"]
      /\ OSTCBEventPtr' = [OSTCBEventPtr EXCEPT ![t] = NULL]
      /\ OSTCBEventMultiPtr' = [OSTCBEventMultiPtr EXCEPT ![t] = {}]
      /\ Return(t, FALSE) /\ UNCHANGED <<OSRdyTbl, OSTCBDly, OSEventType, taskVars>>
  BY <1>1 DEF PendReturn, eventVars
<1>5. OSTCBFlagNode'[t] = NULL
  BY <1>2 DEF Placed
<1>6. CASE OSTCBStatPend[t] \in {"OK", "ABORT"}
  <2>1. Answered(t)
    BY <1>2, <1>6 DEF Staged, AtWork, Waiting, TimedOut
  <2>2. \A f \in OSEventTblAll : t \notin OSEventTbl'[f]
    BY <1>4, <1>6, <2>1 DEF Answered, Queued
  <2>3. OSEventTbl' = OSEventTbl
    BY <1>4, <1>6
  <2> QED
    BY <1>4, <1>5, <2>2, <2>3, ReturnFine
<1>7. CASE OSTCBStatPend[t] \notin {"OK", "ABORT"}
  <2>1. TimedOut(t) /\ Queued(t)
    BY <1>2, <1>7 DEF Staged, AtWork, Waiting, TimedOut, Answered
  <2>2. OSTCBPrio[t] = t
    BY <1>2, <2>1, WaitersUnraised
  <2>3. OSEventTbl' = [OSEventTbl EXCEPT ![e] = @ \ {t}]
    BY <1>4, <1>7, <2>2
  <2>4. \A f \in OSEventTblAll : t \notin OSEventTbl'[f]
    BY <1>1, <1>2, <1>3, <2>3 DEF Placed, StageInv, TableInv, ListRows
  <2> QED
    BY <1>3, <1>4, <1>5, <2>3, <2>4, ReturnFine
<1> QED
  BY <1>6, <1>7

LEMMA FlagReturnFine ==
  ASSUME StageInv, NEW t \in OSTCBTbl, pc[t] = "resume", Ready(t),
         call[t].op = "FlagPend", FlagPendReturn(t, call[t].wait)
  PROVE  Faithful /\ UNCHANGED <<OSEventType, taskVars, OSRdyTbl>>
<1>1. /\ t \in Tasks /\ Pending(t) /\ ~OnEvent(t) /\ OnFlags(t) /\ Staged(t) /\ Placed(t)
  BY CallerIs DEF Pending, OnEvent, OnFlags, EventPends, StageInv, DataInv, Stages
<1>2. /\ \/ /\ OSTCBStatPend[t] # "OK"
            /\ OSTCBStatPend' = [OSTCBStatPend EXCEPT ![t] = "OK"]
            /\ OSTCBStat' = [OSTCBStat EXCEPT ![t] = {}]
            /\ OSTCBFlagNode' = [OSTCBFlagNode EXCEPT ![t] = NULL]
         \/ OSTCBStatPend[t] = "OK" /\ UNCHANGED <<OSTCBStatPend, OSTCBStat, OSTCBFlagNode>>
      /\ Return(t, FALSE)
      /\ UNCHANGED <<OSRdyTbl, OSTCBDly, OSEventType, taskVars, OSEventTbl, OSTCBEventPtr,
                     OSTCBEventMultiPtr>>
  BY DEF FlagPendReturn, eventVars
<1>3. OSTCBEventPtr[t] = NULL
  BY <1>1 DEF Placed
<1>4. \A f \in OSEventTblAll : t \notin OSEventTbl'[f]
  BY <1>1, <1>2 DEF Placed
<1>5. OSTCBFlagNode'[t] = NULL
  <2>1. CASE OSTCBStatPend[t] = "OK"
    <3>1. Answered(t)
      BY <1>1, <2>1 DEF Staged, AtWork, Waiting, TimedOut
    <3> QED
      BY <1>2, <2>1, <3>1 DEF Answered, Queued
  <2>2. CASE OSTCBStatPend[t] # "OK"
    BY <1>1, <1>2, <2>2 DEF StageInv, TableInv, ListRows
  <2> QED
    BY <2>1, <2>2
<1>6. Faithful
  BY <1>2, <1>3, <1>4, <1>5, ReturnFine
<1> QED
  BY <1>2, <1>6

-----------------------------------------------------------------------------
(* How a section leaves its task: with a call of OS_Sched before it, with  *)
(* one behind which a pend goes on, or in the application with nothing     *)
(* ready that was not, unless that is put off.                             *)
Result(t) ==
  /\ app' = app /\ code' = code /\ UNCHANGED cpuVars
  /\ OSLockNesting' \in 0..255 /\ deferred' \in BOOLEAN
  /\ OSLockNesting' > 0 =>
       /\ \E c \in app.calls[t] : c.op = "SchedLock"
       /\ MutexesOf(t) # {} => Ready(t)'
  /\ \/ pc' = [pc EXCEPT ![t] = "sched"] /\ call' = [call EXCEPT ![t] = NULL]
     \/ /\ pc' = [pc EXCEPT ![t] = "pend"] /\ call' = call
        /\ pc[t] = "enter" /\ call[t].op \in PendOps /\ OSLockNesting' = OSLockNesting
     \/ /\ pc' = [pc EXCEPT ![t] = "app"] /\ call' = [call EXCEPT ![t] = NULL]
        /\ ~PutOff' => ~PutOff /\ StaysReady(t)
        /\ OSLockNesting' = 0 => OSLockNesting = 0 /\ Ready(t)'

LEMMA OnProcessor ==
  ASSUME StageInv, OSTCBCur \in OSTCBTbl, pc[OSTCBCur] \in {"enter", "resume"}
  PROVE  /\ OSLockNesting \in 0..255 /\ deferred \in BOOLEAN
         /\ OSLockNesting = 0 => Ready(OSTCBCur)
         /\ OSLockNesting > 0 =>
              /\ \E c \in app.calls[OSTCBCur] : c.op = "SchedLock"
              /\ MutexesOf(OSTCBCur) # {} => Ready(OSTCBCur)
              /\ ~Pending(OSTCBCur)
              /\ pc[OSTCBCur] = "enter" => call[OSTCBCur].op \notin PendOps
  BY DEF StageInv, Scheduled, TableInv, Dispatched

LEMMA CalmReady ==
  ASSUME NEW t, StaysReady(t)
  PROVE  Ready(t)' <=> Ready(t)
  BY DEF StaysReady, Ready

LEMMA Ending ==
  ASSUME StageInv, NEW t \in OSTCBTbl, OSTCBCur = t, pc[t] \in {"enter", "resume"}, NEW r,
         Return(t, r), ~r => StaysReady(t), r /\ OSLockNesting > 0 /\ MutexesOf(t) # {} => Ready(t)'
  PROVE  Result(t)
<1>1. /\ app' = app /\ code' = code /\ UNCHANGED <<cpuVars, OSLockNesting, deferred>>
      /\ pc' = [pc EXCEPT ![t] = IF r THEN "sched" ELSE "app"]
      /\ call' = [call EXCEPT ![t] = NULL]
  BY DEF Return, schedVars
<1>2. OSLockNesting' \in 0..255 /\ deferred' \in BOOLEAN
  BY <1>1, OnProcessor
<1>3. CASE r
  BY <1>1, <1>2, <1>3, OnProcessor DEF Result
<1>4. CASE ~r
  <2>1. Ready(t)' <=> Ready(t)
    BY <1>4, CalmReady
  <2>2. ~PutOff' => ~PutOff /\ StaysReady(t)
    BY <1>1, <1>4 DEF PutOff
  <2>3. OSLockNesting' > 0 =>
          (\E c \in app.calls[t] : c.op = "SchedLock") /\ (MutexesOf(t) # {} => Ready(t)')
    BY <1>1, <2>1, OnProcessor
  <2>4. OSLockNesting' = 0 => OSLockNesting = 0 /\ Ready(t)'
    BY <1>1, <2>1, OnProcessor
  <2>5. pc' = [pc EXCEPT ![t] = "app"]
    BY <1>1, <1>4
  <2> QED
    BY <1>1, <1>2, <2>2, <2>3, <2>4, <2>5 DEF Result
<1> QED
  BY <1>3, <1>4

LEMMA EndingUnscheduled ==
  ASSUME StageInv, NEW t \in OSTCBTbl, OSTCBCur = t, pc[t] = "enter", NEW r \in BOOLEAN,
         ReturnUnscheduled(t, r), ~r => StaysReady(t), Ready(t) => Ready(t)'
  PROVE  Result(t)
<1>1. /\ app' = app /\ code' = code /\ UNCHANGED <<cpuVars, OSLockNesting>>
      /\ pc' = [pc EXCEPT ![t] = "app"] /\ call' = [call EXCEPT ![t] = NULL]
      /\ deferred' = (deferred \/ r)
  BY DEF ReturnUnscheduled, schedVars
<1>2. OSLockNesting' \in 0..255 /\ deferred' \in BOOLEAN
  BY <1>1, OnProcessor
<1>3. ~PutOff' => ~PutOff /\ StaysReady(t)
  BY <1>1 DEF PutOff
<1>4. OSLockNesting' > 0 =>
        (\E c \in app.calls[t] : c.op = "SchedLock") /\ (MutexesOf(t) # {} => Ready(t)')
  BY <1>1, OnProcessor
<1>5. OSLockNesting' = 0 => OSLockNesting = 0 /\ Ready(t)'
  BY <1>1, OnProcessor
<1> QED
  BY <1>1, <1>2, <1>3, <1>4, <1>5 DEF Result

LEMMA Sleeping ==
  ASSUME StageInv, NEW t \in OSTCBTbl, OSTCBCur = t, pc[t] = "enter", call[t].op \in PendOps,
         pc' = [pc EXCEPT ![t] = "pend"], UNCHANGED <<app, call, code, schedVars, deferred>>
  PROVE  Result(t) /\ OSLockNesting = 0
<1>1. OSLockNesting = 0 /\ deferred \in BOOLEAN
  BY OnProcessor
<1> QED
  BY <1>1 DEF Result, schedVars

(* What the outcome of a section makes of the invariant.                   *)
LEMMA ResultKeeps ==
  ASSUME StageInv, NEW t \in OSTCBTbl, OSTCBCur = t, pc[t] \in {"enter", "resume"}, Result(t),
         TypesKept, Numbered', ReadyRow'
  PROVE  Controlled' /\ HighestRuns' /\ TypedCalls' /\ Scheduled'
<1>1. /\ pc = [u \in OSTCBTbl |-> pc[u]] /\ call = [u \in OSTCBTbl |-> call[u]]
      /\ OSTCBCur' = t /\ OSLockNesting \in 0..255 /\ OSLockNesting' \in 0..255
      /\ t \in Tasks /\ call[t] \in app.calls[t] /\ Tasks' = Tasks
  BY OnProcessor DEF StageInv, TableInv, Controlled, Result, cpuVars, Tasks
<1>2. Controlled'
  BY <1>1 DEF StageInv, TableInv, Controlled, Result
<1>3. TypedCalls'
  <2> SUFFICES ASSUME NEW u \in OSTCBTbl, pc'[u] = "enter"
               PROVE  RightType(call[u])' /\ call'[u] = call[u]
    BY DEF TypedCalls, RightType
  <2>1. pc[u] = "enter" /\ call'[u] = call[u]
    BY <1>1 DEF Result
  <2>2. RightType(call[u]) /\ WellFormed(call[u])
    BY <2>1, CallerIs DEF StageInv, TypedCalls
  <2>3. TypeFor(call[u].op) # "none" => call[u].ev \in OSEventTblAll
    BY <2>2 DEF WellFormed
  <2>4. TypeFor(call[u].op) # "UNUSED"
    BY DEF TypeFor
  <2> QED
    BY <2>1, <2>2, <2>3, <2>4 DEF RightType, TypesKept
<1>4. Scheduled'
  <2>0. OSLockNesting' > 0 =>
          /\ \E c \in app'.calls[t] : c.op = "SchedLock"
          /\ MutexesOf(t)' # {} => Ready(t)'
    BY DEF Result, MutexesOf
  <2>1. CASE pc' = [pc EXCEPT ![t] = "sched"]
    BY <1>1, <2>0, <2>1 DEF Scheduled, Pending
  <2>2. CASE /\ pc' = [pc EXCEPT ![t] = "pend"] /\ pc[t] = "enter" /\ call[t].op \in PendOps
             /\ OSLockNesting' = OSLockNesting
    <3>1. OSLockNesting' = 0
      BY <1>1, <2>2, OnProcessor
    <3> QED
      BY <1>1, <2>2, <3>1 DEF Scheduled
  <2>3. CASE /\ pc' = [pc EXCEPT ![t] = "app"]
             /\ OSLockNesting' = 0 => OSLockNesting = 0 /\ Ready(t)'
    BY <1>1, <2>0, <2>3 DEF Scheduled, Pending
  <2> QED
    BY <2>1, <2>2, <2>3 DEF Result
<1>5. ASSUME OSLockNesting' = 0, ~deferred', pc'[t] \notin {"sched", "pend"}
      PROVE  t = OSTCBPrioTbl'[Highest(OSRdyTbl')]
  <2>1. ~PutOff' /\ pc'[t] \notin {"sched", "pend"}
    BY <1>5 DEF PutOff
  <2>2. ~PutOff /\ StaysReady(t)
    BY <1>1, <2>1 DEF Result
  <2>3. OSLockNesting = 0 /\ ~deferred
    BY <1>1, <2>2 DEF PutOff
  <2>4. t = OSTCBPrioTbl[Highest(OSRdyTbl)]
    BY <2>3 DEF HighestRuns, StageInv
  <2>5. OSRdyTbl \subseteq Prio /\ OSRdyTbl # {}
    BY TasksAre DEF StageInv, TableInv, ReadyRow
  <2>6. Highest(OSRdyTbl) \in OSRdyTbl /\ \A q \in OSRdyTbl : Highest(OSRdyTbl) <= q
    BY <2>5, HighestIs
  <2>7. PICK u \in Tasks : OSTCBPrio[u] = Highest(OSRdyTbl)
    BY <2>6 DEF StageInv, TableInv, ReadyRow
  <2>8. OSTCBPrio[t] = Highest(OSRdyTbl)
    BY <2>4, <2>7 DEF StageInv, TableInv, Numbered
  <2>9. OSRdyTbl' \subseteq OSRdyTbl /\ OSTCBPrio[t] \in OSRdyTbl' /\ OSTCBPrio'[t] = OSTCBPrio[t]
    BY <2>2, <2>6, <2>8 DEF StaysReady
  <2>10. Highest(OSRdyTbl') = OSTCBPrio'[t]
    BY <2>5, <2>6, <2>8, <2>9, HighestBy
  <2> QED
    BY <1>1, <2>10 DEF Numbered
<1>6. HighestRuns'
  BY <1>1, <1>5 DEF HighestRuns
<1> QED
  BY <1>2, <1>3, <1>4, <1>6

LEMMA StaleKept ==
  ASSUME StageInv, NEW t \in OSTCBTbl, OSTCBCur = t, pc[t] \in {"enter", "resume"}, Result(t),
         NEW e, Stale(e), OSMutexPIP'[e] = OSMutexPIP[e],
         OSTCBPrioTbl'[OSMutexPIP[e]] = OS_TCB_RESERVED, ~Raised(t)',
         OSEventPtr[e] \in {NULL, t} => OSEventPtr'[e] \in {NULL, t}
  PROVE  Stale(e)'
<1>1. OSTCBCur' = t /\ OSPrioCur' = OSPrioCur /\ OSLockNesting \in 0..255 /\ OSLockNesting' \in 0..255
      /\ pc = [u \in OSTCBTbl |-> pc[u]]
  BY OnProcessor DEF Result, cpuVars, StageInv, TableInv, Controlled
<1>2. OSEventPtr'[e] \in {NULL, t} \/ OSLockNesting > 0
  BY DEF Stale
<1>3. OSEventPtr'[e] \in {NULL, t} \/ pc'[t] = "sched" \/ OSLockNesting' > 0
  BY <1>1, <1>2 DEF Result
<1> QED
  BY <1>1, <1>3 DEF Stale

LEMMA PlainKeeps ==
  ASSUME StageInv, NEW t \in OSTCBTbl, OSTCBCur = t, pc[t] \in {"enter", "resume"}, Result(t),
         Plain, TypesKept, Faithful
  PROVE  StageInv'
<1>1. /\ pc = [u \in OSTCBTbl |-> pc[u]] /\ call = [u \in OSTCBTbl |-> call[u]]
      /\ OSTCBCur' = t /\ t \in Tasks /\ Tasks' = Tasks /\ OSPrioCur' = OSPrioCur
  BY CallerIs DEF Result, cpuVars, StageInv, TableInv, Controlled, Tasks
<1>2. Numbered' /\ Owned'
  BY OwnedKept DEF Faithful
<1>3. Controlled' /\ HighestRuns' /\ TypedCalls' /\ Scheduled'
  BY <1>2, ResultKeeps DEF Faithful
<1>4. OwnerCalls'
  <2> SUFFICES ASSUME NEW e \in Mutexes, OSEventPtr[e] # NULL
               PROVE  /\ pc'[OSEventPtr[e]] = "enter" => call'[OSEventPtr[e]].op \notin PendOps
                      /\ pc'[OSEventPtr[e]] \in {"pend", "resume"} =>
                           call'[OSEventPtr[e]].op = "MutexPend" /\ call'[OSEventPtr[e]].ev = e
    BY DEF Plain, OwnerCalls, Pending
  <2>1. /\ pc[OSEventPtr[e]] = "enter" => call[OSEventPtr[e]].op \notin PendOps
        /\ pc[OSEventPtr[e]] \in {"pend", "resume"} =>
             call[OSEventPtr[e]].op = "MutexPend" /\ call[OSEventPtr[e]].ev = e
    BY DEF StageInv, TableInv, OwnerCalls, Pending
  <2>2. OSEventPtr[e] \in OSTCBTbl
    BY OwnerFree, TasksAre
  <2>3. CASE OSEventPtr[e] = t
    <3>1. pc'[t] \in {"sched", "app"}
      BY <1>1, <2>1, <2>3 DEF Result
    <3> QED
      BY <2>3, <3>1
  <2>4. CASE OSEventPtr[e] # t
    BY <1>1, <2>1, <2>2, <2>4 DEF Result
  <2> QED
    BY <2>3, <2>4
<1>5. Dispatched'
  <2>1. UNCHANGED <<OSTCBPrio, OSTCBPrioTbl, OSMutexPIP>> /\ Mutexes' = Mutexes
        /\ OSLockNesting' \in 0..255 /\ deferred' \in BOOLEAN
    BY DEF Plain, taskVars, mutexVars, Result
  <2>2. CASE OSPrioCur = OSTCBPrio[t]
    BY <1>1, <2>1, <2>2 DEF Dispatched
  <2>3. ASSUME NEW e \in Mutexes, Stale(e)
        PROVE  Stale(e)'
    <3>1. OSTCBPrioTbl[OSMutexPIP[e]] = OS_TCB_RESERVED /\ ~Raised(t)
      BY <2>3 DEF Stale
    <3>2. ~Raised(t)' /\ OSEventPtr'[e] = OSEventPtr[e]
      BY <2>1, <3>1 DEF Raised, Plain
    <3> QED
      BY <2>1, <2>3, <3>1, <3>2, StaleKept
  <2> QED
    BY <1>1, <2>1, <2>2, <2>3 DEF Dispatched, StageInv, TableInv
<1> QED
  BY <1>2, <1>3, <1>4, <1>5 DEF StageInv, TableInv, Faithful

-----------------------------------------------------------------------------
(* Sections that use no mutex.                                             *)
LEMMA CommonStage ==
  ASSUME Discipline, StageInv, NEW t \in OSTCBTbl, CommonSection(t)
  PROVE  StageInv'
<1> DEFINE c == call[t]
<1>1. /\ pc[t] = "enter" /\ OSTCBCur = t /\ Common(c)
      /\ \/ NoSched(c) /\ ReturnUnscheduled(t, Waited(c.ev))
         \/ ~NoSched(c) /\ Return(t, Resched(t, c))
  BY DEF CommonSection, Running
<1>2. t \in Tasks /\ c \in AllCalls /\ WellFormed(c) /\ RightType(c)
  BY <1>1, CallerIs DEF StageInv, TypedCalls
<1>3. app' = app /\ \A u \in Tasks : CtlKept(u)
  BY <1>1, <1>2, ReturnsKeep DEF Return, ReturnUnscheduled, Pending
<1> HIDE DEF c
<1>4. Faithful /\ UNCHANGED <<taskVars, mutexVars, OSEventType>>
  BY <1>1, <1>2, <1>3, CommonFine
<1>5. Plain /\ TypesKept
  BY <1>1, <1>2, <1>3, <1>4, CommonPlain DEF TypesKept
<1>6. MutexesOf(t) # {} /\ Ready(t) => Ready(t)'
  <2>1. CASE OSRdyTbl \subseteq OSRdyTbl'
    BY <1>4, <2>1 DEF Ready, taskVars
  <2>2. CASE /\ c.prio \in Tasks /\ MutexesOf(c.prio) = {} /\ OSTCBPrio[c.prio] = c.prio
             /\ OSRdyTbl' = OSRdyTbl \ {c.prio}
    <3>1. MutexesOf(t) # {} => OSTCBPrio[t] # c.prio
      BY <1>2, <2>2, Unique DEF StageInv, TableInv
    <3> QED
      BY <1>4, <2>2, <3>1 DEF Ready, taskVars
  <2> QED
    BY <1>1, <1>2, <2>1, <2>2, CommonReadies
<1>7. CASE ~NoSched(c) /\ Return(t, Resched(t, c))
  <2>1. ~Resched(t, c) => StaysReady(t)
    BY <1>1, <1>2, <1>4, <1>7, CommonCalm
  <2>2. Result(t)
    BY <1>1, <1>6, <1>7, <2>1, Ending, OnProcessor
  <2> QED
    BY <1>1, <1>4, <1>5, <2>2, PlainKeeps
<1>8. CASE NoSched(c) /\ ReturnUnscheduled(t, Waited(c.ev))
  <2>1. ~Waited(c.ev) => ~Resched(t, c)
    BY <1>8 DEF NoSched, Resched
  <2>2. ~Waited(c.ev) => StaysReady(t)
    BY <1>1, <1>2, <1>4, <2>1, CommonCalm
  <2>3. Ready(t) => Ready(t)'
    <3>1. OSRdyTbl \subseteq OSRdyTbl'
      BY <1>1, <1>2, <1>8, CommonReadies DEF NoSched
    <3> QED
      BY <1>4, <3>1 DEF Ready, taskVars
  <2>4. Result(t)
    BY <1>1, <1>8, <2>2, <2>3, EndingUnscheduled DEF Waited
  <2> QED
    BY <1>1, <1>4, <1>5, <2>4, PlainKeeps
<1> QED
  BY <1>1, <1>7, <1>8

(* A section that leaves every event as it is.                             *)
LEMMA QuietKeeps ==
  ASSUME StageInv, NEW t \in OSTCBTbl, OSTCBCur = t, pc[t] \in {"enter", "resume"}, Result(t),
         Faithful, UNCHANGED <<taskVars, mutexVars, OSEventType>>,
         OSEventPtr' = [e \in OSEventTblAll |-> OSEventPtr'[e]],
         \A e \in Mutexes : OSEventPtr'[e] = OSEventPtr[e]
  PROVE  StageInv'
<1>1. Plain /\ TypesKept
  BY DEF Plain, TypesKept, Mutexes, Result, StageInv, DataInv, Arrays
<1> QED
  BY <1>1, PlainKeeps

LEMMA CallsAre ==
  ASSUME Discipline, StageInv, NEW t \in OSTCBTbl, pc[t] \in {"enter", "resume"}
  PROVE  call[t].op \notin {"TaskCreate", "TaskDel", "ChangePrio", "SemDel", "MboxDel", "QDel",
                            "MutexDel", "PendMulti"}
  BY CallerIs DEF Discipline

(* The lock of the scheduler.                                              *)
LEMMA LockResult ==
  ASSUME StageInv, NEW t \in OSTCBTbl, OSTCBCur = t, pc[t] = "enter",
         UNCHANGED <<OSRdyTbl, taskVars>>,
         \/ call[t].op = "SchedLock" /\ OSSchedLock(t)
         \/ OSSchedUnlock(t)
  PROVE  Result(t)
<1>0. t \in Tasks /\ call[t] \in app.calls[t]
  BY CallerIs
<1>1. /\ UNCHANGED <<app, code, cpuVars, deferred>> /\ call' = [call EXCEPT ![t] = NULL]
      /\ OSLockNesting \in 0..255 /\ deferred' \in BOOLEAN
  BY OnProcessor DEF OSSchedLock, OSSchedUnlock, dataVars, histVars
<1>2. StaysReady(t) /\ (Ready(t)' <=> Ready(t))
  BY DEF StaysReady, Ready, taskVars
<1>3. CASE call[t].op = "SchedLock" /\ OSSchedLock(t)
  <2>1. /\ OSLockNesting' \in 1..255 /\ pc' = [pc EXCEPT ![t] = "app"]
    BY <1>1, <1>3 DEF OSSchedLock
  <2>2. MutexesOf(t) # {} => Ready(t)'
    BY <1>1, <1>2, OnProcessor
  <2>3. PutOff' /\ OSLockNesting' \in 0..255 /\ OSLockNesting' # 0
    BY <2>1 DEF PutOff
  <2> QED
    BY <1>0, <1>1, <1>3, <2>1, <2>2, <2>3 DEF Result
<1>4. CASE OSSchedUnlock(t)
  <2>1. OSLockNesting' \in 0..255 /\ (OSLockNesting' > 0 => OSLockNesting > 0)
    BY <1>1, <1>4 DEF OSSchedUnlock
  <2>2. OSLockNesting' > 0 =>
          (\E c \in app.calls[t] : c.op = "SchedLock") /\ (MutexesOf(t) # {} => Ready(t)')
    BY <1>2, <2>1, OnProcessor
  <2>3. CASE OSLockNesting = 1
    <3>1. pc' = [pc EXCEPT ![t] = "sched"]
      BY <1>4, <2>3 DEF OSSchedUnlock
    <3> QED
      BY <1>1, <2>1, <2>2, <3>1 DEF Result
  <2>4. CASE OSLockNesting # 1
    <3>1. pc' = [pc EXCEPT ![t] = "app"]
      BY <1>4, <2>4 DEF OSSchedUnlock
    <3>2. OSLockNesting > 0 => OSLockNesting' > 0
      BY <1>1, <1>4, <2>4 DEF OSSchedUnlock
    <3>3. ~PutOff' => ~PutOff /\ StaysReady(t)
      BY <1>1, <1>2, <3>2 DEF PutOff
    <3>4. OSLockNesting' = 0 => OSLockNesting = 0 /\ Ready(t)'
      BY <1>1, <1>2, <3>2, OnProcessor
    <3> QED
      BY <1>1, <2>1, <2>2, <3>1, <3>3, <3>4 DEF Result
  <2> QED
    BY <2>3, <2>4
<1> QED
  BY <1>3, <1>4

MutexOps == {"MutexAccept", "MutexPend", "MutexPost", "MutexCreate"}

LEMMA QuietReturn ==
  ASSUME StageInv, NEW t \in OSTCBTbl, OSTCBCur = t, pc[t] = "enter", Return(t, FALSE),
         UNCHANGED <<waitVars, taskVars, mutexVars, OSTCBFlagNode, OSEventType>>,
         OSEventPtr' = [e \in OSEventTblAll |-> OSEventPtr'[e]],
         \A e \in Mutexes : OSEventPtr'[e] = OSEventPtr[e]
  PROVE  StageInv'
<1>1. \A u \in Tasks : CtlKept(u)
  BY CallerIs, ReturnsKeep DEF Return, Pending
<1>2. Kept
  BY <1>1 DEF Kept, TypesKept, StageInv, DataInv, Arrays, Return
<1>3. Faithful
  BY <1>2, OtherFine
<1>4. Result(t)
  BY Ending DEF StaysReady, waitVars, taskVars
<1> QED
  BY <1>3, <1>4, QuietKeeps

LEMMA TaskStage ==
  ASSUME Discipline, StageInv, NEW t \in OSTCBTbl, TaskSection(t), call[t].op \notin MutexOps
  PROVE  StageInv'
<1> DEFINE c == call[t]
<1>0. pc[t] = "enter" /\ OSTCBCur = t
  BY DEF TaskSection, Running
<1>1. /\ t \in Tasks /\ t # Idle /\ t \in Prio /\ WellFormed(c) /\ RightType(c) /\ c \in app.calls[t]
      /\ c.op \notin {"TaskCreate", "TaskDel", "ChangePrio", "SemDel", "MboxDel", "QDel",
                      "MutexDel", "PendMulti"}
      /\ c.op \notin MutexOps
  BY <1>0, CallerIs, CallsAre DEF StageInv, TypedCalls
<1>2. OSEventPtr = [e \in OSEventTblAll |-> OSEventPtr[e]]
  BY DEF StageInv, TableInv, Owned
<1>3. CASE \/ c.op = "SemPend" /\ OSSemPend(t, c.ev, c.timeout) /\ ForSem
           \/ c.op = "MboxPend" /\ OSMboxPend(t, c.ev, c.timeout) /\ ForSem
           \/ c.op = "QPend" /\ OSQPend(t, c.ev, c.timeout) /\ ForQ
  <2>1. /\ OSTCBFlagNode' = OSTCBFlagNode /\ UNCHANGED mutexVars
        /\ c.op \in EventPends \ {"MutexPend"} /\ c.op \in PendOps
        /\ OSEventType[c.ev] # "MUTEX"
    BY <1>1, <1>3 DEF ForSem, ForQ, flagVars, EventPends, PendOps, RightType, TypeFor
  <2>2. \/ /\ Return(t, FALSE) /\ UNCHANGED <<waitVars, taskVars, OSEventType>>
           /\ OSEventPtr' = OSEventPtr \/ OSEventPtr' = [OSEventPtr EXCEPT ![c.ev] = NULL]
        \/ OS_EventTaskWait(t, c.ev, TypeFor(c.op), c.timeout)
    BY <1>3 DEF OSSemPend, OSMboxPend, OSQPend, OSSemAccept, OSMboxAccept, OSQAccept, TypeFor,
                eventVars
  <2>3. CASE /\ Return(t, FALSE) /\ UNCHANGED <<waitVars, taskVars, OSEventType>>
             /\ OSEventPtr' = OSEventPtr \/ OSEventPtr' = [OSEventPtr EXCEPT ![c.ev] = NULL]
    <3>1. /\ OSEventPtr' = [e \in OSEventTblAll |-> OSEventPtr'[e]]
          /\ \A e \in Mutexes : OSEventPtr'[e] = OSEventPtr[e]
      BY <1>2, <2>1, <2>3 DEF Mutexes
    <3> QED
      BY <1>0, <2>1, <2>3, <3>1, QuietReturn
  <2>4. CASE OS_EventTaskWait(t, c.ev, TypeFor(c.op), c.timeout)
    <3>1. Faithful /\ UNCHANGED <<taskVars, OSEventType>>
      BY <1>0, <1>1, <2>1, <2>4, EventWaitFine
    <3>2. Result(t)
      BY <1>0, <2>1, <2>4, Sleeping DEF OS_EventTaskWait, histVars
    <3>3. OSEventPtr' = OSEventPtr
      BY <2>4 DEF OS_EventTaskWait, eventVars
    <3> QED
      BY <1>0, <1>2, <2>1, <3>1, <3>2, <3>3, QuietKeeps
  <2> QED
    BY <2>2, <2>3, <2>4
<1>4. CASE \/ c.op = "SemCreate" /\ OSSemCreate(t, c.ev, c.cnt) /\ ForSem
           \/ c.op = "MboxCreate" /\ OSMboxCreate(t, c.ev, c.msg) /\ ForSem
           \/ c.op = "QCreate" /\ OSQCreate(t, c.ev) /\ ForQ
  <2>1. UNCHANGED <<OSTCBFlagNode, mutexVars>> /\ c.ev \in OSEventTblAll
    BY <1>1, <1>4 DEF ForSem, ForQ, flagVars, WellFormed
  <2>2. \E type \in {"SEM", "MBOX", "Q"} : \E cnt, ptr : EventCreate(t, c.ev, type, cnt, ptr)
    BY <1>4 DEF OSSemCreate, OSMboxCreate, OSQCreate
  <2>3. Faithful /\ Plain /\ TypesKept
    BY <1>0, <2>1, <2>2, EventCreateFine
  <2>4. Result(t)
    <3>1. Return(t, FALSE) /\ StaysReady(t)
      BY <2>2 DEF EventCreate, StaysReady, taskVars
    <3> QED
      BY <1>0, <3>1, Ending
  <2> QED
    BY <1>0, <2>3, <2>4, PlainKeeps
<1>5. CASE c.op = "FlagPend" /\ OSFlagPend(t, c.wait, c.timeout) /\ ForFlag
  <2>0. UNCHANGED mutexVars
    BY <1>5 DEF ForFlag
  <2>1. CASE Return(t, FALSE) /\ UNCHANGED <<OSTCBFlagNode, dataVars>>
    BY <1>0, <1>2, <2>0, <2>1, QuietReturn DEF dataVars, eventVars
  <2>2. CASE OS_FlagBlock(t, c.wait, c.timeout)
    <3>1. Faithful /\ UNCHANGED <<taskVars, OSEventType>>
      BY <1>0, <1>5, <2>2, FlagWaitFine
    <3>2. Result(t)
      BY <1>0, <1>5, <2>2, Sleeping DEF OS_FlagBlock, histVars, PendOps
    <3>3. OSEventPtr' = OSEventPtr
      BY <2>2 DEF OS_FlagBlock, eventVars
    <3> QED
      BY <1>0, <1>2, <2>0, <3>1, <3>2, <3>3, QuietKeeps
  <2> QED
    BY <1>5, <2>1, <2>2 DEF OSFlagPend
<1>6. CASE OSFlagDel(t, c.grp, c.all) /\ ForFlag
  <2>1. PICK T, r : /\ OS_FlagTaskRdy(T, [u \in OSTCBTbl |-> {}]) /\ Return(t, r)
                    /\ T \subseteq {u \in OSTCBTbl : OSTCBFlagNode[u] # NULL}
                    /\ ~r => T = {}
    <3> DEFINE T == IF c.all THEN Linked(c.grp) ELSE {}
               r == c.all /\ Linked(c.grp) # {}
    <3>1. OS_FlagTaskRdy(T, [u \in OSTCBTbl |-> {}]) /\ Return(t, r) /\ (~r => T = {})
      BY <1>6 DEF OSFlagDel
    <3>2. T \subseteq {u \in OSTCBTbl : OSTCBFlagNode[u] # NULL}
      BY DEF Linked
    <3> HIDE DEF T, r
    <3> QED
      BY <3>1, <3>2
  <2>2. /\ UNCHANGED <<taskVars, mutexVars, OSEventType, OSEventPtr, app>>
        /\ OSRdyTbl \subseteq OSRdyTbl' /\ (T = {} => OSRdyTbl' = OSRdyTbl)
    BY <1>6, <2>1 DEF OS_FlagTaskRdy, eventVars, Return, ForFlag
  <2>3. \A u \in Tasks : CtlKept(u)
    <3>1. PICK x : x = IF r THEN "sched" ELSE "app"
      OBVIOUS
    <3>2. x \notin {"pend", "resume"} /\ pc' = [pc EXCEPT ![t] = x] /\ call' = [call EXCEPT ![t] = NULL]
      BY <2>1, <3>1 DEF Return
    <3> QED
      BY <1>0, <1>1, <3>2, ReturnsKeep DEF Pending
  <2>4. Kept
    BY <2>2, <2>3 DEF Kept, TypesKept, StageInv, DataInv, Arrays
  <2>5. Faithful
    BY <2>1, <2>4, FlagFine
  <2>6. (~r => StaysReady(t)) /\ (Ready(t) => Ready(t)')
    BY <2>1, <2>2 DEF StaysReady, Ready, taskVars
  <2>7. Result(t)
    BY <1>0, <2>1, <2>6, Ending, OnProcessor
  <2> QED
    BY <1>0, <1>2, <2>2, <2>5, <2>7, QuietKeeps
<1>7. CASE c.op = "TimeDly" /\ OSTimeDly(t, c.timeout) /\ ForTask
  <2>1. c.timeout \in Nat /\ c.timeout > 0
    BY <1>1, <1>7 DEF WellFormed
  <2>2. Faithful /\ UNCHANGED <<taskVars, OSEventType>>
    BY <1>0, <1>7, <2>1, DelayFine
  <2>3. Return(t, TRUE) /\ UNCHANGED <<OSEventPtr, mutexVars>>
    BY <1>7 DEF OSTimeDly, eventVars, ForTask
  <2>4. ~(OSLockNesting > 0 /\ MutexesOf(t) # {})
    BY <1>0, <1>1, <1>7, OnProcessor DEF Discipline
  <2>5. Result(t)
    BY <1>0, <2>3, <2>4, Ending
  <2> QED
    BY <1>0, <1>2, <2>2, <2>3, <2>5, QuietKeeps
<1>8. CASE \/ c.op = "FlagCreate" /\ OSFlagCreate(t, c.grp, c.flags) /\ ForFlag
           \/ c.op = "TaskDelReq" /\ OSTaskDelReq(t, c.prio) /\ ForTask
  <2>1. Return(t, FALSE) /\ UNCHANGED <<OSTCBFlagNode, dataVars, mutexVars>>
    BY <1>8 DEF OSFlagCreate, OSTaskDelReq, flagVars, ForFlag, ForTask
  <2> QED
    BY <1>0, <1>2, <2>1, QuietReturn DEF dataVars, eventVars
<1>9. CASE \/ c.op = "SchedLock" /\ OSSchedLock(t) /\ ForSem
           \/ c.op = "SchedUnlock" /\ OSSchedUnlock(t) /\ ForSem
  <2>1. /\ UNCHANGED <<dataVars, OSTCBFlagNode, app, mutexVars>>
        /\ \E x : x \notin {"pend", "resume"} /\ pc' = [pc EXCEPT ![t] = x]
        /\ call' = [call EXCEPT ![t] = NULL]
    BY <1>9 DEF OSSchedLock, OSSchedUnlock, ForSem, ForQ, flagVars
  <2>2. \A u \in Tasks : CtlKept(u)
    BY <1>0, <1>1, <2>1, ReturnsKeep DEF Pending
  <2>3. Kept
    BY <2>1, <2>2 DEF Kept, TypesKept, StageInv, DataInv, Arrays, dataVars, eventVars
  <2>4. Faithful
    BY <2>1, <2>3, OtherFine DEF dataVars
  <2>5. Result(t)
    BY <1>0, <1>9, <2>1, LockResult DEF dataVars, waitVars
  <2> QED
    BY <1>0, <1>2, <2>1, <2>4, <2>5, QuietKeeps DEF dataVars, eventVars
<1> HIDE DEF c
<1>10. \/ c.op = "SemPend" /\ OSSemPend(t, c.ev, c.timeout) /\ ForSem
       \/ c.op = "SemCreate" /\ OSSemCreate(t, c.ev, c.cnt) /\ ForSem
       \/ c.op = "MboxPend" /\ OSMboxPend(t, c.ev, c.timeout) /\ ForSem
       \/ c.op = "MboxCreate" /\ OSMboxCreate(t, c.ev, c.msg) /\ ForSem
       \/ c.op = "QPend" /\ OSQPend(t, c.ev, c.timeout) /\ ForQ
       \/ c.op = "QCreate" /\ OSQCreate(t, c.ev) /\ ForQ
       \/ c.op = "FlagPend" /\ OSFlagPend(t, c.wait, c.timeout) /\ ForFlag
       \/ c.op = "FlagCreate" /\ OSFlagCreate(t, c.grp, c.flags) /\ ForFlag
       \/ c.op = "FlagDel" /\ OSFlagDel(t, c.grp, c.all) /\ ForFlag
       \/ c.op = "TimeDly" /\ OSTimeDly(t, c.timeout) /\ ForTask
       \/ c.op = "TaskDelReq" /\ OSTaskDelReq(t, c.prio) /\ ForTask
       \/ c.op = "SchedLock" /\ OSSchedLock(t) /\ ForSem
       \/ c.op = "SchedUnlock" /\ OSSchedUnlock(t) /\ ForSem
  BY <1>1, Zenon DEF TaskSection, c, MutexOps
<1> QED
  BY <1>3, <1>4, <1>5, <1>6, <1>7, <1>8, <1>9, <1>10

LEMMA LaterStage ==
  ASSUME Discipline, StageInv, NEW t \in OSTCBTbl, LaterSection(t)
  PROVE  StageInv'
<1> DEFINE c == call[t]
<1>1. pc[t] = "resume" /\ OSTCBCur = t /\ Pending(t)
  BY DEF LaterSection, TCBInitTake, TCBInitLink, TaskDelEnd, StageInv, TableInv, Controlled, Pending
<1>2. /\ \/ c.op \in {"SemPend", "MboxPend", "QPend", "MutexPend"} /\ PendReturn(t, c.ev) /\ ForSem
         \/ c.op = "PendMulti" /\ PendMultiReturn(t, c.evs) /\ ForQ
         \/ c.op = "FlagPend" /\ FlagPendReturn(t, c.wait) /\ ForFlag
  BY <1>1 DEF LaterSection, TCBInitTake, TCBInitLink, TaskDelEnd
<1>3. c.op # "PendMulti"
  BY <1>1, CallsAre
<1>4. Ready(t)
  BY <1>1, OnProcessor
<1>5. OSEventPtr = [e \in OSEventTblAll |-> OSEventPtr[e]]
  BY DEF StageInv, TableInv, Owned
<1>6. Faithful /\ UNCHANGED <<OSEventType, OSEventPtr, taskVars, OSRdyTbl, mutexVars>> /\ Return(t, FALSE)
  <2>1. CASE c.op \in {"SemPend", "MboxPend", "QPend", "MutexPend"} /\ PendReturn(t, c.ev) /\ ForSem
    <3>1. Faithful /\ UNCHANGED <<OSEventType, taskVars, OSRdyTbl>>
      BY <1>1, <1>4, <2>1, PendReturnFine DEF EventPends, ForSem, ForQ, flagVars
    <3> QED
      BY <2>1, <3>1 DEF ForSem, ForQ, PendReturn, eventVars
  <2>2. CASE c.op = "FlagPend" /\ FlagPendReturn(t, c.wait) /\ ForFlag
    <3>1. Faithful /\ UNCHANGED <<OSEventType, taskVars, OSRdyTbl>>
      BY <1>1, <1>4, <2>2, FlagReturnFine
    <3> QED
      BY <2>2, <3>1 DEF ForFlag, FlagPendReturn, eventVars
  <2> QED
    BY <1>2, <1>3, <2>1, <2>2
<1>7. StaysReady(t)
  BY <1>6 DEF StaysReady, taskVars
<1>8. Result(t)
  BY <1>1, <1>6, <1>7, Ending
<1> QED
  BY <1>1, <1>5, <1>6, <1>8, QuietKeeps

-----------------------------------------------------------------------------
(* Mutexes.                                                                *)
LEMMA OwnersCall ==
  ASSUME StageInv, NEW t \in OSTCBTbl, OSTCBCur = t, pc[t] = "enter", Result(t),
         \A e \in Mutexes' : OSEventPtr'[e] # NULL =>
           \/ e \in Mutexes /\ OSEventPtr'[e] = OSEventPtr[e]
           \/ OSEventPtr'[e] = t /\ pc' = [pc EXCEPT ![t] = "app"]
           \/ /\ OSEventPtr'[e] \in Tasks \ {t} /\ Pending(OSEventPtr'[e])
              /\ call[OSEventPtr'[e]].op = "MutexPend" /\ call[OSEventPtr'[e]].ev = e
  PROVE  OwnerCalls'
<1>1. /\ pc = [u \in OSTCBTbl |-> pc[u]] /\ call = [u \in OSTCBTbl |-> call[u]]
  BY DEF StageInv, TableInv, Controlled
<1> SUFFICES ASSUME NEW e \in Mutexes', OSEventPtr'[e] # NULL, NEW o, o = OSEventPtr'[e]
             PROVE  /\ pc'[o] = "enter" => call'[o].op \notin PendOps
                    /\ pc'[o] \in {"pend", "resume"} =>
                         call'[o].op = "MutexPend" /\ call'[o].ev = e
  BY DEF OwnerCalls, Pending
<1>2. CASE e \in Mutexes /\ o = OSEventPtr[e]
  <2>1. /\ pc[o] = "enter" => call[o].op \notin PendOps
        /\ pc[o] \in {"pend", "resume"} => call[o].op = "MutexPend" /\ call[o].ev = e
    BY <1>2 DEF StageInv, TableInv, OwnerCalls, Pending
  <2>2. o \in OSTCBTbl
    BY <1>2, OwnerFree, TasksAre
  <2>3. CASE o = t
    <3>1. pc'[t] \in {"sched", "app"}
      BY <1>1, <2>1, <2>3 DEF Result
    <3> QED
      BY <2>3, <3>1
  <2>4. CASE o # t
    BY <1>1, <2>1, <2>2, <2>4 DEF Result
  <2> QED
    BY <2>3, <2>4
<1>3. CASE o = t /\ pc' = [pc EXCEPT ![t] = "app"]
  BY <1>1, <1>3
<1>4. CASE o \in Tasks \ {t} /\ Pending(o) /\ call[o].op = "MutexPend" /\ call[o].ev = e
  <2>1. o \in OSTCBTbl /\ pc[o] \in {"pend", "resume"}
    BY <1>4, TasksAre DEF Pending
  <2> QED
    BY <1>1, <1>4, <2>1 DEF Result
<1> QED
  BY <1>2, <1>3, <1>4

LEMMA MutexOf ==
  ASSUME Discipline, StageInv, NEW t \in OSTCBTbl, pc[t] = "enter",
         call[t].op \in {"MutexAccept", "MutexPend", "MutexPost"}
  PROVE  /\ call[t].ev \in Mutexes /\ Mutex(call[t].ev)
         /\ call[t].op # "MutexPost" => call[t].ev \in MutexesOf(t)
<1>1. TypeFor(call[t].op) = "MUTEX"
  BY DEF TypeFor
<1>2. call[t].ev \in OSEventTblAll /\ OSEventType[call[t].ev] = "MUTEX"
  BY <1>1, EventOf, CallerIs DEF StageInv, TypedCalls, RightType
<1>3. call[t].op # "MutexPost" => call[t].ev \in MutexesOf(t)
  BY CallerIs DEF MutexesOf
<1> QED
  BY <1>2, <1>3 DEF Mutexes, StageInv, TableInv, Owned

(* A task that takes a mutex has none.                                     *)
LEMMA TakerIs ==
  ASSUME Discipline, StageInv, NEW t \in OSTCBTbl, pc[t] = "enter",
         call[t].op \in {"MutexAccept", "MutexPend"}, OSEventPtr[call[t].ev] = NULL
  PROVE  OSTCBPrio[t] = t /\ \A e \in Mutexes : OSEventPtr[e] # t
<1>1. CASE call[t].op = "MutexPend"
  BY <1>1, PenderIs DEF PendOps
<1>2. CASE call[t].op = "MutexAccept"
  <2>1. t \in Tasks /\ t \in Prio /\ t # NULL /\ call[t] \in app.calls[t]
    BY CallerIs, TasksAre
  <2>2. call[t].ev \in Accepts(t)
    BY <1>2, <2>1 DEF Accepts
  <2>3. MutexesOf(t) = {call[t].ev}
    BY <2>1, <2>2 DEF Discipline
  <2>4. ASSUME NEW e \in Mutexes, OSEventPtr[e] = t
        PROVE  FALSE
    <3>1. e \in MutexesOf(t)
      BY <2>1, <2>4 DEF StageInv, TableInv, Owned, Mutex, Owns
    <3> QED
      BY <2>1, <2>3, <2>4, <3>1
  <2> QED
    BY <2>1, <2>4 DEF StageInv, TableInv, Owned, Raised
<1> QED
  BY <1>1, <1>2

LEMMA AcceptStage ==
  ASSUME Discipline, StageInv, NEW t \in OSTCBTbl, OSTCBCur = t, pc[t] = "enter",
         call[t].op \in {"MutexAccept", "MutexPend"}, OSMutexAccept(t, call[t].ev)
  PROVE  StageInv'
<1>1. PICK e : e = call[t].ev
  OBVIOUS
<1>2. /\ Return(t, FALSE)
      /\ UNCHANGED <<OSMutexPIP, waitVars, taskVars, OSTCBFlagNode, OSEventType>>
  BY DEF OSMutexAccept, flagVars
<1>3. CASE OSOwnerPrio[e] # NULL
  <2>1. UNCHANGED <<OSOwnerPrio, OSEventPtr>>
    BY <1>1, <1>3 DEF OSMutexAccept
  <2>2. OSEventPtr = [f \in OSEventTblAll |-> OSEventPtr[f]]
    BY DEF StageInv, TableInv, Owned
  <2> QED
    BY <1>2, <2>1, <2>2, QuietReturn DEF mutexVars
<1>4. CASE OSOwnerPrio[e] = NULL
  <2>1. /\ OSOwnerPrio' = [OSOwnerPrio EXCEPT ![e] = OSTCBPrio[t]]
        /\ OSEventPtr' = [OSEventPtr EXCEPT ![e] = t]
    BY <1>1, <1>4 DEF OSMutexAccept
  <2>2. e \in Mutexes /\ Mutex(e) /\ e \in MutexesOf(t) /\ e \in OSEventTblAll
    BY <1>1, MutexOf DEF Mutexes
  <2>3. OSEventPtr[e] = NULL /\ OSEventTbl[e] = {}
    BY <1>4, <2>2 DEF Mutex
  <2>4. OSTCBPrio[t] = t /\ \A f \in Mutexes : OSEventPtr[f] # t
    BY <1>1, <2>3, TakerIs
  <2>5. /\ t \in Tasks /\ Tasks' = Tasks /\ Mutexes' = Mutexes /\ app' = app /\ t # NULL
        /\ pc' = [pc EXCEPT ![t] = "app"]
        /\ UNCHANGED <<OSTCBPrio, OSTCBPrioTbl, OSMutexPIP, OSRdyTbl, OSEventTbl, OSTCBStat>>
        /\ \A x : MutexesOf(x)' = MutexesOf(x) /\ Pips(x)' = Pips(x)
    BY <1>2, CallerIs, TasksAre DEF Tasks, Mutexes, Return, waitVars, taskVars, pendVars, MutexesOf, Pips, AllCalls
  <2>6. /\ OSEventPtr'[e] = t /\ OSOwnerPrio'[e] = t
        /\ \A f \in Mutexes \ {e} : OSEventPtr'[f] = OSEventPtr[f] /\ OSOwnerPrio'[f] = OSOwnerPrio[f]
        /\ OSEventPtr' = [f \in OSEventTblAll |-> OSEventPtr'[f]]
        /\ OSOwnerPrio' = [f \in OSEventTblAll |-> OSOwnerPrio'[f]]
    <3>1. /\ OSEventPtr = [f \in OSEventTblAll |-> OSEventPtr[f]]
          /\ OSOwnerPrio = [f \in OSEventTblAll |-> OSOwnerPrio[f]]
      BY DEF StageInv, TableInv, Owned
    <3>2. OSOwnerPrio' = [OSOwnerPrio EXCEPT ![e] = t]
      BY <2>1, <2>4
    <3> QED
      BY <2>1, <2>2, <3>1, <3>2 DEF Mutexes
  <2>7. Owned'
    <3>1. Mutex(e)'
      BY <2>2, <2>3, <2>4, <2>5, <2>6 DEF Mutex, Owns
    <3>2. ASSUME NEW f \in Mutexes \ {e}
          PROVE  Mutex(f)'
      <4>1. Mutex(f)
        BY DEF StageInv, TableInv, Owned
      <4> QED
        BY <2>5, <2>6, <4>1 DEF Mutex, Owns
    <3>3. \A f \in Mutexes, g \in Mutexes : f # g =>
            /\ OSMutexPIP[f] # OSMutexPIP[g]
            /\ OSEventPtr'[f] = OSEventPtr'[g] => OSEventPtr'[f] = NULL
      BY <2>2, <2>4, <2>6 DEF StageInv, TableInv, Owned
    <3>4. ASSUME NEW u \in Tasks, Raised(u)'
          PROVE  \E f \in Mutexes : OSEventPtr'[f] = u /\ OSTCBPrio[u] = OSMutexPIP[f]
      <4>1. PICK f \in Mutexes : OSEventPtr[f] = u /\ OSTCBPrio[u] = OSMutexPIP[f]
        BY <2>5, <3>4 DEF StageInv, TableInv, Owned, Raised
      <4>2. f # e
        BY <2>3, <4>1, TasksAre
      <4> QED
        BY <2>6, <4>1, <4>2
    <3>5. \A u \in Tasks : MutexesOf(u)' # {} => ~Suspended(u)'
      BY <2>5, TakersAre DEF Suspended
    <3>6. OSMutexPIP' = [f \in OSEventTblAll |-> OSMutexPIP'[f]]
      BY <2>5 DEF StageInv, TableInv, Owned
    <3>7. \A f \in Mutexes : Mutex(f)'
      BY <3>1, <3>2
    <3> QED
      BY <2>5, <2>6, <3>3, <3>4, <3>5, <3>6, <3>7 DEF Owned
  <2>8. Numbered'
    BY <2>5 DEF StageInv, TableInv, Numbered
  <2>9. \A u \in Tasks : CtlKept(u)
    BY <1>2, <2>5, ReturnsKeep DEF Return, Pending
  <2>10. Kept
    BY <1>2, <2>5, <2>9 DEF Kept, TypesKept, StageInv, DataInv, Arrays
  <2>11. Faithful
    BY <1>2, <2>10, OtherFine
  <2>12. Result(t)
    BY <1>2, <2>5, Ending DEF StaysReady
  <2>13. Controlled' /\ HighestRuns' /\ TypedCalls' /\ Scheduled'
    BY <2>8, <2>10, <2>11, <2>12, ResultKeeps DEF Faithful, Kept
  <2>14. OwnerCalls'
    BY <2>5, <2>6, <2>12, OwnersCall
  <2>15. Dispatched'
    <3>1. OSTCBCur' = t /\ OSPrioCur' = OSPrioCur /\ OSLockNesting' \in 0..255 /\ deferred' \in BOOLEAN
      BY <2>12 DEF Result, cpuVars
    <3>2. CASE OSPrioCur = OSTCBPrio[t]
      BY <2>5, <3>1, <3>2 DEF Dispatched
    <3>3. ASSUME NEW f \in Mutexes, Stale(f)
          PROVE  Stale(f)'
      <4>1. OSEventPtr[f] \in {NULL, t} => OSEventPtr'[f] \in {NULL, t}
        BY <2>6
      <4>2. OSTCBPrioTbl[OSMutexPIP[f]] = OS_TCB_RESERVED /\ ~Raised(t)'
        BY <2>4, <2>5, <3>3 DEF Stale, Raised
      <4> QED
        BY <2>5, <2>12, <3>3, <4>1, <4>2, StaleKept
    <3> QED
      BY <2>5, <3>1, <3>2, <3>3 DEF Dispatched, StageInv, TableInv
  <2> QED
    BY <2>7, <2>8, <2>11, <2>13, <2>14, <2>15 DEF StageInv, TableInv, Faithful
<1> QED
  BY <1>3, <1>4

(* The priority of a mutex is nobody's but its owner's.                    *)
LEMMA PipsAre ==
  ASSUME StageInv, NEW e \in Mutexes
  PROVE  /\ OSMutexPIP[e] \in Prio /\ OSMutexPIP[e] \notin Tasks /\ OSMutexPIP[e] \in Pips(e)
         /\ \A u \in Tasks : OSTCBPrio[u] = OSMutexPIP[e] => OSEventPtr[e] = u
         /\ \A f \in Mutexes : OSMutexPIP[f] = OSMutexPIP[e] => f = e
         /\ OSEventPtr[e] # NULL =>
              /\ OSEventPtr[e] \in Tasks /\ e \in MutexesOf(OSEventPtr[e]) /\ OSEventPtr[e] # Idle
              /\ \A f \in Mutexes : OSEventPtr[f] = OSEventPtr[e] => f = e
<1>1. OSMutexPIP[e] \in Prio /\ OSMutexPIP[e] \notin Tasks /\ OSMutexPIP[e] \in Pips(e)
  BY DEF StageInv, TableInv, Owned, Mutex
<1>2. \A f \in Mutexes : OSMutexPIP[f] = OSMutexPIP[e] => f = e
  BY DEF StageInv, TableInv, Owned
<1>3. ASSUME NEW u \in Tasks, OSTCBPrio[u] = OSMutexPIP[e]
      PROVE  OSEventPtr[e] = u
  <2>1. Raised(u)
    BY <1>1, <1>3 DEF Raised
  <2>2. PICK f \in Mutexes : OSEventPtr[f] = u /\ OSTCBPrio[u] = OSMutexPIP[f]
    BY <2>1 DEF StageInv, TableInv, Owned
  <2> QED
    BY <1>2, <1>3, <2>2
<1>4. ASSUME OSEventPtr[e] # NULL
      PROVE  /\ OSEventPtr[e] \in Tasks /\ e \in MutexesOf(OSEventPtr[e]) /\ OSEventPtr[e] # Idle
             /\ \A f \in Mutexes : OSEventPtr[f] = OSEventPtr[e] => f = e
  <2>1. OSEventPtr[e] \in Tasks /\ e \in MutexesOf(OSEventPtr[e])
    BY <1>4 DEF StageInv, TableInv, Owned, Mutex, Owns
  <2>2. OSEventPtr[e] # Idle
    BY <2>1, IdleUnraised
  <2>3. \A f \in Mutexes : OSEventPtr[f] = OSEventPtr[e] => f = e
    BY <1>4 DEF StageInv, TableInv, Owned
  <2> QED
    BY <2>1, <2>2, <2>3
<1> QED
  BY <1>1, <1>2, <1>3, <1>4

(* An owner that has its own priority is raised to the mutex's.            *)
LEMMA RaiseOwner ==
  ASSUME StageInv, NEW e \in Mutexes, NEW o, o = OSEventPtr[e], o # NULL, OSTCBPrio[o] = o,
         NEW pip, pip = OSMutexPIP[e], app' = app,
         OSTCBPrio' = [OSTCBPrio EXCEPT ![o] = pip], OSTCBPrioTbl' = [OSTCBPrioTbl EXCEPT ![pip] = o],
         NEW R, R = IF o \in OSRdyTbl THEN (OSRdyTbl \ {o}) \cup {pip} ELSE OSRdyTbl
  PROVE  Numbered' /\ Renumbered(R)
<1>1. /\ pip \in Prio /\ pip \notin Tasks /\ o \in Tasks /\ o # Idle /\ pip # o /\ Tasks' = Tasks
      /\ o \in OSTCBTbl /\ Tasks \subseteq OSTCBTbl /\ Tasks \subseteq Prio
      /\ \A u \in Tasks : OSTCBPrio[u] # pip
  BY PipsAre, TasksAre DEF Tasks
<1>2. /\ OSTCBPrio \in [OSTCBTbl -> Prio] /\ OSTCBPrioTbl = [p \in Prio |-> OSTCBPrioTbl[p]]
      /\ \A u \in Tasks : OSTCBPrioTbl[u] = u /\ OSTCBPrioTbl[OSTCBPrio[u]] = u
      /\ \A p \in Prio : OSTCBPrioTbl[p] \in OSTCBTbl =>
           OSTCBPrioTbl[p] \in Tasks /\ p \in {OSTCBPrioTbl[p], OSTCBPrio[OSTCBPrioTbl[p]]}
  BY DEF StageInv, TableInv, Numbered
<1>3. /\ OSTCBPrio'[o] = pip /\ OSTCBPrioTbl'[pip] = o
      /\ \A u \in Tasks \ {o} : OSTCBPrio'[u] = OSTCBPrio[u]
      /\ \A p \in Prio \ {pip} : OSTCBPrioTbl'[p] = OSTCBPrioTbl[p]
  BY <1>1, <1>2
<1>4. Numbered'
  <2>1. OSTCBPrio' \in [OSTCBTbl -> Prio] /\ OSTCBPrioTbl' = [p \in Prio |-> OSTCBPrioTbl'[p]]
    BY <1>1, <1>2
  <2>2. \A u \in Tasks : OSTCBPrioTbl'[u] = u
    BY <1>1, <1>2, <1>3
  <2>3. \A u \in Tasks : OSTCBPrioTbl'[OSTCBPrio'[u]] = u
    BY <1>1, <1>2, <1>3
  <2>4. ASSUME NEW p \in Prio, OSTCBPrioTbl'[p] \in OSTCBTbl
        PROVE  OSTCBPrioTbl'[p] \in Tasks /\ p \in {OSTCBPrioTbl'[p], OSTCBPrio'[OSTCBPrioTbl'[p]]}
    <3>1. CASE p = pip
      BY <1>1, <1>3, <3>1
    <3>2. CASE p # pip
      BY <1>1, <1>2, <1>3, <2>4, <3>2
    <3> QED
      BY <3>1, <3>2
  <2> QED
    BY <1>1, <2>1, <2>2, <2>3, <2>4 DEF Numbered
<1>5. \A u \in Tasks : OSTCBPrio[u] = o => u = o
  BY <1>1, Unique DEF StageInv, TableInv
<1>6. pip \notin OSRdyTbl
  BY <1>1 DEF StageInv, TableInv, ReadyRow
<1>7. \A u \in Tasks : OSTCBPrio'[u] \in R <=> Ready(u)
  BY <1>1, <1>3, <1>5, <1>6 DEF Ready
<1>8. \A p \in R : \E u \in Tasks : OSTCBPrio'[u] = p
  <2> SUFFICES ASSUME NEW p \in R
               PROVE  \E u \in Tasks : OSTCBPrio'[u] = p
    OBVIOUS
  <2>1. CASE p = pip
    BY <1>1, <1>3, <2>1
  <2>2. CASE p # pip
    <3>1. p \in OSRdyTbl /\ p # o
      BY <2>2
    <3>2. PICK u \in Tasks : OSTCBPrio[u] = p
      BY <3>1 DEF StageInv, TableInv, ReadyRow
    <3> QED
      BY <1>3, <3>1, <3>2
  <2> QED
    BY <2>1, <2>2
<1>9. Idle \in R
  BY <1>1 DEF StageInv, TableInv, ReadyRow
<1> QED
  BY <1>4, <1>7, <1>8, <1>9 DEF Renumbered

(* A task waits for a mutex: in every case it is below the owner then.     *)
LEMMA WaitRaises ==
  ASSUME Discipline, StageInv, NEW t \in OSTCBTbl, OSTCBCur = t, pc[t] = "enter",
         call[t].op = "MutexPend", NEW e, e = call[t].ev, OSOwnerPrio[e] # NULL,
         NEW o, o = OSEventPtr[e], MutexWait(t, e, call[t].timeout)
  PROVE  /\ Numbered' /\ ReadyRow' /\ t \in Tasks /\ o \in Tasks /\ t # o /\ e \in Mutexes
         /\ OSTCBPrio[t] = t /\ OSTCBPrio'[t] = t /\ \A u \in Tasks : Ready(u)' <=> Ready(u) /\ u # t
         /\ \A u \in Tasks : u # o => OSTCBPrio'[u] = OSTCBPrio[u]
         /\ \A f \in Mutexes : OSEventPtr[f] # t
         /\ OSTCBPrio'[o] \in {o, OSMutexPIP[e]} /\ OSTCBPrio'[o] < t
         /\ \A p \in OSEventTbl[e] : OSTCBPrio'[o] < p
         /\ \A f \in Mutexes : f # e => OSTCBPrioTbl'[OSMutexPIP[f]] = OSTCBPrioTbl[OSMutexPIP[f]]
         /\ OSTCBPrioTbl'[OSMutexPIP[e]] # NULL
         /\ OSEventTbl' = [OSEventTbl EXCEPT ![e] = @ \cup {t}]
<1>1. PICK pip : pip = OSMutexPIP[e]
  OBVIOUS
<1>2. /\ t \in Tasks /\ t # Idle /\ OSTCBPrio[t] = t /\ \A f \in Mutexes : OSEventPtr[f] # t
  BY CallerIs, PenderIs DEF PendOps
<1>3. e \in Mutexes /\ Mutex(e) /\ e \in MutexesOf(t) /\ OSOwnerPrio[e] = o /\ o # NULL /\ Owns(o, e)
  BY MutexOf DEF Mutex
<1>4. /\ pip \in Prio /\ pip \notin Tasks /\ pip \in Pips(e) /\ o \in Tasks /\ o # Idle /\ t # o
      /\ o \in Prio /\ t \in Prio /\ Tasks \subseteq OSTCBTbl /\ o \in OSTCBTbl
      /\ OSTCBPrio[o] \in {o, pip} /\ e \in MutexesOf(o)
  BY <1>1, <1>2, <1>3, PipsAre, TasksAre DEF Owns
<1>5. pip < t /\ pip < o /\ pip \in Int /\ t \in Int /\ o \in Int
  BY <1>3, <1>4, CoreAssumption DEF Discipline, Prio
<1>6. PICK raise : raise = (OSTCBPrio[o] > pip /\ o > t)
  OBVIOUS
<1>7. raise <=> OSTCBPrio[o] = o /\ o > t
  <2>1. CASE OSTCBPrio[o] = o
    BY <1>5, <1>6, <2>1
  <2>2. CASE OSTCBPrio[o] = pip
    <3>1. OSTCBPrio[o] # o /\ ~(OSTCBPrio[o] > pip)
      BY <1>5, <2>2
    <3> QED
      BY <1>6, <3>1
  <2> QED
    BY <1>4, <2>1, <2>2
<1>8. /\ OSTCBPrio' = IF raise THEN [OSTCBPrio EXCEPT ![o] = pip] ELSE OSTCBPrio
      /\ OSTCBPrioTbl' = IF raise THEN [OSTCBPrioTbl EXCEPT ![pip] = o] ELSE OSTCBPrioTbl
      /\ app' = app
  BY <1>1, <1>2, <1>3, <1>6 DEF MutexWait, Owner
<1>9. OSEventTbl' = [OSEventTbl EXCEPT ![e] = @ \cup {t}]
  <2>1. OSTCBPrio[o] \notin OSRdyTbl => OSTCBEventPtr[o] = NULL
    BY <1>3, OwnerFree DEF Ready
  <2> QED
    BY <1>2, <2>1 DEF MutexWait, Owner
<1>10. PICK R : R = IF raise /\ o \in OSRdyTbl THEN (OSRdyTbl \ {o}) \cup {pip} ELSE OSRdyTbl
  OBVIOUS
<1>11. OSRdyTbl' = R \ {t}
  <2>1. CASE raise
    BY <1>1, <1>2, <1>3, <1>6, <1>7, <1>10, <2>1 DEF MutexWait, Owner
  <2>2. CASE ~raise
    BY <1>1, <1>2, <1>3, <1>6, <1>10, <2>2 DEF MutexWait, Owner
  <2> QED
    BY <2>1, <2>2
<1>12. /\ Numbered' /\ Renumbered(R)
       /\ \A u \in Tasks : u # o => OSTCBPrio'[u] = OSTCBPrio[u]
       /\ OSTCBPrio'[o] = IF raise THEN pip ELSE OSTCBPrio[o]
       /\ \A f \in Mutexes : f # e => OSTCBPrioTbl'[OSMutexPIP[f]] = OSTCBPrioTbl[OSMutexPIP[f]]
       /\ OSTCBPrioTbl'[pip] # NULL
  <2>1. CASE raise
    <3>1. Numbered' /\ Renumbered(R)
      BY <1>1, <1>3, <1>7, <1>8, <1>10, <2>1, RaiseOwner
    <3>2. /\ OSTCBPrio' = [OSTCBPrio EXCEPT ![o] = pip] /\ OSTCBPrioTbl' = [OSTCBPrioTbl EXCEPT ![pip] = o]
          /\ OSTCBPrio \in [OSTCBTbl -> Prio] /\ OSTCBPrioTbl = [p \in Prio |-> OSTCBPrioTbl[p]]
      BY <1>8, <2>1 DEF StageInv, TableInv, Numbered
    <3>3. \A f \in Mutexes : f # e => OSMutexPIP[f] # pip /\ OSMutexPIP[f] \in Prio
      BY <1>1, <1>3, PipsAre
    <3> QED
      BY <1>3, <1>4, <2>1, <3>1, <3>2, <3>3
  <2>2. CASE ~raise
    <3>1. UNCHANGED <<OSTCBPrio, OSTCBPrioTbl>> /\ R = OSRdyTbl
      BY <1>8, <1>10, <2>2
    <3>2. Numbered'
      BY <1>8, <3>1 DEF StageInv, TableInv, Numbered, Tasks
    <3>3. Renumbered(R)
      BY <3>1 DEF Renumbered, StageInv, TableInv, ReadyRow, Ready
    <3>4. OSTCBPrioTbl[pip] # NULL
      BY <1>1, <1>3 DEF Mutex
    <3> QED
      BY <2>2, <3>1, <3>2, <3>3, <3>4
  <2> QED
    BY <2>1, <2>2
<1>13. OSTCBPrio'[t] = t
  BY <1>2, <1>4, <1>12
<1>14. \A u \in Tasks : OSTCBPrio'[u] = t => u = t
  BY <1>2, <1>8, <1>12, <1>13, Unique
<1>15. \A u \in Tasks : Ready(u)' <=> Ready(u) /\ u # t
  BY <1>11, <1>12, <1>13, <1>14 DEF Ready, Renumbered
<1>16. ReadyRow'
  <2>1. \A p \in OSRdyTbl' : \E u \in Tasks : OSTCBPrio'[u] = p
    BY <1>11, <1>12 DEF Renumbered
  <2>2. Idle \in OSRdyTbl'
    BY <1>2, <1>11, <1>12 DEF Renumbered
  <2> QED
    BY <1>8, <2>1, <2>2 DEF ReadyRow, Tasks
<1>17. OSTCBPrio'[o] \in {o, pip} /\ OSTCBPrio'[o] < t
  <2>1. CASE raise
    BY <1>5, <1>12, <2>1
  <2>2. CASE ~raise
    BY <1>4, <1>5, <1>7, <1>12, <2>2
  <2> QED
    BY <2>1, <2>2
<1>18. \A p \in OSEventTbl[e] : OSTCBPrio'[o] < p
  <2> SUFFICES ASSUME NEW p \in OSEventTbl[e]
               PROVE  OSTCBPrio'[o] < p
    OBVIOUS
  <2>1. OSTCBPrio[o] < p /\ p \in Int
    <3>1. e \in OSEventTblAll
      BY <1>3 DEF Mutexes
    <3>2. p \in Prio
      BY <3>1, ListsAre, TasksAre
    <3> QED
      BY <1>3, <3>2, CoreAssumption DEF Owns, Prio
  <2> QED
    BY <1>4, <1>5, <1>12, <2>1
<1> QED
  BY <1>1, <1>2, <1>3, <1>4, <1>9, <1>12, <1>13, <1>15, <1>16, <1>17, <1>18

LEMMA MutexWaitStage ==
  ASSUME Discipline, StageInv, NEW t \in OSTCBTbl, OSTCBCur = t, pc[t] = "enter",
         call[t].op = "MutexPend", OSOwnerPrio[call[t].ev] # NULL,
         MutexWait(t, call[t].ev, call[t].timeout)
  PROVE  StageInv'
<1>1. PICK e, o : e = call[t].ev /\ o = OSEventPtr[e]
  OBVIOUS
<1>2. /\ Numbered' /\ ReadyRow' /\ t \in Tasks /\ o \in Tasks /\ t # o /\ e \in Mutexes
      /\ OSTCBPrio[t] = t /\ OSTCBPrio'[t] = t /\ \A u \in Tasks : Ready(u)' <=> Ready(u) /\ u # t
      /\ \A u \in Tasks : u # o => OSTCBPrio'[u] = OSTCBPrio[u]
      /\ \A f \in Mutexes : OSEventPtr[f] # t
      /\ OSTCBPrio'[o] \in {o, OSMutexPIP[e]} /\ OSTCBPrio'[o] < t
      /\ \A p \in OSEventTbl[e] : OSTCBPrio'[o] < p
      /\ \A f \in Mutexes : f # e => OSTCBPrioTbl'[OSMutexPIP[f]] = OSTCBPrioTbl[OSMutexPIP[f]]
      /\ OSTCBPrioTbl'[OSMutexPIP[e]] # NULL
      /\ OSEventTbl' = [OSEventTbl EXCEPT ![e] = @ \cup {t}]
  BY <1>1, WaitRaises
<1>3. /\ pc' = [pc EXCEPT ![t] = "pend"]
      /\ UNCHANGED <<app, call, code, schedVars, deferred, OSEventType, OSEventPtr,
                     OSTCBEventMultiPtr, OSTCBFlagNode, OSMutexPIP, OSOwnerPrio>>
      /\ OSTCBStat' = [OSTCBStat EXCEPT ![t] = @ \cup {"MUTEX"}]
      /\ OSTCBStatPend' = [OSTCBStatPend EXCEPT ![t] = "OK"]
      /\ OSTCBDly' = [OSTCBDly EXCEPT ![t] = call[t].timeout]
      /\ OSTCBEventPtr' = [OSTCBEventPtr EXCEPT ![t] = e]
  BY <1>1 DEF MutexWait, eventVars, histVars, mutexVars, flagVars
<1>4. Mutexes' = Mutexes /\ Tasks' = Tasks /\ TypesKept
      /\ \A x : MutexesOf(x)' = MutexesOf(x) /\ Pips(x)' = Pips(x)
  BY <1>3 DEF Mutexes, Tasks, TypesKept, MutexesOf, Pips, AllCalls
<1>5. Result(t) /\ OSLockNesting = 0
  BY <1>3, Sleeping DEF PendOps
<1>6. ListRows' /\ DataInv' /\ \A u \in Tasks : Suspended(u)' <=> Suspended(u)
  <2>1. PICK bit : bit = "MUTEX"
    OBVIOUS
  <2>2. bit = TypeFor(call[t].op) /\ call[t].op \in EventPends
    BY <2>1 DEF TypeFor, EventPends
  <2>3. RightType(call[t])
    BY DEF StageInv, TypedCalls
  <2> QED
    BY <1>1, <1>2, <1>3, <2>1, <2>2, <2>3, EventWaitStages
<1>7. Controlled' /\ HighestRuns' /\ TypedCalls' /\ Scheduled'
  BY <1>2, <1>4, <1>5, ResultKeeps
<1>8. OwnerCalls'
  BY <1>3, <1>4, <1>5, OwnersCall
<1>9. OSEventPtr[e] # NULL
  BY <1>1, <1>2, TasksAre
<1>10. Dispatched'
  <2>1. OSTCBCur' = t /\ OSPrioCur' = OSPrioCur /\ OSLockNesting' \in 0..255 /\ deferred' \in BOOLEAN
    BY <1>5 DEF Result, cpuVars
  <2>2. CASE OSPrioCur = OSTCBPrio[t]
    BY <1>2, <1>4, <2>1, <2>2 DEF Dispatched
  <2>3. ASSUME NEW f \in Mutexes, Stale(f)
        PROVE  Stale(f)'
    <3>1. OSEventPtr[f] = NULL
      BY <1>2, <1>5, <2>3 DEF Stale
    <3>2. OSTCBPrioTbl'[OSMutexPIP[f]] = OS_TCB_RESERVED /\ ~Raised(t)'
      BY <1>2, <1>9, <2>3, <3>1 DEF Stale, Raised
    <3> QED
      BY <1>3, <1>5, <2>3, <3>1, <3>2, StaleKept
  <2> QED
    BY <1>4, <2>1, <2>2, <2>3 DEF Dispatched, StageInv, TableInv
<1>11. Owned'
  <2>1. /\ OSEventTbl'[e] = OSEventTbl[e] \cup {t}
        /\ \A f \in Mutexes : f # e => OSEventTbl'[f] = OSEventTbl[f]
    BY <1>2 DEF StageInv, TableInv, ListRows, Mutexes
  <2>2. ASSUME NEW f \in Mutexes, f # e
        PROVE  Mutex(f)'
    <3>1. Mutex(f)
      BY DEF StageInv, TableInv, Owned
    <3>2. OSEventPtr[f] # o
      BY <1>1, <1>2, <1>9, <2>2, PipsAre
    <3>3. OSTCBPrioTbl'[OSMutexPIP[f]] = OSTCBPrioTbl[OSMutexPIP[f]] /\ OSEventTbl'[f] = OSEventTbl[f]
      BY <1>2, <2>1, <2>2
    <3>4. OSEventPtr[f] # NULL => OSEventPtr[f] \in Tasks
                                  /\ OSTCBPrio'[OSEventPtr[f]] = OSTCBPrio[OSEventPtr[f]]
      BY <1>2, <3>2, PipsAre
    <3> QED
      BY <1>3, <1>4, <3>1, <3>3, <3>4 DEF Mutex, Owns
  <2>3. Mutex(e)'
    <3>1. Mutex(e) /\ Owns(o, e)
      BY <1>1, <1>2, <1>9 DEF StageInv, TableInv, Owned, Mutex
    <3>2. Owns(o, e)'
      BY <1>2, <1>3, <1>4, <2>1, <3>1 DEF Owns
    <3> QED
      BY <1>1, <1>2, <1>3, <1>4, <1>9, <3>1, <3>2 DEF Mutex
  <2>4. ASSUME NEW u \in Tasks, Raised(u)'
        PROVE  \E f \in Mutexes : OSEventPtr[f] = u /\ OSTCBPrio'[u] = OSMutexPIP[f]
    <3>1. CASE u = o
      BY <1>1, <1>2, <2>4, <3>1 DEF Raised
    <3>2. CASE u # o
      <4>1. OSTCBPrio'[u] = OSTCBPrio[u]
        BY <1>2, <3>2
      <4>2. Raised(u)
        BY <2>4, <4>1 DEF Raised
      <4>3. PICK f \in Mutexes : OSEventPtr[f] = u /\ OSTCBPrio[u] = OSMutexPIP[f]
        BY <4>2 DEF StageInv, TableInv, Owned
      <4> QED
        BY <4>1, <4>3
    <3> QED
      BY <3>1, <3>2
  <2>5. \A u \in Tasks : MutexesOf(u) # {} => ~Suspended(u)'
    BY <1>6, TakersAre
  <2>6. /\ OSEventPtr' = [f \in OSEventTblAll |-> OSEventPtr'[f]]
        /\ OSMutexPIP' = [f \in OSEventTblAll |-> OSMutexPIP'[f]]
        /\ OSOwnerPrio' = [f \in OSEventTblAll |-> OSOwnerPrio'[f]]
    <3>1. Owned
      BY DEF StageInv, TableInv
    <3> QED
      BY <1>3, <3>1 DEF Owned
  <2>7. \A f \in Mutexes, g \in Mutexes : f # g =>
          /\ OSMutexPIP'[f] # OSMutexPIP'[g]
          /\ OSEventPtr'[f] = OSEventPtr'[g] => OSEventPtr'[f] = NULL
    BY <1>3 DEF StageInv, TableInv, Owned
  <2>8. \A f \in Mutexes : Mutex(f)'
    BY <2>2, <2>3
  <2>9. \A u \in Tasks : Raised(u)' =>
          \E f \in Mutexes : OSEventPtr'[f] = u /\ OSTCBPrio'[u] = OSMutexPIP'[f]
    BY <1>3, <2>4
  <2> QED
    BY <1>4, <2>5, <2>6, <2>7, <2>8, <2>9 DEF Owned
<1> QED
  BY <1>2, <1>6, <1>7, <1>8, <1>10, <1>11 DEF StageInv, TableInv

(* An owner is put back to its own priority.                               *)
Lowers(o, pip, R) ==
  /\ OSTCBPrio' = IF OSTCBPrio[o] = pip THEN [OSTCBPrio EXCEPT ![o] = o] ELSE OSTCBPrio
  /\ OSTCBPrioTbl' = [(IF OSTCBPrio[o] = pip THEN [OSTCBPrioTbl EXCEPT ![o] = o] ELSE OSTCBPrioTbl)
                        EXCEPT ![pip] = OS_TCB_RESERVED]
  /\ R = IF OSTCBPrio[o] = pip THEN (OSRdyTbl \ {pip}) \cup {o} ELSE OSRdyTbl

LEMMA LowerOwner ==
  ASSUME StageInv, NEW e \in Mutexes, NEW o, o = OSEventPtr[e], o # NULL, Ready(o),
         NEW pip, pip = OSMutexPIP[e], app' = app, NEW R, Lowers(o, pip, R)
  PROVE  /\ Numbered' /\ Renumbered(R) /\ OSTCBPrio'[o] = o
         /\ \A u \in Tasks : u # o => OSTCBPrio'[u] = OSTCBPrio[u]
         /\ OSTCBPrioTbl'[pip] = OS_TCB_RESERVED
         /\ \A p \in Prio : p # pip => OSTCBPrioTbl'[p] = OSTCBPrioTbl[p]
<1>1. /\ pip \in Prio /\ pip \notin Tasks /\ o \in Tasks /\ o # Idle /\ pip # o /\ Tasks' = Tasks
      /\ o \in OSTCBTbl /\ Tasks \subseteq OSTCBTbl /\ Tasks \subseteq Prio /\ o \in Prio
      /\ \A u \in Tasks : OSTCBPrio[u] = pip => u = o
  BY PipsAre, TasksAre DEF Tasks
<1>2. /\ OSTCBPrio \in [OSTCBTbl -> Prio] /\ OSTCBPrioTbl = [p \in Prio |-> OSTCBPrioTbl[p]]
      /\ \A u \in Tasks : OSTCBPrioTbl[u] = u /\ OSTCBPrioTbl[OSTCBPrio[u]] = u
      /\ \A p \in Prio : OSTCBPrioTbl[p] \in OSTCBTbl =>
           OSTCBPrioTbl[p] \in Tasks /\ p \in {OSTCBPrioTbl[p], OSTCBPrio[OSTCBPrioTbl[p]]}
  BY DEF StageInv, TableInv, Numbered
<1>3. OSTCBPrio[o] \in {o, pip}
  BY DEF StageInv, TableInv, Owned, Mutex, Owns
<1>4. /\ OSTCBPrioTbl'[pip] = OS_TCB_RESERVED
      /\ \A p \in Prio : p # pip => OSTCBPrioTbl'[p] = OSTCBPrioTbl[p]
      /\ OSTCBPrioTbl' = [p \in Prio |-> OSTCBPrioTbl'[p]]
  <2>1. OSTCBPrioTbl[o] = o
    BY <1>1, <1>2
  <2>2. CASE OSTCBPrio[o] = pip
    BY <1>1, <1>2, <2>1, <2>2 DEF Lowers
  <2>3. CASE OSTCBPrio[o] # pip
    BY <1>1, <1>2, <2>3 DEF Lowers
  <2> QED
    BY <2>2, <2>3
<1>5. /\ OSTCBPrio'[o] = o /\ \A u \in Tasks : u # o => OSTCBPrio'[u] = OSTCBPrio[u]
      /\ OSTCBPrio' \in [OSTCBTbl -> Prio]
  <2>1. CASE OSTCBPrio[o] = pip
    BY <1>1, <1>2, <2>1 DEF Lowers
  <2>2. CASE OSTCBPrio[o] # pip
    BY <1>1, <1>2, <1>3, <2>2 DEF Lowers
  <2> QED
    BY <2>1, <2>2
<1>6. Numbered'
  <2>1. \A u \in Tasks : OSTCBPrioTbl'[u] = u
    BY <1>1, <1>2, <1>4
  <2>2. ASSUME NEW u \in Tasks
        PROVE  OSTCBPrioTbl'[OSTCBPrio'[u]] = u
    <3>1. CASE u = o
      BY <1>5, <2>1, <3>1
    <3>2. CASE u # o
      <4>1. PICK q : q = OSTCBPrio[u]
        OBVIOUS
      <4>2. q # pip /\ q \in Prio /\ OSTCBPrio'[u] = q /\ OSTCBPrioTbl[q] = u
        BY <1>1, <1>2, <1>5, <3>2, <4>1
      <4> QED
        BY <1>4, <4>2
    <3> QED
      BY <3>1, <3>2
  <2>3. ASSUME NEW p \in Prio, OSTCBPrioTbl'[p] \in OSTCBTbl
        PROVE  OSTCBPrioTbl'[p] \in Tasks /\ p \in {OSTCBPrioTbl'[p], OSTCBPrio'[OSTCBPrioTbl'[p]]}
    <3>1. p # pip
      BY <1>4, <2>3, CoreAssumption
    <3>2. PICK v : v = OSTCBPrioTbl[p]
      OBVIOUS
    <3>3. OSTCBPrioTbl'[p] = v /\ v \in Tasks /\ p \in {v, OSTCBPrio[v]}
      BY <1>2, <1>4, <2>3, <3>1, <3>2
    <3>4. CASE v = o
      BY <1>3, <3>1, <3>3, <3>4
    <3>5. CASE v # o
      BY <1>5, <3>3, <3>5
    <3> QED
      BY <3>4, <3>5
  <2>4. /\ \A u \in Tasks : OSTCBPrioTbl'[u] = u /\ OSTCBPrioTbl'[OSTCBPrio'[u]] = u
        /\ \A p \in Prio : OSTCBPrioTbl'[p] \in OSTCBTbl =>
             OSTCBPrioTbl'[p] \in Tasks /\ p \in {OSTCBPrioTbl'[p], OSTCBPrio'[OSTCBPrioTbl'[p]]}
    BY <2>1, <2>2, <2>3
  <2>5. OSTCBPrio' \in [OSTCBTbl -> Prio] /\ OSTCBPrioTbl' = [p \in Prio |-> OSTCBPrioTbl'[p]]
        /\ Tasks' = Tasks
    BY <1>1, <1>4, <1>5
  <2>6. /\ \A u \in Tasks' : OSTCBPrioTbl'[u] = u /\ OSTCBPrioTbl'[OSTCBPrio'[u]] = u
        /\ \A p \in Prio : OSTCBPrioTbl'[p] \in OSTCBTbl =>
             OSTCBPrioTbl'[p] \in Tasks' /\ p \in {OSTCBPrioTbl'[p], OSTCBPrio'[OSTCBPrioTbl'[p]]}
    BY <1>1, <2>4
  <2> QED
    BY <2>5, <2>6 DEF Numbered
<1>7. \A u \in Tasks : u # o => OSTCBPrio[u] # o
  BY <1>1, <1>2
<1>8. \A u \in Tasks : OSTCBPrio'[u] \in R <=> Ready(u)
  <2>1. CASE OSTCBPrio[o] = pip
    BY <1>1, <1>5, <1>7, <2>1 DEF Ready, Lowers
  <2>2. CASE OSTCBPrio[o] # pip
    BY <1>3, <1>5, <2>2 DEF Ready, Lowers
  <2> QED
    BY <2>1, <2>2
<1>9. ASSUME NEW p \in R
      PROVE  \E u \in Tasks : OSTCBPrio'[u] = p
  <2>1. CASE p = o
    BY <1>1, <1>5, <2>1
  <2>2. CASE p # o
    <3>1. p \in OSRdyTbl
      BY <1>9, <2>2 DEF Lowers
    <3>2. PICK u \in Tasks : OSTCBPrio[u] = p
      BY <3>1 DEF StageInv, TableInv, ReadyRow
    <3>3. u # o
      BY <1>3, <1>9, <2>2, <3>2 DEF Lowers
    <3> QED
      BY <1>5, <3>2, <3>3
  <2> QED
    BY <2>1, <2>2
<1>10. Idle \in R
  <2>1. Idle \in OSRdyTbl /\ Idle \in Tasks
    BY TasksAre DEF StageInv, TableInv, ReadyRow
  <2> QED
    BY <1>1, <2>1 DEF Lowers
<1> QED
  BY <1>4, <1>5, <1>6, <1>8, <1>9, <1>10 DEF Renumbered

(* The owner hands its mutex to n, or to nobody.                           *)
LEMMA HandedOver ==
  ASSUME Discipline, StageInv, NEW t \in OSTCBTbl, OSTCBCur = t, pc[t] = "enter",
         NEW e \in Mutexes, OSEventPtr[e] = t, Result(t), Faithful, Kept, Numbered',
         OSTCBPrio'[t] = t, \A u \in Tasks : u # t => OSTCBPrio'[u] = OSTCBPrio[u],
         OSTCBPrioTbl'[OSMutexPIP[e]] = OS_TCB_RESERVED,
         \A p \in Prio : p # OSMutexPIP[e] => OSTCBPrioTbl'[p] = OSTCBPrioTbl[p],
         UNCHANGED <<OSMutexPIP, OSEventType>>, NEW n,
         OSOwnerPrio' = [OSOwnerPrio EXCEPT ![e] = n], OSEventPtr' = [OSEventPtr EXCEPT ![e] = n],
         \/ n = NULL /\ OSEventTbl'[e] = {}
         \/ /\ n \in OSEventTbl[e] /\ n \notin OSEventTbl'[e] /\ \A p \in OSEventTbl'[e] : n < p
            /\ pc' = [pc EXCEPT ![t] = "sched"]
  PROVE  StageInv'
<1>1. /\ t \in Tasks /\ Tasks' = Tasks /\ Mutexes' = Mutexes /\ app' = app /\ t # NULL
      /\ pc = [u \in OSTCBTbl |-> pc[u]] /\ e \in OSEventTblAll /\ t \notin OSEventTbl[e]
      /\ \A x : MutexesOf(x)' = MutexesOf(x) /\ Pips(x)' = Pips(x)
  BY CallerIs, TasksAre
     DEF Tasks, Mutexes, Kept, MutexesOf, Pips, AllCalls, StageInv, TableInv, Controlled, Owned, Mutex, Owns
<1>2. /\ OSEventPtr'[e] = n /\ OSOwnerPrio'[e] = n
      /\ \A f \in Mutexes : f # e => OSEventPtr'[f] = OSEventPtr[f] /\ OSOwnerPrio'[f] = OSOwnerPrio[f]
      /\ OSEventPtr' = [f \in OSEventTblAll |-> OSEventPtr'[f]]
      /\ OSOwnerPrio' = [f \in OSEventTblAll |-> OSOwnerPrio'[f]]
      /\ OSMutexPIP' = [f \in OSEventTblAll |-> OSMutexPIP'[f]]
  <2>1. /\ OSEventPtr = [f \in OSEventTblAll |-> OSEventPtr[f]]
        /\ OSOwnerPrio = [f \in OSEventTblAll |-> OSOwnerPrio[f]]
        /\ OSMutexPIP = [f \in OSEventTblAll |-> OSMutexPIP[f]]
    BY DEF StageInv, TableInv, Owned
  <2> QED
    BY <1>1, <2>1 DEF Mutexes
<1>3. n # NULL =>
        /\ n \in Tasks /\ n # t /\ Queued(n) /\ OSTCBPrio'[n] = n /\ Pending(n)
        /\ call[n].op = "MutexPend" /\ call[n].ev = e /\ e \in MutexesOf(n)
  <2> SUFFICES ASSUME n # NULL
               PROVE  /\ n \in Tasks /\ n # t /\ Queued(n) /\ OSTCBPrio'[n] = n /\ Pending(n)
                      /\ call[n].op = "MutexPend" /\ call[n].ev = e /\ e \in MutexesOf(n)
    OBVIOUS
  <2>1. n \in OSEventTbl[e]
    OBVIOUS
  <2>2. n \in Tasks /\ n # t /\ Queued(n) /\ n \in OSTCBTbl /\ n \in Prio
    BY <1>1, <2>1, ListsAre, TasksAre
  <2>3. OSTCBPrio'[n] = n
    BY <2>2, WaitersUnraised
  <2>4. OnEvent(n) /\ call[n].ev = e /\ OSEventType[e] = Bit(n)
    BY <1>1, <2>1, <2>2 DEF StageInv, DataInv, Stages, Placed
  <2>5. Pending(n) /\ call[n].op = "MutexPend"
    BY <2>2, <2>4, CallWaits DEF OnEvent, Mutexes
  <2>6. call[n] \in app.calls[n]
    BY <2>2, <2>5, CallerIs DEF Pending
  <2>7. e \in MutexesOf(n)
    BY <2>4, <2>5, <2>6 DEF MutexesOf
  <2> QED
    BY <2>2, <2>3, <2>4, <2>5, <2>7
<1>4. \A f \in Mutexes : OSEventTbl'[f] \subseteq OSEventTbl[f]
  BY DEF Faithful, MutexesKept
<1>5. \A f \in Mutexes : n # NULL => OSEventPtr[f] # n
  BY <1>3, OwnerFree
<1>6. Mutex(e)'
  <2>1. Mutex(e)
    BY DEF StageInv, TableInv, Owned
  <2>2. n # NULL => Owns(n, e)'
    BY <1>1, <1>3 DEF Owns
  <2>3. n = NULL => OSEventTbl'[e] = {}
    BY <1>1, ListsAre, TasksAre
  <2>4. OS_TCB_RESERVED # NULL
    BY CoreAssumption
  <2> QED
    BY <1>1, <1>2, <2>1, <2>2, <2>3, <2>4 DEF Mutex
<1>7. ASSUME NEW f \in Mutexes, f # e
      PROVE  Mutex(f)'
  <2>1. Mutex(f) /\ OSMutexPIP[f] # OSMutexPIP[e] /\ OSMutexPIP[f] \in Prio
    BY <1>7, PipsAre DEF StageInv, TableInv, Owned
  <2>2. OSTCBPrioTbl'[OSMutexPIP[f]] = OSTCBPrioTbl[OSMutexPIP[f]]
    BY <2>1
  <2>3. OSEventPtr'[f] = OSEventPtr[f] /\ OSOwnerPrio'[f] = OSOwnerPrio[f]
    BY <1>2, <1>7
  <2>4. OSEventTbl'[f] \subseteq OSEventTbl[f]
    BY <1>4
  <2>5. ASSUME OSEventPtr[f] # NULL
        PROVE  Owns(OSEventPtr[f], f)'
    <3>1. PICK o : o = OSEventPtr[f]
      OBVIOUS
    <3>2. Owns(o, f) /\ o # t
      BY <1>1, <1>7, <2>1, <2>5, <3>1, PipsAre DEF Mutex
    <3>3. OSTCBPrio'[o] = OSTCBPrio[o]
      BY <3>2 DEF Owns
    <3>4. Owns(o, f)'
      BY <1>1, <2>4, <3>2, <3>3 DEF Owns
    <3> QED
      BY <2>3, <3>1, <3>4
  <2> QED
    BY <1>1, <2>1, <2>2, <2>3, <2>4, <2>5 DEF Mutex
<1>8. \A f \in Mutexes, g \in Mutexes : f # g =>
        /\ OSMutexPIP'[f] # OSMutexPIP'[g]
        /\ OSEventPtr'[f] = OSEventPtr'[g] => OSEventPtr'[f] = NULL
  <2>1. \A f \in Mutexes, g \in Mutexes : f # g =>
          /\ OSMutexPIP[f] # OSMutexPIP[g]
          /\ OSEventPtr[f] = OSEventPtr[g] => OSEventPtr[f] = NULL
    BY DEF StageInv, TableInv, Owned
  <2> QED
    BY <1>2, <1>5, <2>1
<1>9. ASSUME NEW u \in Tasks, Raised(u)'
      PROVE  \E f \in Mutexes : OSEventPtr'[f] = u /\ OSTCBPrio'[u] = OSMutexPIP'[f]
  <2>1. u # t /\ OSTCBPrio'[u] = OSTCBPrio[u] /\ Raised(u)
    BY <1>9 DEF Raised
  <2>2. PICK f \in Mutexes : OSEventPtr[f] = u /\ OSTCBPrio[u] = OSMutexPIP[f]
    BY <2>1 DEF StageInv, TableInv, Owned
  <2>3. f # e
    BY <2>1, <2>2
  <2> QED
    BY <1>2, <2>1, <2>2, <2>3
<1>10. \A u \in Tasks : MutexesOf(u) # {} => ~Suspended(u)'
  BY DEF Faithful, MutexesKept
<1>11. Owned'
  <2>1. \A f \in Mutexes : Mutex(f)'
    BY <1>6, <1>7
  <2> QED
    BY <1>1, <1>2, <1>8, <1>9, <1>10, <2>1 DEF Owned
<1>12. Controlled' /\ HighestRuns' /\ TypedCalls' /\ Scheduled'
  BY ResultKeeps DEF Faithful, Kept
<1>13. OwnerCalls'
  BY <1>1, <1>2, <1>3, OwnersCall
<1>14. Dispatched'
  <2>1. OSTCBCur' = t /\ OSPrioCur' = OSPrioCur /\ OSLockNesting' \in 0..255 /\ deferred' \in BOOLEAN
    BY DEF Result, cpuVars
  <2>2. ~Raised(t)'
    BY DEF Raised
  <2>3. n # NULL => pc'[t] = "sched"
    BY <1>1
  <2>4. CASE OSPrioCur = t
    BY <1>1, <2>1, <2>4 DEF Dispatched
  <2>5. CASE OSPrioCur = OSMutexPIP[e]
    <3>1. Stale(e)'
      BY <1>2, <2>1, <2>2, <2>3, <2>5 DEF Stale
    <3> QED
      BY <1>1, <2>1, <3>1 DEF Dispatched
  <2>6. ASSUME NEW f \in Mutexes, Stale(f)
        PROVE  Stale(f)'
    <3>1. OSTCBPrioTbl'[OSMutexPIP[f]] = OS_TCB_RESERVED
      BY <2>6, PipsAre DEF Stale
    <3>2. CASE n # NULL
      BY <2>1, <2>2, <2>3, <2>6, <3>1, <3>2 DEF Stale
    <3>3. CASE n = NULL
      <4>1. OSEventPtr[f] \in {NULL, t} => OSEventPtr'[f] \in {NULL, t}
        BY <1>2, <3>3
      <4> QED
        BY <2>2, <2>6, <3>1, <4>1, StaleKept
    <3> QED
      BY <3>2, <3>3
  <2>7. OSTCBPrio[t] \in {t, OSMutexPIP[e]}
    BY <1>1 DEF StageInv, TableInv, Owned, Mutex, Owns
  <2>8. \/ OSPrioCur \in {t, OSMutexPIP[e]}
        \/ \E f \in Mutexes : Stale(f)
    BY <2>7 DEF StageInv, TableInv, Dispatched
  <2> QED
    BY <1>1, <2>1, <2>4, <2>5, <2>6, <2>8 DEF Dispatched
<1> QED
  BY <1>11, <1>12, <1>13, <1>14 DEF StageInv, TableInv, Faithful

LEMMA PostStage ==
  ASSUME Discipline, StageInv, NEW t \in OSTCBTbl, OSTCBCur = t, pc[t] = "enter",
         call[t].op = "MutexPost", OSMutexPost(t, call[t].ev)
  PROVE  StageInv'
<1>1. PICK e, pip : e = call[t].ev /\ pip = OSMutexPIP[e]
  OBVIOUS
<1>2. CASE Owner(e) # t
  <2>1. Return(t, FALSE) /\ UNCHANGED <<dataVars, mutexVars, OSTCBFlagNode>>
    BY <1>1, <1>2 DEF OSMutexPost, flagVars
  <2>2. OSEventPtr = [f \in OSEventTblAll |-> OSEventPtr[f]]
    BY DEF StageInv, TableInv, Owned
  <2> QED
    BY <2>1, <2>2, QuietReturn DEF dataVars, eventVars
<1>3. CASE Owner(e) = t
  <2>1. PICK raised : raised = (OSTCBPrio[t] = pip)
    OBVIOUS
  <2>2. PICK R : R = IF raised THEN (OSRdyTbl \ {pip}) \cup {t} ELSE OSRdyTbl
    OBVIOUS
  <2>3. /\ e \in Mutexes /\ e \in OSEventTblAll /\ OSEventPtr[e] = t /\ OSOwnerPrio[e] = t
        /\ t \in Tasks /\ t # NULL /\ OSEventType[e] = "MUTEX" /\ MutexesOf(t) # {}
        /\ OSTCBPrio[t] \in {t, pip} /\ raised \in BOOLEAN
    BY <1>1, <1>3, <2>1, MutexOf, CallerIs, TasksAre DEF Mutex, Mutexes, Owner, Owns
  <2>4. Ready(t)
    BY <2>3, OnProcessor
  <2>5. /\ OSTCBPrio' = IF raised THEN [OSTCBPrio EXCEPT ![t] = t] ELSE OSTCBPrio
        /\ OSTCBPrioTbl' = [(IF raised THEN [OSTCBPrioTbl EXCEPT ![t] = t] ELSE OSTCBPrioTbl)
                              EXCEPT ![pip] = OS_TCB_RESERVED]
        /\ UNCHANGED <<OSMutexPIP, OSEventType, OSTCBFlagNode>>
    BY <1>1, <1>3, <2>1, <2>3 DEF OSMutexPost, PrioAt, TblAt, flagVars
  <2>6. R = IF raised THEN RdyAtPrio(t, OSOwnerPrio[e]) ELSE OSRdyTbl
    BY <2>1, <2>2, <2>3 DEF RdyAtPrio
  <2>10. raised \in BOOLEAN /\ (raised <=> OSTCBPrio[t] = pip)
    BY <2>1
  <2>11. ASSUME app' = app
        PROVE  /\ Numbered' /\ Renumbered(R) /\ OSTCBPrio'[t] = t
               /\ \A u \in Tasks : u # t => OSTCBPrio'[u] = OSTCBPrio[u]
               /\ OSTCBPrioTbl'[OSMutexPIP[e]] = OS_TCB_RESERVED
               /\ \A p \in Prio : p # OSMutexPIP[e] => OSTCBPrioTbl'[p] = OSTCBPrioTbl[p]
    <3>1. e \in Mutexes /\ t = OSEventPtr[e] /\ t # NULL /\ Ready(t) /\ pip = OSMutexPIP[e]
      BY <1>1, <2>3, <2>4
    <3>2. Lowers(t, pip, R)
      BY <2>1, <2>2, <2>5 DEF Lowers
    <3>3. /\ Numbered' /\ Renumbered(R) /\ OSTCBPrio'[t] = t
          /\ \A u \in Tasks : u # t => OSTCBPrio'[u] = OSTCBPrio[u]
          /\ OSTCBPrioTbl'[pip] = OS_TCB_RESERVED
          /\ \A p \in Prio : p # pip => OSTCBPrioTbl'[p] = OSTCBPrioTbl[p]
      BY <2>11, <3>1, <3>2, LowerOwner
    <3> QED
      BY <1>1, <3>3
  <2>7. PICK n, r : /\ n = IF Waited(e) THEN Highest(OSEventTbl[e]) ELSE NULL
                    /\ r = IF Waited(e) THEN "sched" ELSE "app"
    OBVIOUS
  <2>8. CASE Waited(e)
    <3>1. /\ n \in OSEventTbl[e] /\ \A p \in OSEventTbl[e] : n <= p
          /\ n \in Tasks /\ n \in Prio /\ OSTCBPrioTbl[n] = n /\ OSTCBPrio[n] = n /\ n # t /\ n # pip
          /\ \A p \in OSEventTbl[e] : p \in Prio
      <4>1. n \in OSEventTbl[e] /\ \A p \in OSEventTbl[e] : n <= p
        BY <2>3, <2>7, <2>8, ListsAre
      <4>2. n \in Tasks /\ Queued(n) /\ \A p \in OSEventTbl[e] : p \in Prio
        BY <2>3, <4>1, ListsAre, TasksAre
      <4>3. n \in Prio /\ OSTCBPrioTbl[n] = n /\ OSTCBPrio[n] = n
        BY <4>2, WaitersUnraised, TasksAre
      <4>4. n # t
        BY <2>3, <4>1 DEF StageInv, TableInv, Owned, Mutex, Owns
      <4>5. n # pip
        BY <1>1, <2>3, <4>2, PipsAre
      <4> QED
        BY <4>1, <4>2, <4>3, <4>4, <4>5
    <3>2. /\ OS_EventTaskRdy(R, e, {n}, NULL, "MUTEX", "OK") /\ Return(t, TRUE)
          /\ OSOwnerPrio' = [OSOwnerPrio EXCEPT ![e] = n]
          /\ OSEventPtr' = [OSEventPtr EXCEPT ![e] = OSTCBPrioTbl'[n]]
      BY <1>1, <1>3, <2>1, <2>6, <2>7, <2>8 DEF OSMutexPost
    <3>3. app' = app /\ pc' = [pc EXCEPT ![t] = "sched"] /\ call' = [call EXCEPT ![t] = NULL]
      BY <3>2 DEF Return
    <3>4. /\ Numbered' /\ Renumbered(R) /\ OSTCBPrio'[t] = t
          /\ \A u \in Tasks : u # t => OSTCBPrio'[u] = OSTCBPrio[u]
          /\ OSTCBPrioTbl'[OSMutexPIP[e]] = OS_TCB_RESERVED
          /\ \A p \in Prio : p # OSMutexPIP[e] => OSTCBPrioTbl'[p] = OSTCBPrioTbl[p]
      BY <2>11, <3>3
    <3>5. Kept
      <4>1. \A u \in Tasks : CtlKept(u)
        BY <2>3, <3>3, ReturnsKeep DEF Pending
      <4> QED
        BY <2>5, <3>3, <4>1 DEF Kept, TypesKept, StageInv, DataInv, Arrays
    <3>6. Faithful
      BY <2>3, <2>5, <3>1, <3>2, <3>4, <3>5, PostFine
    <3>7. Answers(R, e, {n}, "MUTEX", "OK")
      BY <2>3, <3>1, <3>2, PostAnswers
    <3>8. n \notin OSEventTbl'[e] /\ \A p \in OSEventTbl'[e] : n < p
      <4>1. OSEventTbl'[e] = OSEventTbl[e] \ {n}
        BY <2>3, <3>7 DEF Answers
      <4> QED
        BY <3>1, <4>1, CoreAssumption DEF Prio
    <3>9. Result(t)
      <4>1. OSTCBPrio'[t] \in OSRdyTbl'
        BY <2>3, <2>4, <3>4, <3>7 DEF Renumbered, Answers
      <4> QED
        BY <3>2, <4>1, Ending DEF Ready
    <3>10. OSEventPtr' = [OSEventPtr EXCEPT ![e] = n]
      BY <1>1, <3>1, <3>2, <3>4
    <3> QED
      <4>1. UNCHANGED <<OSMutexPIP, OSEventType>> /\ OSOwnerPrio' = [OSOwnerPrio EXCEPT ![e] = n]
            /\ n \in OSEventTbl[e] /\ e \in Mutexes /\ OSEventPtr[e] = t
        BY <2>3, <2>5, <3>1, <3>2
      <4> QED
        BY <3>3, <3>4, <3>5, <3>6, <3>8, <3>9, <3>10, <4>1, HandedOver
  <2>9. CASE ~Waited(e)
    <3>1. /\ OSRdyTbl' = R /\ OSOwnerPrio' = [OSOwnerPrio EXCEPT ![e] = NULL]
          /\ OSEventPtr' = [OSEventPtr EXCEPT ![e] = NULL]
          /\ ReturnUnscheduled(t, raised) /\ UNCHANGED <<pendVars, OSEventTbl>>
      BY <1>1, <1>3, <2>1, <2>6, <2>9 DEF OSMutexPost
    <3>2. app' = app /\ pc' = [pc EXCEPT ![t] = "app"] /\ call' = [call EXCEPT ![t] = NULL]
      BY <3>1 DEF ReturnUnscheduled
    <3>3. /\ Numbered' /\ Renumbered(R) /\ OSTCBPrio'[t] = t
          /\ \A u \in Tasks : u # t => OSTCBPrio'[u] = OSTCBPrio[u]
          /\ OSTCBPrioTbl'[OSMutexPIP[e]] = OS_TCB_RESERVED
          /\ \A p \in Prio : p # OSMutexPIP[e] => OSTCBPrioTbl'[p] = OSTCBPrioTbl[p]
      BY <2>11, <3>2
    <3>4. Kept
      <4>1. \A u \in Tasks : CtlKept(u)
        BY <2>3, <3>2, ReturnsKeep DEF Pending
      <4> QED
        BY <2>5, <3>2, <4>1 DEF Kept, TypesKept, StageInv, DataInv, Arrays
    <3>5. Faithful
      BY <2>5, <3>1, <3>3, <3>4, RenumberedFine
    <3>6. OSEventTbl'[e] = {}
      BY <2>9, <3>1 DEF Waited
    <3>7. Result(t)
      <4>1. Ready(t)'
        BY <2>3, <2>4, <3>1, <3>3 DEF Renumbered, Ready
      <4>2. ~raised => StaysReady(t)
        BY <2>2, <2>5, <3>1 DEF StaysReady
      <4> QED
        BY <2>3, <3>1, <4>1, <4>2, EndingUnscheduled
    <3> QED
      BY <1>1, <2>3, <2>5, <3>1, <3>3, <3>4, <3>5, <3>6, <3>7, HandedOver
  <2> QED
    BY <2>8, <2>9
<1> QED
  BY <1>2, <1>3

(* A mutex is created at a priority that nobody has.                       *)
LEMMA MutexCreateStage ==
  ASSUME Discipline, StageInv, NEW t \in OSTCBTbl, OSTCBCur = t, pc[t] = "enter",
         call[t].op = "MutexCreate", OSMutexCreate(t, call[t].ev, call[t].pip)
  PROVE  StageInv'
<1>1. PICK e, pip : e = call[t].ev /\ pip = call[t].pip
  OBVIOUS
<1>2. /\ t \in Tasks /\ Tasks \subseteq OSTCBTbl /\ Tasks \subseteq Prio /\ NULL \notin OSTCBTbl /\ t # NULL
      /\ e \in OSEventTblAll /\ pip \in Prio /\ pip # Idle /\ pip \in Pips(e)
  BY <1>1, CallerIs, TasksAre DEF WellFormed, Pips
<1>3. /\ Return(t, FALSE) /\ app' = app /\ pc' = [pc EXCEPT ![t] = "app"]
      /\ UNCHANGED <<OSTCBPrio, OSTCBFreeList, pendVars, OSRdyTbl, OSTCBFlagNode>>
      /\ Tasks' = Tasks /\ \A x : MutexesOf(x)' = MutexesOf(x) /\ Pips(x)' = Pips(x)
  BY DEF OSMutexCreate, Return, flagVars, Tasks, MutexesOf, Pips, AllCalls
<1>4. CASE ~(Free(e) /\ OSTCBPrioTbl[pip] = NULL)
  <2>1. UNCHANGED <<OSTCBPrioTbl, OSEventType, OSMutexPIP, OSOwnerPrio, OSEventPtr, OSEventTbl>>
    BY <1>1, <1>4 DEF OSMutexCreate
  <2>2. OSEventPtr = [f \in OSEventTblAll |-> OSEventPtr[f]]
    BY DEF StageInv, TableInv, Owned
  <2> QED
    BY <1>3, <2>1, <2>2, QuietReturn DEF waitVars, taskVars, mutexVars
<1>5. CASE Free(e) /\ OSTCBPrioTbl[pip] = NULL
  <2>1. /\ OSTCBPrioTbl' = [OSTCBPrioTbl EXCEPT ![pip] = OS_TCB_RESERVED]
        /\ OSEventType' = [OSEventType EXCEPT ![e] = "MUTEX"]
        /\ OSMutexPIP' = [OSMutexPIP EXCEPT ![e] = pip]
        /\ OSOwnerPrio' = [OSOwnerPrio EXCEPT ![e] = NULL]
        /\ OSEventPtr' = [OSEventPtr EXCEPT ![e] = NULL]
        /\ OSEventTbl' = [OSEventTbl EXCEPT ![e] = {}]
    BY <1>1, <1>5 DEF OSMutexCreate
  <2>2. Faithful /\ Kept /\ OSEventTbl' = OSEventTbl
    BY <1>2, <1>3, <1>5, <2>1, CreateFine
  <2>3. /\ OSTCBPrio \in [OSTCBTbl -> Prio] /\ OSTCBPrioTbl = [p \in Prio |-> OSTCBPrioTbl[p]]
        /\ \A u \in Tasks : OSTCBPrioTbl[u] = u /\ OSTCBPrioTbl[OSTCBPrio[u]] = u
        /\ \A p \in Prio : OSTCBPrioTbl[p] \in OSTCBTbl =>
             OSTCBPrioTbl[p] \in Tasks /\ p \in {OSTCBPrioTbl[p], OSTCBPrio[OSTCBPrioTbl[p]]}
    BY DEF StageInv, TableInv, Numbered
  <2>4. /\ OSTCBPrioTbl'[pip] = OS_TCB_RESERVED
        /\ \A p \in Prio : p # pip => OSTCBPrioTbl'[p] = OSTCBPrioTbl[p]
    BY <1>2, <2>1, <2>3
  <2>5. pip \notin Tasks /\ \A u \in Tasks : OSTCBPrio[u] # pip
    BY <1>2, <1>5, <2>3
  <2>6. Numbered'
    <3>1. ASSUME NEW u \in Tasks
          PROVE  OSTCBPrioTbl'[u] = u /\ OSTCBPrioTbl'[OSTCBPrio'[u]] = u
      <4>1. PICK q : q = OSTCBPrio[u]
        OBVIOUS
      <4>2. q # pip /\ q \in Prio /\ OSTCBPrio'[u] = q /\ OSTCBPrioTbl[q] = u
            /\ u # pip /\ u \in Prio /\ OSTCBPrioTbl[u] = u
        BY <1>2, <1>3, <2>3, <2>5, <4>1
      <4> QED
        BY <2>4, <4>2
    <3>2. ASSUME NEW p \in Prio, OSTCBPrioTbl'[p] \in OSTCBTbl
          PROVE  OSTCBPrioTbl'[p] \in Tasks /\ p \in {OSTCBPrioTbl'[p], OSTCBPrio'[OSTCBPrioTbl'[p]]}
      <4>1. p # pip
        BY <2>4, <3>2, CoreAssumption
      <4> QED
        BY <1>3, <2>3, <2>4, <3>2, <4>1
    <3>3. /\ \A u \in Tasks' : OSTCBPrioTbl'[u] = u /\ OSTCBPrioTbl'[OSTCBPrio'[u]] = u
          /\ \A p \in Prio : OSTCBPrioTbl'[p] \in OSTCBTbl =>
               OSTCBPrioTbl'[p] \in Tasks' /\ p \in {OSTCBPrioTbl'[p], OSTCBPrio'[OSTCBPrioTbl'[p]]}
      BY <1>3, <3>1, <3>2
    <3>4. OSTCBPrio' \in [OSTCBTbl -> Prio] /\ OSTCBPrioTbl' = [p \in Prio |-> OSTCBPrioTbl'[p]]
      BY <1>2, <1>3, <2>1, <2>3
    <3> QED
      BY <3>3, <3>4 DEF Numbered
  <2>7. e \notin Mutexes /\ Mutexes' = Mutexes \cup {e}
    <3>1. OSEventType = [f \in OSEventTblAll |-> OSEventType[f]]
      BY DEF StageInv, DataInv, Arrays
    <3> QED
      BY <1>2, <1>5, <2>1, <3>1 DEF Mutexes, Free
  <2>8. /\ OSEventPtr'[e] = NULL /\ OSOwnerPrio'[e] = NULL /\ OSMutexPIP'[e] = pip
        /\ \A f \in Mutexes : /\ OSEventPtr'[f] = OSEventPtr[f] /\ OSOwnerPrio'[f] = OSOwnerPrio[f]
                              /\ OSMutexPIP'[f] = OSMutexPIP[f]
        /\ OSEventPtr' = [f \in OSEventTblAll |-> OSEventPtr'[f]]
        /\ OSOwnerPrio' = [f \in OSEventTblAll |-> OSOwnerPrio'[f]]
        /\ OSMutexPIP' = [f \in OSEventTblAll |-> OSMutexPIP'[f]]
    <3>1. /\ OSEventPtr = [f \in OSEventTblAll |-> OSEventPtr[f]]
          /\ OSOwnerPrio = [f \in OSEventTblAll |-> OSOwnerPrio[f]]
          /\ OSMutexPIP = [f \in OSEventTblAll |-> OSMutexPIP[f]]
      BY DEF StageInv, TableInv, Owned
    <3> QED
      BY <1>2, <2>1, <2>7, <3>1 DEF Mutexes
  <2>9. \A f \in Mutexes : OSMutexPIP[f] # pip /\ OSMutexPIP[f] \in Prio
    BY <1>5, PipsAre DEF StageInv, TableInv, Owned, Mutex
  <2>10. Mutex(e)'
    <3>1. OSEventTbl'[e] = {}
      BY <1>2, <2>1 DEF StageInv, TableInv, ListRows
    <3>2. OS_TCB_RESERVED # NULL
      BY CoreAssumption
    <3> QED
      BY <1>2, <1>3, <2>4, <2>5, <2>8, <3>1, <3>2 DEF Mutex
  <2>11. ASSUME NEW f \in Mutexes
         PROVE  Mutex(f)'
    <3>1. Mutex(f)
      BY DEF StageInv, TableInv, Owned
    <3>2. OSTCBPrioTbl'[OSMutexPIP[f]] = OSTCBPrioTbl[OSMutexPIP[f]]
      BY <2>4, <2>9
    <3> QED
      BY <1>3, <2>2, <2>8, <3>1, <3>2 DEF Mutex, Owns
  <2>12. Owned'
    <3>1. \A f \in Mutexes' : Mutex(f)'
      BY <2>7, <2>10, <2>11
    <3>2. \A f \in Mutexes', g \in Mutexes' : f # g =>
            /\ OSMutexPIP'[f] # OSMutexPIP'[g]
            /\ OSEventPtr'[f] = OSEventPtr'[g] => OSEventPtr'[f] = NULL
      <4>1. \A f \in Mutexes, g \in Mutexes : f # g =>
              /\ OSMutexPIP[f] # OSMutexPIP[g]
              /\ OSEventPtr[f] = OSEventPtr[g] => OSEventPtr[f] = NULL
        BY DEF StageInv, TableInv, Owned
      <4> QED
        BY <2>7, <2>8, <2>9, <4>1
    <3>3. ASSUME NEW u \in Tasks, Raised(u)'
          PROVE  \E f \in Mutexes' : OSEventPtr'[f] = u /\ OSTCBPrio'[u] = OSMutexPIP'[f]
      <4>1. PICK f \in Mutexes : OSEventPtr[f] = u /\ OSTCBPrio[u] = OSMutexPIP[f]
        BY <1>3, <3>3 DEF StageInv, TableInv, Owned, Raised
      <4> QED
        BY <1>3, <2>7, <2>8, <4>1
    <3>4. \A u \in Tasks : MutexesOf(u) # {} => ~Suspended(u)'
      BY <2>2 DEF Faithful, MutexesKept
    <3> QED
      BY <1>3, <2>8, <3>1, <3>2, <3>3, <3>4 DEF Owned
  <2>13. Result(t)
    BY <1>3, Ending DEF StaysReady
  <2>14. Controlled' /\ HighestRuns' /\ TypedCalls' /\ Scheduled'
    BY <2>2, <2>6, <2>13, ResultKeeps DEF Faithful, Kept
  <2>15. OwnerCalls'
    BY <2>7, <2>8, <2>13, OwnersCall
  <2>16. Dispatched'
    <3>1. OSTCBCur' = t /\ OSPrioCur' = OSPrioCur /\ OSLockNesting' \in 0..255 /\ deferred' \in BOOLEAN
      BY <2>13 DEF Result, cpuVars
    <3>2. CASE OSPrioCur = OSTCBPrio[t]
      BY <1>2, <1>3, <3>1, <3>2 DEF Dispatched
    <3>3. ASSUME NEW f \in Mutexes, Stale(f)
          PROVE  Stale(f)'
      <4>1. OSTCBPrioTbl'[OSMutexPIP[f]] = OS_TCB_RESERVED /\ ~Raised(t)'
        BY <1>3, <2>4, <2>9, <3>3 DEF Stale, Raised
      <4>2. OSMutexPIP'[f] = OSMutexPIP[f] /\ OSEventPtr'[f] = OSEventPtr[f]
        BY <2>8
      <4> QED
        BY <2>13, <3>3, <4>1, <4>2, StaleKept
    <3>4. \/ OSPrioCur = OSTCBPrio[t]
          \/ \E f \in Mutexes : Stale(f)
      BY DEF StageInv, TableInv, Dispatched
    <3> QED
      BY <1>2, <1>3, <2>7, <3>1, <3>2, <3>3, <3>4 DEF Dispatched
  <2> QED
    BY <2>2, <2>6, <2>12, <2>14, <2>15, <2>16 DEF StageInv, TableInv, Faithful
<1> QED
  BY <1>4, <1>5

LEMMA SectionStage ==
  ASSUME Discipline, StageInv, NEW t \in OSTCBTbl, TaskSection(t)
  PROVE  StageInv'
<1> DEFINE c == call[t]
<1>1. pc[t] = "enter" /\ OSTCBCur = t
  BY DEF TaskSection, Running
<1>2. CASE c.op \notin MutexOps
  BY <1>2, TaskStage
<1>3. CASE c.op = "MutexAccept" /\ OSMutexAccept(t, c.ev)
  BY <1>1, <1>3, AcceptStage
<1>4. CASE c.op = "MutexPend" /\ OSMutexPend(t, c.ev, c.timeout)
  <2>1. CASE OSOwnerPrio[c.ev] = NULL
    BY <1>1, <1>4, <2>1, AcceptStage DEF OSMutexPend
  <2>2. CASE OSOwnerPrio[c.ev] # NULL
    BY <1>1, <1>4, <2>2, MutexWaitStage DEF OSMutexPend
  <2> QED
    BY <2>1, <2>2
<1>5. CASE c.op = "MutexPost" /\ OSMutexPost(t, c.ev)
  BY <1>1, <1>5, PostStage
<1>6. CASE c.op = "MutexCreate" /\ OSMutexCreate(t, c.ev, c.pip)
  BY <1>1, <1>6, MutexCreateStage
<1> HIDE DEF c
<1>7. c.op \in MutexOps =>
        \/ c.op = "MutexAccept" /\ OSMutexAccept(t, c.ev)
        \/ c.op = "MutexPend" /\ OSMutexPend(t, c.ev, c.timeout)
        \/ c.op = "MutexPost" /\ OSMutexPost(t, c.ev)
        \/ c.op = "MutexCreate" /\ OSMutexCreate(t, c.ev, c.pip)
  BY DEF TaskSection, c, MutexOps
<1> QED
  BY <1>2, <1>3, <1>4, <1>5, <1>6, <1>7

-----------------------------------------------------------------------------
(* The processor: after a switch the running task is the one that the      *)
(* priority of the last switch names, and is ready.                        *)
LEMMA SwitchFindsReady ==
  ASSUME StageInv, Plain, Faithful, Switch(OSRdyTbl'), OSLockNesting' = OSLockNesting
  PROVE  /\ OSLockNesting = 0 =>
              /\ OSTCBCur' = OSTCBPrioTbl'[Highest(OSRdyTbl')] /\ OSTCBCur' \in Tasks
              /\ OSPrioCur' = OSTCBPrio'[OSTCBCur'] /\ OSPrioCur' \in OSRdyTbl'
         /\ OSLockNesting # 0 => UNCHANGED cpuVars
<1>1. Tasks' = Tasks /\ UNCHANGED <<OSTCBPrio, OSTCBPrioTbl>>
  BY DEF Plain, taskVars, Tasks
<1>2. PICK h : h = Highest(OSRdyTbl')
  OBVIOUS
<1>3. OSRdyTbl' \subseteq Prio /\ OSRdyTbl' # {}
  BY <1>1, TasksAre DEF Faithful, ReadyRow
<1>4. h \in OSRdyTbl'
  BY <1>2, <1>3, HighestIs
<1>5. PICK u \in Tasks : OSTCBPrio[u] = h
  BY <1>1, <1>4 DEF Faithful, ReadyRow
<1>6. OSTCBPrioTbl[h] = u /\ u \in OSTCBTbl
  BY <1>5, TasksAre DEF StageInv, TableInv, Numbered
<1>7. CASE OSLockNesting = 0 /\ h # OSPrioCur
  <2>1. OSPrioCur' = h /\ OSTCBCur' = u
    BY <1>2, <1>6, <1>7 DEF Switch
  <2> QED
    BY <1>1, <1>2, <1>4, <1>5, <1>6, <1>7, <2>1
<1>8. CASE OSLockNesting = 0 /\ h = OSPrioCur
  <2>1. UNCHANGED <<OSPrioCur, OSTCBCur>>
    BY <1>2, <1>8 DEF Switch, cpuVars
  <2>2. \A e \in Mutexes : ~Stale(e)
    BY <1>6, <1>8, CoreAssumption DEF Stale
  <2>3. OSTCBCur \in Tasks /\ OSTCBPrio[OSTCBCur] = h
    BY <1>8, <2>2 DEF StageInv, TableInv, Dispatched
  <2>4. OSTCBCur = u
    BY <1>5, <2>3, Unique DEF StageInv, TableInv
  <2> QED
    BY <1>1, <1>2, <1>4, <1>6, <1>8, <2>1, <2>3, <2>4
<1>9. CASE OSLockNesting # 0
  BY <1>9 DEF Switch
<1> QED
  BY <1>7, <1>8, <1>9

LEMMA SwitchKeeps ==
  ASSUME StageInv, Plain, Faithful, Switch(OSRdyTbl'), OSLockNesting' = OSLockNesting,
         deferred' \in BOOLEAN
  PROVE  /\ Numbered' /\ Owned' /\ Dispatched' /\ HighestRuns'
         /\ OSLockNesting = 0 => Ready(OSTCBCur)'
         /\ OSLockNesting # 0 => OSTCBCur' = OSTCBCur
<1>1. Tasks' = Tasks /\ UNCHANGED <<OSTCBPrio, OSTCBPrioTbl, OSMutexPIP>> /\ Mutexes' = Mutexes
  BY DEF Plain, taskVars, mutexVars, Tasks
<1>2. Numbered' /\ Owned'
  BY OwnedKept DEF Faithful
<1>3. OSLockNesting \in 0..255 /\ OSTCBCur \in Tasks
  BY DEF StageInv, TableInv, Dispatched
<1>4. CASE OSLockNesting = 0
  <2>1. /\ OSTCBCur' = OSTCBPrioTbl'[Highest(OSRdyTbl')] /\ OSTCBCur' \in Tasks
        /\ OSPrioCur' = OSTCBPrio'[OSTCBCur'] /\ OSPrioCur' \in OSRdyTbl'
    BY <1>4, SwitchFindsReady
  <2>2. Dispatched'
    BY <1>1, <1>3, <2>1 DEF Dispatched
  <2>3. HighestRuns'
    BY <2>1 DEF HighestRuns
  <2>4. Ready(OSTCBCur)'
    BY <2>1 DEF Ready
  <2> QED
    BY <1>2, <1>4, <2>2, <2>3, <2>4
<1>5. CASE OSLockNesting # 0
  <2>1. UNCHANGED <<OSTCBCur, OSPrioCur>>
    BY <1>5, SwitchFindsReady DEF cpuVars
  <2>2. HighestRuns'
    BY <1>5 DEF HighestRuns
  <2>3. ASSUME OSPrioCur = OSTCBPrio[OSTCBCur]
        PROVE  Dispatched'
    BY <1>1, <1>3, <2>1, <2>3 DEF Dispatched
  <2>4. ASSUME NEW e \in Mutexes, Stale(e)
        PROVE  Stale(e)'
    BY <1>1, <1>3, <1>5, <2>1, <2>4 DEF Stale, Raised
  <2>5. Dispatched'
    BY <1>1, <1>3, <2>1, <2>3, <2>4 DEF Dispatched, StageInv, TableInv
  <2> QED
    BY <1>2, <1>5, <2>1, <2>2, <2>5
<1> QED
  BY <1>4, <1>5

LEMMA TypedKept ==
  ASSUME StageInv, TypesKept,
         \A u \in OSTCBTbl : pc'[u] = "enter" => pc[u] = "enter" /\ call'[u] = call[u]
  PROVE  TypedCalls'
<1> SUFFICES ASSUME NEW u \in OSTCBTbl, pc'[u] = "enter"
             PROVE  RightType(call[u])' /\ call'[u] = call[u]
  BY DEF TypedCalls, RightType
<1>1. RightType(call[u]) /\ WellFormed(call[u])
  BY CallerIs DEF StageInv, TypedCalls
<1>2. TypeFor(call[u].op) # "none" => call[u].ev \in OSEventTblAll
  BY <1>1 DEF WellFormed
<1>3. TypeFor(call[u].op) # "UNUSED"
  BY DEF TypeFor
<1> QED
  BY <1>1, <1>2, <1>3 DEF RightType, TypesKept

(* The end of an interrupt.                                                *)
LEMMA ExitStage ==
  ASSUME StageInv, OSIntExit, Plain, TypesKept, Faithful,
         MutexesOf(OSTCBCur) # {} /\ Ready(OSTCBCur) => OSTCBPrio[OSTCBCur] \in OSRdyTbl'
  PROVE  StageInv'
<1>1. /\ UNCHANGED <<app, pc, call, code, OSLockNesting>> /\ Switch(OSRdyTbl') /\ deferred' \in BOOLEAN
      /\ Tasks' = Tasks /\ OSTCBPrio' = OSTCBPrio /\ Mutexes' = Mutexes
      /\ OSLockNesting \in 0..255
  BY DEF OSIntExit, ctlVars, StageInv, TableInv, Dispatched, Tasks, Plain, taskVars
<1>2. /\ Numbered' /\ Owned' /\ Dispatched' /\ HighestRuns'
      /\ OSLockNesting = 0 => Ready(OSTCBCur)'
      /\ OSLockNesting # 0 => OSTCBCur' = OSTCBCur
  BY <1>1, SwitchKeeps
<1>3. Controlled'
  BY <1>1 DEF StageInv, TableInv, Controlled
<1>4. OwnerCalls'
  BY <1>1 DEF StageInv, TableInv, OwnerCalls, Plain, Pending
<1>5. TypedCalls'
  BY <1>1, TypedKept
<1>6. Scheduled'
  <2>1. CASE OSLockNesting = 0
    BY <1>1, <1>2, <2>1 DEF Scheduled
  <2>2. CASE OSLockNesting # 0
    <3>1. OSTCBCur' = OSTCBCur /\ OSLockNesting > 0
      BY <1>1, <1>2, <2>2
    <3>2. /\ \E c \in app.calls[OSTCBCur] : c.op = "SchedLock"
          /\ ~Pending(OSTCBCur)
          /\ pc[OSTCBCur] = "enter" => call[OSTCBCur].op \notin PendOps
          /\ MutexesOf(OSTCBCur) # {} => Ready(OSTCBCur)
      BY <3>1 DEF StageInv, Scheduled
    <3>3. PICK u : u = OSTCBCur
      OBVIOUS
    <3>4. MutexesOf(u)' = MutexesOf(u) /\ (MutexesOf(u) # {} => Ready(u)')
      BY <1>1, <3>2, <3>3 DEF MutexesOf, Ready
    <3> QED
      BY <1>1, <3>1, <3>2, <3>3, <3>4 DEF Scheduled, Pending
  <2> QED
    BY <2>1, <2>2
<1> QED
  BY <1>2, <1>3, <1>4, <1>5, <1>6 DEF StageInv, TableInv, Faithful

LEMMA RescheduleStage ==
  ASSUME StageInv, NEW t \in OSTCBTbl, Reschedule(t)
  PROVE  StageInv'
<1>1. /\ OSTCBCur = t /\ pc[t] \in {"sched", "pend"} /\ Switch(OSRdyTbl)
      /\ pc' = [pc EXCEPT ![t] = IF @ = "pend" THEN "resume" ELSE "app"]
      /\ UNCHANGED <<app, call, code, OSLockNesting, taskVars, waitVars, mutexVars, OSTCBFlagNode,
                     OSEventType, OSEventPtr>>
      /\ deferred' = (deferred /\ OSLockNesting > 0)
  BY DEF Reschedule, OS_Sched, flagVars, dataVars, eventVars
<1>2. /\ t \in Tasks /\ pc'[t] \in {"resume", "app"} /\ pc = [u \in OSTCBTbl |-> pc[u]]
      /\ pc[t] # "pend" => pc'[t] = "app"
      /\ pc[t] = "pend" => pc'[t] = "resume"
      /\ \A u \in OSTCBTbl : u # t => pc'[u] = pc[u]
      /\ OSLockNesting \in 0..255 /\ deferred' \in BOOLEAN /\ OSRdyTbl' = OSRdyTbl
      /\ Tasks' = Tasks /\ Mutexes' = Mutexes /\ Tasks \subseteq OSTCBTbl
  BY <1>1, TasksAre DEF StageInv, TableInv, Controlled, Dispatched, waitVars, Tasks, Mutexes
<1>3. \A u \in OSTCBTbl : CtlKept(u) /\ (Pending(u)' <=> Pending(u))
  BY <1>1, <1>2 DEF CtlKept, Pending
<1>4. Kept
  BY <1>1, <1>2, <1>3 DEF Kept, TypesKept, StageInv, DataInv, Arrays
<1>5. Faithful
  BY <1>1, <1>4, OtherFine
<1>6. Plain
  BY <1>1, <1>2, <1>4 DEF Plain, Kept, StageInv, TableInv, Owned
<1>7. /\ Numbered' /\ Owned' /\ Dispatched' /\ HighestRuns'
      /\ OSLockNesting = 0 => Ready(OSTCBCur)'
      /\ OSLockNesting # 0 => OSTCBCur' = OSTCBCur
  BY <1>1, <1>2, <1>5, <1>6, SwitchKeeps
<1>8. Controlled'
  BY <1>1, <1>2 DEF StageInv, TableInv, Controlled
<1>9. OwnerCalls'
  <2> SUFFICES ASSUME NEW e \in Mutexes, OSEventPtr[e] # NULL
               PROVE  /\ pc'[OSEventPtr[e]] # "enter" \/ call[OSEventPtr[e]].op \notin PendOps
                      /\ Pending(OSEventPtr[e])' =>
                           call[OSEventPtr[e]].op = "MutexPend" /\ call[OSEventPtr[e]].ev = e
    BY <1>1, <1>2 DEF OwnerCalls, Pending
  <2>1. PICK o : o = OSEventPtr[e]
    OBVIOUS
  <2>2. /\ o \in OSTCBTbl /\ (pc[o] = "enter" => call[o].op \notin PendOps)
        /\ Pending(o) => call[o].op = "MutexPend" /\ call[o].ev = e
    BY <2>1, OwnerFree, TasksAre DEF StageInv, TableInv, OwnerCalls
  <2>3. pc'[o] = "enter" => pc[o] = "enter"
    BY <1>2, <2>2
  <2>4. Pending(OSEventPtr[e])' <=> Pending(o)'
    BY <1>1, <2>1 DEF Pending
  <2> QED
    BY <1>3, <2>1, <2>2, <2>3, <2>4
<1>10. TypedCalls'
  BY <1>1, <1>2, <1>4, TypedKept DEF Kept
<1>11. Scheduled'
  <2>1. CASE OSLockNesting = 0
    BY <1>1, <1>7, <2>1 DEF Scheduled
  <2>2. CASE OSLockNesting # 0
    <3>1. OSTCBCur' = t /\ OSLockNesting > 0 /\ OSLockNesting' # 0
      BY <1>1, <1>2, <1>7, <2>2
    <3>2. /\ \E c \in app.calls[t] : c.op = "SchedLock"
          /\ ~Pending(t)
          /\ MutexesOf(t) # {} => Ready(t)
      BY <1>1, <3>1 DEF StageInv, Scheduled
    <3>3. pc'[t] = "app" /\ ~Pending(t)'
      BY <1>2, <1>3, <3>2 DEF Pending
    <3>4. MutexesOf(t)' = MutexesOf(t) /\ (Ready(t)' <=> Ready(t))
      BY <1>1, <1>2 DEF MutexesOf, Ready, taskVars
    <3>5. /\ \E c \in app'.calls[t] : c.op = "SchedLock"
          /\ MutexesOf(t)' # {} => Ready(t)'
      BY <1>1, <3>2, <3>4
    <3> QED
      BY <3>1, <3>3, <3>5 DEF Scheduled, Pending
  <2> QED
    BY <2>1, <2>2
<1> QED
  BY <1>5, <1>7, <1>8, <1>9, <1>10, <1>11 DEF StageInv, TableInv, Faithful

LEMMA CallStage ==
  ASSUME StageInv, NEW t \in OSTCBTbl, Call(t)
  PROVE  StageInv'
<1>1. PICK c \in app.calls[code[t]] :
        Accepted(c) /\ Permitted(t, c) /\ call' = [call EXCEPT ![t] = c]
  BY DEF Call
<1>2. /\ pc' = [pc EXCEPT ![t] = "enter"] /\ pc[t] = "app" /\ OSTCBCur = t
      /\ UNCHANGED <<app, code, taskVars, waitVars, mutexVars, OSTCBFlagNode, OSEventType, OSEventPtr,
                     OSLockNesting, OSTCBCur, OSPrioCur, deferred>>
  BY DEF Call, Running, flagVars, dataVars, eventVars, schedVars, cpuVars, histVars
<1>3. /\ t \in Tasks /\ c \in app.calls[t] /\ Tasks' = Tasks /\ Mutexes' = Mutexes
      /\ pc = [u \in OSTCBTbl |-> pc[u]] /\ call = [u \in OSTCBTbl |-> call[u]]
      /\ pc'[t] = "enter" /\ call'[t] = c
      /\ \A u \in OSTCBTbl : u # t => pc'[u] = pc[u] /\ call'[u] = call[u]
  BY <1>1, <1>2 DEF StageInv, TableInv, Controlled, Tasks, Mutexes
<1>4. \A u \in Tasks : CtlKept(u)
  BY <1>1, <1>2, <1>3, ReturnsKeep DEF Pending
<1>5. Kept
  BY <1>2, <1>4 DEF Kept, TypesKept, StageInv, DataInv, Arrays
<1>6. Faithful
  BY <1>2, <1>5, OtherFine
<1>7. Plain
  BY <1>2, <1>3, <1>5 DEF Plain, Kept, StageInv, TableInv, Owned
<1>8. Numbered' /\ Owned'
  BY <1>6, <1>7, OwnedKept DEF Faithful
<1>9. Controlled'
  BY <1>1, <1>2, <1>3 DEF StageInv, TableInv, Controlled
<1>10. OwnerCalls'
  <2> SUFFICES ASSUME NEW e \in Mutexes, OSEventPtr[e] # NULL, NEW o, o = OSEventPtr[e]
               PROVE  /\ pc'[o] = "enter" => call'[o].op \notin PendOps
                      /\ Pending(o)' => call'[o].op = "MutexPend" /\ call'[o].ev = e
    BY <1>2, <1>3 DEF OwnerCalls, Pending
  <2>1. /\ o \in OSTCBTbl /\ (pc[o] = "enter" => call[o].op \notin PendOps)
        /\ Pending(o) => call[o].op = "MutexPend" /\ call[o].ev = e
    BY OwnerFree, TasksAre DEF StageInv, TableInv, OwnerCalls
  <2>2. CASE o = t
    <3>1. OwnsMutex(t)
      BY <2>2 DEF OwnsMutex, Mutexes
    <3> QED
      BY <1>1, <1>3, <2>2, <3>1 DEF Permitted, Pending
  <2>3. CASE o # t
    BY <1>3, <2>1, <2>3 DEF Pending
  <2> QED
    BY <2>2, <2>3
<1>11. TypedCalls'
  BY <1>1, <1>2, <1>3 DEF StageInv, TypedCalls, RightType, Accepted
<1>12. Scheduled'
  <2>1. OSLockNesting = 0 => Ready(t)
    BY <1>2 DEF StageInv, Scheduled
  <2>2. OSLockNesting > 0 =>
          /\ \E d \in app.calls[t] : d.op = "SchedLock"
          /\ MutexesOf(t) # {} => Ready(t)
          /\ c.op \notin PendOps
    BY <1>1, <1>2 DEF StageInv, Scheduled, Accepted
  <2>3. (Ready(t)' <=> Ready(t)) /\ MutexesOf(t)' = MutexesOf(t)
    BY <1>2 DEF Ready, MutexesOf, waitVars, taskVars
  <2> QED
    BY <1>2, <1>3, <2>1, <2>2, <2>3 DEF Scheduled, Pending
<1>13. HighestRuns'
  BY <1>2 DEF StageInv, HighestRuns, taskVars, waitVars
<1>14. Dispatched'
  <2>1. ASSUME NEW e \in Mutexes, Stale(e)
        PROVE  Stale(e)'
    BY <1>2, <2>1 DEF Stale, Raised, taskVars, mutexVars
  <2>2. OSTCBPrio' = OSTCBPrio
    BY <1>2 DEF taskVars
  <2> QED
    BY <1>2, <1>3, <2>1, <2>2 DEF Dispatched, StageInv, TableInv
<1> QED
  BY <1>6, <1>8, <1>9, <1>10, <1>11, <1>12, <1>13, <1>14 DEF StageInv, TableInv, Faithful

LEMMA StageStep ==
  ASSUME Discipline, StageInv, NEW t \in OSTCBTbl, Step(t)
  PROVE  StageInv'
<1>1. Call(t) \/ CommonSection(t) \/ TaskSection(t) \/ LaterSection(t) \/ Reschedule(t)
  BY DEF Step
<1> QED
  BY <1>1, CallStage, CommonStage, SectionStage, LaterStage, RescheduleStage

LEMMA StageNext ==
  ASSUME Discipline, StageInv, [Next]_vars
  PROVE  StageInv'
<1>1. ASSUME OSIntExit
      PROVE  app' = app /\ \A u \in Tasks : CtlKept(u)
  BY <1>1 DEF OSIntExit, ctlVars, CtlKept, Pending
<1>2. CASE Tick
  <2>1. UNCHANGED <<OSEventType, OSEventPtr, taskVars, mutexVars, OSTCBFlagNode>> /\ OSTimeTick /\ OSIntExit
    BY <1>2 DEF Tick, OSTimeTick, eventVars, flagVars
  <2>2. Kept
    BY <1>1, <2>1 DEF Kept, TypesKept, StageInv, DataInv, Arrays
  <2>3. Faithful
    BY <2>1, <2>2, TickFine
  <2>4. Plain
    BY <2>1, <2>2 DEF Plain, Kept, StageInv, TableInv, Owned, Mutexes
  <2>5. OSRdyTbl \subseteq OSRdyTbl'
    BY <2>1 DEF OSTimeTick
  <2> QED
    BY <2>1, <2>2, <2>3, <2>4, <2>5, ExitStage DEF Kept, Ready
<1>3. CASE Interrupt
  <2>1. PICK c \in app.isr : Accepted(c) /\ Common(c) /\ OSIntExit
    BY <1>3 DEF Interrupt
  <2>2. WellFormed(c) /\ RightType(c) /\ c \in AllCalls
    BY <2>1, TasksAre, TasksArePrios DEF Accepted, RightType, AllCalls
  <2>3. Faithful /\ UNCHANGED <<taskVars, mutexVars, OSEventType>>
    BY <1>1, <2>1, <2>2, CommonFine
  <2>4. Plain /\ TypesKept
    BY <1>1, <2>1, <2>2, <2>3, CommonPlain DEF TypesKept
  <2>5. ASSUME MutexesOf(OSTCBCur) # {}, Ready(OSTCBCur)
        PROVE  OSTCBPrio[OSTCBCur] \in OSRdyTbl'
    <3>1. CASE OSRdyTbl \subseteq OSRdyTbl'
      BY <2>5, <3>1 DEF Ready
    <3>2. CASE /\ c.prio \in Tasks /\ MutexesOf(c.prio) = {} /\ OSTCBPrio[c.prio] = c.prio
               /\ OSRdyTbl' = OSRdyTbl \ {c.prio}
      <4>1. OSTCBCur \in Tasks
        BY DEF StageInv, TableInv, Dispatched
      <4>2. OSTCBPrio[OSTCBCur] # c.prio
        BY <2>5, <3>2, <4>1, Unique DEF StageInv, TableInv
      <4> QED
        BY <2>5, <3>2, <4>2 DEF Ready
    <3> QED
      BY <2>1, <2>2, <3>1, <3>2, CommonReadies
  <2> QED
    BY <2>1, <2>3, <2>4, <2>5, ExitStage
<1>4. CASE \E t \in OSTCBTbl : Step(t)
  BY <1>4, StageStep
<1>5. CASE UNCHANGED vars
  <2>1. UNCHANGED <<app, pc, call, code, OSTCBCur, OSPrioCur, OSLockNesting, deferred, OSEventType,
                    OSEventPtr, taskVars, waitVars, mutexVars, OSTCBFlagNode>>
    BY <1>5 DEF vars, ctlVars, schedVars, cpuVars, dataVars, eventVars, flagVars, histVars
  <2>2. Kept /\ Tasks' = Tasks /\ Mutexes' = Mutexes
    BY <2>1 DEF Kept, TypesKept, CtlKept, Pending, StageInv, DataInv, Arrays, Tasks, Mutexes
  <2>3. Faithful
    BY <2>1, <2>2, OtherFine
  <2>4. Plain
    BY <2>1, <2>2 DEF Plain, Kept, StageInv, TableInv, Owned
  <2>5. Numbered' /\ Owned'
    BY <2>3, <2>4, OwnedKept DEF Faithful
  <2>6. Controlled' /\ OwnerCalls'
    BY <2>1, <2>2 DEF StageInv, TableInv, Controlled, OwnerCalls, Pending
  <2>7. TypedCalls' /\ HighestRuns'
    BY <2>1 DEF StageInv, TypedCalls, RightType, HighestRuns, taskVars, waitVars
  <2>8. Scheduled'
    BY <2>1 DEF StageInv, Scheduled, Pending, Ready, MutexesOf, taskVars, waitVars
  <2>9. Dispatched'
    <3>1. ASSUME NEW e \in Mutexes, Stale(e)
          PROVE  Stale(e)'
      BY <2>1, <3>1 DEF Stale, Raised, taskVars, mutexVars
    <3>2. OSTCBPrio' = OSTCBPrio
      BY <2>1 DEF taskVars
    <3> QED
      BY <2>1, <2>2, <3>1, <3>2 DEF Dispatched, StageInv, TableInv
  <2> QED
    BY <2>3, <2>5, <2>6, <2>7, <2>8, <2>9 DEF StageInv, TableInv, Faithful
<1> QED
  BY <1>2, <1>3, <1>4, <1>5 DEF Next

LEMMA StageInit ==
  ASSUME Init
  PROVE  StageInv
<1>1. /\ app \in Apps /\ Tasks \subseteq OSTCBTbl /\ Tasks \subseteq Prio /\ Idle \in Tasks
      /\ \A e \in OSEventTblAll : OSEventTbl[e] = {}
      /\ \A t \in OSTCBTbl : OSTCBFlagNode[t] = NULL
      /\ OSTCBTbl \subseteq Prio /\ NULL \notin OSTCBTbl /\ OS_TCB_RESERVED \notin OSTCBTbl \cup {NULL}
  BY TasksArePrios, CoreAssumption DEF Init, FlagInit
<1>2. /\ OSTCBPrio = [t \in OSTCBTbl |-> t] /\ OSRdyTbl = Tasks
      /\ OSTCBCur = Highest(Tasks) /\ OSPrioCur = Highest(Tasks) /\ OSLockNesting = 0
  BY DEF Init, Tasks
<1>3. Highest(Tasks) \in Tasks
  BY <1>1, HighestIs
<1>4. Controlled
  BY <1>1 DEF Init, Controlled, Tasks
<1>5. OSTCBPrioTbl = [p \in Prio |->
        IF p \in Tasks THEN p
        ELSE IF \E e \in OSEventTblAll : app.event[e].type = "MUTEX" /\ app.event[e].pip = p
          THEN OS_TCB_RESERVED ELSE NULL]
  BY DEF Init, Tasks
<1>6. Numbered
  <2>1. /\ \A t \in Tasks : OSTCBPrioTbl[t] = t /\ OSTCBPrio[t] = t
        /\ \A p \in Prio : OSTCBPrioTbl[p] \in OSTCBTbl => p \in Tasks /\ OSTCBPrioTbl[p] = p
    BY <1>1, <1>2, <1>5
  <2>2. OSTCBPrio \in [OSTCBTbl -> Prio] /\ OSTCBPrioTbl = [p \in Prio |-> OSTCBPrioTbl[p]]
    BY <1>1, <1>2, <1>5
  <2> QED
    BY <2>1, <2>2 DEF Numbered
<1>7. /\ OSEventPtr = [e \in OSEventTblAll |-> NULL] /\ OSOwnerPrio = [e \in OSEventTblAll |-> NULL]
      /\ OSMutexPIP = [e \in OSEventTblAll |-> app.event[e].pip]
      /\ OSEventType = [e \in OSEventTblAll |-> app.event[e].type]
      /\ OSEventTbl = [e \in OSEventTblAll |-> {}]
      /\ OSTCBStat = [t \in OSTCBTbl |-> {}]
  BY DEF Init
<1>8. ASSUME NEW e \in Mutexes
      PROVE  Mutex(e) /\ OSMutexPIP[e] = app.event[e].pip /\ app.event[e].type = "MUTEX"
  <2>1. e \in OSEventTblAll /\ app.event[e].type = "MUTEX" /\ OSMutexPIP[e] = app.event[e].pip
    BY <1>7 DEF Mutexes
  <2>2. EventFormed(app.event[e]) /\ PipsFormed(app)
    BY <1>1, <2>1, AppsAssumption
  <2>3. app.event[e].pip \in Prio /\ app.event[e].pip \notin Tasks
    BY <2>1, <2>2 DEF EventFormed, PipsFormed, Tasks
  <2>4. OSTCBPrioTbl[app.event[e].pip] = OS_TCB_RESERVED
    BY <1>5, <2>1, <2>3
  <2>5. app.event[e].pip \in Pips(e)
    BY <2>1 DEF Pips
  <2> QED
    BY <1>1, <1>7, <2>1, <2>3, <2>4, <2>5 DEF Mutex
<1>9. Owned
  <2>1. \A e \in Mutexes, f \in Mutexes : e # f => OSMutexPIP[e] # OSMutexPIP[f]
    <3>1. PipsFormed(app)
      BY <1>1, AppsAssumption
    <3> QED
      BY <1>8, <3>1 DEF PipsFormed, Mutexes
  <2>2. \A e \in Mutexes : OSEventPtr[e] = NULL
    BY <1>7 DEF Mutexes
  <2>3. \A t \in Tasks : ~Raised(t) /\ ~Suspended(t)
    BY <1>1, <1>2, <1>7 DEF Raised, Suspended
  <2>4. /\ OSEventPtr = [e \in OSEventTblAll |-> OSEventPtr[e]]
        /\ OSMutexPIP = [e \in OSEventTblAll |-> OSMutexPIP[e]]
        /\ OSOwnerPrio = [e \in OSEventTblAll |-> OSOwnerPrio[e]]
    BY <1>7
  <2> QED
    BY <1>8, <2>1, <2>2, <2>3, <2>4 DEF Owned
<1>10. OwnerCalls
  BY <1>7 DEF OwnerCalls, Mutexes
<1>11. ReadyRow /\ HighestRuns
  <2>1. ReadyRow
    BY <1>1, <1>2 DEF ReadyRow
  <2>2. HighestRuns
    BY <1>1, <1>2, <1>3, <1>5 DEF HighestRuns
  <2> QED
    BY <2>1, <2>2
<1>12. ListRows
  <2>1. \A t \in OSTCBTbl : OSTCBDly[t] = 0
    BY DEF Init
  <2>2. OSTCBFlagNode = [t \in OSTCBTbl |-> OSTCBFlagNode[t]]
    BY DEF Init, FlagInit
  <2> QED
    BY <1>1, <1>7, <2>1, <2>2 DEF ListRows
<1>13. Dispatched
  <2>1. deferred = FALSE
    BY Zenon DEF Init
  <2>2. OSLockNesting \in 0..255
    BY <1>2
  <2>4. deferred \in BOOLEAN
    BY <2>1
  <2>3. OSPrioCur = OSTCBPrio[OSTCBCur]
    BY <1>1, <1>2, <1>3
  <2> QED
    BY <1>2, <1>3, <2>2, <2>3, <2>4 DEF Dispatched
<1>14. Arrays
  <2>1. OSTCBDly = [t \in OSTCBTbl |-> 0]
    BY DEF Init
  <2>2. OSTCBDly \in [OSTCBTbl -> Nat]
    BY <2>1
  <2> QED
    BY <2>2 DEF Init, Arrays
<1>15. ASSUME NEW t \in Tasks
       PROVE  Placed(t) /\ AtWork(t)
  <2>1. pc[t] = "app" /\ ~Pending(t) /\ ~OnEvent(t)
    BY <1>1 DEF Init, Tasks, Pending, OnEvent
  <2>2. /\ OSTCBStat[t] = {} /\ OSTCBStatPend[t] = "OK" /\ OSTCBDly[t] = 0
        /\ OSTCBEventPtr[t] = NULL /\ OSTCBEventMultiPtr[t] = {}
    BY <1>1 DEF Init, Tasks
  <2>3. ~Queued(t) /\ Ready(t)
    BY <1>1, <1>2 DEF Queued, Ready
  <2> QED
    BY <1>1, <2>1, <2>2, <2>3 DEF Placed, AtWork, Suspended
<1>16. TypedCalls
  BY DEF Init, TypedCalls
<1>17. Scheduled
  BY <1>1, <1>2, <1>3 DEF Scheduled, Ready
<1> QED
  BY <1>4, <1>6, <1>9, <1>10, <1>11, <1>12, <1>13, <1>14, <1>15, <1>16, <1>17
     DEF StageInv, TableInv, DataInv, Stages, Staged

(* No step changes the application.                                        *)
LEMMA SectionKeepsApp ==
  ASSUME NEW t, TaskSection(t)
  PROVE  app' = app
<1> DEFINE c == call[t]
<1> USE DEF Return, ReturnUnscheduled
<1>1. CASE OSSemPend(t, c.ev, c.timeout) \/ OSMboxPend(t, c.ev, c.timeout) \/ OSQPend(t, c.ev, c.timeout)
  BY <1>1 DEF OSSemPend, OSMboxPend, OSQPend, OS_EventTaskWait
<1>2. CASE OSSemCreate(t, c.ev, c.cnt) \/ OSMboxCreate(t, c.ev, c.msg) \/ OSQCreate(t, c.ev)
  BY <1>2 DEF OSSemCreate, OSMboxCreate, OSQCreate, EventCreate
<1>3. CASE OSSemDel(t, c.ev, c.all) \/ OSMboxDel(t, c.ev, c.all) \/ OSQDel(t, c.ev, c.all)
  BY <1>3 DEF OSSemDel, OSMboxDel, OSQDel, EventDel
<1>4. CASE OSEventPendMulti(t, c.evs, c.timeout)
  BY <1>4 DEF OSEventPendMulti, OS_EventTaskWaitMulti
<1>5. CASE \/ OSFlagPend(t, c.wait, c.timeout) \/ OSFlagCreate(t, c.grp, c.flags)
           \/ OSFlagDel(t, c.grp, c.all)
  BY <1>5 DEF OSFlagPend, OSFlagCreate, OSFlagDel, OS_FlagBlock
<1>6. CASE \/ OSMutexAccept(t, c.ev) \/ OSMutexPend(t, c.ev, c.timeout) \/ OSMutexPost(t, c.ev)
           \/ OSMutexCreate(t, c.ev, c.pip) \/ OSMutexDel(t, c.ev, c.all)
  BY <1>6 DEF OSMutexAccept, OSMutexPend, MutexWait, OSMutexPost, OSMutexCreate, OSMutexDel
<1>7. CASE \/ OSTimeDly(t, c.timeout) \/ OSTaskChangePrio(t, c.prio, c.newprio) \/ OSTaskCreate(t, c.prio)
           \/ OSTaskDel(t, c.prio) \/ OSTaskDelReq(t, c.prio) \/ OSSchedLock(t) \/ OSSchedUnlock(t)
  BY <1>7 DEF OSTimeDly, OSTaskChangePrio, OSTaskCreate, OSTaskDel, OSTaskDelReq, OSSchedLock, OSSchedUnlock
<1> HIDE DEF c
<1> QED
  BY <1>1, <1>2, <1>3, <1>4, <1>5, <1>6, <1>7 DEF TaskSection, c

LEMMA NextKeepsApp == [Next]_vars => app' = app
<1> SUFFICES ASSUME [Next]_vars PROVE app' = app
  OBVIOUS
<1>1. CASE Tick \/ Interrupt
  BY <1>1 DEF Tick, Interrupt, OSIntExit
<1>2. ASSUME NEW t \in OSTCBTbl, Step(t)
      PROVE  app' = app
  <2>1. CASE Call(t) \/ CommonSection(t)
    BY <2>1 DEF Call, CommonSection, Return, ReturnUnscheduled
  <2>2. CASE TaskSection(t)
    BY <2>2, SectionKeepsApp
  <2>3. CASE LaterSection(t)
    BY <2>3 DEF LaterSection, PendReturn, PendMultiReturn, FlagPendReturn, TCBInitTake, TCBInitLink,
                TaskDelEnd, Return
  <2>4. CASE Reschedule(t)
    BY <2>4 DEF Reschedule, OS_Sched
  <2> QED
    BY <1>2, <2>1, <2>2, <2>3, <2>4 DEF Step
<1>3. CASE UNCHANGED vars
  BY <1>3 DEF vars
<1> QED
  BY <1>1, <1>2, <1>3 DEF Next

LEMMA DisciplineKept == Discipline /\ [Next]_vars => Discipline'
<1> SUFFICES ASSUME Discipline, [Next]_vars PROVE Discipline'
  OBVIOUS
<1>1. app' = app
  BY NextKeepsApp
<1>2. AllCalls' = AllCalls /\ \A p : MutexesOf(p)' = MutexesOf(p) /\ Accepts(p)' = Accepts(p)
  BY <1>1 DEF AllCalls, MutexesOf, Accepts
<1>3. \A e : Pips(e)' = Pips(e)
  BY <1>1, <1>2 DEF Pips
<1> QED
  BY <1>1, <1>2, <1>3 DEF Discipline

LEMMA StagesSay ==
  ASSUME StageInv
  PROVE  ReadyIffRunnable /\ WaitListsExact /\ OwnerOutranksWaiters /\ HighestRuns
<1>1. /\ Tasks \subseteq OSTCBTbl /\ Tasks \subseteq Prio /\ OSTCBTbl \subseteq Prio
      /\ \A t \in Tasks : Placed(t) /\ Staged(t) /\ OSTCBPrio[t] \in Prio
  BY TasksAre DEF StageInv, DataInv, Stages
<1>2. \A t \in OSTCBTbl : Live(t) <=> t \in Tasks
  <2> SUFFICES ASSUME NEW t \in OSTCBTbl
               PROVE  Live(t) <=> t \in Tasks
    OBVIOUS
  <2>1. t \in Tasks => OSTCBPrioTbl[OSTCBPrio[t]] = t
    BY DEF StageInv, TableInv, Numbered
  <2>2. pc[t] # "delete" /\ (pc[t] # "free" <=> t \in Tasks)
    BY DEF StageInv, TableInv, Controlled
  <2> QED
    BY <2>1, <2>2 DEF Live
<1>3. ASSUME NEW t \in Tasks
      PROVE  Listed(t) <=> Queued(t)
  <2>1. CASE Raised(t)
    <3>1. PICK e \in Mutexes : OSEventPtr[e] = t /\ OSTCBPrio[t] = OSMutexPIP[e]
      BY <2>1 DEF StageInv, TableInv, Owned
    <3>2. OSEventPtr[e] # NULL
      BY <1>1, <3>1, TasksAre
    <3>3. ~Queued(t)
      BY <3>1, <3>2, OwnerFree
    <3>4. OSTCBPrio[t] \notin Tasks
      BY <3>1 DEF StageInv, TableInv, Owned, Mutex
    <3>5. \A f \in OSEventTblAll : OSEventTbl[f] \subseteq Tasks
      BY DEF StageInv, TableInv, ListRows
    <3> QED
      BY <3>3, <3>4, <3>5 DEF Listed, Queued
  <2>2. CASE ~Raised(t)
    BY <2>2 DEF Raised, Listed, Queued
  <2> QED
    BY <2>1, <2>2
<1>4. ASSUME NEW t \in Tasks
      PROVE  Ready(t) <=> "SUSPEND" \notin OSTCBStat[t] /\ OSTCBDly[t] = 0 /\ ~Waits(t)
  <2>1. CASE AtWork(t)
    BY <1>3, <2>1 DEF AtWork, Waits, Suspended
  <2>2. CASE Waiting(t)
    BY <1>3, <2>2 DEF Waiting, Waits
  <2>3. CASE TimedOut(t)
    BY <1>3, <2>3 DEF TimedOut, Waits, Suspended
  <2>4. CASE Answered(t)
    BY <1>3, <2>4 DEF Answered, Waits, Suspended
  <2> QED
    BY <1>1, <2>1, <2>2, <2>3, <2>4 DEF Staged
<1>5. ReadyIffRunnable
  <2>1. \A p \in OSRdyTbl : \E t \in Tasks : OSTCBPrio[t] = p
    BY DEF StageInv, TableInv, ReadyRow
  <2> QED
    BY <1>1, <1>2, <1>4, <2>1 DEF ReadyIffRunnable, Ready
<1>6. ASSUME NEW e \in OSEventTblAll, NEW p \in OSEventTbl[e]
      PROVE  /\ p \in OSTCBTbl /\ Live(p) /\ OSTCBPrio[p] = p
             /\ Pending(p) /\ e \in Waitees(p) /\ OSTCBStatPend[p] # "ABORT"
  <2>1. p \in Tasks /\ Queued(p)
    BY ListsAre
  <2>2. OSTCBPrio[p] = p /\ Placed(p) /\ Staged(p)
    BY <1>1, <2>1, WaitersUnraised
  <2>3. Pending(p) /\ call[p].op \in EventPends /\ call[p].ev = e
    BY <2>2 DEF Placed, OnEvent
  <2>4. OSTCBStatPend[p] # "ABORT"
    BY <2>1, <2>2 DEF Staged, AtWork, Waiting, TimedOut, Answered
  <2> QED
    BY <1>1, <1>2, <2>1, <2>2, <2>3, <2>4 DEF Waitees, EventPends
<1>7. WaitListsExact
  BY <1>6 DEF WaitListsExact
<1>8. OwnerOutranksWaiters
  <2> SUFFICES ASSUME NEW e \in OSEventTblAll, OSEventType[e] = "MUTEX"
               PROVE  /\ Waited(e) => OSEventPtr[e] # NULL
                      /\ OSEventPtr[e] # NULL =>
                           /\ Live(OSEventPtr[e])
                           /\ \A p \in OSEventTbl[e] : OSTCBPrio[OSEventPtr[e]] < p
    BY DEF OwnerOutranksWaiters
  <2>1. Mutex(e)
    BY DEF StageInv, TableInv, Owned, Mutexes
  <2>2. Waited(e) => OSEventPtr[e] # NULL
    BY <2>1 DEF Mutex, Waited
  <2>3. OSEventPtr[e] # NULL => Owns(OSEventPtr[e], e)
    BY <2>1 DEF Mutex
  <2> QED
    BY <1>1, <1>2, <2>2, <2>3 DEF Owns
<1> QED
  BY <1>5, <1>7, <1>8 DEF StageInv

LEMMA StagesLast == Spec /\ Discipline => []StageInv
<1> DEFINE Inv == Discipline /\ StageInv
<1>1. Init /\ Discipline => Inv
  BY StageInit
<1>2. Inv /\ [Next]_vars => Inv'
  BY StageNext, DisciplineKept
<1>3. Inv => StageInv
  OBVIOUS
<1> HIDE DEF Inv
<1> QED
  BY <1>1, <1>2, <1>3, PTL DEF Spec

(* The owner of a mutex is a live task above every task that waits for it, *)
(* and nobody waits for a free one, whoever is raised, handed the mutex,   *)
(* timed out or aborted meanwhile (os_mutex.c).                            *)
THEOREM OwnerOutranksWaitersCorrect == Spec /\ Discipline => []OwnerOutranksWaiters
<1>1. StageInv => OwnerOutranksWaiters
  BY StagesSay
<1> QED
  BY <1>1, StagesLast, PTL

(* The ready table is exact although mutexes move tasks between            *)
(* priorities: each task is in it, under the priority it has at the time,  *)
(* exactly when nothing holds it (OS_SchedNew, OSMutex_RdyAtPrio).         *)
THEOREM ReadyIffRunnableCorrect == Spec /\ Discipline => []ReadyIffRunnable
<1>1. StageInv => ReadyIffRunnable
  BY StagesSay
<1> QED
  BY <1>1, StagesLast, PTL

(* A wait list names only tasks inside a pend on its event, although       *)
(* owners of mutexes change the priority under which lists are kept        *)
(* (os_core.c, os_mutex.c).                                                *)
THEOREM WaitListsExactCorrect == Spec /\ Discipline => []WaitListsExact
<1>1. StageInv => WaitListsExact
  BY StagesSay
<1> QED
  BY <1>1, StagesLast, PTL

(* The processor has the highest ready task although a task may have been  *)
(* raised or put back since the last switch, so that OSPrioCur is not its  *)
(* priority any more (OS_Sched, OSIntExit).                                *)
THEOREM HighestRunsWithMutexes == Spec /\ Discipline => []HighestRuns
<1>1. StageInv => HighestRuns
  BY StagesSay
<1> QED
  BY <1>1, StagesLast, PTL

-----------------------------------------------------------------------------
(* Nothing is lost                                                         *)

(* Task t has been given e, and its pend has not returned yet.             *)
Given(t, e) ==
  Pending(t) /\ OSTCBStatPend[t] = "OK" /\ OSTCBEventPtr[t] = e /\ t \notin OSEventTbl[e]

Goods ==
  /\ credit \in [OSEventTblAll -> Int]
  /\ OSEventCnt \in [OSEventTblAll -> Nat]
  /\ OSEventPtr = [e \in OSEventTblAll |-> OSEventPtr[e]]
  /\ OSQEntries \in [OSEventTblAll -> Nat]

Stock(e) ==
  /\ credit[e] = Held(e) + Cardinality(Granted(e))
  /\ Waited(e) => Held(e) = 0

StockInv == Goods /\ \A e \in OSEventTblAll : Stock(e)

LEMMA HeldIs ==
  /\ Goods => \A e \in OSEventTblAll : Held(e) \in Nat
  /\ Goods' => \A e \in OSEventTblAll : Held(e)' \in Nat
BY DEF Goods, Held

LEMMA TasksFinite ==
  ASSUME StageInv
  PROVE  IsFiniteSet(Tasks)
<1>1. IsFiniteSet(Prio)
  BY CoreAssumption, FS_Interval DEF Prio
<1> QED
  BY <1>1, TasksAre, FS_Subset

(* Owners of mutexes are in no list, so lists have tasks by their names.    *)
LEMMA ListedAsNamed ==
  StageInv => \A t \in Tasks : /\ t \in OSTCBTbl
                              /\ \A e \in OSEventTblAll : OSTCBPrio[t] \in OSEventTbl[e] <=> t \in OSEventTbl[e]
<1> SUFFICES ASSUME StageInv, NEW t \in Tasks, NEW e \in OSEventTblAll
             PROVE  OSTCBPrio[t] \in OSEventTbl[e] <=> t \in OSEventTbl[e]
  BY TasksAre
<1>1. ASSUME t \in OSEventTbl[e]
      PROVE  OSTCBPrio[t] = t
  BY <1>1, WaitersUnraised DEF Queued
<1>2. ASSUME OSTCBPrio[t] \in OSEventTbl[e]
      PROVE  OSTCBPrio[t] = t
  <2>1. PICK p : p = OSTCBPrio[t]
    OBVIOUS
  <2>2. p \in Tasks /\ Queued(p)
    BY <1>2, <2>1, ListsAre
  <2>3. OSTCBPrio[p] = p
    BY <2>2, WaitersUnraised
  <2> QED
    BY <2>1, <2>2, <2>3, Unique DEF StageInv, TableInv
<1> QED
  BY <1>1, <1>2

LEMMA PendersAre == StageInv => \A t \in OSTCBTbl : Pending(t) => t \in Tasks
BY CallerIs DEF Pending

LEMMA GrantedIs ==
  StageInv => \A e \in OSEventTblAll : Granted(e) = {t \in Tasks : Given(t, e)}
<1> SUFFICES ASSUME StageInv, NEW e \in OSEventTblAll
             PROVE  Granted(e) = {t \in Tasks : Given(t, e)}
  OBVIOUS
<1>1. \A t \in Tasks : t \in OSTCBTbl /\ (OSTCBPrio[t] \in OSEventTbl[e] <=> t \in OSEventTbl[e])
  BY ListedAsNamed
<1>2. \A t \in OSTCBTbl : Pending(t) => t \in Tasks
  BY PendersAre
<1> QED
  BY <1>1, <1>2 DEF Granted, Given, Pending

LEMMA GrantedAre ==
  ASSUME StageInv, StageInv', app' = app
  PROVE  \A e \in OSEventTblAll :
           /\ Granted(e) = {t \in Tasks : Given(t, e)}
           /\ Granted(e)' = {t \in Tasks : Given(t, e)'}
           /\ IsFiniteSet(Granted(e)) /\ Cardinality(Granted(e)) \in Nat
<1>1. Tasks' = Tasks
  BY DEF Tasks
<1>2. StageInv' => (\A e \in OSEventTblAll : Granted(e) = {t \in Tasks : Given(t, e)})'
  BY GrantedIs, PTL
<1> TAKE e \in OSEventTblAll
<1>3. Granted(e) = {t \in Tasks : Given(t, e)}
  BY GrantedIs
<1>4. Granted(e)' = {t \in Tasks : Given(t, e)'}
  BY <1>1, <1>2
<1>5. IsFiniteSet(Granted(e))
  BY <1>3, TasksFinite, FS_Subset
<1> QED
  BY <1>3, <1>4, <1>5, FS_CardinalityType

LEMMA GivenAnswered ==
  ASSUME StageInv, NEW t \in Tasks, NEW e \in OSEventTblAll,
         Pending(t), OSTCBEventPtr[t] = e, t \notin OSEventTbl[e]
  PROVE  Answered(t)
<1>1. Placed(t) /\ Staged(t)
  BY DEF StageInv, DataInv, Stages
<1>2. OnEvent(t) /\ call[t].ev = e
  BY <1>1, CoreAssumption DEF Placed
<1>3. OSTCBFlagNode[t] = NULL
  BY <1>1, <1>2 DEF Placed, OnEvent, OnFlags, EventPends
<1>4. ~Queued(t)
  BY <1>1, <1>2, <1>3 DEF Queued, Placed
<1> QED
  BY <1>1, <1>4 DEF Staged, AtWork, Waiting, TimedOut

LEMMA GivenKept ==
  ASSUME StageInv, NEW t \in Tasks, NEW e \in OSEventTblAll,
         Pending(t)' <=> Pending(t), OSTCBEventPtr'[t] = OSTCBEventPtr[t],
         t \in OSEventTbl'[e] <=> t \in OSEventTbl[e],
         Answered(t) => OSTCBStatPend'[t] = OSTCBStatPend[t]
  PROVE  Given(t, e)' <=> Given(t, e)
<1>1. CASE Pending(t) /\ OSTCBEventPtr[t] = e /\ t \notin OSEventTbl[e]
  BY <1>1, GivenAnswered DEF Given
<1>2. CASE ~(Pending(t) /\ OSTCBEventPtr[t] = e /\ t \notin OSEventTbl[e])
  BY <1>2 DEF Given
<1> QED
  BY <1>1, <1>2

(* Nobody is given anything and nobody returns with anything.              *)
Ungiven ==
  /\ UNCHANGED <<app, OSTCBEventPtr, OSEventTbl>>
  /\ \A t \in Tasks : /\ Pending(t)' <=> Pending(t)
                      /\ Answered(t) => OSTCBStatPend'[t] = OSTCBStatPend[t]

LEMMA GrantedKept ==
  ASSUME StageInv, StageInv', Ungiven
  PROVE  \A e \in OSEventTblAll : Granted(e)' = Granted(e)
<1> SUFFICES ASSUME NEW e \in OSEventTblAll
             PROVE  Granted(e)' = Granted(e)
  OBVIOUS
<1>1. \A t \in Tasks : Given(t, e)' <=> Given(t, e)
  BY GivenKept DEF Ungiven
<1> QED
  BY <1>1, GrantedAre DEF Ungiven

(* The goods of event e change by as much as is booked.                    *)
LEMMA GoodsMove ==
  ASSUME StageInv, StageInv', StockInv, Ungiven, Goods',
         NEW e \in OSEventTblAll,
         \A f \in OSEventTblAll : f # e => credit'[f] = credit[f] /\ Held(f)' = Held(f),
         credit'[e] - credit[e] = Held(e)' - Held(e),
         Waited(e) => Held(e)' = 0
  PROVE  StockInv'
<1> SUFFICES ASSUME NEW f \in OSEventTblAll
             PROVE  Stock(f)'
  BY DEF StockInv
<1>1. /\ Granted(f)' = Granted(f) /\ Cardinality(Granted(f)) \in Nat
      /\ Held(f) \in Nat /\ Held(f)' \in Nat /\ credit[f] \in Int /\ credit'[f] \in Int
      /\ Waited(f)' = Waited(f)
  BY GrantedKept, GrantedAre, HeldIs DEF StockInv, Ungiven, Goods, Waited
<1>2. Stock(f)
  BY DEF StockInv
<1>3. CASE f = e
  BY <1>1, <1>2, <1>3 DEF Stock
<1>4. CASE f # e
  BY <1>1, <1>2, <1>4 DEF Stock
<1> QED
  BY <1>3, <1>4

LEMMA GoodsAlike ==
  ASSUME StageInv, StageInv', StockInv, Ungiven, Goods', credit' = credit,
         \A f \in OSEventTblAll : Held(f)' = Held(f)
  PROVE  StockInv'
<1>1. \A f \in OSEventTblAll :
        /\ Granted(f)' = Granted(f) /\ Held(f)' = Held(f)
        /\ Waited(f)' = Waited(f) /\ credit'[f] = credit[f]
  BY GrantedKept DEF Ungiven, Waited
<1> QED
  BY <1>1 DEF StockInv, Stock

LEMMA GoodsStay ==
  ASSUME StageInv, StageInv', StockInv, Ungiven,
         UNCHANGED <<credit, eventVars, OSQEntries>>
  PROVE  StockInv'
<1>1. \A f \in OSEventTblAll : Held(f)' = Held(f)
  BY DEF Held, eventVars
<1>2. Goods'
  BY DEF Goods, StockInv, eventVars
<1> QED
  BY <1>1, <1>2, GoodsAlike

(* The waiters W of event e are given it, or are aborted.                  *)
Gives(e, W, pend) ==
  /\ \A f \in OSEventTblAll : f # e => Granted(f)' = Granted(f)
  /\ pend = "ABORT" => Granted(e)' = Granted(e)
  /\ pend = "OK" => Granted(e)' = Granted(e) \cup W
  /\ \A f \in OSEventTblAll : OSEventTbl'[f] \subseteq OSEventTbl[f]
  /\ Granted(e) \cap W = {} /\ IsFiniteSet(W)

(* What is posted while tasks wait goes to waiters; an abort gives nothing. *)
LEMMA PostGives ==
  ASSUME StageInv, StageInv', app' = app, NEW e \in OSEventTblAll,
         NEW R, NEW W, W \subseteq OSEventTbl[e], NEW bit, NEW msg, NEW pend \in {"OK", "ABORT"},
         OS_EventTaskRdy(R, e, W, msg, bit, pend),
         \A t \in Tasks : Pending(t)' <=> Pending(t)
  PROVE  Gives(e, W, pend)
<1>1. Answers(R, e, W, bit, pend)
  BY PostAnswers
<1>2. W \subseteq Tasks /\ Tasks \subseteq OSTCBTbl /\ IsFiniteSet(W)
  BY ListsAre, TasksAre, TasksFinite, FS_Subset
<1>3. \A t \in Tasks : OSTCBEventPtr'[t] = OSTCBEventPtr[t]
  BY <1>1, <1>2 DEF Answers
<1>4. ASSUME NEW f \in OSEventTblAll, NEW t \in Tasks \ W
      PROVE  Given(t, f)' <=> Given(t, f)
  <2>1. OSTCBStatPend'[t] = OSTCBStatPend[t]
    BY <1>1, <1>2 DEF Answers
  <2>2. t \in OSEventTbl'[f] <=> t \in OSEventTbl[f]
    BY <1>1 DEF Answers
  <2> QED
    BY <1>3, <2>1, <2>2, GivenKept
<1>5. ASSUME NEW f \in OSEventTblAll, NEW t \in W
      PROVE  ~Given(t, f) /\ (Given(t, f)' <=> f = e /\ pend = "OK")
  <2>1. t \in Tasks /\ t \in OSEventTbl[e] /\ OnEvent(t) /\ call[t].ev = e /\ OSTCBEventPtr[t] = e
    BY <1>2 DEF StageInv, DataInv, Stages, Placed
  <2>2. Pending(t) /\ Pending(t)' /\ OSTCBEventPtr'[t] = e
    BY <1>3, <2>1 DEF OnEvent
  <2>3. OSTCBStatPend'[t] = pend /\ t \notin OSEventTbl'[e]
    BY <1>1, <1>2 DEF Answers
  <2> QED
    BY <2>1, <2>2, <2>3 DEF Given
<1>6. \A f \in OSEventTblAll : /\ Granted(f) = {t \in Tasks : Given(t, f)}
                               /\ Granted(f)' = {t \in Tasks : Given(t, f)'}
  BY GrantedAre
<1>7. \A f \in OSEventTblAll : f # e \/ pend = "ABORT" => Granted(f)' = Granted(f)
  BY <1>4, <1>5, <1>6
<1>8. pend = "OK" => Granted(e)' = Granted(e) \cup W
  BY <1>2, <1>4, <1>5, <1>6
<1>9. Granted(e) \cap W = {}
  BY <1>5, <1>6
<1>10. \A f \in OSEventTblAll : OSEventTbl'[f] \subseteq OSEventTbl[f]
  BY <1>1 DEF Answers
<1> QED
  BY <1>2, <1>7, <1>8, <1>9, <1>10 DEF Gives

(* The tasks of W get a permit each of event e, unless they are aborted.    *)
Booked(e, W, pend) ==
  credit' = IF pend = "OK" THEN [credit EXCEPT ![e] = @ + Cardinality(W)] ELSE credit

LEMMA AnswerStock ==
  ASSUME StageInv, StageInv', StockInv, app' = app, NEW e \in OSEventTblAll,
         NEW R, NEW W, W \subseteq OSEventTbl[e], NEW bit, NEW msg, NEW pend \in {"OK", "ABORT"},
         OS_EventTaskRdy(R, e, W, msg, bit, pend),
         \A t \in Tasks : Pending(t)' <=> Pending(t),
         Goods', \A f \in OSEventTblAll : Held(f)' = Held(f),
         Booked(e, W, pend)
  PROVE  StockInv'
<1>1. /\ \A f \in OSEventTblAll : f # e => Granted(f)' = Granted(f)
      /\ pend = "ABORT" => Granted(e)' = Granted(e)
      /\ pend = "OK" => Granted(e)' = Granted(e) \cup W
      /\ \A f \in OSEventTblAll : OSEventTbl'[f] \subseteq OSEventTbl[f]
      /\ Granted(e) \cap W = {} /\ IsFiniteSet(W)
  <2>1. Gives(e, W, pend)
    BY PostGives
  <2> QED
    BY <2>1 DEF Gives
<1>2. /\ Cardinality(W) \in Nat
      /\ \A f \in OSEventTblAll : IsFiniteSet(Granted(f)) /\ Cardinality(Granted(f)) \in Nat
  BY <1>1, GrantedAre, FS_CardinalityType
<1>3. Cardinality(Granted(e) \cup W) = Cardinality(Granted(e)) + Cardinality(W)
  <2>1. Cardinality(Granted(e) \cup W)
          = Cardinality(Granted(e)) + Cardinality(W) - Cardinality(Granted(e) \cap W)
    BY <1>1, <1>2, FS_Union
  <2>2. Cardinality(Granted(e) \cap W) = 0
    BY <1>1, FS_EmptySet
  <2> QED
    BY <1>2, <2>1, <2>2
<1>5. ASSUME NEW f \in OSEventTblAll
      PROVE  Stock(f)'
  <2>1. /\ Held(f)' = Held(f) /\ Held(f) \in Nat /\ Stock(f) /\ credit[f] \in Int
        /\ Waited(f)' => Waited(f)
    BY <1>1, HeldIs DEF StockInv, Goods, Waited
  <2>2. CASE f = e /\ pend = "OK"
    <3>1. credit'[f] = credit[f] + Cardinality(W)
      BY <2>2 DEF Booked, StockInv, Goods
    <3>2. Cardinality(Granted(f)') = Cardinality(Granted(f)) + Cardinality(W)
      BY <1>1, <1>3, <2>2
    <3> QED
      BY <1>2, <2>1, <3>1, <3>2 DEF Stock
  <2>3. CASE f # e \/ pend # "OK"
    <3>1. credit'[f] = credit[f] /\ Granted(f)' = Granted(f)
      BY <1>1, <2>3 DEF Booked, StockInv, Goods
    <3> QED
      BY <2>1, <3>1 DEF Stock
  <2> QED
    BY <2>2, <2>3
<1> QED
  BY <1>5 DEF StockInv

LEMMA OneWaiter ==
  ASSUME StageInv, NEW e \in OSEventTblAll, Waited(e)
  PROVE  HighestWaiter(e) \subseteq OSEventTbl[e] /\ Cardinality(HighestWaiter(e)) = 1
<1>1. HighestWaiter(e) \subseteq OSEventTbl[e]
  BY ListsAre
<1>2. Cardinality(HighestWaiter(e)) = 1
  BY FS_Singleton DEF HighestWaiter
<1> QED
  BY <1>1, <1>2

(* A post or an abort that finds waiters: one of them, or all, is answered. *)
LEMMA OneOrAllStock ==
  ASSUME StageInv, StageInv', StockInv, app' = app, NEW e \in OSEventTblAll,
         Waited(e), NEW all, NEW bit, NEW msg, NEW pend \in {"OK", "ABORT"},
         OS_EventTaskRdy(OSRdyTbl, e, IF all THEN OSEventTbl[e] ELSE HighestWaiter(e), msg, bit, pend),
         \A t \in Tasks : CtlKept(t),
         UNCHANGED <<eventVars, OSQEntries>>,
         credit' = IF pend = "OK"
                     THEN [credit EXCEPT ![e] = @ + (IF all THEN Cardinality(OSEventTbl[e]) ELSE 1)]
                     ELSE credit
  PROVE  StockInv'
<1> DEFINE W == IF all THEN OSEventTbl[e] ELSE HighestWaiter(e)
<1>1. /\ W \subseteq OSEventTbl[e]
      /\ Cardinality(W) = IF all THEN Cardinality(OSEventTbl[e]) ELSE 1
  BY OneWaiter
<1>2. /\ OS_EventTaskRdy(OSRdyTbl, e, W, msg, bit, pend)
      /\ Booked(e, W, pend)
      /\ \A t \in Tasks : Pending(t)' <=> Pending(t)
  BY <1>1 DEF CtlKept, Booked
<1>3. Goods' /\ \A f \in OSEventTblAll : Held(f)' = Held(f)
  <2>1. credit' \in [OSEventTblAll -> Int]
    <3>1. IsFiniteSet(OSEventTbl[e])
      BY ListsAre, TasksFinite, FS_Subset
    <3>2. Cardinality(W) \in Int
      BY <1>1, <3>1, FS_CardinalityType
    <3> QED
      BY <1>2, <3>2 DEF Booked, StockInv, Goods
  <2> QED
    BY <2>1 DEF StockInv, Goods, eventVars, Held
<1> HIDE DEF W
<1> QED
  BY <1>1, <1>2, <1>3, AnswerStock

LEMMA PostStock ==
  ASSUME StageInv, StageInv', StockInv, NEW c, WellFormed(c), RightType(c),
         app' = app, \A t \in Tasks : CtlKept(t),
         \/ c.op = "SemPost" /\ OSSemPost(c.ev) /\ ForSem
         \/ c.op = "MboxPost" /\ OSMboxPost(c.ev, c.msg, c.all) /\ ForSem
         \/ c.op = "QPost" /\ OSQPost(c.ev, c.msg, c.front, c.all)
  PROVE  StockInv'
<1> DEFINE e == c.ev
<1>1. e \in OSEventTblAll /\ OSEventType[e] = TypeFor(c.op) /\ c.op \in {"SemPost", "MboxPost", "QPost"}
  BY EventOf DEF RightType, TypeFor
<1>2. c.op = "MboxPost" => c.msg \in Msgs /\ c.msg # NULL
  BY CoreAssumption DEF WellFormed
<1> HIDE DEF e
<1>3. CASE Waited(e)
  <2>1. CASE c.op = "SemPost" /\ OSSemPost(e) /\ ForSem
    <3>1. /\ OS_EventTaskRdy(OSRdyTbl, e, IF FALSE THEN OSEventTbl[e] ELSE HighestWaiter(e), NULL, "SEM", "OK")
          /\ UNCHANGED <<eventVars, OSQEntries>>
          /\ credit' = [credit EXCEPT ![e] = @ + (IF FALSE THEN Cardinality(OSEventTbl[e]) ELSE 1)]
      BY <1>3, <2>1 DEF OSSemPost, eventVars, ForSem, qVars
    <3> QED
      BY <1>1, <1>3, <3>1, OneOrAllStock
  <2>2. CASE c.op = "MboxPost" /\ OSMboxPost(e, c.msg, c.all) /\ ForSem
    <3>1. /\ OS_EventTaskRdy(OSRdyTbl, e, IF c.all THEN OSEventTbl[e] ELSE HighestWaiter(e), c.msg, "MBOX", "OK")
          /\ UNCHANGED <<eventVars, OSQEntries>>
          /\ credit' = [credit EXCEPT ![e] = @ + (IF c.all THEN Cardinality(OSEventTbl[e]) ELSE 1)]
      BY <1>3, <2>2 DEF OSMboxPost, eventVars, ForSem, qVars
    <3> QED
      BY <1>1, <1>3, <3>1, OneOrAllStock
  <2>3. CASE c.op = "QPost" /\ OSQPost(e, c.msg, c.front, c.all)
    <3>1. /\ OS_EventTaskRdy(OSRdyTbl, e, IF c.all THEN OSEventTbl[e] ELSE HighestWaiter(e), c.msg, "Q", "OK")
          /\ UNCHANGED <<eventVars, OSQEntries>>
          /\ credit' = [credit EXCEPT ![e] = @ + (IF c.all THEN Cardinality(OSEventTbl[e]) ELSE 1)]
      BY <1>3, <2>3 DEF OSQPost, qVars
    <3> QED
      BY <1>1, <1>3, <3>1, OneOrAllStock
  <2> QED
    BY <2>1, <2>2, <2>3 DEF e
<1>4. CASE ~Waited(e)
  <2> DEFINE Full == credit' = credit /\ UNCHANGED <<eventVars, OSQEntries>>
             Stored ==
               /\ credit' = [credit EXCEPT ![e] = @ + 1]
               /\ OSEventType' = OSEventType
               /\ \/ /\ c.op = "SemPost" /\ OSEventCnt' = [OSEventCnt EXCEPT ![e] = @ + 1]
                     /\ UNCHANGED <<OSEventPtr, OSQEntries>>
                  \/ /\ c.op = "MboxPost" /\ OSEventPtr[e] = NULL /\ c.msg # NULL
                     /\ OSEventPtr' = [OSEventPtr EXCEPT ![e] = c.msg]
                     /\ UNCHANGED <<OSEventCnt, OSQEntries>>
                  \/ /\ c.op = "QPost" /\ OSQEntries' = [OSQEntries EXCEPT ![e] = @ + 1]
                     /\ UNCHANGED <<OSEventCnt, OSEventPtr>>
  <2>1. Ungiven
    <3>1. UNCHANGED waitVars
      BY <1>4 DEF OSSemPost, OSMboxPost, OSQPost, e
    <3> QED
      BY <3>1 DEF Ungiven, waitVars, pendVars, CtlKept
  <2>2. Full \/ Stored
    <3>1. CASE c.op = "SemPost" /\ OSSemPost(e) /\ ForSem
      <4>1. CASE OSEventCnt[e] < OSSemMax
        BY <1>4, <3>1, <4>1 DEF OSSemPost, ForSem, qVars
      <4>2. CASE ~(OSEventCnt[e] < OSSemMax)
        <5>1. OSEventCnt' = OSEventCnt
          BY <1>4, <3>1, <4>2 DEF OSSemPost, StockInv, Goods
        <5> QED
          BY <1>4, <3>1, <4>2, <5>1 DEF OSSemPost, ForSem, qVars, eventVars
      <4> QED
        BY <4>1, <4>2
    <3>2. CASE c.op = "MboxPost" /\ OSMboxPost(e, c.msg, c.all) /\ ForSem
      <4>1. CASE OSEventPtr[e] = NULL
        BY <1>2, <1>4, <3>2, <4>1 DEF OSMboxPost, ForSem, qVars
      <4>2. CASE OSEventPtr[e] # NULL
        <5>1. OSEventPtr' = OSEventPtr /\ credit' = credit
          BY <1>4, <3>2, <4>2 DEF OSMboxPost, StockInv, Goods
        <5> QED
          BY <1>4, <3>2, <4>2, <5>1 DEF OSMboxPost, ForSem, qVars, eventVars
      <4> QED
        BY <4>1, <4>2
    <3>3. CASE c.op = "QPost" /\ OSQPost(e, c.msg, c.front, c.all)
      BY <1>4, <3>3 DEF OSQPost, QPutFront, QPutBack, qVars, eventVars
    <3> QED
      BY <3>1, <3>2, <3>3 DEF e
  <2>3. CASE Full
    BY <2>1, <2>3, GoodsStay
  <2>4. CASE Stored
    <3>1. Goods'
      <4>1. Goods /\ credit[e] + 1 \in Int
        BY <1>1 DEF Goods, StockInv
      <4>2. credit' \in [OSEventTblAll -> Int]
        BY <2>4, <4>1 DEF Goods
      <4>3. OSEventCnt' \in [OSEventTblAll -> Nat]
        BY <2>4, <4>1 DEF Goods
      <4>4. OSEventPtr' = [f \in OSEventTblAll |-> OSEventPtr'[f]]
        BY <2>4, <4>1 DEF Goods
      <4>5. OSQEntries' \in [OSEventTblAll -> Nat]
        BY <2>4, <4>1 DEF Goods
      <4> QED
        BY <4>2, <4>3, <4>4, <4>5 DEF Goods
    <3>2. /\ credit'[e] - credit[e] = 1
          /\ \A f \in OSEventTblAll : f # e => credit'[f] = credit[f] /\ Held(f)' = Held(f)
      BY <1>1, <2>4 DEF Goods, StockInv, Held
    <3>3. Held(e)' - Held(e) = 1
      <4>1. CASE c.op = "SemPost"
        BY <1>1, <2>4, <4>1 DEF Goods, StockInv, Held, TypeFor
      <4>2. CASE c.op = "MboxPost"
        BY <1>1, <2>4, <4>2 DEF Goods, StockInv, Held, TypeFor
      <4>3. CASE c.op = "QPost"
        BY <1>1, <2>4, <4>3 DEF Goods, StockInv, Held, TypeFor
      <4> QED
        BY <1>1, <4>1, <4>2, <4>3
    <3> HIDE DEF Stored
    <3> QED
      BY <1>1, <1>4, <2>1, <3>1, <3>2, <3>3, GoodsMove
  <2> QED
    BY <2>2, <2>3, <2>4
<1> QED
  BY <1>3, <1>4

(* Something is taken out of an event, or its stock is set.                *)
LEMMA TakeStock ==
  ASSUME StageInv, StageInv', StockInv, NEW e \in OSEventTblAll, app' = app,
         \A t \in Tasks : CtlKept(t),
         \/ OSEventType[e] = "SEM" /\ OSSemAccept(e) /\ UNCHANGED qVars
         \/ OSEventType[e] = "SEM" /\ (\E n \in 0..OSSemMax : OSSemSet(e, n)) /\ UNCHANGED qVars
         \/ OSEventType[e] = "MBOX" /\ OSMboxAccept(e) /\ UNCHANGED qVars
         \/ OSEventType[e] = "Q" /\ OSQAccept(e)
         \/ OSEventType[e] = "Q" /\ OSQFlush(e)
  PROVE  StockInv'
<1> DEFINE Moved == /\ Goods'
                    /\ \A f \in OSEventTblAll : f # e => credit'[f] = credit[f] /\ Held(f)' = Held(f)
                    /\ credit'[e] - credit[e] = Held(e)' - Held(e)
                    /\ Waited(e) => Held(e)' = 0
<1>1. Ungiven
  <2>1. UNCHANGED waitVars
    BY DEF OSSemAccept, OSSemSet, OSMboxAccept, OSQAccept, OSQFlush
  <2> QED
    BY <2>1 DEF Ungiven, waitVars, pendVars, CtlKept
<1>2. Goods /\ Stock(e)
  BY DEF StockInv
<1>3. ASSUME OSEventType[e] = "SEM", OSSemAccept(e), UNCHANGED qVars
      PROVE  Moved
  <2>1. UNCHANGED <<OSEventType, OSEventPtr, OSQEntries>>
    BY <1>3 DEF OSSemAccept, qVars
  <2>2. CASE OSEventCnt[e] > 0
    <3>1. /\ OSEventCnt' = [OSEventCnt EXCEPT ![e] = @ - 1]
          /\ credit' = [credit EXCEPT ![e] = @ - 1]
      BY <1>3, <2>2 DEF OSSemAccept
    <3>2. Goods'
      BY <1>2, <2>1, <2>2, <3>1 DEF Goods
    <3> QED
      BY <1>2, <1>3, <2>1, <2>2, <3>1, <3>2 DEF Goods, Held, Stock
  <2>3. CASE ~(OSEventCnt[e] > 0)
    <3>1. OSEventCnt' = OSEventCnt /\ credit' = credit
      BY <1>3, <2>3 DEF OSSemAccept
    <3> QED
      BY <1>2, <1>3, <2>1, <3>1 DEF Goods, Held, Stock
  <2> QED
    BY <2>2, <2>3
<1>4. ASSUME NEW n \in 0..OSSemMax, OSEventType[e] = "SEM", OSSemSet(e, n), UNCHANGED qVars
      PROVE  Moved
  <2>1. UNCHANGED <<OSEventType, OSEventPtr, OSQEntries>> /\ n \in Nat
    BY <1>4 DEF OSSemSet, qVars
  <2>2. CASE OSEventCnt[e] > 0 \/ ~Waited(e)
    <3>1. /\ OSEventCnt' = [OSEventCnt EXCEPT ![e] = n]
          /\ credit' = [credit EXCEPT ![e] = @ - OSEventCnt[e] + n]
      BY <1>4, <2>2 DEF OSSemSet
    <3>2. Goods'
      BY <1>2, <2>1, <3>1 DEF Goods
    <3>3. ~Waited(e)
      BY <1>2, <1>4, <2>2 DEF Stock, Held
    <3> QED
      BY <1>2, <1>4, <2>1, <3>1, <3>2, <3>3 DEF Goods, Held
  <2>3. CASE ~(OSEventCnt[e] > 0 \/ ~Waited(e))
    <3>1. OSEventCnt' = OSEventCnt /\ credit' = credit
      BY <1>4, <2>3 DEF OSSemSet
    <3> QED
      BY <1>2, <1>4, <2>1, <3>1 DEF Goods, Held, Stock
  <2> QED
    BY <2>2, <2>3
<1>5. ASSUME OSEventType[e] = "MBOX" /\ OSMboxAccept(e) /\ UNCHANGED qVars
      PROVE  Moved
  <2>1. /\ UNCHANGED <<OSEventType, OSEventCnt, OSQEntries>>
        /\ OSEventPtr' = [OSEventPtr EXCEPT ![e] = NULL]
    BY <1>5 DEF OSMboxAccept, qVars
  <2>2. CASE OSEventPtr[e] # NULL
    <3>1. credit' = [credit EXCEPT ![e] = @ - 1]
      BY <1>5, <2>2 DEF OSMboxAccept
    <3>2. Goods'
      BY <1>2, <2>1, <3>1 DEF Goods
    <3> QED
      BY <1>2, <1>5, <2>1, <2>2, <3>1, <3>2 DEF Goods, Held
  <2>3. CASE OSEventPtr[e] = NULL
    <3>1. credit' = credit
      BY <1>5, <2>3 DEF OSMboxAccept
    <3>2. Goods'
      BY <1>2, <2>1, <3>1 DEF Goods
    <3> QED
      BY <1>2, <1>5, <2>1, <2>3, <3>1, <3>2 DEF Goods, Held
  <2> QED
    BY <2>2, <2>3
<1>6. ASSUME OSEventType[e] = "Q" /\ OSQAccept(e)
      PROVE  Moved
  <2>1. UNCHANGED <<OSEventType, OSEventPtr, OSEventCnt>>
    BY <1>6 DEF OSQAccept, eventVars
  <2>2. CASE OSQEntries[e] > 0
    <3>1. /\ OSQEntries' = [OSQEntries EXCEPT ![e] = @ - 1]
          /\ credit' = [credit EXCEPT ![e] = @ - 1]
      BY <1>6, <2>2 DEF OSQAccept, QTake
    <3>2. Goods'
      BY <1>2, <2>1, <2>2, <3>1 DEF Goods
    <3> QED
      BY <1>2, <1>6, <2>1, <2>2, <3>1, <3>2 DEF Goods, Held, Stock
  <2>3. CASE ~(OSQEntries[e] > 0)
    <3>1. OSQEntries' = OSQEntries /\ credit' = credit
      BY <1>6, <2>3 DEF OSQAccept, qVars
    <3> QED
      BY <1>2, <1>6, <2>1, <3>1 DEF Goods, Held, Stock
  <2> QED
    BY <2>2, <2>3
<1>7. ASSUME OSEventType[e] = "Q" /\ OSQFlush(e)
      PROVE  Moved
  <2>1. /\ UNCHANGED <<OSEventType, OSEventPtr, OSEventCnt>>
        /\ OSQEntries' = [OSQEntries EXCEPT ![e] = 0]
        /\ credit' = [credit EXCEPT ![e] = @ - OSQEntries[e]]
    BY <1>7 DEF OSQFlush, eventVars
  <2>2. Goods'
    BY <1>2, <2>1 DEF Goods
  <2> QED
    BY <1>2, <1>7, <2>1, <2>2 DEF Goods, Held
<1>8. Moved
  BY <1>3, <1>4, <1>5, <1>6, <1>7
<1> QED
  BY <1>1, <1>8, GoodsMove

LEMMA AbortStock ==
  ASSUME StageInv, StageInv', StockInv, NEW e \in OSEventTblAll, app' = app,
         \A t \in Tasks : CtlKept(t), NEW all, NEW bit, PendAbort(e, all, bit), UNCHANGED qVars
  PROVE  StockInv'
<1>1. UNCHANGED <<eventVars, OSQEntries, credit>>
  BY DEF PendAbort, qVars
<1>2. CASE Waited(e)
  <2>1. OS_EventTaskRdy(OSRdyTbl, e, IF all THEN OSEventTbl[e] ELSE HighestWaiter(e), NULL, bit, "ABORT")
    BY <1>2 DEF PendAbort
  <2> QED
    BY <1>1, <1>2, <2>1, OneOrAllStock
<1>3. CASE ~Waited(e)
  <2>1. UNCHANGED waitVars
    BY <1>3 DEF PendAbort
  <2>2. Ungiven
    BY <2>1 DEF Ungiven, waitVars, pendVars, CtlKept
  <2> QED
    BY <1>1, <2>2, GoodsStay
<1> QED
  BY <1>2, <1>3

(* An answered task is neither linked to a flag group nor delayed.         *)
LEMMA AnsweredIs ==
  ASSUME NEW t, Answered(t)
  PROVE  OSTCBDly[t] = 0 /\ OSTCBFlagNode[t] = NULL
BY DEF Answered, Queued

LEMMA CommonStock ==
  ASSUME StageInv, StageInv', StockInv, NEW c, WellFormed(c), RightType(c), Common(c),
         app' = app, \A t \in Tasks : CtlKept(t)
  PROVE  StockInv'
<1>1. CASE \/ c.op = "SemPost" /\ OSSemPost(c.ev) /\ ForSem
           \/ c.op = "MboxPost" /\ OSMboxPost(c.ev, c.msg, c.all) /\ ForSem
           \/ c.op = "QPost" /\ OSQPost(c.ev, c.msg, c.front, c.all)
  BY <1>1, PostStock
<1>2. CASE \/ c.op = "SemPendAbort" /\ OSSemPendAbort(c.ev, c.all) /\ ForSem
           \/ c.op = "MboxPendAbort" /\ OSMboxPendAbort(c.ev, c.all) /\ ForSem
           \/ c.op = "QPendAbort" /\ OSQPendAbort(c.ev, c.all)
  <2>1. c.ev \in OSEventTblAll /\ UNCHANGED qVars
    BY <1>2, EventOf DEF TypeFor, ForSem, OSQPendAbort
  <2>2. PICK bit : PendAbort(c.ev, c.all, bit)
    BY <1>2 DEF OSSemPendAbort, OSMboxPendAbort, OSQPendAbort
  <2> QED
    BY <2>1, <2>2, AbortStock
<1>3. CASE \/ c.op = "SemAccept" /\ OSSemAccept(c.ev) /\ ForSem
           \/ c.op = "SemSet" /\ OSSemSet(c.ev, c.cnt) /\ ForSem
           \/ c.op = "MboxAccept" /\ OSMboxAccept(c.ev) /\ ForSem
           \/ c.op = "QAccept" /\ OSQAccept(c.ev)
           \/ c.op = "QFlush" /\ OSQFlush(c.ev)
  <2>1. c.ev \in OSEventTblAll /\ OSEventType[c.ev] = TypeFor(c.op)
    BY <1>3, EventOf DEF RightType, TypeFor
  <2>2. c.op = "SemSet" => c.cnt \in 0..OSSemMax
    BY DEF WellFormed
  <2> QED
    BY <1>3, <2>1, <2>2, TakeStock DEF TypeFor, ForSem
<1>4. CASE \/ c.op = "FlagPost" /\ OSFlagPost(c.grp, c.flags, c.set) /\ ForFlag
           \/ c.op = "FlagAccept" /\ OSFlagAccept(c.wait) /\ ForFlag
           \/ c.op = "TimeDlyResume" /\ OSTimeDlyResume(c.prio) /\ ForTask
           \/ c.op = "TaskSuspend" /\ OSTaskSuspend(c.prio) /\ ForTask
           \/ c.op = "TaskResume" /\ OSTaskResume(c.prio) /\ ForTask
  <2>1. UNCHANGED <<OSTCBEventPtr, OSEventTbl, credit, eventVars, OSQEntries>>
    BY <1>4 DEF OSFlagPost, OS_FlagTaskRdy, OSFlagAccept, OSTimeDlyResume, OSTaskSuspend,
                OSTaskResume, ForFlag, ForTask, qVars, dataVars, waitVars, pendVars
  <2>2. ASSUME NEW t \in Tasks, Answered(t)
        PROVE  OSTCBStatPend'[t] = OSTCBStatPend[t]
    <3>1. t \in OSTCBTbl /\ OSTCBDly[t] = 0 /\ OSTCBFlagNode[t] = NULL
      BY <2>2, AnsweredIs, TasksAre
    <3>2. CASE OSFlagPost(c.grp, c.flags, c.set)
      BY <3>1, <3>2 DEF OSFlagPost, OS_FlagTaskRdy, Released, Linked
    <3>3. CASE OSTimeDlyResume(c.prio)
      BY <3>1, <3>3 DEF OSTimeDlyResume, StageInv, DataInv, Arrays
    <3>4. CASE OSFlagAccept(c.wait) \/ OSTaskSuspend(c.prio) \/ OSTaskResume(c.prio)
      BY <3>4 DEF OSFlagAccept, OSTaskSuspend, OSTaskResume, dataVars, waitVars, pendVars
    <3> QED
      BY <1>4, <3>2, <3>3, <3>4
  <2> QED
    BY <2>1, <2>2, GoodsStay DEF Ungiven, CtlKept
<1> QED
  BY <1>1, <1>2, <1>3, <1>4 DEF Common, ForQ

LEMMA TickStock ==
  ASSUME StageInv, StageInv', StockInv, OSTimeTick, app' = app,
         \A t \in Tasks : CtlKept(t), UNCHANGED qVars
  PROVE  StockInv'
<1>1. UNCHANGED <<OSTCBEventPtr, OSEventTbl, credit, eventVars, OSQEntries>>
  BY DEF OSTimeTick, qVars
<1>2. ASSUME NEW t \in Tasks, Answered(t)
      PROVE  OSTCBStatPend'[t] = OSTCBStatPend[t]
  <2>1. t \in OSTCBTbl /\ OSTCBDly[t] = 0
    BY <1>2, AnsweredIs, TasksAre
  <2> QED
    BY <2>1 DEF OSTimeTick
<1> QED
  BY <1>1, <1>2, GoodsStay DEF Ungiven, CtlKept

(* Waiters come only to events that hold nothing.                          *)
LEMMA StockKept ==
  ASSUME StockInv, UNCHANGED <<credit, eventVars, OSQEntries>>,
         \A f \in OSEventTblAll : Granted(f)' = Granted(f),
         \A f \in OSEventTblAll : Waited(f)' => Waited(f) \/ Held(f) = 0
  PROVE  StockInv'
<1>1. \A f \in OSEventTblAll : Held(f)' = Held(f)
  BY DEF Held, eventVars
<1>2. Goods'
  BY DEF Goods, StockInv, eventVars
<1> QED
  BY <1>1, <1>2 DEF StockInv, Stock

LEMMA WaitStock ==
  ASSUME StageInv, StageInv', StockInv, NEW t \in Tasks, pc[t] = "enter", OSTCBPrio[t] = t,
         NEW e \in OSEventTblAll, Held(e) = 0,
         pc' = [pc EXCEPT ![t] = "pend"], UNCHANGED <<app, credit, eventVars, OSQEntries>>,
         OSTCBEventPtr' = [OSTCBEventPtr EXCEPT ![t] = e],
         OSTCBStatPend' = [OSTCBStatPend EXCEPT ![t] = "OK"],
         OSEventTbl' = [OSEventTbl EXCEPT ![e] = @ \cup {t}]
  PROVE  StockInv'
<1>1. t \in OSTCBTbl /\ Tasks \subseteq OSTCBTbl
  BY TasksAre
<1>3. ASSUME NEW f \in OSEventTblAll, NEW u \in Tasks
      PROVE  Given(u, f)' <=> Given(u, f)
  <2>1. CASE u = t
    <3>1. ~Given(u, f)
      BY <2>1 DEF Given, Pending
    <3>2. OSTCBEventPtr'[u] = e /\ u \in OSEventTbl'[e]
      BY <1>1, <2>1 DEF StageInv, DataInv, Arrays, TableInv, ListRows
    <3> QED
      BY <3>1, <3>2 DEF Given
  <2>2. CASE u # t
    <3>1. /\ Pending(u)' <=> Pending(u)
          /\ OSTCBEventPtr'[u] = OSTCBEventPtr[u] /\ OSTCBStatPend'[u] = OSTCBStatPend[u]
          /\ u \in OSEventTbl'[f] <=> u \in OSEventTbl[f]
      BY <1>1, <2>2 DEF StageInv, DataInv, Arrays, TableInv, ListRows, Controlled, Pending
    <3> QED
      BY <3>1, GivenKept
  <2> QED
    BY <2>1, <2>2
<1>4. \A f \in OSEventTblAll : Granted(f)' = Granted(f)
  BY <1>1, <1>3, GrantedAre
<1>5. \A f \in OSEventTblAll : Waited(f)' => Waited(f) \/ Held(f) = 0
  BY DEF Waited, StageInv, TableInv, ListRows
<1> QED
  BY <1>4, <1>5, StockKept

(* A task that waits for no event starts or ends another wait.             *)
LEMMA OffEvents ==
  ASSUME StageInv, StageInv', NEW t \in Tasks,
         OSTCBEventPtr'[t] = NULL, OSTCBEventPtr[t] = NULL \/ ~Pending(t),
         UNCHANGED <<app, OSEventTbl>>,
         \A u \in Tasks : u # t =>
           /\ Pending(u)' <=> Pending(u)
           /\ OSTCBEventPtr'[u] = OSTCBEventPtr[u] /\ OSTCBStatPend'[u] = OSTCBStatPend[u]
  PROVE  \A f \in OSEventTblAll : Granted(f)' = Granted(f)
<1>1. ASSUME NEW f \in OSEventTblAll, NEW u \in Tasks
      PROVE  Given(u, f)' <=> Given(u, f)
  <2>1. CASE u = t
    BY <2>1, CoreAssumption DEF Given
  <2>2. CASE u # t
    BY <2>2, GivenKept
  <2> QED
    BY <2>1, <2>2
<1> QED
  BY <1>1, GrantedAre

LEMMA FlagWaitStock ==
  ASSUME StageInv, StageInv', StockInv, NEW t \in Tasks, pc[t] = "enter", NEW w,
         NEW timeout, OS_FlagBlock(t, w, timeout), UNCHANGED qVars
  PROVE  StockInv'
<1>1. /\ t \in OSTCBTbl /\ Tasks \subseteq OSTCBTbl /\ ~Pending(t) /\ Placed(t)
  BY TasksAre DEF Pending, StageInv, DataInv, Stages
<1>2. /\ UNCHANGED <<app, credit, eventVars, OSQEntries, OSTCBEventPtr, OSEventTbl>>
      /\ OSTCBStatPend' = [OSTCBStatPend EXCEPT ![t] = "OK"]
      /\ pc' = [pc EXCEPT ![t] = "pend"]
  BY DEF OS_FlagBlock, histVars, qVars
<1>3. OSTCBEventPtr'[t] = NULL
  BY <1>1, <1>2 DEF Placed, OnEvent
<1>4. \A u \in Tasks : u # t => /\ Pending(u)' <=> Pending(u)
                                /\ OSTCBEventPtr'[u] = OSTCBEventPtr[u]
                                /\ OSTCBStatPend'[u] = OSTCBStatPend[u]
  BY <1>1, <1>2 DEF Pending, StageInv, TableInv, Controlled, DataInv, Arrays
<1>5. \A f \in OSEventTblAll : Granted(f)' = Granted(f)
  BY <1>1, <1>2, <1>3, <1>4, OffEvents
<1> QED
  BY <1>2, <1>5, StockKept DEF Waited

LEMMA FlagReturnStock ==
  ASSUME StageInv, StageInv', StockInv, NEW t \in Tasks, pc[t] = "resume",
         call[t].op = "FlagPend", NEW w, FlagPendReturn(t, w), UNCHANGED qVars
  PROVE  StockInv'
<1>1. /\ t \in OSTCBTbl /\ Tasks \subseteq OSTCBTbl /\ Placed(t)
  BY TasksAre DEF StageInv, DataInv, Stages
<1>2. /\ UNCHANGED <<app, credit, eventVars, OSQEntries, OSTCBEventPtr, OSEventTbl>>
      /\ \/ OSTCBStatPend' = [OSTCBStatPend EXCEPT ![t] = "OK"]
         \/ OSTCBStatPend' = OSTCBStatPend
      /\ pc' = [pc EXCEPT ![t] = "app"]
  BY DEF FlagPendReturn, qVars, Return
<1>3. OSTCBEventPtr[t] = NULL /\ OSTCBEventPtr'[t] = NULL
  BY <1>1, <1>2 DEF Placed, OnEvent, EventPends
<1>4. \A u \in Tasks : u # t => /\ Pending(u)' <=> Pending(u)
                                /\ OSTCBEventPtr'[u] = OSTCBEventPtr[u]
                                /\ OSTCBStatPend'[u] = OSTCBStatPend[u]
  BY <1>1, <1>2 DEF Pending, StageInv, TableInv, Controlled, DataInv, Arrays
<1>5. \A f \in OSEventTblAll : Granted(f)' = Granted(f)
  BY <1>2, <1>3, <1>4, OffEvents
<1> QED
  BY <1>2, <1>5, StockKept DEF Waited

(* A task comes back from a pend, with what it was given or with nothing.  *)
LEMMA PendReturnStock ==
  ASSUME StageInv, StageInv', StockInv, NEW t \in Tasks, pc[t] = "resume", Ready(t),
         call[t].op \in EventPends, PendReturn(t, call[t].ev), UNCHANGED qVars
  PROVE  StockInv'
<1>1. /\ t \in OSTCBTbl /\ Tasks \subseteq OSTCBTbl /\ app' = app
      /\ Pending(t) /\ OnEvent(t) /\ Placed(t) /\ Staged(t)
  BY TasksAre DEF Pending, OnEvent, StageInv, DataInv, Stages, PendReturn, Return
<1>2. PICK e \in OSEventTblAll : e = call[t].ev /\ OSTCBEventPtr[t] = e
  BY <1>1, CallWaits DEF Placed
<1>0. OSTCBStatPend[t] \notin {"OK", "ABORT"} => OSTCBPrio[t] = t
  BY <1>1, WaitersUnraised DEF Staged, AtWork, Waiting, TimedOut, Answered
<1>3. /\ UNCHANGED <<eventVars, OSQEntries>>
      /\ OSEventTbl' = IF OSTCBStatPend[t] \in {"OK", "ABORT"} THEN OSEventTbl
                       ELSE [OSEventTbl EXCEPT ![e] = @ \ {t}]
      /\ OSTCBStatPend' = [OSTCBStatPend EXCEPT ![t] = "OK"]
      /\ OSTCBEventPtr' = [OSTCBEventPtr EXCEPT ![t] = NULL]
      /\ pc' = [pc EXCEPT ![t] = "app"]
      /\ credit' = IF OSTCBStatPend[t] = "OK" THEN [credit EXCEPT ![e] = @ - 1] ELSE credit
  BY <1>0, <1>1, <1>2 DEF PendReturn, qVars, Return
<1>4. Given(t, e) <=> OSTCBStatPend[t] = "OK"
  <2>1. ASSUME OSTCBStatPend[t] = "OK"
        PROVE  t \notin OSEventTbl[e]
    <3>1. Answered(t)
      BY <1>1, <2>1 DEF Staged, AtWork, Waiting, TimedOut
    <3> QED
      BY <1>1, <1>2, <3>1 DEF Answered, Queued
  <2> QED
    BY <1>1, <1>2, <2>1 DEF Given
<1>5. ~Pending(t)' /\ \A f \in OSEventTblAll : ~Given(t, f)'
  BY <1>1, <1>3 DEF Given, Pending, StageInv, TableInv, Controlled
<1>6. \A f \in OSEventTblAll : f # e => ~Given(t, f)
  BY <1>2 DEF Given
<1>7. ASSUME NEW f \in OSEventTblAll, NEW u \in Tasks, u # t
      PROVE  Given(u, f)' <=> Given(u, f)
  <2>1. u \in OSEventTbl'[f] <=> u \in OSEventTbl[f]
    BY <1>1, <1>3, <1>7 DEF StageInv, TableInv, ListRows
  <2>2. /\ Pending(u)' <=> Pending(u)
        /\ OSTCBEventPtr'[u] = OSTCBEventPtr[u] /\ OSTCBStatPend'[u] = OSTCBStatPend[u]
    BY <1>1, <1>3, <1>7 DEF StageInv, DataInv, Arrays, TableInv, Controlled, Pending
  <2> QED
    BY <2>1, <2>2, GivenKept
<1>8. \A f \in OSEventTblAll : /\ Granted(f) = {u \in Tasks : Given(u, f)}
                               /\ Granted(f)' = {u \in Tasks : Given(u, f)'}
                               /\ IsFiniteSet(Granted(f)) /\ Cardinality(Granted(f)) \in Nat
  BY <1>1, GrantedAre
<1>9. /\ \A f \in OSEventTblAll : f # e => Granted(f)' = Granted(f)
      /\ Granted(e)' = Granted(e) \ {t}
  <2>1. ASSUME NEW f \in OSEventTblAll, f # e
        PROVE  Granted(f)' = Granted(f)
    <3>1. \A u \in Tasks : Given(u, f)' <=> Given(u, f)
      BY <1>5, <1>6, <1>7, <2>1
    <3> QED
      BY <1>8, <3>1
  <2>2. Granted(e)' = Granted(e) \ {t}
    <3>1. ~Given(t, e)' /\ \A u \in Tasks : u # t => (Given(u, e)' <=> Given(u, e))
      BY <1>5, <1>7
    <3> QED
      BY <1>8, <3>1
  <2> QED
    BY <2>1, <2>2
<1>10. Goods /\ Goods'
  BY <1>2, <1>3 DEF StockInv, Goods, eventVars
<1>11. ASSUME NEW f \in OSEventTblAll
       PROVE  Stock(f)'
  <2>1. /\ Held(f)' = Held(f) /\ Held(f) \in Nat /\ Stock(f) /\ credit[f] \in Int
        /\ Waited(f)' => Waited(f)
    BY <1>3, <1>10, HeldIs DEF StockInv, Goods, Held, eventVars, Waited, StageInv, TableInv, ListRows
  <2>2. CASE f = e /\ OSTCBStatPend[t] = "OK"
    <3>1. credit'[f] = credit[f] - 1
      BY <1>2, <1>3, <2>2 DEF StockInv, Goods
    <3>2. t \in Granted(e)
      BY <1>2, <1>4, <1>8, <2>2
    <3>3. Cardinality(Granted(f)') = Cardinality(Granted(f)) - 1
      BY <1>8, <1>9, <2>2, <3>2, FS_RemoveElement
    <3> QED
      BY <1>8, <2>1, <3>1, <3>3 DEF Stock
  <2>3. CASE f = e /\ OSTCBStatPend[t] # "OK"
    <3>1. credit'[f] = credit[f]
      BY <1>3, <2>3
    <3>2. Granted(f)' = Granted(f)
      BY <1>2, <1>4, <1>8, <1>9, <2>3
    <3> QED
      BY <2>1, <3>1, <3>2 DEF Stock
  <2>4. CASE f # e
    <3>1. credit'[f] = credit[f] /\ Granted(f)' = Granted(f)
      BY <1>3, <1>9, <1>10, <2>4 DEF Goods
    <3> QED
      BY <2>1, <3>1 DEF Stock
  <2> QED
    BY <2>2, <2>3, <2>4
<1> QED
  BY <1>10, <1>11 DEF StockInv

(* An event is created from the free list, with what it starts with.       *)
LEMMA CreateStock ==
  ASSUME StageInv, StageInv', StockInv, NEW t \in Tasks, pc[t] = "enter",
         NEW e \in OSEventTblAll, app' = app,
         \/ (\E n \in 0..OSSemMax : OSSemCreate(t, e, n)) /\ UNCHANGED qVars
         \/ (\E m \in Msgs \cup {NULL} : OSMboxCreate(t, e, m)) /\ UNCHANGED qVars
         \/ OSQCreate(t, e)
  PROVE  StockInv'
<1> DEFINE Made(type, n, m) ==
             /\ EventCreate(t, e, type, n, m)
             /\ n \in Nat
             /\ \/ type = "SEM" /\ m = NULL /\ UNCHANGED OSQEntries
                \/ type = "MBOX" /\ n = 0 /\ UNCHANGED OSQEntries
                \/ type = "Q" /\ n = 0 /\ m = NULL
                   /\ OSQEntries' = IF Free(e) THEN [OSQEntries EXCEPT ![e] = 0] ELSE OSQEntries
<1>1. \E type, n, m : Made(type, n, m)
  <2>1. CASE (\E n \in 0..OSSemMax : OSSemCreate(t, e, n)) /\ UNCHANGED qVars
    <3>1. PICK n \in 0..OSSemMax : OSSemCreate(t, e, n)
      BY <2>1
    <3>2. Made("SEM", n, NULL)
      BY <2>1, <3>1 DEF OSSemCreate, qVars
    <3> QED
      BY <3>2
  <2>2. CASE (\E m \in Msgs \cup {NULL} : OSMboxCreate(t, e, m)) /\ UNCHANGED qVars
    <3>1. PICK m \in Msgs \cup {NULL} : OSMboxCreate(t, e, m)
      BY <2>2
    <3>2. Made("MBOX", 0, m)
      BY <2>2, <3>1 DEF OSMboxCreate, qVars
    <3> QED
      BY <3>2
  <2>3. CASE OSQCreate(t, e)
    <3>1. Made("Q", 0, NULL)
      BY <2>3 DEF OSQCreate
    <3> QED
      BY <3>1
  <2> QED
    BY <2>1, <2>2, <2>3
<1>2. PICK type, n, m : Made(type, n, m)
  BY <1>1
<1>3. Ungiven
  <2>1. OSEventTbl' = OSEventTbl
    BY <1>2, FreeUnlisted DEF EventCreate, StageInv, TableInv, ListRows
  <2>2. UNCHANGED pendVars /\ \A u \in Tasks : CtlKept(u)
    BY <1>2, ReturnsKeep DEF EventCreate, Return, Pending
  <2> QED
    BY <2>1, <2>2 DEF Ungiven, pendVars, CtlKept
<1>4. CASE Free(e)
  <2>1. /\ OSEventType' = [OSEventType EXCEPT ![e] = type]
        /\ OSEventCnt' = [OSEventCnt EXCEPT ![e] = n]
        /\ OSEventPtr' = [OSEventPtr EXCEPT ![e] = m]
        /\ credit' = [credit EXCEPT ![e] = @ + n + (IF m = NULL THEN 0 ELSE 1)]
    BY <1>2, <1>4 DEF EventCreate
  <2>2. Goods /\ Goods'
    <3>1. Goods /\ n \in Nat /\ n + (IF m = NULL THEN 0 ELSE 1) \in Int
      BY <1>2 DEF StockInv
    <3>2. credit' \in [OSEventTblAll -> Int]
      BY <2>1, <3>1 DEF Goods
    <3>3. OSEventCnt' \in [OSEventTblAll -> Nat]
      BY <2>1, <3>1 DEF Goods
    <3>4. OSEventPtr' = [f \in OSEventTblAll |-> OSEventPtr'[f]]
      BY <2>1, <3>1 DEF Goods
    <3>5. OSQEntries' \in [OSEventTblAll -> Nat]
      BY <1>2, <1>4, <3>1 DEF Goods
    <3> QED
      BY <3>1, <3>2, <3>3, <3>4, <3>5 DEF Goods
  <2>3. Held(e) = 0 /\ ~Waited(e)
    BY <1>4, FreeUnlisted DEF Held, Free, Waited
  <2>4. credit'[e] - credit[e] = n + (IF m = NULL THEN 0 ELSE 1)
    BY <1>2, <2>1, <2>2 DEF Goods
  <2>5. Held(e)' = n + (IF m = NULL THEN 0 ELSE 1)
    BY <1>2, <1>4, <2>1, <2>2 DEF Goods, Held, StageInv, DataInv, Arrays
  <2>6. \A f \in OSEventTblAll : f # e => credit'[f] = credit[f] /\ Held(f)' = Held(f)
    BY <1>2, <1>4, <2>1, <2>2 DEF Goods, Held, StageInv, DataInv, Arrays
  <2>7. credit'[e] - credit[e] = Held(e)' - Held(e)
    BY <1>2, <2>3, <2>4, <2>5
  <2> QED
    BY <1>3, <2>2, <2>3, <2>6, <2>7, GoodsMove
<1>5. CASE ~Free(e)
  <2>1. UNCHANGED <<eventVars, credit, OSQEntries>>
    BY <1>2, <1>5 DEF EventCreate
  <2> QED
    BY <1>3, <2>1, GoodsStay
<1> QED
  BY <1>4, <1>5

(* A pend takes what there is, or waits where there is nothing.            *)
LEMMA PendStock ==
  ASSUME StageInv, StageInv', StockInv, NEW t \in Tasks, pc[t] = "enter",
         OSTCBPrio[t] = t, NEW e \in OSEventTblAll, NEW timeout,
         \/ OSEventType[e] = "SEM" /\ OSSemPend(t, e, timeout) /\ UNCHANGED qVars
         \/ OSEventType[e] = "MBOX" /\ OSMboxPend(t, e, timeout) /\ UNCHANGED qVars
         \/ OSEventType[e] = "Q" /\ OSQPend(t, e, timeout)
  PROVE  StockInv'
<1>1. OSEventCnt[e] \in Nat /\ OSQEntries[e] \in Nat
  BY DEF StockInv, Goods
<1>2. CASE /\ Return(t, FALSE)
           /\ \/ OSEventType[e] = "SEM" /\ OSSemAccept(e) /\ UNCHANGED qVars
              \/ OSEventType[e] = "MBOX" /\ OSMboxAccept(e) /\ UNCHANGED qVars
              \/ OSEventType[e] = "Q" /\ OSQAccept(e)
  <2>1. app' = app /\ \A u \in Tasks : CtlKept(u)
    BY <1>2, ReturnsKeep DEF Return, Pending
  <2> QED
    BY <1>2, <2>1, TakeStock
<1>3. CASE /\ Held(e) = 0 /\ UNCHANGED qVars
           /\ \E bit : OS_EventTaskWait(t, e, bit, timeout)
  BY <1>3, WaitStock DEF OS_EventTaskWait, histVars, qVars
<1>4. CASE OSEventType[e] = "SEM" /\ OSSemPend(t, e, timeout) /\ UNCHANGED qVars
  <2>1. CASE OSEventCnt[e] > 0
    BY <1>2, <1>4, <2>1 DEF OSSemPend
  <2>2. CASE ~(OSEventCnt[e] > 0)
    <3>1. Held(e) = 0
      BY <1>1, <1>4, <2>2 DEF Held
    <3> QED
      BY <1>3, <1>4, <2>2, <3>1 DEF OSSemPend
  <2> QED
    BY <2>1, <2>2
<1>5. CASE OSEventType[e] = "MBOX" /\ OSMboxPend(t, e, timeout) /\ UNCHANGED qVars
  <2>1. CASE OSEventPtr[e] # NULL
    BY <1>2, <1>5, <2>1 DEF OSMboxPend
  <2>2. CASE OSEventPtr[e] = NULL
    <3>1. Held(e) = 0
      BY <1>5, <2>2 DEF Held
    <3> QED
      BY <1>3, <1>5, <2>2, <3>1 DEF OSMboxPend
  <2> QED
    BY <2>1, <2>2
<1>6. CASE OSEventType[e] = "Q" /\ OSQPend(t, e, timeout)
  <2>1. CASE OSQEntries[e] > 0
    BY <1>2, <1>6, <2>1 DEF OSQPend
  <2>2. CASE ~(OSQEntries[e] > 0)
    <3>1. Held(e) = 0
      BY <1>1, <1>6, <2>2 DEF Held
    <3> QED
      BY <1>3, <1>6, <2>2, <3>1 DEF OSQPend
  <2> QED
    BY <2>1, <2>2
<1> QED
  BY <1>4, <1>5, <1>6

(* Mutexes hold nothing to book: an owner that posts to a waiter gives it   *)
(* the mutex as a permit.                                                  *)
LEMMA MutexHoldsNone ==
  ASSUME StageInv, StockInv, NEW e \in OSEventTblAll, OSEventType[e] \in {"MUTEX", "UNUSED"},
         OSEventType' = OSEventType \/ OSEventType' = [OSEventType EXCEPT ![e] = "MUTEX"],
         OSEventPtr' = OSEventPtr \/ (\E o : OSEventPtr' = [OSEventPtr EXCEPT ![e] = o]),
         UNCHANGED <<OSEventCnt, OSQEntries>>, credit' \in [OSEventTblAll -> Int]
  PROVE  Goods' /\ \A f \in OSEventTblAll : Held(f)' = Held(f)
<1>1. Goods /\ OSEventType = [f \in OSEventTblAll |-> OSEventType[f]]
  BY DEF StockInv, StageInv, DataInv, Arrays
<1>2. /\ OSEventPtr' = [f \in OSEventTblAll |-> OSEventPtr'[f]]
      /\ \A f \in OSEventTblAll : f # e => OSEventPtr'[f] = OSEventPtr[f] /\ OSEventType'[f] = OSEventType[f]
      /\ OSEventType'[e] \in {"MUTEX", "UNUSED"}
  BY <1>1 DEF Goods
<1>3. Goods'
  BY <1>1, <1>2 DEF Goods
<1>4. ASSUME NEW f \in OSEventTblAll
      PROVE  Held(f)' = Held(f)
  <2>1. CASE f = e
    BY <1>2, <2>1 DEF Held
  <2>2. CASE f # e
    BY <1>2, <2>2 DEF Held
  <2> QED
    BY <2>1, <2>2
<1> QED
  BY <1>3, <1>4

MutexCall(t) ==
  \/ call[t].op = "MutexAccept" /\ OSMutexAccept(t, call[t].ev)
  \/ call[t].op = "MutexPend" /\ OSMutexPend(t, call[t].ev, call[t].timeout)
  \/ call[t].op = "MutexPost" /\ OSMutexPost(t, call[t].ev)
  \/ call[t].op = "MutexCreate" /\ OSMutexCreate(t, call[t].ev, call[t].pip)

LEMMA MutexStock ==
  ASSUME Discipline, StageInv, StageInv', StockInv, NEW t \in OSTCBTbl, OSTCBCur = t,
         pc[t] = "enter", MutexCall(t), UNCHANGED qVars
  PROVE  StockInv'
<1> PICK e : e = call[t].ev
  OBVIOUS
<1>1. /\ t \in Tasks /\ ~Pending(t) /\ e \in OSEventTblAll /\ Goods /\ OSQEntries' = OSQEntries
      /\ call[t].op # "MutexCreate" => e \in Mutexes /\ OSEventType[e] = "MUTEX"
  <2>1. WellFormed(call[t]) /\ t \in Tasks
    BY CallerIs
  <2>2. call[t].op = "MutexCreate" => e \in OSEventTblAll
    BY <2>1 DEF WellFormed
  <2>3. call[t].op # "MutexCreate" => e \in Mutexes
    BY MutexOf DEF MutexCall
  <2> QED
    BY <2>1, <2>2, <2>3 DEF Mutexes, Pending, StockInv, qVars
<1>2. ASSUME NEW x, Return(t, x) \/ ReturnUnscheduled(t, x)
      PROVE  app' = app /\ \A u \in Tasks : Pending(u)' <=> Pending(u)
  <2>1. app' = app /\ \A u \in Tasks : CtlKept(u)
    BY <1>1, <1>2, ReturnsKeep DEF Return, ReturnUnscheduled
  <2> QED
    BY <2>1 DEF CtlKept
<1>3. CASE OSMutexAccept(t, e) /\ call[t].op # "MutexCreate"
  <2>1. Ungiven /\ credit' = credit /\ UNCHANGED <<OSEventType, OSEventCnt>>
    BY <1>2, <1>3 DEF OSMutexAccept, Ungiven, waitVars, pendVars
  <2>2. Goods' /\ \A f \in OSEventTblAll : Held(f)' = Held(f)
    <3>1. OSEventPtr' = OSEventPtr \/ (\E o : OSEventPtr' = [OSEventPtr EXCEPT ![e] = o])
      BY <1>3 DEF OSMutexAccept
    <3>2. credit' \in [OSEventTblAll -> Int]
      BY <1>1, <2>1 DEF Goods
    <3> QED
      BY <1>1, <1>3, <2>1, <3>1, <3>2, MutexHoldsNone
  <2> QED
    BY <2>1, <2>2, GoodsAlike
<1>4. CASE call[t].op = "MutexPend" /\ OSOwnerPrio[e] # NULL /\ MutexWait(t, e, call[t].timeout)
  <2>1. OSTCBPrio[t] = t /\ OSEventTbl' = [OSEventTbl EXCEPT ![e] = @ \cup {t}]
    BY <1>4, WaitRaises
  <2>2. Held(e) = 0
    BY <1>1, <1>4 DEF Held
  <2>3. /\ pc' = [pc EXCEPT ![t] = "pend"] /\ UNCHANGED <<app, credit, eventVars, OSQEntries>>
        /\ OSTCBEventPtr' = [OSTCBEventPtr EXCEPT ![t] = e]
        /\ OSTCBStatPend' = [OSTCBStatPend EXCEPT ![t] = "OK"]
    BY <1>1, <1>4 DEF MutexWait, histVars
  <2> QED
    BY <1>1, <2>1, <2>2, <2>3, WaitStock
<1>5. CASE call[t].op = "MutexPost" /\ OSMutexPost(t, e)
  <2>1. CASE Owner(e) # t
    <3>1. Return(t, FALSE) /\ UNCHANGED <<waitVars, credit, eventVars>>
      BY <1>5, <2>1 DEF OSMutexPost, dataVars
    <3>2. Ungiven
      BY <1>2, <3>1 DEF Ungiven, waitVars, pendVars
    <3> QED
      BY <1>1, <3>1, <3>2, GoodsStay
  <2>2. CASE Owner(e) = t /\ ~Waited(e)
    <3>1. /\ \E x : ReturnUnscheduled(t, x)
          /\ OSEventPtr' = [OSEventPtr EXCEPT ![e] = NULL]
          /\ UNCHANGED <<pendVars, OSEventTbl, credit, OSEventType, OSEventCnt>>
      BY <1>5, <2>2 DEF OSMutexPost
    <3>2. Ungiven
      BY <1>2, <3>1 DEF Ungiven, pendVars
    <3>3. credit' \in [OSEventTblAll -> Int]
      BY <1>1, <3>1 DEF Goods
    <3>4. Goods' /\ \A f \in OSEventTblAll : Held(f)' = Held(f)
      BY <1>1, <1>5, <3>1, <3>3, MutexHoldsNone
    <3> QED
      BY <3>1, <3>2, <3>4, GoodsAlike
  <2>3. CASE Owner(e) = t /\ Waited(e)
    <3>1. PICK R, o :
            /\ OS_EventTaskRdy(R, e, {Highest(OSEventTbl[e])}, NULL, "MUTEX", "OK")
            /\ OSEventPtr' = [OSEventPtr EXCEPT ![e] = o]
            /\ credit' = [credit EXCEPT ![e] = @ + 1] /\ Return(t, TRUE)
            /\ UNCHANGED <<OSEventType, OSEventCnt>>
      BY <1>5, <2>3 DEF OSMutexPost
    <3>2. /\ HighestWaiter(e) = {Highest(OSEventTbl[e])}
          /\ HighestWaiter(e) \subseteq OSEventTbl[e] /\ Cardinality(HighestWaiter(e)) = 1
      BY <1>1, <2>3, OneWaiter DEF HighestWaiter
    <3>3. app' = app /\ \A u \in Tasks : Pending(u)' <=> Pending(u)
      BY <1>2, <3>1
    <3>4. credit' \in [OSEventTblAll -> Int]
      BY <1>1, <3>1 DEF Goods
    <3>5. Goods' /\ \A f \in OSEventTblAll : Held(f)' = Held(f)
      BY <1>1, <1>5, <3>1, <3>4, MutexHoldsNone
    <3>6. /\ OS_EventTaskRdy(R, e, HighestWaiter(e), NULL, "MUTEX", "OK")
          /\ Booked(e, HighestWaiter(e), "OK")
      BY <3>1, <3>2 DEF Booked
    <3> QED
      BY <1>1, <3>2, <3>3, <3>5, <3>6, AnswerStock
  <2> QED
    BY <2>1, <2>2, <2>3
<1>6. CASE call[t].op = "MutexCreate" /\ OSMutexCreate(t, e, call[t].pip)
  <2>1. /\ Return(t, FALSE) /\ UNCHANGED <<pendVars, credit, OSEventCnt>>
        /\ \/ UNCHANGED <<OSEventType, OSEventPtr, OSEventTbl>>
           \/ /\ Free(e) /\ OSEventTbl' = [OSEventTbl EXCEPT ![e] = {}]
              /\ OSEventType' = [OSEventType EXCEPT ![e] = "MUTEX"]
              /\ OSEventPtr' = [OSEventPtr EXCEPT ![e] = NULL]
    BY <1>6 DEF OSMutexCreate
  <2>2. OSEventTbl' = OSEventTbl
    <3>1. Free(e) => OSEventTbl[e] = {}
      BY <1>1, FreeUnlisted
    <3>2. OSEventTbl = [f \in OSEventTblAll |-> OSEventTbl[f]]
      BY DEF StageInv, TableInv, ListRows
    <3>3. CASE Free(e) /\ OSEventTbl' = [OSEventTbl EXCEPT ![e] = {}]
      <4>1. OSEventTbl' = [f \in OSEventTblAll |-> IF f = e THEN {} ELSE OSEventTbl[f]]
        BY <3>2, <3>3
      <4>2. OSEventTbl[e] = {}
        BY <3>1, <3>3
      <4>3. \A f \in OSEventTblAll : (IF f = e THEN {} ELSE OSEventTbl[f]) = OSEventTbl[f]
        BY <4>2
      <4> QED
        BY <3>2, <4>1, <4>3
    <3> QED
      BY <2>1, <3>3
  <2>3. Ungiven
    BY <1>2, <2>1, <2>2 DEF Ungiven, pendVars
  <2>4. credit' \in [OSEventTblAll -> Int]
    BY <1>1, <2>1 DEF Goods
  <2>5. Goods' /\ \A f \in OSEventTblAll : Held(f)' = Held(f)
    <3>1. CASE Free(e)
      BY <1>1, <2>1, <2>4, <3>1, MutexHoldsNone DEF Free
    <3>2. CASE UNCHANGED <<OSEventType, OSEventPtr, OSEventTbl>>
      BY <1>1, <2>1, <2>4, <3>2 DEF Goods, Held
    <3> QED
      BY <2>1, <3>1, <3>2
  <2> QED
    BY <2>1, <2>3, <2>5, GoodsAlike
<1> QED
  BY <1>3, <1>4, <1>5, <1>6 DEF MutexCall, OSMutexPend

LEMMA TaskStock ==
  ASSUME Discipline, StageInv, StageInv', StockInv, NEW t \in OSTCBTbl, TaskSection(t)
  PROVE  StockInv'
<1>0. pc[t] = "enter" /\ ~Pending(t) /\ OSTCBCur = t
  BY DEF TaskSection, Running, Pending
<1> PICK c : c = call[t]
  OBVIOUS
<1>1. /\ t \in Tasks /\ WellFormed(c) /\ RightType(c)
      /\ c.op \notin {"TaskCreate", "TaskDel", "ChangePrio", "SemDel", "MboxDel", "QDel",
                      "MutexDel", "PendMulti"}
      /\ c.op \in PendOps => OSTCBPrio[t] = t
  BY <1>0, CallerIs, CallsAre, PenderIs DEF StageInv, TypedCalls
<1>10. CASE MutexCall(t) /\ UNCHANGED qVars
  BY <1>0, <1>10, MutexStock
<1>2. ASSUME UNCHANGED <<OSTCBEventPtr, OSEventTbl, credit, eventVars, OSQEntries>>, app' = app,
             \A u \in Tasks : CtlKept(u),
             \A u \in Tasks : Answered(u) => OSTCBStatPend'[u] = OSTCBStatPend[u]
      PROVE  StockInv'
  BY <1>0, <1>2, GoodsStay DEF Ungiven, CtlKept
<1>3. CASE \/ c.op = "SemPend" /\ OSSemPend(t, c.ev, c.timeout) /\ ForSem
           \/ c.op = "MboxPend" /\ OSMboxPend(t, c.ev, c.timeout) /\ ForSem
           \/ c.op = "QPend" /\ OSQPend(t, c.ev, c.timeout) /\ ForQ
  <2>1. c.ev \in OSEventTblAll /\ OSEventType[c.ev] = TypeFor(c.op)
    BY <1>1, <1>3, EventOf DEF RightType, TypeFor
  <2> QED
    BY <1>0, <1>1, <1>3, <2>1, PendStock DEF TypeFor, ForSem, PendOps
<1>4. CASE \/ c.op = "SemCreate" /\ OSSemCreate(t, c.ev, c.cnt) /\ ForSem
           \/ c.op = "MboxCreate" /\ OSMboxCreate(t, c.ev, c.msg) /\ ForSem
           \/ c.op = "QCreate" /\ OSQCreate(t, c.ev) /\ ForQ
  <2>1. /\ c.ev \in OSEventTblAll
        /\ c.op = "SemCreate" => c.cnt \in 0..OSSemMax
        /\ c.op = "MboxCreate" => c.msg \in Msgs \cup {NULL}
    BY <1>1, <1>4, EventOf DEF WellFormed
  <2>2. app' = app
    BY <1>4 DEF OSSemCreate, OSMboxCreate, OSQCreate, EventCreate, Return
  <2> QED
    BY <1>0, <1>1, <1>4, <2>1, <2>2, CreateStock DEF ForSem
<1>5. CASE c.op = "FlagPend" /\ OSFlagPend(t, c.wait, c.timeout) /\ ForFlag
  <2>1. CASE Return(t, FALSE) /\ UNCHANGED <<dataVars, credit>>
    <3>1. \A u \in Tasks : CtlKept(u)
      BY <1>0, <1>1, <2>1, ReturnsKeep DEF Return
    <3> QED
      BY <1>2, <1>5, <2>1, <3>1 DEF Return, dataVars, waitVars, pendVars, ForFlag, qVars
  <2>2. CASE OS_FlagBlock(t, c.wait, c.timeout)
    BY <1>0, <1>1, <1>5, <2>2, FlagWaitStock DEF ForFlag
  <2> QED
    BY <1>5, <2>1, <2>2 DEF OSFlagPend
<1>6. CASE OSFlagDel(t, c.grp, c.all) /\ ForFlag
  <2>1. PICK T, r, rdy : OS_FlagTaskRdy(T, rdy) /\ Return(t, r) /\ T \in {Linked(c.grp), {}}
    BY <1>6 DEF OSFlagDel
  <2>2. \A u \in Tasks : CtlKept(u)
    BY <1>0, <1>1, <2>1, ReturnsKeep DEF Return
  <2>3. ASSUME NEW u \in Tasks, Answered(u)
        PROVE  OSTCBStatPend'[u] = OSTCBStatPend[u]
    <3>1. u \in OSTCBTbl /\ OSTCBFlagNode[u] = NULL
      BY <1>0, <2>3, AnsweredIs, TasksAre
    <3> QED
      BY <2>1, <3>1 DEF OS_FlagTaskRdy, Linked
  <2> QED
    BY <1>2, <1>6, <2>1, <2>2, <2>3 DEF OS_FlagTaskRdy, Return, ForFlag, qVars
<1>7. CASE OSTimeDly(t, c.timeout) /\ ForTask
  <2>1. /\ \E x : Return(t, x)
        /\ UNCHANGED <<OSTCBEventPtr, OSTCBStatPend, OSEventTbl, credit, eventVars, OSQEntries>>
    BY <1>7 DEF OSTimeDly, ForTask, qVars
  <2>2. \A u \in Tasks : CtlKept(u)
    BY <1>0, <1>1, <2>1, ReturnsKeep DEF Return
  <2> QED
    BY <1>2, <2>1, <2>2 DEF Return
<1>8. CASE \/ OSFlagCreate(t, c.grp, c.flags) /\ ForFlag
           \/ OSTaskDelReq(t, c.prio) /\ ForTask
  <2>1. Return(t, FALSE) /\ UNCHANGED <<dataVars, credit, qVars>>
    BY <1>8 DEF OSFlagCreate, OSTaskDelReq, ForFlag, ForTask
  <2>2. \A u \in Tasks : CtlKept(u)
    BY <1>0, <1>1, <2>1, ReturnsKeep DEF Return
  <2> QED
    BY <1>2, <2>1, <2>2 DEF Return, dataVars, waitVars, pendVars, qVars
<1>9. CASE (OSSchedLock(t) \/ OSSchedUnlock(t)) /\ ForSem
  <2>1. /\ UNCHANGED <<dataVars, credit, app, qVars>>
        /\ \E x : x \notin {"pend", "resume"} /\ pc' = [pc EXCEPT ![t] = x]
        /\ call' = [call EXCEPT ![t] = NULL]
    BY <1>9 DEF OSSchedLock, OSSchedUnlock, ForSem, histVars
  <2>2. \A u \in Tasks : CtlKept(u)
    BY <1>0, <1>1, <2>1, ReturnsKeep
  <2> QED
    BY <1>2, <2>1, <2>2 DEF dataVars, waitVars, pendVars, qVars
<1>11. \/ c.op = "SemPend" /\ OSSemPend(t, c.ev, c.timeout) /\ ForSem
       \/ c.op = "SemCreate" /\ OSSemCreate(t, c.ev, c.cnt) /\ ForSem
       \/ c.op = "MboxPend" /\ OSMboxPend(t, c.ev, c.timeout) /\ ForSem
       \/ c.op = "MboxCreate" /\ OSMboxCreate(t, c.ev, c.msg) /\ ForSem
       \/ c.op = "QPend" /\ OSQPend(t, c.ev, c.timeout) /\ ForQ
       \/ c.op = "QCreate" /\ OSQCreate(t, c.ev) /\ ForQ
       \/ c.op = "FlagPend" /\ OSFlagPend(t, c.wait, c.timeout) /\ ForFlag
       \/ c.op = "FlagCreate" /\ OSFlagCreate(t, c.grp, c.flags) /\ ForFlag
       \/ c.op = "FlagDel" /\ OSFlagDel(t, c.grp, c.all) /\ ForFlag
       \/ MutexCall(t) /\ UNCHANGED qVars
       \/ c.op = "TimeDly" /\ OSTimeDly(t, c.timeout) /\ ForTask
       \/ c.op = "TaskDelReq" /\ OSTaskDelReq(t, c.prio) /\ ForTask
       \/ c.op = "SchedLock" /\ OSSchedLock(t) /\ ForSem
       \/ c.op = "SchedUnlock" /\ OSSchedUnlock(t) /\ ForSem
  <2>1. \/ c.op = "SemPend" /\ OSSemPend(t, c.ev, c.timeout) /\ ForSem
        \/ c.op = "SemCreate" /\ OSSemCreate(t, c.ev, c.cnt) /\ ForSem
        \/ c.op = "MboxPend" /\ OSMboxPend(t, c.ev, c.timeout) /\ ForSem
        \/ c.op = "MboxCreate" /\ OSMboxCreate(t, c.ev, c.msg) /\ ForSem
        \/ c.op = "QPend" /\ OSQPend(t, c.ev, c.timeout) /\ ForQ
        \/ c.op = "QCreate" /\ OSQCreate(t, c.ev) /\ ForQ
        \/ c.op = "FlagPend" /\ OSFlagPend(t, c.wait, c.timeout) /\ ForFlag
        \/ c.op = "FlagCreate" /\ OSFlagCreate(t, c.grp, c.flags) /\ ForFlag
        \/ c.op = "FlagDel" /\ OSFlagDel(t, c.grp, c.all) /\ ForFlag
        \/ c.op = "MutexAccept" /\ OSMutexAccept(t, c.ev) /\ UNCHANGED qVars
        \/ c.op = "MutexPend" /\ OSMutexPend(t, c.ev, c.timeout) /\ UNCHANGED qVars
        \/ c.op = "MutexPost" /\ OSMutexPost(t, c.ev) /\ UNCHANGED qVars
        \/ c.op = "MutexCreate" /\ OSMutexCreate(t, c.ev, c.pip) /\ UNCHANGED qVars
        \/ c.op = "TimeDly" /\ OSTimeDly(t, c.timeout) /\ ForTask
        \/ c.op = "TaskDelReq" /\ OSTaskDelReq(t, c.prio) /\ ForTask
        \/ c.op = "SchedLock" /\ OSSchedLock(t) /\ ForSem
        \/ c.op = "SchedUnlock" /\ OSSchedUnlock(t) /\ ForSem
    BY <1>1 DEF TaskSection
  <2> QED
    BY <2>1 DEF MutexCall
<1> QED
  BY <1>3, <1>4, <1>5, <1>6, <1>7, <1>8, <1>9, <1>10, <1>11

LEMMA LaterStock ==
  ASSUME Discipline, StageInv, StageInv', StockInv, NEW t \in OSTCBTbl, LaterSection(t)
  PROVE  StockInv'
<1>1. pc[t] = "resume" /\ OSTCBCur = t
  BY DEF LaterSection, TCBInitTake, TCBInitLink, TaskDelEnd, StageInv, TableInv, Controlled
<1>2. t \in Tasks /\ call[t].op # "PendMulti"
  BY <1>1, CallerIs, CallsAre
<1>3. \/ call[t].op \in EventPends /\ PendReturn(t, call[t].ev) /\ ForSem
      \/ call[t].op = "FlagPend" /\ FlagPendReturn(t, call[t].wait) /\ ForFlag
  BY <1>1, <1>2 DEF LaterSection, TCBInitTake, TCBInitLink, TaskDelEnd, EventPends
<1>4. Ready(t)
  BY <1>1, OnProcessor DEF Pending
<1> QED
  BY <1>1, <1>2, <1>3, <1>4, PendReturnStock, FlagReturnStock DEF ForSem, ForFlag

LEMMA StockStep ==
  ASSUME Discipline, StageInv, StageInv', StockInv, NEW t \in OSTCBTbl, Step(t)
  PROVE  StockInv'
<1>2. CASE CommonSection(t)
  <2>1. PICK c : c = call[t]
    OBVIOUS
  <2>2. /\ pc[t] = "enter" /\ OSTCBCur = t /\ Common(c)
        /\ \E r : Return(t, r) \/ ReturnUnscheduled(t, r)
    BY <1>2, <2>1 DEF CommonSection, Running
  <2>3. t \in Tasks /\ WellFormed(c) /\ RightType(c)
    BY <2>1, <2>2, CallerIs DEF StageInv, TypedCalls
  <2>4. app' = app /\ \A u \in Tasks : CtlKept(u)
    BY <2>2, <2>3, ReturnsKeep DEF Return, ReturnUnscheduled, Pending
  <2> QED
    BY <2>2, <2>3, <2>4, CommonStock
<1>3. CASE TaskSection(t)
  BY <1>3, TaskStock
<1>4. CASE LaterSection(t)
  BY <1>4, LaterStock
<1>5. CASE Call(t)
  <2>1. PICK c \in app.calls[code[t]] : call' = [call EXCEPT ![t] = c]
    BY <1>5 DEF Call
  <2>2. /\ pc' = [pc EXCEPT ![t] = "enter"] /\ pc[t] = "app" /\ OSTCBCur = t
        /\ UNCHANGED <<app, waitVars, credit, eventVars, OSQEntries>>
    BY <1>5 DEF Call, Running, dataVars, histVars, qVars
  <2>3. t \in Tasks
    BY <2>2 DEF StageInv, TableInv, Controlled
  <2>4. \A u \in Tasks : CtlKept(u)
    BY <2>1, <2>2, <2>3, ReturnsKeep DEF Pending
  <2> QED
    BY <2>2, <2>4, GoodsStay DEF Ungiven, CtlKept, waitVars, pendVars
<1>6. CASE Reschedule(t)
  <2>1. /\ pc[t] \in {"sched", "pend"}
        /\ pc' = [pc EXCEPT ![t] = IF @ = "pend" THEN "resume" ELSE "app"]
        /\ UNCHANGED <<app, waitVars, credit, eventVars, OSQEntries>>
    BY <1>6 DEF Reschedule, OS_Sched, dataVars, qVars
  <2>2. \A u \in Tasks : Pending(u)' <=> Pending(u)
    BY <2>1, TasksAre DEF Pending, StageInv, TableInv, Controlled
  <2> QED
    BY <2>1, <2>2, GoodsStay DEF Ungiven, waitVars, pendVars
<1> QED
  BY <1>2, <1>3, <1>4, <1>5, <1>6 DEF Step

LEMMA StockNext ==
  ASSUME Discipline, StageInv, StockInv, [Next]_vars
  PROVE  StockInv'
<1>1. StageInv' /\ app' = app
  BY StageNext, NextKeepsApp
<1>2. ASSUME OSIntExit
      PROVE  \A u \in Tasks : CtlKept(u)
  BY <1>2 DEF OSIntExit, ctlVars, CtlKept, Pending
<1>3. CASE Tick
  BY <1>1, <1>2, <1>3, TickStock DEF Tick
<1>4. CASE Interrupt
  <2>1. PICK c \in app.isr : Accepted(c) /\ Common(c) /\ OSIntExit
    BY <1>4 DEF Interrupt
  <2>2. WellFormed(c) /\ RightType(c)
    BY <2>1, TasksAre, TasksArePrios DEF Accepted, RightType
  <2> QED
    BY <1>1, <1>2, <2>1, <2>2, CommonStock
<1>5. CASE \E t \in OSTCBTbl : Step(t)
  BY <1>1, <1>5, StockStep
<1>6. CASE UNCHANGED vars
  <2>1. UNCHANGED <<pc, waitVars, credit, eventVars, OSQEntries>>
    BY <1>6 DEF vars, ctlVars, dataVars, histVars, qVars
  <2> QED
    BY <1>1, <2>1, GoodsStay DEF Ungiven, Pending, waitVars, pendVars
<1> QED
  BY <1>3, <1>4, <1>5, <1>6 DEF Next

LEMMA StockInit ==
  ASSUME Init
  PROVE  StockInv
<1>1. app \in Apps
  BY DEF Init
<1>2. \A e \in OSEventTblAll :
        /\ app.event[e].cnt \in Nat
        /\ app.event[e].type # "SEM" => app.event[e].cnt = 0
  <2> SUFFICES ASSUME NEW e \in OSEventTblAll
               PROVE  /\ app.event[e].cnt \in Nat
                      /\ app.event[e].type # "SEM" => app.event[e].cnt = 0
    OBVIOUS
  <2>1. EventFormed(app.event[e])
    BY <1>1, AppsAssumption
  <2>2. app.event[e].type # "SEM" => app.event[e].cnt = 0
    BY <2>1 DEF EventFormed
  <2>3. app.event[e].type = "SEM" => app.event[e].cnt \in 0..OSSemMax
    BY <2>1 DEF EventFormed
  <2>4. app.event[e].cnt \in Nat
    BY <2>2, <2>3
  <2> QED
    BY <2>2, <2>4
<1>3. /\ credit = [e \in OSEventTblAll |-> app.event[e].cnt]
      /\ OSEventCnt = [e \in OSEventTblAll |-> app.event[e].cnt]
      /\ OSEventType = [e \in OSEventTblAll |-> app.event[e].type]
      /\ OSEventPtr = [e \in OSEventTblAll |-> NULL]
      /\ OSEventTbl = [e \in OSEventTblAll |-> {}]
      /\ OSQEntries = [e \in OSEventTblAll |-> 0]
      /\ \A t \in OSTCBTbl : pc[t] \in {"app", "free"}
  BY DEF Init, QInit
<1>4. Goods
  BY <1>2, <1>3 DEF Goods
<1>5. ASSUME NEW e \in OSEventTblAll
      PROVE  Stock(e)
  <2>1. Granted(e) = {} /\ ~Waited(e)
    BY <1>3 DEF Granted, Waited
  <2>2. Cardinality(Granted(e)) = 0
    BY <2>1, FS_EmptySet
  <2>3. Held(e) = app.event[e].cnt /\ credit[e] = app.event[e].cnt
    BY <1>2, <1>3 DEF Held
  <2> QED
    BY <1>2, <2>1, <2>2, <2>3 DEF Stock
<1> QED
  BY <1>4, <1>5 DEF StockInv

(* No permit and no message is lost or made twice: what was accepted and   *)
(* not taken is inside the event or with a task that has not returned from *)
(* its pend yet, through every post, pend, timeout, abort and flush.       *)
THEOREM NothingLostCorrect == Spec /\ Discipline => []NothingLost
<1> DEFINE Inv == Discipline /\ StageInv /\ StockInv
<1>1. Init /\ Discipline => Inv
  BY StageInit, StockInit
<1>2. Inv /\ [Next]_vars => Inv'
  BY StageNext, StockNext, DisciplineKept
<1>3. Inv => NothingLost
  BY DEF StockInv, Stock, NothingLost
<1> HIDE DEF Inv
<1> QED
  BY <1>1, <1>2, <1>3, PTL DEF Spec

-----------------------------------------------------------------------------
(* No one waits for what is there                                          *)

(* Besides Discipline: flag groups are never deleted, and who consumes      *)
(* flags of a group consumes them in the sense in which the group is       *)
(* waited for: flags set where tasks wait for flags set, flags cleared     *)
(* where they wait for flags cleared.                                      *)
LastingFlags ==
  /\ Discipline
  /\ \A p \in Prio : \A d \in app.calls[p] :
       /\ d.op # "FlagDel"
       /\ d.op = "FlagPend" => \A c \in AllCalls :
            c.op \in {"FlagAccept", "FlagPend"} /\ c.wait.consume /\ c.wait.grp = d.wait.grp
              => c.wait.set = d.wait.set

Unmet ==
  \A t \in OSTCBTbl : OSTCBFlagNode[t] # NULL =>
    ~Met(OSFlagFlags[OSTCBFlagNode[t].grp], OSTCBFlagNode[t])

FlagInv ==
  /\ OSFlagType = [g \in OSFlagTbl |-> "FLAG"]
  /\ OSFlagFlags = [g \in OSFlagTbl |-> OSFlagFlags[g]]
  /\ Unmet

LEMMA NodeIs ==
  ASSUME StageInv, NEW t \in OSTCBTbl, OSTCBFlagNode[t] # NULL
  PROVE  /\ OSTCBFlagNode[t] \in FlagWait /\ OSTCBFlagNode[t].grp \in OSFlagTbl
         /\ t \in Prio
         /\ \E d \in app.calls[t] : d.op = "FlagPend" /\ d.wait = OSTCBFlagNode[t]
<1>1. t \in Tasks /\ Placed(t)
  BY DEF StageInv, TableInv, ListRows, DataInv, Stages
<1>2. Pending(t) /\ call[t].op = "FlagPend" /\ call[t].wait = OSTCBFlagNode[t]
  BY <1>1 DEF Placed, OnFlags
<1>3. call[t] \in app.calls[t] /\ WellFormed(call[t]) /\ t \in Prio
  BY <1>2, CallerIs DEF Pending
<1>4. call[t].wait \in FlagWait
  BY <1>2, <1>3 DEF WellFormed
<1> QED
  BY <1>2, <1>3, <1>4 DEF FlagWait

(* Consuming flags set ends no wait for flags set, and likewise cleared.   *)
LEMMA ConsumeKeeps ==
  ASSUME NEW v, NEW w, NEW flags, NEW rdy, ~Met(flags, v),
         w.consume => (w.set <=> v.set)
  PROVE  ~Met(Consumed(flags, w, rdy), v)
<1>1. CASE ~w.consume
  BY <1>1 DEF Consumed
<1>2. CASE w.consume /\ w.set /\ v.set
  <2>1. Consumed(flags, w, rdy) = flags \ rdy
    BY <1>2 DEF Consumed
  <2> QED
    BY <1>2, <2>1 DEF Met, FlagsRdy
<1>3. CASE w.consume /\ ~w.set /\ ~v.set
  <2>1. Consumed(flags, w, rdy) = flags \cup rdy
    BY <1>3 DEF Consumed
  <2> QED
    BY <1>3, <2>1 DEF Met, FlagsRdy
<1> QED
  BY <1>1, <1>2, <1>3

Consumes(w, rdy) ==
  OSFlagFlags' = [OSFlagFlags EXCEPT ![w.grp] = Consumed(@, w, rdy)]

(* A step that links no node and changes flags, if at all, by consuming.   *)
LEMMA ConsumeUnmet ==
  ASSUME LastingFlags, StageInv, FlagInv, NEW c \in AllCalls, NEW rdy,
         c.op \in {"FlagAccept", "FlagPend"}, c.wait \in FlagWait,
         Consumes(c.wait, rdy), OSFlagType' = OSFlagType,
         \A t \in OSTCBTbl : OSTCBFlagNode'[t] \in {OSTCBFlagNode[t], NULL}
  PROVE  FlagInv'
<1>1. ASSUME NEW t \in OSTCBTbl, OSTCBFlagNode'[t] # NULL
      PROVE  ~Met(OSFlagFlags'[OSTCBFlagNode'[t].grp], OSTCBFlagNode'[t])
  <2>1. PICK v : v = OSTCBFlagNode[t]
    OBVIOUS
  <2>2. OSTCBFlagNode'[t] = v /\ v # NULL
    BY <1>1, <2>1
  <2>3. PICK d \in app.calls[t] : d.op = "FlagPend" /\ d.wait = v
    BY <2>1, <2>2, NodeIs
  <2>4. v \in FlagWait /\ v.grp \in OSFlagTbl /\ t \in Prio
    BY <2>1, <2>2, NodeIs
  <2>5. ~Met(OSFlagFlags[v.grp], v)
    BY <2>1, <2>2 DEF FlagInv, Unmet
  <2>6. CASE v.grp = c.wait.grp
    <3>1. OSFlagFlags'[v.grp] = Consumed(OSFlagFlags[v.grp], c.wait, rdy)
      BY <2>4, <2>6 DEF FlagInv, Consumes
    <3>2. c.wait.consume => c.wait.set = v.set
      BY <2>3, <2>4, <2>6 DEF LastingFlags
    <3>3. ~Met(Consumed(OSFlagFlags[v.grp], c.wait, rdy), v)
      BY <2>5, <3>2, ConsumeKeeps
    <3> QED
      BY <2>2, <3>1, <3>3
  <2>7. CASE v.grp # c.wait.grp
    <3>1. OSFlagFlags'[v.grp] = OSFlagFlags[v.grp]
      BY <2>4, <2>7 DEF FlagInv, Consumes
    <3> QED
      BY <2>2, <2>5, <3>1
  <2> QED
    BY <2>6, <2>7
<1>2. OSFlagFlags' = [g \in OSFlagTbl |-> OSFlagFlags'[g]]
  BY DEF FlagInv, Consumes
<1> QED
  BY <1>1, <1>2 DEF FlagInv, Unmet

LEMMA NodesLeave ==
  ASSUME FlagInv, UNCHANGED <<OSFlagType, OSFlagFlags>>,
         \A t \in OSTCBTbl : OSTCBFlagNode'[t] \in {OSTCBFlagNode[t], NULL}
  PROVE  FlagInv'
<1>1. Unmet'
  BY DEF FlagInv, Unmet
<1> QED
  BY <1>1 DEF FlagInv

LEMMA PostUnmet ==
  ASSUME StageInv, FlagInv, NEW g \in OSFlagTbl, NEW flags, NEW set,
         OSFlagPost(g, flags, set)
  PROVE  FlagInv'
<1>1. PICK now, T : now = Posted(g, flags, set) /\ T = Released(g, flags, set)
  OBVIOUS
<1>2. /\ OSFlagFlags' = [OSFlagFlags EXCEPT ![g] = now] /\ OSFlagType' = OSFlagType
      /\ OSTCBFlagNode' = [t \in OSTCBTbl |-> IF t \in T THEN NULL ELSE OSTCBFlagNode[t]]
  BY <1>1 DEF OSFlagPost, OS_FlagTaskRdy
<1>3. ASSUME NEW t \in OSTCBTbl, OSTCBFlagNode'[t] # NULL
      PROVE  ~Met(OSFlagFlags'[OSTCBFlagNode'[t].grp], OSTCBFlagNode'[t])
  <2>1. PICK v : v = OSTCBFlagNode[t]
    OBVIOUS
  <2>2. OSTCBFlagNode'[t] = v /\ v # NULL /\ t \notin T
    BY <1>2, <1>3, <2>1
  <2>3. v.grp \in OSFlagTbl
    BY <2>1, <2>2, NodeIs
  <2>4. CASE v.grp = g
    <3>1. ~Met(now, v)
      BY <1>1, <2>1, <2>2, <2>4 DEF Released, Linked
    <3>2. OSFlagFlags'[v.grp] = now
      BY <1>2, <2>3, <2>4 DEF FlagInv
    <3> QED
      BY <2>2, <3>1, <3>2
  <2>5. CASE v.grp # g
    <3>1. OSFlagFlags'[v.grp] = OSFlagFlags[v.grp]
      BY <1>2, <2>3, <2>5 DEF FlagInv
    <3>2. ~Met(OSFlagFlags[v.grp], v)
      BY <2>1, <2>2 DEF FlagInv, Unmet
    <3> QED
      BY <2>2, <3>1, <3>2
  <2> QED
    BY <2>4, <2>5
<1>4. OSFlagFlags' = [h \in OSFlagTbl |-> OSFlagFlags'[h]] /\ OSFlagType' = [h \in OSFlagTbl |-> "FLAG"]
  BY <1>2 DEF FlagInv
<1> QED
  BY <1>3, <1>4 DEF FlagInv, Unmet

(* A task that comes to wait does not find its flags.                      *)
LEMMA BlockUnmet ==
  ASSUME StageInv, FlagInv, NEW t \in OSTCBTbl, NEW w, NEW timeout,
         ~Met(OSFlagFlags[w.grp], w), OS_FlagBlock(t, w, timeout)
  PROVE  FlagInv'
<1>1. /\ OSTCBFlagNode' = [OSTCBFlagNode EXCEPT ![t] = w]
      /\ UNCHANGED <<OSFlagType, OSFlagFlags>>
  BY DEF OS_FlagBlock
<1>2. Unmet'
  <2> SUFFICES ASSUME NEW u \in OSTCBTbl, OSTCBFlagNode'[u] # NULL
               PROVE  ~Met(OSFlagFlags[OSTCBFlagNode'[u].grp], OSTCBFlagNode'[u])
    BY <1>1 DEF Unmet
  <2>1. CASE u = t
    <3>1. OSTCBFlagNode'[u] = w
      BY <1>1, <2>1 DEF StageInv, TableInv, ListRows
    <3> QED
      BY <3>1
  <2>2. CASE u # t
    <3>1. OSTCBFlagNode'[u] = OSTCBFlagNode[u]
      BY <1>1, <2>2 DEF StageInv, TableInv, ListRows
    <3> QED
      BY <3>1 DEF FlagInv, Unmet
  <2> QED
    BY <2>1, <2>2
<1> QED
  BY <1>1, <1>2 DEF FlagInv

LEMMA CommonUnmet ==
  ASSUME LastingFlags, StageInv, FlagInv, NEW c \in AllCalls, WellFormed(c), Common(c)
  PROVE  FlagInv'
<1>1. CASE c.op = "FlagAccept" /\ OSFlagAccept(c.wait)
  <2>1. UNCHANGED <<OSFlagType, OSTCBFlagNode>> /\ c.wait \in FlagWait
    BY <1>1 DEF OSFlagAccept, WellFormed
  <2>2. CASE Met(OSFlagFlags[c.wait.grp], c.wait)
    <3>1. PICK rdy : rdy = FlagsRdy(OSFlagFlags[c.wait.grp], c.wait)
      OBVIOUS
    <3>2. Consumes(c.wait, rdy)
      BY <1>1, <2>2, <3>1 DEF OSFlagAccept, Consumes
    <3> QED
      BY <1>1, <2>1, <3>2, ConsumeUnmet
  <2>3. CASE ~Met(OSFlagFlags[c.wait.grp], c.wait)
    <3>1. OSFlagFlags' = OSFlagFlags
      BY <1>1, <2>3 DEF OSFlagAccept
    <3> QED
      BY <2>1, <3>1, NodesLeave
  <2> QED
    BY <2>2, <2>3
<1>2. CASE c.op = "FlagPost" /\ OSFlagPost(c.grp, c.flags, c.set)
  <2>1. c.grp \in OSFlagTbl
    BY <1>2 DEF WellFormed
  <2> QED
    BY <1>2, <2>1, PostUnmet
<1>3. CASE UNCHANGED flagVars
  BY <1>3, NodesLeave DEF flagVars
<1> QED
  BY <1>1, <1>2, <1>3 DEF Common, ForSem, ForQ, OSTimeDlyResume, OSTaskSuspend, OSTaskResume

LEMMA TaskUnmet ==
  ASSUME LastingFlags, StageInv, FlagInv, NEW t \in OSTCBTbl, TaskSection(t)
  PROVE  FlagInv'
<1>0. pc[t] = "enter"
  BY DEF TaskSection, Running
<1> PICK c : c = call[t]
  OBVIOUS
<1>1. /\ WellFormed(c) /\ c \in AllCalls
      /\ c.op \notin {"TaskCreate", "TaskDel", "ChangePrio", "SemDel", "MboxDel", "QDel",
                      "MutexDel", "PendMulti", "FlagDel"}
  <2>1. t \in Prio /\ c \in app.calls[t] /\ WellFormed(c) /\ c \in AllCalls
    BY <1>0, CallerIs
  <2>2. c.op \notin {"TaskCreate", "TaskDel", "ChangePrio", "SemDel", "MboxDel", "QDel",
                     "MutexDel", "PendMulti"}
    BY <1>0, CallsAre DEF LastingFlags
  <2> QED
    BY <2>1, <2>2 DEF LastingFlags
<1>2. CASE UNCHANGED flagVars
  BY <1>2, NodesLeave DEF flagVars
<1>3. CASE c.op = "FlagPend" /\ OSFlagPend(t, c.wait, c.timeout)
  <2>1. CASE Met(OSFlagFlags[c.wait.grp], c.wait)
    <3>1. PICK rdy : rdy = FlagsRdy(OSFlagFlags[c.wait.grp], c.wait)
      OBVIOUS
    <3>2. Consumes(c.wait, rdy) /\ UNCHANGED <<OSFlagType, OSTCBFlagNode>> /\ c.wait \in FlagWait
      BY <1>1, <1>3, <2>1, <3>1 DEF OSFlagPend, Consumes, WellFormed
    <3> QED
      BY <1>1, <1>3, <3>2, ConsumeUnmet
  <2>2. CASE ~Met(OSFlagFlags[c.wait.grp], c.wait)
    <3>1. OS_FlagBlock(t, c.wait, c.timeout)
      BY <1>3, <2>2 DEF OSFlagPend
    <3> QED
      BY <2>2, <3>1, BlockUnmet
  <2> QED
    BY <2>1, <2>2
<1>4. CASE OSFlagCreate(t, c.grp, c.flags) /\ c.op = "FlagCreate"
  <2>1. c.grp \in OSFlagTbl
    BY <1>1, <1>4 DEF WellFormed
  <2>2. UNCHANGED <<OSFlagType, OSFlagFlags, OSTCBFlagNode>>
    BY <1>4, <2>1 DEF OSFlagCreate, FlagInv
  <2> QED
    BY <2>2, NodesLeave
<1>5. CASE OSTimeDly(t, c.timeout) \/ OSTaskDelReq(t, c.prio)
  BY <1>2, <1>5 DEF OSTimeDly, OSTaskDelReq
<1>6. CASE \/ OSMutexAccept(t, c.ev) \/ OSMutexPend(t, c.ev, c.timeout)
           \/ OSMutexPost(t, c.ev) \/ OSMutexCreate(t, c.ev, c.pip)
  BY <1>2, <1>6 DEF OSMutexAccept, OSMutexPend, MutexWait, OSMutexPost, OSMutexCreate
<1> QED
  BY <1>1, <1>2, <1>3, <1>4, <1>5, <1>6 DEF TaskSection, ForSem, ForQ

LEMMA LaterUnmet ==
  ASSUME LastingFlags, StageInv, FlagInv, NEW t \in OSTCBTbl, LaterSection(t)
  PROVE  FlagInv'
<1>1. pc[t] = "resume"
  BY DEF LaterSection, TCBInitTake, TCBInitLink, TaskDelEnd, StageInv, TableInv, Controlled
<1> PICK c : c = call[t]
  OBVIOUS
<1>2. WellFormed(c) /\ c \in AllCalls /\ c.op # "PendMulti"
  BY <1>1, CallerIs, CallsAre DEF LastingFlags
<1>3. \/ UNCHANGED flagVars
      \/ c.op = "FlagPend" /\ FlagPendReturn(t, c.wait)
  BY <1>1, <1>2 DEF LaterSection, TCBInitTake, TCBInitLink, TaskDelEnd, ForSem, ForQ
<1>4. CASE UNCHANGED flagVars
  BY <1>4, NodesLeave DEF flagVars
<1>5. CASE c.op = "FlagPend" /\ FlagPendReturn(t, c.wait)
  <2>1. c.wait \in FlagWait
    BY <1>2, <1>5 DEF WellFormed
  <2>2. CASE OSTCBStatPend[t] # "OK"
    <3>1. /\ OSTCBFlagNode' = [OSTCBFlagNode EXCEPT ![t] = NULL]
          /\ UNCHANGED <<OSFlagType, OSFlagFlags>>
      BY <1>5, <2>2 DEF FlagPendReturn
    <3>2. \A u \in OSTCBTbl : OSTCBFlagNode'[u] \in {OSTCBFlagNode[u], NULL}
      BY <3>1 DEF StageInv, TableInv, ListRows
    <3> QED
      BY <3>1, <3>2, NodesLeave
  <2>3. CASE OSTCBStatPend[t] = "OK"
    <3>1. PICK rdy : rdy = OSTCBFlagsRdy[t]
      OBVIOUS
    <3>2. Consumes(c.wait, rdy) /\ UNCHANGED <<OSFlagType, OSTCBFlagNode>>
      BY <1>5, <2>3, <3>1 DEF FlagPendReturn, Consumes
    <3> QED
      BY <1>2, <1>5, <2>1, <3>2, ConsumeUnmet
  <2> QED
    BY <2>2, <2>3
<1> QED
  BY <1>3, <1>4, <1>5

LEMMA UnmetNext ==
  ASSUME LastingFlags, StageInv, FlagInv, [Next]_vars
  PROVE  FlagInv'
<1>2. CASE UNCHANGED flagVars
  BY <1>2, NodesLeave DEF flagVars
<1>3. CASE Interrupt
  <2>1. PICK c \in app.isr : Common(c)
    BY <1>3 DEF Interrupt
  <2>2. WellFormed(c) /\ c \in AllCalls
    BY <2>1, TasksAre, TasksArePrios DEF AllCalls
  <2> QED
    BY <2>1, <2>2, CommonUnmet
<1>4. ASSUME NEW t \in OSTCBTbl, Step(t)
      PROVE  FlagInv'
  <2>1. CASE CommonSection(t)
    <3>1. PICK c : c = call[t]
      OBVIOUS
    <3>2. pc[t] = "enter" /\ Common(c)
      BY <2>1, <3>1 DEF CommonSection, Running
    <3>3. WellFormed(c) /\ c \in AllCalls
      BY <3>1, <3>2, CallerIs
    <3> QED
      BY <3>2, <3>3, CommonUnmet
  <2>2. CASE TaskSection(t)
    BY <2>2, TaskUnmet
  <2>3. CASE LaterSection(t)
    BY <2>3, LaterUnmet
  <2>4. CASE Call(t) \/ Reschedule(t)
    BY <1>2, <2>4 DEF Call, Reschedule
  <2> QED
    BY <1>4, <2>1, <2>2, <2>3, <2>4 DEF Step
<1> QED
  BY <1>2, <1>3, <1>4 DEF Next, Tick, vars

LEMMA UnmetInit ==
  ASSUME Init
  PROVE  FlagInv
BY DEF Init, FlagInit, FlagInv, Unmet

(* No task sits in the wait list of an event that holds something, nor in  *)
(* the list of a flag group whose flags are as it wants them.              *)
THEOREM NoWaiterWhileAvailableCorrect == Spec /\ LastingFlags => []NoWaiterWhileAvailable
<1> DEFINE Inv == LastingFlags /\ StageInv /\ StockInv /\ FlagInv
<1>1. Init /\ LastingFlags => Inv
  BY StageInit, StockInit, UnmetInit DEF LastingFlags
<1>2. Inv /\ [Next]_vars => Inv'
  <2> SUFFICES ASSUME Inv, [Next]_vars
               PROVE  Inv'
    OBVIOUS
  <2>1. StageInv' /\ StockInv' /\ FlagInv' /\ Discipline'
    BY StageNext, StockNext, UnmetNext, DisciplineKept DEF LastingFlags
  <2>2. app' = app
    BY NextKeepsApp
  <2>3. LastingFlags'
    BY <2>1, <2>2 DEF LastingFlags, AllCalls
  <2> QED
    BY <2>1, <2>3
<1>3. Inv => NoWaiterWhileAvailable
  BY DEF StockInv, Stock, FlagInv, Unmet, NoWaiterWhileAvailable
<1> HIDE DEF Inv
<1> QED
  BY <1>1, <1>2, <1>3, PTL DEF Spec
=============================================================================
