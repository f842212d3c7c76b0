-------------------------------- MODULE UcosQ --------------------------------
(***************************************************************************)
(* Message queues, os_q.c: a ring of OSQSize slots with the place of the   *)
(* next message in and out and the number of entries; a slot keeps its     *)
(* message when it is taken.                                               *)
(***************************************************************************)
EXTENDS UcosCore, Sequences

CONSTANT OSQSize          \* slots of a queue

ASSUME QAssumption == OSQSize \in Nat \ {0}

VARIABLES OSQIn, OSQOut, OSQEntries, OSQStart

qVars == <<OSQIn, OSQOut, OSQEntries, OSQStart>>

Slots == 0..OSQSize-1
Wrap(i) == IF i = OSQSize THEN 0 ELSE i

QInit ==
  /\ OSQIn = [e \in OSEventTblAll |-> 0]
  /\ OSQOut = [e \in OSEventTblAll |-> 0]
  /\ OSQEntries = [e \in OSEventTblAll |-> 0]
  /\ OSQStart = [e \in OSEventTblAll |-> [i \in Slots |-> NULL]]

(* The messages in the ring, the oldest first. *)
QContents(e) ==
  [k \in 1..OSQEntries[e] |-> OSQStart[e][(OSQOut[e] + k - 1) % OSQSize]]

QTake(e) ==
  /\ OSQOut' = [OSQOut EXCEPT ![e] = Wrap(@ + 1)]
  /\ OSQEntries' = [OSQEntries EXCEPT ![e] = @ - 1]
  /\ UNCHANGED <<OSQIn, OSQStart>>

QPutBack(e, msg) ==
  /\ OSQStart' = [OSQStart EXCEPT ![e][OSQIn[e]] = msg]
  /\ OSQIn' = [OSQIn EXCEPT ![e] = Wrap(@ + 1)]
  /\ OSQEntries' = [OSQEntries EXCEPT ![e] = @ + 1]
  /\ UNCHANGED OSQOut

QPutFront(e, msg) ==
  LET slot == (IF OSQOut[e] = 0 THEN OSQSize ELSE OSQOut[e]) - 1
  IN /\ OSQOut' = [OSQOut EXCEPT ![e] = slot]
     /\ OSQStart' = [OSQStart EXCEPT ![e][slot] = msg]
     /\ OSQEntries' = [OSQEntries EXCEPT ![e] = @ + 1]
     /\ UNCHANGED OSQIn

OSQAccept(e) ==
  /\ IF OSQEntries[e] > 0
       THEN QTake(e) /\ credit' = [credit EXCEPT ![e] = @ - 1]
       ELSE UNCHANGED <<qVars, credit>>
  /\ UNCHANGED <<waitVars, taskVars, eventVars>>

(* OSQPost, OSQPostFront and OSQPostOpt. *)
OSQPost(e, msg, front, all) ==
  /\ IF Waited(e)
       THEN /\ OS_EventTaskRdy(OSRdyTbl, e, IF all THEN OSEventTbl[e] ELSE HighestWaiter(e),
                               msg, "Q", "OK")
            /\ credit' = [credit EXCEPT ![e] =
                 @ + (IF all THEN Cardinality(OSEventTbl[e]) ELSE 1)]
            /\ UNCHANGED qVars
       ELSE /\ IF OSQEntries[e] >= OSQSize
                 THEN UNCHANGED <<qVars, credit>>
                 ELSE /\ IF front THEN QPutFront(e, msg) ELSE QPutBack(e, msg)
                      /\ credit' = [credit EXCEPT ![e] = @ + 1]
            /\ UNCHANGED waitVars
  /\ UNCHANGED <<taskVars, eventVars>>

(* mutant: OSQIn is left where it was *)
OSQFlushOut(e) ==
  /\ OSQOut' = [OSQOut EXCEPT ![e] = 0]
  /\ OSQEntries' = [OSQEntries EXCEPT ![e] = 0]
  /\ credit' = [credit EXCEPT ![e] = @ - OSQEntries[e]]
  /\ UNCHANGED <<OSQIn, OSQStart, waitVars, taskVars, eventVars>>

OSQFlush(e) ==
  /\ OSQIn' = [OSQIn EXCEPT ![e] = 0]
  /\ OSQOut' = [OSQOut EXCEPT ![e] = 0]
  /\ OSQEntries' = [OSQEntries EXCEPT ![e] = 0]
  /\ credit' = [credit EXCEPT ![e] = @ - OSQEntries[e]]
  /\ UNCHANGED <<OSQStart, waitVars, taskVars, eventVars>>

OSQPendAbort(e, all) == PendAbort(e, all, "Q") /\ UNCHANGED qVars

OSQPend(t, e, timeout) ==
  IF OSQEntries[e] > 0
    THEN OSQAccept(e) /\ Return(t, FALSE)
    ELSE OS_EventTaskWait(t, e, "Q", timeout) /\ UNCHANGED qVars

OSQCreate(t, e) ==
  /\ EventCreate(t, e, "Q", 0, NULL)
  /\ IF Free(e)
       THEN /\ OSQIn' = [OSQIn EXCEPT ![e] = 0]
            /\ OSQOut' = [OSQOut EXCEPT ![e] = 0]
            /\ OSQEntries' = [OSQEntries EXCEPT ![e] = 0]
       ELSE UNCHANGED <<OSQIn, OSQOut, OSQEntries>>
  /\ UNCHANGED OSQStart

OSQDel(t, e, always) == EventDel(t, e, always, "Q") /\ UNCHANGED qVars
=============================================================================
