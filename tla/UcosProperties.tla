---------------------------- MODULE UcosProperties ----------------------------
(***************************************************************************)
(* What the kernel must keep true between its critical sections, whatever  *)
(* the tasks call and whenever interrupts strike.                          *)
(***************************************************************************)
EXTENDS Ucos

(* A task that exists: its TCB is in the priority table and is not being deleted. *)
Live(t) ==
  /\ OSTCBPrioTbl[OSTCBPrio[t]] = t
  /\ pc[t] # "free"
  /\ pc[t] = "delete" => call[t].tcb # t

Listed(t) ==
  \/ \E e \in OSEventTblAll : OSTCBPrio[t] \in OSEventTbl[e]
  \/ OSTCBFlagNode[t] # NULL

(* Listed, and neither timed out nor aborted. *)
Waits(t) == Listed(t) /\ OSTCBStatPend[t] = "OK"

Pending(t) == pc[t] \in {"pend", "resume"}

Waitees(t) ==
  CASE call[t].op = "PendMulti" -> call[t].evs
    [] call[t].op = "FlagPend" -> {}
    [] OTHER -> {call[t].ev}

(* The permits or messages inside an event. *)
Held(e) ==
  CASE OSEventType[e] = "SEM" -> OSEventCnt[e]
    [] OSEventType[e] = "MBOX" -> IF OSEventPtr[e] = NULL THEN 0 ELSE 1
    [] OSEventType[e] = "Q" -> OSQEntries[e]
    [] OTHER -> 0

TypeOK ==
  /\ app \in Apps
  /\ \A t \in OSTCBTbl :
       pc[t] \in {"app", "enter", "sched", "pend", "resume", "create", "link", "delete", "free"}
  /\ OSTCBCur \in OSTCBTbl /\ OSPrioCur \in Prio /\ OSLockNesting \in 0..255
  /\ OSRdyTbl \subseteq Prio
  /\ OSTCBPrioTbl \in [Prio -> OSTCBTbl \cup {NULL, OS_TCB_RESERVED}]
  /\ OSTCBFreeList \subseteq OSTCBTbl
  /\ OSTCBPrio \in [OSTCBTbl -> Prio]
  /\ \A t \in OSTCBTbl : OSTCBStat[t] \subseteq OS_STAT_PEND_ANY \cup {"MULTI", "SUSPEND"}
  /\ OSTCBStatPend \in [OSTCBTbl -> {"OK", "TO", "ABORT"}]
  /\ \A t \in OSTCBTbl : OSTCBDly[t] \in Nat
  /\ OSTCBEventPtr \in [OSTCBTbl -> OSEventTblAll \cup {NULL}]
  /\ \A t \in OSTCBTbl : OSTCBEventMultiPtr[t] \subseteq OSEventTblAll
  /\ OSTCBMsg \in [OSTCBTbl -> Msgs \cup {NULL}]
  /\ OSEventType \in [OSEventTblAll -> {"SEM", "MBOX", "Q", "MUTEX", "UNUSED"}]
  /\ OSEventCnt \in [OSEventTblAll -> 0..OSSemMax]
  /\ OSEventPtr \in [OSEventTblAll -> Msgs \cup OSTCBTbl \cup {NULL}]
  /\ OSEventTbl \in [OSEventTblAll -> SUBSET Prio]
  /\ credit \in [OSEventTblAll -> Int] /\ deferred \in BOOLEAN
  /\ OSQIn \in [OSEventTblAll -> Slots] /\ OSQOut \in [OSEventTblAll -> Slots]
  /\ OSQEntries \in [OSEventTblAll -> 0..OSQSize]
  /\ OSQStart \in [OSEventTblAll -> [Slots -> Msgs \cup {NULL}]]
  /\ \A g \in OSFlagTbl : OSFlagType[g] \in {"FLAG", "UNUSED"} /\ OSFlagFlags[g] \subseteq Flags
  /\ \A t \in OSTCBTbl : OSTCBFlagsRdy[t] \subseteq Flags
  /\ OSTCBDelReq \subseteq OSTCBTbl

(* A task is in the ready table exactly when nothing holds it: it is not   *)
(* suspended, not delayed and not waiting.  A task that a post, a timeout, *)
(* an abort, a deletion and a resume reach in any order is never left out  *)
(* of the table for good, and never put back while something still holds   *)
(* it; and no other priority is in the table.                              *)
ReadyIffRunnable ==
  /\ \A t \in OSTCBTbl : Live(t) =>
       (OSTCBPrio[t] \in OSRdyTbl <=>
          "SUSPEND" \notin OSTCBStat[t] /\ OSTCBDly[t] = 0 /\ ~Waits(t))
  /\ \A p \in OSRdyTbl : \E t \in OSTCBTbl : Live(t) /\ OSTCBPrio[t] = p

(* A wait list names only tasks that are inside a pend on that event and   *)
(* have not been given it: a post never goes to a task that does not wait. *)
WaitListsExact ==
  \A e \in OSEventTblAll : \A p \in OSEventTbl[e] :
    \E t \in OSTCBTbl :
      /\ Live(t) /\ OSTCBPrio[t] = p
      /\ Pending(t) /\ e \in Waitees(t)
      /\ OSTCBStatPend[t] # "ABORT"

(* Between services the processor has the ready task of highest priority,  *)
(* but for a locked scheduler, a post that asked for no scheduling, and    *)
(* the return of OSMutexPost when no task waits any more, which leaves     *)
(* OS_Sched out though the caller may have been put back to a lower        *)
(* priority (deferred).                                                    *)
HighestRuns ==
  OSLockNesting = 0 /\ ~deferred /\ pc[OSTCBCur] \notin {"sched", "pend"}
    => OSTCBCur = OSTCBPrioTbl[Highest(OSRdyTbl)]

(* No permit and no message is lost or made twice, however posts, timeouts *)
(* and aborts meet: what was accepted and not taken is inside the event or *)
(* with a task that has not returned from its pend yet.                    *)
NothingLost ==
  \A e \in OSEventTblAll : credit[e] = Held(e) + Cardinality(Granted(e))

(* No task sits in a wait list next to what it waits for. *)
NoWaiterWhileAvailable ==
  /\ \A e \in OSEventTblAll : Waited(e) => Held(e) = 0
  /\ \A t \in OSTCBTbl : OSTCBFlagNode[t] # NULL =>
       ~Met(OSFlagFlags[OSTCBFlagNode[t].grp], OSTCBFlagNode[t])

(* The owner of a mutex is a task that lives, and it has at least the      *)
(* priority of every task that waits for the mutex; no one waits for a     *)
(* mutex that is free.                                                     *)
OwnerOutranksWaiters ==
  \A e \in OSEventTblAll : OSEventType[e] = "MUTEX" =>
    /\ Waited(e) => OSEventPtr[e] # NULL
    /\ OSEventPtr[e] # NULL =>
         /\ Live(OSEventPtr[e])
         /\ \A p \in OSEventTbl[e] : OSTCBPrio[OSEventPtr[e]] < p

(* The ring of a queue is a first-in first-out sequence of messages through *)
(* every wrap of its two indices, posts to the front and flushes included;  *)
(* NULL is a message like any other (OSQPost).                              *)
Fifo(e) == INSTANCE UcosFifo WITH q <- QContents(e), Size <- OSQSize, Msgs <- Msgs \cup {NULL}
QueuesAreFifo ==
  /\ \A e \in OSEventTblAll : Fifo(e)!Init
  /\ [][\A e \in OSEventTblAll : [Fifo(e)!Next]_(QContents(e))]_vars

(* Ticks keep coming, and the processor keeps executing. *)
Fairness == WF_vars(Tick) /\ WF_vars(\E t \in OSTCBTbl : Step(t))
FairSpec == Spec /\ Fairness

(* Whatever else happens, the task of highest priority comes back from a   *)
(* pend with a timeout, unless it is suspended, the scheduler is locked or *)
(* another task is raised above it.                                        *)
HighestPends == Live(1) /\ OSTCBPrio[1] = 1 /\ Pending(1) /\ ~Exists(0)
TimedPendReturns ==
  HighestPends /\ OSTCBDly[1] > 0
    ~> (~HighestPends \/ "SUSPEND" \in OSTCBStat[1] \/ OSLockNesting > 0)
=============================================================================
