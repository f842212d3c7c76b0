-------------------------------- MODULE Ucos --------------------------------
(***************************************************************************)
(* The kernel with an application: tasks that call any of their services,  *)
(* in any order and any number of times, and interrupts that strike        *)
(* between any two critical sections.                                      *)
(*                                                                         *)
(* An application is a record: the priorities of the tasks started before  *)
(* OSStart, for each priority the calls the task created with it makes,    *)
(* the calls interrupts make beside the tick, and the events and flag      *)
(* groups created before OSStart.  A call is a record of a service and its *)
(* arguments.                                                              *)
(***************************************************************************)
EXTENDS UcosMulti, UcosMutex

CONSTANT MaxLockNesting

PendOps == {"SemPend", "MboxPend", "QPend", "MutexPend", "PendMulti", "FlagPend"}

TypeFor(op) ==
  CASE op \in {"SemAccept", "SemDel", "SemPend", "SemPendAbort", "SemPost", "SemSet"} -> "SEM"
    [] op \in {"MboxAccept", "MboxDel", "MboxPend", "MboxPendAbort", "MboxPost"} -> "MBOX"
    [] op \in {"QAccept", "QDel", "QFlush", "QPend", "QPendAbort", "QPost"} -> "Q"
    [] op \in {"MutexAccept", "MutexDel", "MutexPend", "MutexPost"} -> "MUTEX"
    [] OTHER -> "none"

(* The arguments a caller must get right, which the services refuse        *)
(* otherwise (OS_ARG_CHK_EN): events and flag groups exist, what is posted *)
(* is a message, priorities are in range, OSTaskSuspend leaves the idle    *)
(* task alone.  A delay of 0 is none.                                      *)
WellFormed(c) ==
  /\ TypeFor(c.op) # "none" \/ c.op \in {"SemCreate", "MboxCreate", "QCreate", "MutexCreate"}
       => c.ev \in OSEventTblAll
  /\ c.op = "PendMulti" => c.evs \subseteq OSEventTblAll
  /\ c.op \in PendOps \cup {"TimeDly"} => c.timeout \in Nat
  /\ c.op = "TimeDly" => c.timeout > 0
  /\ c.op \in {"SemCreate", "SemSet"} => c.cnt \in 0..OSSemMax
  /\ c.op = "MboxPost" => c.msg \in Msgs
  /\ c.op \in {"MboxCreate", "QPost"} => c.msg \in Msgs \cup {NULL}
  /\ c.op \in {"FlagAccept", "FlagPend"} => c.wait \in FlagWait
  /\ c.op \in {"FlagCreate", "FlagPost"} => c.grp \in OSFlagTbl /\ c.flags \subseteq Flags
  /\ c.op = "FlagDel" => c.grp \in OSFlagTbl
  /\ c.op \in {"TaskCreate", "TaskDelReq"} => c.prio \in Prio
  /\ c.op \in {"TaskSuspend", "TaskResume", "TimeDlyResume"} => c.prio \in Prio \ {Idle}
  /\ c.op \in {"ChangePrio", "TaskDel"} => c.prio \in (Prio \ {Idle}) \cup {NULL}
  /\ c.op = "ChangePrio" => c.newprio \in Prio \ {Idle}
  /\ c.op = "MutexCreate" => c.pip \in Prio \ {Idle}

(* An application starts the idle task, which calls nothing; before        *)
(* OSStart it creates events, semaphores with a count.                     *)
EventFormed(v) ==
  /\ v.type \in {"SEM", "MBOX", "Q", "MUTEX", "UNUSED"}
  /\ v.cnt \in (IF v.type = "SEM" THEN 0..OSSemMax ELSE {0})
  /\ v.type = "MUTEX" => v.pip \in Prio \ {Idle}

(* A priority is given once, to a task or to a mutex. *)
PipsFormed(a) ==
  LET M == {e \in OSEventTblAll : a.event[e].type = "MUTEX"}
  IN /\ \A e \in M : a.event[e].pip \notin a.tasks
     /\ \A e \in M, f \in M : e # f => a.event[e].pip # a.event[f].pip

ASSUME AppsAssumption ==
  \A a \in Apps :
    /\ Idle \in a.tasks /\ a.tasks \subseteq OSTCBTbl
    /\ \A e \in OSEventTblAll : EventFormed(a.event[e])
    /\ PipsFormed(a)
    /\ \A c \in a.isr : WellFormed(c)
    /\ \A p \in Prio : \A c \in a.calls[p] : WellFormed(c)
    /\ a.calls[Idle] = {}

vars == <<app, ctlVars, schedVars, dataVars, histVars, qVars, flagVars, mutexVars, OSTCBDelReq>>

Init ==
  /\ app \in Apps
  /\ pc = [t \in OSTCBTbl |-> IF t \in app.tasks THEN "app" ELSE "free"]
  /\ call = [t \in OSTCBTbl |-> NULL]
  /\ code = [t \in OSTCBTbl |-> t]
  /\ OSTCBCur = Highest(app.tasks)
  /\ OSPrioCur = Highest(app.tasks)
  /\ OSLockNesting = 0
  /\ OSRdyTbl = app.tasks
  /\ OSTCBPrio = [t \in OSTCBTbl |-> t]
  /\ OSTCBFreeList = OSTCBTbl \ app.tasks
  /\ OSTCBPrioTbl = [p \in Prio |->
       IF p \in app.tasks THEN p
       ELSE IF \E e \in OSEventTblAll : app.event[e].type = "MUTEX" /\ app.event[e].pip = p
         THEN OS_TCB_RESERVED ELSE NULL]
  /\ OSTCBStat = [t \in OSTCBTbl |-> {}]
  /\ OSTCBStatPend = [t \in OSTCBTbl |-> "OK"]
  /\ OSTCBDly = [t \in OSTCBTbl |-> 0]
  /\ OSTCBEventPtr = [t \in OSTCBTbl |-> NULL]
  /\ OSTCBEventMultiPtr = [t \in OSTCBTbl |-> {}]
  /\ OSTCBMsg = [t \in OSTCBTbl |-> NULL]
  /\ OSTCBDelReq = {}
  /\ OSEventType = [e \in OSEventTblAll |-> app.event[e].type]
  /\ OSEventCnt = [e \in OSEventTblAll |-> app.event[e].cnt]
  /\ OSEventPtr = [e \in OSEventTblAll |-> NULL]
  /\ OSEventTbl = [e \in OSEventTblAll |-> {}]
  /\ OSMutexPIP = [e \in OSEventTblAll |-> app.event[e].pip]
  /\ OSOwnerPrio = [e \in OSEventTblAll |-> NULL]
  /\ credit = [e \in OSEventTblAll |-> app.event[e].cnt]
  /\ deferred = FALSE
  /\ QInit
  /\ FlagInit

-----------------------------------------------------------------------------
(* Calls.  What a service checks before its first critical section is      *)
(* checked when the call begins; the section comes later, and interrupts   *)
(* and higher tasks in between.                                            *)

Accepted(c) ==
  /\ c.op \in PendOps => OSLockNesting = 0
  /\ TypeFor(c.op) # "none" => OSEventType[c.ev] = TypeFor(c.op)
  /\ c.op = "PendMulti" => \A e \in c.evs : OSEventType[e] \in Waitable
  /\ c.op \in {"FlagAccept", "FlagPend"} => OSFlagType[c.wait.grp] = "FLAG"
  /\ c.op \in {"FlagPost", "FlagDel"} => OSFlagType[c.grp] = "FLAG"

(* What the comments forbid: the owner of a mutex pends on nothing and     *)
(* keeps its priority.  Beyond them, only the owner deletes a mutex.  The   *)
(* nesting of OSSchedLock is bounded.                                      *)
OwnsMutex(t) == \E e \in OSEventTblAll : OSEventType[e] = "MUTEX" /\ OSEventPtr[e] = t
Permitted(t, c) ==
  /\ c.op \in PendOps => ~OwnsMutex(t)
  /\ c.op = "ChangePrio" => ~OwnsMutex(OSTCBPrioTbl[OfPrio(t, c.prio)])
  /\ c.op = "MutexDel" => OSEventPtr[c.ev] = t
  /\ c.op = "SchedLock" => OSLockNesting < MaxLockNesting

Call(t) ==
  /\ Running(t, "app")
  /\ \E c \in app.calls[code[t]] :
       /\ Accepted(c) /\ Permitted(t, c)
       /\ call' = [call EXCEPT ![t] = c]
  /\ pc' = [pc EXCEPT ![t] = "enter"]
  /\ UNCHANGED <<app, code, schedVars, dataVars, histVars, qVars, flagVars, mutexVars, OSTCBDelReq>>

(* The services that touch events only, flags or tasks only. *)
ForQ     == UNCHANGED <<flagVars, mutexVars, OSTCBDelReq>>
ForSem   == ForQ /\ UNCHANGED qVars
ForFlag  == UNCHANGED <<qVars, mutexVars, OSTCBDelReq>>
ForTask  == UNCHANGED <<qVars, mutexVars>>

(* Services that an interrupt may call as well: what they do to the data,  *)
(* and whether they call OS_Sched behind it.                               *)
Common(c) ==
  \/ c.op = "SemAccept" /\ OSSemAccept(c.ev) /\ ForSem
  \/ c.op = "SemPost" /\ OSSemPost(c.ev) /\ ForSem
  \/ c.op = "SemSet" /\ OSSemSet(c.ev, c.cnt) /\ ForSem
  \/ c.op = "SemPendAbort" /\ OSSemPendAbort(c.ev, c.all) /\ ForSem
  \/ c.op = "MboxAccept" /\ OSMboxAccept(c.ev) /\ ForSem
  \/ c.op = "MboxPost" /\ OSMboxPost(c.ev, c.msg, c.all) /\ ForSem
  \/ c.op = "MboxPendAbort" /\ OSMboxPendAbort(c.ev, c.all) /\ ForSem
  \/ c.op = "QAccept" /\ OSQAccept(c.ev) /\ ForQ
  \/ c.op = "QPost" /\ OSQPost(c.ev, c.msg, c.front, c.all) /\ ForQ
  \/ c.op = "QFlush" /\ OSQFlush(c.ev) /\ ForQ
  \/ c.op = "QPendAbort" /\ OSQPendAbort(c.ev, c.all) /\ ForQ
  \/ c.op = "FlagAccept" /\ OSFlagAccept(c.wait) /\ ForFlag
  \/ c.op = "FlagPost" /\ OSFlagPost(c.grp, c.flags, c.set) /\ ForFlag
  \/ c.op = "TimeDlyResume" /\ OSTimeDlyResume(c.prio) /\ ForTask
  \/ c.op = "TaskSuspend" /\ OSTaskSuspend(c.prio) /\ ForTask
  \/ c.op = "TaskResume" /\ OSTaskResume(c.prio) /\ ForTask

Resched(t, c) ==
  CASE c.op \in {"SemPost", "SemPendAbort", "MboxPost", "MboxPendAbort", "QPost",
                 "QPendAbort"} -> Waited(c.ev)
    [] c.op = "FlagPost" -> FlagPostReadies(c.grp, c.flags, c.set)
    [] c.op = "TimeDlyResume" -> Exists(c.prio) /\ OSTCBDly[OSTCBPrioTbl[c.prio]] > 0
                                 /\ "SUSPEND" \notin OSTCBStat[OSTCBPrioTbl[c.prio]]
    [] c.op = "TaskSuspend" -> c.prio = OSTCBPrio[t]
    [] c.op = "TaskResume" -> ResumeReadies(c.prio)
    [] OTHER -> FALSE

NoSched(c) == c.op \in {"MboxPost", "QPost"} /\ c.noSched

CommonSection(t) ==
  /\ Running(t, "enter")
  /\ Common(call[t])
  /\ IF NoSched(call[t]) THEN ReturnUnscheduled(t, Waited(call[t].ev))
                         ELSE Return(t, Resched(t, call[t]))

TaskSection(t) ==
  LET c == call[t]
  IN /\ Running(t, "enter")
     /\ \/ c.op = "SemPend" /\ OSSemPend(t, c.ev, c.timeout) /\ ForSem
        \/ c.op = "SemCreate" /\ OSSemCreate(t, c.ev, c.cnt) /\ ForSem
        \/ c.op = "SemDel" /\ OSSemDel(t, c.ev, c.all) /\ ForSem
        \/ c.op = "MboxPend" /\ OSMboxPend(t, c.ev, c.timeout) /\ ForSem
        \/ c.op = "MboxCreate" /\ OSMboxCreate(t, c.ev, c.msg) /\ ForSem
        \/ c.op = "MboxDel" /\ OSMboxDel(t, c.ev, c.all) /\ ForSem
        \/ c.op = "QPend" /\ OSQPend(t, c.ev, c.timeout) /\ ForQ
        \/ c.op = "QCreate" /\ OSQCreate(t, c.ev) /\ ForQ
        \/ c.op = "QDel" /\ OSQDel(t, c.ev, c.all) /\ ForQ
        \/ c.op = "PendMulti" /\ OSEventPendMulti(t, c.evs, c.timeout) /\ ForQ
        \/ c.op = "FlagPend" /\ OSFlagPend(t, c.wait, c.timeout) /\ ForFlag
        \/ c.op = "FlagCreate" /\ OSFlagCreate(t, c.grp, c.flags) /\ ForFlag
        \/ c.op = "FlagDel" /\ OSFlagDel(t, c.grp, c.all) /\ ForFlag
        \/ c.op = "MutexAccept" /\ OSMutexAccept(t, c.ev) /\ UNCHANGED qVars
        \/ c.op = "MutexPend" /\ OSMutexPend(t, c.ev, c.timeout) /\ UNCHANGED qVars
        \/ c.op = "MutexPost" /\ OSMutexPost(t, c.ev) /\ UNCHANGED qVars
        \/ c.op = "MutexCreate" /\ OSMutexCreate(t, c.ev, c.pip) /\ UNCHANGED qVars
        \/ c.op = "MutexDel" /\ OSMutexDel(t, c.ev, c.all) /\ UNCHANGED qVars
        \/ c.op = "TimeDly" /\ OSTimeDly(t, c.timeout) /\ ForTask
        \/ c.op = "ChangePrio" /\ OSTaskChangePrio(t, c.prio, c.newprio) /\ ForTask
        \/ c.op = "TaskCreate" /\ OSTaskCreate(t, c.prio) /\ ForTask
        \/ c.op = "TaskDel" /\ OSTaskDel(t, c.prio) /\ ForTask
        \/ c.op = "TaskDelReq" /\ OSTaskDelReq(t, c.prio) /\ ForTask
        \/ c.op = "SchedLock" /\ OSSchedLock(t) /\ ForSem
        \/ c.op = "SchedUnlock" /\ OSSchedUnlock(t) /\ ForSem

(* The sections behind the first one, of a pend and of task creation and deletion. *)
LaterSection(t) ==
  LET c == call[t]
  IN /\ OSTCBCur = t
     /\ \/ /\ pc[t] = "resume"
           /\ \/ c.op \in {"SemPend", "MboxPend", "QPend", "MutexPend"}
                 /\ PendReturn(t, c.ev) /\ ForSem
              \/ c.op = "PendMulti" /\ PendMultiReturn(t, c.evs) /\ ForQ
              \/ c.op = "FlagPend" /\ FlagPendReturn(t, c.wait) /\ ForFlag
        \/ TCBInitTake(t, c.prio) /\ ForTask
        \/ TCBInitLink(t, c.prio, c.tcb) /\ ForTask
        \/ TaskDelEnd(t, c.prio, c.tcb) /\ ForTask

Reschedule(t) ==
  OS_Sched(t) /\ UNCHANGED <<qVars, flagVars, mutexVars, OSTCBDelReq>>

Tick == OSTimeTick /\ OSIntExit /\ UNCHANGED <<qVars, flagVars, mutexVars, OSTCBDelReq>>

Interrupt ==
  \E c \in app.isr : Accepted(c) /\ Common(c) /\ OSIntExit

Step(t) == Call(t) \/ CommonSection(t) \/ TaskSection(t) \/ LaterSection(t) \/ Reschedule(t)

Next == Tick \/ Interrupt \/ \E t \in OSTCBTbl : Step(t)

Spec == Init /\ [][Next]_vars
=============================================================================
