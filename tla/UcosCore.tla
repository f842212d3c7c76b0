------------------------------ MODULE UcosCore ------------------------------
(***************************************************************************)
(* The uC/OS-II kernel of the Lab 5 firmware, os_core.c: task control      *)
(* blocks, the ready table, event control blocks with their wait lists,    *)
(* and what every service is built from: making a task wait, readying a    *)
(* waiter, the scheduler, interrupt exit and the tick.                     *)
(*                                                                         *)
(* A critical section is one action, and so is a whole interrupt, which    *)
(* the Nios II runs with interrupts disabled.  OSRdyGrp/OSRdyTbl and       *)
(* OSEventGrp/OSEventTbl are sets of priorities.  A status byte is the set *)
(* of its bits.  A TCB that exists at the start is named by its priority.  *)
(***************************************************************************)
EXTENDS Integers, FiniteSets

CONSTANTS
  OS_LOWEST_PRIO,     \* priority of the idle task
  OSTCBTbl,           \* the task control blocks
  OSEventTblAll,      \* the event control blocks
  Msgs,               \* messages
  NULL, OS_TCB_RESERVED,
  Apps                \* the applications: see Ucos

Prio == 0..OS_LOWEST_PRIO
Idle == OS_LOWEST_PRIO

ASSUME CoreAssumption ==
  /\ OS_LOWEST_PRIO \in Nat
  /\ OSTCBTbl \subseteq Prio
  /\ Idle \in OSTCBTbl
  /\ NULL \notin OSTCBTbl \cup OSEventTblAll \cup Msgs
  /\ OS_TCB_RESERVED \notin OSTCBTbl \cup {NULL}

VARIABLES
  app,                \* the application that runs, never changed
  pc, call, code,     \* per task: place in a service, its arguments, its program
  OSTCBCur, OSPrioCur, OSLockNesting, OSRdyTbl,
  OSTCBPrioTbl, OSTCBFreeList,
  OSTCBPrio, OSTCBStat, OSTCBStatPend, OSTCBDly,
  OSTCBEventPtr, OSTCBEventMultiPtr, OSTCBMsg,
  OSEventType, OSEventCnt, OSEventPtr, OSEventTbl,
  credit,             \* history: posts accepted less pends that returned one
  deferred            \* history: a service has left OS_Sched out since the last one

ctlVars   == <<pc, call, code>>
cpuVars   == <<OSTCBCur, OSPrioCur>>
schedVars == <<cpuVars, OSLockNesting>>
taskVars  == <<OSTCBPrioTbl, OSTCBFreeList, OSTCBPrio>>
pendVars  == <<OSTCBStat, OSTCBStatPend, OSTCBDly,
               OSTCBEventPtr, OSTCBEventMultiPtr, OSTCBMsg>>
eventVars == <<OSEventType, OSEventCnt, OSEventPtr>>
histVars  == <<credit, deferred>>
waitVars  == <<OSRdyTbl, OSEventTbl, pendVars>>
dataVars  == <<waitVars, taskVars, eventVars>>

OS_STAT_PEND_ANY == {"SEM", "MBOX", "Q", "MUTEX", "FLAG"}
Waitable         == {"SEM", "MBOX", "Q"}

-----------------------------------------------------------------------------
(* Scheduling                                                              *)

Highest(S) == CHOOSE p \in S : \A q \in S : p <= q

Running(t, place) == OSTCBCur = t /\ pc[t] = place

(* The task of the highest ready priority gets the processor, unless the   *)
(* scheduler is locked or that priority is the one of the last switch.     *)
Switch(rdy) ==
  IF OSLockNesting = 0 /\ Highest(rdy) # OSPrioCur
    THEN OSPrioCur' = Highest(rdy) /\ OSTCBCur' = OSTCBPrioTbl[Highest(rdy)]
    ELSE UNCHANGED cpuVars

(* OS_Sched, after which the task goes on behind its call of it. *)
OS_Sched(t) ==
  /\ OSTCBCur = t
  /\ pc[t] \in {"sched", "pend"}
  /\ pc' = [pc EXCEPT ![t] = IF @ = "pend" THEN "resume" ELSE "app"]
  /\ Switch(OSRdyTbl)
  /\ deferred' = (deferred /\ OSLockNesting > 0)
  /\ UNCHANGED <<app, call, code, OSLockNesting, dataVars, credit>>

(* The end of an interrupt, after its handler has changed the ready table. *)
OSIntExit ==
  /\ Switch(OSRdyTbl')
  /\ deferred' = (deferred /\ OSLockNesting > 0)
  /\ UNCHANGED <<app, ctlVars, OSLockNesting>>

(* The section of a service ends and OS_Sched is called, or it returns. *)
Return(t, resched) ==
  /\ pc' = [pc EXCEPT ![t] = IF resched THEN "sched" ELSE "app"]
  /\ call' = [call EXCEPT ![t] = NULL]
  /\ UNCHANGED <<app, code, schedVars, deferred>>

(* The return of a service that leaves OS_Sched out although it may have   *)
(* changed who is the highest: a post with OS_POST_OPT_NO_SCHED that found *)
(* a waiter, and OSMutexPost that put its caller back to its own priority  *)
(* and found none.                                                         *)
ReturnUnscheduled(t, changed) ==
  /\ pc' = [pc EXCEPT ![t] = "app"]
  /\ call' = [call EXCEPT ![t] = NULL]
  /\ deferred' = (deferred \/ changed)
  /\ UNCHANGED <<app, code, schedVars>>

OSSchedLock(t) ==
  /\ OSLockNesting' = IF OSLockNesting < 255 THEN OSLockNesting + 1 ELSE OSLockNesting
  /\ pc' = [pc EXCEPT ![t] = "app"]
  /\ call' = [call EXCEPT ![t] = NULL]
  /\ UNCHANGED <<app, code, cpuVars, dataVars, histVars>>

(* mutant: the last unlock does not schedule *)
OSSchedUnlockSilent(t) ==
  /\ OSLockNesting' = IF OSLockNesting > 0 THEN OSLockNesting - 1 ELSE 0
  /\ pc' = [pc EXCEPT ![t] = "app"]
  /\ call' = [call EXCEPT ![t] = NULL]
  /\ UNCHANGED <<app, code, cpuVars, dataVars, histVars>>

OSSchedUnlock(t) ==
  /\ OSLockNesting' = IF OSLockNesting > 0 THEN OSLockNesting - 1 ELSE 0
  /\ pc' = [pc EXCEPT ![t] = IF OSLockNesting = 1 THEN "sched" ELSE "app"]
  /\ call' = [call EXCEPT ![t] = NULL]
  /\ UNCHANGED <<app, code, cpuVars, dataVars, histVars>>

-----------------------------------------------------------------------------
(* Wait lists                                                              *)

(* OS_EventTaskRdy for each waiter in W: the highest one, or all of them   *)
(* when a service repeats it until the list is empty; rdy is the ready     *)
(* table it starts from.                                                   *)
OS_EventTaskRdy(rdy, e, W, msg, msk, pend) ==
  LET T == {OSTCBPrioTbl[p] : p \in W} \cap OSTCBTbl
      Leaves(f) == {t \in T : f = e \/ f \in OSTCBEventMultiPtr[t]}
  IN /\ OSTCBDly' = [t \in OSTCBTbl |-> IF t \in T THEN 0 ELSE OSTCBDly[t]]
     /\ OSTCBMsg' = [t \in OSTCBTbl |-> IF t \in T THEN msg ELSE OSTCBMsg[t]]
     /\ OSTCBStat' = [t \in OSTCBTbl |->
          IF t \in T THEN OSTCBStat[t] \ {msk} ELSE OSTCBStat[t]]
     /\ OSTCBStatPend' = [t \in OSTCBTbl |->
          IF t \in T THEN pend ELSE OSTCBStatPend[t]]
     /\ OSRdyTbl' = rdy \cup
          {OSTCBPrio[t] : t \in {u \in T : "SUSPEND" \notin OSTCBStat[u]}}
     /\ OSEventTbl' = [f \in OSEventTblAll |->
          OSEventTbl[f] \ {OSTCBPrio[t] : t \in Leaves(f)}]
     /\ OSTCBEventPtr' = [t \in OSTCBTbl |->
          IF t \in T /\ OSTCBEventMultiPtr[t] # {} THEN e ELSE OSTCBEventPtr[t]]
     /\ UNCHANGED OSTCBEventMultiPtr

Waited(e) == OSEventTbl[e] # {}
HighestWaiter(e) == {Highest(OSEventTbl[e])}

(* The part of a pend that makes the running task wait on one event: its   *)
(* status, its timeout and OS_EventTaskWait.                               *)
OS_EventTaskWait(t, e, bit, timeout) ==
  /\ OSTCBStat' = [OSTCBStat EXCEPT ![t] = @ \cup {bit}]
  /\ OSTCBStatPend' = [OSTCBStatPend EXCEPT ![t] = "OK"]
  /\ OSTCBDly' = [OSTCBDly EXCEPT ![t] = timeout]
  /\ OSTCBEventPtr' = [OSTCBEventPtr EXCEPT ![t] = e]
  /\ OSEventTbl' = [OSEventTbl EXCEPT ![e] = @ \cup {OSTCBPrio[t]}]
  /\ OSRdyTbl' = OSRdyTbl \ {OSTCBPrio[t]}
  /\ pc' = [pc EXCEPT ![t] = "pend"]
  /\ UNCHANGED <<app, call, code, schedVars, OSTCBEventMultiPtr, OSTCBMsg,
                 taskVars, eventVars, histVars>>

(* mutant: a task whose pend timed out stays in the list *)
PendReturnStaysListed(t, e) ==
  /\ OSTCBStat' = [OSTCBStat EXCEPT ![t] = {}]
  /\ OSTCBStatPend' = [OSTCBStatPend EXCEPT ![t] = "OK"]
  /\ OSTCBEventPtr' = [OSTCBEventPtr EXCEPT ![t] = NULL]
  /\ OSTCBEventMultiPtr' = [OSTCBEventMultiPtr EXCEPT ![t] = {}]
  /\ OSTCBMsg' = [OSTCBMsg EXCEPT ![t] = NULL]
  /\ credit' = IF OSTCBStatPend[t] = "OK"
                 THEN [credit EXCEPT ![e] = @ - 1] ELSE credit
  /\ Return(t, FALSE)
  /\ UNCHANGED <<OSTCBDly, OSRdyTbl, OSEventTbl, taskVars, eventVars>>

(* The end of a pend behind OS_Sched: a task whose pend timed out takes    *)
(* itself off the list (OS_EventTaskRemove), then its TCB is cleared.      *)
PendReturn(t, e) ==
  /\ OSEventTbl' = IF OSTCBStatPend[t] \in {"OK", "ABORT"} THEN OSEventTbl
                   ELSE [OSEventTbl EXCEPT ![e] = @ \ {OSTCBPrio[t]}]
  /\ OSTCBStat' = [OSTCBStat EXCEPT ![t] = {}]
  /\ OSTCBStatPend' = [OSTCBStatPend EXCEPT ![t] = "OK"]
  /\ OSTCBEventPtr' = [OSTCBEventPtr EXCEPT ![t] = NULL]
  /\ OSTCBEventMultiPtr' = [OSTCBEventMultiPtr EXCEPT ![t] = {}]
  /\ OSTCBMsg' = [OSTCBMsg EXCEPT ![t] = NULL]
  /\ credit' = IF OSTCBStatPend[t] = "OK"
                 THEN [credit EXCEPT ![e] = @ - 1] ELSE credit
  /\ Return(t, FALSE)
  /\ UNCHANGED <<OSTCBDly, OSRdyTbl, taskVars, eventVars>>

(* mutant: aborted waiters are told that they were posted to *)
PendAbortAsPost(e, all, bit) ==
  /\ IF Waited(e)
       THEN OS_EventTaskRdy(OSRdyTbl, e, IF all THEN OSEventTbl[e] ELSE HighestWaiter(e),
                            NULL, bit, "OK")
       ELSE UNCHANGED waitVars
  /\ UNCHANGED <<taskVars, eventVars, credit>>

(* OSSemPendAbort, OSMboxPendAbort and OSQPendAbort, which differ in the bit. *)
PendAbort(e, all, bit) ==
  /\ IF Waited(e)
       THEN OS_EventTaskRdy(OSRdyTbl, e, IF all THEN OSEventTbl[e] ELSE HighestWaiter(e),
                            NULL, bit, "ABORT")
       ELSE UNCHANGED waitVars
  /\ UNCHANGED <<taskVars, eventVars, credit>>

(* The tasks whose pend on e a post has ended and that have not returned   *)
(* from it yet; what the history says of e when it is deleted: what is     *)
(* still inside is gone, and every waiter returns as if posted to.         *)
Granted(e) ==
  {t \in OSTCBTbl : /\ pc[t] \in {"pend", "resume"}
                    /\ OSTCBStatPend[t] = "OK"
                    /\ OSTCBEventPtr[t] = e
                    /\ OSTCBPrio[t] \notin OSEventTbl[e]}
CreditAtDel(e) == Cardinality(Granted(e)) + Cardinality(OSEventTbl[e])

(* OSSemDel, OSMboxDel and OSQDel: with OS_DEL_ALWAYS every waiter is      *)
(* readied as by a post, without a permit or a message.                    *)
EventDel(t, e, always, bit) ==
  LET del == always \/ ~Waited(e)
  IN /\ IF always /\ Waited(e)
          THEN OS_EventTaskRdy(OSRdyTbl, e, OSEventTbl[e], NULL, bit, "OK")
          ELSE UNCHANGED waitVars
     /\ OSEventType' = IF del THEN [OSEventType EXCEPT ![e] = "UNUSED"] ELSE OSEventType
     /\ OSEventCnt' = IF del THEN [OSEventCnt EXCEPT ![e] = 0] ELSE OSEventCnt
     /\ OSEventPtr' = IF del THEN [OSEventPtr EXCEPT ![e] = NULL] ELSE OSEventPtr
     /\ credit' = IF del THEN [credit EXCEPT ![e] = CreditAtDel(e)] ELSE credit
     /\ Return(t, always /\ Waited(e))
     /\ UNCHANGED taskVars

(* OS_EventWaitListInit and the stores of OSSemCreate, OSMboxCreate and    *)
(* OSQCreate into the block e, if it is on the free list.                  *)
Free(e) == OSEventType[e] = "UNUSED"
EventCreate(t, e, type, cnt, ptr) ==
  /\ IF Free(e)
       THEN /\ OSEventType' = [OSEventType EXCEPT ![e] = type]
            /\ OSEventCnt' = [OSEventCnt EXCEPT ![e] = cnt]
            /\ OSEventPtr' = [OSEventPtr EXCEPT ![e] = ptr]
            /\ OSEventTbl' = [OSEventTbl EXCEPT ![e] = {}]
            /\ credit' = [credit EXCEPT ![e] = @ + cnt + (IF ptr = NULL THEN 0 ELSE 1)]
       ELSE UNCHANGED <<eventVars, OSEventTbl, credit>>
  /\ Return(t, FALSE)
  /\ UNCHANGED <<pendVars, OSRdyTbl, taskVars>>

-----------------------------------------------------------------------------
(* The tick                                                                *)

(* mutant: the status is looked at before the pend bits are cleared *)
OSTimeTickTooEarly ==
  LET Ends == {t \in OSTCBTbl \ {Idle} : OSTCBDly[t] = 1}
      TimesOut(t) == OSTCBStat[t] \cap OS_STAT_PEND_ANY # {}
  IN /\ OSTCBDly' = [t \in OSTCBTbl |->
          IF t # Idle /\ OSTCBDly[t] > 0 THEN OSTCBDly[t] - 1 ELSE OSTCBDly[t]]
     /\ OSTCBStat' = [t \in OSTCBTbl |->
          IF t \in Ends THEN OSTCBStat[t] \ OS_STAT_PEND_ANY ELSE OSTCBStat[t]]
     /\ OSTCBStatPend' = [t \in OSTCBTbl |->
          IF t \notin Ends THEN OSTCBStatPend[t]
          ELSE IF TimesOut(t) THEN "TO" ELSE "OK"]
     /\ OSRdyTbl' = OSRdyTbl \cup {OSTCBPrio[t] : t \in {u \in Ends : OSTCBStat[u] = {}}}
     /\ UNCHANGED <<OSTCBEventPtr, OSTCBEventMultiPtr, OSTCBMsg, OSEventTbl,
                    eventVars, taskVars, credit>>

(* OSTimeTick: each TCB in its own section, all inside one interrupt.      *)
OSTimeTick ==
  LET Ends == {t \in OSTCBTbl \ {Idle} : OSTCBDly[t] = 1}
      TimesOut(t) == OSTCBStat[t] \cap OS_STAT_PEND_ANY # {}
  IN /\ OSTCBDly' = [t \in OSTCBTbl |->
          IF t # Idle /\ OSTCBDly[t] > 0 THEN OSTCBDly[t] - 1 ELSE OSTCBDly[t]]
     /\ OSTCBStat' = [t \in OSTCBTbl |->
          IF t \in Ends THEN OSTCBStat[t] \ OS_STAT_PEND_ANY ELSE OSTCBStat[t]]
     /\ OSTCBStatPend' = [t \in OSTCBTbl |->
          IF t \notin Ends THEN OSTCBStatPend[t]
          ELSE IF TimesOut(t) THEN "TO" ELSE "OK"]
     /\ OSRdyTbl' = OSRdyTbl \cup
          {OSTCBPrio[t] : t \in {u \in Ends : "SUSPEND" \notin OSTCBStat[u]}}
     /\ UNCHANGED <<OSTCBEventPtr, OSTCBEventMultiPtr, OSTCBMsg, OSEventTbl,
                    eventVars, taskVars, credit>>
=============================================================================
