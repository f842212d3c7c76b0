------------------------------ MODULE UcosTask ------------------------------
(***************************************************************************)
(* Tasks and time, os_task.c and os_time.c: create, delete, suspend,       *)
(* resume, change of priority, delays.  A priority of NULL is OS_PRIO_SELF. *)
(***************************************************************************)
EXTENDS UcosFlag

VARIABLE OSTCBDelReq     \* the TCBs with a pending request for deletion

OfPrio(t, p) == IF p = NULL THEN OSTCBPrio[t] ELSE p
Exists(p) == OSTCBPrioTbl[p] \in OSTCBTbl

OSTimeDly(t, ticks) ==
  /\ OSRdyTbl' = OSRdyTbl \ {OSTCBPrio[t]}
  /\ OSTCBDly' = [OSTCBDly EXCEPT ![t] = ticks]
  /\ Return(t, TRUE)
  /\ UNCHANGED <<OSTCBStat, OSTCBStatPend, OSTCBEventPtr, OSTCBEventMultiPtr,
                 OSTCBMsg, OSEventTbl, taskVars, eventVars, credit, flagVars, OSTCBDelReq>>

OSTimeDlyResume(p) ==
  LET u == OSTCBPrioTbl[p]
  IN /\ IF Exists(p) /\ OSTCBDly[u] > 0
          THEN /\ OSTCBDly' = [OSTCBDly EXCEPT ![u] = 0]
               /\ OSTCBStat' = [OSTCBStat EXCEPT ![u] = @ \ OS_STAT_PEND_ANY]
               /\ OSTCBStatPend' = [OSTCBStatPend EXCEPT ![u] =
                    IF OSTCBStat[u] \cap OS_STAT_PEND_ANY # {} THEN "TO" ELSE "OK"]
               /\ OSRdyTbl' = IF "SUSPEND" \in OSTCBStat[u] THEN OSRdyTbl
                                ELSE OSRdyTbl \cup {OSTCBPrio[u]}
          ELSE UNCHANGED <<OSTCBDly, OSTCBStat, OSTCBStatPend, OSRdyTbl>>
     /\ UNCHANGED <<OSTCBEventPtr, OSTCBEventMultiPtr, OSTCBMsg, OSEventTbl,
                    taskVars, eventVars, credit, flagVars, OSTCBDelReq>>

OSTaskSuspend(p) ==
  LET u == OSTCBPrioTbl[p]
  IN /\ IF Exists(p)
          THEN /\ OSRdyTbl' = OSRdyTbl \ {OSTCBPrio[u]}
               /\ OSTCBStat' = [OSTCBStat EXCEPT ![u] = @ \cup {"SUSPEND"}]
          ELSE UNCHANGED <<OSRdyTbl, OSTCBStat>>
     /\ UNCHANGED <<OSTCBStatPend, OSTCBDly, OSTCBEventPtr, OSTCBEventMultiPtr, OSTCBMsg,
                    OSEventTbl, taskVars, eventVars, credit, flagVars, OSTCBDelReq>>

(* mutant: a delay still running is not looked at *)
ResumeReadiesDelayed(p) ==
  LET u == OSTCBPrioTbl[p]
  IN Exists(p) /\ OSTCBStat[u] = {"SUSPEND"}

(* What makes OSTaskResume put the task back into the ready table. *)
ResumeReadies(p) ==
  LET u == OSTCBPrioTbl[p]
  IN Exists(p) /\ OSTCBStat[u] = {"SUSPEND"} /\ OSTCBDly[u] = 0

OSTaskResume(p) ==
  /\ OSTCBStat' = IF Exists(p) THEN [OSTCBStat EXCEPT ![OSTCBPrioTbl[p]] = @ \ {"SUSPEND"}]
                               ELSE OSTCBStat
  /\ OSRdyTbl' = IF ResumeReadies(p) THEN OSRdyTbl \cup {OSTCBPrio[OSTCBPrioTbl[p]]}
                                     ELSE OSRdyTbl
  /\ UNCHANGED <<OSTCBStatPend, OSTCBDly, OSTCBEventPtr, OSTCBEventMultiPtr, OSTCBMsg,
                 OSEventTbl, taskVars, eventVars, credit, flagVars, OSTCBDelReq>>

(* The task moves to its new place in the ready table and in the wait      *)
(* lists of its TCB's event pointers.                                      *)
OSTaskChangePrio(t, oldprio, newprio) ==
  LET old == OfPrio(t, oldprio)
      u == OSTCBPrioTbl[old]
      Move(S) == (S \ {OSTCBPrio[u]}) \cup {newprio}
      lists == OSTCBEventMultiPtr[u] \cup ({OSTCBEventPtr[u]} \ {NULL})
      ok == OSTCBPrioTbl[newprio] = NULL /\ Exists(old)
  IN /\ IF ok
          THEN /\ OSTCBPrioTbl' = [OSTCBPrioTbl EXCEPT ![old] = NULL, ![newprio] = u]
               /\ OSTCBPrio' = [OSTCBPrio EXCEPT ![u] = newprio]
               /\ OSRdyTbl' = IF OSTCBPrio[u] \in OSRdyTbl THEN Move(OSRdyTbl) ELSE OSRdyTbl
               /\ OSEventTbl' = [e \in OSEventTblAll |->
                    IF e \in lists THEN Move(OSEventTbl[e]) ELSE OSEventTbl[e]]
          ELSE UNCHANGED <<OSTCBPrioTbl, OSTCBPrio, OSRdyTbl, OSEventTbl>>
     /\ Return(t, ok)
     /\ UNCHANGED <<OSTCBFreeList, pendVars, eventVars, credit, flagVars, OSTCBDelReq>>

(* OSTaskCreate: the priority is reserved, a TCB is taken off the free     *)
(* list, and the task is linked and made ready: three sections.            *)
OSTaskCreate(t, p) ==
  /\ IF OSTCBPrioTbl[p] = NULL
       THEN /\ OSTCBPrioTbl' = [OSTCBPrioTbl EXCEPT ![p] = OS_TCB_RESERVED]
            /\ pc' = [pc EXCEPT ![t] = "create"]
            /\ UNCHANGED <<app, call, code, schedVars, deferred>>
       ELSE Return(t, FALSE) /\ UNCHANGED OSTCBPrioTbl
  /\ UNCHANGED <<OSTCBFreeList, OSTCBPrio, waitVars, eventVars, credit, flagVars, OSTCBDelReq>>

TCBInitTake(t, p) ==
  /\ pc[t] = "create"
  /\ IF OSTCBFreeList = {}
       THEN /\ OSTCBPrioTbl' = [OSTCBPrioTbl EXCEPT ![p] = NULL]
            /\ Return(t, FALSE)
            /\ UNCHANGED OSTCBFreeList
       ELSE \E u \in OSTCBFreeList :
            /\ OSTCBFreeList' = OSTCBFreeList \ {u}
            /\ call' = [call EXCEPT ![t] = [op |-> "TCBInit", prio |-> p, tcb |-> u]]
            /\ pc' = [pc EXCEPT ![t] = "link"]
            /\ UNCHANGED <<app, code, schedVars, deferred, OSTCBPrioTbl>>
  /\ UNCHANGED <<OSTCBPrio, waitVars, eventVars, credit, flagVars, OSTCBDelReq>>

TCBInitLink(t, p, u) ==
  /\ pc[t] = "link"
  /\ OSTCBPrioTbl' = [OSTCBPrioTbl EXCEPT ![p] = u]
  /\ OSTCBPrio' = [OSTCBPrio EXCEPT ![u] = p]
  /\ OSTCBStat' = [OSTCBStat EXCEPT ![u] = {}]
  /\ OSTCBStatPend' = [OSTCBStatPend EXCEPT ![u] = "OK"]
  /\ OSTCBDly' = [OSTCBDly EXCEPT ![u] = 0]
  /\ OSTCBEventPtr' = [OSTCBEventPtr EXCEPT ![u] = NULL]
  /\ OSTCBEventMultiPtr' = [OSTCBEventMultiPtr EXCEPT ![u] = {}]
  /\ OSTCBMsg' = [OSTCBMsg EXCEPT ![u] = NULL]
  /\ OSTCBFlagNode' = [OSTCBFlagNode EXCEPT ![u] = NULL]
  /\ OSTCBDelReq' = OSTCBDelReq \ {u}
  /\ OSRdyTbl' = OSRdyTbl \cup {p}
  /\ code' = [code EXCEPT ![u] = p]
  /\ pc' = [pc EXCEPT ![t] = "sched", ![u] = "app"]
  /\ call' = [call EXCEPT ![t] = NULL, ![u] = NULL]
  /\ UNCHANGED <<app, schedVars, deferred, OSTCBFreeList, OSEventTbl, eventVars, credit,
                 OSFlagType, OSFlagFlags, OSTCBFlagsRdy>>

(* OSTaskDel: first the task leaves the ready table and every wait list    *)
(* and the scheduler is locked; interrupts may come; then the TCB is freed. *)
OSTaskDel(t, prio) ==
  LET p == OfPrio(t, prio)
      u == OSTCBPrioTbl[p]
      lists == OSTCBEventMultiPtr[u] \cup ({OSTCBEventPtr[u]} \ {NULL})
  IN IF Exists(p) /\ p # Idle
       THEN /\ OSRdyTbl' = OSRdyTbl \ {OSTCBPrio[u]}
            /\ OSEventTbl' = [e \in OSEventTblAll |->
                 IF e \in lists THEN OSEventTbl[e] \ {OSTCBPrio[u]} ELSE OSEventTbl[e]]
            /\ OSTCBFlagNode' = [OSTCBFlagNode EXCEPT ![u] = NULL]
            /\ OSTCBDly' = [OSTCBDly EXCEPT ![u] = 0]
            /\ OSTCBStat' = [OSTCBStat EXCEPT ![u] = {}]
            /\ OSTCBStatPend' = [OSTCBStatPend EXCEPT ![u] = "OK"]
            /\ OSLockNesting' = IF OSLockNesting < 255 THEN OSLockNesting + 1 ELSE OSLockNesting
            /\ credit' = [e \in OSEventTblAll |->
                 credit[e] - (IF u \in Granted(e) THEN 1 ELSE 0)]
            /\ pc' = [pc EXCEPT ![u] = "free", ![t] = "delete"]
            /\ call' = [call EXCEPT ![u] = NULL, ![t] = [op |-> "TaskDel", prio |-> p, tcb |-> u]]
            /\ UNCHANGED <<app, code, cpuVars, OSTCBEventPtr, OSTCBEventMultiPtr, OSTCBMsg,
                           taskVars, eventVars, deferred, OSFlagType, OSFlagFlags,
                           OSTCBFlagsRdy, OSTCBDelReq>>
       ELSE Return(t, FALSE) /\ UNCHANGED <<dataVars, credit, flagVars, OSTCBDelReq>>

TaskDelEnd(t, p, u) ==
  /\ pc[t] = "delete"
  /\ OSLockNesting' = IF OSLockNesting > 0 THEN OSLockNesting - 1 ELSE 0
  /\ OSTCBPrioTbl' = [OSTCBPrioTbl EXCEPT ![p] = NULL]
  /\ OSTCBFreeList' = OSTCBFreeList \cup {u}
  /\ pc' = [pc EXCEPT ![t] = "sched"]
  /\ call' = [call EXCEPT ![t] = NULL]
  /\ UNCHANGED <<app, code, cpuVars, OSTCBPrio, waitVars, eventVars, histVars, flagVars,
                 OSTCBDelReq>>

OSTaskDelReq(t, p) ==
  /\ OSTCBDelReq' = IF Exists(p) THEN OSTCBDelReq \cup {OSTCBPrioTbl[p]} ELSE OSTCBDelReq
  /\ Return(t, FALSE)
  /\ UNCHANGED <<dataVars, credit, flagVars>>
=============================================================================
