------------------------------ MODULE UcosMulti ------------------------------
(***************************************************************************)
(* OSEventPendMulti of os_core.c: a pend on several semaphores, mailboxes  *)
(* and queues at once.  The array of events is a set: its order decides    *)
(* only the order of the results.                                          *)
(***************************************************************************)
EXTENDS UcosSem, UcosMbox, UcosQ

Available(e) ==
  \/ OSEventType[e] = "SEM" /\ OSEventCnt[e] > 0
  \/ OSEventType[e] = "MBOX" /\ OSEventPtr[e] # NULL
  \/ OSEventType[e] = "Q" /\ OSQEntries[e] > 0

(* One permit or message is taken from each event of A. *)
TakeAll(A) ==
  LET Of(type) == {e \in A : OSEventType[e] = type}
      E == OSEventTblAll
  IN /\ OSEventCnt' = [e \in E |-> OSEventCnt[e] - (IF e \in Of("SEM") THEN 1 ELSE 0)]
     /\ OSEventPtr' = [e \in E |-> IF e \in Of("MBOX") THEN NULL ELSE OSEventPtr[e]]
     /\ OSQOut' = [e \in E |-> IF e \in Of("Q") THEN Wrap(OSQOut[e] + 1) ELSE OSQOut[e]]
     /\ OSQEntries' = [e \in E |-> OSQEntries[e] - (IF e \in Of("Q") THEN 1 ELSE 0)]
     /\ credit' = [e \in E |-> credit[e] - (IF e \in A THEN 1 ELSE 0)]
     /\ UNCHANGED <<waitVars, taskVars, OSEventType, OSQIn, OSQStart>>

(* The wait: the status bits of all kinds waited for, and                  *)
(* OS_EventTaskWaitMulti.                                                  *)
OS_EventTaskWaitMulti(t, E, timeout) ==
  /\ OSTCBStat' = [OSTCBStat EXCEPT ![t] = @ \cup {OSEventType[e] : e \in E} \cup {"MULTI"}]
  /\ OSTCBStatPend' = [OSTCBStatPend EXCEPT ![t] = "OK"]
  /\ OSTCBDly' = [OSTCBDly EXCEPT ![t] = timeout]
  /\ OSTCBEventPtr' = [OSTCBEventPtr EXCEPT ![t] = NULL]
  /\ OSTCBEventMultiPtr' = [OSTCBEventMultiPtr EXCEPT ![t] = E]
  /\ OSEventTbl' = [e \in OSEventTblAll |->
       IF e \in E THEN OSEventTbl[e] \cup {OSTCBPrio[t]} ELSE OSEventTbl[e]]
  /\ OSRdyTbl' = OSRdyTbl \ {OSTCBPrio[t]}
  /\ pc' = [pc EXCEPT ![t] = "pend"]
  /\ UNCHANGED <<app, call, code, schedVars, OSTCBMsg, taskVars, eventVars,
                 qVars, histVars>>

(* The types are looked at once more inside the section: an event that has *)
(* been deleted since the check of the call ends it, after those in front  *)
(* of it in the array have been taken from.                                *)
OSEventPendMulti(t, E, timeout) ==
  LET A == {e \in E : Available(e)}
      deleted == \E e \in E : OSEventType[e] \notin Waitable
  IN \/ /\ deleted
        /\ \E taken \in SUBSET A : TakeAll(taken)
        /\ Return(t, FALSE)
     \/ ~deleted /\ A # {} /\ TakeAll(A) /\ Return(t, FALSE)
     \/ ~deleted /\ A = {} /\ OS_EventTaskWaitMulti(t, E, timeout)

(* The end of it.  When the event that ended the wait has been deleted     *)
(* since, the call returns before it clears the task's state.              *)
PendMultiReturn(t, E) ==
  LET e == OSTCBEventPtr[t]
      timedOut == OSTCBStatPend[t] = "TO" \/ e = NULL
  IN IF OSTCBStatPend[t] = "OK" /\ ~timedOut /\ OSEventType[e] \notin Waitable
       THEN Return(t, FALSE) /\ UNCHANGED <<dataVars, qVars, credit>>
       ELSE /\ OSEventTbl' = [f \in OSEventTblAll |->
                 IF timedOut /\ f \in E THEN OSEventTbl[f] \ {OSTCBPrio[t]}
                                        ELSE OSEventTbl[f]]
            /\ OSTCBStat' = [OSTCBStat EXCEPT ![t] = {}]
            /\ OSTCBStatPend' = [OSTCBStatPend EXCEPT ![t] = "OK"]
            /\ OSTCBEventPtr' = [OSTCBEventPtr EXCEPT ![t] = NULL]
            /\ OSTCBEventMultiPtr' = [OSTCBEventMultiPtr EXCEPT ![t] = {}]
            /\ OSTCBMsg' = [OSTCBMsg EXCEPT ![t] = NULL]
            /\ credit' = IF OSTCBStatPend[t] = "OK" /\ ~timedOut
                           THEN [credit EXCEPT ![e] = @ - 1] ELSE credit
            /\ Return(t, FALSE)
            /\ UNCHANGED <<OSTCBDly, OSRdyTbl, taskVars, eventVars, qVars>>
=============================================================================
