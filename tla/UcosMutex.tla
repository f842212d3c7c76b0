------------------------------ MODULE UcosMutex ------------------------------
(***************************************************************************)
(* Mutexes with priority inheritance, os_mutex.c.  The two bytes of        *)
(* OSEventCnt are the priority the owner is raised to and the priority it  *)
(* had when it got the mutex, NULL for OS_MUTEX_AVAILABLE; OSEventPtr is   *)
(* the owner.                                                              *)
(***************************************************************************)
EXTENDS UcosTask

VARIABLES OSMutexPIP, OSOwnerPrio

mutexVars == <<OSMutexPIP, OSOwnerPrio>>

Owner(e) == OSEventPtr[e]

(* OSMutexAccept; OSMutexPend does the same when the mutex is available. *)
OSMutexAccept(t, e) ==
  /\ IF OSOwnerPrio[e] = NULL
       THEN /\ OSOwnerPrio' = [OSOwnerPrio EXCEPT ![e] = OSTCBPrio[t]]
            /\ OSEventPtr' = [OSEventPtr EXCEPT ![e] = t]
       ELSE UNCHANGED <<OSOwnerPrio, OSEventPtr>>
  /\ Return(t, FALSE)
  /\ UNCHANGED <<OSMutexPIP, waitVars, taskVars, OSEventType, OSEventCnt, credit, flagVars,
                 OSTCBDelReq>>

(* mutant: an owner that sleeps is not raised *)
MutexWaitReadyOnly(t, e, timeout) ==
  LET o == Owner(e)
      pip == OSMutexPIP[e]
      raise == OSTCBPrio[o] > pip /\ OSOwnerPrio[e] > OSTCBPrio[t] /\ OSTCBPrio[o] \in OSRdyTbl
      Move(S) == (S \ {OSTCBPrio[o]}) \cup {pip}
      rdy == IF raise THEN Move(OSRdyTbl) ELSE OSRdyTbl
  IN /\ OSTCBPrio' = IF raise THEN [OSTCBPrio EXCEPT ![o] = pip] ELSE OSTCBPrio
     /\ OSTCBPrioTbl' = IF raise THEN [OSTCBPrioTbl EXCEPT ![pip] = o] ELSE OSTCBPrioTbl
     /\ OSTCBStat' = [OSTCBStat EXCEPT ![t] = @ \cup {"MUTEX"}]
     /\ OSTCBStatPend' = [OSTCBStatPend EXCEPT ![t] = "OK"]
     /\ OSTCBDly' = [OSTCBDly EXCEPT ![t] = timeout]
     /\ OSTCBEventPtr' = [OSTCBEventPtr EXCEPT ![t] = e]
     /\ OSEventTbl' = [OSEventTbl EXCEPT ![e] = @ \cup {OSTCBPrio[t]}]
     /\ OSRdyTbl' = rdy \ {OSTCBPrio[t]}
     /\ pc' = [pc EXCEPT ![t] = "pend"]
     /\ UNCHANGED <<app, call, code, schedVars, OSTCBEventMultiPtr, OSTCBMsg, OSTCBFreeList,
                    eventVars, histVars, mutexVars, flagVars, OSTCBDelReq>>

(* A waiter of higher priority than the owner had raises it to the pip: in *)
(* the ready table if it is there, else in the list of its event pointer.  *)
MutexWait(t, e, timeout) ==
  LET o == Owner(e)
      pip == OSMutexPIP[e]
      raise == OSTCBPrio[o] > pip /\ OSOwnerPrio[e] > OSTCBPrio[t]
      ready == OSTCBPrio[o] \in OSRdyTbl
      Move(S) == (S \ {OSTCBPrio[o]}) \cup {pip}
      rdy == IF raise /\ ready THEN Move(OSRdyTbl) ELSE OSRdyTbl
      tbl == IF raise /\ ~ready /\ OSTCBEventPtr[o] # NULL
               THEN [OSEventTbl EXCEPT ![OSTCBEventPtr[o]] = Move(@)] ELSE OSEventTbl
  IN /\ OSTCBPrio' = IF raise THEN [OSTCBPrio EXCEPT ![o] = pip] ELSE OSTCBPrio
     /\ OSTCBPrioTbl' = IF raise THEN [OSTCBPrioTbl EXCEPT ![pip] = o] ELSE OSTCBPrioTbl
     /\ OSTCBStat' = [OSTCBStat EXCEPT ![t] = @ \cup {"MUTEX"}]
     /\ OSTCBStatPend' = [OSTCBStatPend EXCEPT ![t] = "OK"]
     /\ OSTCBDly' = [OSTCBDly EXCEPT ![t] = timeout]
     /\ OSTCBEventPtr' = [OSTCBEventPtr EXCEPT ![t] = e]
     /\ OSEventTbl' = [tbl EXCEPT ![e] = @ \cup {OSTCBPrio[t]}]
     /\ OSRdyTbl' = rdy \ {OSTCBPrio[t]}
     /\ pc' = [pc EXCEPT ![t] = "pend"]
     /\ UNCHANGED <<app, call, code, schedVars, OSTCBEventMultiPtr, OSTCBMsg, OSTCBFreeList,
                    eventVars, histVars, mutexVars, flagVars, OSTCBDelReq>>

OSMutexPend(t, e, timeout) ==
  IF OSOwnerPrio[e] = NULL THEN OSMutexAccept(t, e) ELSE MutexWait(t, e, timeout)

(* OSMutex_RdyAtPrio: the ready table, the priorities and their table with *)
(* task o put back to priority p and into the ready table.                 *)
RdyAtPrio(o, p) == (OSRdyTbl \ {OSTCBPrio[o]}) \cup {p}
PrioAt(o, p)    == [OSTCBPrio EXCEPT ![o] = p]
TblAt(o, p)     == [OSTCBPrioTbl EXCEPT ![p] = o]

OSMutexPost(t, e) ==
  LET pip == OSMutexPIP[e]
      raised == OSTCBPrio[t] = pip
      rdy == IF raised THEN RdyAtPrio(t, OSOwnerPrio[e]) ELSE OSRdyTbl
      tbl == [(IF raised THEN TblAt(t, OSOwnerPrio[e]) ELSE OSTCBPrioTbl)
                EXCEPT ![pip] = OS_TCB_RESERVED]
      next == Highest(OSEventTbl[e])
  IN IF Owner(e) # t
       THEN Return(t, FALSE) /\ UNCHANGED <<dataVars, credit, mutexVars, flagVars, OSTCBDelReq>>
       ELSE /\ OSTCBPrio' = IF raised THEN PrioAt(t, OSOwnerPrio[e]) ELSE OSTCBPrio
            /\ OSTCBPrioTbl' = tbl
            /\ IF Waited(e)
                 THEN /\ OS_EventTaskRdy(rdy, e, {next}, NULL, "MUTEX", "OK")
                      /\ OSOwnerPrio' = [OSOwnerPrio EXCEPT ![e] = next]
                      /\ OSEventPtr' = [OSEventPtr EXCEPT ![e] = tbl[next]]
                      /\ credit' = [credit EXCEPT ![e] = @ + 1]
                      /\ Return(t, TRUE)
                 ELSE /\ OSRdyTbl' = rdy
                      /\ OSOwnerPrio' = [OSOwnerPrio EXCEPT ![e] = NULL]
                      /\ OSEventPtr' = [OSEventPtr EXCEPT ![e] = NULL]
                      /\ ReturnUnscheduled(t, raised)
                      /\ UNCHANGED <<pendVars, OSEventTbl, credit>>
            /\ UNCHANGED <<OSTCBFreeList, OSEventType, OSEventCnt, OSMutexPIP, flagVars,
                           OSTCBDelReq>>

OSMutexCreate(t, e, pip) ==
  /\ IF Free(e) /\ OSTCBPrioTbl[pip] = NULL
       THEN /\ OSTCBPrioTbl' = [OSTCBPrioTbl EXCEPT ![pip] = OS_TCB_RESERVED]
            /\ OSEventType' = [OSEventType EXCEPT ![e] = "MUTEX"]
            /\ OSMutexPIP' = [OSMutexPIP EXCEPT ![e] = pip]
            /\ OSOwnerPrio' = [OSOwnerPrio EXCEPT ![e] = NULL]
            /\ OSEventPtr' = [OSEventPtr EXCEPT ![e] = NULL]
            /\ OSEventTbl' = [OSEventTbl EXCEPT ![e] = {}]
       ELSE UNCHANGED <<OSTCBPrioTbl, OSEventType, OSMutexPIP, OSOwnerPrio, OSEventPtr, OSEventTbl>>
  /\ Return(t, FALSE)
  /\ UNCHANGED <<OSTCBFreeList, OSTCBPrio, pendVars, OSRdyTbl, OSEventCnt, credit, flagVars,
                 OSTCBDelReq>>

(* OSMutexDel: a raised owner is put back and into the ready table,        *)
(* whatever it was doing, and every waiter is readied.                     *)
OSMutexDel(t, e, always) ==
  LET o == Owner(e)
      pip == OSMutexPIP[e]
      del == always \/ ~Waited(e)
      lower == always /\ o # NULL /\ OSTCBPrio[o] = pip
      rdy == IF lower THEN RdyAtPrio(o, OSOwnerPrio[e]) ELSE OSRdyTbl
      tbl == IF lower THEN TblAt(o, OSOwnerPrio[e]) ELSE OSTCBPrioTbl
  IN /\ IF always /\ Waited(e)
          THEN OS_EventTaskRdy(rdy, e, OSEventTbl[e], NULL, "MUTEX", "OK")
          ELSE OSRdyTbl' = rdy /\ UNCHANGED <<pendVars, OSEventTbl>>
     /\ OSTCBPrio' = IF lower THEN PrioAt(o, OSOwnerPrio[e]) ELSE OSTCBPrio
     /\ OSTCBPrioTbl' = IF del THEN [tbl EXCEPT ![pip] = NULL] ELSE OSTCBPrioTbl
     /\ OSEventType' = IF del THEN [OSEventType EXCEPT ![e] = "UNUSED"] ELSE OSEventType
     /\ OSEventPtr' = IF del THEN [OSEventPtr EXCEPT ![e] = NULL] ELSE OSEventPtr
     /\ OSOwnerPrio' = IF del THEN [OSOwnerPrio EXCEPT ![e] = NULL] ELSE OSOwnerPrio
     /\ credit' = IF del THEN [credit EXCEPT ![e] = CreditAtDel(e)] ELSE credit
     /\ Return(t, always /\ Waited(e))
     /\ UNCHANGED <<OSTCBFreeList, OSEventCnt, OSMutexPIP, flagVars, OSTCBDelReq>>
=============================================================================
