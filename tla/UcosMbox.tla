------------------------------ MODULE UcosMbox ------------------------------
(***************************************************************************)
(* Mailboxes, os_mbox.c: room for one message, kept in OSEventPtr.         *)
(***************************************************************************)
EXTENDS UcosCore

OSMboxAccept(e) ==
  /\ OSEventPtr' = [OSEventPtr EXCEPT ![e] = NULL]
  /\ credit' = IF OSEventPtr[e] # NULL THEN [credit EXCEPT ![e] = @ - 1] ELSE credit
  /\ UNCHANGED <<waitVars, taskVars, OSEventType, OSEventCnt>>

(* OSMboxPost, and OSMboxPostOpt which may hand the message to every waiter. *)
OSMboxPost(e, msg, all) ==
  /\ IF Waited(e)
       THEN /\ OS_EventTaskRdy(OSRdyTbl, e, IF all THEN OSEventTbl[e] ELSE HighestWaiter(e),
                               msg, "MBOX", "OK")
            /\ UNCHANGED OSEventPtr
       ELSE /\ OSEventPtr' = [OSEventPtr EXCEPT ![e] = IF @ = NULL THEN msg ELSE @]
            /\ UNCHANGED waitVars
  /\ credit' = [credit EXCEPT ![e] =
       IF Waited(e) THEN @ + (IF all THEN Cardinality(OSEventTbl[e]) ELSE 1)
       ELSE IF OSEventPtr[e] = NULL THEN @ + 1 ELSE @]
  /\ UNCHANGED <<taskVars, OSEventType, OSEventCnt>>

OSMboxPendAbort(e, all) == PendAbort(e, all, "MBOX")

OSMboxPend(t, e, timeout) ==
  IF OSEventPtr[e] # NULL
    THEN OSMboxAccept(e) /\ Return(t, FALSE)
    ELSE OS_EventTaskWait(t, e, "MBOX", timeout)

OSMboxCreate(t, e, msg) == EventCreate(t, e, "MBOX", 0, msg)

OSMboxDel(t, e, always) == EventDel(t, e, always, "MBOX")
=============================================================================
