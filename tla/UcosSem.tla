------------------------------- MODULE UcosSem -------------------------------
(***************************************************************************)
(* Counting semaphores, os_sem.c.  OSSemMax stands for 65535, the largest  *)
(* count.  What interrupts may call is stated without the caller's return. *)
(***************************************************************************)
EXTENDS UcosCore

CONSTANT OSSemMax

ASSUME SemAssumption == OSSemMax \in Nat

OSSemAccept(e) ==
  /\ OSEventCnt' = IF OSEventCnt[e] > 0 THEN [OSEventCnt EXCEPT ![e] = @ - 1] ELSE OSEventCnt
  /\ credit' = IF OSEventCnt[e] > 0 THEN [credit EXCEPT ![e] = @ - 1] ELSE credit
  /\ UNCHANGED <<waitVars, taskVars, OSEventType, OSEventPtr>>

(* mutant: the count is not compared with its maximum *)
OSSemPostUnbounded(e) ==
  /\ IF Waited(e)
       THEN /\ OS_EventTaskRdy(OSRdyTbl, e, HighestWaiter(e), NULL, "SEM", "OK")
            /\ UNCHANGED OSEventCnt
       ELSE /\ OSEventCnt' = [OSEventCnt EXCEPT ![e] = @ + 1]
            /\ UNCHANGED waitVars
  /\ credit' = [credit EXCEPT ![e] = @ + 1]
  /\ UNCHANGED <<taskVars, OSEventType, OSEventPtr>>

OSSemPost(e) ==
  /\ IF Waited(e)
       THEN /\ OS_EventTaskRdy(OSRdyTbl, e, HighestWaiter(e), NULL, "SEM", "OK")
            /\ UNCHANGED OSEventCnt
       ELSE /\ OSEventCnt' = [OSEventCnt EXCEPT ![e] = IF @ < OSSemMax THEN @ + 1 ELSE @]
            /\ UNCHANGED waitVars
  /\ credit' = IF Waited(e) \/ OSEventCnt[e] < OSSemMax
                 THEN [credit EXCEPT ![e] = @ + 1] ELSE credit
  /\ UNCHANGED <<taskVars, OSEventType, OSEventPtr>>

(* mutant: the count is set although tasks wait *)
OSSemSetAlways(e, cnt) ==
  /\ OSEventCnt' = [OSEventCnt EXCEPT ![e] = cnt]
  /\ credit' = [credit EXCEPT ![e] = @ - OSEventCnt[e] + cnt]
  /\ UNCHANGED <<waitVars, taskVars, OSEventType, OSEventPtr>>

OSSemSet(e, cnt) ==
  LET sets == OSEventCnt[e] > 0 \/ ~Waited(e)
  IN /\ OSEventCnt' = IF sets THEN [OSEventCnt EXCEPT ![e] = cnt] ELSE OSEventCnt
     /\ credit' = IF sets THEN [credit EXCEPT ![e] = @ - OSEventCnt[e] + cnt] ELSE credit
     /\ UNCHANGED <<waitVars, taskVars, OSEventType, OSEventPtr>>

OSSemPendAbort(e, all) == PendAbort(e, all, "SEM")

OSSemPend(t, e, timeout) ==
  IF OSEventCnt[e] > 0
    THEN OSSemAccept(e) /\ Return(t, FALSE)
    ELSE OS_EventTaskWait(t, e, "SEM", timeout)

OSSemCreate(t, e, cnt) == EventCreate(t, e, "SEM", cnt, NULL)

OSSemDel(t, e, always) == EventDel(t, e, always, "SEM")
=============================================================================
