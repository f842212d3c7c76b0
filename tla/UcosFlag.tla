------------------------------ MODULE UcosFlag ------------------------------
(***************************************************************************)
(* Event flag groups, os_flag.c.  A group is the set of its flags that are *)
(* set.  Its wait list is the set of tasks whose node is linked: linking   *)
(* and unlinking set and clear OSTCBFlagNode as well.  A wait is a record: *)
(* the group, the flags, all or any of them, set or clear, consume or not. *)
(***************************************************************************)
EXTENDS UcosCore

CONSTANTS OSFlagTbl, Flags     \* the groups, the flags of a group

FlagWait == [grp : OSFlagTbl, flags : SUBSET Flags,
             all : BOOLEAN, set : BOOLEAN, consume : BOOLEAN]

ASSUME FlagAssumption == NULL \notin FlagWait

VARIABLES OSFlagType, OSFlagFlags, OSTCBFlagNode, OSTCBFlagsRdy

flagVars == <<OSFlagType, OSFlagFlags, OSTCBFlagNode, OSTCBFlagsRdy>>

FlagInit ==
  /\ OSFlagType = [g \in OSFlagTbl |-> "FLAG"]
  /\ OSFlagFlags = [g \in OSFlagTbl |-> {}]
  /\ OSTCBFlagNode = [t \in OSTCBTbl |-> NULL]
  /\ OSTCBFlagsRdy = [t \in OSTCBTbl |-> {}]

(* The flags of wait w that are as it wants them, and whether that will do. *)
FlagsRdy(flags, w) == IF w.set THEN flags \cap w.flags ELSE w.flags \ flags
Met(flags, w) == IF w.all THEN FlagsRdy(flags, w) = w.flags
                          ELSE FlagsRdy(flags, w) # {}

Consumed(flags, w, rdy) ==
  IF ~w.consume THEN flags ELSE IF w.set THEN flags \ rdy ELSE flags \cup rdy

Linked(g) == {t \in OSTCBTbl : OSTCBFlagNode[t] # NULL /\ OSTCBFlagNode[t].grp = g}

OSFlagAccept(w) ==
  LET flags == OSFlagFlags[w.grp]
  IN /\ OSFlagFlags' = IF Met(flags, w)
            THEN [OSFlagFlags EXCEPT ![w.grp] = Consumed(@, w, FlagsRdy(flags, w))]
            ELSE OSFlagFlags
     /\ UNCHANGED <<OSFlagType, OSTCBFlagNode, OSTCBFlagsRdy, dataVars, credit>>

(* OS_FlagBlock *)
OS_FlagBlock(t, w, timeout) ==
  /\ OSTCBStat' = [OSTCBStat EXCEPT ![t] = @ \cup {"FLAG"}]
  /\ OSTCBStatPend' = [OSTCBStatPend EXCEPT ![t] = "OK"]
  /\ OSTCBDly' = [OSTCBDly EXCEPT ![t] = timeout]
  /\ OSTCBFlagNode' = [OSTCBFlagNode EXCEPT ![t] = w]
  /\ OSRdyTbl' = OSRdyTbl \ {OSTCBPrio[t]}
  /\ pc' = [pc EXCEPT ![t] = "pend"]
  /\ UNCHANGED <<app, call, code, schedVars, OSTCBEventPtr, OSTCBEventMultiPtr,
                 OSTCBMsg, OSEventTbl, taskVars, eventVars, histVars,
                 OSFlagType, OSFlagFlags, OSTCBFlagsRdy>>

OSFlagPend(t, w, timeout) ==
  LET flags == OSFlagFlags[w.grp]
  IN IF Met(flags, w)
       THEN /\ OSFlagFlags' = [OSFlagFlags EXCEPT ![w.grp] =
                 Consumed(@, w, FlagsRdy(flags, w))]
            /\ OSTCBFlagsRdy' = [OSTCBFlagsRdy EXCEPT ![t] = FlagsRdy(flags, w)]
            /\ Return(t, FALSE)
            /\ UNCHANGED <<OSFlagType, OSTCBFlagNode, dataVars, credit>>
       ELSE OS_FlagBlock(t, w, timeout)

(* The end of a pend: after a timeout the node is unlinked, after a post   *)
(* the flags that ended the wait are consumed, only now.                   *)
FlagPendReturn(t, w) ==
  /\ IF OSTCBStatPend[t] # "OK"
       THEN /\ OSTCBStatPend' = [OSTCBStatPend EXCEPT ![t] = "OK"]
            /\ OSTCBStat' = [OSTCBStat EXCEPT ![t] = {}]
            /\ OSTCBFlagNode' = [OSTCBFlagNode EXCEPT ![t] = NULL]
            /\ UNCHANGED OSFlagFlags
       ELSE /\ OSFlagFlags' = [OSFlagFlags EXCEPT ![w.grp] =
                 Consumed(@, w, OSTCBFlagsRdy[t])]
            /\ UNCHANGED <<OSTCBStatPend, OSTCBStat, OSTCBFlagNode>>
  /\ Return(t, FALSE)
  /\ UNCHANGED <<OSTCBDly, OSTCBEventPtr, OSTCBEventMultiPtr, OSTCBMsg, OSRdyTbl,
                 OSEventTbl, taskVars, eventVars, credit, OSFlagType, OSTCBFlagsRdy>>

(* OS_FlagTaskRdy and OS_FlagUnlink for each task of T, whose node is      *)
(* linked; rdy gives the flags each is told.                               *)
OS_FlagTaskRdy(T, rdy) ==
  /\ OSTCBDly' = [t \in OSTCBTbl |-> IF t \in T THEN 0 ELSE OSTCBDly[t]]
  /\ OSTCBFlagsRdy' = [t \in OSTCBTbl |-> IF t \in T THEN rdy[t] ELSE OSTCBFlagsRdy[t]]
  /\ OSTCBStat' = [t \in OSTCBTbl |->
       IF t \in T THEN OSTCBStat[t] \ {"FLAG"} ELSE OSTCBStat[t]]
  /\ OSTCBStatPend' = [t \in OSTCBTbl |-> IF t \in T THEN "OK" ELSE OSTCBStatPend[t]]
  /\ OSTCBFlagNode' = [t \in OSTCBTbl |-> IF t \in T THEN NULL ELSE OSTCBFlagNode[t]]
  /\ OSRdyTbl' = OSRdyTbl \cup
       {OSTCBPrio[t] : t \in {u \in T : OSTCBStat[u] \subseteq {"FLAG"}}}
  /\ UNCHANGED <<OSTCBEventPtr, OSTCBEventMultiPtr, OSTCBMsg, OSEventTbl,
                 taskVars, eventVars, credit>>

Posted(g, flags, set) == IF set THEN OSFlagFlags[g] \cup flags
                                ELSE OSFlagFlags[g] \ flags
Released(g, flags, set) ==
  {t \in Linked(g) : Met(Posted(g, flags, set), OSTCBFlagNode[t])}

OSFlagPost(g, flags, set) ==
  LET now == Posted(g, flags, set)
  IN /\ OSFlagFlags' = [OSFlagFlags EXCEPT ![g] = now]
     /\ OS_FlagTaskRdy(Released(g, flags, set),
          [t \in Released(g, flags, set) |-> FlagsRdy(now, OSTCBFlagNode[t])])
     /\ UNCHANGED OSFlagType

(* A post calls OS_Sched when it has made a task ready. *)
FlagPostReadies(g, flags, set) ==
  \E t \in Released(g, flags, set) : OSTCBStat[t] \subseteq {"FLAG"}

OSFlagCreate(t, g, flags) ==
  /\ IF OSFlagType[g] = "UNUSED"
       THEN /\ OSFlagType' = [OSFlagType EXCEPT ![g] = "FLAG"]
            /\ OSFlagFlags' = [OSFlagFlags EXCEPT ![g] = flags]
       ELSE UNCHANGED <<OSFlagType, OSFlagFlags>>
  /\ Return(t, FALSE)
  /\ UNCHANGED <<OSTCBFlagNode, OSTCBFlagsRdy, dataVars, credit>>

OSFlagDel(t, g, always) ==
  LET del == always \/ Linked(g) = {}
  IN /\ OSFlagType' = IF del THEN [OSFlagType EXCEPT ![g] = "UNUSED"] ELSE OSFlagType
     /\ OSFlagFlags' = IF del THEN [OSFlagFlags EXCEPT ![g] = {}] ELSE OSFlagFlags
     /\ OS_FlagTaskRdy(IF always THEN Linked(g) ELSE {}, [u \in OSTCBTbl |-> {}])
     /\ Return(t, always /\ Linked(g) # {})
=============================================================================
