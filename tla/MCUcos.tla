-------------------------------- MODULE MCUcos --------------------------------
(***************************************************************************)
(* Small applications for the kernel: three tasks at priorities 1 to 3,    *)
(* the idle task at 4, priority 0 for a mutex to raise its owner to or for *)
(* a task to move to; two events and one flag group.                       *)
(***************************************************************************)
EXTENDS UcosProperties

CONSTANTS e1, e2, m1, m2, g1, f1, f2

AllTasks == {1, 2, 3, 4}
Nothing == [type |-> "UNUSED", cnt |-> 0, pip |-> NULL]
Event(type, cnt) == [type |-> type, cnt |-> cnt, pip |-> NULL]
Pair(x, y) == [e \in {e1, e2} |-> IF e = e1 THEN x ELSE y]

(* An application of three tasks that make the calls c1, c2 and c3. *)
App(c1, c2, c3, isr, event) ==
  [tasks |-> AllTasks, isr |-> isr, event |-> event,
   calls |-> [p \in 0..4 |-> CASE p = 1 -> c1 [] p = 2 -> c2 [] p = 3 -> c3 [] OTHER -> {}]]

Pend(op, e, timeout) == [op |-> op, ev |-> e, timeout |-> timeout]
On(op, e)            == [op |-> op, ev |-> e]
Abort(op, e, all)    == [op |-> op, ev |-> e, all |-> all]
Set(e, n)            == [op |-> "SemSet", ev |-> e, cnt |-> n]
Post(op, e, m, all, front, noSched) ==
  [op |-> op, ev |-> e, msg |-> m, all |-> all, front |-> front, noSched |-> noSched]
Prioed(op, p)        == [op |-> op, prio |-> p]
Dly(n)               == [op |-> "TimeDly", timeout |-> n]
Plain(op)            == [op |-> op]

(* Two tasks wait for a semaphore, a third and interrupts signal it, abort *)
(* the waits and set the count.                                            *)
SemApp == App(
  {Pend("SemPend", e1, 0), Pend("SemPend", e1, 2)},
  {Pend("SemPend", e1, 1), Dly(1)},
  {On("SemPost", e1), Set(e1, 0), Set(e1, 2), On("SemAccept", e1),
   Abort("SemPendAbort", e1, TRUE), Abort("SemPendAbort", e1, FALSE)},
  {On("SemPost", e1)},
  Pair(Event("SEM", 1), Nothing))

(* A mailbox and a queue of two slots, with every way to post. *)
MailApp == App(
  {Pend("MboxPend", e1, 0), Pend("QPend", e2, 1)},
  {Pend("MboxPend", e1, 0)},
  {Post("MboxPost", e1, m1, FALSE, FALSE, FALSE), Post("MboxPost", e1, m1, TRUE, FALSE, TRUE),
   Abort("MboxPendAbort", e1, FALSE), On("MboxAccept", e1),
   Post("QPost", e2, m1, TRUE, FALSE, FALSE), Post("QPost", e2, m2, FALSE, TRUE, TRUE),
   Abort("QPendAbort", e2, TRUE), On("QAccept", e2), On("QFlush", e2)},
  {Post("MboxPost", e1, m1, FALSE, FALSE, FALSE), Post("QPost", e2, m1, FALSE, FALSE, FALSE)},
  Pair(Event("MBOX", 0), Event("Q", 0)))

(* The queue alone, its two messages told apart; one of them is NULL. *)
QueueApp == App(
  {Pend("QPend", e2, 1)},
  {Post("QPost", e2, NULL, FALSE, FALSE, FALSE), Dly(1)},
  {Post("QPost", e2, m2, FALSE, FALSE, FALSE), Post("QPost", e2, m2, FALSE, TRUE, FALSE),
   On("QAccept", e2), On("QFlush", e2)},
  {},
  Pair(Nothing, Event("Q", 0)))

(* One task waits for both events at once, another for either. *)
MultiApp == App(
  {[op |-> "PendMulti", evs |-> {e1, e2}, timeout |-> 0],
   [op |-> "PendMulti", evs |-> {e1, e2}, timeout |-> 2]},
  {Pend("SemPend", e1, 1), Pend("QPend", e2, 0)},
  {On("SemPost", e1), Post("QPost", e2, m1, FALSE, FALSE, FALSE),
   Abort("SemPendAbort", e1, TRUE), Abort("QPendAbort", e2, FALSE)},
  {On("SemPost", e1)},
  Pair(Event("SEM", 0), Event("Q", 0)))

(* An event is deleted between the check and the section of a multiple     *)
(* pend on it, and created again.                                          *)
MultiDelApp == App(
  {[op |-> "SemDel", ev |-> e1, all |-> FALSE], [op |-> "SemCreate", ev |-> e1, cnt |-> 1],
   Dly(1)},
  {[op |-> "PendMulti", evs |-> {e1, e2}, timeout |-> 1]},
  {Post("MboxPost", e2, m1, FALSE, FALSE, FALSE)},
  {},
  Pair(Event("SEM", 1), Event("MBOX", 0)))

(* Flags, awaited all or any, kept or consumed. *)
Wait(flags, all, consume) ==
  [grp |-> g1, flags |-> flags, all |-> all, set |-> TRUE, consume |-> consume]
FlagOp(op, w, timeout) == [op |-> op, wait |-> w, timeout |-> timeout]
FlagPost(flags, set) == [op |-> "FlagPost", grp |-> g1, flags |-> flags, set |-> set]
FlagApp == App(
  {FlagOp("FlagPend", Wait({f1, f2}, TRUE, TRUE), 0), Dly(1)},
  {FlagOp("FlagPend", Wait({f1, f2}, FALSE, FALSE), 2), Prioed("TaskSuspend", 1)},
  {FlagPost({f1}, TRUE), FlagPost({f2}, TRUE), FlagPost({f1, f2}, FALSE),
   FlagOp("FlagAccept", Wait({f1}, FALSE, TRUE), 0), Prioed("TaskResume", 1)},
  {FlagPost({f1}, TRUE)},
  Pair(Nothing, Nothing))

(* Delays, suspension and the scheduler lock. *)
TimeApp == App(
  {Dly(1), Dly(2), Prioed("TaskSuspend", 1), Pend("SemPend", e1, 2)},
  {Dly(2), Prioed("TaskSuspend", 1), Prioed("TaskResume", 1), Prioed("TimeDlyResume", 1),
   Prioed("TaskSuspend", 2)},
  {On("SemPost", e1), Prioed("TaskResume", 1), Prioed("TaskResume", 2),
   Plain("SchedLock"), Plain("SchedUnlock")},
  {Prioed("TimeDlyResume", 1), Prioed("TaskResume", 2)},
  Pair(Event("SEM", 0), Nothing))

(* Tasks are created, deleted and moved to the free priority 0. *)
TaskApp == App(
  {Dly(1), Prioed("TaskDel", NULL), Pend("SemPend", e1, 0)},
  {Dly(1), Pend("SemPend", e1, 1), Prioed("TaskDelReq", 3), Prioed("TaskCreate", 1)},
  {Prioed("TaskCreate", 1), Prioed("TaskDel", 1), Prioed("TaskDel", 2), On("SemPost", e1),
   Prioed("TaskCreate", 2)},
  {On("SemPost", e1)},
  Pair(Event("SEM", 0), Nothing))

PrioApp == App(
  {Dly(1), Dly(2), Pend("SemPend", e1, 1)},
  {Dly(1), Prioed("TaskSuspend", 2),
   [op |-> "ChangePrio", prio |-> NULL, newprio |-> 0],
   [op |-> "ChangePrio", prio |-> NULL, newprio |-> 2]},
  {Dly(1), Prioed("TaskResume", 2),
   [op |-> "ChangePrio", prio |-> 1, newprio |-> 0],
   [op |-> "ChangePrio", prio |-> 0, newprio |-> 1],
   [op |-> "ChangePrio", prio |-> NULL, newprio |-> 1], On("SemPost", e1)},
  {},
  Pair(Event("SEM", 0), Nothing))

(* Events and a flag group are deleted under their waiters and created again. *)
DelApp == App(
  {Pend("SemPend", e1, 0), Pend("MboxPend", e1, 1), Pend("QPend", e1, 0)},
  {Pend("SemPend", e1, 1), FlagOp("FlagPend", Wait({f1}, TRUE, TRUE), 1)},
  {[op |-> "SemDel", ev |-> e1, all |-> TRUE], [op |-> "SemDel", ev |-> e1, all |-> FALSE],
   [op |-> "MboxDel", ev |-> e1, all |-> TRUE], [op |-> "QDel", ev |-> e1, all |-> TRUE],
   [op |-> "SemCreate", ev |-> e1, cnt |-> 1], [op |-> "MboxCreate", ev |-> e1, msg |-> m1],
   On("QCreate", e1), On("SemPost", e1),
   Post("MboxPost", e1, m2, FALSE, FALSE, FALSE), Post("QPost", e1, m2, FALSE, FALSE, FALSE),
   [op |-> "FlagDel", grp |-> g1, all |-> TRUE], [op |-> "FlagCreate", grp |-> g1, flags |-> {f1}],
   FlagPost({f1}, TRUE)},
  {},
  Pair(Event("SEM", 0), Nothing))

(* Tasks share a mutex that raises its owner to priority 0. *)
Mutex == [e \in {e1, e2} |->
            IF e = e1 THEN [type |-> "MUTEX", cnt |-> 0, pip |-> 0] ELSE Nothing]
MutexApp == App(
  {Pend("MutexPend", e1, 0), Pend("MutexPend", e1, 1), On("MutexPost", e1), Dly(1)},
  {Pend("MutexPend", e1, 0), Pend("MutexPend", e1, 2), On("MutexPost", e1), Dly(1)},
  {Pend("MutexPend", e1, 0), On("MutexPost", e1), On("MutexAccept", e1), Dly(1)},
  {},
  Mutex)
MutexDelApp == App(
  {Pend("MutexPend", e1, 0), On("MutexPost", e1), Dly(1)},
  {Pend("MutexPend", e1, 1), On("MutexPost", e1), Dly(1)},
  {Pend("MutexPend", e1, 0), On("MutexPost", e1), [op |-> "MutexCreate", ev |-> e1, pip |-> 0],
   [op |-> "MutexDel", ev |-> e1, all |-> FALSE], [op |-> "MutexDel", ev |-> e1, all |-> TRUE]},
  {},
  Mutex)

SmallApps == {SemApp, MailApp, QueueApp, MultiApp, MultiDelApp, FlagApp, TimeApp, TaskApp,
              PrioApp, DelApp, MutexApp, MutexDelApp}
=============================================================================
