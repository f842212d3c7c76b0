SPECIFICATION FairSpec
CONSTANTS
  OS_LOWEST_PRIO = 4
  OSTCBTbl <- AllTasks
  e1 = e1
  e2 = e2
  m1 = m1
  m2 = m2
  g1 = g1
  f1 = f1
  f2 = f2
  OSEventTblAll = {e1, e2}
  Msgs = {m1, m2}
  OSFlagTbl = {g1}
  Flags = {f1, f2}
  NULL = NULL
  OS_TCB_RESERVED = RESERVED
  OSSemMax = 2
  OSQSize = 2
  MaxLockNesting = 2
  Apps <- SmallApps
INVARIANTS
  TypeOK
  ReadyIffRunnable
  WaitListsExact
  HighestRuns
  NothingLost
  NoWaiterWhileAvailable
  OwnerOutranksWaiters
PROPERTIES
  QueuesAreFifo
  TimedPendReturns
