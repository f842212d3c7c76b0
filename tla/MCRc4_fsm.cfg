SPECIFICATION Spec
CONSTANTS
  N = 8
  Secrets <- SmallKeys
INVARIANTS
  FillsAllButLast
  IterationEffect
PROPERTIES
  SchedulesForever
