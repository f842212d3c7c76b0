SPECIFICATION Spec
CONSTANTS
  N = 8
  Secrets <- SmallKeys
INVARIANTS
  SwapsIAndJ
