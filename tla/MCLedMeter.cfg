SPECIFICATION Spec
CONSTANTS
  Base = 4
  Width = 2
  Top = 1
  Delay <- ShortDelay
  Samples = {0, 1, 2, 3}
  MinGap <- Slowest
INVARIANTS
  TypeOK
  SumExact
PROPERTIES
  BarShowsAverage
  BlinksUndisturbed
  BarRenewed
