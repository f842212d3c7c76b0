SPECIFICATION Spec
CONSTANTS
  MaxAddr = 2
  Latency = 2
  MaxWait = 1
  MinGap = 2
  MaxGap = 4
PROPERTIES
  PlayingProgresses
  RestartForwardServed
