SPECIFICATION Spec
CONSTANTS
  MaxAddr = 2
  Latency = 7
  MaxWait = 1
  MinGap <- TightGap
  MaxGap <- TightGapPlusOne
INVARIANTS
  TypeOK
  HandshakeNotLost
  SecondSampleFresh
  FirstSampleFresh
PROPERTIES
  RestartForwardObeyed
  PlaysTheSong
