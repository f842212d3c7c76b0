SPECIFICATION Spec
CONSTANTS
  MaxAddr = 2
  Latency = 2
  MaxWait = 1
  MinGap = 8
  MaxGap = 8
PROPERTIES
  RestartBackwardObeyed
