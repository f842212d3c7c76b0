SPECIFICATION Spec
CONSTANTS
  Count_22K = 32
  CountStep = 16
  TopCount = 32
INVARIANTS
  TypeOK
  PulsePerEdge
PROPERTIES
  PulsesApart
  PulsesForever
