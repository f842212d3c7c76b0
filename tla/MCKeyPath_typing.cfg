SPECIFICATION Spec
CONSTANTS
  Sync = 2
  scope_info_bytes = 2
  Typists <- AllTypists
INVARIANTS
  NoPressMissed
  InStepBetweenKeys
PROPERTIES
  ShowsPressesOnly
  PauseHeeded
  ComesToRest
