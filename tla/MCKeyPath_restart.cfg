SPECIFICATION Spec
CONSTANTS
  Sync = 2
  scope_info_bytes = 2
  Typists <- Careful
PROPERTIES
  RestartOnlyByR
