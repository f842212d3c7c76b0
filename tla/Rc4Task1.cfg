SPECIFICATION Spec
CONSTANTS
  N = 64
PROPERTIES
  EventuallyIdentity
