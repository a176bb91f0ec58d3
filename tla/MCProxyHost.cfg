SPECIFICATION Spec
CONSTANTS
  MAXTHREADS = 2
  CONNECTIONS = 2
  DESCRIPTORS = 4
INVARIANT
  ConnectsToItsHost
CHECK_DEADLOCK FALSE
