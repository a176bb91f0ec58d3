SPECIFICATION FairSpec
CONSTANTS
  MAXTHREADS = 2
  CONNECTIONS = 3
  DESCRIPTORS = 4
INVARIANTS
  OwnDescriptors
  LeaksAreRefusals
  LogIsComplete
PROPERTY
  WorkersFinish
CHECK_DEADLOCK FALSE
