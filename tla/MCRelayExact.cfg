SPECIFICATION Spec
CONSTANTS
  MAXLINE = 3
  RIO_BUFSIZE = 2
  ResponseBound = 3
INVARIANT
  ForwardsResponse
CHECK_DEADLOCK FALSE
