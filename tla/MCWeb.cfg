SPECIFICATION WebSpec
CONSTANTS
  MAXLINE = 4
  RIO_BUFSIZE = 2
  ResponseBound = 6
  Paths = {p1, p2}
  Lengths = {0, 1, 2}
  CONNECTIONS = 2
  MAXBUF = 12
  HeaderBound = 8
INVARIANTS
  TypesOK
  NothingLost
  PadsOnlyCutLines
  WholeFileOrNone
  HeadersForwarded
  UriAsSplit
PROPERTIES
  ServersGoOn
CHECK_DEADLOCK FALSE
