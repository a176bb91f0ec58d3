SPECIFICATION SpecRealloc
CONSTANTS
  CHUNKSIZE = 8
  MAX_HEAP = 30
  Requests = {0, 8, 12, 24}
  Fills = {101}
INVARIANT
  PayloadsApart
CHECK_DEADLOCK FALSE
