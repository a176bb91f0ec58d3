SPECIFICATION Spec
CONSTANTS
  set_bits = 0
  block_bits = 1
  assoc = 3
  ADDRESS_BITS = 4
  INT_BITS = 3
  Addrs <- MCOneSet
  AccessBound = 6
PROPERTY
  EvictsLeastRecent
