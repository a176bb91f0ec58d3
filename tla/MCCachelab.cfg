SPECIFICATION LabSpec
CONSTANTS
  set_bits = 1
  block_bits = 1
  assoc = 2
  ADDRESS_BITS = 4
  INT_BITS = 3
  Addrs <- MCAddrs
  AccessBound = 5
  Commands <- MCCommands
  Numbers <- MCNumbers
  Files <- MCFiles
  Sizes <- MCSizes
  BATCH = 64
INVARIANTS
  IInv
  SetUnlessRepeated
  WhichTranspose
  StripsPay
PROPERTIES
  MostRecentStays
  ImplementsLru
