SPECIFICATION LabSpec
CONSTANTS
  Packages = {"mm-firstfit.c", "mm.c"}
  CHUNKSIZE = 8
  MAX_HEAP = 32
  Requests = {0, 8, 12, 24}
  Fills = {101}
  OpSizes = {8, 24, 48}
  num_tracefiles = 2
  OpBound = 3
  REPEATS = 2
  WORD = 4
  TICK = 2
  Boots = {11}
  Ks = {1, 2}
  Samples = {4}
  Epsilons = {50}
  CacheBytes = {4, 8}
  Costs = {1, 3}
  TickBound = 2
  CALLS = 2
INVARIANTS
  TypesOK
  HeapTiles
  FreeListSorted
  AccountsMatch
  BestOfSamples
PROPERTIES
  FreeListServes
  ImplementsAllocator
  ExplicitImplementsAllocator
  
  ReplaysRepeat
  SamplesAreSound
