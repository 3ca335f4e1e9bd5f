SPECIFICATION FairSpec
CONSTANTS
  RateLimit = 3
  CallBlocks = 2
  OrphanBlocks = 4
  MaxFaults = 2
  MaxRestarts = 1
INVARIANTS
  RefusalHasCause
PROPERTIES
  PassEnds
  WeightsKeepFlowing
