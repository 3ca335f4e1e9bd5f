SPECIFICATION Spec
CONSTANTS
  TopK = 2
  Ceiling = 100
  PruneBelow = 12
  Uids <- ThreeUids
  Outcomes <- Mixtures
  MaxRounds = 3
INVARIANTS
  BetterNeverEarnsLess
  RejectedDoNotCount
  EmaIsWeightedMean
