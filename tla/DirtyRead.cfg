SPECIFICATION Spec
CONSTANTS
  m1 = m1
  m2 = m2
  Miners <- TwoMiners
  Reportable = {}
  Window = 0
  Retention = 1
  MaxTime = 2
  MaxRounds = 2
  MaxCrashes = 0
SYMMETRY Symmetry
INVARIANT ReadsArePersisted
