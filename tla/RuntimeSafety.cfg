SPECIFICATION Spec
CONSTANTS
  w1 = w1
  w2 = w2
  Workers <- TwoWorkers
  ReadTimeout = 1
  SyncTimeout = 2
  CommitTimeout = 4
  WatchdogLimit = 6
  MaxAttempts = 3
  MaxReports = 2
  MaxStall = 1
  MaxTruth = 1
  MaxWedged = 1
  MaxSignals = 2
SYMMETRY Symmetry
INVARIANTS
  TypeOK
  CallsAccounted
  AwaitedCallsSerialized
  CommitAgeBounded
