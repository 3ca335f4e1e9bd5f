SPECIFICATION Spec
CONSTANTS
  w1 = w1
  w2 = w2
  Workers <- TwoWorkers
  ReadTimeout = 1
  SyncTimeout = 2
  CommitTimeout = 4
  WatchdogLimit = 6
  MaxAttempts = 1
  MaxReports = 0
  MaxStall = 0
  MaxTruth = 0
  MaxWedged = 1
  MaxSignals = 0
INVARIANT SingleReader
