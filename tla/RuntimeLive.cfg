SPECIFICATION FairSpec
CONSTANTS
  w1 = w1
  w2 = w2
  Workers <- TwoWorkers
  ReadTimeout = 1
  SyncTimeout = 1
  CommitTimeout = 2
  WatchdogLimit = 3
  MaxAttempts = 1
  MaxReports = 0
  MaxStall = 0
  MaxTruth = 0
  MaxWedged = 1
  MaxSignals = 1
PROPERTIES
  LoopsKeepTurning
  ShutdownCompletes
INVARIANT WatchdogSilent
