SPECIFICATION Spec
CONSTANTS
  v = v
  a = a
  b = b
  c = c
  Slots = 2
  TestCases = 1
  Steps = 1
  Outputs = 1
  Uids <- ThreeUids
  Hotkeys <- FourHotkeys
  Self = v
  Parameters <- Two
  Payloads <- FourPayloads
  TrainHours = 2
  TestHours = 1
  TotalHours = 4
  MaxRounds = 2
  MaxSwaps = 1
SYMMETRY Symmetry
CHECK_DEADLOCK FALSE
INVARIANTS
  TypeOK
  LeaksHaveCause
  PairedResponses
  EveryAnswerIsJudged
  ReportsGoHome
  ReportsNameTheAsked
  PeriodsFit
