SPECIFICATION DSpec
CONSTANTS
  Specs <- Two
  SpecOf <- Bump
  MaxRounds = 2
  MaxFaults = 2
INVARIANTS
  OneRegime
  NothingLost
  RunsAccounted
  StaleCodeHasCause
PROPERTY UpdatesArrive
