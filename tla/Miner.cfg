SPECIFICATION Spec
CONSTANTS
  me = me
  a = a
  b = b
  Me <- me
  Others <- Two
  Senders <- Each
  Threads = 1
  MaxChanges = 2
  MaxFaults = 1
INVARIANTS
  TypeOK
  SteadyServed
  StrangersRefused
PROPERTIES
  ChallengesEnd
  ShutdownEnds
  GateCatchesUp
CHECK_DEADLOCK FALSE
