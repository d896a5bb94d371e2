SPECIFICATION FairSpec
CONSTANTS
  N = 3
  MaxCrashes = 2
  MaxRestarts = 1
  MaxDelays = 1
INVARIANTS
  TypeOK
  OneLiveLeader
PROPERTY
  Settles
CHECK_DEADLOCK FALSE
