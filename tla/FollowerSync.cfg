SPECIFICATION FairSpec
CONSTANTS
  Follower = {f1}
  Item = {k1}
  MaxIndex = 2
  DesyncAfter = 3
  MaxResyncGap = 2
  MaxFaults = 3
  MaxLostInstalls = 1
  MaxRestarts = 0
  MaxInFlight = 1
INVARIANT BelievedIsThere
PROPERTIES DesyncedReturns BehindIsServed
CHECK_DEADLOCK FALSE
