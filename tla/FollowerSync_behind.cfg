SPECIFICATION FairSpec
CONSTANTS
  Follower = {f1}
  Item = {k1}
  MaxIndex = 2
  DesyncAfter = 3
  MaxResyncGap = 2
  MaxFaults = 3
  MaxLostInstalls = 0
  MaxRestarts = 0
  MaxInFlight = 1
PROPERTY TheyCatchUp
CHECK_DEADLOCK FALSE
