SPECIFICATION FairSpec
CONSTANTS
  Node = {n0, n1, n2}
  Boot = n0
  Req = {r1, r2}
  Bad = {}
  NoReq = NoReq
  Faults = {}
  MaxIndex = 2
  MaxSends = 1
PROPERTIES
  EveryWriteConfirmed
  FollowersConverge
CHECK_DEADLOCK FALSE
