SPECIFICATION FairSpec
CONSTANTS
  Node = {n0, n1}
  Boot = n0
  Req = {r1, r2}
  Bad = {}
  NoReq = NoReq
  Faults = {"net"}
  MaxIndex = 2
  MaxSends = 0
PROPERTY
  CommittedWillApply
CHECK_DEADLOCK FALSE
