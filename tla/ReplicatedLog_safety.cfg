SPECIFICATION Spec
CONSTANTS
  Node = {n0, n1, n2}
  Boot = n0
  Req = {r1, r2, poison}
  Bad = {poison}
  NoReq = NoReq
  Faults = {"net", "wal", "client"}
  MaxIndex = 2
  MaxSends = 0
SYMMETRY Symmetry
INVARIANTS
  TypeOK
  Agreement
  AckedIsReplicated
  CommitWaitIsVacuous
  AcksMeanApplied
  FailedStaysUnmarked
  NoCircularWait
PROPERTY
  RefinesTotalOrder
CHECK_DEADLOCK FALSE
