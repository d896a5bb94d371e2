SPECIFICATION FairSpec
CONSTANTS
  Buffered = {b1, b2, b3}
  Direct = {d1}
  Torn = Torn
  MaxCrashes = 1
  MaxErrors = 1
INVARIANTS
  TypeOK
  OneFrameEach
  NoLostWaiter
PROPERTIES
  EveryAppendReturns
  RefinesDurableLog
CHECK_DEADLOCK FALSE
