SPECIFICATION Spec
CONSTANTS
  Buffered = {b1, b2}
  Direct = {d1}
  Torn = Torn
  MaxCrashes = 1
  MaxErrors = 0
INVARIANT
  AckedIsReadable
CHECK_DEADLOCK FALSE
