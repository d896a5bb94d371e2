SPECIFICATION FairSpec
CONSTANTS
  N = 3
  MaxCrashes = 1
  MaxRestarts = 1
  MaxDelays = 0
PROPERTY
  RedirectsSettle
CHECK_DEADLOCK FALSE
