SPECIFICATION NodeSpec
CONSTANTS
  \* FollowerSync
  Follower = {f1}
  Item = {k1}
  MaxIndex = 2
  DesyncAfter = 1
  MaxResyncGap = 2
  MaxFaults = 0
  MaxLostInstalls = 0
  MaxRestarts = 1
  MaxInFlight = 1
  \* ModelStore
  ItemKey = {a, b}
  MaxOps = 3
  MaxWriteErrors = 1
  MaxCrashes = 1
  SegmentLines = 2
  \* StateEngine
  Thread = {t1, t2}
  StateKey = {x, y}
  MaxField = 2
  MaxApplies = 2
  BatchSize = 2
  MaxFlushErrors = 1
  MaxEngineCrashes = 1
  \* AggregateStore
  MaxAppends = 4
  MaxSnapshots = 2
  MaxAppendErrors = 1
  MaxReopens = 2
  \* SessionStore
  SessionId = {s1}
  Request = {r1, r2}
  MaxTime = 3
  Lifetime = 2
  MaxSessionRestarts = 1
  MaxSessionEvents = 4
  NoToken = none
  \* SchemaChange
  Schema = {v0, v1}
  NoSchema = none
  Unreadable = unreadable
  Voter = {n1, n2, n3}
  Approver = {u1}
  MinApprovers = 1
  MaxChanges = 1
  MaxDeploys = 2
  MaxSchemaOps = 2
  \* RollingMigration
  MigrationId = {m1}
  MaxVersion = 1
  MaxMigrationOps = 3
  MaxHandlers = 2
  \* LruCache
  CacheKey = {c1, c2, c3, c4}
  CacheVal = {w1}
  Capacity = 3
  NoEntry = none
INVARIANTS
  NodeTypeOK
  NothingSkipped
  ConfirmedIsLogged LogFollowsMemory ChainHolds
  ValuesAreUnique IndexMatches LogTellsAll FlushIsComplete
  RecoverySkipsNothing
  LoggedOutStaysOut SessionsSurvive
  MajorityDecides OnlyAccepted
  MigrationsAgree
  WellLinked
PROPERTIES
  CleanupSparesTheValid RefinesRecency
CONSTRAINT NoneSkipped
SYMMETRY Interchangeable
CHECK_DEADLOCK FALSE
