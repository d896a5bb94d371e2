SPECIFICATION SchemaSpec
CONSTANTS
  Schema = {v0, v1}
  NoSchema = none
  Unreadable = unreadable
  Voter = {n1, n2, n3}
  Approver = {u1}
  MinApprovers = 1
  MaxChanges = 1
  MaxDeploys = 1
  MaxSchemaOps = 2
PROPERTIES
  LockRejectsAll
CHECK_DEADLOCK FALSE
