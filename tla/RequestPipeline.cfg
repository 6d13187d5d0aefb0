SPECIFICATION Spec
CONSTANTS
  k1 = k1
  Requests = {r1, r2}
  Keys = {k1}
  NoKey = NoKey
  BadKey = BadKey
  Inputs <- MCInputs
  Users = {"alice", "bob"}
  Nobody = "nobody"
  Permissions <- MCPermissions
  Revocable <- MCRevocable
  AuthzEnabled = TRUE
  IdempotencyEnabled = TRUE
  IdempotentOps = {"initiate", "complete"}
  PSKOps = {"report"}
  SkipOps = {"list"}
  LimiterEnabled = TRUE
  FailOpen = FALSE
  RequestTimeout = 1
  PersistTimeout = 1
  ProcessingTTL = 2
  ResultTTL = 2
  FailureTTL = 1
INVARIANTS PipelineTypeOK OneExecutionPerKey ResultsBelongToRequest ResultsOnlyForEntitled
PROPERTY KeysAreFreed
