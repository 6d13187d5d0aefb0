SPECIFICATION Spec
CONSTANTS
  Replicas = {r1, r2}
  Operator = op
  None = none
  Configs <- MCConfigs
  Latest = 1
  Loaded = {r1}
INVARIANTS AppTypeOK NothingUsesClosed RunningIsWired SchemaCurrent
PROPERTY StopEnds
