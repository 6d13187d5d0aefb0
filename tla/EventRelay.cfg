SPECIFICATION Spec
CONSTANTS
  Events = {e1, e2}
  Replicas = {r1, r2}
  BatchSize = 2
  Lease = 2
  RetryDelay = 1
  Retention = 3
  CleanupBatch = 1
INVARIANTS RelayTypeOK NoEventDropped
PROPERTY OutboxDrains
