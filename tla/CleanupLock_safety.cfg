SPECIFICATION LockSpec
CONSTANTS
  Replicas = {p1, p2, p3}
  Tokens = {t1, t2, t3, t4}
  NoToken = NoToken
  Timeout = 2
  TTL = 3
  HasLocker = TRUE
  RedisForgets = FALSE
SYMMETRY Symmetry
INVARIANTS LockTypeOK OneRunAtATime LockOutlivesRun
