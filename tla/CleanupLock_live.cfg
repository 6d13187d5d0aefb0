SPECIFICATION FairLockSpec
CONSTANTS
  Replicas = {p1, p2}
  Tokens = {t1, t2}
  NoToken = NoToken
  Timeout = 2
  TTL = 3
  HasLocker = TRUE
  RedisForgets = TRUE
PROPERTIES LockIsFreed CleanupKeepsRunning
