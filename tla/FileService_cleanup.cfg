SPECIFICATION FairSpec
CONSTANTS
  FileIds = {f1, f2}
  Keys = {k1, k2}
  NoKey = NoKey
  NoFile = NoFile
  Requests = {r1, r2}
  Cleaners = {c1}
  Modes = {"single"}
  BatchSize = 1
  ScanRequired = FALSE
  AnyExpected = FALSE
  Faults = TRUE
  MaxVersion = 3
PROPERTY ExpiredUploadsAreCleaned
