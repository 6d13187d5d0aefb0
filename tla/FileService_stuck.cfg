SPECIFICATION FairSpec
CONSTANTS
  FileIds = {f1}
  Keys = {k1}
  NoKey = NoKey
  NoFile = NoFile
  Requests = {r1}
  Cleaners = {c1}
  Modes = {"multipart"}
  BatchSize = 1
  ScanRequired = TRUE
  AnyExpected = FALSE
  Faults = FALSE
  MaxVersion = 3
PROPERTY ExpiredUploadsAreCleaned
