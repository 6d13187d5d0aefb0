SPECIFICATION Spec
CONSTANTS
  FileIds = {f1, f2}
  Keys = {k1, k2}
  NoKey = NoKey
  NoFile = NoFile
  Requests = {r1, r2}
  Cleaners = {c1}
  Modes = {"multipart"}
  BatchSize = 2
  ScanRequired = TRUE
  AnyExpected = TRUE
  Faults = FALSE
  MaxVersion = 4
SYMMETRY Symmetry
INVARIANTS OutboxMirrorsTable NoOrphanedUpload UnfinishedUploadsReleased
