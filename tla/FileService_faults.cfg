SPECIFICATION Spec
CONSTANTS
  FileIds = {f1}
  Keys = {k1}
  NoKey = NoKey
  NoFile = NoFile
  Requests = {r1, r2}
  Cleaners = {c1}
  Modes = {"single", "multipart"}
  BatchSize = 1
  ScanRequired = TRUE
  AnyExpected = FALSE
  Faults = TRUE
  MaxVersion = 6
SYMMETRY Symmetry
INVARIANTS TypeOK OutboxMirrorsTable NoLostUpdate DownloadsWereScanned UnfinishedUploadsReleased
PROPERTIES RemovalsAnnounced ImplementsLifecycle
