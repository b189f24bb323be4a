SPECIFICATION Spec
CONSTANTS
  Pages = {"webdav", "shared"}
  Folder <- MCFolder
  Root = "/"
  Chain = {c1, c2}
  Chunks = 3
  MaxUploads = 2
  MaxTimers = 1
  MaxTrouble = 1
  Faults = {"put", "delete", "lost", "asks"}
INVARIANTS UploadIsWhole CancelLeavesNothing
PROPERTIES UploadEnds TransferSpec
CHECK_DEADLOCK FALSE
