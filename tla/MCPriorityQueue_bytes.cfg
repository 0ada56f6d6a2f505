CONSTANTS
  NumClasses = 5
  Priorities <- MCPriorities
  Flows = {f1, f2}
  Sizes <- MCSizes
  Mode = "bytes"
  MaxPackets = 0
  MaxBytes = 5
  BackgroundDrop = FALSE
  Watched = 0

SPECIFICATION Spec

INVARIANTS
  CountersAgree
  WithinLimit

PROPERTY
  TopClassIsDropTail
