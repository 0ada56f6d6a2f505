CONSTANTS
  NumClasses = 5
  Priorities <- MCPriorities
  Flows = {f1, f2}
  Sizes <- MCOneSize
  Mode = "packets"
  MaxPackets = 3
  MaxBytes = 5
  BackgroundDrop = TRUE
  Watched = 1

SPECIFICATION Spec

INVARIANTS
  TypeOK
  WithinLimit

PROPERTIES
  UpperClassesAlone
