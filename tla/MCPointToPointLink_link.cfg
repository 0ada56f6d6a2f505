CONSTANTS
  NumClasses = 3
  Priorities <- MCClasses
  Flows = {f}
  Sizes <- MCSizes
  Mode = "bytes"
  MaxPackets = 4
  MaxBytes = 6
  BackgroundDrop = TRUE
  MaxOnWire = 2

SPECIFICATION FairSpec

INVARIANTS
  TypeOK
  WorkConserving
  LateByOnePacket

PROPERTIES
  TopArrivesInOrder
