CONSTANTS
  MSS = 3
  FlowSize = 8
  Writes <- MCOneWrite
  InitialCwnd = 1
  InitialSsThresh = 65535
  RetxThresh = 2
  UseP2 = TRUE
  RC3Once = FALSE
  FlushOut = TRUE
  FirstLevel = 1
  WordSize = 65536
  MaxLosses = 2
  MaxEarlyTimeouts = 0

SPECIFICATION Spec

INVARIANTS
  WindowUsed

CHECK_DEADLOCK FALSE
