CONSTANTS
  MSS = 2
  FlowSize = 4
  InitialCwnd = 1
  InitialSsThresh = 65535
  RetxThresh = 2
  UseP2 = TRUE
  RC3Once = TRUE
  FlushOut = FALSE
  FirstLevel = 1
  WordSize = 65536
  CnRetries = 2
  Programs <- MCHasty
  MaxLosses = 0
  MaxEarlyTimeouts = 0
  MaxOvertakes = 2

SPECIFICATION Spec

INVARIANTS
  AllBeforeClose

CHECK_DEADLOCK FALSE
