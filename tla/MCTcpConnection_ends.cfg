CONSTANTS
  MSS = 2
  FlowSize = 4
  InitialCwnd = 1
  InitialSsThresh = 65535
  RetxThresh = 2
  UseP2 = TRUE
  RC3Once = TRUE
  FlushOut = FALSE
  FirstLevel = 1
  WordSize = 65536
  CnRetries = 2
  Programs <- MCPrograms
  MaxLosses = 2
  MaxOvertakes = 2
  MaxEarlyTimeouts = 0

SPECIFICATION FairSpec

PROPERTIES
  HandshakeEnds
  BothEnd
  ServerEnds

CHECK_DEADLOCK FALSE
