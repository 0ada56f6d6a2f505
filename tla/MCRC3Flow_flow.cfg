CONSTANTS
  MSS = 2
  FlowSize = 10
  Writes <- MCTwoWrites
  InitialCwnd = 1
  InitialSsThresh = 65535
  RetxThresh = 2
  UseP2 = TRUE
  RC3Once = FALSE
  FlushOut = TRUE
  FirstLevel = 1
  WordSize = 65536
  MaxLosses = 2
  MaxEarlyTimeouts = 1

SPECIFICATION FairSpec

INVARIANTS
  TypeOK
  RecoveryEnds
  NextTxInBuffer
  SackTruthful
  FlushIsHarmless
  NeverStuck
  SentBelowBlock
  WindowOpen

PROPERTIES
  LowPriorityOnce
  ImplementsStream
  AllDelivered

CHECK_DEADLOCK FALSE
