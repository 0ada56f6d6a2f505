CONSTANTS
  Workers = {w1, w2}
  Jobs <- MCMixed
  Valgrind = TRUE
  MaxFaults = 1

SPECIFICATION FairSpec

INVARIANTS
  TypeOK
  NoneLost
  BreaksComeLast
  ExitCodeHonest
  FailuresReported

PROPERTIES
  InterruptCutsOff
  RunTestsEnds

CHECK_DEADLOCK FALSE
