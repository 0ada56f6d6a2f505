CONSTANTS
  MaxNesting = 2
  MaxTimers = 1

SPECIFICATION FairSpec

INVARIANTS
  TypeOK
  TimerRuns

PROPERTIES
  KeepsSimulating
  QuitEnds

CHECK_DEADLOCK FALSE
