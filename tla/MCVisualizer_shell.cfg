CONSTANTS
  MaxNesting = 2
  MaxTimers = 1

SPECIFICATION FairSpec

PROPERTIES
  ShellReleases

CHECK_DEADLOCK FALSE
