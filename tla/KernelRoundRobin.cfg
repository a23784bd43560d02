SPECIFICATION FairSpec
CONSTANTS
  ncpu = 1
  NCPU = 1
  NENV = 4
  MaxGen = 1
  None = None
  RestatusAny = FALSE
  DestroyTwice = FALSE
  RecvUnaligned = FALSE
PROPERTIES
  RoundRobin
CHECK_DEADLOCK FALSE
