SPECIFICATION Spec
CONSTANTS
  ncpu = 2
  NCPU = 2
  NENV = 4
  MaxGen = 2
  None = None
  RestatusAny = FALSE
  DestroyTwice = TRUE
  RecvUnaligned = FALSE
PROPERTIES
  ZombieFreedByItsCpu
CHECK_DEADLOCK FALSE
