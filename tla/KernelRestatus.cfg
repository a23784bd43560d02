SPECIFICATION Spec
CONSTANTS
  ncpu = 2
  NCPU = 2
  NENV = 4
  MaxGen = 2
  None = None
  RestatusAny = TRUE
  DestroyTwice = FALSE
  RecvUnaligned = FALSE
INVARIANTS
  OneCpuPerEnv
CHECK_DEADLOCK FALSE
