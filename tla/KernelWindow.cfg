SPECIFICATION Spec
CONSTANTS
  ncpu = 2
  NCPU = 2
  NENV = 4
  MaxGen = 2
  None = None
  RestatusAny = FALSE
  DestroyTwice = FALSE
  RecvUnaligned = FALSE
INVARIANTS
  NoFreedDirectory
CHECK_DEADLOCK FALSE
