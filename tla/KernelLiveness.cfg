SPECIFICATION FairSpec
CONSTANTS
  ncpu = 2
  NCPU = 2
  NENV = 4
  MaxGen = 2
  None = None
  RestatusAny = FALSE
  DestroyTwice = FALSE
  RecvUnaligned = FALSE
INVARIANTS
  OwnAddressSpace
PROPERTIES
  ZombieReaped
CHECK_DEADLOCK FALSE
