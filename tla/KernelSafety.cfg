SPECIFICATION Spec
CONSTANTS
  ncpu = 2
  NCPU = 2
  NENV = 5
  MaxGen = 1
  None = None
  RestatusAny = FALSE
  DestroyTwice = FALSE
  RecvUnaligned = FALSE
INVARIANTS
  OneCpuPerEnv
  FreeListExact
  ReceiverSleeps
  NoPanic
  KernelInv
PROPERTIES
  ImplementsLifeCycle
CHECK_DEADLOCK FALSE
