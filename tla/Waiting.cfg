SPECIFICATION WaitingSpec
CONSTANTS
  Cpu = {c1, c2, c3}
  NoCpu = NoCpu
  NPROC = 4
  NCPU = 3
  BootCpus = {0}
  Nobody = Nobody
  Env = {e1, e2, e3}
  Value = {v1, v2}
  Page = {p1}
  Sender = {e2, e3}
  Receiver = {e1}
  WantsPage = {e1}
  Careless = FALSE
  None = None
INVARIANTS
  NoFalsePanic
  MisuseCaught
  OwnStack
  EnvsFirst
  WaitsIffRecving
PROPERTIES
  ImplementsLock
  Handover
  EveryCpuRuns
  ImplementsRendezvous
  Served
  SenderStops
CHECK_DEADLOCK FALSE
