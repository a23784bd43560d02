SPECIFICATION WaitingSpec
CONSTANTS
  Cpu = {c1, c2, c3}
  NoCpu = NoCpu
  NPROC = 2
  NCPU = 2
  BootCpus = {1}
  Nobody = Nobody
  Env = {e1, e2, e3}
  Value = {v1, v2}
  Page = {p1}
  Sender = {e2, e3}
  Receiver = {e1}
  WantsPage = {e1}
  Careless = FALSE
  None = None
INVARIANTS
  OwnStack
CHECK_DEADLOCK FALSE
