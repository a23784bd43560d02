SPECIFICATION WaitingSpec
CONSTANTS
  Cpu = {c1, c2, c3}
  NoCpu = NoCpu
  NPROC = 4
  NCPU = 3
  BootCpus = {0}
  Nobody = Nobody
  Env = {e1, e2, e3}
  Value = {v1, v2}
  Page = {p1}
  Sender = {e1, e2, e3}
  Receiver = {e1}
  WantsPage = {}
  Careless = TRUE
  None = None
INVARIANTS
  NoPanic
CHECK_DEADLOCK FALSE
