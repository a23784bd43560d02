SPECIFICATION Spec
CONSTANTS
  Cpu = {c1,c2}
  Env = {e1,e2}
  Page = {p0,p1,p2,p3,p4,p5}
  Page0 = p0
  RefMod = 5
  NIDX = 2
  Va <- MCVa
  None = None
  NameUnmapped = FALSE
  EditRunning = FALSE
SYMMETRY Symmetry
INVARIANTS
  RefExact
  FreeExact
  TablesPrivate
  TlbFresh
PROPERTIES
  ImplementsSpaces
CHECK_DEADLOCK FALSE
