SPECIFICATION Spec
CONSTANTS
  Cpu = {c1,c2}
  Env = {e1,e2}
  Page = {p0,p1,p2,p3,p4,p5}
  Page0 = p0
  RefMod = 5
  NIDX = 2
  Va <- MCVa
  None = None
  NameUnmapped = TRUE
  EditRunning = FALSE
SYMMETRY Symmetry
INVARIANTS
  RefExact
CHECK_DEADLOCK FALSE
