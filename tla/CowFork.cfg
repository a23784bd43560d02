SPECIFICATION Spec
CONSTANTS
  Env = {e1,e2,e3}
  Root = e1
  NDATA = 1
  NPAGES = 14
  Value = {1}
  Zero = 0
  ReadOnly = {}
  None = None
SYMMETRY Symmetry
VIEW View
INVARIANTS
  Isolated
  ExceptionStackPrivate
PROPERTIES
  ImplementsFork
CHECK_DEADLOCK FALSE
