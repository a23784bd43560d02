SPECIFICATION Spec
CONSTANTS
  Env = {e1,e2}
  Root = e1
  NDATA = 1
  NPAGES = 5
  Value = {1}
  Zero = 0
  ReadOnly = {}
  None = None
VIEW View
INVARIANTS
  Isolated
CHECK_DEADLOCK FALSE
