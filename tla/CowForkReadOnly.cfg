SPECIFICATION Spec
CONSTANTS
  Env = {e1,e2}
  Root = e1
  NDATA = 1
  NPAGES = 12
  Value = {1}
  Zero = 0
  ReadOnly = {1}
  None = None
VIEW View
PROPERTIES
  OnlyCowCopied
CHECK_DEADLOCK FALSE
