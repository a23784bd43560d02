SPECIFICATION HelpersSpec
CONSTANTS
  PAGE = 44
  UserStack <- NormalStack
  MAXLOCALS = 2
  Overrun = FALSE
  CONSBUFSIZE = 3
  PENDING = 3
  TYPEAHEAD = 2
  PGSIZE = 2
  USERPAGES = 3
  PAGES = 4
  LPGSIZE = 2
  LPAGES = 5
  NSEG = 2
  PAGEBYTES = 64
  STRUCTBYTES = 8
  NPT = 16
  NPD = 9
  KTABLES = 2
  IOPAGES = 3
  NCPU = 2
  KSTKSIZE = 1
  KSTKGAP = 1
  IOPHYSMEM = 7
  EXTPHYSMEM = 8
  MPENTRY = 3
  ENVPAGES = 1
  MAXEND = 11
  NSTABS = 6
  MAXADDR = 7
INVARIANT SearchTotal
CHECK_DEADLOCK FALSE
