SPECIFICATION Spec
CONSTANTS
  Objects = {o1, o2}
  Threads = {t1}
  NoObj = NoObj
  AllocPaths = {"ClassVData", "TypeInstance"}
  ScanMayFail = FALSE
  RootsMayFail = TRUE
  FirstCap = 2
  MaxCap = 2
  MaxRefs = 1
  MaxStatics = 1
SYMMETRY Symmetry
INVARIANTS
  IInv
  NoPrematureFree
  NoFalseLeak
  InvalidMarkExplained
  PendingIsAllocated
