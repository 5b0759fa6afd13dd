SPECIFICATION Spec
CONSTANTS
  Objects = {o1, o2}
  Threads = {t1, t2}
  NoObj = NoObj
  AllocPaths = {"ClassVData"}
  ScanMayFail = TRUE
  RootsMayFail = FALSE
  FirstCap = 2
  MaxCap = 2
  MaxRefs = 1
  MaxStatics = 0
SYMMETRY Symmetry
INVARIANTS
  NoDanglingReference
  NoHeldLeak
