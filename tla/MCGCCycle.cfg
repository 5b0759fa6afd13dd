SPECIFICATION FairSpec
CONSTANTS
  Objects = {o1, o2}
  Threads = {t1}
  NoObj = NoObj
  AllocPaths = {"ClassVData"}
  ScanMayFail = FALSE
  RootsMayFail = FALSE
  FirstCap = 1
  MaxCap = 2
  MaxRefs = 1
  MaxStatics = 0
PROPERTIES
  OnlyDeletedIsFreed
  CollectionEnds
  DeletedIsReclaimed
