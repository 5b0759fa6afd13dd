SPECIFICATION Spec
CONSTANTS
  Threads = {t1}
  Periods = {"timer"}
  MaxCalls = 1
  ThreadsMayDie = FALSE
INVARIANTS
  SyncCollectIsFresh
\* The program ends.
CHECK_DEADLOCK FALSE
