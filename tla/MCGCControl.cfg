SPECIFICATION FairSpec
CONSTANTS
  Threads = {t1, t2}
  Periods = {"off"}
  MaxCalls = 1
  ThreadsMayDie = TRUE
INVARIANTS
  LastSweepIsAlone
PROPERTIES
  EveryRequestIsCollected
  CollectReturns
  StopReturns
\* The program ends.
CHECK_DEADLOCK FALSE
