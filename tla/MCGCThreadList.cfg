SPECIFICATION FairSpec
CONSTANTS
  Threads = {t1, t2, t3}
  MainThread = t1
  Collector = Collector
  Nobody = Nobody
INVARIANTS
  EveryThreadIsScanned
  StoppedHoldsNoLock
  EveryThreadIsResumed
PROPERTIES
  CollectionEnds
\* A collection that has stopped a thread inside AddRootCallback waits for ever.
CHECK_DEADLOCK FALSE
