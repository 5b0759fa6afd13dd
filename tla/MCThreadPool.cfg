SPECIFICATION FairSpec
CONSTANTS
  Providers = {p1, p2}
  Jobs = {j1, j2, j3}
  Cancellable = {j1}
  Workers = {w1, w2}
  mMaxThreads = 2
  PerProvider = 1
  NoJob = NoJob
INVARIANTS
  CancelReachesLiveJobs
  EveryJobIsDeletedOnce
  FreeThreadsIsExact
  NoThreadSurvives
PROPERTIES
  EveryJobIsPerformed
  ShutdownReturns
\* A pool that nobody gives a job rests, and so does one that is shut down.
CHECK_DEADLOCK FALSE
