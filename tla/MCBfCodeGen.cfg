SPECIFICATION FairSpec
CONSTANTS
  m1 = m1
  m2 = m2
  Modules <- MCModules
  Changed <- MCChanged
  MaxRequests = 3
  mMaxThreadCount = 2
  NoReq = NoReq
INVARIANTS
  RequestInUse
  ThreadInUse
  NoModuleIsLost
  ObjectIsCurrent
PROPERTIES
  BuildEnds
\* A compiler that nobody asks for a build rests.
CHECK_DEADLOCK FALSE
