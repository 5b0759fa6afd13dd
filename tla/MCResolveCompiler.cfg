SPECIFICATION FairSpec
CONSTANTS
  MaxEdits = 2
  MaxRequests = 4
INVARIANTS
  CommandIsOurs
  SpinIsShort
  CancelIsLostOnlyInAutocomplete
PROPERTIES
  EveryEditIsResolved
  MainReturns
\* With the user idle and everything resolved nothing is left to do.
CHECK_DEADLOCK FALSE
