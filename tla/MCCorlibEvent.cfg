SPECIFICATION Spec
CONSTANTS
  Delegates = {d1, d2, d3}
  Null = Null
  MaxDepth = 3
  MaxLen = 4
INVARIANTS
  NoHoleIsLeft
  CastIsValid
PROPERTIES
  KeepsPromise
\* After an invalid cast the program is gone.
CHECK_DEADLOCK FALSE
