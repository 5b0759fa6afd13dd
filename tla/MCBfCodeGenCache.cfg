SPECIFICATION Spec
CONSTANTS
  Files = {f1, f2}
  i1 = i1
  i2 = i2
  i3 = i3
  s1 = s1
  s2 = s2
  IRs <- MCIRs
  Shapes <- MCShapes
  ShapeOf <- MCShapeOf
  Windows = TRUE
  OldThreads = {l1}
  None = None
SYMMETRY Symmetry
VIEW Seen
CONSTRAINT AbandonedIsAlone
INVARIANTS
  DoneIsCurrent
  FailedIsForgotten
PROPERTIES
  ForeignIsReported
