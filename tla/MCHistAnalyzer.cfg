SPECIFICATION Spec
CONSTANTS
  Inputs <- MCInputs
  Step = 2
INVARIANTS
  RangesContiguous
  TwoOrdered
  AsksWhenLast
  CursorFound
PROPERTIES
  AlwaysForward
