SPECIFICATION Spec
CONSTANTS
  Inputs <- ThreeSources
  Step = 2
INVARIANT
  RangesOrdered
