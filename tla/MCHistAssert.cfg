SPECIFICATION Spec
CONSTANTS
  Inputs <- TwoSources
  Step = 2
INVARIANT
  NoPreviousDetailed
