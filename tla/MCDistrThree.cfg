SPECIFICATION Spec
CONSTANTS
  NodeCount = 3
  ItemsCount = 1
  ChunkItems = 1
  CrcAtom = 7
  Inputs <- MCInputsThree
  OldOutputs <- MCOldOutputsThree
  MayFail = TRUE
INVARIANTS
  DestsServed
