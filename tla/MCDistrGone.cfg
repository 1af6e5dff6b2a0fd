SPECIFICATION MountsSpec
CONSTANTS
  NodeCount = 2
  ItemsCount = 2
  ChunkItems = 1
  CrcAtom = 7
  Inputs <- MCInputs
  OldOutputs <- MCOldOutputs
  MayFail = FALSE
  IntMax = 4
  Garbage = {0}
  FirstHeaders <- OnlyUnknown
INVARIANTS
  WaitsForAllRanges
CHECK_DEADLOCK FALSE
