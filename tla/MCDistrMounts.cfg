SPECIFICATION MountsSpec
CONSTANTS
  NodeCount = 2
  ItemsCount = 2
  ChunkItems = 1
  CrcAtom = 7
  Inputs <- MCInputs
  OldOutputs <- MCOldOutputs
  MayFail = TRUE
  IntMax = 4
  Garbage = {0}
  FirstHeaders <- AnyHeader
INVARIANTS
  NoPartialResult
  LivingDestFull
  NoVerdictOnDamage
CHECK_DEADLOCK FALSE
