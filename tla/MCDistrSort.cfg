SPECIFICATION Spec
CONSTANTS
  NodeCount = 2
  ItemsCount = 3
  ChunkItems = 2
  CrcAtom = 7
  Inputs <- MCInputs
  OldOutputs <- MCOldOutputs
  MayFail = FALSE
INVARIANTS
  TypeOK
  HistogramsIntact
  ExchangeInStep
  CompleteAgreed
  DestsServed
  VerdictIsSound
PROPERTIES
  ImplementsSortJob
  Termination
