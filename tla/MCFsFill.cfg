\* The server starts serving when the table is filled: the filling stops.
SPECIFICATION FillSpec
CONSTANTS
  DirGranularity = 2
  FileGranularity = 1
  Databases <- MCDatabases
  TableSizes = {5, 50}
INVARIANTS
  EntriesFit
  ExactIffPrefixesFirst
  ListsChildren
  FilesReachPeers
CHECK_DEADLOCK FALSE
