\* The server ends after the unmount.
SPECIFICATION FsSpec
CONSTANTS
  h1 = h1
  h2 = h2
  o1 = o1
  o2 = o2
  o3 = o3
  Handles = {h1, h2}
  NullSock = NullSock
  Closed = Closed
  Granularity = 2
  DirGranularity = 2
  FileGranularity = 1
  DbRecords <- MCDbRecords
  FileRows <- MCFileRows
  Paths <- MCPaths
  Openers = {o1, o2, o3}
  Histories = {{}, {"crowded"}, {"shared"}}
SYMMETRY Symmetry
INVARIANTS
  OpenFilesStayUsable
  NothingLeaks
  IoIsDirected
  RestIsOfUser
PROPERTIES
  ImplementsPool
  TermFreesOwnMemory
CHECK_DEADLOCK FALSE
