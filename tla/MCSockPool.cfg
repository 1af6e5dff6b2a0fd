\* The pool stops after zeromq_term.
SPECIFICATION HandlesSpec
CONSTANTS
  h1 = h1
  h2 = h2
  c1 = c1
  c2 = c2
  c3 = c3
  Handles = {h1, h2}
  NullSock = NullSock
  Callers = {c1, c2, c3}
  Null = Null
  Granularity = 2
  DbRecords <- MCDbRecords
  MsqFds <- MCMsqFds
SYMMETRY Symmetry
INVARIANTS
  TypeOK
  StaleBehindLive
  SocketsMatchSlots
  DualSharing
  HeldIsUsable
  AllOpenAllClosed
PROPERTIES
  ReleaseIsExact
CHECK_DEADLOCK FALSE
