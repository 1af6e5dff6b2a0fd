----------------------------- MODULE MCSockPool -----------------------------
(* A node's database in small: a REP and a REQ channel, each with both       *)
(* directions, and a standard stream. The files outgrow an array of          *)
(* Granularity = 2 cells; the cells it grows by keep what realloc left there. *)
EXTENDS SockHandles, TLC

CONSTANTS h1, h2, c1, c2, c3

Row(fd, sock, method, endpoint, fmode) ==
  [fd |-> fd, sock |-> sock, method |-> method, endpoint |-> endpoint,
   fmode |-> fmode]

MCDbRecords ==
  << Row(1, "none", "unexpected", "", "w"),
     Row(4, "REP", "bind", "detailed-histogram-2", "r"),
     Row(5, "REP", "bind", "detailed-histogram-2", "w"),
     Row(7, "REQ", "connect", "ranges-52", "w"),
     Row(57, "REQ", "connect", "ranges-52", "r") >>

MCMsqFds == {4, 5, 7, 57}

Symmetry == Permutations(Callers) \cup Permutations(Handles)
=============================================================================
