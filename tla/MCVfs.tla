------------------------------- MODULE MCVfs -------------------------------
(* A source's mount in small: a REP channel with both files, and a PULL      *)
(* channel. Besides their paths, programs may ask for a path that the last   *)
(* one only begins with.                                                     *)
EXTENDS Vfs, TLC

CONSTANTS h1, h2, o1, o2, o3

Row(fd, sock, method, endpoint, fmode) ==
  [fd |-> fd, sock |-> sock, method |-> method, endpoint |-> endpoint,
   fmode |-> fmode]

MCDbRecords ==
  << Row(4, "REP", "bind", "detailed-histogram-2", "r"),
     Row(5, "REP", "bind", "detailed-histogram-2", "w"),
     Row(6, "PULL", "bind", "range-request-2", "r") >>

InFile(name) == <<"/", "in", "/">> \o name

MCFileRows ==
  << [ftype |-> "msq", fpath |-> InFile(<<"detailed">>)],
     [ftype |-> "msq", fpath |-> <<"/", "out", "/", "detailed">>],
     [ftype |-> "msq", fpath |-> InFile(<<"range", "-request">>)] >>

MCPaths ==
  {MCFileRows[k].fpath : k \in DOMAIN MCFileRows} \cup {InFile(<<"range">>)}

Symmetry == Permutations(Openers) \cup Permutations(Handles)
=============================================================================
