------------------------------ MODULE MCFsFill ------------------------------
(* Every list of up to four records over seven paths: /in/r, /in/r0 and      *)
(* /in/r00, of which each is the beginning of the next; /in0, of which the   *)
(* directory /in is the beginning; /in/d/r below a directory of its own;     *)
(* /in/d, a file of that directory's name; and /out, a file of the root;     *)
(* and the tables that are shipped.                                          *)
EXTENDS Channels

In == <<"/", "in">>

Paths ==
  { In \o <<"/", "r">>, In \o <<"/", "r", "0">>, In \o <<"/", "r", "0", "0">>,
    In \o <<"0">>, In \o <<"/", "d", "/", "r">>, In \o <<"/", "d">>,
    <<"/", "out">> }

\* The descriptor is the place of the record; the mode alternates.
SmallDatabases ==
  { [k \in DOMAIN paths |->
       [fpath |-> paths[k], fd |-> k, fmode |-> IF k % 2 = 0 THEN "r" ELSE "w"]]
    : paths \in BoundedSeq(Paths, 4) }

MCDatabases == SmallDatabases \cup ShippedTables
=============================================================================
