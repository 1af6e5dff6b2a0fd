------------------------------- MODULE FsFill -------------------------------
(***************************************************************************)
(* Filling the table of paths, a record per step, and what the table then  *)
(* answers, against the directory tree that the records describe.          *)
(***************************************************************************)
EXTENDS FsTable

CONSTANT Databases    \* the record lists a server may start with

VARIABLES
  db_records,    \* the records of the server's node
  done,          \* how many of them are in the table
  fs_structure   \* the table

fillVars == <<db_records, done, fs_structure>>

ASSUME DatabasesAssumption ==
  \A db \in Databases :
    /\ Len(db) \in Nat /\ DOMAIN db = 1 .. Len(db)
    /\ \A k \in DOMAIN db :
         /\ db[k].fmode \in {"r", "w"} /\ db[k].fd \in Int
         /\ db[k].fpath \in Seq(STRING) \ {<<>>}

FillInit ==
  /\ db_records \in Databases
  /\ done = 0
  /\ fs_structure = EmptyTable

FillRecord ==
  /\ done < Len(db_records)
  /\ done' = done + 1
  /\ fs_structure' = AddRecord(fs_structure, db_records[done + 1])
  /\ UNCHANGED db_records

FillSpec == FillInit /\ [][FillRecord]_fillVars

-----------------------------------------------------------------------------
(* The tree that the records seen so far describe. *)

Seen == SubSeq(db_records, 1, done)

DirsOf(path) == {SubSeq(path, 1, n) : n \in ToSet(SubDirLens(path)) \ {0}}

Files == {Seen[k].fpath : k \in DOMAIN Seen}
Dirs == UNION {DirsOf(path) : path \in Files}

\* The first record that mentions a file or a directory.
FirstMention(path) ==
  Min({k \in DOMAIN Seen : path \in DirsOf(Seen[k].fpath) \cup {Seen[k].fpath}})

\* The records describe a tree: those of one path agree on descriptor and mode, and
\* no file is a directory.
IsTree ==
  /\ \A j, k \in DOMAIN Seen :
       Seen[j].fpath = Seen[k].fpath =>
         Seen[j].fd = Seen[k].fd /\ Seen[j].fmode = Seen[k].fmode
  /\ Files \cap Dirs = {}

\* From the root, with one separator between names and none behind the last.
IsTidy(path) ==
  /\ path[1] = "/" /\ Last(path) # "/"
  /\ \A n \in 1 .. Len(path) - 1 : <<path[n], path[n + 1]>> # <<"/", "/">>

\* A path that is the beginning of another one is mentioned first: ranges1
\* before ranges10, a directory in before a file input beside it. (A directory
\* is mentioned with every path below it.)
PrefixesFirst ==
  LET paths == Files \cup Dirs
  IN  \A p, q \in paths :
        IsStrictPrefix(p, q) /\ p \notin DirsOf(q) =>
          FirstMention(p) <= FirstMention(q)

-----------------------------------------------------------------------------
\* No entry is written behind the array, although directories and files extend
\* it by different amounts and at different places of the code.
EntriesFit == Len(fs_structure.array) <= fs_structure.maxcount

\* Every file is found under its own path, with its own descriptor and mode, and
\* every directory as a directory.
LookupsExact ==
  /\ \A k \in DOMAIN Seen :
       EntriesOf(fs_structure, Seen[k].fpath)
         = {Entry(Seen[k].fpath, Seen[k].fd, Seen[k].fmode)}
  /\ \A d \in Dirs : EntriesOf(fs_structure, d) = {Entry(d, -1, "dir")}

\* Although paths are compared over the length of the path asked for, lookups
\* are exact for the databases that name prefixes first, and for no others: which
\* tables are safe to ship, and that the others do lose a file.
ExactIffPrefixesFirst == LookupsExact <=> IsTree /\ PrefixesFirst

\* Listing a directory of such a database, if its paths are tidy, shows each file and
\* directory right below it, once, and nothing else.
ListsChildren ==
  IsTree /\ PrefixesFirst /\ (\A path \in Files : IsTidy(path)) =>
    \A d \in Dirs :
      LET listed == ReadDir(fs_structure, d)
          children == {p \in (Files \cup Dirs) \ {d} : Last(SubDirLens(p)) = Len(d)
                                                        /\ IsPrefix(d, p)}
      IN  /\ {listed[k].path : k \in DOMAIN listed} = children
          /\ \A j, k \in DOMAIN listed : listed[j] = listed[k] => j = k
=============================================================================
