------------------------------ MODULE FsTable ------------------------------
(***************************************************************************)
(* The table of paths of the file server (server/fs_inmem.c): how it is    *)
(* filled from the rows of the channels table, and how a path is looked up *)
(* in it.                                                                  *)
(*                                                                         *)
(* A path is a sequence of names in which "/" is the separator; no name is *)
(* the beginning of another one, so that a path is a prefix of another as  *)
(* a sequence exactly when it is as a string.                              *)
(***************************************************************************)
EXTENDS Integers, Sequences, SequencesExt

CONSTANTS
  DirGranularity,    \* EFS_ARAAY_GRANULARITY: what a directory grows the array by
  FileGranularity    \* what a file grows it by

ASSUME FsGranularityAssumption ==
  DirGranularity \in Nat \ {0} /\ FileGranularity \in Nat \ {0}

\* fd -1 and mode "dir" for a directory, else those of the record.
Entry(path, fd, mode) == [path |-> path, fd |-> fd, mode |-> mode]

\* A struct file_info_array_t without an array.
EmptyTable == [array |-> <<>>, maxcount |-> 0]

-----------------------------------------------------------------------------
(* Lookup. *)

\* fsfile_by_path: the first entry that begins with the path, if any. Only the
\* length of the path asked for is compared.
ByPath(table, path) ==
  LET match == {k \in DOMAIN table.array : IsPrefix(path, table.array[k].path)}
  IN  IF match = {} THEN {} ELSE {Min(match)}

\* The entry that open, read, write, release and getattr use for a path.
EntriesOf(table, path) == {table.array[k] : k \in ByPath(table, path)}

\* Seeded fault of ParentLen: the trailing separator is not taken off.
ParentLenSlash(path) == Max({n \in DOMAIN path : path[n] = "/"})

\* name_from_path_get_path_len: how much of the path is its directory, without
\* the last separator unless it is the root's.
ParentLen(path) ==
  LET len == Max({n \in DOMAIN path : path[n] = "/"})
  IN  IF len > 1 THEN len - 1 ELSE len

\* An entry's directory has the length of the path, and the entry begins with it.
\* The root is no entry of itself: nothing follows its separator.
InDir(path, entry) ==
  /\ "/" \in ToSet(entry.path)
  /\ Last(entry.path) # "/"
  /\ ParentLen(entry.path) = Len(path)
  /\ SubSeq(entry.path, 1, Len(path)) = path

\* zvm_readdir: what is passed to the filler, in order.
ReadDir(table, path) ==
  FoldLeft(LAMBDA listed, entry :
             IF InDir(path, entry) THEN Append(listed, entry) ELSE listed,
           <<>>, table.array)

\* check_access_mode: a file allows the one way of opening that its record
\* names, a directory none.
AccessAllowed(mode, flags) == mode \in {"r", "w"} /\ flags = mode

-----------------------------------------------------------------------------
(* Filling the table. *)

\* A full array is extended before an entry is added.
Add(table, entry, granularity) ==
  [array |-> Append(table.array, entry),
   maxcount |-> IF table.maxcount <= Len(table.array)
                THEN table.maxcount + granularity ELSE table.maxcount]

\* callback_add_dir
AddDir(table, path) ==
  IF path = <<>> \/ ByPath(table, path) # {} THEN table
  ELSE Add(table, Entry(path, -1, "dir"), DirGranularity)

\* process_subdirs_via_callback: the lengths of the directories above a path,
\* outermost first. Its own recursion is on the part before the rightmost
\* separator, of which the root keeps the separator itself.
SubDirLens(path) ==
  LET lens[n \in 0 .. Len(path)] ==
        LET slashes == {i \in 1 .. n : path[i] = "/"}
            sub == IF Max(slashes) = 1 /\ n > 1 THEN 1 ELSE Max(slashes) - 1
        IN  IF slashes = {} THEN <<>> ELSE Append(lens[sub], sub)
  IN  lens[Len(path)]

\* Seeded fault of AddSubDirs: the directory is added before those above it.
AddSubDirsInnerFirst(table, path) ==
  FoldLeft(LAMBDA t, n : AddDir(t, SubSeq(path, 1, n)), table,
           Reverse(SubDirLens(path)))

AddSubDirs(table, path) ==
  FoldLeft(LAMBDA t, n : AddDir(t, SubSeq(path, 1, n)), table, SubDirLens(path))

\* Seeded fault of AddFile: a full array is taken for one with room for a file.
AddFileLate(table, rec) ==
  IF ByPath(table, rec.fpath) # {} THEN table
  ELSE [array |-> Append(table.array, Entry(rec.fpath, rec.fd, rec.fmode)),
        maxcount |-> IF table.maxcount < Len(table.array)
                     THEN table.maxcount + FileGranularity ELSE table.maxcount]

\* A file whose path an entry already begins with is left out.
AddFile(table, rec) ==
  IF ByPath(table, rec.fpath) # {} THEN table
  ELSE Add(table, Entry(rec.fpath, rec.fd, rec.fmode), FileGranularity)

\* One iteration of fill_fsstructure_by_records.
AddRecord(table, rec) == AddFile(AddSubDirs(table, rec.fpath), rec)

\* fill_fsstructure_by_records
Fill(records) == FoldLeft(AddRecord, EmptyTable, records)
=============================================================================
