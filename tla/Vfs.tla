-------------------------------- MODULE Vfs --------------------------------
(***************************************************************************)
(* The file server between FUSE and the socket pool (server/fs_inmem.c):   *)
(* programs open, read, write and release the files of the mount, by path, *)
(* and the callbacks find the descriptor of the path in the table and the  *)
(* descriptor's slot in the pool, anew in every call. The pool is SockPool *)
(* with what it leaves out: tempbuf, the rest of a message that each slot  *)
(* keeps between reads.                                                    *)
(*                                                                         *)
(* The server is single threaded (-s): one callback is one step.           *)
(***************************************************************************)
EXTENDS SockPool, FsTable, FiniteSets

CONSTANTS
  FileRows,     \* file_type and fpath of each record, in the order of DbRecords
  Paths,        \* the paths that programs ask for
  Openers,      \* the open file descriptions of the programs
  Closed,       \* an opener that has no file open
  Histories     \* bound: the values of history that are explored

VARIABLES
  tempbuf,   \* per cell: "null"; the opener whose read left a rest; or "junk",
             \* a pointer that was never initialized
  handle,    \* what each opener has open: the path and the flags it asked with
  history    \* "crowded": more than Granularity files were open at a time;
             \* "shared": a file was opened by one while another had it open

fsVars == <<count_max, sockf_array, opened, context, tempbuf, handle, history>>

ASSUME FileRowsAssumption ==
  /\ DOMAIN FileRows = DOMAIN DbRecords
  /\ \A k \in DOMAIN FileRows :
       /\ FileRows[k].ftype \in {"std", "msq", "user"}
       /\ FileRows[k].fpath \in Seq(STRING)

\* The order of every shipped database: a path that is the beginning of another
\* one is named before it, or a lookup would find the other one (FsFill).
ASSUME NamesAssumption ==
  \A j, k \in DOMAIN FileRows :
    IsStrictPrefix(FileRows[j].fpath, FileRows[k].fpath) => j < k

Flags == {"r", "w", "rw"}

ASSUME OpenersAssumption ==
  /\ Closed \notin [path : Paths, flags : Flags]
  /\ {"null", "junk"} \cap Openers = {}
  /\ IsFiniteSet(Openers)

\* run_fuse_main: the table is filled before the file system is mounted.
Structure ==
  Fill([k \in DOMAIN DbRecords |->
          [fpath |-> FileRows[k].fpath, fd |-> DbRecords[k].fd,
           fmode |-> DbRecords[k].fmode]])

FilesAt == [path \in Paths |-> {e \in EntriesOf(Structure, path) : e.mode # "dir"}]

IsOpen(o) == handle[o] # Closed

\* The files that an opener refers to: one when it is open.
FilesOf(o) == IF IsOpen(o) THEN FilesAt[handle[o].path] ELSE {}

OpenFiles == UNION {FilesOf(o) : o \in Openers}

\* Who has the file of a descriptor open.
Users(fd) == {o \in Openers : \E e \in FilesOf(o) : e.fd = fd}

\* The ftype of the record that match_db_record_by_fd finds.
TypeOfFd(fd) ==
  {FileRows[k].ftype : k \in {k \in DOMAIN DbRecords :
     /\ DbRecords[k].fd = fd
     /\ \A j \in DOMAIN DbRecords : DbRecords[j].fd = fd => k <= j}}

-----------------------------------------------------------------------------
(* zvm_read and zvm_write, after the kernel let the call pass: a slot, or an *)
(* error.                                                                    *)

\* External: the kernel passes a call in the direction of the flags only.
MayCall(o, mode) == IsOpen(o) /\ handle[o].flags \in {mode, "rw"}

\* Seeded fault of SlotsFor: open is trusted to have checked the access.
SlotsForUnchecked(o, mode) ==
  UNION { SlotsByFd(e.fd) : e \in
    {e \in FilesOf(o) : MayCall(o, mode) /\ "msq" \in TypeOfFd(e.fd)} }

\* The slot that a read (mode "r") or a write ("w") of an opener gets to. The
\* access is checked again, against the flags of the open; without a slot the
\* call fails with EINVAL.
SlotsFor(o, mode) ==
  UNION { SlotsByFd(e.fd) : e \in
    {e \in FilesOf(o) : /\ MayCall(o, mode)
                        /\ AccessAllowed(e.mode, handle[o].flags)
                        /\ "msq" \in TypeOfFd(e.fd)} }

-----------------------------------------------------------------------------
FsInit ==
  /\ Init
  /\ tempbuf = [k \in 0 .. Granularity - 1 |-> "null"]
  /\ handle = [o \in Openers |-> Closed]
  /\ history = {}

\* Seeded fault of TempbufsAdded: the new slot keeps what the cell held.
TempbufsKept(fd) ==
  \E junk \in [count_max .. count_max' - 1 -> {"null", "junk"}] :
    tempbuf' = [k \in 0 .. count_max' - 1 |->
                  IF k < count_max THEN tempbuf[k] ELSE junk[k]]

\* add_sockf_copy_to_array overwrites its cell with a structure whose tempbuf is
\* NULL; in the cells that realloc appended it is whatever was there.
TempbufsAdded(fd) ==
  \E junk \in [count_max .. count_max' - 1 -> {"null", "junk"}] :
    tempbuf' = [k \in 0 .. count_max' - 1 |->
      IF ~ sockf_array'[k].unused /\ sockf_array'[k].fs_fd = fd THEN "null"
      ELSE IF k < count_max THEN tempbuf[k] ELSE junk[k]]

\* zvm_open of a file that somebody has open: granted, whatever the flags.
OpenAgain(fd) ==
  /\ SlotsByFd(fd) # {}
  /\ UNCHANGED <<vars, tempbuf>>

\* zvm_open of another: the access is checked, and open_sockf must succeed.
OpenFirst(e, flags) ==
  /\ SlotsByFd(e.fd) = {}
  /\ AccessAllowed(e.mode, flags)
  /\ OpenSockf(e.fd)
  /\ SlotsByFd(e.fd)' # {}
  /\ TempbufsAdded(e.fd)

\* The same with a failing bind or connect: the program gets an error.
OpenDenied ==
  /\ \E path \in Paths, flags \in Flags : \E e \in FilesAt[path] :
       /\ SlotsByFd(e.fd) = {}
       /\ AccessAllowed(e.mode, flags)
       /\ OpenSockf(e.fd)
       /\ SlotsByFd(e.fd)' = {}
  /\ UNCHANGED <<tempbuf, handle, history>>

\* zvm_open for a program.
Open(o, path, flags) ==
  /\ context = "up"
  /\ ~ IsOpen(o)
  /\ handle' = [handle EXCEPT ![o] = [path |-> path, flags |-> flags]]
  /\ \E e \in FilesAt[path] :
       /\ OpenAgain(e.fd) \/ OpenFirst(e, flags)
       /\ history' = history
            \cup (IF Users(e.fd) # {} THEN {"shared"} ELSE {})
            \cup (IF Cardinality(OpenFiles') > Granularity THEN {"crowded"} ELSE {})
  /\ history' \in Histories

\* zvm_read: the rest of a message may be left in the slot, or the rest that was
\* there used up or not.
Read(o) ==
  /\ context = "up"
  /\ \E k \in SlotsFor(o, "r") :
       \E rest \in {tempbuf[k], "null", o} :
         tempbuf' = [tempbuf EXCEPT ![k] = rest]
  /\ UNCHANGED <<vars, handle, history>>

\* close_sockf frees the rest of a socket that stays open for its dual; else
\* the cell keeps it.
TempbufsClosed(k) ==
  tempbuf' = IF Sharing(k) # {k} THEN [tempbuf EXCEPT ![k] = "null"]
                                     ELSE tempbuf

\* Seeded fault of Release: the slot is taken out of the array without close_sockf.
ReleaseForgets(o) ==
  /\ context = "up"
  /\ IsOpen(o)
  /\ \E e \in FilesOf(o) :
       /\ UNCHANGED <<opened, tempbuf>>
       /\ IF SlotsByFd(e.fd) = {} THEN UNCHANGED sockf_array
          ELSE \E k \in SlotsByFd(e.fd) :
                 sockf_array' = MarkUnused(sockf_array, k)
  /\ handle' = [handle EXCEPT ![o] = Closed]
  /\ UNCHANGED <<count_max, context, history>>

\* zvm_release: whoever releases a file closes its slot.
Release(o) ==
  /\ context = "up"
  /\ IsOpen(o)
  /\ \E e \in FilesOf(o) :
       IF SlotsByFd(e.fd) = {}
       THEN UNCHANGED <<vars, tempbuf>>
       ELSE \E k \in SlotsByFd(e.fd) : CloseSockf(k) /\ TempbufsClosed(k)
  /\ handle' = [handle EXCEPT ![o] = Closed]
  /\ UNCHANGED history

\* run_fuse_main after the unmount, which needs that nothing is open: zeromq_term
\* frees the tempbuf of every cell of the array, then the array.
Unmount ==
  /\ \A o \in Openers : ~ IsOpen(o)
  /\ ZeromqTerm
  /\ tempbuf' = [k \in {} |-> k]
  /\ UNCHANGED <<handle, history>>

FsNext ==
  \/ \E o \in Openers :
       \/ \E path \in Paths, flags \in Flags : Open(o, path, flags)
       \/ Read(o)
       \/ Release(o)
  \/ OpenDenied
  \/ Unmount

FsSpec == FsInit /\ [][FsNext]_fsVars

-----------------------------------------------------------------------------
\* The callbacks use the pool as it wants to be used: they open descriptors,
\* close live slots, each once, and end it once. What is proved of SockPool
\* therefore holds of the pool of the server.
ImplementsPool == Spec

\* While a program has a file open, the file has a slot on an open ZeroMQ socket,
\* whatever was opened and released in the meantime: its dual, other files, files in
\* the cells it used before. This is so until two have the same file open: the
\* second open is not counted, and the first release closes the file for both.
OpenFilesStayUsable ==
  "shared" \notin history =>
    \A o \in Openers : \A e \in FilesOf(o) :
      \E k \in SlotsByFd(e.fd) : sockf_array[k].netw_socket \in opened

\* No slot outlives the programs that have its file open, also when several do
\* and the first release takes the slot from the others; and zeromq_term returns
\* after every unmount: whatever programs did, including opens that failed half
\* way, no ZeroMQ socket is open when nothing is.
NothingLeaks ==
  /\ \A k \in Live : Users(sockf_array[k].fs_fd) # {}
  /\ context # "blocked"

\* Bytes pass only in a file's own direction, to and from the socket of the file
\* with the path that the program named (or of one that begins with it), although
\* an open of an open file succeeds without a check of its flags.
IoIsDirected ==
  \A o \in Openers, mode \in {"r", "w"} : \A k \in SlotsFor(o, mode) :
    \E n \in DOMAIN DbRecords :
      /\ DbRecords[n].fd = sockf_array[k].fs_fd
      /\ DbRecords[n].fmode = mode
      /\ IsPrefix(handle[o].path, FileRows[n].fpath)
      /\ handle[o].path \in {FileRows[j].fpath : j \in DOMAIN FileRows} =>
           handle[o].path = FileRows[n].fpath

\* The rest of a message that a slot holds was received by a program that still has
\* the file open: what the previous user of the file or of the cell did not read is
\* never given to the next one, and no uninitialized pointer is followed.
RestIsOfUser ==
  \A k \in Live :
    \/ tempbuf[k] = "null"
    \/ tempbuf[k] \in Users(sockf_array[k].fs_fd)

\* zeromq_term passes no uninitialized pointer to free as long as there were never
\* more files open at a time than the first array has cells: released cells are
\* used again before the array grows.
TermFreesOwnMemory ==
  [][context # context' /\ "crowded" \notin history =>
       \A k \in Indexes : tempbuf[k] # "junk"]_fsVars
=============================================================================
