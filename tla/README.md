# A formal model of DistrSort-ClientServ

The repository sorts data that is distributed over several nodes. Its node programs
know nothing of the network: each of them reads and writes files of a mounted file
system, and a file server beside it turns these files into ZeroMQ sockets. This
directory holds TLA+ modules of both halves and of what connects them, the
configurations that model-check them, and machine-checked proofs about all but the databases, in eight modules.

## 1. Inventory

| Part | Source | State | Operations | Meets the others by |
|---|---|---|---|---|
| socket pool | `server/zmq_netw.c` | array of slots: descriptor, ZeroMQ socket, rest of a message, used or not; the ZeroMQ context | init, open, close, lookup, growth, open all, close all, term | called by the file system, asks the channels database |
| message queue files | `server/zmq_netw.c` (`read_sockf`, `write_sockf`) | `tempbuf` of each slot | read, write | one write is one message to another server |
| in-memory file system | `server/fs_inmem.c`, `server/main.c` | table of paths; the pool | fill; open, read, write, release, getattr, readdir, truncate; unmount | FUSE callbacks of one thread (`-s`) |
| channels databases | `server/sqluse_srv.c`, `client/sqluse_cli.c`, `sql/` | rows: descriptor, path, socket type, endpoint, mode | load, lookup by descriptor | read once when a process starts |
| manager | `client/manager/main_man.c`, `comm_man.c` | crcs, histograms, ranges, results | collects, analyses, sends the ranges, checks | crc, histogram and result pipes; a REQ/REP channel and a pipe per source |
| histogram analysis | `client/manager/histanlz.c`, `client/dsort.c` | a worker (cursors, detailed histogram) per source | advance, ask for details, save the ranges of a destination | called by the manager, asks the sources |
| sources | `client/source/` | sorted array, request, how much was sent | sort, crc, histogram, details, ranges | see manager; a REQ/REP channel per destination |
| destinations | `client/dest/` | array, bytes and ranges awaited, last header, output file | receive, sort, save if possible, report | REP socket shared by all sources |
| local sort | `client/sort.c` | calls and arrays of the recursion | merge sort, crc, test | called by sources and destinations |
| logging, communication test, scripts, `sqlite/`, `gtest/` | | | | see 8 |

What is hard in it:

* **Sharing.** The two files of a REQ or REP channel are one ZeroMQ socket, whose
  lifetime spans whichever of them is open. A leaked socket makes `zmq_term` hang.
  `open_sockf` returns a copy of a slot or the slot itself, and both can be closed.
* **Stale cells.** `remove_sockf_from_array_by_fd` ignores `unused`; that the right
  cell is freed depends on the order in which cells are filled. A cell that is used again
  still has the `tempbuf` of the file before.
* **Lookup by beginning.** A path finds the first entry that begins with it.
* **Numbers that must agree.** Descriptors are macros in `defines.h`, arithmetic on node ids
  in the programs, and rows in the databases of 5 and of 50 nodes; their intervals abut.
* **Order.** Crcs, histograms and results arrive in any order over one socket, parts
  of ranges of several sources interleave at a destination, and histograms are
  read in two reads each.
* **Lock-step without types.** A detailed histogram takes eight messages that carry no
  tag. Both sides must count alike, over sources and rounds, and agree on the last.
* **The analysis.** Cursors move over coarse and detailed histograms that come and go;
  ranges must neither overlap nor leave a gap, at any distribution of the items.
* **Failure.** A source without input exits and tells nobody; the analysis can fail an
  assertion or read behind an array; when a file server ends, every read of its node
  returns 0, which no node looks at. An output file that cannot be opened is passed over in
  silence, and it may be an old one; one that takes a part of the items aborts its node.

What makes the parts correct, in one line each: *pool*: open sockets are those of open
files, shared by dual files only; *files*: a byte stream; *file system*: an open file keeps
its slot, a released one leaves nothing, bytes go one way; *databases*: what is written at one
node is read at the node that was meant; *analysis*: ranges cover
every array exactly once and every destination gets its share; *protocol*: everybody
reaches the end, no item is lost or sent twice, the verdict is about all the items, also when
some fail; *sort*: every item once and in order, with bounded memory, and a test that
finds damage. `PROJECT.json` lists the hazards line by line with the properties that cover them, or why none does.

## 2. Modules

| Module | Models | Stands on |
|---|---|---|
| `SockPool` | the pool, with `match_db_record_by_fd` | |
| `SockHandles` | what callers of the pool hold; `open_all_comm_files`, `close_all_comm_files` | extends `SockPool` |
| `ByteStream` | abstract: what a file promises its reader | |
| `FileStream` | `write_sockf`, `read_sockf` | refines `ByteStream` |
| `FileStreamProofs` | theorems about it | `FileStream`, TLAPS |
| `FsTable` | the table of paths: filling, lookup, listing, access modes | |
| `FsFill` | the filling, a record per step, against the tree that the records describe | extends `FsTable` |
| `Channels` | the shipped databases, and where the programs' descriptors lead | extends `FsFill` |
| `Vfs` | the callbacks of the file server over table and pool | extends `SockPool`, `FsTable`; refines `SockPool` |
| `ServerProofs` | theorems about pool, callers, table of paths and callbacks | `SockHandles`, `Vfs`, `FsFill`, `DataLemmas` |
| `HistAnalyzer` | `histanlz.c`, `alloc_histogram_array_get_len` | |
| `HistAnalyzerProofs` | theorems about it | `HistAnalyzer`, `DataLemmas` |
| `ReqRep` | external: a REQ socket connected to a REP socket | |
| `SortedArray` | the result of the local sort as a function of the array | |
| `OutputFile` | what a destination leaves in its output file | |
| `SortJob` | abstract: what the distributed sort promises | `OutputFile` |
| `DistrSort` | manager, sources, destinations and their messages | `ReqRep`, `SortedArray`, `OutputFile`, refines `SortJob` |
| `DataLemmas` | lemmas about sums, ranks, permutations, arrays behind each other, the lowest place of a sequence and beginnings of names | `SortedArray`, TLAPS |
| `DistrSortProofs` | theorems about its exchange of histograms and its transfer of ranges | `DistrSort`, TLAPS |
| `DistrJobProofs` | theorems about the items it carries and what it promises | `DistrSortProofs`, `DataLemmas` |
| `DistrMounts` | the same when file servers of destinations end | extends `DistrSort` |
| `DistrVerdictProofs` | theorems about the verdict, also when file servers end | `DistrJobProofs`, `DistrMounts` |
| `MergeSort` | `alloc_merge_sort`, `merge` | |
| `SortChecks` | `array_crc`, `test_sort_result`, `run_sort` | extends `MergeSort` |
| `MergeSortProofs` | theorems about both | `SortChecks`, `DataLemmas` |
| `MC...` | constants of the runs | |

Operators whose comment begins "Seeded fault of" are mutated forms of the definition
that follows them. No specification uses them; each property is known to fail when
one of them takes the place of its original.

### SockPool and SockHandles

`count_max` and `sockf_array` are the fields of `struct zeromq_pool`; `opened` is the
set of ZeroMQ sockets created and not closed, `context` whether `zeromq_term` ran. A slot
keeps `unused`, `fs_fd` and `netw_socket`; the socket type, which nothing reads, and
`tempbuf` (see `FileStream`, `Vfs`) are left out. The server runs single threaded, so an
operation is one step:

| Action | Code |
|---|---|
| `OpenSockf` = `OpenDual`, `OpenFresh` or `OpenFails` | `open_sockf`: Flow2, Flow1, and Flow1 with a failing bind or connect; `AddSockf` is `add_sockf_copy_to_array` |
| `CloseSockf` | `close_sockf` on a slot, with `remove_sockf_from_array_by_fd` |
| `ZeromqTerm` | `zeromq_term`, once, after the unmount |

The new cells of a grown array hold any descriptor, as `realloc` leaves them, and
`zmq_socket` may return any address that is not in use. `DbKeysAssumption` says what every shipped
database satisfies: descriptors are keys, and a channel has at most one file per direction.

`SockPool`'s own `Spec` is the pool as the file server uses it: that is what `Vfs`
refines. `SockHandles` is the pool as a C interface,
as its tests use it: `held` is the object each caller got, a copy for a first open and a
pointer into the array for an open of an open descriptor (lost when `realloc` moves the
array); `loop` is where `open_all_comm_files` and `close_all_comm_files` are, an iteration per
step; `twice` records a `zmq_close` of a socket that is not open. The run of `SockHandles`
checks the properties of `SockPool` too: its steps, restricted to the pool, are more than those of
`SockPool`. A caller closes an object once; a lost pointer is not used.

### FileStream

A `write_sockf` is one message. A `read_sockf` is served from `tempbuf` in one step
(`ReadFromTempbuf`), or begins (`ReadStart`) and takes one message per `ZmqRecv`, each
copied to the start of the window, as the loop does; `ZmqRecvFails` is an interrupted
receive. Bytes are numbered by their place in the stream, so a lost or repeated
byte shows. `MayAsk` restricts reads to what the nodes do: never more than is left of
the message they are in, or of the next one. `ByteStream` only says that reads return the
next bytes of what was written.

### FsTable, FsFill and Channels

A path is a sequence of names and separators, so "begins with" is the prefix of sequences.
`AddRecord` is an iteration of `fill_fsstructure_by_records` with all its sub-directories and both kinds of
growth; `ByPath` and `ReadDir` are the lookup and the listing. `FsFill` adds a record per
step and compares each table with the tree the records describe: `ExactIffPrefixesFirst`
characterises the databases whose files are all found. Two records of one path still describe a tree if they agree
on descriptor and mode (`IsTree`). `ListsChildren` is about paths without double or trailing separators (`IsTidy`): `//a`
has the directory `/`, but `zvm_readdir` looks for it in the directory of an empty path.

`Channels` has the rows of the shipped scripts as functions of the number of nodes, and the
descriptors of the programs as the arithmetic they do (`WriteRangesFd`, ...). `Opened` follows
an open from the client's row over its path and the server's table to the channel. Every table is one of the
databases that `FsFill` fills.

### Vfs

The callbacks `Open`, `Read` (the only one that changes `tempbuf`), `Release`, `OpenDenied` and `Unmount` find
the descriptor of a path in the table and its slot in the pool, anew in each call. `tempbuf` is, per cell, whose
rest it holds, or `"junk"` for the memory a grown array starts with. `handle` is what each opener has open;
`history` records the two things the properties depend on: a file opened by two at a time
(`"shared"`), and more files open at a time than the first array has cells (`"crowded"`).
A write changes nothing here: `SlotsFor(o, "w")` says where it would go.

### HistAnalyzer

One step is one iteration of the inner loop of `alloc_range_request_analize_histograms`
(`Advance`, `AskDetails`, `Overread`), or the end of a destination's share with the start
of the next (`Save`). The operators carry the names of the functions of `histanlz.c`.
Sources answer with `DetailedHistogram` in the same step; that the messages do arrive is
the subject of `DistrSort`. Two things end the analysis early in the C program, and
`status` records them: `assert_failed` (`set_detailed_histogram`) and
`overread` (a cursor behind the last coarse block, where the code reads
`histogram.array[array_len]`; what follows is undefined, so nothing is claimed of it).
`AnalyzerAssumption` says what holds of the program's counts: the step divides the items, and a
step for every source is at most one array (1000 items for each of 5 or 50 sources, of 1000000).

### DistrSort and DistrMounts

Each process is a record with a `pc`; each action is one call of a node that moves it on,
in the order of its `main`. PUSH/PULL pipes to the manager are a bag of single-message
items, or one queue per source for the histograms; pipes to a source are queues;
REQ/REP channels are the operators of `ReqRep`, one connection per pair. A range request is
the packet with its ranges, read as one. Whether a reply is sent before the request is used
does not matter, as a reply byte says nothing.

The analysis appears by its effect: rounds of details at any destination, always at the
last (`HistAnalyzer!AsksWhenLast`), then any partition in `Cuts`. `Cuts` asks
for contiguous ranges and equal shares (`RangesContiguous`) and deliberately not for order,
since `RangesOrdered` is not true of the code. `MayFail` adds `SourceExit`,
`ManagerFault` and output files that do not take all the items.

An output file is what it was before (`OldOutputs`) until `DestSave`, whose `Outcomes` are those of `main_dst.c:61-69`.
`open` may fail: there may be no directory, or a file that must not be written, as the
first run may have created it, for `O_CREAT` stands without a mode. `main` then goes on to its report without
the write (`Saved`). Without `O_TRUNC`, what is longer than the items stays behind
them (`Overwritten`). A short write ends the process by `assert(wrote == data_size)` and leaves a torn file
(`Torn`, only if `MayFail`). The result that is reported is of the sorted array in each case. So the
properties speak of the sorted arrays (`SortedArrays`), and of the files only what is true of them.

`SortJob` is the promise: each destination sorts its share once, `ItemsCount` items of which none
is in another share, and saves it, leaves its file as it was or, if it may fail, leaves it torn; with fairness,
all shares are sorted. It does not promise that they are saved: the code does not either (see 5).

`DistrMounts` adds that the file server of a destination may end at any time: a read that is blocked returns 0
and every later one fails. `header` is the variable of `repreq_read_sorted_ranges` that
outlives the iterations, uninitialized before the first read (`FirstHeaders`);
`DestCountsAgain` handles a stale one again, in an `int` that wraps at `IntMax`; the output is saved
if it can be, with the same outcomes, for it is not on the mount. From then on `orphans` has the destination and its output; `dst` and `output`
keep what it was when its server ended, which is all that the others can ever learn of it, and `Process` and
`File` are the two as they really are. So all that others see are steps of `DistrSort`, in which it has stopped. A source or manager whose server ends only stops as far as the others
can tell, and since `MountsSpec` has no fairness its behaviours include all of these.

### MergeSort and SortChecks

`stack` holds the calls of `alloc_merge_sort` that have not returned, each with what its halves returned
and what it merged so far; `TakeLeft` and `TakeRight` are iterations of `merge`. Items are positions in the
array, so that equal items differ; `allocated` counts the items of arrays not yet freed.
`SortChecks` adds the test and the crc with the arithmetic of `uint32_t` (`Width`).
`DistrSort` uses the sort by what `MergeSortProofs` proves of it: the array's items, in order.

## 3. Runs

| Run | Instance | Distinct states | Question |
|---|---|---|---|
| `sock_pool` | 5 rows, 2 addresses, 3 callers, array of 2 | 73 449 | do descriptors, slots, sockets and what callers hold stay consistent? |
| `file_stream` | 6 messages of 1 to 6 bytes | 147 | is an aligned reader's file a byte stream? |
| `fs_fill` | all lists of up to 4 records over 7 paths; the 6 shipped tables | 13 853 | when are lookups exact, and do the shipped descriptors lead to the right peers? |
| `vfs` | 3 rows, 4 paths, 3 openers, 2 addresses, array of 2 | 31 490 | do open files work and released ones leave nothing? |
| `hist_ranges` | 2 sources with every array of 8 items over 0..2; 3 sources with 11 arrays of 12; step 2 | 52 631 | are the ranges right, for every distribution? |
| `distr_sort` | 2+2 nodes, 3 items, parts of 2, 3 inputs, an old output file | 40 116 | does the protocol do the job, and end? |
| `distr_three` | 3+3 nodes, 1 item, `MayFail` | 770 403 | and with a third source in between, or with failures? |
| `distr_mounts` | 2+2 nodes, 2 items, `MayFail`, an old output file, file servers end | 619 197 | what does a failure leave behind? |
| `sort_checks` | every array of up to 5 items out of 4 values | 26 124 | does the sort keep every item and free what it takes, does the test find damage? |
| `hist_assert`, `hist_order`, `distr_gone` | | | findings 1 to 3 |

The bounds, and why they show what they should:

* `sock_pool` (`Granularity`, `Handles`, `Callers`, `DbRecords`): a REP and a REQ channel with
  both directions outgrow the first two cells, also while a caller holds a slot of the array that
  moves; an address is reused at once; every order of opens and closes occurs,
  through copies and slots, so stale cells of every kind do. A file that is no message
  queue is skipped by the loops.
* `file_stream` (`Sizes`, `MaxCount`): one-byte messages (replies), and messages read whole
  and in parts.
* `fs_fill` (`Databases`, `TableSizes`, both granularities): the seven paths are
  beginnings of one another in every way the lookup could confuse, files, directories and
  files of a directory's name; four records are one more than the longest chain of them. The
  second half needs no search: each shipped table is one behaviour.
* `vfs` (`Openers`, `Paths`, `Histories`): three openers so that two share a file while a third
  uses the cells they free. `Histories` leaves out runs that were both shared and crowded.
* `hist_ranges` (`Inputs`, `Step`): coarse blocks of two items and shares of four blocks;
  detailed histograms are discarded, kept for the next destination and used up. Of the 2025
  inputs of two sources 163 end normally, 916 in the assertion and 946 in an overread: tiny
  arrays of few values are the worst case for the analysis. On random data of 2000 items
  at 5 nodes nearly all analyses end normally, so the normal end is what the properties are
  about, and three sources add the inputs that grow steadily (154 normal ends).
* `distr_sort` (`NodeCount`, `ItemsCount`, `ChunkItems`, `Inputs`): a range of three items goes in two
  parts, one of two in a single one; there are empty ranges, equal items and all rounds of
  details. Both orders of histograms and every interleaving of two sources at two
  destinations occur. One output file is not there before (`OldOutputs`), the other has one item more than is
  written; each can or cannot be opened. Three nodes are needed for a source to come between two others,
  hence `distr_three`.
* `distr_mounts` (`IntMax`, `Garbage`, `FirstHeaders`): an `int` of three bits wraps after few
  additions of a stale header; one value stands for memory that `malloc` left as it was;
  the header before the first read is anything. Two items are torn behind none or one of them.
* `sort_checks` (`MaxLen`, `BigArrayItem`, `CrcAtom`, `Width`): five items give halves of every
  parity down to single items; two values have the same remainder, and the largest one plus a remainder
  overflows `Width`.

`CHECK_DEADLOCK FALSE` is set where the system does stop: after `zeromq_term`, when the server
is unmounted, when a table is filled, and when failed nodes leave the others waiting. All
other runs check for deadlock, with an explicit stuttering step in the final states only.

**Fairness.** `DistrSort` assumes weak fairness for every node: they are processes of
an operating system, and ZeroMQ delivers on connected sockets. Nothing stronger is assumed: a node
that waits for a reply has one enabled step or none. `Termination` needs it, as does the
liveness half of `ImplementsSortJob`. Both are about the run with `MayFail` false: every input is there, the analysis ends
normally, and an output file that can be opened takes all the items. The other specifications state safety only;
that the analysis always stops is shown without fairness by `AlwaysForward`, a variant that
every step increases (proved in `HistAnalyzerProofs`), and the filling and the sort stop since their runs are finite and without cycles.

## 4. Properties

| Module | Property | In short |
|---|---|---|
| `SockPool` | `StaleBehindLive` | a freed cell keeps its descriptor only behind the live one |
| | `SocketsMatchSlots` | open sockets are exactly those of the live slots |
| | `DualSharing` | slots share a socket iff they are two directions of a channel |
| | `ReleaseIsExact` | a release forgets its descriptor and nothing else |
| `SockHandles` | `HeldIsUsable` | no socket is closed twice, and what a caller holds works until it closes it |
| | `AllOpenAllClosed` | opening all opens all or can be repeated, closing all leaves nothing |
| `FileStream` | `ReadsAreFull`, `ImplementsByteStream` | aligned reads are full, in order, without loss |
| `FsFill` | `EntriesFit` | no entry is written behind the array |
| | `ExactIffPrefixesFirst` | lookups are exact for exactly the tables that name prefixes first |
| | `ListsChildren` | a listing shows what is right below the directory, once |
| `Channels` | `FilesReachPeers` | every descriptor a program computes leads to the node it means |
| `Vfs` | `OpenFilesStayUsable` | until files are shared, an open file has a slot on an open socket |
| | `NothingLeaks` | no slot outlives its users, and the unmount returns |
| | `RestIsOfUser` | no program gets what another one did not read |
| | `IoIsDirected` | bytes pass in a file's own direction only |
| | `TermFreesOwnMemory` | unless files outgrew the array, `zeromq_term` frees no uninitialized pointer |
| | `ImplementsPool` | the server uses the pool as `SockPool` says |
| `HistAnalyzer` | `RangesContiguous` | no gap, no overlap, equal shares |
| | `TwoOrdered`, `RangesOrdered` | the ranges of an analysis that ends normally are in order: holds for two sources, violated for three (`hist_order`) |
| | `AsksWhenLast` | exactly the last round has the complete flag |
| | `CursorFound` | the assertion of `histanlz.c:222` |
| | `AlwaysForward` | no step moves a cursor back or stands still |
| `DistrSort` | `HistogramsIntact` | header and array of one source, in source order |
| | `ExchangeInStep` | both sides take each of the eight messages for the same |
| | `CompleteAgreed` | a source leaves its loop iff it will not be asked again |
| | `DestsServed` | a destination that left its loop has all its items and has answered every source |
| | `VerdictIsSound` | the results compared are those of the sorted arrays, crcs agree, and a positive verdict means these arrays are the inputs, sorted; each file has its array or is as it was |
| | `Termination`, `ImplementsSortJob` | if nothing fails the end is reached; the promise kept |
| `DistrMounts` | `LivingDestFull` | a destination with its mount gets its items whatever happens to others |
| | `NoVerdictOnDamage` | a verdict is about the shares as they were meant; no file of a destination in it is damaged or torn |
| | `NoPartialResult` | after a failure living destinations leave their files as they were; neither then nor with an aborted destination is there a verdict |
| `MergeSort` | `SortsEveryItemOnce`, `MemoryIsBounded` | the result is right, and twice the array suffices |
| `SortChecks` | `TestFindsDamage`, `CrcAddsUp` | the test finds replaced items; crcs of parts add up |

`TypeOK` is checked where the types are not trivial, in `SockPool` and `DistrSort`.

## 5. Findings

1. **`set_detailed_histogram`'s assertion fails** (`histanlz.c:69`, run `hist_assert`). A round of
   requests is triggered by one source; another may still hold the detailed histogram of an
   earlier round. Inputs with many equal items do it, for instance all items equal.
2. **The ranges are not always in order** (`histanlz.c:224`, run `hist_order`). A coarse
   block is passed because its first item is smallest. With three or more sources, blocks
   passed before details are asked for can hold items that are greater than items other sources
   keep. The counterexample was reproduced on the C functions themselves. The manager then logs
   a failed test: `VerdictIsSound` says that it never logs success on such a result.
3. **A destination leaves its loop without its items** (`comm_dst.c:52`, run `distr_gone`).
   When its file server ends, reads return 0 and the header of before is counted again, until all ranges are
   counted and the `int` of awaited bytes has wrapped or was zero; the comment at `comm_dst.c:74` says
   otherwise. It may then save a damaged output. `NoVerdictOnDamage` says that no verdict includes it.

Observations that no run checks as a finding: no program relies on the contrary, or no text states it. The models
show them when a property's condition is left out:

* `main_dst.c:61-69`: when `open` of the output file fails, the destination says nothing, does not write, and reports
  its sorted array all the same. The manager logs "Distributed sort complete" (`main_man.c:112`) with all tests
  passed, while a file is missing or is the one of an earlier run. `VerdictIsSound` and `NoVerdictOnDamage` therefore are
  about the sorted arrays, and say of a file that it has its array in front or is as it was (`Saved`); that it has its array
  is not true.
* `zmq_netw.c:394`, `405`: reads that span messages are no byte stream: each message goes to the start of the
  buffer, and an interrupted receive (`387`) drops what was taken from `tempbuf` before it. `MayAsk` in `FileStream`
  keeps to the reads of the nodes, so `ReadsAreFull` and `ImplementsByteStream` say nothing of such reads.
* `zmq_netw.c:67`: `zeromq_term` frees the `tempbuf` of cells that `realloc` left uninitialized
  (the condition "crowded" of `TermFreesOwnMemory`).
* `zmq_netw.c:303`: `close_sockf` forgets the socket in the object it was given only. It
  is harmless as long as each object is closed once, which `HeldIsUsable` shows.
* `zmq_netw.c:433`: the body of the `if` in `close_all_comm_files` is one statement; the test of
  the error after it runs for unused cells too, with the error of the last close, which is none.
* `fs_inmem.c:201`: a file whose path an earlier entry begins with is not found; and a path that
  is no file finds the first file that begins with it (`ExactIffPrefixesFirst`). The shipped tables
  are safe.
* `fs_inmem.c:383`: a second open of an open file is not counted; the first release closes it for
  both (the condition "shared" of `OpenFilesStayUsable`).

## 6. Proofs

Each of the theorems holds for every value of the constants that satisfies the assumptions named in the
modules, which TLC evaluates on the instances of the runs.

**`ServerProofs`** has four parts. The first proves every property of `SockPool` (and that `zmq_term` blocks on open
files only) for every channels database, granularity and set of addresses, from
`GranularityAssumption`, `NullAssumption`, `DbTypeAssumption` and `DbKeysAssumption`.
The inductive invariant `IInv` joins `TypeOK`, `StaleBehindLive`, `SocketsMatchSlots`,
`DualSharing` and `LiveRecords` (a live descriptor has a record of a real socket type). None of
the middle three is inductive alone: that closing one slot leaves the other users of its
socket needs `DualSharing`; that the slot marked unused is the one whose socket was counted
needs `StaleBehindLive`; that a new address is not in use needs `SocketsMatchSlots`; and
`DualSharing` after a dual open needs that channels have two files at most, which
`DualUnique` derives from `DbKeysAssumption` and `LiveRecords`. The lemmas
`AddSockfFacts` and `MarkFacts` say what an addition and a release (`Freed`) do to the live
slots; `OpenPreserves` and `FreePreserves` use them, one step per conjunct.

The second part is about `SockHandles`. `CloseObjectFacts` shows that closing what a caller holds, be it a copy or the slot,
frees one slot as a close by the server does, since the slots counted on the socket are those that share it
(`LastUseFacts`); so `IInv` holds there too (`PoolSafe`). That no socket is closed twice needs that every object has
its live slot (`ObjectsBacked`), which another caller's close leaves alone because no two callers have
objects of one descriptor. For `AllOpenAllClosed` the invariant adds that between the loops every slot is
somebody's (`SlotsHeld`), which files the opening loop has passed, and that no live slot is left behind the closing one
(`LoopProgress`). `NullObjectAssumption` says that `NULL` is no object, `MsqAssumption` that message queue
files are files of the database.

The third part, about `Vfs`, first shows that every callback is a step of `SockPool` or leaves it alone
(`FsUsesPool`), so that `IInv` and with it everything proved of the pool holds in the server. On top of
it `FsIInv` says that every live slot has a user (`NothingLeaks`), that every rest of a message
belongs to one (`RestIsOfUser`), and that until a file is shared no two openers have the same one and each has
its slot (`Unshared`). A slot that nobody uses could be released by nobody, which is why
`NothingLeaks` holds even when files are shared. Table, programs, paths and openers are arbitrary.
`TermFreesOwnMemory` adds that until files outgrew the first array it is the only one (`OwnMemory`): an array grows when all
its cells are live, each live slot has a file of its own that is open (`SlotsHaveFiles`, an injection from
`NothingLeaks` and the uniqueness of slots), so one more is more files than cells. This needs that openers are finitely
many, as open file descriptions are.

The fourth part is about the table of paths, which two nested folds fill, for records of any number and paths of any
length. `SubDirFacts` unfolds the recursion over the separators of a path: the directories come from the outermost on, and those
above one of them are those before it. `SubDirsRun`, `FillRun` and `ReadDirRun` unfold the folds. The
invariant `FillIInv` has, besides the types and that the array is large enough (`TableFits`), `Filled`: the
first entries of the table are those of the first records, for any number of these, and find every path that these mention
(`Holds`); and no entry before one begins with its path, while its directories are all found before it (`InOrder`).

For `LookupsExactFor`, say that prefixes come first. A path is found among the entries added for the records up to the
first that mentions it (`FoundBefore`). If that entry's path were longer, it would be mentioned by the same
record, so that the shorter one is a directory of it and was found before (`MentionsNested`, `InOrder`). So every path finds its own
entry (`FoundOwn`), and in a tree that entry is the file or the directory that the path names. Conversely, if lookups are exact, take a path
and the beginning of it that is no directory of it: what the longer one finds begins with the shorter too, so the entry of
the shorter is not behind those of the records up to the longer's first (`ExactPrefixesFirst`).
The proof found that `IsTree` used to reject two equal records, for which lookups are exact.
For `DirsListed`, the directory that `name_from_path_get_path_len` cuts off a tidy path is the last one that
`process_subdirs_via_callback` passes for it (`InDirIs`), and by `InOrder` no two entries have one path.

`IoIsDirected` follows from `FillFacts` for the mount's own table: an entry with a file's mode is that of a record, and by
`FoundBefore` a record's path finds an entry of that record or one before. `NamesAssumption` is needed: if a record were named
behind one whose path begins with its own, its path would find the other file. It holds in the shipped
tables, which `Channels` evaluates.

**`FileStreamProofs`** proves both properties of `FileStream` for messages of any sizes. The
invariant: what reads returned, what `tempbuf` has left and the messages on their way are,
in this order, the bytes `1, 2, ...` that were written, and a read in progress that keeps to the
messages is at the end of one. `StreamRefinement` maps every step to one of `ByteStream` or a stutter.

**`MergeSortProofs`** proves that `alloc_merge_sort` returns every item once and in order for arrays of
every length. `IInv` describes the stack: each call is for the half its caller waits for, its
finished halves are sorted and have exactly the positions of their parts, and what it merged is
not greater than what is left. No induction over the recursion is needed, for the stack is part of the state.
`MemoryIsBounded` needs no sum over the stack: as each waiting call that has a left half is for the
right one, the left halves that are kept end where the current call's part begins, and `MemoryOK` says that
`allocated` is that offset and what the current call itself holds.
For `run_sort`, `RunIInv` keeps the verdict together with the array it is about. `CrcOfSum` turns the loop of
`array_crc` into a sum over positions modulo `CrcAtom`: `NoOverflow` shows from `2 * CrcAtom <= Width` that
no addition wraps. A sum does not depend on an order (`SortedCrc`), is the sum of its parts (`CrcOfParts`,
hence `CrcAddsUp`), and tells two arrays that differ in one item apart unless the remainders are equal
(`OneReplaced`, hence `TestFindsDamage`).

**`DataLemmas`** has what the folds and recursive functions of the models compute, for data of any size. The library's
induction theorems take an operator, which the provers cannot instantiate; here induction is over a *set* of
numbers that has a least element (`LeastNumber`, `NumberInduction`), or a set of subsets of a finite set
(`SetInduction`). From these follow the sums over finite sets and partitions
(`SumParts`), that the rank of an item defines its place, so that two arrays of the same items are
equal when sorted (`SortedSame`), and where the items of arrays behind each other are (`FlatInOrder`).

**`HistAnalyzerProofs`** proves that the ranges cut the arrays, that the rounds end with the complete one, that the loop always
finds a cursor and that it always moves forward, for any number of sources, any items and any step that
`AnalyzerAssumption` allows, and whether the analysis ends normally, in the assertion or in an overread. The invariant
`AnalysisInv` has a part for each worker and one for all of them. `WorkerOK` says where the cursors of a worker are: its
detailed histogram begins at the coarse cursor (`Start`) and is a step for every source long or reaches to the array's end. A worker
is `Kept` (its details are of an earlier destination) or `Fresh` (they were asked for this one). That is enough for
what each function of `histanlz.c` does to a range (`CheckRemoves`, `NextMoves`, `InitMoves`, `DetailedSets`): only the
end of one range moves, by an item or a step.

That the shares come out equal is about sums. As long as a destination has not asked (`Gathering`), the ends of its ranges, rounded up
to whole steps, stay below its share: sums of multiples of the step cannot come within less than a step of
another multiple, so the loop cannot end before it asks. When it asks, all workers are in coarse items (or the assertion has failed), so
the details reach from the ends to what is missing (`AskTotals`); from then on (`Finishing`) the sum of the ranges grows by
one item at a time and is exact when it is complete. For `CursorFound` all details would have to be used up at once
(`NotAllComplete`): two that are a step for every source long would be more than was left of a
round, and if at most one is, the others reach the ends of their arrays, which is more than the destinations so far can have. A worker
whose details are used up when a destination begins has its last item counted twice; its
destination is never saved with that range, since details are asked before, which needs every worker in coarse items.
`CutSafe` joins the analysis to the protocol: when it ends normally the last ranges end where the arrays do
(`EveryItemCut`), so with `RangesContiguous` the result is one of the partitions `Cuts` that `DistrSort` chooses from.
The sizes of `DistrSort!Given` are the sums of `RangesContiguous`; the step between the two modules is argued here and not formal,
since the counts are constants of the one and are read off the arrays in the other.

**`DistrSortProofs`** proves `HistogramsIntact`, `ExchangeInStep` and `CompleteAgreed` for any number of
nodes, items and rounds, whether or not sources exit and the analysis fails. The invariant `ExInv` has two
halves. While the manager collects (`Collected`), its histograms are of different sources that are in
their loops and have none on the way, and `tempbuf` holds the array that belongs to the last header;
with as many different sources as there are nodes, each has one, and sorted by source they are the list
of all (`SortedBySource`, by counting the sources before each). From then on (`Exchange`, `Told`, `Phase`) each
connection is unused, holds the request of the manager's step, or its answer; only the source the manager
talks to is at another step than the first; a source knows the round to be the last from the second request
of the last round on; and a source has left its loop exactly if it answered the last request of that round.
`ExchangeInStep` alone is not inductive: that the next request meets a source that is still there needs
`Phase`, and that its step is the first one when the manager comes to it needs `Exchange` of the others.

It also proves `DestsServed` for any number of nodes and items and parts of any size. The
invariant `ServedInv` stands on `ExInv` (the order of the histograms is the order in which the sources are
told). `Orders` says that a source sends what the analysis decided; `Progress` where it is in it; `Line`
that its connection to the destination it serves holds an unread header or part, is in the destination's
hands, or is answered, and that all its other connections are unused. From these follows how many items
of each source a destination has (`Got`) and which sources it knows of (`Announced`). Instead of sums,
`Counted` compares the destination's three counters with the sizes of sets of pairs of source and position,
which grow by a block of positions with each message (`PartCounts`, `HeaderCounts`). When the loop ends, as
many sources are known as there are, so the bytes awaited are the destination's share; it has as
many, they are a subset of its share, so they are the share, and no source can have more for it.

**`DistrJobProofs`** is about the items themselves. `ContentInv` says of a part on its way that it has the items
of its source behind those sent before (`Carried`), of a destination that there is a bijection from the places of its
array to the pairs of source and position that it had, under which the items are the same (`Holds`), and of
an output file that it is as it was before, has the sorted array in front, or is torn where its destination was aborted
(`Written`). With it every step of the protocol is one of `SortJob` or leaves
its variables alone: `DestSave` is `SortShare`, for a destination behind its loop holds its share (`DestsServed`) and the
shares of a cut are disjoint (`ImplementsJobSteps`).
`TypeSafe` is the type invariant, which needs all of these: that the size in a header has a bound is known from the cut,
that a part has numbers from the array it was taken from.

**`DistrVerdictProofs`** is about the end. For `VerdictIsSound` the invariant `VerdictInv` says that the crcs and the results that the manager has, and those on
their way, are one of each node that sent one, in some order. Sorted by node the results are those of the sorted arrays. The
crcs agree because both sides are the sum of all items modulo `CRC_ATOM` (`CrcOfAll`): the shares are a partition of
the items (`GivenApart`, `GivenCovers`), so the destinations' arrays together are a permutation of the sources'. And if
the bounds are in order, the sorted arrays one behind the other are in order and have the items of the inputs, so they are the
sorted input. Of the files it follows from `Written`, as every destination in a verdict is at its end, that each has its array
in front or is as it was, and none is torn. That the ranges are in order is not assumed anywhere.

The invariants of the protocol are proved of `Steps`, the specification without its fairness. That is what
carries them over to `DistrMounts`: a destination whose server ends acts on `orphans` alone, so that to all others it has
stopped, and every step of `MountsSpec` is one of `Steps` or leaves the protocol's variables alone
(`MountsImplementSteps`). `LivingDestFull` is then what `ServedInv` says of the destinations that are left.
For the other two one more invariant is needed (`GoneInv`): a destination whose server ended had not reported and never will, while a
verdict takes a result of every destination. So in a verdict all servers are there and all destinations at their end
(`NoneGone`), none aborted, and what they sorted is their share (`NoVerdictOnDamage`). The rest of `NoPartialResult` holds
because a source that exits keeps the manager among those still collecting (`Phase`), a fault comes before the
ranges, and without ranges no destination leaves its loop or touches its file (`NoneWritten`).

## 7. What is only model-checked

* `Termination`, the liveness half of `ImplementsSortJob`: liveness under fairness and
  `ENABLED` are beyond the prover.
* `TwoOrdered` of `HistAnalyzer`: a coarse block may be passed too early with two sources as well, and it holds because the
  analyses in which that happens end in the assertion or in an overread at a later destination.
* `FilesReachPeers` of `Channels`, which is about the shipped tables, that a run has whole.

## 8. What is not modelled

* Failing `malloc` and `realloc`: the code goes on with what it has (`zmq_netw.c:132`). Heap contents other
  than descriptors and `tempbuf` of grown cells.
* A manager or source whose reads fail goes on with uninitialized memory (`comm_man.c:29`), of which nothing can be
  claimed; in `DistrMounts` it is one that stops.
* What happens behind a read past a histogram (`histanlz.c:151`): `overread` ends the analysis.
* Steps that do not divide the number of items: the branch for a short last block in
  `dsort.c:71` is never taken and the block's length is wrong. The program's counts divide.
* FUSE's splitting of large writes: with 50 nodes a detailed histogram is larger than the 128KB
  of `comm_src.c:186` and would become several messages (`comm_src.c:121`).
* That the single thread of the file server waits in `zmq_recv` (`fs_inmem.c:421`): each node
  is one thread itself that waits for the same read.
* Callbacks of the file system that only answer (`getattr`, `access`, `statfs`) or do nothing
  (`truncate`, `mknod`, `unlink`, ...).
* The SQL of the databases and their other tables; the rows themselves are in `Channels`.
* The build without `FUSE_CLIENT`, logging, mounting in the scripts, `client/main_test.c` (one message each way, whose reads in parts
  are those of `FileStream`).
* The vendored `sqlite/` and `gtest/`, which are 99% of the lines of the tree and third-party code. Of the
  repository's own C code every file with state is modelled.

## 9. Plan

Done: the models of all components with state, in the order of what the sort's result depends on, and
proofs for the pool and its callers, the file system, the streams, the merge sort with its checks, the analysis of the
histograms, and the distributed sort up to the verdict.

What could follow: a model of the analysis for steps that do not divide the items, when the code supports them.
