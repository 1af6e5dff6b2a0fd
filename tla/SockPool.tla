------------------------------- MODULE SockPool -------------------------------
(***************************************************************************)
(* The socket pool of the file server (server/zmq_netw.c): the array that  *)
(* maps the file descriptors of the channels database to ZeroMQ sockets.   *)
(* Two descriptors of the same REQ or REP channel, one opened for reading  *)
(* and one for writing, are "dual": they share one ZeroMQ socket, which is *)
(* closed with the last of them.                                           *)
(*                                                                         *)
(* The server is run single threaded (fuse -s), so each operation of the   *)
(* pool is one atomic step; what interleaves is the order in which the     *)
(* files of the node are opened and released.                              *)
(***************************************************************************)
EXTENDS Integers, Sequences

CONSTANTS
  DbRecords,    \* the node's rows of the channels table, in table order
  Handles,      \* the addresses zmq_socket can return
  NullSock,     \* a NULL netw_socket
  Granularity   \* ESOCKF_ARRAY_GRANULARITY

VARIABLES
  count_max,    \* zpool->count_max
  sockf_array,  \* zpool->sockf_array
  opened,       \* the ZeroMQ sockets that were created and not yet closed
  context       \* "up"; after zeromq_term "destroyed", or "blocked" inside it

vars == <<count_max, sockf_array, opened, context>>

\* The socket types libzmq accepts; sqluse_srv.c maps other names to -1.
ZmqTypes == {"PUSH", "PULL", "REQ", "REP"}

Fds == {DbRecords[k].fd : k \in DOMAIN DbRecords}

\* The descriptors a cell can hold: cells are zeroed when the pool is created.
CellFds == Fds \cup {0}

Slot == [unused : BOOLEAN, fs_fd : CellFds, netw_socket : Handles \cup {NullSock}]

ASSUME GranularityAssumption == Granularity \in Nat \ {0}

ASSUME NullAssumption == NullSock \notin Handles

\* struct db_record_t, less the node name and the file path.
DbRecord ==
  [fd : Nat, sock : ZmqTypes \cup {"none"},
   method : {"bind", "connect", "unexpected"},
   endpoint : STRING, fmode : {"r", "w"}]

ASSUME DbTypeAssumption == DbRecords \in Seq(DbRecord) /\ DbRecords # <<>>

\* Two records describe the same channel when get_dual_sockf says so.
SameChannel(a, b) ==
  /\ a.endpoint = b.endpoint
  /\ a.method = b.method
  /\ a.sock = b.sock

\* The shape of every shipped database: descriptors are keys of a node's rows,
\* and a channel has at most one file per direction. (The rows of the standard
\* streams are exempt: their type -1 never yields a socket.)
ASSUME DbKeysAssumption ==
  \A j, k \in DOMAIN DbRecords :
    LET a == DbRecords[j]  b == DbRecords[k] IN
    \/ j = k
    \/ /\ a.fd # b.fd
       /\ SameChannel(a, b) /\ a.sock \in ZmqTypes => a.fmode # b.fmode

-----------------------------------------------------------------------------
(* The channels database, server/sqluse_srv.c. *)

\* match_db_record_by_fd: the first record with that descriptor, if any.
RecordOf(fd) ==
  {DbRecords[k] : k \in {k \in DOMAIN DbRecords :
      /\ DbRecords[k].fd = fd
      /\ \A j \in DOMAIN DbRecords : DbRecords[j].fd = fd => k <= j}}

\* The last record of rec's channel that is opened in mode, if any.
Direction(rec, mode) ==
  LET match == {k \in DOMAIN DbRecords :
                  SameChannel(DbRecords[k], rec) /\ DbRecords[k].fmode = mode}
  IN  {DbRecords[k] : k \in {k \in match : \A j \in match : j <= k}}

-----------------------------------------------------------------------------
(* Lookups in the pool. *)

\* The cells of the array; sockf_array is NULL once zeromq_term freed it.
Indexes == IF context = "up" THEN 0 .. count_max - 1 ELSE {}

Live == {k \in Indexes : ~ sockf_array[k].unused}

\* sockf_by_fd: the slots a lookup may return (SocketsOfFd shows there is at
\* most one).
SlotsByFd(fd) == {k \in Live : sockf_array[k].fs_fd = fd}

\* Seeded fault of DualSlots: no descriptor is ever found to be dual.
NoDualSlots(rec) == {}

\* get_dual_sockf: the slot whose ZeroMQ socket rec must share, if any. The
\* reading direction is preferred.
DualSlots(rec) ==
  LET r == Direction(rec, "r")
      w == Direction(rec, "w")
      rslots == UNION {SlotsByFd(d.fd) : d \in r}
      wslots == UNION {SlotsByFd(d.fd) : d \in w}
  IN  IF r = {} \/ w = {} THEN {}
      ELSE IF rslots # {} THEN rslots ELSE wslots

\* Seeded fault of Sharing: the other users of the socket are not counted.
OwnSlot(k) == {k}

\* The slots that close_sockf finds on the ZeroMQ socket of slot k.
Sharing(k) == {j \in Live : sockf_array[j].netw_socket = sockf_array[k].netw_socket}

-----------------------------------------------------------------------------
(* add_sockf_copy_to_array and remove_sockf_from_array_by_fd. *)

\* Seeded fault of FirstUnused: the search does not stop at the first.
LastUnused(k) ==
  /\ k \in Indexes \ Live
  /\ \A j \in Indexes \ Live : j <= k

FirstUnused(k) ==
  /\ k \in Indexes \ Live
  /\ \A j \in Indexes \ Live : k <= j

NewSlot(fd, s) == [unused |-> FALSE, fs_fd |-> fd, netw_socket |-> s]

\* The descriptor goes to the first unused slot; a full array grows first, and
\* the descriptors of the new cells are whatever realloc left there.
AddSockf(fd, s) ==
  IF Live # Indexes
  THEN /\ \E k \in Indexes :
            /\ FirstUnused(k)
            /\ sockf_array' = [sockf_array EXCEPT ![k] = NewSlot(fd, s)]
       /\ UNCHANGED count_max
  ELSE /\ count_max' = count_max + Granularity
       /\ \E junk \in [count_max .. count_max + Granularity - 1 -> CellFds] :
            sockf_array' =
              [k \in 0 .. count_max + Granularity - 1 |->
                 IF k < count_max THEN sockf_array[k]
                 ELSE IF k = count_max THEN NewSlot(fd, s)
                 ELSE [unused |-> TRUE, fs_fd |-> junk[k],
                       netw_socket |-> NullSock]]

\* Seeded fault of FirstWithFd: the search does not stop at the first.
LastWithFd(fd, k) ==
  /\ k \in Indexes
  /\ sockf_array[k].fs_fd = fd
  /\ \A j \in Indexes : sockf_array[j].fs_fd = fd => j <= k

\* The first slot with the descriptor, whether or not it is in use.
FirstWithFd(fd, k) ==
  /\ k \in Indexes
  /\ sockf_array[k].fs_fd = fd
  /\ \A j \in Indexes : sockf_array[j].fs_fd = fd => k <= j

\* Seeded fault of MarkUnused: the descriptor is cleared, not the mark set.
ClearFd(array, k) == [array EXCEPT ![k].fs_fd = -1]

MarkUnused(array, k) == [array EXCEPT ![k].unused = TRUE]

-----------------------------------------------------------------------------
(* External: libzmq. zmq_socket returns an address no open socket has, which *)
(* may be one that was closed before.                                        *)

ZmqSocket(socks, s) == socks \cup {s}
ZmqClose(socks, s) == socks \ {s}

-----------------------------------------------------------------------------
Init ==
  /\ count_max = Granularity
  /\ sockf_array = [k \in 0 .. Granularity - 1 |->
                      [unused |-> TRUE, fs_fd |-> 0, netw_socket |-> NullSock]]
  /\ opened = {}
  /\ context = "up"

\* open_sockf, Flow2: the other direction is open, its socket is shared.
OpenDual(rec) ==
  /\ \E d \in DualSlots(rec) : AddSockf(rec.fd, sockf_array[d].netw_socket)
  /\ UNCHANGED opened

\* open_sockf, Flow1: a new ZeroMQ socket, bound or connected.
OpenFresh(rec) ==
  /\ DualSlots(rec) = {}
  /\ rec.sock \in ZmqTypes
  /\ rec.method \in {"bind", "connect"}
  /\ \E s \in Handles \ opened :
       /\ opened' = ZmqSocket(opened, s)
       /\ AddSockf(rec.fd, s)

\* Seeded fault of OpenFails: the new socket is not closed.
OpenFailsLeaks(rec) ==
  /\ DualSlots(rec) = {}
  /\ rec.sock \in ZmqTypes
  /\ \E s \in Handles \ opened : opened' = ZmqSocket(opened, s)
  /\ UNCHANGED <<count_max, sockf_array>>

\* open_sockf, Flow1 when bind or connect fails or the method is unknown: the
\* new socket is closed again, no slot is taken, the caller gets NULL.
OpenFails(rec) ==
  /\ DualSlots(rec) = {}
  /\ rec.sock \in ZmqTypes
  /\ \E s \in Handles \ opened : opened' = ZmqClose(ZmqSocket(opened, s), s)
  /\ UNCHANGED <<count_max, sockf_array>>

\* A descriptor that is already open is returned as it is, an unknown one and
\* one of type -1 give NULL: no step.
OpenSockf(fd) ==
  /\ context = "up"
  /\ SlotsByFd(fd) = {}
  /\ \E rec \in RecordOf(fd) : OpenDual(rec) \/ OpenFresh(rec) \/ OpenFails(rec)
  /\ UNCHANGED context

\* close_sockf as the file system calls it, on the slot that sockf_by_fd found:
\* the ZeroMQ socket is closed with its last user, and the array forgets the
\* first slot with that descriptor.
CloseSockf(k) ==
  /\ context = "up"
  /\ k \in Live
  /\ LET last == Sharing(k) = {k}
         array == IF last THEN [sockf_array EXCEPT ![k].netw_socket = NullSock]
                          ELSE sockf_array
     IN  /\ opened' = IF last THEN ZmqClose(opened, sockf_array[k].netw_socket)
                              ELSE opened
         /\ \E j \in Indexes :
              /\ FirstWithFd(sockf_array[k].fs_fd, j)
              /\ sockf_array' = MarkUnused(array, j)
  /\ UNCHANGED <<count_max, context>>

\* zeromq_term, after the file system is unmounted: the array is freed, and
\* zmq_term returns only if every socket of the context is closed.
ZeromqTerm ==
  /\ context = "up"
  /\ context' = IF opened = {} THEN "destroyed" ELSE "blocked"
  /\ sockf_array' = [k \in {} |-> k]
  /\ UNCHANGED <<count_max, opened>>

Next ==
  \/ \E fd \in Fds : OpenSockf(fd)
  \/ \E k \in Indexes : CloseSockf(k)
  \/ ZeromqTerm

Spec == Init /\ [][Next]_vars

-----------------------------------------------------------------------------
TypeOK ==
  /\ count_max \in Nat
  /\ sockf_array \in [Indexes -> Slot]
  /\ opened \subseteq Handles
  /\ context \in {"up", "destroyed", "blocked"}

\* remove_sockf_from_array_by_fd takes the first cell with the descriptor and
\* never looks at "unused". It frees the live cell all the same, because a cell
\* that was freed keeps its old descriptor only behind the live cell with it.
StaleBehindLive ==
  \A k \in Live : \A j \in Indexes :
    sockf_array[j].fs_fd = sockf_array[k].fs_fd => k <= j

\* While the pool is up, the ZeroMQ sockets that are open are exactly those of
\* the live slots: no file reads from or writes to a socket that its dual
\* closed, and none is left open that no file refers to, for which zmq_term
\* would wait for ever.
SocketsMatchSlots ==
  context = "up" => opened = {sockf_array[k].netw_socket : k \in Live}

\* The two files of a REQ or REP channel: same channel, opposite directions.
Dual(f, g) ==
  \E a, b \in {DbRecords[n] : n \in DOMAIN DbRecords} :
    /\ a.fd = f
    /\ b.fd = g
    /\ SameChannel(a, b)
    /\ {a.fmode, b.fmode} = {"r", "w"}

\* Two open files use the same ZeroMQ socket exactly when they are the two
\* directions of one channel, in whatever order files were opened and released:
\* a reply leaves by the socket its request came in on, and by no other.
DualSharing ==
  \A j, k \in Live : j # k =>
    ( sockf_array[j].netw_socket = sockf_array[k].netw_socket
        <=> Dual(sockf_array[j].fs_fd, sockf_array[k].fs_fd) )

\* A release takes its descriptor out of the pool and leaves every other open
\* file in its slot, on the socket it had.
ReleaseIsExact ==
  [][\A k \in Live : CloseSockf(k) =>
       /\ \A j \in Live' : sockf_array'[j].fs_fd # sockf_array[k].fs_fd
       /\ \A j \in Live \ {k} : sockf_array'[j] = sockf_array[j]]_vars

\* zmq_term hangs at unmount only if some file of the node is still open.
TermBlocksOnlyOnOpenFiles == [][context' = "blocked" => Live # {}]_vars
=============================================================================
