----------------------------- MODULE SockHandles -----------------------------
(***************************************************************************)
(* The socket pool as a C interface (server/zmq_netw.h): what open_sockf   *)
(* returns, and what close_sockf does with it. A first open returns an     *)
(* object of its own, a copy of the slot; an open of an open descriptor    *)
(* returns the slot itself. open_all_comm_files and close_all_comm_files   *)
(* are the other way to use the pool, "instead explicitly opening".        *)
(*                                                                         *)
(* The file server closes the slots that it finds by descriptor (SockPool, *)
(* Vfs); the tests of the pool close what open_sockf gave them.            *)
(***************************************************************************)
EXTENDS SockPool, FiniteSets

CONSTANTS
  MsqFds,      \* the descriptors whose ftype is EFILE_MSQ
  Callers,     \* who calls open_sockf; each holds one object at a time
  Null         \* no object

VARIABLES
  held,     \* the object each caller got from open_sockf
  loop,     \* where open_all_comm_files or close_all_comm_files is
  twice     \* history: zmq_close was called on a socket that is not open

handlesVars == <<count_max, sockf_array, opened, context, held, loop, twice>>

ASSUME MsqAssumption == MsqFds \subseteq Fds

\* A copy carries the members of struct sock_file_t; a slot is a pointer into
\* the array, which is lost when realloc moves the array.
Copies == [kind : {"copy"}, fs_fd : Fds, netw_socket : Handles \cup {NullSock}]
Pointers == [kind : {"slot"}, fs_fd : Fds, index : Nat, moved : BOOLEAN]

ASSUME NullObjectAssumption == Null \notin Copies \cup Pointers

\* at is the next record or cell of the loop.
Loops == [op : {"opening", "closing"}, at : Nat]
         \cup [op : {"idle", "opened", "partial", "failed"}, at : {0}]

Idle == [op |-> "idle", at |-> 0]

\* After closing a socket twice anything may happen: nothing is claimed of it.
Up == context = "up" /\ ~ twice

Holders(fd) == {o \in Callers : held[o] # Null /\ held[o].fs_fd = fd}

-----------------------------------------------------------------------------
HandlesInit ==
  /\ Init
  /\ held = [o \in Callers |-> Null]
  /\ loop = Idle
  /\ twice = FALSE

\* open_sockf of an open descriptor: the slot.
ReturnSlot(o, fd) ==
  /\ \E k \in SlotsByFd(fd) :
       held' = [held EXCEPT ![o] = [kind |-> "slot", fs_fd |-> fd, index |-> k,
                                    moved |-> FALSE]]
  /\ UNCHANGED vars

\* realloc may move the array when it grows, and leaves pointers into it behind.
Moved(objects) ==
  \E moved \in {FALSE, count_max' # count_max} :
    held' = [p \in Callers |->
      IF moved /\ objects[p] # Null /\ objects[p].kind = "slot"
      THEN [objects[p] EXCEPT !.moved = TRUE] ELSE objects[p]]

\* open_sockf of another: a copy of the new slot, or NULL.
ReturnCopy(o, fd) ==
  /\ OpenSockf(fd)
  /\ LET slots == SlotsByFd(fd)'
         copy == CHOOSE c \in Copies :
                   /\ c.fs_fd = fd
                   /\ \A k \in slots : c.netw_socket = sockf_array'[k].netw_socket
     IN  Moved([held EXCEPT ![o] = IF slots = {} THEN Null ELSE copy])

\* A caller may open what it holds again, and go on with what it gets: the test
\* TestSockfOpenClose does.
OpenObject(o, fd) ==
  /\ Up
  /\ loop = Idle
  /\ \/ held[o] = Null /\ Holders(fd) = {}
     \/ o \in Holders(fd)
  /\ ReturnSlot(o, fd) \/ ReturnCopy(o, fd)
  /\ UNCHANGED <<loop, twice>>

-----------------------------------------------------------------------------
(* close_sockf on an object of any kind. *)

SlotsOn(s) == {k \in Live : sockf_array[k].netw_socket = s}

\* Seeded fault of LastUse: the users are not counted.
LastUseAlways(s) == s # NullSock

LastUse(s) == Cardinality(SlotsOn(s)) <= 1 /\ s # NullSock

Found(fd) == \E k \in Indexes : sockf_array[k].fs_fd = fd

\* The socket is closed unless another slot uses it, and the first cell with the
\* descriptor is marked; the array is the one in which an object that is a slot
\* has lost its socket.
CloseObject(s, fd, array) ==
  /\ opened' = IF LastUse(s) THEN ZmqClose(opened, s) ELSE opened
  /\ twice' = (twice \/ (LastUse(s) /\ s \notin opened))
  /\ sockf_array' = IF Found(fd)
                    THEN MarkUnused(array, CHOOSE k \in Indexes : FirstWithFd(fd, k))
                    ELSE array
  /\ UNCHANGED <<count_max, context>>

CloseSlot(k) ==
  LET s == sockf_array[k].netw_socket
  IN  CloseObject(s, sockf_array[k].fs_fd,
        IF LastUse(s) THEN [sockf_array EXCEPT ![k].netw_socket = NullSock]
                      ELSE sockf_array)

\* A caller closes what it got, once. What a lost pointer does is undefined.
Close(o) ==
  /\ Up
  /\ loop = Idle
  /\ held[o] # Null
  /\ \/ held[o].kind = "copy" /\ CloseObject(held[o].netw_socket, held[o].fs_fd, sockf_array)
     \/ held[o].kind = "slot" /\ ~ held[o].moved /\ CloseSlot(held[o].index)
  /\ held' = [held EXCEPT ![o] = Null]
  /\ UNCHANGED <<loop>>

-----------------------------------------------------------------------------
(* open_all_comm_files and close_all_comm_files, one iteration per step. A    *)
(* caller may try again to open all after a failure.                          *)

Explicit == \E o \in Callers : held[o] # Null

StartOpenAll ==
  /\ Up
  /\ ~ Explicit
  /\ loop.op \in {"idle", "partial"}
  /\ loop' = [op |-> "opening", at |-> 1]
  /\ UNCHANGED <<vars, held, twice>>

\* Seeded fault of OpenAllStep: a failing open does not end the loop.
OpenAllStepOn ==
  /\ loop.op = "opening"
  /\ loop.at <= Len(DbRecords)
  /\ loop' = [loop EXCEPT !.at = @ + 1]
  /\ \/ OpenSockf(DbRecords[loop.at].fd)
     \/ DbRecords[loop.at].fd \notin MsqFds /\ UNCHANGED vars
  /\ UNCHANGED <<held, twice>>

OpenAllStep ==
  /\ loop.op = "opening"
  /\ loop.at <= Len(DbRecords)
  /\ \E fd \in {DbRecords[loop.at].fd} :
         /\ IF fd \in MsqFds /\ SlotsByFd(fd) = {} THEN OpenSockf(fd)
                                                       ELSE UNCHANGED vars
         /\ loop' = IF fd \in MsqFds /\ SlotsByFd(fd)' = {}
                    THEN [op |-> "partial", at |-> 0]
                    ELSE [loop EXCEPT !.at = @ + 1]
  /\ UNCHANGED <<held, twice>>

EndOpenAll ==
  /\ loop.op = "opening"
  /\ loop.at > Len(DbRecords)
  /\ loop' = [op |-> "opened", at |-> 0]
  /\ UNCHANGED <<vars, held, twice>>

StartCloseAll ==
  /\ loop.op \in {"opened", "partial"}
  /\ loop' = [op |-> "closing", at |-> 0]
  /\ UNCHANGED <<vars, held, twice>>

\* A used cell is closed through the slot that its descriptor finds; an error of
\* close_sockf, a descriptor that is in no cell, ends the loop.
CloseAllStep ==
  /\ loop.op = "closing"
  /\ ~ twice
  /\ loop.at < count_max
  /\ IF loop.at \in Live
     THEN \E k \in SlotsByFd(sockf_array[loop.at].fs_fd) : CloseSlot(k)
     ELSE UNCHANGED <<vars, twice>>
  /\ loop' = IF loop.at \in Live /\ ~ Found(sockf_array[loop.at].fs_fd)
             THEN [op |-> "failed", at |-> 0] ELSE [loop EXCEPT !.at = @ + 1]
  /\ UNCHANGED <<held>>

EndCloseAll ==
  /\ loop.op = "closing"
  /\ loop.at >= count_max
  /\ loop' = Idle
  /\ UNCHANGED <<vars, held, twice>>

\* Who used the pool closes what was opened before zeromq_term.
Term ==
  /\ ~ twice
  /\ ~ Explicit
  /\ loop = Idle
  /\ ZeromqTerm
  /\ UNCHANGED <<held, loop, twice>>

HandlesNext ==
  \/ \E o \in Callers : Close(o) \/ \E fd \in Fds : OpenObject(o, fd)
  \/ StartOpenAll \/ OpenAllStep \/ EndOpenAll
  \/ StartCloseAll \/ CloseAllStep \/ EndCloseAll
  \/ Term

HandlesSpec == HandlesInit /\ [][HandlesNext]_handlesVars

-----------------------------------------------------------------------------
\* Callers can use what they hold, whatever the others close through their copies and
\* slots: zmq_close is called once for every socket, although the object a caller closes
\* and the slot in the array both hold its address and only one of them forgets it; and
\* the slot of the descriptor is live, and the object has its socket or is the slot.
HeldIsUsable ==
  /\ ~ twice
  /\ \A o \in Callers : held[o] # Null =>
       \E k \in SlotsByFd(held[o].fs_fd) :
         /\ sockf_array[k].netw_socket \in opened
         /\ held[o].kind = "copy" => held[o].netw_socket = sockf_array[k].netw_socket
         /\ held[o].kind = "slot" => held[o].index = k

\* open_all_comm_files and close_all_comm_files, in turn with callers that open and
\* close one by one: success of the first means that every message queue file is open
\* and no other one, also when it failed half way before; the second meets no error;
\* and when everything was closed no socket is left, so that zeromq_term returns.
AllOpenAllClosed ==
  /\ loop.op = "opened" => {sockf_array[k].fs_fd : k \in Live} = MsqFds
  /\ loop.op # "failed"
  /\ loop = Idle /\ ~ Explicit => opened = {} /\ Live = {}
  /\ context # "blocked"
=============================================================================
