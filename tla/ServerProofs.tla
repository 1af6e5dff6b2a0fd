---------------------------- MODULE ServerProofs ----------------------------
(***************************************************************************)
(* What the file server promises for every channels database, every        *)
(* granularity and every set of socket addresses, in four parts:           *)
(*   - the pool (SockPool): its invariant IInv, and from it its properties;*)
(*   - the callers that keep what open_sockf gave them, and the loops that *)
(*     open and close all files (SockHandles): the steps of both keep IInv,*)
(*     and with HandlesInv every object has its live slot;                 *)
(*   - the table of paths (FsTable, FsFill), for records of any number     *)
(*     and paths of any length: Filled says whose entries it has and in    *)
(*     what order, with FillIInv what a lookup finds and a listing shows;  *)
(*   - the file system (Vfs), for every set of programs and paths: it uses *)
(*     the pool as SockPool says, so that IInv holds of its pool; with     *)
(*     FsIInv the programs' files and the pool's slots agree, and with     *)
(*     Filled a file's own path leads to its descriptor.                   *)
(* The parts share constants and the pool only: no theorem is about the    *)
(* objects of callers, the filling and the file system at once.            *)
(***************************************************************************)
EXTENDS SockHandles, Vfs, FsFill, DataLemmas

(* The pool, SockPool. *)

\* Only descriptors of real ZeroMQ channels are ever live.
LiveRecords ==
  \A k \in Live : \E rec \in RecordOf(sockf_array[k].fs_fd) : rec.sock \in ZmqTypes

IInv ==
  /\ TypeOK
  /\ StaleBehindLive
  /\ SocketsMatchSlots
  /\ LiveRecords
  /\ DualSharing

-----------------------------------------------------------------------------
\* Records found by descriptor are rows of the table with that descriptor, and
\* no other row has it.
LEMMA RecordOfFacts ==
  ASSUME NEW fd, NEW rec \in RecordOf(fd)
  PROVE  /\ \E n \in DOMAIN DbRecords : rec = DbRecords[n]
         /\ rec.fd = fd
         /\ fd \in Fds
         /\ fd \in Nat
         /\ rec.sock \in ZmqTypes \cup {"none"}
         /\ rec.fmode \in {"r", "w"}
<1>1. PICK n \in DOMAIN DbRecords : rec = DbRecords[n] /\ DbRecords[n].fd = fd
  BY DEF RecordOf
<1>2. DbRecords[n] \in DbRecord
  BY <1>1, DbTypeAssumption
<1> QED
  BY <1>1, <1>2 DEF Fds, DbRecord

\* What adding a descriptor that is not in the pool does: one more slot is live,
\* the others are as they were, and no cell before a live one has its descriptor.
LEMMA AddSockfFacts ==
  ASSUME TypeOK, StaleBehindLive, context = "up", UNCHANGED context,
         NEW fd \in Fds, NEW s \in Handles,
         SlotsByFd(fd) = {}, AddSockf(fd, s)
  PROVE  /\ count_max' \in Nat
         /\ sockf_array' \in [Indexes' -> Slot]
         /\ \E k \in Indexes' :
              /\ k \notin Live
              /\ Live' = Live \cup {k}
              /\ sockf_array'[k] = NewSlot(fd, s)
              /\ \A j \in Live : sockf_array'[j] = sockf_array[j]
         /\ StaleBehindLive'
<1> USE DEF TypeOK
<1>0. NewSlot(fd, s) \in Slot
  BY DEF NewSlot, Slot, CellFds
<1>1. CASE Live # Indexes
  <2>1. PICK k \in Indexes : /\ FirstUnused(k)
                             /\ sockf_array' = [sockf_array EXCEPT ![k] = NewSlot(fd, s)]
    BY <1>1 DEF AddSockf
  <2>2. count_max' = count_max /\ Indexes' = Indexes
    BY <1>1 DEF AddSockf, Indexes
  <2>3. k \notin Live /\ \A j \in Indexes : j < k => j \in Live
    BY <2>1 DEF FirstUnused, Indexes, Live
  <2>4. sockf_array' \in [Indexes' -> Slot]
    BY <2>1, <2>2, <1>0
  <2>5. \A j \in Indexes : j # k => sockf_array'[j] = sockf_array[j]
    BY <2>1
  <2>6. sockf_array'[k] = NewSlot(fd, s)
    BY <2>1
  <2>7. Live' = Live \cup {k}
    BY <2>2, <2>5, <2>6 DEF Live, NewSlot
  <2>8. StaleBehindLive'
    <3>1. SUFFICES ASSUME NEW n \in Live', NEW j \in Indexes',
                          sockf_array'[j].fs_fd = sockf_array'[n].fs_fd
                   PROVE  n <= j
      BY DEF StaleBehindLive
    <3>2. CASE n = k
      <4>1. SUFFICES ASSUME j < k PROVE FALSE
        BY <3>2, <2>2 DEF Indexes
      <4>2. j \in Live /\ sockf_array[j].fs_fd = fd
        BY <4>1, <2>2, <2>3, <2>5, <2>6, <3>1, <3>2 DEF NewSlot, Indexes
      <4> QED
        BY <4>2 DEF SlotsByFd
    <3>3. CASE n # k
      <4>1. n \in Live /\ sockf_array'[n] = sockf_array[n]
        BY <2>5, <2>7, <3>3 DEF Live
      <4>2. CASE j = k
        BY <4>1, <4>2, <2>6, <3>1 DEF NewSlot, SlotsByFd
      <4>3. CASE j # k
        BY <4>1, <4>3, <2>2, <2>5, <3>1 DEF StaleBehindLive
      <4> QED
        BY <4>2, <4>3
    <3> QED
      BY <3>2, <3>3
  <2> QED
    BY <2>2, <2>3, <2>4, <2>5, <2>6, <2>7, <2>8 DEF Live
<1>2. CASE Live = Indexes
  <2>1. PICK junk \in [count_max .. count_max + Granularity - 1 -> CellFds] :
          sockf_array' =
              [k \in 0 .. count_max + Granularity - 1 |->
                 IF k < count_max THEN sockf_array[k]
                 ELSE IF k = count_max THEN NewSlot(fd, s)
                 ELSE [unused |-> TRUE, fs_fd |-> junk[k],
                       netw_socket |-> NullSock]]
    BY <1>2 DEF AddSockf
  <2>2. /\ count_max' = count_max + Granularity
        /\ count_max' \in Nat
        /\ Indexes' = 0 .. count_max + Granularity - 1
        /\ count_max \in Indexes'
        /\ count_max \notin Indexes
        /\ \A j \in Indexes : j \in Indexes' /\ j < count_max
    BY <1>2, GranularityAssumption DEF AddSockf, Indexes
  <2>3. sockf_array' \in [Indexes' -> Slot]
    <3>1. ASSUME NEW k \in Indexes' PROVE sockf_array'[k] \in Slot
      <4>1. CASE k < count_max
        <5>1. k \in Indexes /\ sockf_array'[k] = sockf_array[k]
          BY <2>1, <2>2, <3>1, <4>1, GranularityAssumption DEF Indexes
        <5> QED
          BY <5>1
      <4>2. CASE k = count_max
        BY <2>1, <2>2, <3>1, <4>2, <1>0
      <4>3. CASE k > count_max
        <5>1. junk[k] \in CellFds
          BY <2>1, <2>2, <3>1, <4>3
        <5> QED
          BY <2>1, <2>2, <3>1, <4>3, <5>1 DEF Slot
      <4> QED
        BY <4>1, <4>2, <4>3, <2>2
    <3> QED
      BY <2>1, <2>2, <3>1
  <2>4. \A j \in Indexes : sockf_array'[j] = sockf_array[j]
    BY <2>1, <2>2
  <2>5. sockf_array'[count_max] = NewSlot(fd, s)
    BY <2>1, <2>2
  <2>6. \A j \in Indexes' : j > count_max => sockf_array'[j].unused
    BY <2>1, <2>2
  <2>7. Live' = Live \cup {count_max}
    <3>1. ASSUME NEW j \in Live' PROVE j \in Live \cup {count_max}
      BY <1>2, <2>2, <2>6, <3>1 DEF Live, Indexes
    <3>2. count_max \in Live'
      BY <2>2, <2>5 DEF Live, NewSlot
    <3>3. Live \subseteq Live'
      BY <2>2, <2>4 DEF Live
    <3> QED
      BY <3>1, <3>2, <3>3
  <2>8. StaleBehindLive'
    <3>1. SUFFICES ASSUME NEW n \in Live', NEW j \in Indexes',
                          sockf_array'[j].fs_fd = sockf_array'[n].fs_fd
                   PROVE  n <= j
      BY DEF StaleBehindLive
    <3>2. CASE n = count_max
      <4>1. SUFFICES ASSUME j < count_max PROVE FALSE
        BY <3>2, <2>2
      <4>2. j \in Live /\ sockf_array[j].fs_fd = fd
        BY <1>2, <2>2, <2>4, <2>5, <3>1, <3>2, <4>1 DEF NewSlot, Indexes
      <4> QED
        BY <4>2 DEF SlotsByFd
    <3>3. CASE n \in Live
      <4>1. CASE j < count_max
        BY <2>2, <2>4, <3>1, <3>3, <4>1, <1>2 DEF StaleBehindLive, Indexes
      <4>2. CASE j >= count_max
        BY <1>2, <2>2, <3>3, <4>2 DEF Indexes
      <4> QED
        BY <4>1, <4>2, <2>2
    <3> QED
      BY <2>7, <3>2, <3>3
  <2> QED
    BY <1>2, <2>2, <2>3, <2>4, <2>5, <2>7, <2>8
<1> QED
  BY <1>1, <1>2

\* What every close does to the pool: slot k is free, the others are as they were,
\* and the socket is closed with its last slot.
Freed(k) ==
  /\ context = "up"
  /\ UNCHANGED <<count_max, context>>
  /\ sockf_array' \in [Indexes -> Slot]
  /\ Live' = Live \ {k}
  /\ \A j \in Live \ {k} : sockf_array'[j] = sockf_array[j]
  /\ \A j \in Indexes : sockf_array'[j].fs_fd = sockf_array[j].fs_fd
  /\ opened' = IF Sharing(k) = {k} THEN opened \ {sockf_array[k].netw_socket} ELSE opened

\* The first cell with the descriptor of a live cell is that cell.
LEMMA FirstIsLive ==
  ASSUME TypeOK, StaleBehindLive, NEW k \in Live, NEW j
  PROVE  FirstWithFd(sockf_array[k].fs_fd, j) <=> j = k
<1>1. k \in Indexes /\ Indexes \subseteq Int
  BY DEF Live, Indexes
<1>2. ASSUME FirstWithFd(sockf_array[k].fs_fd, j) PROVE j = k
  <2>1. j \in Int /\ k \in Int
    BY <1>1, <1>2 DEF FirstWithFd
  <2>2. j <= k
    BY <1>1, <1>2 DEF FirstWithFd
  <2>3. k <= j
    BY <1>2 DEF FirstWithFd, StaleBehindLive
  <2> QED
    BY <2>1, <2>2, <2>3
<1>3. FirstWithFd(sockf_array[k].fs_fd, k)
  BY <1>1 DEF FirstWithFd, StaleBehindLive
<1> QED
  BY <1>2, <1>3

\* Marking a cell changes nothing else, whether or not its socket is forgotten.
LEMMA MarkFacts ==
  ASSUME TypeOK, context = "up", UNCHANGED <<count_max, context>>, NEW k \in Live,
         NEW array \in {sockf_array, [sockf_array EXCEPT ![k].netw_socket = NullSock]},
         sockf_array' = MarkUnused(array, k),
         opened' = IF Sharing(k) = {k} THEN opened \ {sockf_array[k].netw_socket} ELSE opened
  PROVE  Freed(k)
<1> USE DEF TypeOK
<1>3. array \in [Indexes -> Slot]
  BY DEF Slot
<1>4. /\ \A i \in Indexes : array[i].unused = sockf_array[i].unused
      /\ \A i \in Indexes : array[i].fs_fd = sockf_array[i].fs_fd
      /\ \A i \in Indexes \ {k} : array[i] = sockf_array[i]
  BY DEF Slot, Live
<1>5. Indexes' = Indexes /\ k \in Indexes
  BY DEF Indexes, Live
<1>6. sockf_array' = [array EXCEPT ![k].unused = TRUE]
  BY DEF MarkUnused
<1>7. sockf_array' \in [Indexes -> Slot]
  BY <1>3, <1>5, <1>6 DEF Slot
<1>8. /\ \A i \in Indexes \ {k} : sockf_array'[i] = sockf_array[i]
      /\ sockf_array'[k].unused
      /\ sockf_array'[k].fs_fd = sockf_array[k].fs_fd
  BY <1>3, <1>4, <1>5, <1>6 DEF Slot
<1>9. Live' = Live \ {k}
  BY <1>5, <1>8 DEF Live
<1> QED
  BY <1>7, <1>8, <1>9 DEF Live, Freed

\* What close_sockf does to a slot: the cell it marks is its own, because the first
\* cell with the descriptor is the live one.
LEMMA CloseSockfFacts ==
  ASSUME TypeOK, StaleBehindLive, NEW k \in Live, CloseSockf(k)
  PROVE  Freed(k)
<1> DEFINE array == IF Sharing(k) = {k}
                    THEN [sockf_array EXCEPT ![k].netw_socket = NullSock]
                    ELSE sockf_array
<1>1. PICK j \in Indexes : /\ FirstWithFd(sockf_array[k].fs_fd, j)
                           /\ sockf_array' = MarkUnused(array, j)
  BY DEF CloseSockf
<1>2. j = k
  BY <1>1, FirstIsLive
<1>3. array \in {sockf_array, [sockf_array EXCEPT ![k].netw_socket = NullSock]}
  OBVIOUS
<1>4. /\ context = "up" /\ UNCHANGED <<count_max, context>>
      /\ opened' = IF Sharing(k) = {k} THEN opened \ {sockf_array[k].netw_socket} ELSE opened
  BY DEF CloseSockf, ZmqClose
<1> HIDE DEF array
<1> QED
  BY <1>1, <1>2, <1>3, <1>4, MarkFacts

\* A socket that is about to be shared belongs to a live slot on the same
\* channel, in the other direction.
LEMMA DualSlotsFacts ==
  ASSUME TypeOK, LiveRecords, NEW fd, NEW rec \in RecordOf(fd),
         SlotsByFd(fd) = {}, NEW d \in DualSlots(rec)
  PROVE  /\ d \in Live
         /\ Dual(sockf_array[d].fs_fd, fd)
         /\ rec.sock \in ZmqTypes
<1> DEFINE Rows == {DbRecords[n] : n \in DOMAIN DbRecords}
<1>1. rec \in Rows /\ rec.fd = fd /\ rec.fmode \in {"r", "w"}
  BY RecordOfFacts
<1>2. PICK r \in Direction(rec, "r"), w \in Direction(rec, "w") :
        d \in SlotsByFd(r.fd) \/ d \in SlotsByFd(w.fd)
  BY DEF DualSlots
<1>3. /\ r \in Rows /\ SameChannel(r, rec) /\ r.fmode = "r"
      /\ w \in Rows /\ SameChannel(w, rec) /\ w.fmode = "w"
  BY DEF Direction
<1>4. PICK e \in {r, w} : d \in SlotsByFd(e.fd)
  BY <1>2
<1>5. d \in Live /\ sockf_array[d].fs_fd = e.fd
  BY <1>4 DEF SlotsByFd
<1>6. e.sock \in ZmqTypes
  <2>1. PICK l \in RecordOf(e.fd) : l.sock \in ZmqTypes
    BY <1>5 DEF LiveRecords
  <2>2. l \in Rows /\ l.fd = e.fd
    BY RecordOfFacts
  <2>3. l = e
    BY <1>3, <1>4, <2>2, DbKeysAssumption
  <2> QED
    BY <2>1, <2>3
<1>7. rec.sock \in ZmqTypes
  BY <1>3, <1>4, <1>6 DEF SameChannel
<1>8. e # rec
  BY <1>1, <1>4
<1>9. e.fmode # rec.fmode
  BY <1>1, <1>3, <1>4, <1>6, <1>8, DbKeysAssumption
<1>10. Dual(e.fd, fd)
  BY <1>1, <1>3, <1>4, <1>9 DEF Dual
<1> QED
  BY <1>5, <1>7, <1>10

\* A dual of a row has that row as a dual.
LEMMA DualSymmetric ==
  ASSUME NEW f, NEW g, Dual(f, g)
  PROVE  Dual(g, f)
BY DEF Dual, SameChannel

\* A descriptor of a ZeroMQ channel has at most one dual.
LEMMA DualUnique ==
  ASSUME NEW f, NEW g, NEW h, Dual(f, h), Dual(g, h),
         NEW rec \in RecordOf(h), rec.sock \in ZmqTypes
  PROVE  f = g
<1> DEFINE Rows == {DbRecords[n] : n \in DOMAIN DbRecords}
<1>1. PICK a \in Rows, b \in Rows :
        /\ a.fd = f /\ b.fd = h /\ SameChannel(a, b)
        /\ {a.fmode, b.fmode} = {"r", "w"}
  BY DEF Dual
<1>2. PICK c \in Rows, d \in Rows :
        /\ c.fd = g /\ d.fd = h /\ SameChannel(c, d)
        /\ {c.fmode, d.fmode} = {"r", "w"}
  BY DEF Dual
<1>3. rec \in Rows /\ rec.fd = h
  BY RecordOfFacts
<1>4. b = rec /\ d = rec
  BY <1>1, <1>2, <1>3, DbKeysAssumption
<1>5. a.fmode = c.fmode
  BY <1>1, <1>2, <1>4
<1>6. SameChannel(a, c) /\ a.sock \in ZmqTypes
  BY <1>1, <1>2, <1>4 DEF SameChannel
<1>7. a = c
  BY <1>1, <1>2, <1>5, <1>6, DbKeysAssumption
<1> QED
  BY <1>1, <1>2, <1>7

\* get_dual_sockf finds the other direction whenever it is open.
LEMMA DualFound ==
  ASSUME NEW fd, NEW rec \in RecordOf(fd), rec.sock \in ZmqTypes,
         NEW j \in Live, Dual(sockf_array[j].fs_fd, fd)
  PROVE  DualSlots(rec) # {}
<1> DEFINE Rows == {DbRecords[n] : n \in DOMAIN DbRecords}
<1>1. PICK a \in Rows, b \in Rows :
        /\ a.fd = sockf_array[j].fs_fd /\ b.fd = fd /\ SameChannel(a, b)
        /\ {a.fmode, b.fmode} = {"r", "w"}
  BY DEF Dual
<1>2. rec \in Rows /\ rec.fd = fd
  BY RecordOfFacts
<1>3. b = rec
  BY <1>1, <1>2, DbKeysAssumption
<1>4. ASSUME NEW e \in Rows, SameChannel(e, rec)
      PROVE  e \in Direction(rec, e.fmode)
  <2>1. PICK n \in DOMAIN DbRecords : e = DbRecords[n]
    OBVIOUS
  <2>2. n \in Int
    BY DbTypeAssumption, <2>1
  <2>3. ASSUME NEW m \in DOMAIN DbRecords, SameChannel(DbRecords[m], rec),
               DbRecords[m].fmode = e.fmode
        PROVE  m = n
    <3>1. SameChannel(DbRecords[m], DbRecords[n]) /\ DbRecords[m].sock \in ZmqTypes
      BY <1>4, <2>1, <2>3 DEF SameChannel
    <3> QED
      BY <3>1, <2>1, <2>3, DbKeysAssumption
  <2> DEFINE match == {k \in DOMAIN DbRecords :
                         SameChannel(DbRecords[k], rec) /\ DbRecords[k].fmode = e.fmode}
  <2>4. n \in match /\ \A k \in match : k <= n
    BY <1>4, <2>1, <2>2, <2>3
  <2> QED
    BY <2>1, <2>4 DEF Direction
<1>5. SameChannel(rec, rec)
  BY DEF SameChannel
<1>6. a \in Direction(rec, a.fmode) /\ rec \in Direction(rec, rec.fmode)
  BY <1>1, <1>2, <1>3, <1>4, <1>5
<1>7. j \in SlotsByFd(a.fd)
  BY <1>1 DEF SlotsByFd
<1>8. CASE a.fmode = "r" /\ rec.fmode = "w"
  BY <1>6, <1>7, <1>8 DEF DualSlots
<1>9. CASE a.fmode = "w" /\ rec.fmode = "r"
  BY <1>6, <1>7, <1>9 DEF DualSlots
<1> QED
  BY <1>1, <1>3, <1>8, <1>9

-----------------------------------------------------------------------------
\* Whichever way a descriptor is opened, its slot is added with a socket s that
\* is open afterwards; the proofs of the two flows share the rest.
LEMMA OpenPreserves ==
  ASSUME IInv, context = "up", UNCHANGED context,
         NEW fd \in Fds, NEW rec \in RecordOf(fd), rec.sock \in ZmqTypes,
         SlotsByFd(fd) = {}, NEW s \in Handles, AddSockf(fd, s),
         opened' = opened \cup {s},
         \A j \in Live : sockf_array[j].netw_socket = s
                           <=> Dual(sockf_array[j].fs_fd, fd)
  PROVE  IInv'
<1> USE DEF IInv
<1>1. PICK k \in Indexes' :
        /\ k \notin Live
        /\ Live' = Live \cup {k}
        /\ sockf_array'[k] = NewSlot(fd, s)
        /\ \A j \in Live : sockf_array'[j] = sockf_array[j]
  BY AddSockfFacts
<1>2. sockf_array'[k].fs_fd = fd /\ sockf_array'[k].netw_socket = s
  BY <1>1 DEF NewSlot
<1>3. TypeOK'
  BY AddSockfFacts DEF TypeOK
<1>5. StaleBehindLive'
  BY AddSockfFacts
<1>6. SocketsMatchSlots'
  <2>1. opened = {sockf_array[j].netw_socket : j \in Live}
    BY DEF SocketsMatchSlots
  <2> QED
    BY <1>1, <1>2, <2>1 DEF SocketsMatchSlots
<1>7. LiveRecords'
  <2>1. \A j \in Live : \E r \in RecordOf(sockf_array'[j].fs_fd) : r.sock \in ZmqTypes
    BY <1>1 DEF LiveRecords
  <2>2. \E r \in RecordOf(sockf_array'[k].fs_fd) : r.sock \in ZmqTypes
    BY <1>2
  <2> QED
    BY <1>1, <2>1, <2>2 DEF LiveRecords
<1>8. DualSharing'
  <2>1. SUFFICES ASSUME NEW i \in Live', NEW j \in Live', i # j
                 PROVE  sockf_array'[i].netw_socket = sockf_array'[j].netw_socket
                          <=> Dual(sockf_array'[i].fs_fd, sockf_array'[j].fs_fd)
    BY DEF DualSharing
  <2>2. CASE i \in Live /\ j \in Live
    BY <1>1, <2>1, <2>2 DEF DualSharing
  <2>3. CASE i \in Live /\ j = k
    BY <1>1, <1>2, <2>3
  <2>4. CASE i = k /\ j \in Live
    <3>1. sockf_array[j].netw_socket = s <=> Dual(sockf_array[j].fs_fd, fd)
      BY <2>4
    <3>2. Dual(sockf_array[j].fs_fd, fd) <=> Dual(fd, sockf_array[j].fs_fd)
      BY DualSymmetric
    <3> QED
      BY <1>1, <1>2, <2>4, <3>1, <3>2
  <2> QED
    BY <1>1, <2>1, <2>2, <2>3, <2>4
<1> QED
  BY <1>3, <1>5, <1>6, <1>7, <1>8

\* An open that shares the socket of the dual file.
LEMMA OpenDualPreserves ==
  ASSUME IInv, context = "up", UNCHANGED context,
         NEW fd \in Fds, NEW rec \in RecordOf(fd),
         SlotsByFd(fd) = {}, OpenDual(rec)
  PROVE  IInv'
<1> USE DEF IInv
<1>1. rec.fd = fd
  BY RecordOfFacts
<1>2. PICK d \in DualSlots(rec) : AddSockf(fd, sockf_array[d].netw_socket)
  BY <1>1 DEF OpenDual
<1>3. d \in Live /\ Dual(sockf_array[d].fs_fd, fd) /\ rec.sock \in ZmqTypes
  BY <1>2, DualSlotsFacts
<1> DEFINE s == sockf_array[d].netw_socket
<1>4. s \in opened /\ opened' = opened
  BY <1>3 DEF SocketsMatchSlots, OpenDual
<1>5. s \in Handles /\ opened' = opened \cup {s}
  BY <1>4 DEF TypeOK
<1>6. ASSUME NEW j \in Live
      PROVE  sockf_array[j].netw_socket = s <=> Dual(sockf_array[j].fs_fd, fd)
  <2>1. CASE j = d
    BY <1>3, <2>1
  <2>2. CASE j # d
    <3>1. ASSUME sockf_array[j].netw_socket = s PROVE FALSE
      <4>1. Dual(sockf_array[j].fs_fd, sockf_array[d].fs_fd)
        BY <1>3, <2>2, <3>1 DEF DualSharing
      <4>2. Dual(fd, sockf_array[d].fs_fd)
        BY <1>3, DualSymmetric
      <4>3. PICK r \in RecordOf(sockf_array[d].fs_fd) : r.sock \in ZmqTypes
        BY <1>3 DEF LiveRecords
      <4>4. sockf_array[j].fs_fd = fd
        BY <4>1, <4>2, <4>3, DualUnique
      <4> QED
        BY <4>4 DEF SlotsByFd
    <3>2. ASSUME Dual(sockf_array[j].fs_fd, fd) PROVE FALSE
      <4>1. sockf_array[j].fs_fd = sockf_array[d].fs_fd
        BY <1>3, <3>2, DualUnique
      <4>2. j <= d /\ d <= j /\ j \in Int /\ d \in Int
        BY <1>3, <4>1 DEF StaleBehindLive, Live, Indexes
      <4> QED
        BY <4>2, <2>2
    <3> QED
      BY <3>1, <3>2
  <2> QED
    BY <2>1, <2>2
<1> QED
  BY <1>2, <1>3, <1>5, <1>6, OpenPreserves

\* An open that creates a socket of its own.
LEMMA OpenFreshPreserves ==
  ASSUME IInv, context = "up", UNCHANGED context,
         NEW fd \in Fds, NEW rec \in RecordOf(fd),
         SlotsByFd(fd) = {}, OpenFresh(rec)
  PROVE  IInv'
<1> USE DEF IInv
<1>1. rec.fd = fd /\ rec.sock \in ZmqTypes
  BY RecordOfFacts DEF OpenFresh
<1>2. PICK s \in Handles \ opened : opened' = opened \cup {s} /\ AddSockf(fd, s)
  BY <1>1 DEF OpenFresh, ZmqSocket
<1>3. ASSUME NEW j \in Live
      PROVE  sockf_array[j].netw_socket # s /\ ~ Dual(sockf_array[j].fs_fd, fd)
  BY <1>1, <1>2, DualFound DEF SocketsMatchSlots, OpenFresh
<1> QED
  BY <1>1, <1>2, <1>3, OpenPreserves

\* A close, of a shared socket or of the last file of one.
LEMMA FreePreserves ==
  ASSUME IInv, NEW k \in Live, Freed(k)
  PROVE  IInv'
<1> USE DEF IInv
<1>1. /\ Live' = Live \ {k}
      /\ \A j \in Live \ {k} : sockf_array'[j] = sockf_array[j]
      /\ \A j \in Indexes : sockf_array'[j].fs_fd = sockf_array[j].fs_fd
  BY DEF Freed
<1>2. /\ UNCHANGED <<count_max, context>>
      /\ context = "up"
      /\ Indexes' = Indexes
      /\ opened' = IF Sharing(k) = {k}
                   THEN opened \ {sockf_array[k].netw_socket} ELSE opened
  BY DEF Freed, Indexes
<1>3. TypeOK'
  BY <1>2 DEF TypeOK, Freed
<1>5. StaleBehindLive'
  BY <1>1, <1>2 DEF StaleBehindLive, Live
<1>6. SocketsMatchSlots'
  <2>1. opened = {sockf_array[j].netw_socket : j \in Live}
    BY <1>2 DEF SocketsMatchSlots
  <2>2. {sockf_array'[j].netw_socket : j \in Live'}
          = {sockf_array[j].netw_socket : j \in Live \ {k}}
    BY <1>1
  <2>3. CASE Sharing(k) = {k}
    BY <1>2, <2>1, <2>2, <2>3 DEF SocketsMatchSlots, Sharing
  <2>4. CASE Sharing(k) # {k}
    <3>1. PICK j \in Live \ {k} : sockf_array[j].netw_socket = sockf_array[k].netw_socket
      BY <2>4 DEF Sharing
    <3> QED
      BY <1>2, <2>1, <2>2, <2>4, <3>1 DEF SocketsMatchSlots
  <2> QED
    BY <2>3, <2>4
<1>7. LiveRecords'
  BY <1>1 DEF LiveRecords
<1>8. DualSharing'
  BY <1>1 DEF DualSharing
<1> QED
  BY <1>3, <1>5, <1>6, <1>7, <1>8

\* A close of a slot.
LEMMA ClosePreserves ==
  ASSUME IInv, NEW k \in Live, CloseSockf(k)
  PROVE  IInv'
BY CloseSockfFacts, FreePreserves DEF IInv

\* No step of the pool.
LEMMA PoolStutter ==
  ASSUME IInv, UNCHANGED vars
  PROVE  IInv'
BY DEF vars, IInv, TypeOK, StaleBehindLive, SocketsMatchSlots, LiveRecords, DualSharing,
       Live, Indexes

\* Every open.
LEMMA OpenSockfPreserves ==
  ASSUME IInv, NEW fd \in Fds, OpenSockf(fd)
  PROVE  IInv'
<1>1. PICK rec \in RecordOf(fd) : OpenDual(rec) \/ OpenFresh(rec) \/ OpenFails(rec)
  BY DEF OpenSockf
<1>2. context = "up" /\ UNCHANGED context /\ SlotsByFd(fd) = {}
  BY DEF OpenSockf
<1>3. CASE OpenDual(rec)
  BY <1>2, <1>3, OpenDualPreserves
<1>4. CASE OpenFresh(rec)
  BY <1>2, <1>4, OpenFreshPreserves
<1>5. CASE OpenFails(rec)
  <2>1. UNCHANGED vars
    BY <1>2, <1>5 DEF OpenFails, ZmqSocket, ZmqClose, vars
  <2> QED
    BY <2>1, PoolStutter
<1> QED
  BY <1>1, <1>3, <1>4, <1>5

\* The empty pool.
LEMMA InitHolds ==
  ASSUME Init
  PROVE  IInv
<1>1. Live = {}
  BY DEF Init, Live, Indexes
<1>2. TypeOK
  BY GranularityAssumption DEF Init, TypeOK, Indexes, Slot, CellFds
<1> QED
  BY <1>1, <1>2 DEF Init, IInv, StaleBehindLive, SocketsMatchSlots, LiveRecords, DualSharing

\* zeromq_term.
LEMMA TermPreserves ==
  ASSUME IInv, ZeromqTerm
  PROVE  IInv'
<1>1. Indexes' = {} /\ Live' = {} /\ context' # "up"
  BY DEF ZeromqTerm, Indexes, Live
<1>2. TypeOK'
  BY <1>1 DEF ZeromqTerm, IInv, TypeOK
<1> QED
  BY <1>1, <1>2 DEF IInv, StaleBehindLive, SocketsMatchSlots, LiveRecords, DualSharing

-----------------------------------------------------------------------------
\* Opening a descriptor that has no slot either gives it one and leaves the other
\* slots as they are, or leaves the pool as it was.
LEMMA OpenSockfFacts ==
  ASSUME IInv, NEW fd, OpenSockf(fd)
  PROVE  /\ context = "up" /\ context' = "up"
         /\ SlotsByFd(fd) = {}
         /\ \/ /\ SlotsByFd(fd)' = {}
               /\ UNCHANGED vars
            \/ \E k \in Indexes' :
                 /\ k \notin Live
                 /\ Live' = Live \cup {k}
                 /\ sockf_array'[k].fs_fd = fd
                 /\ ~ sockf_array'[k].unused
                 /\ \A j \in Live : sockf_array'[j] = sockf_array[j]
<1>1. PICK rec \in RecordOf(fd) : OpenDual(rec) \/ OpenFresh(rec) \/ OpenFails(rec)
  BY DEF OpenSockf
<1>2. context = "up" /\ UNCHANGED context /\ SlotsByFd(fd) = {}
  BY DEF OpenSockf
<1>3. fd \in Fds /\ rec.fd = fd
  BY RecordOfFacts
<1>4. ASSUME NEW s \in Handles, AddSockf(fd, s)
      PROVE  \E k \in Indexes' :
               /\ k \notin Live
               /\ Live' = Live \cup {k}
               /\ sockf_array'[k].fs_fd = fd
               /\ ~ sockf_array'[k].unused
               /\ \A j \in Live : sockf_array'[j] = sockf_array[j]
  <2>1. PICK k \in Indexes' :
          /\ k \notin Live
          /\ Live' = Live \cup {k}
          /\ sockf_array'[k] = NewSlot(fd, s)
          /\ \A j \in Live : sockf_array'[j] = sockf_array[j]
    BY <1>2, <1>3, <1>4, AddSockfFacts DEF IInv
  <2> QED
    BY <2>1 DEF NewSlot
<1>5. CASE OpenDual(rec)
  <2>1. PICK d \in DualSlots(rec) : AddSockf(fd, sockf_array[d].netw_socket)
    BY <1>3, <1>5 DEF OpenDual
  <2>2. d \in Live
    BY <1>2, <2>1, DualSlotsFacts DEF IInv
  <2>3. sockf_array[d].netw_socket \in Handles
    BY <1>2, <2>2 DEF IInv, SocketsMatchSlots, TypeOK
  <2> QED
    BY <1>2, <1>4, <2>1, <2>3
<1>6. CASE OpenFresh(rec)
  <2>1. PICK s \in Handles : AddSockf(fd, s)
    BY <1>3, <1>6 DEF OpenFresh
  <2> QED
    BY <1>2, <1>4, <2>1
<1>7. CASE OpenFails(rec)
  <2>1. UNCHANGED vars
    BY <1>2, <1>7 DEF OpenFails, ZmqSocket, ZmqClose, vars
  <2>2. SlotsByFd(fd)' = SlotsByFd(fd)
    BY <2>1 DEF vars, SlotsByFd, Live, Indexes
  <2> QED
    BY <1>2, <2>1, <2>2
<1> QED
  BY <1>1, <1>5, <1>6, <1>7

\* A descriptor has one slot at most.
LEMMA OneSlot ==
  ASSUME IInv, NEW j \in Live, NEW k \in Live,
         sockf_array[j].fs_fd = sockf_array[k].fs_fd
  PROVE  j = k
<1>1. j \in Int /\ k \in Int /\ j \in Indexes /\ k \in Indexes
  BY DEF Live, Indexes, IInv, TypeOK
<1>2. j <= k /\ k <= j
  BY <1>1 DEF IInv, StaleBehindLive
<1> QED
  BY <1>1, <1>2

\* The same after a step.
LEMMA OneSlotNext ==
  ASSUME IInv', NEW j \in Live', NEW k \in Live',
         sockf_array'[j].fs_fd = sockf_array'[k].fs_fd
  PROVE  j = k
<1>1. j \in Indexes' /\ k \in Indexes' /\ j \in Int /\ k \in Int
  <2>1. PICK n \in Nat : n = count_max'
    BY DEF IInv, TypeOK
  <2>2. j \in Indexes' /\ k \in Indexes'
    BY DEF Live
  <2>3. Indexes' = 0 .. n - 1
    BY <2>1, <2>2 DEF Indexes
  <2>4. j \in 0 .. n - 1 /\ k \in 0 .. n - 1
    BY <2>2, <2>3
  <2> QED
    BY <2>2, <2>4
<1>2. j <= k /\ k <= j
  BY <1>1 DEF IInv, StaleBehindLive
<1> QED
  BY <1>1, <1>2

-----------------------------------------------------------------------------
\* Every step of the server's life keeps the invariant.
THEOREM Invariance == Spec => []IInv
<1>1. Init => IInv
  BY InitHolds
<1>2. IInv /\ [Next]_vars => IInv'
  <2> SUFFICES ASSUME IInv, [Next]_vars PROVE IInv'
    OBVIOUS
  <2>1. ASSUME NEW fd \in Fds, OpenSockf(fd) PROVE IInv'
    BY <2>1, OpenSockfPreserves
  <2>2. ASSUME NEW k \in Indexes, CloseSockf(k) PROVE IInv'
    <3>1. k \in Live
      BY <2>2 DEF CloseSockf
    <3> QED
      BY <2>2, <3>1, ClosePreserves
  <2>3. CASE ZeromqTerm
    BY <2>3, TermPreserves
  <2>4. CASE UNCHANGED vars
    BY <2>4, PoolStutter
  <2> QED
    BY <2>1, <2>2, <2>3, <2>4 DEF Next
<1> QED
  BY <1>1, <1>2, PTL DEF Spec

\* The types of the pool's state, over every execution.
THEOREM TypeCorrectness == Spec => []TypeOK
<1>1. IInv => TypeOK
  BY DEF IInv
<1> QED
  BY <1>1, Invariance, PTL

\* remove_sockf_from_array_by_fd always frees the live cell.
THEOREM RemoveFreesLive == Spec => []StaleBehindLive
<1>1. IInv => StaleBehindLive
  BY DEF IInv
<1> QED
  BY <1>1, Invariance, PTL

\* No file on a closed socket, no open socket without a file.
THEOREM NoDanglingNoLeak == Spec => []SocketsMatchSlots
<1>1. IInv => SocketsMatchSlots
  BY DEF IInv
<1> QED
  BY <1>1, Invariance, PTL

\* Two open files share a socket exactly when they are duals.
THEOREM SharingIsDual == Spec => []DualSharing
<1>1. IInv => DualSharing
  BY DEF IInv
<1> QED
  BY <1>1, Invariance, PTL

\* A release takes its own descriptor out of the pool and disturbs no other slot.
LEMMA ReleaseFacts ==
  ASSUME IInv, NEW k \in Live, CloseSockf(k)
  PROVE  /\ \A j \in Live' : sockf_array'[j].fs_fd # sockf_array[k].fs_fd
         /\ \A j \in Live \ {k} : sockf_array'[j] = sockf_array[j]
<1>1. /\ Live' = Live \ {k}
      /\ \A j \in Live \ {k} : sockf_array'[j] = sockf_array[j]
  BY CloseSockfFacts DEF IInv, Freed
<1>2. ASSUME NEW j \in Live \ {k}, sockf_array[j].fs_fd = sockf_array[k].fs_fd
      PROVE  FALSE
  BY <1>2, OneSlot
<1> QED
  BY <1>1, <1>2

\* A release frees its own descriptor and disturbs no other open file.
THEOREM ReleaseExact == Spec => ReleaseIsExact
<1>1. IInv =>
        [\A k \in Live : CloseSockf(k) =>
           /\ \A j \in Live' : sockf_array'[j].fs_fd # sockf_array[k].fs_fd
           /\ \A j \in Live \ {k} : sockf_array'[j] = sockf_array[j]]_vars
  BY ReleaseFacts
<1> QED
  BY <1>1, Invariance, PTL DEF Spec, ReleaseIsExact

\* zmq_term hangs only when a file was still open.
THEOREM TermReturns == Spec => TermBlocksOnlyOnOpenFiles
<1>1. IInv /\ [Next]_vars => [context' = "blocked" => Live # {}]_vars
  <2> SUFFICES ASSUME IInv, Next, context' = "blocked" PROVE Live # {}
    OBVIOUS
  <2>1. ZeromqTerm
    BY DEF Next, OpenSockf, CloseSockf
  <2>2. opened # {} /\ context = "up"
    BY <2>1 DEF ZeromqTerm
  <2> QED
    BY <2>2 DEF IInv, SocketsMatchSlots
<1> QED
  BY <1>1, Invariance, PTL DEF Spec, TermBlocksOnlyOnOpenFiles

-----------------------------------------------------------------------------
(* The callers of the pool, SockHandles. *)

Objects == Copies \cup Pointers

\* Slot k is what an object h of open_sockf stands for.
Backs(k, h) ==
  /\ sockf_array[k].fs_fd = h.fs_fd
  /\ h.kind = "copy" => h.netw_socket = sockf_array[k].netw_socket
  /\ h.kind = "slot" => h.index = k

\* Every object has its slot, and no two callers have objects of one descriptor.
ObjectsBacked ==
  /\ held \in [Callers -> Objects \cup {Null}]
  /\ \A o \in Callers : held[o] # Null => \E k \in Live : Backs(k, held[o])
  /\ \A o, p \in Callers :
       held[o] # Null /\ held[p] # Null /\ held[o].fs_fd = held[p].fs_fd => o = p

\* Between the loops every slot is somebody's.
SlotsHeld == loop = Idle => \A k \in Live : Holders(sockf_array[k].fs_fd) # {}

OpenFds == {sockf_array[k].fs_fd : k \in Live}

\* What the two loops have done so far.
LoopProgress ==
  /\ loop \in Loops
  /\ loop.op # "failed"
  /\ loop # Idle => context = "up" /\ ~ Explicit
  /\ loop.op \in {"opening", "partial", "opened"} => OpenFds \subseteq MsqFds
  /\ loop.op = "opening" =>
       /\ loop.at >= 1
       /\ \A i \in 1 .. loop.at - 1 : DbRecords[i].fd \in MsqFds => DbRecords[i].fd \in OpenFds
  /\ loop.op = "opened" => MsqFds \subseteq OpenFds
  /\ loop.op = "closing" => \A k \in Live : k >= loop.at

TermClean == context # "up" => context = "destroyed" /\ opened = {} /\ ~ Explicit

HandlesInv ==
  /\ IInv
  /\ ~ twice
  /\ ObjectsBacked
  /\ SlotsHeld
  /\ LoopProgress
  /\ TermClean

\* close_sockf counts the slots on the socket: it is the last one exactly when no
\* other slot shares it, and it is open.
LEMMA LastUseFacts ==
  ASSUME IInv, context = "up", NEW k \in Live
  PROVE  /\ LastUse(sockf_array[k].netw_socket) <=> Sharing(k) = {k}
         /\ sockf_array[k].netw_socket \in opened
<1> DEFINE s == sockf_array[k].netw_socket
<1>1. s \in opened
  BY DEF IInv, SocketsMatchSlots
<1>2. s # NullSock
  BY <1>1, NullAssumption DEF IInv, TypeOK
<1>3. SlotsOn(s) = Sharing(k) /\ k \in Sharing(k)
  BY DEF SlotsOn, Sharing
<1>4. IsFiniteSet(Sharing(k))
  <2>1. IsFiniteSet(0 .. count_max - 1)
    <3>1. 0 \in Int /\ count_max - 1 \in Int
      BY DEF IInv, TypeOK
    <3> QED
      BY <3>1, FS_Interval
  <2>2. Sharing(k) \in SUBSET (0 .. count_max - 1)
    BY DEF Sharing, Live, Indexes
  <2> QED
    BY <2>1, <2>2, FS_Subset
<1>5. Cardinality(Sharing(k)) \in Nat /\ Cardinality(Sharing(k)) # 0
  BY <1>3, <1>4, FS_CardinalityType, FS_EmptySet
<1>6. Cardinality(Sharing(k)) = 1 <=> \E x : Sharing(k) = {x}
  BY <1>4, FS_Singleton
<1>7. Cardinality(Sharing(k)) <= 1 <=> Sharing(k) = {k}
  <2>1. Cardinality(Sharing(k)) <= 1 <=> Cardinality(Sharing(k)) = 1
    BY <1>5
  <2>2. (\E x : Sharing(k) = {x}) <=> Sharing(k) = {k}
    BY <1>3
  <2> QED
    BY <1>6, <2>1, <2>2
<1> QED
  BY <1>1, <1>2, <1>3, <1>7 DEF LastUse

\* close_sockf of an object that stands for slot k frees slot k and closes its socket
\* once.
LEMMA CloseObjectFacts ==
  ASSUME IInv, context = "up", ~ twice, NEW k \in Live,
         NEW array \in {sockf_array, [sockf_array EXCEPT ![k].netw_socket = NullSock]},
         CloseObject(sockf_array[k].netw_socket, sockf_array[k].fs_fd, array)
  PROVE  Freed(k) /\ ~ twice'
<1> DEFINE s == sockf_array[k].netw_socket
<1> DEFINE fd == sockf_array[k].fs_fd
<1>1. s \in opened /\ (LastUse(s) <=> Sharing(k) = {k})
  BY LastUseFacts
<1>2. ~ twice'
  BY <1>1 DEF CloseObject
<1>3. opened' = IF Sharing(k) = {k} THEN opened \ {s} ELSE opened
  BY <1>1 DEF CloseObject, ZmqClose
<1>4. Found(fd)
  BY DEF Found, Live
<1>5. (CHOOSE j \in Indexes : FirstWithFd(fd, j)) = k
  <2>1. k \in Indexes
    BY DEF Live
  <2>2. \A j \in Indexes : FirstWithFd(fd, j) <=> j = k
    BY FirstIsLive DEF IInv
  <2> QED
    BY <2>1, <2>2
<1>6. sockf_array' = MarkUnused(array, k) /\ UNCHANGED <<count_max, context>>
  BY <1>4, <1>5 DEF CloseObject
<1>7. Freed(k)
  BY <1>3, <1>6, MarkFacts DEF IInv
<1> QED
  BY <1>2, <1>7

\* close_sockf of the slot itself.
LEMMA CloseSlotFacts ==
  ASSUME IInv, context = "up", ~ twice, NEW k \in Live, CloseSlot(k)
  PROVE  Freed(k) /\ ~ twice'
<1> DEFINE array == IF LastUse(sockf_array[k].netw_socket)
                    THEN [sockf_array EXCEPT ![k].netw_socket = NullSock]
                    ELSE sockf_array
<1>1. array \in {sockf_array, [sockf_array EXCEPT ![k].netw_socket = NullSock]}
  OBVIOUS
<1>2. CloseObject(sockf_array[k].netw_socket, sockf_array[k].fs_fd, array)
  BY DEF CloseSlot
<1> HIDE DEF array
<1> QED
  BY <1>1, <1>2, CloseObjectFacts

\* What an open does to the pool, when it does anything: slots are added for fd.
Added(fd) ==
  /\ context = "up" /\ UNCHANGED context
  /\ Live \subseteq Live'
  /\ \A j \in Live : sockf_array'[j] = sockf_array[j]
  /\ \A j \in Live' \ Live : sockf_array'[j].fs_fd = fd

LEMMA AddedByOpen ==
  ASSUME IInv, NEW fd \in Fds, OpenSockf(fd)
  PROVE  Added(fd) /\ IInv' /\ SlotsByFd(fd) = {}
<1>1. /\ context = "up" /\ context' = "up"
      /\ SlotsByFd(fd) = {}
  BY OpenSockfFacts
<1>2. ASSUME UNCHANGED vars PROVE Added(fd)
  BY <1>1, <1>2 DEF vars, Added, Live, Indexes
<1>3. ASSUME NEW k \in Indexes', Live' = Live \cup {k}, sockf_array'[k].fs_fd = fd,
             \A j \in Live : sockf_array'[j] = sockf_array[j]
      PROVE  Added(fd)
  BY <1>1, <1>3 DEF Added
<1> QED
  BY <1>1, <1>2, <1>3, OpenSockfFacts, OpenSockfPreserves

LEMMA AddedByNothing ==
  ASSUME context = "up", UNCHANGED vars, NEW fd
  PROVE  Added(fd)
BY DEF vars, Added, Live, Indexes

\* The same object, which realloc may have left behind.
Like(h, g) ==
  \/ h = g
  \/ g \in Pointers /\ h = [g EXCEPT !.moved = TRUE]

LEMMA LikeFacts ==
  ASSUME NEW g \in Objects \cup {Null}, NEW h, Like(h, g)
  PROVE  /\ h \in Objects \cup {Null}
         /\ h = Null <=> g = Null
         /\ g # Null => /\ h.fs_fd = g.fs_fd /\ h.kind = g.kind
                        /\ g.kind = "copy" => h.netw_socket = g.netw_socket
                        /\ g.kind = "slot" => h.index = g.index
<1>1. CASE h = g
  BY <1>1
<1>2. CASE g \in Pointers /\ h = [g EXCEPT !.moved = TRUE]
  <2>1. h \in Pointers /\ g.kind = "slot" /\ h.kind = "slot"
        /\ h.fs_fd = g.fs_fd /\ h.index = g.index
    BY <1>2 DEF Pointers
  <2>2. h # Null /\ g # Null
    BY <1>2, <2>1, NullObjectAssumption
  <2> QED
    BY <2>1, <2>2 DEF Objects
<1> QED
  BY <1>1, <1>2 DEF Like

\* A step that adds slots for fd and gives obj to caller o keeps the objects backed.
Given(o, fd, obj) ==
  /\ obj \in Objects \cup {Null}
  /\ obj = Null => held[o] = Null /\ \A j \in Live' : j \in Live
  /\ obj # Null => obj.fs_fd = fd /\ \E k \in Live' : Backs(k, obj)'
  /\ held' \in [Callers -> Objects \cup {Null}]
  /\ Like(held'[o], obj)
  /\ \A p \in Callers \ {o} : Like(held'[p], held[p])

LEMMA GivenPreserves ==
  ASSUME ObjectsBacked, SlotsHeld, loop = Idle, NEW o \in Callers, NEW fd,
         \/ held[o] = Null /\ Holders(fd) = {}
         \/ o \in Holders(fd),
         Added(fd), NEW obj, Given(o, fd, obj)
  PROVE  ObjectsBacked' /\ SlotsHeld'
<1> USE DEF ObjectsBacked
<1>1. /\ held[o] # Null => held[o].fs_fd = fd
      /\ \A p \in Callers \ {o} : held[p] # Null => held[p].fs_fd # fd
  BY DEF Holders
<1>2. ASSUME NEW p \in Callers \ {o}
      PROVE  /\ held'[p] = Null <=> held[p] = Null
             /\ held[p] # Null =>
                  /\ held'[p].fs_fd = held[p].fs_fd
                  /\ \E k \in Live' : Backs(k, held[p])'
  <2>1. Like(held'[p], held[p]) /\ held[p] \in Objects \cup {Null}
    BY DEF Given
  <2>2. /\ held'[p] = Null <=> held[p] = Null
        /\ held[p] # Null => /\ held'[p].fs_fd = held[p].fs_fd /\ held'[p].kind = held[p].kind
                             /\ held[p].kind = "copy" => held'[p].netw_socket = held[p].netw_socket
                             /\ held[p].kind = "slot" => held'[p].index = held[p].index
    BY <2>1, LikeFacts
  <2>3. CASE held[p] # Null
    <3>1. PICK k \in Live : Backs(k, held[p])
      BY <2>3
    <3>2. k \in Live' /\ sockf_array'[k] = sockf_array[k]
      BY DEF Added
    <3>3. Backs(k, held[p])'
      BY <2>2, <2>3, <3>1, <3>2 DEF Backs
    <3> QED
      BY <2>2, <2>3, <3>2, <3>3
  <2> QED
    BY <2>2, <2>3
<1>3. /\ held'[o] = Null <=> obj = Null
      /\ obj # Null => held'[o].fs_fd = fd /\ \E k \in Live' : Backs(k, held[o])'
  <2>1. Like(held'[o], obj) /\ obj \in Objects \cup {Null}
    BY DEF Given
  <2>2. /\ held'[o] = Null <=> obj = Null
        /\ obj # Null => /\ held'[o].fs_fd = obj.fs_fd /\ held'[o].kind = obj.kind
                         /\ obj.kind = "copy" => held'[o].netw_socket = obj.netw_socket
                         /\ obj.kind = "slot" => held'[o].index = obj.index
    BY <2>1, LikeFacts
  <2>3. CASE obj # Null
    <3>1. PICK k \in Live' : Backs(k, obj)'
      BY <2>3 DEF Given
    <3>2. Backs(k, held[o])'
      BY <2>2, <2>3, <3>1 DEF Backs
    <3> QED
      BY <2>2, <2>3, <3>2 DEF Given
  <2> QED
    BY <2>2, <2>3
<1>4. held' \in [Callers -> Objects \cup {Null}]
  BY DEF Given
<1>5. ASSUME NEW p \in Callers, held'[p] # Null PROVE \E k \in Live' : Backs(k, held[p])'
  BY <1>2, <1>3, <1>5
<1>6. ASSUME NEW p \in Callers, NEW q \in Callers, held'[p] # Null, held'[q] # Null,
             held'[p].fs_fd = held'[q].fs_fd
      PROVE  p = q
  <2>1. CASE p = o /\ q # o
    BY <1>1, <1>2, <1>3, <1>6, <2>1
  <2>2. CASE p # o /\ q = o
    BY <1>1, <1>2, <1>3, <1>6, <2>2
  <2>3. CASE p # o /\ q # o
    BY <1>2, <1>6, <2>3
  <2> QED
    BY <2>1, <2>2, <2>3
<1>7. SlotsHeld'
  <2>1. SUFFICES ASSUME NEW k \in Live'
                 PROVE  \E p \in Callers : held'[p] # Null /\ held'[p].fs_fd = sockf_array'[k].fs_fd
    BY DEF SlotsHeld, Holders
  <2>2. CASE k \in Live
    <3>1. sockf_array'[k] = sockf_array[k]
      BY <2>2 DEF Added
    <3>2. PICK p \in Callers : held[p] # Null /\ held[p].fs_fd = sockf_array[k].fs_fd
      BY <2>2 DEF SlotsHeld, Holders
    <3>3. CASE p # o
      BY <1>2, <3>1, <3>2, <3>3
    <3>4. CASE p = o
      BY <1>1, <1>3, <3>1, <3>2, <3>4 DEF Given
    <3> QED
      BY <3>3, <3>4
  <2>3. CASE k \notin Live
    BY <1>3, <2>3 DEF Added, Given
  <2> QED
    BY <2>2, <2>3
<1> QED
  BY <1>4, <1>5, <1>6, <1>7

\* What an open leaves of the rest: no loop runs and the pool is up.
LEMMA IdleFacts ==
  ASSUME LoopProgress, loop = Idle, UNCHANGED loop, context = "up", UNCHANGED context
  PROVE  LoopProgress' /\ TermClean'
<1>1. loop'.op = "idle" /\ loop' = Idle
  BY DEF Idle
<1> QED
  BY <1>1 DEF LoopProgress, TermClean

\* open_sockf of an open descriptor.
LEMMA ReturnSlotPreserves ==
  ASSUME HandlesInv, NEW o \in Callers, NEW fd \in Fds, Up, loop = Idle,
         \/ held[o] = Null /\ Holders(fd) = {}
         \/ o \in Holders(fd),
         ReturnSlot(o, fd), UNCHANGED <<loop, twice>>
  PROVE  HandlesInv'
<1>1. PICK k \in SlotsByFd(fd) :
        held' = [held EXCEPT ![o] = [kind |-> "slot", fs_fd |-> fd, index |-> k,
                                     moved |-> FALSE]]
  BY DEF ReturnSlot
<1> DEFINE obj == [kind |-> "slot", fs_fd |-> fd, index |-> k, moved |-> FALSE]
<1>2. UNCHANGED vars /\ context = "up" /\ UNCHANGED context
  BY DEF ReturnSlot, Up, vars
<1>3. Added(fd) /\ IInv'
  BY <1>2, AddedByNothing, PoolStutter DEF HandlesInv
<1>4. k \in Live /\ sockf_array[k].fs_fd = fd /\ k \in Nat
  <2>1. k \in Live /\ k \in Indexes /\ sockf_array[k].fs_fd = fd
    BY DEF SlotsByFd, Live
  <2> QED
    BY <2>1 DEF Indexes
<1>5. obj \in Pointers /\ obj # Null
  <2>1. obj \in Pointers
    BY <1>4 DEF Pointers
  <2> HIDE DEF obj
  <2> QED
    BY <2>1, NullObjectAssumption
<1>6. Given(o, fd, obj)
  <2>1. held \in [Callers -> Objects \cup {Null}]
    BY DEF HandlesInv, ObjectsBacked
  <2>2. k \in Live' /\ Backs(k, obj)'
    BY <1>2, <1>4 DEF vars, Live, Indexes, Backs
  <2> QED
    BY <1>1, <1>5, <2>1, <2>2 DEF Given, Objects, Like
<1>7. ObjectsBacked' /\ SlotsHeld'
  BY <1>3, <1>6, GivenPreserves DEF HandlesInv
<1>8. LoopProgress' /\ TermClean'
  BY <1>2, IdleFacts DEF HandlesInv
<1> QED
  BY <1>3, <1>7, <1>8 DEF HandlesInv

\* What realloc may do to objects.
LEMMA MovedFacts ==
  ASSUME NEW objects \in [Callers -> Objects \cup {Null}], Moved(objects)
  PROVE  /\ held' \in [Callers -> Objects \cup {Null}]
         /\ \A p \in Callers : Like(held'[p], objects[p])
<1>1. PICK moved \in {FALSE, count_max' # count_max} :
        held' = [p \in Callers |->
          IF moved /\ objects[p] # Null /\ objects[p].kind = "slot"
          THEN [objects[p] EXCEPT !.moved = TRUE] ELSE objects[p]]
  BY DEF Moved
<1>2. ASSUME NEW p \in Callers PROVE Like(held'[p], objects[p])
  <2>1. CASE held'[p] = objects[p]
    BY <2>1 DEF Like
  <2>2. CASE objects[p] # Null /\ objects[p].kind = "slot"
             /\ held'[p] = [objects[p] EXCEPT !.moved = TRUE]
    <3>1. objects[p] \in Pointers
      BY <2>2 DEF Objects, Copies
    <3> QED
      BY <2>2, <3>1 DEF Like
  <2> QED
    BY <1>1, <2>1, <2>2
<1>3. ASSUME NEW p \in Callers PROVE held'[p] \in Objects \cup {Null}
  BY <1>2, LikeFacts
<1>4. held' = [p \in Callers |-> held'[p]]
  BY <1>1
<1> QED
  BY <1>2, <1>3, <1>4

\* open_sockf of another descriptor.
LEMMA ReturnCopyPreserves ==
  ASSUME HandlesInv, NEW o \in Callers, NEW fd \in Fds, Up, loop = Idle,
         \/ held[o] = Null /\ Holders(fd) = {}
         \/ o \in Holders(fd),
         ReturnCopy(o, fd), UNCHANGED <<loop, twice>>
  PROVE  HandlesInv'
<1> DEFINE slots == SlotsByFd(fd)'
<1> DEFINE copy == CHOOSE c \in Copies :
                     /\ c.fs_fd = fd
                     /\ \A k \in slots : c.netw_socket = sockf_array'[k].netw_socket
<1>0. PICK obj : obj = IF slots = {} THEN Null ELSE copy
  OBVIOUS
<1>1. Added(fd) /\ IInv' /\ SlotsByFd(fd) = {}
  BY AddedByOpen DEF ReturnCopy, HandlesInv
<1>2. held \in [Callers -> Objects \cup {Null}] /\ held[o] = Null
  <2>1. ASSUME o \in Holders(fd) PROVE FALSE
    <3>1. held[o] # Null /\ held[o].fs_fd = fd
      BY <2>1 DEF Holders
    <3>2. PICK k \in Live : sockf_array[k].fs_fd = fd
      BY <3>1 DEF HandlesInv, ObjectsBacked, Backs
    <3> QED
      BY <1>1, <3>2 DEF SlotsByFd
  <2> QED
    BY <2>1 DEF HandlesInv, ObjectsBacked
<1>3. Moved([held EXCEPT ![o] = obj])
  BY <1>0 DEF ReturnCopy
<1>4. context' = "up"
  BY <1>1 DEF Added
<1>5. ASSUME slots = {} PROVE ObjectsBacked' /\ SlotsHeld'
  <2>1. obj = Null
    BY <1>0, <1>5
  <2>2. \A j \in Live' : j \in Live
    BY <1>1, <1>5 DEF Added, SlotsByFd
  <2>3. [held EXCEPT ![o] = obj] \in [Callers -> Objects \cup {Null}]
    BY <1>2, <2>1
  <2> HIDE DEF slots, copy
  <2>4. Given(o, fd, obj)
    BY <1>2, <1>3, <2>1, <2>2, <2>3, MovedFacts DEF Given
  <2> QED
    BY <1>1, <2>4, GivenPreserves DEF HandlesInv
<1>6. ASSUME slots # {} PROVE ObjectsBacked' /\ SlotsHeld'
  <2>1. PICK k : k \in slots
    BY <1>6
  <2>2. k \in Live' /\ sockf_array'[k].fs_fd = fd
    BY <2>1 DEF SlotsByFd
  <2>3. ASSUME NEW j \in slots PROVE j = k
    <3>1. j \in Live' /\ sockf_array'[j].fs_fd = fd
      BY <2>3 DEF SlotsByFd
    <3> QED
      BY <1>1, <2>2, <3>1, OneSlotNext
  <2>4. sockf_array'[k].netw_socket \in Handles \cup {NullSock}
    BY <1>1, <2>2 DEF IInv, TypeOK, Slot, Live
  <2>5. \E c \in Copies : c.fs_fd = fd /\ \A j \in slots : c.netw_socket = sockf_array'[j].netw_socket
    <3>1. [kind |-> "copy", fs_fd |-> fd, netw_socket |-> sockf_array'[k].netw_socket] \in Copies
      BY <2>4 DEF Copies
    <3> HIDE DEF slots
    <3> QED
      BY <2>3, <3>1
  <2>6. copy \in Copies /\ copy.fs_fd = fd
        /\ \A j \in slots : copy.netw_socket = sockf_array'[j].netw_socket
    <3> HIDE DEF slots
    <3> QED
      BY <2>5
  <2>7. obj \in Copies /\ obj.fs_fd = fd /\ obj.netw_socket = sockf_array'[k].netw_socket
    <3> HIDE DEF slots, copy
    <3> QED
      BY <1>0, <1>6, <2>1, <2>6
  <2> HIDE DEF slots, copy
  <2>8. obj.kind = "copy" /\ obj # Null /\ obj \in Objects
    BY <2>7, NullObjectAssumption DEF Copies, Objects
  <2>9. Backs(k, obj)'
    BY <2>2, <2>7, <2>8 DEF Backs
  <2>10. [held EXCEPT ![o] = obj] \in [Callers -> Objects \cup {Null}]
    BY <1>2, <2>8
  <2>11. Given(o, fd, obj)
    BY <1>2, <1>3, <2>2, <2>7, <2>8, <2>9, <2>10, MovedFacts DEF Given
  <2> QED
    BY <1>1, <2>11, GivenPreserves DEF HandlesInv
<1>7. ObjectsBacked' /\ SlotsHeld'
  BY <1>5, <1>6
<1>8. LoopProgress' /\ TermClean'
  BY <1>1, IdleFacts DEF HandlesInv, Added
<1> QED
  BY <1>1, <1>7, <1>8 DEF HandlesInv

\* A close of what a caller holds.
LEMMA ClosePreservesObjects ==
  ASSUME HandlesInv, NEW o \in Callers, Close(o)
  PROVE  HandlesInv'
<1>1. context = "up" /\ ~ twice /\ loop = Idle /\ held[o] # Null /\ UNCHANGED loop
      /\ held' = [held EXCEPT ![o] = Null]
  BY DEF Close, Up
<1>2. PICK k \in Live : Backs(k, held[o])
  BY <1>1 DEF HandlesInv, ObjectsBacked
<1>3. Freed(k) /\ ~ twice'
  <2>1. CASE held[o].kind = "copy" /\ CloseObject(held[o].netw_socket, held[o].fs_fd, sockf_array)
    <3>1. held[o].netw_socket = sockf_array[k].netw_socket /\ held[o].fs_fd = sockf_array[k].fs_fd
      BY <1>2, <2>1 DEF Backs
    <3>2. CloseObject(sockf_array[k].netw_socket, sockf_array[k].fs_fd, sockf_array)
      BY <2>1, <3>1
    <3> QED
      BY <1>1, <3>2, CloseObjectFacts DEF HandlesInv
  <2>2. CASE held[o].kind = "slot" /\ CloseSlot(held[o].index)
    <3>1. CloseSlot(k)
      BY <1>2, <2>2 DEF Backs
    <3> QED
      BY <1>1, <3>1, CloseSlotFacts DEF HandlesInv
  <2> QED
    BY <2>1, <2>2 DEF Close
<1>4. IInv'
  BY <1>3, FreePreserves DEF HandlesInv
<1>5. ASSUME NEW j \in Live, j # k
      PROVE  /\ j \in Live' /\ sockf_array'[j] = sockf_array[j]
             /\ sockf_array[j].fs_fd # held[o].fs_fd
  <2>1. sockf_array[j].fs_fd # sockf_array[k].fs_fd
    BY <1>5, OneSlot DEF HandlesInv
  <2> QED
    BY <1>2, <1>3, <1>5, <2>1 DEF Freed, Backs
<1>6. ObjectsBacked'
  <2>1. held' \in [Callers -> Objects \cup {Null}]
    BY <1>1 DEF HandlesInv, ObjectsBacked
  <2>2. \A p \in Callers : held'[p] # Null => p # o /\ held'[p] = held[p] /\ held[p] # Null
    BY <1>1 DEF HandlesInv, ObjectsBacked
  <2>3. ASSUME NEW p \in Callers, held'[p] # Null PROVE \E j \in Live' : Backs(j, held[p])'
    <3>1. PICK j \in Live : Backs(j, held[p])
      BY <2>2, <2>3 DEF HandlesInv, ObjectsBacked
    <3>2. held[p].fs_fd # held[o].fs_fd
      BY <1>1, <2>2, <2>3 DEF HandlesInv, ObjectsBacked
    <3>3. j # k
      BY <1>2, <3>1, <3>2 DEF Backs
    <3> QED
      BY <1>5, <2>2, <2>3, <3>1, <3>3 DEF Backs
  <2>4. \A p, q \in Callers :
          held'[p] # Null /\ held'[q] # Null /\ held'[p].fs_fd = held'[q].fs_fd => p = q
    BY <2>2 DEF HandlesInv, ObjectsBacked
  <2> QED
    BY <2>1, <2>3, <2>4 DEF ObjectsBacked
<1>7. SlotsHeld'
  <2>1. SUFFICES ASSUME NEW j \in Live'
                 PROVE  \E p \in Callers : held'[p] # Null /\ held'[p].fs_fd = sockf_array'[j].fs_fd
    BY DEF SlotsHeld, Holders
  <2>2. j \in Live /\ j # k
    BY <1>3 DEF Freed
  <2>3. PICK p \in Callers : held[p] # Null /\ held[p].fs_fd = sockf_array[j].fs_fd
    BY <1>1, <2>2 DEF HandlesInv, SlotsHeld, Holders
  <2>4. p # o
    BY <1>5, <2>2, <2>3
  <2>5. held'[p] = held[p]
    BY <1>1, <2>4 DEF HandlesInv, ObjectsBacked
  <2> QED
    BY <1>5, <2>2, <2>3, <2>5
<1>8. LoopProgress' /\ TermClean'
  <2>1. UNCHANGED context
    BY <1>3 DEF Freed
  <2> QED
    BY <1>1, <2>1, IdleFacts DEF HandlesInv
<1> QED
  BY <1>3, <1>4, <1>6, <1>7, <1>8 DEF HandlesInv

-----------------------------------------------------------------------------
(* open_all_comm_files and close_all_comm_files, while nobody holds an object. *)

\* A step of a loop, or the end of the pool, finds no object and leaves none.
LEMMA NobodyHolds ==
  ASSUME HandlesInv, ~ Explicit, UNCHANGED held
  PROVE  ObjectsBacked' /\ ~ Explicit'
<1>1. held' \in [Callers -> Objects \cup {Null}] /\ \A o \in Callers : held'[o] = Null
  BY DEF HandlesInv, ObjectsBacked, Explicit
<1> QED
  BY <1>1 DEF ObjectsBacked, Explicit

LEMMA DuringLoop ==
  ASSUME HandlesInv, ~ Explicit, UNCHANGED held, loop'.op # "idle", context' = "up"
  PROVE  ObjectsBacked' /\ SlotsHeld' /\ TermClean' /\ ~ Explicit'
<1>1. loop' # Idle
  BY DEF Idle
<1> QED
  BY <1>1, NobodyHolds DEF SlotsHeld, TermClean

\* A loop that is there runs on the pool, and nobody holds an object.
LEMMA LoopRuns ==
  ASSUME HandlesInv, loop.op # "idle"
  PROVE  context = "up" /\ ~ Explicit /\ loop.at \in Nat /\ ~ twice
<1>1. loop # Idle
  BY DEF Idle
<1> QED
  BY <1>1 DEF HandlesInv, LoopProgress, Loops

\* Without objects and loops there are no slots.
LEMMA NothingOpen ==
  ASSUME HandlesInv, ~ Explicit, loop = Idle
  PROVE  Live = {} /\ opened = {}
<1>1. Live = {}
  BY DEF HandlesInv, SlotsHeld, Holders, Explicit
<1> QED
  BY <1>1 DEF HandlesInv, IInv, SocketsMatchSlots, TermClean

LEMMA LoopIdle ==
  ASSUME HandlesInv
  PROVE  loop.op = "idle" <=> loop = Idle
BY DEF HandlesInv, LoopProgress, Loops, Idle

LEMMA StartOpenAllPreserves ==
  ASSUME HandlesInv, StartOpenAll
  PROVE  HandlesInv'
<1>1. /\ loop' = [op |-> "opening", at |-> 1]
      /\ UNCHANGED vars /\ UNCHANGED held /\ UNCHANGED twice
      /\ ~ Explicit /\ context = "up" /\ context' = "up"
      /\ loop.op \in {"idle", "partial"}
  BY DEF StartOpenAll, Up, vars
<1>2. IInv' /\ OpenFds' = OpenFds
  BY <1>1, PoolStutter DEF HandlesInv, OpenFds, vars, Live, Indexes
<1>3. ObjectsBacked' /\ SlotsHeld' /\ TermClean' /\ ~ Explicit'
  BY <1>1, DuringLoop
<1>4. OpenFds \subseteq MsqFds
  <2>1. CASE loop.op = "idle"
    BY <1>1, <2>1, LoopIdle, NothingOpen DEF OpenFds
  <2>2. CASE loop.op = "partial"
    BY <2>2 DEF HandlesInv, LoopProgress
  <2> QED
    BY <1>1, <2>1, <2>2
<1>5. LoopProgress'
  BY <1>1, <1>2, <1>3, <1>4 DEF LoopProgress, Loops
<1> QED
  BY <1>1, <1>2, <1>3, <1>5 DEF HandlesInv

LEMMA OpenAllStepPreserves ==
  ASSUME HandlesInv, OpenAllStep
  PROVE  HandlesInv'
<1>1. /\ loop.op = "opening" /\ loop.at <= Len(DbRecords)
      /\ UNCHANGED held /\ UNCHANGED twice
  BY DEF OpenAllStep
<1>2. context = "up" /\ ~ Explicit /\ loop.at \in Nat /\ ~ twice
  BY <1>1, LoopRuns
<1>3. PICK i \in Nat : i = loop.at
  BY <1>2
<1>4. PICK fd : fd = DbRecords[i].fd
  OBVIOUS
<1>5. i >= 1 /\ \A j \in 1 .. i - 1 : DbRecords[j].fd \in MsqFds => DbRecords[j].fd \in OpenFds
  BY <1>1, <1>3 DEF HandlesInv, LoopProgress
<1>6. i \in DOMAIN DbRecords
  <2>1. DOMAIN DbRecords = 1 .. Len(DbRecords) /\ Len(DbRecords) \in Nat
    BY DbTypeAssumption
  <2> QED
    BY <1>1, <1>3, <1>5, <2>1
<1>7. fd \in Fds
  BY <1>4, <1>6 DEF Fds
<1>8. /\ IF fd \in MsqFds /\ SlotsByFd(fd) = {} THEN OpenSockf(fd) ELSE UNCHANGED vars
      /\ loop' = IF fd \in MsqFds /\ SlotsByFd(fd)' = {}
                 THEN [op |-> "partial", at |-> 0]
                 ELSE [loop EXCEPT !.at = @ + 1]
  BY <1>3, <1>4 DEF OpenAllStep
<1>9. Added(fd) /\ IInv' /\ (fd \notin MsqFds => UNCHANGED vars)
  <2>1. CASE fd \in MsqFds /\ SlotsByFd(fd) = {}
    BY <1>7, <1>8, <2>1, AddedByOpen DEF HandlesInv
  <2>2. CASE ~ (fd \in MsqFds /\ SlotsByFd(fd) = {})
    BY <1>2, <1>8, <2>2, AddedByNothing, PoolStutter DEF HandlesInv
  <2> QED
    BY <2>1, <2>2
<1>10. OpenFds \subseteq OpenFds'
  BY <1>9 DEF OpenFds, Added
<1>11. OpenFds' \subseteq MsqFds
  <2>1. OpenFds \subseteq MsqFds
    BY <1>1 DEF HandlesInv, LoopProgress
  <2>2. CASE fd \in MsqFds
    BY <1>9, <2>1, <2>2 DEF OpenFds, Added
  <2>3. CASE fd \notin MsqFds
    <3>1. OpenFds' = OpenFds
      BY <1>9, <2>3 DEF OpenFds, vars, Live, Indexes
    <3> QED
      BY <2>1, <3>1
  <2> QED
    BY <2>2, <2>3
<1>12. loop \in [op : {"opening"}, at : Nat]
  BY <1>1 DEF HandlesInv, LoopProgress, Loops
<1>13. \/ loop' = [op |-> "partial", at |-> 0]
       \/ /\ loop' \in [op : {"opening"}, at : Nat] /\ loop'.at = i + 1
          /\ fd \in MsqFds => fd \in OpenFds'
  <2>1. ASSUME ~ (fd \in MsqFds /\ SlotsByFd(fd)' = {}), fd \in MsqFds PROVE fd \in OpenFds'
    BY <2>1 DEF SlotsByFd, OpenFds
  <2> QED
    BY <1>3, <1>8, <1>12, <2>1
<1>14. loop'.op \in {"partial", "opening"} /\ context' = "up"
  BY <1>9, <1>13 DEF Added
<1>15. ObjectsBacked' /\ SlotsHeld' /\ TermClean' /\ ~ Explicit'
  BY <1>1, <1>2, <1>14, DuringLoop
<1>16. LoopProgress'
  <2>1. CASE loop' = [op |-> "partial", at |-> 0]
    BY <1>11, <1>14, <1>15, <2>1 DEF LoopProgress, Loops
  <2>2. CASE /\ loop' \in [op : {"opening"}, at : Nat] /\ loop'.at = i + 1
             /\ fd \in MsqFds => fd \in OpenFds'
    <3>1. loop'.op = "opening" /\ loop' \in Loops
      BY <2>2 DEF Loops
    <3>2. ASSUME NEW j \in 1 .. (i + 1) - 1, DbRecords[j].fd \in MsqFds
          PROVE  DbRecords[j].fd \in OpenFds'
      <4>1. j = i \/ j \in 1 .. i - 1
        OBVIOUS
      <4> QED
        BY <1>4, <1>5, <1>10, <2>2, <3>2, <4>1
    <3>3. i + 1 >= 1
      OBVIOUS
    <3> QED
      BY <1>11, <1>14, <1>15, <2>2, <3>1, <3>2, <3>3 DEF LoopProgress
  <2> QED
    BY <1>13, <2>1, <2>2
<1> QED
  BY <1>1, <1>2, <1>9, <1>15, <1>16 DEF HandlesInv

LEMMA EndOpenAllPreserves ==
  ASSUME HandlesInv, EndOpenAll
  PROVE  HandlesInv'
<1>1. /\ loop.op = "opening" /\ loop.at > Len(DbRecords)
      /\ loop' = [op |-> "opened", at |-> 0]
      /\ UNCHANGED vars /\ UNCHANGED held /\ UNCHANGED twice
  BY DEF EndOpenAll
<1>2. context = "up" /\ context' = "up" /\ ~ Explicit /\ loop.at \in Nat /\ ~ twice
  BY <1>1, LoopRuns DEF vars
<1>3. IInv' /\ OpenFds' = OpenFds
  BY <1>1, PoolStutter DEF HandlesInv, OpenFds, vars, Live, Indexes
<1>4. ObjectsBacked' /\ SlotsHeld' /\ TermClean' /\ ~ Explicit'
  BY <1>1, <1>2, DuringLoop
<1>5. OpenFds \subseteq MsqFds
  BY <1>1 DEF HandlesInv, LoopProgress
<1>6. ASSUME NEW fd \in MsqFds PROVE fd \in OpenFds
  <2>1. PICK i \in DOMAIN DbRecords : fd = DbRecords[i].fd
    BY MsqAssumption DEF Fds
  <2>2. i \in 1 .. loop.at - 1
    <3>1. DOMAIN DbRecords = 1 .. Len(DbRecords) /\ Len(DbRecords) \in Nat
      BY DbTypeAssumption
    <3> QED
      BY <1>1, <1>2, <3>1
  <2> QED
    BY <1>1, <2>1, <2>2 DEF HandlesInv, LoopProgress
<1>7. LoopProgress'
  BY <1>1, <1>2, <1>3, <1>4, <1>5, <1>6 DEF LoopProgress, Loops
<1> QED
  BY <1>1, <1>2, <1>3, <1>4, <1>7 DEF HandlesInv

LEMMA StartCloseAllPreserves ==
  ASSUME HandlesInv, StartCloseAll
  PROVE  HandlesInv'
<1>1. /\ loop.op \in {"opened", "partial"}
      /\ loop' = [op |-> "closing", at |-> 0]
      /\ UNCHANGED vars /\ UNCHANGED held /\ UNCHANGED twice
  BY DEF StartCloseAll
<1>2. context = "up" /\ context' = "up" /\ ~ Explicit /\ ~ twice
  BY <1>1, LoopRuns DEF vars
<1>3. IInv'
  BY <1>1, PoolStutter DEF HandlesInv
<1>4. ObjectsBacked' /\ SlotsHeld' /\ TermClean' /\ ~ Explicit'
  BY <1>1, <1>2, DuringLoop
<1>5. \A k \in Live' : k >= 0
  <2>1. \A k \in Live : k >= 0
    BY DEF Live, Indexes, HandlesInv, IInv, TypeOK
  <2> QED
    BY <1>1, <2>1 DEF vars, Live, Indexes
<1>6. LoopProgress'
  BY <1>1, <1>2, <1>4, <1>5 DEF LoopProgress, Loops
<1> QED
  BY <1>1, <1>2, <1>3, <1>4, <1>6 DEF HandlesInv

LEMMA CloseAllStepPreserves ==
  ASSUME HandlesInv, CloseAllStep
  PROVE  HandlesInv'
<1>1. loop.op = "closing" /\ loop.at < count_max /\ UNCHANGED held
  BY DEF CloseAllStep
<1>2. context = "up" /\ ~ Explicit /\ loop.at \in Nat /\ ~ twice
  BY <1>1, LoopRuns
<1>3. PICK i \in Nat : i = loop.at
  BY <1>2
<1>4. \A k \in Live : k >= i /\ k \in Int
  BY <1>1, <1>3 DEF HandlesInv, LoopProgress, Live, Indexes, IInv, TypeOK
<1>5. IInv' /\ ~ twice' /\ context' = "up" /\ (\A k \in Live' : k \in Live /\ k # i)
      /\ loop' = [loop EXCEPT !.at = @ + 1]
  <2>1. CASE i \in Live
    <3>1. PICK k \in SlotsByFd(sockf_array[i].fs_fd) : CloseSlot(k)
      BY <1>3, <2>1 DEF CloseAllStep
    <3>2. k = i
      BY <2>1, <3>1, OneSlot DEF SlotsByFd, HandlesInv
    <3>3. Freed(i) /\ ~ twice'
      BY <1>2, <2>1, <3>1, <3>2, CloseSlotFacts DEF HandlesInv
    <3>4. IInv'
      BY <2>1, <3>3, FreePreserves DEF HandlesInv
    <3>5. Found(sockf_array[i].fs_fd)
      BY <2>1 DEF Found, Live
    <3> QED
      BY <1>3, <3>3, <3>4, <3>5 DEF Freed, CloseAllStep
  <2>2. CASE i \notin Live
    <3>1. UNCHANGED vars /\ UNCHANGED twice /\ loop' = [loop EXCEPT !.at = @ + 1]
      BY <1>3, <2>2 DEF CloseAllStep
    <3>2. Live' = Live /\ context' = context
      BY <3>1 DEF vars, Live, Indexes
    <3> QED
      BY <1>2, <2>2, <3>1, <3>2, PoolStutter DEF HandlesInv
  <2> QED
    BY <2>1, <2>2
<1>6. loop \in [op : {"closing"}, at : Nat]
  BY <1>1 DEF HandlesInv, LoopProgress, Loops
<1>7. loop' \in [op : {"closing"}, at : Nat] /\ loop'.at = i + 1 /\ loop'.op = "closing"
  BY <1>3, <1>5, <1>6
<1>8. ObjectsBacked' /\ SlotsHeld' /\ TermClean' /\ ~ Explicit'
  BY <1>1, <1>2, <1>5, <1>7, DuringLoop
<1>9. \A k \in Live' : k >= i + 1
  BY <1>4, <1>5
<1>10. LoopProgress'
  BY <1>5, <1>7, <1>8, <1>9 DEF LoopProgress, Loops
<1> QED
  BY <1>5, <1>8, <1>10 DEF HandlesInv

LEMMA EndCloseAllPreserves ==
  ASSUME HandlesInv, EndCloseAll
  PROVE  HandlesInv'
<1>1. /\ loop.op = "closing" /\ loop.at >= count_max
      /\ loop' = Idle
      /\ UNCHANGED vars /\ UNCHANGED held /\ UNCHANGED twice
  BY DEF EndCloseAll
<1>2. context = "up" /\ context' = "up" /\ ~ Explicit /\ loop.at \in Nat /\ ~ twice
  BY <1>1, LoopRuns DEF vars
<1>3. Live = {}
  <2>1. SUFFICES ASSUME NEW k \in Live PROVE FALSE
    OBVIOUS
  <2>2. k >= loop.at
    BY <1>1 DEF HandlesInv, LoopProgress
  <2>3. k \in 0 .. count_max - 1 /\ count_max \in Nat
    BY <1>2 DEF Live, Indexes, HandlesInv, IInv, TypeOK
  <2> QED
    BY <1>1, <1>2, <2>2, <2>3
<1>4. Live' = {}
  BY <1>1, <1>3 DEF vars, Live, Indexes
<1>5. IInv'
  BY <1>1, PoolStutter DEF HandlesInv
<1>6. ObjectsBacked' /\ ~ Explicit'
  BY <1>1, <1>2, NobodyHolds
<1>7. SlotsHeld' /\ TermClean'
  BY <1>2, <1>4 DEF SlotsHeld, TermClean
<1>8. LoopProgress'
  BY <1>1 DEF LoopProgress, Loops, Idle
<1> QED
  BY <1>1, <1>2, <1>5, <1>6, <1>7, <1>8 DEF HandlesInv

\* zmq_term finds every socket closed.
LEMMA TermPreservesAll ==
  ASSUME HandlesInv, Term
  PROVE  HandlesInv'
<1>1. /\ ~ twice' /\ ~ Explicit /\ loop = Idle /\ loop' = Idle /\ UNCHANGED held
      /\ ZeromqTerm
  BY DEF Term, HandlesInv
<1>2. opened = {}
  BY <1>1, NothingOpen
<1>3. context' = "destroyed" /\ opened' = {} /\ Live' = {}
  BY <1>1, <1>2 DEF ZeromqTerm, Live, Indexes
<1>4. IInv'
  BY <1>1, TermPreserves DEF HandlesInv
<1>5. ObjectsBacked' /\ ~ Explicit'
  BY <1>1, NobodyHolds
<1>6. SlotsHeld' /\ TermClean'
  BY <1>3, <1>5 DEF SlotsHeld, TermClean
<1>7. LoopProgress'
  BY <1>1 DEF LoopProgress, Loops, Idle
<1> QED
  BY <1>1, <1>4, <1>5, <1>6, <1>7 DEF HandlesInv

\* No step.
LEMMA HandlesStutter ==
  ASSUME HandlesInv, UNCHANGED handlesVars
  PROVE  HandlesInv'
<1>1. UNCHANGED vars /\ UNCHANGED held /\ UNCHANGED loop /\ UNCHANGED twice
  BY DEF handlesVars, vars
<1>2. IInv'
  BY <1>1, PoolStutter DEF HandlesInv
<1>3. UNCHANGED <<Live, OpenFds, Explicit, context, opened, sockf_array>>
  BY <1>1 DEF vars, Live, Indexes, OpenFds, Explicit
<1>4. ObjectsBacked'
  BY <1>1, <1>3 DEF HandlesInv, ObjectsBacked, Backs
<1>5. SlotsHeld'
  BY <1>1, <1>3 DEF HandlesInv, SlotsHeld, Holders
<1>6. LoopProgress' /\ TermClean'
  BY <1>1, <1>3 DEF HandlesInv, LoopProgress, TermClean
<1> QED
  BY <1>1, <1>2, <1>4, <1>5, <1>6 DEF HandlesInv

-----------------------------------------------------------------------------
\* Whatever the callers open and close, one by one or all, they and the pool agree.
THEOREM HandlesInvariance == HandlesSpec => []HandlesInv
<1>1. HandlesInit => HandlesInv
  <2> SUFFICES ASSUME HandlesInit PROVE HandlesInv
    OBVIOUS
  <2>1. IInv /\ Live = {} /\ context = "up"
    BY InitHolds DEF HandlesInit, Init, Live, Indexes
  <2>2. held \in [Callers -> Objects \cup {Null}] /\ \A o \in Callers : held[o] = Null
    BY DEF HandlesInit
  <2>3. ObjectsBacked
    BY <2>2 DEF ObjectsBacked
  <2>4. LoopProgress
    BY DEF HandlesInit, LoopProgress, Loops, Idle
  <2> QED
    BY <2>1, <2>3, <2>4 DEF HandlesInit, HandlesInv, SlotsHeld, TermClean
<1>2. HandlesInv /\ [HandlesNext]_handlesVars => HandlesInv'
  <2> SUFFICES ASSUME HandlesInv, [HandlesNext]_handlesVars PROVE HandlesInv'
    OBVIOUS
  <2>1. ASSUME NEW o \in Callers, Close(o) PROVE HandlesInv'
    BY <2>1, ClosePreservesObjects
  <2>2. ASSUME NEW o \in Callers, NEW fd \in Fds, OpenObject(o, fd) PROVE HandlesInv'
    <3>1. /\ Up /\ loop = Idle /\ UNCHANGED <<loop, twice>>
          /\ \/ held[o] = Null /\ Holders(fd) = {}
             \/ o \in Holders(fd)
      BY <2>2 DEF OpenObject
    <3>2. CASE ReturnSlot(o, fd)
      BY <3>1, <3>2, ReturnSlotPreserves
    <3>3. CASE ReturnCopy(o, fd)
      BY <3>1, <3>3, ReturnCopyPreserves
    <3> QED
      BY <2>2, <3>2, <3>3 DEF OpenObject
  <2>3. CASE StartOpenAll \/ OpenAllStep \/ EndOpenAll
    BY <2>3, StartOpenAllPreserves, OpenAllStepPreserves, EndOpenAllPreserves
  <2>4. CASE StartCloseAll \/ CloseAllStep \/ EndCloseAll
    BY <2>4, StartCloseAllPreserves, CloseAllStepPreserves, EndCloseAllPreserves
  <2>5. CASE Term
    BY <2>5, TermPreservesAll
  <2>6. CASE UNCHANGED handlesVars
    BY <2>6, HandlesStutter
  <2> QED
    BY <2>1, <2>2, <2>3, <2>4, <2>5, <2>6 DEF HandlesNext
<1> QED
  BY <1>1, <1>2, PTL DEF HandlesSpec

\* What every caller holds can be used, whatever the others close: no socket is closed
\* twice, and the object has the live slot of its descriptor with an open socket.
THEOREM HeldSafe == HandlesSpec => []HeldIsUsable
<1>1. HandlesInv => HeldIsUsable
  <2> SUFFICES ASSUME HandlesInv, NEW o \in Callers, held[o] # Null
               PROVE  \E k \in SlotsByFd(held[o].fs_fd) :
                        /\ sockf_array[k].netw_socket \in opened
                        /\ held[o].kind = "copy" => held[o].netw_socket = sockf_array[k].netw_socket
                        /\ held[o].kind = "slot" => held[o].index = k
    BY DEF HandlesInv, HeldIsUsable
  <2>1. PICK k \in Live : Backs(k, held[o])
    BY DEF HandlesInv, ObjectsBacked
  <2>2. context = "up"
    BY <2>1 DEF Live, Indexes
  <2>3. sockf_array[k].netw_socket \in opened
    BY <2>1, <2>2, LastUseFacts DEF HandlesInv
  <2> QED
    BY <2>1, <2>3 DEF Backs, SlotsByFd
<1> QED
  BY <1>1, HandlesInvariance, PTL

\* open_all_comm_files opens all message queue files and no other, close_all_comm_files
\* leaves nothing open, and zeromq_term returns.
THEOREM AllOpenSafe == HandlesSpec => []AllOpenAllClosed
<1>1. HandlesInv => AllOpenAllClosed
  <2> SUFFICES ASSUME HandlesInv PROVE AllOpenAllClosed
    OBVIOUS
  <2>1. loop.op = "opened" => OpenFds = MsqFds
    BY DEF HandlesInv, LoopProgress
  <2>2. loop.op # "failed" /\ context # "blocked"
    BY DEF HandlesInv, LoopProgress, TermClean
  <2>3. loop = Idle /\ ~ Explicit => opened = {} /\ Live = {}
    BY NothingOpen
  <2> QED
    BY <2>1, <2>2, <2>3 DEF AllOpenAllClosed, OpenFds
<1> QED
  BY <1>1, HandlesInvariance, PTL

\* Callers that close their copies, and the two loops, keep the pool as right as the file
\* system does: the first cell with a descriptor is the live one, the open sockets are
\* those of the live slots, and two slots share one exactly when they are duals.
THEOREM PoolSafe == HandlesSpec => [](TypeOK /\ StaleBehindLive /\ SocketsMatchSlots /\ DualSharing)
<1>1. HandlesInv => TypeOK /\ StaleBehindLive /\ SocketsMatchSlots /\ DualSharing
  BY DEF HandlesInv, IInv
<1> QED
  BY <1>1, HandlesInvariance, PTL

\* A close of a slot, in any of these ways, leaves every other open file as it was.
THEOREM ReleaseExactOfCallers == HandlesSpec => ReleaseIsExact
<1>1. HandlesInv => IInv
  BY DEF HandlesInv
<1>2. IInv =>
        [\A k \in Live : CloseSockf(k) =>
           /\ \A j \in Live' : sockf_array'[j].fs_fd # sockf_array[k].fs_fd
           /\ \A j \in Live \ {k} : sockf_array'[j] = sockf_array[j]]_vars
  BY ReleaseFacts
<1> QED
  BY <1>1, <1>2, HandlesInvariance, PTL DEF ReleaseIsExact

-----------------------------------------------------------------------------
(* The table of paths, FsTable. *)

Entries == [path : Seq(STRING), fd : Int, mode : {"r", "w", "dir"}]

Tables == [array : Seq(Entries), maxcount : Nat]

\* No entry is behind the array.
Fits(t) == Len(t.array) <= t.maxcount

\* The entries of t are the first ones of u.
Extends(t, u) ==
  /\ Len(t.array) <= Len(u.array)
  /\ \A k \in 1 .. Len(t.array) : u.array[k] = t.array[k]

LEMMA TableTypes ==
  ASSUME NEW t \in Tables
  PROVE  /\ t.array \in Seq(Entries) /\ Len(t.array) \in Nat /\ t.maxcount \in Nat
         /\ DOMAIN t.array = 1 .. Len(t.array)
         /\ \A k \in 1 .. Len(t.array) : t.array[k] \in Entries
BY DEF Tables

\* Adding an entry.
LEMMA AddFacts ==
  ASSUME NEW t \in Tables, NEW e \in Entries, NEW granularity \in Nat \ {0}
  PROVE  LET u == Add(t, e, granularity) IN
         /\ u \in Tables
         /\ Len(u.array) = Len(t.array) + 1
         /\ \A k \in 1 .. Len(t.array) : u.array[k] = t.array[k]
         /\ u.array[Len(t.array) + 1] = e
         /\ Fits(t) => Fits(u)
<1>1. PICK a \in Seq(Entries) : a = t.array
  BY TableTypes
<1>2. PICK b : b = Append(a, e)
  OBVIOUS
<1>3. /\ b \in Seq(Entries) /\ Len(b) = Len(a) + 1
      /\ \A k \in 1 .. Len(a) : b[k] = a[k]
      /\ b[Len(a) + 1] = e
  BY <1>2, AppendProperties
<1>4. PICK m \in Nat : m = t.maxcount
  BY TableTypes
<1>5. PICK n \in Nat : n = Len(a)
  OBVIOUS
<1>6. PICK u : u = Add(t, e, granularity)
  OBVIOUS
<1>7. u = [array |-> b, maxcount |-> IF m <= n THEN m + granularity ELSE m]
  BY <1>1, <1>2, <1>4, <1>5, <1>6 DEF Add
<1>8. PICK l \in Nat : l = IF m <= n THEN m + granularity ELSE m
  OBVIOUS
<1>9. u \in Tables /\ u.array = b /\ u.maxcount = l
  BY <1>3, <1>7, <1>8 DEF Tables
<1>10. n <= m => n + 1 <= l
  BY <1>8
<1>11. Fits(t) => Fits(u)
  BY <1>1, <1>3, <1>4, <1>5, <1>9, <1>10 DEF Fits
<1> QED
  BY <1>1, <1>3, <1>6, <1>9, <1>11

-----------------------------------------------------------------------------
(* The directories above a path. *)

\* The separators of the first n names of a path, and the length of the directory
\* above them.
Slashes(path, n) == {i \in 1 .. n : path[i] = "/"}

DirLen(path, n) ==
  IF Max(Slashes(path, n)) = 1 /\ n > 1 THEN 1 ELSE Max(Slashes(path, n)) - 1

IsLens(g, path, m) ==
  /\ DOMAIN g = 0 .. m
  /\ \A n \in 0 .. m :
       g[n] = IF Slashes(path, n) = {} THEN <<>>
              ELSE Append(g[DirLen(path, n)], DirLen(path, n))

\* The directory is above.
LEMMA DirLenLess ==
  ASSUME NEW path, NEW n \in Nat, Slashes(path, n) # {}
  PROVE  DirLen(path, n) \in 0 .. n - 1
<1>1. PICK S \in SUBSET (1 .. n) : S = Slashes(path, n)
  BY DEF Slashes
<1>2. PICK x \in 1 .. n : x = Max(S)
  BY <1>1, HighestPlace
<1> QED
  BY <1>1, <1>2 DEF DirLen

LEMMA LensExist ==
  ASSUME NEW path
  PROVE  \A m \in Nat : \E g : IsLens(g, path, m)
<1> DEFINE N == {m \in Nat : \E g : IsLens(g, path, m)}
<1>1. 0 \in N
  <2>1. PICK g : g = [n \in 0 .. 0 |-> <<>>]
    OBVIOUS
  <2>2. \A n \in 0 .. 0 : Slashes(path, n) = {}
    BY DEF Slashes
  <2>3. IsLens(g, path, 0)
    BY <2>1, <2>2 DEF IsLens
  <2> QED
    BY <2>3
<1>2. ASSUME NEW m \in Nat, m \in N PROVE m + 1 \in N
  <2>1. PICK g : IsLens(g, path, m)
    BY <1>2
  <2>2. PICK h : h = [n \in 0 .. m + 1 |->
                        IF n \in 0 .. m THEN g[n]
                        ELSE IF Slashes(path, n) = {} THEN <<>>
                        ELSE Append(g[DirLen(path, n)], DirLen(path, n))]
    OBVIOUS
  <2>3. \A n \in 0 .. m : h[n] = g[n]
    BY <2>2
  <2>4. ASSUME NEW n \in 0 .. m + 1
        PROVE  h[n] = IF Slashes(path, n) = {} THEN <<>>
                      ELSE Append(h[DirLen(path, n)], DirLen(path, n))
    <3>1. h[n] = IF Slashes(path, n) = {} THEN <<>>
                 ELSE Append(g[DirLen(path, n)], DirLen(path, n))
      <4>1. CASE n \in 0 .. m
        BY <2>1, <2>3, <4>1 DEF IsLens
      <4>2. CASE n \notin 0 .. m
        BY <2>2, <4>2
      <4> QED
        BY <4>1, <4>2
    <3>2. CASE Slashes(path, n) = {}
      BY <3>1, <3>2
    <3>3. CASE Slashes(path, n) # {}
      <4>1. DirLen(path, n) \in 0 .. n - 1
        BY <3>3, DirLenLess
      <4>2. DirLen(path, n) \in 0 .. m
        BY <4>1
      <4> QED
        BY <2>3, <3>1, <3>3, <4>2
    <3> QED
      BY <3>2, <3>3
  <2>5. DOMAIN h = 0 .. m + 1 /\ m + 1 \in Nat
    BY <2>2
  <2>6. IsLens(h, path, m + 1)
    BY <2>4, <2>5 DEF IsLens
  <2> QED
    BY <2>5, <2>6
<1> HIDE DEF N
<1>3. \A m \in Nat : m \in N
  BY <1>1, <1>2, NumberInduction
<1> QED
  BY <1>3 DEF N

LEMMA SubDirLensIs ==
  ASSUME NEW path \in Seq(STRING)
  PROVE  \E g : IsLens(g, path, Len(path)) /\ SubDirLens(path) = g[Len(path)]
<1> DEFINE len == Len(path)
           def(i) == [n \in 0 .. len |->
             IF {j \in 1 .. n : path[j] = "/"} = {} THEN <<>>
             ELSE Append(i[IF Max({j \in 1 .. n : path[j] = "/"}) = 1 /\ n > 1 THEN 1
                           ELSE Max({j \in 1 .. n : path[j] = "/"}) - 1],
                         IF Max({j \in 1 .. n : path[j] = "/"}) = 1 /\ n > 1 THEN 1
                         ELSE Max({j \in 1 .. n : path[j] = "/"}) - 1)]
           lens == CHOOSE i : i = def(i)
<1>1. SubDirLens(path) = lens[len]
  BY Zenon DEF SubDirLens
<1>2. len \in Nat
  OBVIOUS
<1>3. ASSUME NEW i
      PROVE  /\ DOMAIN def(i) = 0 .. len
             /\ \A n \in 0 .. len :
                  def(i)[n] = IF Slashes(path, n) = {} THEN <<>>
                              ELSE Append(i[DirLen(path, n)], DirLen(path, n))
  BY Zenon DEF Slashes, DirLen
<1>4. \E i : i = def(i)
  <2>1. PICK g : IsLens(g, path, len)
    BY <1>2, LensExist
  <2>2. PICK r : r = [n \in 0 .. len |-> g[n]]
    OBVIOUS
  <2>3. DOMAIN r = 0 .. len /\ \A n \in 0 .. len : r[n] = g[n]
    BY <2>2
  <2>4. ASSUME NEW n \in 0 .. len PROVE r[n] = def(r)[n]
    <3>1. g[n] = IF Slashes(path, n) = {} THEN <<>>
                 ELSE Append(g[DirLen(path, n)], DirLen(path, n))
      BY <2>1 DEF IsLens
    <3>2. def(r)[n] = IF Slashes(path, n) = {} THEN <<>>
                      ELSE Append(r[DirLen(path, n)], DirLen(path, n))
      BY <1>3
    <3>3. CASE Slashes(path, n) = {}
      <4> HIDE DEF def, len
      <4> QED
        BY <2>3, <3>1, <3>2, <3>3
    <3>4. CASE Slashes(path, n) # {}
      <4>1. DirLen(path, n) \in 0 .. n - 1
        BY <3>4, DirLenLess
      <4>2. DirLen(path, n) \in 0 .. len
        BY <1>2, <4>1
      <4> HIDE DEF def, len
      <4> QED
        BY <2>3, <3>1, <3>2, <3>4, <4>2
    <3> QED
      BY <3>3, <3>4
  <2>5. r = [n \in 0 .. len |-> r[n]]
    BY <2>2
  <2>6. def(r) = [n \in 0 .. len |-> def(r)[n]]
    OBVIOUS
  <2>7. r = def(r)
    <3> HIDE DEF def
    <3> QED
      BY <2>4, <2>5, <2>6
  <2> QED
    BY <2>7
<1>5. lens = def(lens)
  <2> HIDE DEF def
  <2> QED
    BY <1>4
<1>6. IsLens(lens, path, len)
  <2> HIDE DEF def, lens
  <2> QED
    BY <1>3, <1>5 DEF IsLens
<1> HIDE DEF lens
<1> QED
  BY <1>1, <1>6

\* The lengths in g[n] are of directories above the first n names, outermost first, and
\* those before one of them are the lengths of the directories above it.
Nested(g, n) ==
  /\ g[n] \in Seq(Nat)
  /\ \A i \in 1 .. Len(g[n]) :
       /\ g[n][i] \in 0 .. n - 1
       /\ Len(g[g[n][i]]) = i - 1
       /\ \A h \in 1 .. i - 1 : g[g[n][i]][h] = g[n][h] /\ g[n][h] < g[n][i]

LEMMA LensNested ==
  ASSUME NEW path, NEW m \in Nat, NEW g, IsLens(g, path, m)
  PROVE  \A n \in 0 .. m : Nested(g, n)
<1> DEFINE T == {n \in 0 .. m : ~ Nested(g, n)}
<1>1. SUFFICES ASSUME T # {} PROVE FALSE
  OBVIOUS
<1>2. PICK n \in T : \A x \in T : n <= x
  <2>1. T \in SUBSET Nat
    OBVIOUS
  <2> QED
    BY <1>1, <2>1, LeastNumber
<1>3. n \in 0 .. m /\ ~ Nested(g, n)
  OBVIOUS
<1>4. CASE Slashes(path, n) = {}
  <2>1. g[n] = <<>>
    BY <1>3, <1>4 DEF IsLens
  <2>2. <<>> \in Seq(Nat) /\ Len(<<>>) = 0
    OBVIOUS
  <2> QED
    BY <1>3, <2>1, <2>2 DEF Nested
<1>5. CASE Slashes(path, n) # {}
  <2>1. PICK d \in 0 .. n - 1 : d = DirLen(path, n)
    BY <1>3, <1>5, DirLenLess
  <2>2. d \in 0 .. m /\ ~ (n <= d)
    BY <1>3
  <2>3. Nested(g, d)
    BY <1>2, <2>2
  <2>4. PICK s \in Seq(Nat) : s = g[d]
    BY <2>3 DEF Nested
  <2>5. PICK t : t = Append(s, d)
    OBVIOUS
  <2>6. g[n] = t
    BY <1>3, <1>5, <2>1, <2>4, <2>5 DEF IsLens
  <2>7. /\ t \in Seq(Nat) /\ Len(t) = Len(s) + 1 /\ Len(s) \in Nat
        /\ \A i \in 1 .. Len(s) : t[i] = s[i]
        /\ t[Len(s) + 1] = d
    BY <2>5, AppendProperties
  <2>8. PICK l \in Nat : l = Len(s)
    OBVIOUS
  <2>9. ASSUME NEW i \in 1 .. l
        PROVE  /\ s[i] \in 0 .. d - 1
               /\ Len(g[s[i]]) = i - 1
               /\ \A h \in 1 .. i - 1 : g[s[i]][h] = s[h] /\ s[h] < s[i]
    BY <2>3, <2>4, <2>8 DEF Nested
  <2>10. ASSUME NEW i \in 1 .. l + 1
         PROVE  /\ t[i] \in 0 .. n - 1
                /\ Len(g[t[i]]) = i - 1
                /\ \A h \in 1 .. i - 1 : g[t[i]][h] = t[h] /\ t[h] < t[i]
    <3>1. CASE i \in 1 .. l
      <4>1. t[i] = s[i] /\ \A h \in 1 .. i - 1 : h \in 1 .. l /\ t[h] = s[h]
        BY <2>7, <2>8, <3>1
      <4>2. s[i] \in 0 .. d - 1
        BY <2>9, <3>1
      <4>3. s[i] \in 0 .. n - 1
        BY <1>3, <4>2
      <4> QED
        BY <2>9, <3>1, <4>1, <4>3
    <3>2. CASE i = l + 1
      <4>1. t[i] = d /\ i - 1 = l
        BY <2>7, <2>8, <3>2
      <4>2. \A h \in 1 .. l : t[h] = s[h] /\ s[h] \in 0 .. d - 1
        BY <2>7, <2>8, <2>9
      <4>3. \A h \in 1 .. l : t[h] < d
        BY <4>2
      <4> QED
        BY <2>4, <2>8, <4>1, <4>2, <4>3
    <3> QED
      BY <3>1, <3>2
  <2>11. Len(t) = l + 1
    BY <2>7, <2>8
  <2>12. Nested(g, n)
    BY <2>6, <2>7, <2>10, <2>11 DEF Nested
  <2> QED
    BY <1>3, <2>12
<1> QED
  BY <1>4, <1>5

\* The lengths depend on the names before only.
LEMMA LensAgree ==
  ASSUME NEW path, NEW m \in Nat, NEW g, IsLens(g, path, m),
         NEW q, NEW l \in 0 .. m, NEW h, IsLens(h, q, l),
         \A i \in 1 .. l : q[i] = path[i]
  PROVE  \A n \in 0 .. l : h[n] = g[n]
<1> DEFINE T == {n \in 0 .. l : h[n] # g[n]}
<1>1. SUFFICES ASSUME T # {} PROVE FALSE
  OBVIOUS
<1>2. PICK n \in T : \A x \in T : n <= x
  <2>1. T \in SUBSET Nat
    OBVIOUS
  <2> QED
    BY <1>1, <2>1, LeastNumber
<1>3. n \in 0 .. l /\ n \in 0 .. m /\ h[n] # g[n]
  OBVIOUS
<1>4. Slashes(q, n) = Slashes(path, n)
  <2>1. \A i \in 1 .. n : i \in 1 .. l
    BY <1>3
  <2> QED
    BY <2>1 DEF Slashes
<1>5. DirLen(q, n) = DirLen(path, n)
  BY <1>4 DEF DirLen
<1>6. PICK d : d = DirLen(path, n)
  OBVIOUS
<1>7. CASE Slashes(path, n) = {}
  BY <1>3, <1>4, <1>7 DEF IsLens
<1>8. CASE Slashes(path, n) # {}
  <2>1. d \in 0 .. n - 1
    BY <1>3, <1>6, <1>8, DirLenLess
  <2>2. d \in 0 .. l /\ ~ (n <= d)
    BY <1>3, <2>1
  <2>3. h[d] = g[d]
    BY <1>2, <2>2
  <2>4. h[n] = Append(h[d], d) /\ g[n] = Append(g[d], d)
    BY <1>3, <1>4, <1>5, <1>6, <1>8 DEF IsLens
  <2> QED
    BY <1>3, <2>3, <2>4
<1> QED
  BY <1>7, <1>8

\* The directories above a path come from the outermost on; those above one of them are
\* those before it.
OuterFirst(path, lens) ==
  /\ lens \in Seq(Nat)
  /\ \A i \in 1 .. Len(lens) :
       /\ lens[i] \in 0 .. Len(path) - 1
       /\ \A h \in 1 .. i - 1 : lens[h] < lens[i]
       /\ LET above == SubDirLens(SubSeq(path, 1, lens[i])) IN
          /\ above \in Seq(Nat)
          /\ Len(above) = i - 1
          /\ \A h \in 1 .. i - 1 : above[h] = lens[h]

\* So process_subdirs_via_callback passes them.
LEMMA SubDirFacts ==
  ASSUME NEW path \in Seq(STRING)
  PROVE  OuterFirst(path, SubDirLens(path))
<1>1. PICK m \in Nat : m = Len(path)
  OBVIOUS
<1>2. PICK g : IsLens(g, path, m) /\ SubDirLens(path) = g[m]
  BY <1>1, SubDirLensIs
<1>3. \A n \in 0 .. m : Nested(g, n)
  BY <1>2, LensNested
<1>4. PICK s : s = g[m]
  OBVIOUS
<1>5. /\ s \in Seq(Nat)
      /\ \A i \in 1 .. Len(s) :
           /\ s[i] \in 0 .. m - 1
           /\ Len(g[s[i]]) = i - 1
           /\ \A h \in 1 .. i - 1 : g[s[i]][h] = s[h] /\ s[h] < s[i]
  <2>1. m \in 0 .. m
    OBVIOUS
  <2> QED
    BY <1>3, <1>4, <2>1 DEF Nested
<1>6. ASSUME NEW i \in 1 .. Len(s)
      PROVE  LET above == SubDirLens(SubSeq(path, 1, s[i])) IN
             /\ above \in Seq(Nat)
             /\ Len(above) = i - 1
             /\ \A h \in 1 .. i - 1 : above[h] = s[h]
  <2>1. PICK l \in 0 .. m : l = s[i]
    BY <1>5
  <2>2. PICK q : q = SubSeq(path, 1, l)
    OBVIOUS
  <2>3. q \in Seq(STRING) /\ Len(q) = l /\ \A k \in 1 .. l : q[k] = path[k]
    BY <1>1, <2>2
  <2>4. PICK h : IsLens(h, q, l) /\ SubDirLens(q) = h[l]
    BY <2>3, SubDirLensIs
  <2>5. l \in 0 .. l
    OBVIOUS
  <2>6. h[l] = g[l]
    BY <1>2, <2>3, <2>4, <2>5, LensAgree
  <2>7. g[l] \in Seq(Nat)
    BY <1>3 DEF Nested
  <2> QED
    BY <1>5, <2>1, <2>2, <2>4, <2>6, <2>7
<1>7. OuterFirst(path, s)
  BY <1>1, <1>5, <1>6 DEF OuterFirst
<1> QED
  BY <1>2, <1>4, <1>7

-----------------------------------------------------------------------------
(* The directories of a path. *)

\* The first n lengths are those of the directories in dirs.
DirsAre(dirs, path, lens, n) ==
  \A p : p \in dirs <=> \E h \in 1 .. n : lens[h] # 0 /\ p = SubSeq(path, 1, lens[h])

\* The directories of a path, and those of one of them.
LEMMA DirsOfIs ==
  ASSUME NEW path \in Seq(STRING), NEW lens, lens = SubDirLens(path)
  PROVE  DirsAre(DirsOf(path), path, lens, Len(lens))
<1>1. lens \in Seq(Nat)
  BY SubDirFacts DEF OuterFirst
<1>2. DOMAIN lens = 1 .. Len(lens)
  BY <1>1
<1> QED
  BY <1>2 DEF DirsOf, ToSet, DirsAre

LEMMA DirsOfDir ==
  ASSUME NEW path \in Seq(STRING), NEW lens, lens = SubDirLens(path),
         NEW i \in 1 .. Len(lens)
  PROVE  DirsAre(DirsOf(SubSeq(path, 1, lens[i])), path, lens, i - 1)
<1>1. /\ lens \in Seq(Nat) /\ Len(lens) \in Nat
      /\ lens[i] \in 0 .. Len(path) - 1
      /\ \A h \in 1 .. i - 1 : lens[h] < lens[i]
      /\ Len(SubDirLens(SubSeq(path, 1, lens[i]))) = i - 1
      /\ \A h \in 1 .. i - 1 : SubDirLens(SubSeq(path, 1, lens[i]))[h] = lens[h]
  <2>1. OuterFirst(path, lens)
    BY SubDirFacts
  <2> QED
    BY <2>1 DEF OuterFirst
<1>2. PICK l \in Nat : l = lens[i] /\ l \in 0 .. Len(path)
  BY <1>1
<1>3. PICK q \in Seq(STRING) :
        q = SubSeq(path, 1, l) /\ \A k \in 0 .. l : SubSeq(q, 1, k) = SubSeq(path, 1, k)
  BY <1>2, BeginningFacts
<1>4. PICK above : above = SubDirLens(q)
  OBVIOUS
<1>5. Len(above) = i - 1 /\ \A h \in 1 .. i - 1 : above[h] = lens[h]
  BY <1>1, <1>2, <1>3, <1>4
<1>6. DirsAre(DirsOf(q), q, above, i - 1)
  BY <1>4, <1>5, DirsOfIs
<1>7. \A h \in 1 .. i - 1 : SubSeq(q, 1, lens[h]) = SubSeq(path, 1, lens[h])
  <2>1. ASSUME NEW h \in 1 .. i - 1 PROVE lens[h] \in 0 .. l
    <3>1. h \in 1 .. Len(lens)
      BY <1>1
    <3>2. lens[h] \in Nat /\ lens[h] < l
      BY <1>1, <1>2, <3>1
    <3> QED
      BY <3>2
  <2> QED
    BY <1>3, <2>1
<1>8. DirsAre(DirsOf(q), path, lens, i - 1)
  <2>1. ASSUME NEW h \in 1 .. i - 1
        PROVE  above[h] = lens[h] /\ SubSeq(q, 1, above[h]) = SubSeq(path, 1, lens[h])
    BY <1>5, <1>7
  <2>2. ASSUME NEW x
        PROVE  x \in DirsOf(q) <=>
                 \E h \in 1 .. i - 1 : above[h] # 0 /\ x = SubSeq(q, 1, above[h])
    BY <1>6 DEF DirsAre
  <2>3. ASSUME NEW x
        PROVE  x \in DirsOf(q) <=>
                 \E h \in 1 .. i - 1 : lens[h] # 0 /\ x = SubSeq(path, 1, lens[h])
    BY <2>1, <2>2, Zenon
  <2> QED
    BY <2>3, Zenon DEF DirsAre
<1> QED
  BY <1>2, <1>3, <1>8

\* A directory of a path is a strict beginning of it, and its own directories are the path's.
LEMMA DirAbove ==
  ASSUME NEW path \in Seq(STRING), NEW p \in DirsOf(path)
  PROVE  /\ p \in Seq(STRING) /\ p # <<>>
         /\ IsPrefix(p, path) /\ Len(p) < Len(path)
         /\ DirsOf(p) \subseteq DirsOf(path)
<1>1. PICK lens : lens = SubDirLens(path)
  OBVIOUS
<1>2. PICK i \in 1 .. Len(lens) : lens[i] # 0 /\ p = SubSeq(path, 1, lens[i])
  BY <1>1, DirsOfIs DEF DirsAre
<1>3. lens[i] \in 0 .. Len(path) - 1 /\ Len(lens) \in Nat
  BY <1>1, SubDirFacts DEF OuterFirst
<1>4. PICK l \in 0 .. Len(path) : l = lens[i] /\ l < Len(path) /\ l # 0
  BY <1>2, <1>3
<1>5. p \in Seq(STRING) /\ Len(p) = l /\ p # <<>> /\ IsPrefix(p, path)
  BY <1>2, <1>4, BeginningFacts
<1>6. ASSUME NEW x \in DirsOf(p) PROVE x \in DirsOf(path)
  <2>1. PICK h \in 1 .. i - 1 : lens[h] # 0 /\ x = SubSeq(path, 1, lens[h])
    BY <1>1, <1>2, DirsOfDir DEF DirsAre
  <2>2. h \in 1 .. Len(lens)
    BY <1>3
  <2> QED
    BY <1>1, <2>1, <2>2, DirsOfIs DEF DirsAre
<1> QED
  BY <1>4, <1>5, <1>6

\* What one record mentions: its file and the directories above.
Mentions(path) == DirsOf(path) \cup {path}

LEMMA MentionFacts ==
  ASSUME NEW path \in Seq(STRING), NEW p \in Mentions(path)
  PROVE  p \in Seq(STRING) /\ DirsOf(p) \subseteq Mentions(path)
BY DirAbove DEF Mentions

\* Of two paths that one record mentions, the shorter is a directory of the longer.
LEMMA MentionsNested ==
  ASSUME NEW path \in Seq(STRING), NEW p \in Mentions(path), NEW q \in Mentions(path),
         IsStrictPrefix(p, q)
  PROVE  p \in DirsOf(q)
<1>1. PICK lens : lens = SubDirLens(path)
  OBVIOUS
<1>2. /\ lens \in Seq(Nat) /\ Len(lens) \in Nat
      /\ \A i \in 1 .. Len(lens) :
           lens[i] \in 0 .. Len(path) - 1 /\ \A h \in 1 .. i - 1 : lens[h] < lens[i]
  <2>1. ASSUME NEW i \in 1 .. Len(lens)
        PROVE  lens[i] \in 0 .. Len(path) - 1 /\ \A h \in 1 .. i - 1 : lens[h] < lens[i]
    BY <1>1, SubDirFacts DEF OuterFirst
  <2>2. lens \in Seq(Nat)
    BY <1>1, SubDirFacts DEF OuterFirst
  <2> QED
    BY <2>1, <2>2
<1>3. p \in Seq(STRING) /\ q \in Seq(STRING)
  BY MentionFacts
<1>4. Len(p) < Len(q)
  BY <1>3, PrefixShorter DEF IsStrictPrefix
<1>5. Len(q) <= Len(path)
  BY <1>3, DirAbove DEF Mentions
<1>6. p \in DirsOf(path)
  BY <1>3, <1>4, <1>5 DEF Mentions
<1>7. CASE q = path
  BY <1>6, <1>7
<1>8. CASE q # path
  <2>1. q \in DirsOf(path)
    BY <1>8 DEF Mentions
  <2>2. PICK i \in 1 .. Len(lens) : lens[i] # 0 /\ p = SubSeq(path, 1, lens[i])
    BY <1>1, <1>6, DirsOfIs DEF DirsAre
  <2>3. PICK j \in 1 .. Len(lens) : lens[j] # 0 /\ q = SubSeq(path, 1, lens[j])
    BY <1>1, <2>1, DirsOfIs DEF DirsAre
  <2>4. Len(p) = lens[i] /\ Len(q) = lens[j]
    <3>1. lens[i] \in 0 .. Len(path) /\ lens[j] \in 0 .. Len(path)
      BY <1>2
    <3> QED
      BY <2>2, <2>3, <3>1, BeginningFacts
  <2>5. lens[i] < lens[j] /\ lens[i] \in Nat /\ lens[j] \in Nat
    BY <1>2, <1>4, <2>4
  <2>6. i < j
    <3>1. ~ (j < i)
      <4> SUFFICES ASSUME j < i PROVE FALSE
        OBVIOUS
      <4>1. j \in 1 .. i - 1
        BY <1>2
      <4>2. lens[j] < lens[i]
        BY <1>2, <4>1
      <4> QED
        BY <2>5, <4>2
    <3>2. i # j
      BY <2>5
    <3> QED
      BY <1>2, <3>1, <3>2
  <2>7. i \in 1 .. j - 1
    BY <1>2, <2>6
  <2> QED
    BY <1>1, <2>2, <2>3, <2>7, DirsOfDir DEF DirsAre
<1> QED
  BY <1>7, <1>8

-----------------------------------------------------------------------------
(* Entries and lookups. *)

\* The k-th entry is the first one that begins with the path: the one found.
FoundAt(t, path, k) ==
  /\ k \in 1 .. Len(t.array)
  /\ IsPrefix(path, t.array[k].path)
  /\ \A l \in 1 .. k - 1 : ~ IsPrefix(path, t.array[l].path)

LEMMA FoundByPath ==
  ASSUME NEW t \in Tables, NEW path, NEW k \in ByPath(t, path)
  PROVE  FoundAt(t, path, k)
<1> DEFINE match == {l \in DOMAIN t.array : IsPrefix(path, t.array[l].path)}
<1>1. PICK n \in Nat : n = Len(t.array) /\ DOMAIN t.array = 1 .. n
  BY TableTypes
<1>2. match # {} /\ k = Min(match)
  BY DEF ByPath
<1>3. match \in SUBSET Nat
  BY <1>1
<1>4. k \in match /\ \A l \in match : k <= l
  <2> HIDE DEF match
  <2> QED
    BY <1>2, <1>3, LowestPlace
<1>5. ASSUME NEW l \in 1 .. k - 1 PROVE ~ IsPrefix(path, t.array[l].path)
  <2>1. k \in 1 .. n
    BY <1>1, <1>4
  <2>2. l \in 1 .. n /\ ~ (k <= l)
    BY <2>1
  <2> QED
    BY <1>1, <1>4, <2>2
<1> QED
  BY <1>1, <1>4, <1>5 DEF FoundAt

LEMMA FoundUnique ==
  ASSUME NEW t \in Tables, NEW path, NEW j, NEW k, FoundAt(t, path, j), FoundAt(t, path, k)
  PROVE  j = k
<1>1. PICK n \in Nat : n = Len(t.array)
  BY TableTypes
<1>2. j \in 1 .. n /\ k \in 1 .. n
  BY <1>1 DEF FoundAt
<1>3. ~ (j < k) /\ ~ (k < j)
  <2>1. ASSUME j < k PROVE FALSE
    <3>1. j \in 1 .. k - 1
      BY <1>2, <2>1
    <3> QED
      BY <3>1 DEF FoundAt
  <2>2. ASSUME k < j PROVE FALSE
    <3>1. k \in 1 .. j - 1
      BY <1>2, <2>2
    <3> QED
      BY <3>1 DEF FoundAt
  <2> QED
    BY <2>1, <2>2
<1> QED
  BY <1>2, <1>3

\* One of the first l entries begins with the path.
Begun(t, l, path) == \E k \in 1 .. l : IsPrefix(path, t.array[k].path)

\* No entry before the k-th begins with its path, but for each directory above it,
\* one does.
InOrder(t, k) ==
  /\ ~ Begun(t, k - 1, t.array[k].path)
  /\ \A p \in DirsOf(t.array[k].path) : Begun(t, k - 1, p)

LEMMA BegunStays ==
  ASSUME NEW t \in Tables, NEW u \in Tables, Extends(t, u),
         NEW l \in 0 .. Len(t.array), NEW path
  PROVE  /\ Begun(u, l, path) <=> Begun(t, l, path)
         /\ Begun(t, l, path) => Begun(u, Len(u.array), path)
<1>1. PICK m \in Nat, n \in Nat : m = Len(t.array) /\ n = Len(u.array)
  BY TableTypes
<1>2. m <= n /\ \A k \in 1 .. m : u.array[k] = t.array[k]
  BY <1>1 DEF Extends
<1>3. \A k \in 1 .. l : k \in 1 .. m /\ k \in 1 .. n
  BY <1>1, <1>2
<1> QED
  BY <1>1, <1>2, <1>3 DEF Begun

LEMMA InOrderStays ==
  ASSUME NEW t \in Tables, NEW u \in Tables, Extends(t, u),
         NEW k \in 1 .. Len(t.array), InOrder(t, k)
  PROVE  InOrder(u, k)
<1>1. PICK m \in Nat : m = Len(t.array)
  BY TableTypes
<1>2. k - 1 \in 0 .. Len(t.array)
  BY <1>1
<1>3. u.array[k] = t.array[k]
  BY DEF Extends
<1>4. \A path : Begun(u, k - 1, path) <=> Begun(t, k - 1, path)
  BY <1>2, BegunStays
<1> QED
  BY <1>3, <1>4 DEF InOrder

\* What is not found, no entry begins with.
LEMMA NotFound ==
  ASSUME NEW t \in Tables, NEW path
  PROVE  ByPath(t, path) # {} <=> Begun(t, Len(t.array), path)
<1>1. DOMAIN t.array = 1 .. Len(t.array)
  BY TableTypes
<1> QED
  BY <1>1 DEF ByPath, Begun

LEMMA BegunFound ==
  ASSUME NEW t \in Tables, NEW l \in 0 .. Len(t.array), NEW path, Begun(t, l, path)
  PROVE  \E k \in 1 .. l : FoundAt(t, path, k)
<1> DEFINE M == {k \in 1 .. l : IsPrefix(path, t.array[k].path)}
<1>1. PICK n \in Nat : n = Len(t.array)
  BY TableTypes
<1>2. M # {} /\ M \in SUBSET Nat
  BY DEF Begun
<1>3. PICK k \in M : \A j \in M : k <= j
  BY <1>2, LeastNumber
<1>4. k \in 1 .. l /\ k \in 1 .. n /\ IsPrefix(path, t.array[k].path)
  BY <1>1
<1>5. \A j \in 1 .. k - 1 : j \in 1 .. l /\ ~ (k <= j)
  BY <1>4
<1>6. \A j \in 1 .. k - 1 : ~ IsPrefix(path, t.array[j].path)
  BY <1>3, <1>5
<1> QED
  BY <1>1, <1>4, <1>6 DEF FoundAt

\* u is t with, unless one began with its path, the entry e behind.
Put(t, u, e) ==
  /\ u \in Tables /\ Extends(t, u) /\ (Fits(t) => Fits(u))
  /\ Begun(u, Len(u.array), e.path)
  /\ \/ u = t
     \/ /\ Len(u.array) = Len(t.array) + 1
        /\ u.array[Len(u.array)] = e
        /\ ~ Begun(t, Len(t.array), e.path)

LEMMA AddPuts ==
  ASSUME NEW t \in Tables, NEW e \in Entries, NEW granularity \in Nat \ {0}
  PROVE  Put(t, IF ByPath(t, e.path) # {} THEN t ELSE Add(t, e, granularity), e)
<1>1. PICK n \in Nat : n = Len(t.array)
  BY TableTypes
<1>2. CASE ByPath(t, e.path) # {}
  <2>1. Begun(t, n, e.path)
    BY <1>1, <1>2, NotFound
  <2>2. Extends(t, t)
    BY <1>1 DEF Extends
  <2> QED
    BY <1>1, <1>2, <2>1, <2>2 DEF Put
<1>3. CASE ByPath(t, e.path) = {}
  <2>1. PICK u : u = Add(t, e, granularity)
    OBVIOUS
  <2>2. /\ u \in Tables
        /\ Len(u.array) = n + 1
        /\ \A k \in 1 .. n : u.array[k] = t.array[k]
        /\ u.array[n + 1] = e
        /\ Fits(t) => Fits(u)
    BY <1>1, <2>1, AddFacts
  <2>3. Extends(t, u)
    BY <1>1, <2>2 DEF Extends
  <2>4. ~ Begun(t, n, e.path)
    BY <1>1, <1>3, NotFound
  <2>7. Begun(u, n + 1, e.path)
    <3>1. IsPrefix(e.path, u.array[n + 1].path)
      BY <2>2, PrefixOfItself DEF Entries
    <3>2. n + 1 \in 1 .. n + 1
      OBVIOUS
    <3> QED
      BY <3>1, <3>2 DEF Begun
  <2> QED
    BY <1>1, <1>3, <2>1, <2>2, <2>3, <2>4, <2>7 DEF Put
<1> QED
  BY <1>2, <1>3

IsRecord(rec) == rec.fpath \in Seq(STRING) /\ rec.fd \in Int /\ rec.fmode \in {"r", "w"}

FileEntry(rec) == Entry(rec.fpath, rec.fd, rec.fmode)

DirEntry(path) == Entry(path, -1, "dir")

LEMMA AddDirPuts ==
  ASSUME NEW t \in Tables, NEW path \in Seq(STRING), path # <<>>
  PROVE  Put(t, AddDir(t, path), DirEntry(path))
<1>1. PICK e : e = DirEntry(path)
  OBVIOUS
<1>2. e \in Entries /\ e.path = path
  BY <1>1 DEF DirEntry, Entry, Entries
<1>3. AddDir(t, path) = IF ByPath(t, e.path) # {} THEN t ELSE Add(t, e, DirGranularity)
  BY <1>1, <1>2 DEF AddDir, DirEntry
<1> QED
  BY <1>1, <1>2, <1>3, AddPuts, FsGranularityAssumption

LEMMA AddFilePuts ==
  ASSUME NEW t \in Tables, NEW rec, IsRecord(rec)
  PROVE  Put(t, AddFile(t, rec), FileEntry(rec))
<1>1. PICK e : e = FileEntry(rec)
  OBVIOUS
<1>2. e \in Entries /\ e.path = rec.fpath
  BY <1>1 DEF FileEntry, Entry, Entries, IsRecord
<1>3. AddFile(t, rec) = IF ByPath(t, e.path) # {} THEN t ELSE Add(t, e, FileGranularity)
  BY <1>1, <1>2 DEF AddFile, FileEntry
<1> QED
  BY <1>1, <1>2, <1>3, AddPuts, FsGranularityAssumption

\* Only its own entry is behind.
LEMMA PutInOrder ==
  ASSUME NEW t \in Tables, NEW u, NEW e \in Entries, Put(t, u, e),
         \A p \in DirsOf(e.path) : Begun(t, Len(t.array), p),
         NEW k \in Len(t.array) + 1 .. Len(u.array)
  PROVE  u.array[k] = e /\ InOrder(u, k)
<1>1. PICK n \in Nat : n = Len(t.array)
  BY TableTypes
<1>2. u \in Tables /\ Extends(t, u)
  BY DEF Put
<1>3. /\ Len(u.array) = n + 1
      /\ u.array[n + 1] = e
      /\ ~ Begun(t, n, e.path)
  <2>1. u # t
    <3> SUFFICES ASSUME u = t PROVE FALSE
      OBVIOUS
    <3>1. k \in n + 1 .. n
      BY <1>1
    <3> QED
      BY <3>1
  <2> QED
    BY <1>1, <2>1 DEF Put
<1>4. k = n + 1 /\ k - 1 = n
  BY <1>1, <1>3
<1>5. n \in 0 .. Len(t.array)
  BY <1>1
<1>6. \A path : Begun(u, n, path) <=> Begun(t, n, path)
  BY <1>2, <1>5, BegunStays
<1> QED
  BY <1>1, <1>3, <1>4, <1>6 DEF InOrder

-----------------------------------------------------------------------------
(* Adding the directories of a path. *)

LEMMA AddDirType ==
  ASSUME NEW t \in Tables, NEW path \in Seq(STRING)
  PROVE  AddDir(t, path) \in Tables
<1>1. CASE path = <<>>
  BY <1>1 DEF AddDir
<1>2. CASE path # <<>>
  BY <1>2, AddDirPuts DEF Put
<1> QED
  BY <1>1, <1>2

\* AddSubDirs adds one after the other.
IsAdding(run, t, path, lens, n) ==
  /\ run[0] = t
  /\ \A i \in 1 .. n : run[i] = AddDir(run[i - 1], SubSeq(path, 1, lens[i]))

LEMMA SubDirsRun ==
  ASSUME NEW t \in Tables, NEW path \in Seq(STRING), NEW lens, lens = SubDirLens(path),
         NEW n \in Nat, n = Len(lens)
  PROVE  \E run \in [0 .. n -> Tables] :
           IsAdding(run, t, path, lens, n) /\ AddSubDirs(t, path) = run[n]
<1> DEFINE D == 1 .. n
           V == Tables
           c == [T \in SUBSET D |-> Max(T)]
           step == [x \in D |-> [v \in V |-> AddDir(v, SubSeq(path, 1, lens[x]))]]
           def(i) == [T \in SUBSET D |->
                        IF T = {} THEN t
                        ELSE AddDir(i[T \ {Max(T)}], SubSeq(path, 1, lens[Max(T)]))]
           iter == CHOOSE i : i = def(i)
<1>a. DOMAIN lens = D
  <2>1. lens \in Seq(Nat)
    BY SubDirFacts DEF OuterFirst
  <2> QED
    BY <2>1
<1>b. ASSUME NEW i \in 1 .. n PROVE lens[i] \in 0 .. Len(path)
  <2>1. lens[i] \in 0 .. Len(path) - 1
    BY SubDirFacts DEF OuterFirst
  <2> QED
    BY <2>1
<1>1. AddSubDirs(t, path) = iter[D]
  BY <1>a, Zenon DEF AddSubDirs, FoldLeft, MapThenFoldSet
<1>2. \A T \in SUBSET D : T # {} => Max(T) \in T
  BY HighestPlace
<1>3. \A x \in D, v \in V : AddDir(v, SubSeq(path, 1, lens[x])) \in V
  BY <1>b, FirstNames, AddDirType
<1>4. /\ \A T \in SUBSET D : c[T] = Max(T)
      /\ \A T \in SUBSET D : T # {} => c[T] \in T
      /\ \A x \in D, v \in V :
           step[x][v] \in V /\ step[x][v] = AddDir(v, SubSeq(path, 1, lens[x]))
  <2> HIDE DEF V
  <2> QED
    BY <1>2, <1>3
<1>5. IsFiniteSet(D)
  BY FirstNumbers
<1>6. Folding(D, V, t, c, step)
  <2> HIDE DEF D, V, c, step
  <2> QED
    BY <1>4, <1>5 DEF Folding, V
<1>7. PICK g \in [SUBSET D -> V] : IsFold(g, D, V, t, c, step)
  BY <1>6, FoldExists
<1> HIDE DEF V, c, step
<1>8. PICK r : r = [T \in SUBSET D |-> g[T]]
  OBVIOUS
<1>9. \A T \in SUBSET D : r[T] = g[T] /\ g[T] \in V
  BY <1>8
<1>10. ASSUME NEW T \in SUBSET D, T # {}
       PROVE  r[T] = AddDir(r[T \ {Max(T)}], SubSeq(path, 1, lens[Max(T)]))
  <2>1. Max(T) \in D /\ c[T] = Max(T) /\ T \ {Max(T)} \in SUBSET D
    <3>1. c[T] = Max(T) /\ Max(T) \in T
      BY <1>2, <1>4, <1>10
    <3> QED
      BY ONLY <3>1, T \in SUBSET D
  <2>2. g[T] = step[Max(T)][g[T \ {Max(T)}]]
    BY <1>7, <1>9, <1>10, <2>1 DEF IsFold
  <2> QED
    BY <1>4, <1>9, <2>1, <2>2
<1>11. r = def(r)
  <2>1. r[{}] = t
    BY <1>7, <1>9 DEF IsFold
  <2>2. \A T \in SUBSET D : r[T] = IF T = {} THEN t
          ELSE AddDir(r[T \ {Max(T)}], SubSeq(path, 1, lens[Max(T)]))
    BY <1>10, <2>1
  <2>3. r = [T \in SUBSET D |-> r[T]]
    BY <1>8
  <2> QED
    BY <2>2, <2>3
<1>12. iter = def(iter)
  <2> HIDE DEF def
  <2> QED
    BY <1>11
<1>13. IsFold(iter, D, V, t, c, step)
  <2>1. iter[{}] = t
    <3> HIDE DEF iter
    <3> QED
      BY <1>12
  <2>2. ASSUME NEW T \in SUBSET D, T # {}, iter[T \ {c[T]}] \in V
        PROVE  iter[T] = step[c[T]][iter[T \ {c[T]}]]
    <3>1. c[T] = Max(T) /\ c[T] \in D
      BY <1>4, <2>2
    <3> HIDE DEF iter
    <3>2. iter[T] = AddDir(iter[T \ {Max(T)}], SubSeq(path, 1, lens[Max(T)]))
      BY <1>12, <2>2
    <3> QED
      BY <1>4, <2>2, <3>1, <3>2
  <2> HIDE DEF iter
  <2> QED
    BY <2>1, <2>2 DEF IsFold
<1> HIDE DEF def, iter
<1>14. PICK run \in [0 .. n -> V] :
         /\ run[0] = t
         /\ \A i \in 1 .. n : run[i] = step[i][run[i - 1]]
         /\ run[n] = iter[D]
  BY <1>4, <1>6, <1>13, FoldRun
<1>15. ASSUME NEW i \in 1 .. n
       PROVE  run[i] = AddDir(run[i - 1], SubSeq(path, 1, lens[i]))
  <2>1. run[i - 1] \in V
    <3>1. i - 1 \in 0 .. n
      OBVIOUS
    <3> QED
      BY <1>14, <3>1
  <2> QED
    BY <1>4, <1>14, <2>1
<1> QED
  BY <1>1, <1>14, <1>15 DEF V, IsAdding

\* With the first i directories of a path, u is t with entries of these behind.
DirsPut(t, u, path, lens, i) ==
  /\ u \in Tables /\ Extends(t, u) /\ (Fits(t) => Fits(u))
  /\ \A k \in Len(t.array) + 1 .. Len(u.array) :
       /\ InOrder(u, k)
       /\ \E j \in 1 .. i : lens[j] # 0 /\ u.array[k] = DirEntry(SubSeq(path, 1, lens[j]))
  /\ \A j \in 1 .. i : lens[j] # 0 => Begun(u, Len(u.array), SubSeq(path, 1, lens[j]))

LEMMA ExtendsTrans ==
  ASSUME NEW t \in Tables, NEW u \in Tables, NEW v \in Tables, Extends(t, u), Extends(u, v)
  PROVE  Extends(t, v)
<1>1. PICK l \in Nat, m \in Nat, n \in Nat :
        l = Len(t.array) /\ m = Len(u.array) /\ n = Len(v.array)
  BY TableTypes
<1>2. /\ l <= m /\ \A k \in 1 .. l : u.array[k] = t.array[k]
      /\ m <= n /\ \A k \in 1 .. m : v.array[k] = u.array[k]
  BY <1>1 DEF Extends
<1>3. l <= n /\ \A k \in 1 .. l : k \in 1 .. m
  BY <1>2
<1>4. \A k \in 1 .. l : v.array[k] = t.array[k]
  BY <1>2, <1>3
<1> QED
  BY <1>1, <1>3, <1>4 DEF Extends

LEMMA DirsPutNext ==
  ASSUME NEW t \in Tables, NEW path \in Seq(STRING), NEW lens, lens = SubDirLens(path),
         NEW j \in 1 .. Len(lens), NEW i \in Nat, j = i + 1,
         NEW u, DirsPut(t, u, path, lens, i)
  PROVE  DirsPut(t, AddDir(u, SubSeq(path, 1, lens[j])), path, lens, j)
<1>0. DirsAre(DirsOf(SubSeq(path, 1, lens[j])), path, lens, j - 1)
  BY DirsOfDir
<1>1. PICK l \in 0 .. Len(path) : l = lens[j]
  <2>1. lens[j] \in 0 .. Len(path) - 1
    BY SubDirFacts DEF OuterFirst
  <2> QED
    BY <2>1
<1>2. PICK p \in Seq(STRING) : p = SubSeq(path, 1, l) /\ (p = <<>> <=> l = 0)
  <2>1. SubSeq(path, 1, l) \in Seq(STRING) /\ (SubSeq(path, 1, l) = <<>> <=> l = 0)
    BY <1>1, BeginningFacts
  <2> QED
    BY <2>1
<1>3. \A h \in 1 .. j : h \in 1 .. i \/ h = j
  OBVIOUS
<1>4. \A h \in 1 .. i : h \in 1 .. j
  OBVIOUS
<1>5. u \in Tables /\ Extends(t, u) /\ (Fits(t) => Fits(u))
  BY DEF DirsPut
<1>6. CASE l = 0
  <2>1. AddDir(u, SubSeq(path, 1, lens[j])) = u
    BY <1>1, <1>2, <1>6 DEF AddDir
  <2>2. ASSUME NEW k \in Len(t.array) + 1 .. Len(u.array)
        PROVE  /\ InOrder(u, k)
               /\ \E h \in 1 .. j :
                    lens[h] # 0 /\ u.array[k] = DirEntry(SubSeq(path, 1, lens[h]))
    BY <1>4 DEF DirsPut
  <2>3. ASSUME NEW h \in 1 .. j, lens[h] # 0
        PROVE  Begun(u, Len(u.array), SubSeq(path, 1, lens[h]))
    <3>1. h \in 1 .. i
      BY <1>1, <1>3, <1>6, <2>3
    <3> QED
      BY <2>3, <3>1 DEF DirsPut
  <2> QED
    BY <1>5, <2>1, <2>2, <2>3 DEF DirsPut
<1>7. CASE l # 0
  <2>1. PICK v : v = AddDir(u, p)
    OBVIOUS
  <2>2. PICK e \in Entries : e = DirEntry(p) /\ e.path = p
    <3>1. DirEntry(p) \in Entries /\ DirEntry(p).path = p
      BY DEF DirEntry, Entry, Entries
    <3> QED
      BY <3>1
  <2>3. Put(u, v, e)
    BY <1>2, <1>5, <1>7, <2>1, <2>2, AddDirPuts
  <2>4. v \in Tables /\ Extends(u, v) /\ (Fits(u) => Fits(v)) /\ Begun(v, Len(v.array), p)
    BY <2>2, <2>3 DEF Put
  <2>5. PICK k0 \in Nat, m \in Nat, n \in Nat :
          k0 = Len(t.array) /\ m = Len(u.array) /\ n = Len(v.array)
    BY <1>5, <2>4, TableTypes
  <2>6. ASSUME NEW q \in DirsOf(e.path) PROVE Begun(u, Len(u.array), q)
    <3>1. PICK h \in 1 .. j - 1 : lens[h] # 0 /\ q = SubSeq(path, 1, lens[h])
      <4>1. q \in DirsOf(SubSeq(path, 1, lens[j]))
        BY <1>1, <1>2, <2>2
      <4> QED
        BY <1>0, <4>1 DEF DirsAre
    <3>2. h \in 1 .. i
      OBVIOUS
    <3> QED
      BY <3>1, <3>2 DEF DirsPut
  <2>7. ASSUME NEW k \in k0 + 1 .. n
        PROVE  /\ InOrder(v, k)
               /\ \E h \in 1 .. j :
                    lens[h] # 0 /\ v.array[k] = DirEntry(SubSeq(path, 1, lens[h]))
    <3>1. CASE k \in 1 .. m
      <4>1. k \in k0 + 1 .. m
        BY <3>1
      <4>2. InOrder(u, k) /\ \E h \in 1 .. i :
              lens[h] # 0 /\ u.array[k] = DirEntry(SubSeq(path, 1, lens[h]))
        BY <2>5, <4>1 DEF DirsPut
      <4>3. InOrder(v, k)
        BY <1>5, <2>4, <2>5, <3>1, <4>2, InOrderStays
      <4>4. v.array[k] = u.array[k]
        BY <2>4, <2>5, <3>1 DEF Extends
      <4> QED
        BY <1>4, <4>2, <4>3, <4>4
    <3>2. CASE k \notin 1 .. m
      <4>1. k \in m + 1 .. n
        BY <3>2
      <4>2. v.array[k] = e /\ InOrder(v, k)
        BY <1>5, <2>3, <2>5, <2>6, <4>1, PutInOrder
      <4>3. j \in 1 .. j
        OBVIOUS
      <4> QED
        BY <1>1, <1>2, <1>7, <2>2, <4>2, <4>3
    <3> QED
      BY <3>1, <3>2
  <2>8. ASSUME NEW h \in 1 .. j, lens[h] # 0
        PROVE  Begun(v, Len(v.array), SubSeq(path, 1, lens[h]))
    <3>1. CASE h = j
      BY <1>1, <1>2, <2>4, <3>1
    <3>2. CASE h # j
      <4>1. h \in 1 .. i
        BY <1>3, <3>2
      <4>2. Begun(u, Len(u.array), SubSeq(path, 1, lens[h]))
        BY <2>8, <4>1 DEF DirsPut
      <4>3. Len(u.array) \in 0 .. Len(u.array)
        BY <2>5
      <4> QED
        BY <1>5, <2>4, <4>2, <4>3, BegunStays
    <3> QED
      BY <3>1, <3>2
  <2>9. Extends(t, v)
    BY <1>5, <2>4, ExtendsTrans
  <2>10. DirsPut(t, v, path, lens, j)
    BY <1>5, <2>4, <2>5, <2>7, <2>8, <2>9 DEF DirsPut
  <2> QED
    BY <1>1, <1>2, <2>1, <2>10
<1> QED
  BY <1>6, <1>7

LEMMA SubDirsPut ==
  ASSUME NEW t \in Tables, NEW path \in Seq(STRING), NEW lens, lens = SubDirLens(path)
  PROVE  DirsPut(t, AddSubDirs(t, path), path, lens, Len(lens))
<1>1. PICK n \in Nat : n = Len(lens)
  <2>1. lens \in Seq(Nat)
    BY SubDirFacts DEF OuterFirst
  <2> QED
    BY <2>1
<1>3. PICK run \in [0 .. n -> Tables] :
        IsAdding(run, t, path, lens, n) /\ AddSubDirs(t, path) = run[n]
  BY <1>1, SubDirsRun
<1> DEFINE N == {i \in Nat : i <= n => DirsPut(t, run[i], path, lens, i)}
<1>4. 0 \in N
  <2>1. Len(t.array) \in Nat
    BY TableTypes
  <2>2. Extends(t, t) /\ \A k \in Len(t.array) + 1 .. Len(t.array) : FALSE
    BY <2>1 DEF Extends
  <2>3. DirsPut(t, t, path, lens, 0)
    BY <2>2 DEF DirsPut
  <2> QED
    BY <1>3, <2>3 DEF IsAdding
<1>5. ASSUME NEW i \in Nat, i \in N PROVE i + 1 \in N
  <2>1. SUFFICES ASSUME i + 1 <= n PROVE DirsPut(t, run[i + 1], path, lens, i + 1)
    OBVIOUS
  <2>2. PICK j \in 1 .. n : j = i + 1 /\ j - 1 = i
    BY <2>1
  <2>3. PICK u : u = run[i] /\ DirsPut(t, u, path, lens, i)
    BY <1>5, <2>1
  <2>4. run[j] = AddDir(u, SubSeq(path, 1, lens[j]))
    BY <1>3, <2>2, <2>3 DEF IsAdding
  <2>5. DirsPut(t, AddDir(u, SubSeq(path, 1, lens[j])), path, lens, j)
    BY <1>1, <2>2, <2>3, DirsPutNext
  <2> QED
    BY <2>2, <2>4, <2>5
<1> HIDE DEF N
<1>6. n \in N
  BY <1>4, <1>5, NumberInduction
<1> QED
  BY <1>1, <1>3, <1>6 DEF N

-----------------------------------------------------------------------------
(* Records in the table. *)

\* The entry of a record's file, or of a directory above it.
EntryFor(e, rec) ==
  \/ e = FileEntry(rec)
  \/ \E p \in DirsOf(rec.fpath) : e = DirEntry(p)

LEMMA EntryForPath ==
  ASSUME NEW e, NEW rec, EntryFor(e, rec)
  PROVE  e.path \in Mentions(rec.fpath)
BY DEF EntryFor, FileEntry, DirEntry, Entry, Mentions

\* One record: entries of it are added, and each path that it mentions is found.
LEMMA RecordAdded ==
  ASSUME NEW t \in Tables, NEW rec, IsRecord(rec), NEW u, u = AddRecord(t, rec)
  PROVE  /\ u \in Tables /\ Extends(t, u) /\ (Fits(t) => Fits(u))
         /\ \A k \in Len(t.array) + 1 .. Len(u.array) :
              InOrder(u, k) /\ EntryFor(u.array[k], rec)
         /\ \A p \in Mentions(rec.fpath) : Begun(u, Len(u.array), p)
<1>1. PICK path \in Seq(STRING) : path = rec.fpath
  BY DEF IsRecord
<1>2. PICK lens : lens = SubDirLens(path)
  OBVIOUS
<1>3. PICK d : d = AddSubDirs(t, path) /\ DirsPut(t, d, path, lens, Len(lens))
  BY <1>2, SubDirsPut
<1>4. d \in Tables /\ Extends(t, d) /\ (Fits(t) => Fits(d))
  BY <1>3 DEF DirsPut
<1>5. PICK e \in Entries : e = FileEntry(rec) /\ e.path = path
  <2>1. FileEntry(rec) \in Entries /\ FileEntry(rec).path = path
    BY <1>1 DEF FileEntry, Entry, Entries, IsRecord
  <2> QED
    BY <2>1
<1>6. Put(d, u, e)
  <2>1. u = AddFile(d, rec)
    BY <1>1, <1>3 DEF AddRecord
  <2> QED
    BY <1>4, <1>5, <2>1, AddFilePuts
<1>7. u \in Tables /\ Extends(d, u) /\ (Fits(d) => Fits(u)) /\ Begun(u, Len(u.array), path)
  BY <1>5, <1>6 DEF Put
<1>8. PICK l \in Nat, m \in Nat, n \in Nat :
        l = Len(t.array) /\ m = Len(d.array) /\ n = Len(u.array)
  BY <1>4, <1>7, TableTypes
<1>9. ASSUME NEW p \in DirsOf(path) PROVE Begun(d, m, p)
  <2>1. \E i \in 1 .. Len(lens) : lens[i] # 0 /\ p = SubSeq(path, 1, lens[i])
    BY <1>2, DirsOfIs DEF DirsAre
  <2> QED
    BY <1>3, <1>8, <2>1 DEF DirsPut
<1>10. ASSUME NEW k \in l + 1 .. n
       PROVE  InOrder(u, k) /\ EntryFor(u.array[k], rec)
  <2>1. CASE k \in 1 .. m
    <3>1. k \in l + 1 .. m
      BY <2>1
    <3>2. InOrder(d, k) /\ \E j \in 1 .. Len(lens) :
            lens[j] # 0 /\ d.array[k] = DirEntry(SubSeq(path, 1, lens[j]))
      BY <1>3, <1>8, <3>1 DEF DirsPut
    <3>3. InOrder(u, k)
      BY <1>4, <1>7, <1>8, <2>1, <3>2, InOrderStays
    <3>4. u.array[k] = d.array[k]
      BY <1>7, <1>8, <2>1 DEF Extends
    <3>5. PICK j \in 1 .. Len(lens) :
            lens[j] # 0 /\ u.array[k] = DirEntry(SubSeq(path, 1, lens[j]))
      BY <3>2, <3>4
    <3>6. SubSeq(path, 1, lens[j]) \in DirsOf(path)
      BY <1>2, <3>5, DirsOfIs DEF DirsAre
    <3> QED
      BY <1>1, <3>3, <3>5, <3>6 DEF EntryFor
  <2>2. CASE k \notin 1 .. m
    <3>1. k \in m + 1 .. n
      BY <2>2
    <3>2. u.array[k] = e /\ InOrder(u, k)
      BY <1>4, <1>5, <1>6, <1>8, <1>9, <3>1, PutInOrder
    <3> QED
      BY <1>5, <3>2 DEF EntryFor
  <2> QED
    BY <2>1, <2>2
<1>11. ASSUME NEW p \in Mentions(path) PROVE Begun(u, n, p)
  <2>1. CASE p = path
    BY <1>7, <1>8, <2>1
  <2>2. CASE p # path
    <3>1. Begun(d, m, p)
      BY <1>9, <2>2 DEF Mentions
    <3>2. m \in 0 .. Len(d.array)
      BY <1>8
    <3> QED
      BY <1>4, <1>7, <1>8, <3>1, <3>2, BegunStays
  <2> QED
    BY <2>1, <2>2
<1>12. Extends(t, u)
  BY <1>4, <1>7, ExtendsTrans
<1> QED
  BY <1>1, <1>4, <1>7, <1>8, <1>10, <1>11, <1>12

\* The first l entries are of the first f records, and find each path that these mention.
Holds(t, records, f, l) ==
  /\ \A k \in 1 .. l : \E n \in 1 .. f : EntryFor(t.array[k], records[n])
  /\ \A n \in 1 .. f : \A p \in Mentions(records[n].fpath) : Begun(t, l, p)

\* The table has been filled from the first m records, one after the other.
Filled(t, records, m) ==
  /\ \A f \in 0 .. m : \E l \in 0 .. Len(t.array) : Holds(t, records, f, l)
  /\ Holds(t, records, m, Len(t.array))
  /\ \A k \in 1 .. Len(t.array) : InOrder(t, k)

LEMMA HoldsStays ==
  ASSUME NEW t \in Tables, NEW u \in Tables, Extends(t, u), NEW records, NEW f \in Nat,
         NEW l \in 0 .. Len(t.array), Holds(t, records, f, l)
  PROVE  Holds(u, records, f, l)
<1>1. PICK m \in Nat : m = Len(t.array) /\ \A k \in 1 .. m : u.array[k] = t.array[k]
  BY TableTypes DEF Extends
<1>2. \A k \in 1 .. l : k \in 1 .. m
  BY <1>1
<1>3. \A p : Begun(u, l, p) <=> Begun(t, l, p)
  BY BegunStays
<1> QED
  BY <1>1, <1>2, <1>3 DEF Holds

LEMMA FilledNothing ==
  ASSUME NEW records
  PROVE  EmptyTable \in Tables /\ Fits(EmptyTable) /\ Filled(EmptyTable, records, 0)
<1>1. EmptyTable \in Tables /\ Len(EmptyTable.array) = 0 /\ Fits(EmptyTable)
  BY DEF EmptyTable, Tables, Fits
<1>2. Holds(EmptyTable, records, 0, 0)
  BY DEF Holds
<1> QED
  BY <1>1, <1>2 DEF Filled

\* The next record.
LEMMA FilledNext ==
  ASSUME NEW t \in Tables, NEW records, NEW m \in Nat, Filled(t, records, m),
         NEW j \in Nat, j = m + 1, IsRecord(records[j]), NEW u, u = AddRecord(t, records[j])
  PROVE  u \in Tables /\ (Fits(t) => Fits(u)) /\ Filled(u, records, j)
<1>1. PICK rec : rec = records[j] /\ IsRecord(rec) /\ u = AddRecord(t, rec)
  OBVIOUS
<1>2. /\ u \in Tables /\ Extends(t, u) /\ (Fits(t) => Fits(u))
      /\ \A k \in Len(t.array) + 1 .. Len(u.array) :
           InOrder(u, k) /\ EntryFor(u.array[k], rec)
      /\ \A p \in Mentions(rec.fpath) : Begun(u, Len(u.array), p)
  BY <1>1, RecordAdded
<1>3. PICK a \in Nat, b \in Nat : a = Len(t.array) /\ b = Len(u.array)
  BY <1>2, TableTypes
<1>4. a <= b /\ \A k \in 1 .. a : u.array[k] = t.array[k]
  BY <1>2, <1>3 DEF Extends
<1>5. ASSUME NEW f \in 0 .. m
      PROVE  \E l \in 0 .. b : Holds(u, records, f, l)
  <2>1. PICK l \in 0 .. a : Holds(t, records, f, l)
    BY <1>3 DEF Filled
  <2>2. Holds(u, records, f, l)
    BY <1>2, <1>3, <2>1, HoldsStays
  <2>3. l \in 0 .. b
    BY <1>4
  <2> QED
    BY <2>2, <2>3
<1>6. ASSUME NEW k \in 1 .. b
      PROVE  InOrder(u, k) /\ \E n \in 1 .. j : EntryFor(u.array[k], records[n])
  <2>1. CASE k \in 1 .. a
    <3>1. InOrder(t, k) /\ \E n \in 1 .. m : EntryFor(t.array[k], records[n])
      BY <1>3, <2>1 DEF Filled, Holds
    <3>2. InOrder(u, k)
      BY <1>2, <1>3, <2>1, <3>1, InOrderStays
    <3>3. \A n \in 1 .. m : n \in 1 .. j
      OBVIOUS
    <3> QED
      BY <1>4, <2>1, <3>1, <3>2, <3>3
  <2>2. CASE k \notin 1 .. a
    <3>1. k \in a + 1 .. b /\ j \in 1 .. j
      BY <2>2
    <3> QED
      BY <1>1, <1>2, <1>3, <3>1
  <2> QED
    BY <2>1, <2>2
<1>7. ASSUME NEW n \in 1 .. j, NEW p \in Mentions(records[n].fpath)
      PROVE  Begun(u, b, p)
  <2>1. CASE n = j
    BY <1>1, <1>2, <1>3, <2>1
  <2>2. CASE n # j
    <3>1. n \in 1 .. m
      BY <2>2
    <3>2. Begun(t, a, p)
      BY <1>3, <3>1 DEF Filled, Holds
    <3>3. a \in 0 .. Len(t.array)
      BY <1>3
    <3> QED
      BY <1>2, <1>3, <3>2, <3>3, BegunStays
  <2> QED
    BY <2>1, <2>2
<1>8. Holds(u, records, j, b)
  BY <1>6, <1>7 DEF Holds
<1>9. ASSUME NEW f \in 0 .. j
      PROVE  \E l \in 0 .. b : Holds(u, records, f, l)
  <2>1. f \in 0 .. m \/ f = j
    OBVIOUS
  <2>2. b \in 0 .. b
    OBVIOUS
  <2> QED
    BY <1>5, <1>8, <2>1, <2>2
<1> QED
  BY <1>2, <1>3, <1>6, <1>8, <1>9 DEF Filled

\* fill_fsstructure_by_records goes through the records in order.
IsFilling(run, records, n) ==
  /\ run[0] = EmptyTable
  /\ \A i \in 1 .. n : run[i] = AddRecord(run[i - 1], records[i])

LEMMA FillRun ==
  ASSUME NEW n \in Nat, NEW records, DOMAIN records = 1 .. n,
         \A i \in 1 .. n : IsRecord(records[i])
  PROVE  \E run \in [0 .. n -> Tables] : IsFilling(run, records, n) /\ Fill(records) = run[n]
<1> DEFINE D == 1 .. n
           V == Tables
           c == [T \in SUBSET D |-> Max(T)]
           step == [x \in D |-> [v \in V |-> AddRecord(v, records[x])]]
           def(i) == [T \in SUBSET D |->
                        IF T = {} THEN EmptyTable
                        ELSE AddRecord(i[T \ {Max(T)}], records[Max(T)])]
           iter == CHOOSE i : i = def(i)
<1>1. Fill(records) = iter[D]
  BY Zenon DEF Fill, FoldLeft, MapThenFoldSet
<1>2. \A T \in SUBSET D : T # {} => Max(T) \in T
  BY HighestPlace
<1>3. \A x \in D, v \in V : AddRecord(v, records[x]) \in V
  BY RecordAdded
<1>4. /\ \A T \in SUBSET D : c[T] = Max(T)
      /\ \A T \in SUBSET D : T # {} => c[T] \in T
      /\ \A x \in D, v \in V : step[x][v] \in V /\ step[x][v] = AddRecord(v, records[x])
  <2> HIDE DEF V
  <2> QED
    BY <1>2, <1>3
<1>5. IsFiniteSet(D) /\ EmptyTable \in V
  BY FirstNumbers, FilledNothing
<1>6. Folding(D, V, EmptyTable, c, step)
  <2> HIDE DEF D, V, c, step
  <2> QED
    BY <1>4, <1>5 DEF Folding
<1>7. PICK g \in [SUBSET D -> V] : IsFold(g, D, V, EmptyTable, c, step)
  BY <1>6, FoldExists
<1> HIDE DEF V, c, step
<1>8. PICK r : r = [T \in SUBSET D |-> g[T]]
  OBVIOUS
<1>9. \A T \in SUBSET D : r[T] = g[T] /\ g[T] \in V
  BY <1>8
<1>10. ASSUME NEW T \in SUBSET D, T # {}
       PROVE  r[T] = AddRecord(r[T \ {Max(T)}], records[Max(T)])
  <2>1. Max(T) \in D /\ c[T] = Max(T) /\ T \ {Max(T)} \in SUBSET D
    BY <1>4, <1>10
  <2>2. g[T] = step[Max(T)][g[T \ {Max(T)}]]
    BY <1>7, <1>9, <1>10, <2>1 DEF IsFold
  <2> QED
    BY <1>4, <1>9, <2>1, <2>2
<1>11. r = def(r)
  <2>1. r[{}] = EmptyTable
    BY <1>7, <1>9 DEF IsFold
  <2>2. \A T \in SUBSET D : r[T] = IF T = {} THEN EmptyTable
          ELSE AddRecord(r[T \ {Max(T)}], records[Max(T)])
    BY <1>10, <2>1
  <2>3. r = [T \in SUBSET D |-> r[T]]
    BY <1>8
  <2> QED
    BY <2>2, <2>3
<1>12. iter = def(iter)
  <2> HIDE DEF def
  <2> QED
    BY <1>11
<1>13. IsFold(iter, D, V, EmptyTable, c, step)
  <2>1. iter[{}] = EmptyTable
    <3> HIDE DEF iter
    <3> QED
      BY <1>12
  <2>2. ASSUME NEW T \in SUBSET D, T # {}, iter[T \ {c[T]}] \in V
        PROVE  iter[T] = step[c[T]][iter[T \ {c[T]}]]
    <3>1. c[T] = Max(T) /\ c[T] \in D
      BY <1>4, <2>2
    <3> HIDE DEF iter
    <3>2. iter[T] = AddRecord(iter[T \ {Max(T)}], records[Max(T)])
      BY <1>12, <2>2
    <3> QED
      BY <1>4, <2>2, <3>1, <3>2
  <2> HIDE DEF iter
  <2> QED
    BY <2>1, <2>2 DEF IsFold
<1> HIDE DEF def, iter
<1>14. PICK run \in [0 .. n -> V] :
         /\ run[0] = EmptyTable
         /\ \A i \in 1 .. n : run[i] = step[i][run[i - 1]]
         /\ run[n] = iter[D]
  BY <1>4, <1>6, <1>13, FoldRun
<1>15. ASSUME NEW i \in 1 .. n
       PROVE  run[i] = AddRecord(run[i - 1], records[i])
  <2>1. run[i - 1] \in V
    <3>1. i - 1 \in 0 .. n
      OBVIOUS
    <3> QED
      BY <1>14, <3>1
  <2> QED
    BY <1>4, <1>14, <2>1
<1> QED
  BY <1>1, <1>14, <1>15 DEF V, IsFilling

\* The whole table, of records in whatever order.
LEMMA FillFacts ==
  ASSUME NEW n \in Nat, NEW records, DOMAIN records = 1 .. n,
         \A i \in 1 .. n : IsRecord(records[i])
  PROVE  Fill(records) \in Tables /\ Filled(Fill(records), records, n)
<1>1. PICK run \in [0 .. n -> Tables] : IsFilling(run, records, n) /\ Fill(records) = run[n]
  BY FillRun
<1> DEFINE N == {i \in Nat : i <= n => Filled(run[i], records, i)}
<1>2. 0 \in N
  BY <1>1, FilledNothing DEF IsFilling
<1>3. ASSUME NEW i \in Nat, i \in N PROVE i + 1 \in N
  <2>1. SUFFICES ASSUME i + 1 <= n PROVE Filled(run[i + 1], records, i + 1)
    OBVIOUS
  <2>2. PICK j \in 1 .. n : j = i + 1 /\ j - 1 = i
    BY <2>1
  <2>3. PICK t \in Tables : t = run[i] /\ Filled(t, records, i)
    BY <1>3, <2>1
  <2>4. PICK u : u = run[j] /\ u = AddRecord(t, records[j])
    BY <1>1, <2>2, <2>3 DEF IsFilling
  <2>5. Filled(u, records, j)
    BY <2>2, <2>3, <2>4, FilledNext
  <2> QED
    BY <2>2, <2>4, <2>5
<1> HIDE DEF N
<1>4. n \in N
  BY <1>2, <1>3, NumberInduction
<1> QED
  BY <1>1, <1>4 DEF N

-----------------------------------------------------------------------------
(* Filling the table, FsFill. *)

\* The table is that of the records seen so far.
FillIInv ==
  /\ db_records \in Databases
  /\ done \in 0 .. Len(db_records)
  /\ fs_structure \in Tables
  /\ Fits(fs_structure)
  /\ Filled(fs_structure, db_records, done)

LEMMA RecordsTyped ==
  ASSUME NEW db \in Databases
  PROVE  /\ Len(db) \in Nat /\ DOMAIN db = 1 .. Len(db)
         /\ \A k \in DOMAIN db : IsRecord(db[k])
BY DatabasesAssumption DEF IsRecord

\* While the table is filled it has the entries of the records seen so far, those of each
\* record behind those of the records before, and finds all that these mention.
THEOREM FillInvariance == FillSpec => []FillIInv
<1>1. FillInit => FillIInv
  <2> SUFFICES ASSUME FillInit PROVE FillIInv
    OBVIOUS
  <2>1. Len(db_records) \in Nat
    BY RecordsTyped DEF FillInit
  <2> QED
    BY <2>1, FilledNothing DEF FillInit, FillIInv
<1>2. FillIInv /\ [FillRecord]_fillVars => FillIInv'
  <2> SUFFICES ASSUME FillIInv, [FillRecord]_fillVars PROVE FillIInv'
    OBVIOUS
  <2>1. CASE FillRecord
    <3>1. PICK j \in Nat : j = done + 1 /\ j \in DOMAIN db_records /\ j <= Len(db_records)
      BY <2>1, RecordsTyped DEF FillRecord, FillIInv
    <3>2. IsRecord(db_records[j])
      BY <3>1, RecordsTyped DEF FillIInv
    <3>3. PICK u : u = fs_structure'
      OBVIOUS
    <3>4. u = AddRecord(fs_structure, db_records[j]) /\ done' = j /\ db_records' = db_records
      BY <2>1, <3>1, <3>3 DEF FillRecord
    <3>5. u \in Tables /\ Fits(u) /\ Filled(u, db_records, j)
      <4>1. fs_structure \in Tables /\ done \in Nat
            /\ Filled(fs_structure, db_records, done) /\ Fits(fs_structure)
        BY RecordsTyped DEF FillIInv
      <4> QED
        BY <3>1, <3>2, <3>4, <4>1, FilledNext
    <3>6. j \in 0 .. Len(db_records)
      BY <3>1, RecordsTyped DEF FillIInv
    <3> QED
      BY <3>3, <3>4, <3>5, <3>6 DEF FillIInv
  <2>2. CASE UNCHANGED fillVars
    BY <2>2 DEF fillVars, FillIInv
  <2> QED
    BY <2>1, <2>2
<1> QED
  BY <1>1, <1>2, PTL DEF FillSpec

\* No entry is written behind the array while the table is filled, whatever directories
\* and files the records name and in whatever order.
THEOREM TableFits == FillSpec => []EntriesFit
<1>1. FillIInv => EntriesFit
  BY DEF FillIInv, Fits, EntriesFit
<1> QED
  BY <1>1, FillInvariance, PTL

LEMMA SeenIs ==
  ASSUME FillIInv
  PROVE  /\ DOMAIN Seen = 1 .. done
         /\ \A k \in 1 .. done : Seen[k] = db_records[k] /\ IsRecord(db_records[k])
<1>1. PICK n \in Nat : n = Len(db_records) /\ DOMAIN db_records = 1 .. n
  BY RecordsTyped DEF FillIInv
<1>2. PICK m \in 0 .. n : m = done
  BY <1>1 DEF FillIInv
<1>3. PICK db : db = db_records /\ \A k \in 1 .. n : IsRecord(db[k])
  BY <1>1, RecordsTyped DEF FillIInv
<1>4. PICK R : R = {db[k] : k \in 1 .. n}
  OBVIOUS
<1>5. 1 \in Int /\ m \in Int /\ \A k \in 1 .. m : db[k] \in R
  BY <1>4
<1>6. PICK s : s = SubSeq(db, 1, m)
  OBVIOUS
<1>7. /\ s \in Seq(R)
      /\ Len(s) = IF 1 <= m THEN m - 1 + 1 ELSE 0
      /\ \A k \in 1 .. m - 1 + 1 : s[k] = db[1 + k - 1]
  BY <1>5, <1>6, SubSeqProperties
<1>8. Len(s) = m /\ DOMAIN s = 1 .. m /\ \A k \in 1 .. m : s[k] = db[k] /\ k \in 1 .. n
  BY <1>7
<1> QED
  BY <1>2, <1>3, <1>6, <1>8 DEF Seen

LEMMA MentionedIs ==
  ASSUME FillIInv, NEW p
  PROVE  /\ p \in Files <=> \E k \in 1 .. done : p = db_records[k].fpath
         /\ p \in Dirs <=> \E k \in 1 .. done : p \in DirsOf(db_records[k].fpath)
         /\ p \in Files \cup Dirs <=> \E k \in 1 .. done : p \in Mentions(db_records[k].fpath)
<1>1. p \in Files <=> \E k \in 1 .. done : p = db_records[k].fpath
  BY SeenIs DEF Files
<1>2. p \in Dirs <=> \E k \in 1 .. done : p \in DirsOf(db_records[k].fpath)
  BY SeenIs DEF Dirs, Files
<1> QED
  BY <1>1, <1>2 DEF Mentions

LEMMA FirstMentionIs ==
  ASSUME FillIInv, NEW p \in Files \cup Dirs
  PROVE  /\ FirstMention(p) \in 1 .. done
         /\ p \in Mentions(db_records[FirstMention(p)].fpath)
         /\ \A k \in 1 .. done : p \in Mentions(db_records[k].fpath) => FirstMention(p) <= k
<1> DEFINE M == {k \in DOMAIN Seen : p \in DirsOf(Seen[k].fpath) \cup {Seen[k].fpath}}
<1>1. \A k : k \in M <=> k \in 1 .. done /\ p \in Mentions(db_records[k].fpath)
  BY SeenIs DEF Mentions
<1>2. M # {}
  BY <1>1, MentionedIs
<1>3. M \in SUBSET Nat
  <2>1. done \in Nat
    BY RecordsTyped DEF FillIInv
  <2> QED
    BY <1>1, <2>1
<1>4. FirstMention(p) = Min(M)
  BY DEF FirstMention
<1> HIDE DEF M
<1>5. Min(M) \in M /\ \A k \in M : Min(M) <= k
  BY <1>2, <1>3, LowestPlace
<1> QED
  BY <1>1, <1>4, <1>5

LEMMA EntriesOfIs ==
  ASSUME NEW t \in Tables, NEW path, NEW k, FoundAt(t, path, k)
  PROVE  EntriesOf(t, path) = {t.array[k]}
<1>1. k \in 1 .. Len(t.array) /\ Len(t.array) \in Nat
  BY TableTypes DEF FoundAt
<1>2. ByPath(t, path) # {}
  <2>1. Begun(t, Len(t.array), path)
    BY <1>1 DEF FoundAt, Begun
  <2> QED
    BY <2>1, NotFound
<1>3. PICK j : ByPath(t, path) = {j}
  BY <1>2 DEF ByPath
<1>4. j = k
  BY <1>3, FoundByPath, FoundUnique
<1> QED
  BY <1>3, <1>4 DEF EntriesOf

LEMMA FoundEntry ==
  ASSUME FillIInv, NEW path, NEW k, FoundAt(fs_structure, path, k)
  PROVE  /\ k \in 1 .. Len(fs_structure.array)
         /\ EntriesOf(fs_structure, path) = {fs_structure.array[k]}
         /\ \E n \in 1 .. done : EntryFor(fs_structure.array[k], db_records[n])
<1>1. k \in 1 .. Len(fs_structure.array)
  BY DEF FoundAt
<1>2. EntriesOf(fs_structure, path) = {fs_structure.array[k]}
  BY EntriesOfIs DEF FillIInv
<1> QED
  BY <1>1, <1>2 DEF FillIInv, Filled, Holds

\* What the first f records mention is found among the entries added for them.
LEMMA FoundBefore ==
  ASSUME NEW t \in Tables, NEW records, NEW m \in Nat, Filled(t, records, m),
         NEW f \in 1 .. m, NEW p \in Mentions(records[f].fpath)
  PROVE  \E k \in 1 .. Len(t.array) :
           /\ FoundAt(t, p, k)
           /\ \E n \in 1 .. f : EntryFor(t.array[k], records[n])
<1>1. PICK a \in Nat : a = Len(t.array)
  BY TableTypes
<1>2. PICK l \in 0 .. a : Holds(t, records, f, l)
  BY <1>1 DEF Filled
<1>3. Begun(t, l, p)
  <2>1. f \in 1 .. f
    OBVIOUS
  <2> QED
    BY <1>2, <2>1 DEF Holds
<1>4. PICK k \in 1 .. l : FoundAt(t, p, k)
  BY <1>1, <1>3, BegunFound
<1>5. k \in 1 .. a /\ \E n \in 1 .. f : EntryFor(t.array[k], records[n])
  BY <1>2 DEF Holds
<1> QED
  BY <1>1, <1>4, <1>5

\* With prefixes first, a path that was mentioned is found at an entry of its own.
LEMMA FoundOwn ==
  ASSUME FillIInv, PrefixesFirst, NEW p \in Files \cup Dirs
  PROVE  \E k \in 1 .. Len(fs_structure.array) :
           FoundAt(fs_structure, p, k) /\ fs_structure.array[k].path = p
<1>a. PICK t \in Tables : t = fs_structure
  BY DEF FillIInv
<1>b. PICK R : R = db_records
  OBVIOUS
<1>c. PICK m \in Nat : m = done
  BY RecordsTyped DEF FillIInv
<1>1. /\ t = fs_structure /\ R = db_records /\ m = done
      /\ Filled(t, R, m) /\ \A k \in 1 .. m : IsRecord(R[k])
  BY <1>a, <1>b, <1>c, SeenIs DEF FillIInv
<1>2. PICK f \in 1 .. m : f = FirstMention(p) /\ p \in Mentions(R[f].fpath)
  BY <1>1, FirstMentionIs
<1>3. PICK k \in 1 .. Len(t.array) :
        FoundAt(t, p, k) /\ \E n \in 1 .. f : EntryFor(t.array[k], R[n])
  BY <1>1, <1>2, FoundBefore
<1>4. PICK n \in 1 .. f : EntryFor(t.array[k], R[n])
  BY <1>3
<1>5. n \in 1 .. m
  OBVIOUS
<1>6. PICK q : q = t.array[k].path
  OBVIOUS
<1>7. q \in Mentions(R[n].fpath)
  BY <1>4, <1>6, EntryForPath
<1>8. q \in Files \cup Dirs
  BY <1>1, <1>5, <1>7, MentionedIs
<1>9. FirstMention(q) <= n /\ FirstMention(q) \in 1 .. m
  BY <1>1, <1>5, <1>7, <1>8, FirstMentionIs
<1>10. p \notin DirsOf(q)
  <2> SUFFICES ASSUME p \in DirsOf(q) PROVE FALSE
    OBVIOUS
  <2>1. Begun(t, k - 1, p)
    BY <1>1, <1>6 DEF Filled, InOrder
  <2> QED
    BY <1>3, <2>1 DEF Begun, FoundAt
<1>11. p = q
  <2> SUFFICES ASSUME p # q PROVE FALSE
    OBVIOUS
  <2>1. IsStrictPrefix(p, q)
    BY <1>3, <1>6 DEF FoundAt, IsStrictPrefix
  <2>2. f <= FirstMention(q)
    BY <1>2, <1>8, <1>10, <2>1 DEF PrefixesFirst
  <2>3. n = f
    BY <1>9, <2>2
  <2>4. R[f].fpath \in Seq(STRING)
    BY <1>1 DEF IsRecord
  <2>5. p \in DirsOf(q)
    BY <1>2, <1>7, <2>1, <2>3, <2>4, MentionsNested
  <2> QED
    BY <1>10, <2>5
<1> QED
  BY <1>1, <1>3, <1>6, <1>11

LEMMA PrefixesFirstExact ==
  ASSUME FillIInv, IsTree, PrefixesFirst
  PROVE  LookupsExact
<1>1. ASSUME NEW i \in DOMAIN Seen
      PROVE  EntriesOf(fs_structure, Seen[i].fpath)
               = {Entry(Seen[i].fpath, Seen[i].fd, Seen[i].fmode)}
  <2>1. i \in 1 .. done /\ Seen[i] = db_records[i]
    BY SeenIs
  <2>2. PICK p \in Files : p = Seen[i].fpath
    BY DEF Files
  <2>3. PICK k : FoundAt(fs_structure, p, k) /\ fs_structure.array[k].path = p
    BY FoundOwn
  <2>4. PICK n \in 1 .. done : EntryFor(fs_structure.array[k], db_records[n])
    BY <2>3, FoundEntry
  <2>5. \A d \in DirsOf(db_records[n].fpath) : fs_structure.array[k] # DirEntry(d)
    <3> SUFFICES ASSUME NEW d \in DirsOf(db_records[n].fpath),
                        fs_structure.array[k] = DirEntry(d)
                 PROVE  FALSE
      OBVIOUS
    <3>1. d = p
      BY <2>3 DEF DirEntry, Entry
    <3>2. p \in Dirs
      BY <3>1, MentionedIs
    <3> QED
      BY <3>2 DEF IsTree
  <2>6. fs_structure.array[k] = FileEntry(db_records[n])
    BY <2>4, <2>5 DEF EntryFor
  <2>7. Seen[n] = db_records[n] /\ n \in DOMAIN Seen
    BY SeenIs
  <2>8. Seen[n].fpath = p
    BY <2>3, <2>6, <2>7 DEF FileEntry, Entry
  <2>9. Seen[n].fd = Seen[i].fd /\ Seen[n].fmode = Seen[i].fmode
    BY <2>2, <2>7, <2>8 DEF IsTree
  <2>10. fs_structure.array[k] = Entry(Seen[i].fpath, Seen[i].fd, Seen[i].fmode)
    BY <2>2, <2>6, <2>7, <2>8, <2>9 DEF FileEntry
  <2>11. EntriesOf(fs_structure, p) = {fs_structure.array[k]}
    BY <2>3, FoundEntry
  <2> QED
    BY <2>2, <2>10, <2>11
<1>2. ASSUME NEW d \in Dirs
      PROVE  EntriesOf(fs_structure, d) = {Entry(d, -1, "dir")}
  <2>1. PICK k : FoundAt(fs_structure, d, k) /\ fs_structure.array[k].path = d
    BY FoundOwn
  <2>2. PICK n \in 1 .. done : EntryFor(fs_structure.array[k], db_records[n])
    BY <2>1, FoundEntry
  <2>3. fs_structure.array[k] # FileEntry(db_records[n])
    <3> SUFFICES ASSUME fs_structure.array[k] = FileEntry(db_records[n]) PROVE FALSE
      OBVIOUS
    <3>1. db_records[n].fpath = d
      BY <2>1 DEF FileEntry, Entry
    <3>2. d \in Files
      BY <3>1, MentionedIs
    <3> QED
      BY <3>2 DEF IsTree
  <2>4. PICK p : fs_structure.array[k] = DirEntry(p)
    BY <2>2, <2>3 DEF EntryFor
  <2>5. fs_structure.array[k] = Entry(d, -1, "dir")
    BY <2>1, <2>4 DEF DirEntry, Entry
  <2>6. EntriesOf(fs_structure, d) = {fs_structure.array[k]}
    BY <2>1, FoundEntry
  <2> QED
    BY <2>5, <2>6
<1> QED
  BY <1>1, <1>2 DEF LookupsExact

LEMMA ExactIsTree ==
  ASSUME FillIInv, LookupsExact
  PROVE  IsTree
<1>1. ASSUME NEW j \in DOMAIN Seen, NEW k \in DOMAIN Seen, Seen[j].fpath = Seen[k].fpath
      PROVE  Seen[j].fd = Seen[k].fd /\ Seen[j].fmode = Seen[k].fmode
  <2>1. Entry(Seen[j].fpath, Seen[j].fd, Seen[j].fmode)
          = Entry(Seen[k].fpath, Seen[k].fd, Seen[k].fmode)
    BY <1>1 DEF LookupsExact
  <2> QED
    BY <2>1 DEF Entry
<1>2. ASSUME NEW p \in Files, p \in Dirs PROVE FALSE
  <2>1. PICK k \in DOMAIN Seen : p = Seen[k].fpath
    BY DEF Files
  <2>2. Entry(p, Seen[k].fd, Seen[k].fmode) = Entry(p, -1, "dir")
    BY <1>2, <2>1 DEF LookupsExact
  <2>3. Seen[k].fmode = "dir"
    BY <2>2 DEF Entry
  <2>4. Seen[k].fmode \in {"r", "w"}
    BY SeenIs DEF IsRecord
  <2> QED
    BY <2>3, <2>4
<1> QED
  BY <1>1, <1>2 DEF IsTree

LEMMA ExactPrefixesFirst ==
  ASSUME FillIInv, LookupsExact
  PROVE  PrefixesFirst
<1> SUFFICES ASSUME NEW p \in Files \cup Dirs, NEW q \in Files \cup Dirs,
                    IsStrictPrefix(p, q), p \notin DirsOf(q)
             PROVE  FirstMention(p) <= FirstMention(q)
  BY DEF PrefixesFirst
<1>a. PICK t \in Tables : t = fs_structure
  BY DEF FillIInv
<1>b. PICK R : R = db_records
  OBVIOUS
<1>c. PICK m \in Nat : m = done
  BY RecordsTyped DEF FillIInv
<1>1. /\ t = fs_structure /\ R = db_records /\ m = done
      /\ Filled(t, R, m) /\ \A k \in 1 .. m : IsRecord(R[k])
  BY <1>a, <1>b, <1>c, SeenIs DEF FillIInv
<1>2. PICK f \in 1 .. m : f = FirstMention(q) /\ q \in Mentions(R[f].fpath)
  BY <1>1, FirstMentionIs
<1>3. PICK g \in 1 .. m : g = FirstMention(p) /\ p \in Mentions(R[g].fpath)
  BY <1>1, FirstMentionIs
<1>4. p \in Seq(STRING) /\ q \in Seq(STRING)
  BY <1>1, <1>2, <1>3, MentionFacts DEF IsRecord
  \* The entry that q finds begins with p too; that of p itself is not behind it.
<1>5. PICK l \in 0 .. Len(t.array) : Holds(t, R, f, l)
  BY <1>1 DEF Filled
<1>6. Begun(t, l, q)
  <2>1. f \in 1 .. f
    OBVIOUS
  <2> QED
    BY <1>2, <1>5, <2>1 DEF Holds
<1>7. Begun(t, l, p)
  <2>1. PICK i \in 1 .. l : IsPrefix(q, t.array[i].path)
    BY <1>6 DEF Begun
  <2>2. t.array[i].path \in Seq(STRING)
    <3>1. i \in 1 .. Len(t.array)
      BY TableTypes
    <3> QED
      BY <3>1, TableTypes DEF Entries
  <2>3. IsPrefix(p, t.array[i].path)
    BY <1>4, <2>1, <2>2, PrefixTrans DEF IsStrictPrefix
  <2> QED
    BY <2>3 DEF Begun
<1>8. PICK k \in 1 .. l : FoundAt(t, p, k)
  BY <1>7, BegunFound
<1>9. t.array[k].path = p
  <2>1. EntriesOf(t, p) = {t.array[k]}
    BY <1>8, EntriesOfIs
  <2>2. CASE p \in Files
    <3>1. PICK i \in DOMAIN Seen : p = Seen[i].fpath
      BY <2>2 DEF Files
    <3>2. t.array[k] = Entry(p, Seen[i].fd, Seen[i].fmode)
      BY <1>1, <2>1, <3>1 DEF LookupsExact
    <3> QED
      BY <3>2 DEF Entry
  <2>3. CASE p \in Dirs
    <3>1. t.array[k] = Entry(p, -1, "dir")
      BY <1>1, <2>1, <2>3 DEF LookupsExact
    <3> QED
      BY <3>1 DEF Entry
  <2> QED
    BY <2>2, <2>3
<1>10. PICK n \in 1 .. f : EntryFor(t.array[k], R[n])
  BY <1>5 DEF Holds
<1>11. p \in Mentions(R[n].fpath) /\ n \in 1 .. m
  BY <1>9, <1>10, EntryForPath
<1>12. g <= n
  BY <1>1, <1>3, <1>11, FirstMentionIs
<1> QED
  BY <1>2, <1>3, <1>12

\* Lookups compare no more than the path asked for, so that a file can be lost behind
\* another; they are exact for the databases that name prefixes first, of whatever
\* records and paths of whatever length, and for no others.
THEOREM LookupsExactFor == FillSpec => []ExactIffPrefixesFirst
<1>1. FillIInv => ExactIffPrefixesFirst
  BY PrefixesFirstExact, ExactIsTree, ExactPrefixesFirst DEF ExactIffPrefixesFirst
<1> QED
  BY <1>1, FillInvariance, PTL

-----------------------------------------------------------------------------
(* Listing a directory. *)

\* zvm_readdir goes through the entries in order.
IsListing(run, t, path, n) ==
  /\ run[0] = <<>>
  /\ \A i \in 1 .. n :
       run[i] = IF InDir(path, t.array[i]) THEN Append(run[i - 1], t.array[i])
                ELSE run[i - 1]

LEMMA ReadDirRun ==
  ASSUME NEW t \in Tables, NEW path, NEW n \in Nat, n = Len(t.array)
  PROVE  \E run \in [0 .. n -> Seq(Entries)] :
           IsListing(run, t, path, n) /\ ReadDir(t, path) = run[n]
<1> DEFINE D == 1 .. n
           V == Seq(Entries)
           a == t.array
           c == [T \in SUBSET D |-> Max(T)]
           step == [x \in D |-> [v \in V |-> IF InDir(path, a[x]) THEN Append(v, a[x]) ELSE v]]
           def(i) == [T \in SUBSET D |->
                        IF T = {} THEN <<>>
                        ELSE IF InDir(path, a[Max(T)])
                             THEN Append(i[T \ {Max(T)}], a[Max(T)])
                             ELSE i[T \ {Max(T)}]]
           iter == CHOOSE i : i = def(i)
<1>1. DOMAIN a = D /\ \A k \in D : a[k] \in Entries
  BY TableTypes
<1>2. ReadDir(t, path) = iter[D]
  BY <1>1, Zenon DEF ReadDir, FoldLeft, MapThenFoldSet
<1>3. \A T \in SUBSET D : T # {} => Max(T) \in T
  BY HighestPlace
<1> HIDE DEF a
<1>4. \A x \in D, v \in V : (IF InDir(path, a[x]) THEN Append(v, a[x]) ELSE v) \in V
  BY <1>1
<1>5. <<>> \in V /\ IsFiniteSet(D)
  BY FirstNumbers
<1>6. /\ \A T \in SUBSET D : c[T] = Max(T)
      /\ \A T \in SUBSET D : T # {} => c[T] \in T
      /\ \A x \in D, v \in V :
           /\ step[x][v] \in V
           /\ step[x][v] = IF InDir(path, a[x]) THEN Append(v, a[x]) ELSE v
  <2> HIDE DEF V
  <2> QED
    BY <1>3, <1>4
<1>7. Folding(D, V, <<>>, c, step)
  <2> HIDE DEF D, V, c, step
  <2> QED
    BY <1>5, <1>6 DEF Folding
<1>8. PICK g \in [SUBSET D -> V] : IsFold(g, D, V, <<>>, c, step)
  BY <1>7, FoldExists
<1> HIDE DEF V, c, step
<1>9. PICK r : r = [T \in SUBSET D |-> g[T]]
  OBVIOUS
<1>10. \A T \in SUBSET D : r[T] = g[T] /\ g[T] \in V
  BY <1>9
<1>11. ASSUME NEW T \in SUBSET D, T # {}
       PROVE  r[T] = IF InDir(path, a[Max(T)]) THEN Append(r[T \ {Max(T)}], a[Max(T)])
                     ELSE r[T \ {Max(T)}]
  <2>1. Max(T) \in D /\ c[T] = Max(T) /\ T \ {Max(T)} \in SUBSET D
    <3>1. c[T] = Max(T) /\ Max(T) \in T
      BY <1>3, <1>6, <1>11
    <3> QED
      BY ONLY <3>1, T \in SUBSET D
  <2>2. g[T] = step[Max(T)][g[T \ {Max(T)}]]
    BY <1>8, <1>10, <1>11, <2>1 DEF IsFold
  <2> QED
    BY <1>6, <1>10, <2>1, <2>2
<1>12. r = def(r)
  <2>1. r[{}] = <<>>
    BY <1>8, <1>10 DEF IsFold
  <2>2. \A T \in SUBSET D : r[T] = IF T = {} THEN <<>>
          ELSE IF InDir(path, a[Max(T)]) THEN Append(r[T \ {Max(T)}], a[Max(T)])
               ELSE r[T \ {Max(T)}]
    BY <1>11, <2>1
  <2>3. r = [T \in SUBSET D |-> r[T]]
    BY <1>9
  <2> QED
    BY <2>2, <2>3
<1>13. iter = def(iter)
  <2> HIDE DEF def
  <2> QED
    BY <1>12
<1>14. IsFold(iter, D, V, <<>>, c, step)
  <2>1. iter[{}] = <<>>
    <3> HIDE DEF iter
    <3> QED
      BY <1>13
  <2>2. ASSUME NEW T \in SUBSET D, T # {}, iter[T \ {c[T]}] \in V
        PROVE  iter[T] = step[c[T]][iter[T \ {c[T]}]]
    <3>1. c[T] = Max(T) /\ c[T] \in D
      BY <1>6, <2>2
    <3>2. iter[T] = IF InDir(path, a[Max(T)]) THEN Append(iter[T \ {Max(T)}], a[Max(T)])
                    ELSE iter[T \ {Max(T)}]
      <4> HIDE DEF iter
      <4> QED
        BY <1>13, <2>2
    <3> HIDE DEF iter
    <3> QED
      BY <1>6, <2>2, <3>1, <3>2
  <2> HIDE DEF iter
  <2> QED
    BY <2>1, <2>2 DEF IsFold
<1> HIDE DEF def, iter
<1>15. PICK run \in [0 .. n -> V] :
         /\ run[0] = <<>>
         /\ \A i \in 1 .. n : run[i] = step[i][run[i - 1]]
         /\ run[n] = iter[D]
  BY <1>6, <1>7, <1>14, FoldRun
<1>16. ASSUME NEW i \in 1 .. n
       PROVE  run[i] = IF InDir(path, a[i]) THEN Append(run[i - 1], a[i]) ELSE run[i - 1]
  <2>1. run[i - 1] \in V
    <3>1. i - 1 \in 0 .. n
      OBVIOUS
    <3> QED
      BY <1>15, <3>1
  <2> QED
    BY <1>6, <1>15, <2>1
<1> QED
  BY <1>2, <1>15, <1>16 DEF V, a, IsListing

\* The listed entries are the first ones that are in the directory, each once.
Lists(s, t, path, i) ==
  /\ s \in Seq(Entries)
  /\ \A k \in 1 .. Len(s) : \E j \in 1 .. i : InDir(path, t.array[j]) /\ s[k] = t.array[j]
  /\ \A j \in 1 .. i : InDir(path, t.array[j]) => \E k \in 1 .. Len(s) : s[k] = t.array[j]
  /\ \A h, k \in 1 .. Len(s) : s[h] = s[k] => h = k

LEMMA ListsNext ==
  ASSUME NEW t \in Tables, NEW path, NEW i \in Nat, NEW j \in 1 .. Len(t.array), j = i + 1,
         \A k \in 1 .. i : t.array[k] # t.array[j],
         NEW s, Lists(s, t, path, i)
  PROVE  Lists(IF InDir(path, t.array[j]) THEN Append(s, t.array[j]) ELSE s, t, path, j)
<1>1. \A k \in 1 .. j : k \in 1 .. i \/ k = j
  OBVIOUS
<1>2. j \in 1 .. j /\ \A k \in 1 .. i : k \in 1 .. j
  OBVIOUS
<1>3. PICK e : e = t.array[j] /\ e \in Entries
  BY TableTypes
<1>4. CASE ~ InDir(path, e)
  BY <1>1, <1>2, <1>3, <1>4 DEF Lists
<1>5. CASE InDir(path, e)
  <2>1. s \in Seq(Entries)
    BY DEF Lists
  <2>2. PICK m \in Nat : m = Len(s)
    BY <2>1
  <2>3. PICK u : u = Append(s, e)
    OBVIOUS
  <2>4. /\ u \in Seq(Entries) /\ Len(u) = m + 1
        /\ \A k \in 1 .. m : u[k] = s[k]
        /\ u[m + 1] = e
    BY <1>3, <2>1, <2>2, <2>3, AppendProperties
  <2>5. \A k \in 1 .. m + 1 : k \in 1 .. m \/ k = m + 1
    OBVIOUS
  <2>6. m + 1 \in 1 .. m + 1 /\ \A k \in 1 .. m : k \in 1 .. m + 1 /\ k # m + 1
    OBVIOUS
  <2>7. ASSUME NEW k \in 1 .. m + 1
        PROVE  \E h \in 1 .. j : InDir(path, t.array[h]) /\ u[k] = t.array[h]
    <3>1. CASE k = m + 1
      BY <1>2, <1>3, <1>5, <2>4, <3>1
    <3>2. CASE k # m + 1
      <4>1. k \in 1 .. m
        BY <2>5, <3>2
      <4>2. PICK h \in 1 .. i : InDir(path, t.array[h]) /\ s[k] = t.array[h]
        BY <2>2, <4>1 DEF Lists
      <4> QED
        BY <1>2, <2>4, <4>1, <4>2
    <3> QED
      BY <3>1, <3>2
  <2>8. ASSUME NEW h \in 1 .. j, InDir(path, t.array[h])
        PROVE  \E k \in 1 .. m + 1 : u[k] = t.array[h]
    <3>1. CASE h = j
      BY <1>3, <2>4, <2>6, <3>1
    <3>2. CASE h # j
      <4>1. PICK k \in 1 .. m : s[k] = t.array[h]
        BY <1>1, <2>2, <2>8, <3>2 DEF Lists
      <4> QED
        BY <2>4, <2>6, <4>1
    <3> QED
      BY <3>1, <3>2
  <2>9. \A k \in 1 .. m : s[k] # e
    BY <1>3, <2>2 DEF Lists
  <2>10. ASSUME NEW h \in 1 .. m + 1, NEW k \in 1 .. m + 1, u[h] = u[k]
         PROVE  h = k
    BY <2>2, <2>4, <2>5, <2>9, <2>10 DEF Lists
  <2>11. Lists(u, t, path, j)
    BY <2>4, <2>7, <2>8, <2>10 DEF Lists
  <2> QED
    BY <1>3, <1>5, <2>3, <2>11
<1> QED
  BY <1>3, <1>4, <1>5

LEMMA ReadDirLists ==
  ASSUME NEW t \in Tables, NEW path, NEW n \in Nat, n = Len(t.array),
         \A j \in 1 .. n : InOrder(t, j)
  PROVE  Lists(ReadDir(t, path), t, path, n)
<1>1. PICK run \in [0 .. n -> Seq(Entries)] :
        IsListing(run, t, path, n) /\ ReadDir(t, path) = run[n]
  BY ReadDirRun
<1>2. ASSUME NEW j \in 1 .. n, NEW k \in 1 .. j - 1 PROVE t.array[k] # t.array[j]
  <2> SUFFICES ASSUME t.array[k] = t.array[j] PROVE FALSE
    OBVIOUS
  <2>1. t.array[j].path \in Seq(STRING)
    BY TableTypes DEF Entries
  <2>2. Begun(t, j - 1, t.array[j].path)
    BY <2>1, PrefixOfItself DEF Begun
  <2> QED
    BY <2>2 DEF InOrder
<1> DEFINE N == {i \in Nat : i <= n => Lists(run[i], t, path, i)}
<1>3. 0 \in N
  <2>1. <<>> \in Seq(Entries) /\ Len(<<>>) = 0
    OBVIOUS
  <2>2. Lists(<<>>, t, path, 0)
    BY <2>1 DEF Lists
  <2> QED
    BY <1>1, <2>2 DEF IsListing
<1>4. ASSUME NEW i \in Nat, i \in N PROVE i + 1 \in N
  <2>1. SUFFICES ASSUME i + 1 <= n PROVE Lists(run[i + 1], t, path, i + 1)
    OBVIOUS
  <2>2. PICK j \in 1 .. n : j = i + 1 /\ j - 1 = i
    BY <2>1
  <2>3. PICK s : s = run[i] /\ Lists(s, t, path, i)
    BY <1>4, <2>1
  <2>4. run[j] = IF InDir(path, t.array[j]) THEN Append(s, t.array[j]) ELSE s
    BY <1>1, <2>2, <2>3 DEF IsListing
  <2>5. \A k \in 1 .. i : t.array[k] # t.array[j]
    BY <1>2, <2>2
  <2>6. Lists(IF InDir(path, t.array[j]) THEN Append(s, t.array[j]) ELSE s, t, path, j)
    BY <2>2, <2>3, <2>5, ListsNext
  <2> QED
    BY <2>2, <2>4, <2>6
<1> HIDE DEF N
<1>5. n \in N
  BY <1>3, <1>4, NumberInduction
<1> QED
  BY <1>1, <1>5 DEF N

-----------------------------------------------------------------------------
(* The children of a directory. *)

\* Behind a directory above a path, but for the root, there is a separator.
LEMMA LensEnd ==
  ASSUME NEW path, NEW m \in Nat, NEW g, IsLens(g, path, m)
  PROVE  \A n \in 0 .. m : \A i \in 1 .. Len(g[n]) : g[n][i] <= 1 \/ path[g[n][i] + 1] = "/"
<1> DEFINE Ended(n) == \A i \in 1 .. Len(g[n]) : g[n][i] <= 1 \/ path[g[n][i] + 1] = "/"
           T == {n \in 0 .. m : ~ Ended(n)}
<1>1. SUFFICES ASSUME T # {} PROVE FALSE
  OBVIOUS
<1>2. PICK n \in T : \A x \in T : n <= x
  <2>1. T \in SUBSET Nat
    OBVIOUS
  <2> QED
    BY <1>1, <2>1, LeastNumber
<1>3. n \in 0 .. m /\ ~ Ended(n)
  OBVIOUS
<1>4. CASE Slashes(path, n) = {}
  <2>1. g[n] = <<>>
    BY <1>3, <1>4 DEF IsLens
  <2> QED
    BY <1>3, <2>1
<1>5. CASE Slashes(path, n) # {}
  <2>1. PICK d \in 0 .. n - 1 : d = DirLen(path, n)
    BY <1>3, <1>5, DirLenLess
  <2>2. d <= 1 \/ path[d + 1] = "/"
    <3>1. PICK x : x = Max(Slashes(path, n))
      OBVIOUS
    <3>2. x \in 1 .. n /\ path[x] = "/"
      <4>1. Slashes(path, n) \in SUBSET (1 .. n) /\ n \in Nat
        BY <1>3 DEF Slashes
      <4>2. x \in Slashes(path, n)
        <5> HIDE DEF T
        <5> QED
          BY <1>5, <3>1, <4>1, HighestPlace
      <4> QED
        BY <4>2 DEF Slashes
    <3>3. d = IF x = 1 /\ n > 1 THEN 1 ELSE x - 1
      BY <2>1, <3>1 DEF DirLen
    <3> QED
      BY <3>2, <3>3
  <2>3. d \in 0 .. m /\ ~ (n <= d)
    BY <1>3
  <2>4. Ended(d)
    BY <1>2, <2>3
  <2>5. PICK s \in Seq(Nat) : s = g[d]
    BY <2>3, LensNested DEF Nested
  <2>6. PICK t : t = Append(s, d)
    OBVIOUS
  <2>7. g[n] = t
    BY <1>3, <1>5, <2>1, <2>5, <2>6 DEF IsLens
  <2>8. /\ Len(t) = Len(s) + 1 /\ Len(s) \in Nat
        /\ \A i \in 1 .. Len(s) : t[i] = s[i]
        /\ t[Len(s) + 1] = d
    BY <2>6, AppendProperties
  <2>9. ASSUME NEW i \in 1 .. Len(s) + 1 PROVE t[i] <= 1 \/ path[t[i] + 1] = "/"
    <3>0. i \in 1 .. Len(s) \/ i = Len(s) + 1
      <4>1. PICK l \in Nat : l = Len(s)
        BY <2>8
      <4>2. i \in 1 .. l + 1
        BY <4>1
      <4>3. i \in 1 .. l \/ i = l + 1
        BY ONLY <4>2, l \in Nat
      <4> QED
        BY <4>1, <4>3
    <3>1. CASE i \in 1 .. Len(s)
      <4>1. t[i] = s[i]
        BY <2>8, <3>1
      <4>2. s[i] <= 1 \/ path[s[i] + 1] = "/"
        BY <2>4, <2>5, <3>1
      <4> QED
        BY <4>1, <4>2
    <3>2. CASE i = Len(s) + 1
      BY <2>2, <2>8, <3>2
    <3> QED
      BY <3>0, <3>1, <3>2
  <2>10. Ended(n)
    BY <2>7, <2>8, <2>9
  <2> QED
    BY <1>3, <2>10
<1> QED
  BY <1>4, <1>5

LEMMA SubDirEnd ==
  ASSUME NEW path \in Seq(STRING), NEW lens, lens = SubDirLens(path),
         NEW i \in 1 .. Len(lens)
  PROVE  lens[i] <= 1 \/ path[lens[i] + 1] = "/"
<1>1. PICK m \in Nat : m = Len(path)
  OBVIOUS
<1>2. PICK g : IsLens(g, path, m) /\ SubDirLens(path) = g[m]
  BY <1>1, SubDirLensIs
<1>3. m \in 0 .. m
  OBVIOUS
<1>4. \A j \in 1 .. Len(g[m]) : g[m][j] <= 1 \/ path[g[m][j] + 1] = "/"
  BY <1>2, <1>3, LensEnd
<1> QED
  BY <1>2, <1>4

\* The innermost directory comes last.
LEMMA SubDirLast ==
  ASSUME NEW path \in Seq(STRING), NEW m \in Nat, m = Len(path), Slashes(path, m) # {}
  PROVE  Last(SubDirLens(path)) = DirLen(path, m)
<1>1. PICK g : IsLens(g, path, m) /\ SubDirLens(path) = g[m]
  BY SubDirLensIs
<1>2. m \in 0 .. m
  OBVIOUS
<1>3. PICK d \in 0 .. m - 1 : d = DirLen(path, m)
  BY DirLenLess
<1>4. d \in 0 .. m
  OBVIOUS
<1>5. PICK s \in Seq(Nat) : s = g[d]
  BY <1>1, <1>4, LensNested DEF Nested
<1>6. PICK t : t = Append(s, d)
  OBVIOUS
<1>7. SubDirLens(path) = t
  BY <1>1, <1>2, <1>3, <1>5, <1>6 DEF IsLens
<1>8. Len(t) = Len(s) + 1 /\ t[Len(s) + 1] = d
  BY <1>6, AppendProperties
<1>9. Last(t) = d
  BY <1>8 DEF Last
<1> QED
  BY <1>3, <1>7, <1>9

\* The root, or a path from it that ends in a name.
IsProper(p) ==
  /\ p \in Seq(STRING) /\ p # <<>>
  /\ p[1] = "/"
  /\ Len(p) = 1 \/ p[Len(p)] # "/"

LEMMA TidyMentions ==
  ASSUME NEW path \in Seq(STRING), path # <<>>, IsTidy(path), NEW p \in Mentions(path)
  PROVE  IsProper(p)
<1>1. PICK n \in Nat : n = Len(path) /\ n > 0
  OBVIOUS
<1>2. path[1] = "/" /\ path[n] # "/"
  BY <1>1 DEF IsTidy, Last
<1>3. CASE p = path
  BY <1>1, <1>2, <1>3 DEF IsProper
<1>4. CASE p \in DirsOf(path)
  <2>1. PICK lens : lens = SubDirLens(path)
    OBVIOUS
  <2>2. PICK i \in 1 .. Len(lens) : lens[i] # 0 /\ p = SubSeq(path, 1, lens[i])
    BY <1>4, <2>1, DirsOfIs DEF DirsAre
  <2>3. lens[i] \in 0 .. Len(path) - 1
    BY <2>1, SubDirFacts DEF OuterFirst
  <2>4. PICK l \in 1 .. n - 1 : l = lens[i] /\ l \in 0 .. Len(path)
    BY <1>1, <2>2, <2>3
  <2>5. p \in Seq(STRING) /\ Len(p) = l /\ \A k \in 1 .. l : p[k] = path[k]
    BY <2>2, <2>4, FirstNames
  <2>6. p[1] = "/" /\ p # <<>>
    BY <1>2, <2>5
  <2>7. l = 1 \/ p[l] # "/"
    <3>1. l <= 1 \/ path[l + 1] = "/"
      BY <2>1, <2>4, SubDirEnd
    <3>2. <<path[l], path[l + 1]>> # <<"/", "/">>
      BY <1>1, <2>4 DEF IsTidy
    <3> QED
      BY <2>4, <2>5, <3>1, <3>2
  <2> QED
    BY <2>5, <2>6, <2>7 DEF IsProper
<1> QED
  BY <1>3, <1>4 DEF Mentions

\* zvm_readdir finds the directory of a path as process_subdirs_via_callback does.
LEMMA InDirIs ==
  ASSUME NEW d, NEW p, IsProper(d), IsProper(p), NEW e, e.path = p
  PROVE  /\ InDir(d, e) <=> Last(SubDirLens(p)) = Len(d) /\ IsPrefix(d, p)
         /\ InDir(d, e) => p # d
<1>1. PICK n \in Nat, l \in Nat : n = Len(p) /\ l = Len(d) /\ n > 0 /\ l > 0
  BY DEF IsProper
<1>2. p \in Seq(STRING) /\ d \in Seq(STRING) /\ DOMAIN p = 1 .. n /\ p[1] = "/"
  BY <1>1 DEF IsProper
<1>3. 1 \in Slashes(p, n) /\ Slashes(p, n) = {k \in DOMAIN p : p[k] = "/"}
  BY <1>1, <1>2 DEF Slashes
<1>4. PICK x : x = Max(Slashes(p, n))
  OBVIOUS
<1>5. x \in 1 .. n /\ p[x] = "/"
  <2>1. Slashes(p, n) \in SUBSET (1 .. n)
    BY DEF Slashes
  <2>2. x \in Slashes(p, n)
    BY <1>3, <1>4, <2>1, HighestPlace
  <2> QED
    BY <2>2 DEF Slashes
<1>6. Last(SubDirLens(p)) = IF x = 1 /\ n > 1 THEN 1 ELSE x - 1
  BY <1>1, <1>2, <1>3, <1>4, SubDirLast DEF DirLen
<1>7. ParentLen(p) = IF x > 1 THEN x - 1 ELSE x
  BY <1>3, <1>4 DEF ParentLen
<1>8. Last(p) = p[n]
  BY <1>1 DEF Last
<1>9. "/" \in ToSet(p)
  BY <1>1, <1>2 DEF ToSet
<1>10. CASE n = 1
  BY <1>1, <1>2, <1>5, <1>6, <1>8, <1>10 DEF InDir
<1>11. CASE n > 1
  <2>1. p[n] # "/"
    BY <1>1, <1>11 DEF IsProper
  <2>2. x < n
    BY <1>5, <2>1
  <2>3. PICK y \in 1 .. n - 1 : y = ParentLen(p) /\ y = Last(SubDirLens(p))
    BY <1>5, <1>6, <1>7, <1>11, <2>2
  <2>4. InDir(d, e) <=> y = l /\ SubSeq(p, 1, l) = d
    BY <1>1, <1>8, <1>9, <2>1, <2>3 DEF InDir
  <2>5. ASSUME y = l PROVE SubSeq(p, 1, l) = d <=> IsPrefix(d, p)
    <3>1. l \in 0 .. Len(p)
      BY <1>1, <2>5
    <3>2. PICK a : a = SubSeq(p, 1, l)
      OBVIOUS
    <3>3. a \in Seq(STRING) /\ Len(a) = l /\ \A i \in 1 .. l : a[i] = p[i]
      BY <1>2, <3>1, <3>2, FirstNames
    <3>4. a = d <=> \A i \in 1 .. l : d[i] = a[i]
      BY <1>1, <1>2, <3>3
    <3>5. IsPrefix(d, p) <=> \A i \in 1 .. l : d[i] = p[i]
      BY <1>1, <1>2, <3>1, PrefixIs
    <3> QED
      BY <3>2, <3>3, <3>4, <3>5
  <2> QED
    BY <1>1, <2>3, <2>4, <2>5
<1> QED
  BY <1>1, <1>10, <1>11

LEMMA ProperMentions ==
  ASSUME FillIInv, \A path \in Files : IsTidy(path), NEW p \in Files \cup Dirs
  PROVE  IsProper(p)
<1>1. PICK k \in 1 .. done : p \in Mentions(db_records[k].fpath)
  BY MentionedIs
<1>2. PICK path : path = db_records[k].fpath
  OBVIOUS
<1>3. path \in Files
  BY <1>2, MentionedIs
<1>4. path \in Seq(STRING) /\ path # <<>>
  <2>1. db_records \in Databases /\ done \in 0 .. Len(db_records)
    BY DEF FillIInv
  <2>2. k \in DOMAIN db_records
    BY <2>1, DatabasesAssumption
  <2> QED
    BY <1>2, <2>1, <2>2, DatabasesAssumption
<1> QED
  BY <1>1, <1>2, <1>3, <1>4, TidyMentions

LEMMA ChildrenListed ==
  ASSUME FillIInv, PrefixesFirst, \A path \in Files : IsTidy(path), NEW d \in Dirs,
         NEW s, s = ReadDir(fs_structure, d)
  PROVE  /\ {s[k].path : k \in DOMAIN s}
              = {p \in (Files \cup Dirs) \ {d} : Last(SubDirLens(p)) = Len(d) /\ IsPrefix(d, p)}
         /\ \A j, k \in DOMAIN s : s[j] = s[k] => j = k
<1>1. PICK t \in Tables : t = fs_structure
  BY DEF FillIInv
<1>2. PICK n \in Nat : n = Len(t.array)
  BY TableTypes
<1>3. \A j \in 1 .. n : InOrder(t, j)
  BY <1>1, <1>2 DEF FillIInv, Filled
<1>4. Lists(s, t, d, n)
  BY <1>1, <1>2, <1>3, ReadDirLists
<1>5. DOMAIN s = 1 .. Len(s)
  BY <1>4 DEF Lists
<1>6. \A p \in Files \cup Dirs : IsProper(p)
  BY ProperMentions
<1>7. ASSUME NEW k \in DOMAIN s
      PROVE  /\ s[k].path \in (Files \cup Dirs) \ {d}
             /\ Last(SubDirLens(s[k].path)) = Len(d) /\ IsPrefix(d, s[k].path)
  <2>1. PICK j \in 1 .. n : InDir(d, t.array[j]) /\ s[k] = t.array[j]
    BY <1>4, <1>5 DEF Lists
  <2>2. PICK i \in 1 .. done : EntryFor(t.array[j], db_records[i])
    BY <1>1, <1>2 DEF FillIInv, Filled, Holds
  <2>3. PICK p : p = t.array[j].path
    OBVIOUS
  <2>4. p \in Files \cup Dirs
    BY <2>2, <2>3, EntryForPath, MentionedIs
  <2>5. IsProper(p) /\ IsProper(d)
    BY <1>6, <2>4
  <2>6. p # d /\ Last(SubDirLens(p)) = Len(d) /\ IsPrefix(d, p)
    BY <2>1, <2>3, <2>5, InDirIs
  <2> QED
    BY <2>1, <2>3, <2>4, <2>6
<1>8. ASSUME NEW p \in Files \cup Dirs, Last(SubDirLens(p)) = Len(d), IsPrefix(d, p)
      PROVE  \E k \in DOMAIN s : s[k].path = p
  <2>1. PICK j \in 1 .. n : t.array[j].path = p
    BY <1>1, <1>2, FoundOwn
  <2>2. IsProper(p) /\ IsProper(d)
    BY <1>6
  <2>3. InDir(d, t.array[j])
    BY <1>8, <2>1, <2>2, InDirIs
  <2>4. PICK k \in 1 .. Len(s) : s[k] = t.array[j]
    BY <1>4, <2>3 DEF Lists
  <2> QED
    BY <1>5, <2>1, <2>4
<1>9. \A j, k \in DOMAIN s : s[j] = s[k] => j = k
  BY <1>4, <1>5 DEF Lists
<1> QED
  BY <1>7, <1>8, <1>9

\* A directory of a database that names prefixes first shows what is right below it, once
\* and nothing else, if names stand between single separators.
THEOREM DirsListed == FillSpec => []ListsChildren
<1>1. FillIInv => ListsChildren
  BY ChildrenListed, Zenon DEF ListsChildren
<1> QED
  BY <1>1, FillInvariance, PTL

-----------------------------------------------------------------------------
(* The file system, Vfs. *)

\* About intervals.
LEMMA RangeFrom ==
  ASSUME NEW a \in Nat, NEW b \in Nat, NEW j \in 0 .. b - 1, j >= a
  PROVE  j \in a .. b - 1
OBVIOUS

\* The types of what Vfs adds to the pool.
FsTypeOK ==
  /\ handle \in [Openers -> [path : Paths, flags : Flags] \cup {Closed}]
  /\ tempbuf \in [Indexes -> Openers \cup {"null", "junk"}]

\* As long as no file was shared, every open file has a slot, and no two programs
\* have files of one descriptor open.
Unshared ==
  "shared" \notin history =>
    \A o \in Openers : \A e \in FilesOf(o) :
      /\ SlotsByFd(e.fd) # {}
      /\ Users(e.fd) = {o}

FsIInv ==
  /\ FsTypeOK
  /\ NothingLeaks
  /\ Unshared
  /\ RestIsOfUser

-----------------------------------------------------------------------------
\* A lookup finds one file at most.
LEMMA OneFile ==
  ASSUME NEW o \in Openers, FsTypeOK, NEW e \in FilesOf(o), NEW f \in FilesOf(o)
  PROVE  e = f
<1>1. IsOpen(o) /\ handle[o].path \in Paths
  BY DEF FilesOf, IsOpen, FsTypeOK
<1> DEFINE path == handle[o].path
<1>2. e \in EntriesOf(Structure, path) /\ f \in EntriesOf(Structure, path)
  BY <1>1 DEF FilesOf, FilesAt
<1>3. PICK i \in ByPath(Structure, path), j \in ByPath(Structure, path) :
        e = Structure.array[i] /\ f = Structure.array[j]
  BY <1>2 DEF EntriesOf
<1>4. i = j
  BY <1>3 DEF ByPath
<1> QED
  BY <1>3, <1>4

\* The same after a step.
LEMMA OneFileNext ==
  ASSUME NEW o \in Openers, FsTypeOK', NEW e \in FilesOf(o)', NEW f \in FilesOf(o)'
  PROVE  e = f
<1>1. handle'[o] # Closed /\ handle'[o].path \in Paths
  BY DEF FilesOf, IsOpen, FsTypeOK
<1> DEFINE path == handle'[o].path
<1>2. e \in EntriesOf(Structure, path) /\ f \in EntriesOf(Structure, path)
  BY <1>1 DEF FilesOf, IsOpen, FilesAt
<1>3. PICK i \in ByPath(Structure, path), j \in ByPath(Structure, path) :
        e = Structure.array[i] /\ f = Structure.array[j]
  BY <1>2 DEF EntriesOf
<1>4. i = j
  BY <1>3 DEF ByPath
<1> QED
  BY <1>3, <1>4

\* Every step of the file system is one of the pool, or leaves the pool alone.
LEMMA PoolStep ==
  ASSUME [FsNext]_fsVars
  PROVE  [Next]_vars
<1>1. ASSUME NEW fd, OpenSockf(fd) PROVE Next
  <2>1. fd \in Fds
    BY <1>1, RecordOfFacts DEF OpenSockf
  <2> QED
    BY <1>1, <2>1 DEF Next
<1>2. ASSUME NEW o \in Openers, NEW path \in Paths, NEW flags \in Flags,
             Open(o, path, flags)
      PROVE  [Next]_vars
  BY <1>1, <1>2 DEF Open, OpenAgain, OpenFirst
<1>3. ASSUME NEW o \in Openers, Read(o) PROVE [Next]_vars
  BY <1>3 DEF Read
<1>4. ASSUME NEW o \in Openers, Release(o) PROVE [Next]_vars
  <2>1. \/ UNCHANGED vars
        \/ \E k \in Live : CloseSockf(k)
    BY <1>4 DEF Release, SlotsByFd
  <2> QED
    BY <2>1 DEF Next, Live
<1>5. CASE OpenDenied
  BY <1>1, <1>5 DEF OpenDenied
<1>6. CASE Unmount
  BY <1>6 DEF Unmount, Next
<1>7. CASE UNCHANGED fsVars
  BY <1>7 DEF fsVars, vars
<1> QED
  BY <1>2, <1>3, <1>4, <1>5, <1>6, <1>7 DEF FsNext

\* The callbacks use the pool as SockPool's specification says.
THEOREM FsUsesPool == FsSpec => ImplementsPool
<1>1. FsInit => Init
  BY DEF FsInit
<1>2. [FsNext]_fsVars => [Next]_vars
  BY PoolStep
<1> QED
  BY <1>1, <1>2, PTL DEF FsSpec, ImplementsPool, Spec

\* What is proved of the pool holds of the pool of the file system.
LEMMA PoolInvariance == FsSpec => []IInv
BY FsUsesPool, Invariance, PTL DEF ImplementsPool

-----------------------------------------------------------------------------
\* A program that opens a file changes the files of no other.
LEMMA OpenFilesOf ==
  ASSUME FsTypeOK, NEW o \in Openers, NEW path \in Paths, NEW flags \in Flags,
         Open(o, path, flags)
  PROVE  /\ handle' \in [Openers -> [path : Paths, flags : Flags] \cup {Closed}]
         /\ FilesOf(o) = {}
         /\ FilesOf(o)' = FilesAt[path]
         /\ \A p \in Openers \ {o} : FilesOf(p)' = FilesOf(p)
<1> DEFINE h == [path |-> path, flags |-> flags]
<1>1. h \in [path : Paths, flags : Flags] /\ h # Closed /\ h.path = path
  BY OpenersAssumption
<1>2. handle' = [handle EXCEPT ![o] = h] /\ handle[o] = Closed
  BY DEF Open, IsOpen
<1> HIDE DEF h
<1>3. handle'[o] = h /\ \A p \in Openers \ {o} : handle'[p] = handle[p]
  BY <1>2 DEF FsTypeOK
<1>4. handle' \in [Openers -> [path : Paths, flags : Flags] \cup {Closed}]
  BY <1>1, <1>2 DEF FsTypeOK
<1>5. FilesOf(o) = {}
  BY <1>2 DEF FilesOf, IsOpen
<1>6. FilesOf(o)' = FilesAt[path]
  BY <1>1, <1>3 DEF FilesOf, IsOpen
<1>7. \A p \in Openers \ {o} : FilesOf(p)' = FilesOf(p)
  BY <1>3 DEF FilesOf, IsOpen
<1> QED
  BY <1>4, <1>5, <1>6, <1>7

\* A program that releases its file has none, and changes the files of no other.
LEMMA ReleaseFilesOf ==
  ASSUME FsTypeOK, NEW o \in Openers, Release(o)
  PROVE  /\ handle' \in [Openers -> [path : Paths, flags : Flags] \cup {Closed}]
         /\ FilesOf(o)' = {}
         /\ \A p \in Openers \ {o} : FilesOf(p)' = FilesOf(p)
<1>1. handle' = [handle EXCEPT ![o] = Closed]
  BY DEF Release
<1>2. handle'[o] = Closed /\ \A p \in Openers \ {o} : handle'[p] = handle[p]
  BY <1>1 DEF FsTypeOK
<1>3. handle' \in [Openers -> [path : Paths, flags : Flags] \cup {Closed}]
  BY <1>1 DEF FsTypeOK
<1>4. FilesOf(o)' = {}
  BY <1>2 DEF FilesOf, IsOpen
<1>5. \A p \in Openers \ {o} : FilesOf(p)' = FilesOf(p)
  BY <1>2 DEF FilesOf, IsOpen
<1> QED
  BY <1>3, <1>4, <1>5

-----------------------------------------------------------------------------
(* An open of a file that has a slot. *)

\* A further open of a file that has a slot leaves the pool as it was.
LEMMA OpenAgainPreserves ==
  ASSUME IInv, FsIInv, NEW o \in Openers, NEW path \in Paths, NEW flags \in Flags,
         Open(o, path, flags), NEW e \in FilesAt[path], OpenAgain(e.fd),
         history' = history
            \cup (IF Users(e.fd) # {} THEN {"shared"} ELSE {})
            \cup (IF Cardinality(OpenFiles') > Granularity THEN {"crowded"} ELSE {})
  PROVE  FsIInv'
<1> USE DEF FsIInv
<1>1. /\ Indexes' = Indexes /\ Live' = Live
      /\ UNCHANGED <<sockf_array, context, tempbuf>>
      /\ SlotsByFd(e.fd) # {}
  BY DEF OpenAgain, vars, Indexes, Live
<1>2. \A p \in Openers : FilesOf(p) \subseteq FilesOf(p)'
  BY OpenFilesOf
<1>3. FsTypeOK'
  BY <1>1, OpenFilesOf DEF FsTypeOK
<1>4. \A fd : Users(fd) \subseteq Users(fd)'
  BY <1>2 DEF Users
<1>5. NothingLeaks'
  BY <1>1, <1>4 DEF NothingLeaks
<1>6. RestIsOfUser'
  BY <1>1, <1>4 DEF RestIsOfUser
<1>7. Unshared'
  <2>1. PICK k \in Live : sockf_array[k].fs_fd = e.fd
    BY <1>1 DEF SlotsByFd
  <2>2. Users(e.fd) # {}
    BY <2>1 DEF NothingLeaks
  <2>3. "shared" \in history'
    BY <2>2
  <2> QED
    BY <2>3 DEF Unshared
<1> QED
  BY <1>3, <1>5, <1>6, <1>7

\* A file that had no slot gets one, with a socket that no open file is left without.
LEMMA OpenFirstPreserves ==
  ASSUME IInv, IInv', FsIInv,
         NEW o \in Openers, NEW path \in Paths, NEW flags \in Flags,
         Open(o, path, flags), NEW e \in FilesAt[path], OpenFirst(e, flags),
         history' = history
            \cup (IF Users(e.fd) # {} THEN {"shared"} ELSE {})
            \cup (IF Cardinality(OpenFiles') > Granularity THEN {"crowded"} ELSE {})
  PROVE  FsIInv'
<1> USE DEF FsIInv
<1>1. PICK k \in Indexes' :
        /\ k \notin Live
        /\ Live' = Live \cup {k}
        /\ sockf_array'[k].fs_fd = e.fd
        /\ ~ sockf_array'[k].unused
        /\ \A j \in Live : sockf_array'[j] = sockf_array[j]
  BY OpenSockfFacts DEF OpenFirst
<1>2. context = "up" /\ context' = "up" /\ SlotsByFd(e.fd) = {}
  BY OpenSockfFacts DEF OpenFirst
<1>3. PICK junk \in [count_max .. count_max' - 1 -> {"null", "junk"}] :
        tempbuf' = [j \in 0 .. count_max' - 1 |->
          IF ~ sockf_array'[j].unused /\ sockf_array'[j].fs_fd = e.fd THEN "null"
          ELSE IF j < count_max THEN tempbuf[j] ELSE junk[j]]
  BY DEF OpenFirst, TempbufsAdded
<1>4. /\ Indexes = 0 .. count_max - 1 /\ Indexes' = 0 .. count_max' - 1
      /\ count_max \in Nat /\ count_max' \in Nat
  BY <1>2 DEF Indexes, IInv, TypeOK
<1>5. \A p \in Openers : FilesOf(p) \subseteq FilesOf(p)'
  BY OpenFilesOf
<1>6. \A fd : Users(fd) \subseteq Users(fd)'
  BY <1>5 DEF Users
<1>7. e \in FilesOf(o)' /\ o \in Users(e.fd)'
  BY OpenFilesOf DEF Users
<1>8. FsTypeOK'
  <2>1. ASSUME NEW j \in Indexes'
        PROVE  tempbuf'[j] \in Openers \cup {"null", "junk"}
    <3>1. CASE j < count_max
      BY <1>3, <1>4, <3>1 DEF FsTypeOK
    <3>2. CASE j >= count_max
      <4>1. j \in count_max .. count_max' - 1
        BY <1>4, <3>2, RangeFrom
      <4>2. tempbuf'[j] \in {"null", junk[j]}
        BY <1>3, <1>4, <3>2
      <4>3. junk[j] \in {"null", "junk"}
        BY <4>1
      <4> QED
        BY <4>2, <4>3
    <3> QED
      BY <1>4, <3>1, <3>2
  <2>2. tempbuf' \in [Indexes' -> Openers \cup {"null", "junk"}]
    BY <1>3, <1>4, <2>1
  <2> QED
    BY <2>2, OpenFilesOf DEF FsTypeOK
<1>9. NothingLeaks'
  <2>1. ASSUME NEW j \in Live' PROVE Users(sockf_array[j].fs_fd)' # {}
    BY <1>1, <1>6, <1>7, <2>1 DEF NothingLeaks
  <2> QED
    BY <1>2, <2>1 DEF NothingLeaks
<1>10. RestIsOfUser'
  <2>1. ASSUME NEW j \in Live'
        PROVE  tempbuf'[j] = "null" \/ tempbuf'[j] \in Users(sockf_array[j].fs_fd)'
    <3>1. CASE j = k
      BY <1>1, <1>3, <1>4, <3>1
    <3>2. CASE j \in Live
      <4>1. sockf_array'[j].fs_fd # e.fd
        BY <1>1, <1>2, <3>2 DEF SlotsByFd
      <4>2. j \in Indexes /\ j < count_max
        BY <1>4, <3>2 DEF Live
      <4>3. tempbuf'[j] = tempbuf[j]
        BY <1>3, <1>4, <2>1, <4>1, <4>2 DEF Live
      <4> QED
        BY <1>1, <1>6, <3>2, <4>3 DEF RestIsOfUser
    <3> QED
      BY <1>1, <3>1, <3>2
  <2> QED
    BY <2>1 DEF RestIsOfUser
<1>11. Unshared'
  <2>1. SUFFICES ASSUME "shared" \notin history',
                        NEW p \in Openers, NEW f \in FilesOf(p)'
                 PROVE  SlotsByFd(f.fd)' # {} /\ Users(f.fd)' = {p}
    BY DEF Unshared
  <2>2. "shared" \notin history /\ Users(e.fd) = {}
    BY <2>1
  <2>3. CASE p = o
    <3>1. f = e
      BY <1>7, <1>8, <2>1, <2>3, OneFileNext
    <3>2. k \in SlotsByFd(e.fd)'
      BY <1>1 DEF SlotsByFd
    <3>3. Users(e.fd)' = {o}
      <4>1. ASSUME NEW q \in Openers \ {o}, NEW g \in FilesOf(q)', g.fd = e.fd
            PROVE  FALSE
        BY <2>2, <4>1, OpenFilesOf DEF Users
      <4> QED
        BY <1>7, <4>1 DEF Users
    <3> QED
      BY <2>3, <3>1, <3>2, <3>3
  <2>4. CASE p # o
    <3>1. f \in FilesOf(p)
      BY <2>1, <2>4, OpenFilesOf
    <3>2. SlotsByFd(f.fd) # {} /\ Users(f.fd) = {p}
      BY <2>2, <3>1 DEF Unshared
    <3>3. f.fd # e.fd
      BY <2>2, <3>2
    <3>4. SlotsByFd(f.fd)' # {}
      BY <1>1, <3>2 DEF SlotsByFd
    <3>5. FilesOf(o)' = FilesAt[path] /\ \A g \in FilesAt[path] : g.fd = e.fd
      <4>1. \A g \in FilesOf(o)' : g = e
        BY <1>7, <1>8, OneFileNext
      <4> QED
        BY <4>1, OpenFilesOf
    <3>6. Users(f.fd)' = Users(f.fd)
      <4>1. o \notin Users(f.fd)' /\ o \notin Users(f.fd)
        BY <2>4, <3>2, <3>3, <3>5 DEF Users
      <4>2. \A q \in Openers \ {o} : q \in Users(f.fd)' <=> q \in Users(f.fd)
        BY OpenFilesOf DEF Users
      <4> QED
        BY <4>1, <4>2 DEF Users
    <3> QED
      BY <3>2, <3>4, <3>6
  <2> QED
    BY <2>3, <2>4
<1> QED
  BY <1>8, <1>9, <1>10, <1>11

-----------------------------------------------------------------------------
(* Reads and releases. *)

\* A read uses the slot of its file, and opens or closes none.
LEMMA ReadPreserves ==
  ASSUME IInv, FsIInv, NEW o \in Openers, Read(o)
  PROVE  FsIInv'
<1> USE DEF FsIInv
<1>1. /\ Indexes' = Indexes /\ Live' = Live
      /\ UNCHANGED <<sockf_array, context, handle, history>>
  BY DEF Read, vars, Indexes, Live
<1>2. /\ \A p \in Openers : FilesOf(p)' = FilesOf(p)
      /\ \A fd : Users(fd)' = Users(fd)
      /\ \A fd : SlotsByFd(fd)' = SlotsByFd(fd)
  BY <1>1 DEF FilesOf, IsOpen, Users, SlotsByFd
<1>3. PICK k \in SlotsFor(o, "r") :
        \E rest \in {tempbuf[k], "null", o} : tempbuf' = [tempbuf EXCEPT ![k] = rest]
  BY DEF Read
<1>4. k \in Live /\ k \in Indexes /\ o \in Users(sockf_array[k].fs_fd)
  BY <1>3 DEF SlotsFor, SlotsByFd, Users, Live
<1>5. /\ tempbuf'[k] \in {tempbuf[k], "null", o}
      /\ \A j \in Indexes \ {k} : tempbuf'[j] = tempbuf[j]
      /\ tempbuf' \in [Indexes -> Openers \cup {"null", "junk"}]
  BY <1>3, <1>4 DEF FsTypeOK
<1>6. FsTypeOK'
  BY <1>1, <1>5 DEF FsTypeOK
<1>7. NothingLeaks'
  BY <1>1, <1>2 DEF NothingLeaks
<1>8. Unshared'
  BY <1>1, <1>2 DEF Unshared
<1>9. RestIsOfUser'
  <2>1. ASSUME NEW j \in Live
        PROVE  tempbuf'[j] = "null" \/ tempbuf'[j] \in Users(sockf_array[j].fs_fd)
    <3>1. CASE j = k
      BY <1>3, <1>4, <1>5, <3>1 DEF RestIsOfUser
    <3>2. CASE j # k
      BY <1>5, <3>2 DEF RestIsOfUser, Live
    <3> QED
      BY <3>1, <3>2
  <2> QED
    BY <1>1, <1>2, <2>1 DEF RestIsOfUser
<1> QED
  BY <1>6, <1>7, <1>8, <1>9

\* A release.
LEMMA ReleasePreserves ==
  ASSUME IInv, FsIInv, NEW o \in Openers, Release(o)
  PROVE  FsIInv'
<1> USE DEF FsIInv
<1>1. PICK e \in FilesOf(o) :
        IF SlotsByFd(e.fd) = {}
        THEN UNCHANGED <<vars, tempbuf>>
        ELSE \E k \in SlotsByFd(e.fd) : CloseSockf(k) /\ TempbufsClosed(k)
  BY DEF Release
<1>2. \A fd : fd # e.fd => Users(fd)' = Users(fd)
  <2>1. ASSUME NEW fd, fd # e.fd, NEW p \in Openers
        PROVE  (\E f \in FilesOf(p)' : f.fd = fd) <=> (\E f \in FilesOf(p) : f.fd = fd)
    <3>1. CASE p = o
      BY <1>1, <2>1, <3>1, ReleaseFilesOf, OneFile
    <3>2. CASE p # o
      BY <3>2, ReleaseFilesOf
    <3> QED
      BY <3>1, <3>2
  <2> QED
    BY <2>1 DEF Users
<1>3. \A k \in Live' :
        /\ k \in Live
        /\ k \in Indexes'
        /\ sockf_array'[k].fs_fd = sockf_array[k].fs_fd
        /\ sockf_array'[k].fs_fd # e.fd
        /\ tempbuf'[k] = tempbuf[k]
  <2>1. CASE SlotsByFd(e.fd) = {}
    BY <1>1, <2>1 DEF vars, SlotsByFd, Live, Indexes
  <2>2. CASE SlotsByFd(e.fd) # {}
    <3>1. PICK k \in SlotsByFd(e.fd) : CloseSockf(k) /\ TempbufsClosed(k)
      BY <1>1, <2>2
    <3>2. k \in Live /\ sockf_array[k].fs_fd = e.fd
      BY <3>1 DEF SlotsByFd
    <3>3. /\ Live' = Live \ {k}
          /\ \A j \in Live \ {k} : sockf_array'[j] = sockf_array[j]
      BY <3>1, <3>2, CloseSockfFacts DEF IInv, Freed
    <3>4. \A j \in Indexes \ {k} : tempbuf'[j] = tempbuf[j]
      BY <3>1 DEF TempbufsClosed, FsTypeOK
    <3> QED
      BY <3>2, <3>3, <3>4, OneSlot DEF Live
  <2> QED
    BY <2>1, <2>2
<1>4. \A k \in Live : sockf_array[k].fs_fd # e.fd => k \in Live'
  <2>1. CASE SlotsByFd(e.fd) = {}
    BY <1>1, <2>1 DEF vars, Live, Indexes
  <2>2. CASE SlotsByFd(e.fd) # {}
    BY <1>1, <2>2, CloseSockfFacts DEF IInv, SlotsByFd, Freed
  <2> QED
    BY <2>1, <2>2
<1>5. FsTypeOK'
  <2>1. Indexes' = Indexes
    BY <1>1 DEF vars, Indexes, CloseSockf
  <2>2. tempbuf' \in [Indexes -> Openers \cup {"null", "junk"}]
    BY <1>1 DEF FsTypeOK, TempbufsClosed
  <2> QED
    BY <2>1, <2>2, ReleaseFilesOf DEF FsTypeOK
<1>6. NothingLeaks'
  <2>1. context' = context
    BY <1>1 DEF vars, CloseSockf
  <2> QED
    BY <1>2, <1>3, <2>1 DEF NothingLeaks
<1>7. RestIsOfUser'
  BY <1>2, <1>3 DEF RestIsOfUser
<1>8. Unshared'
  <2>1. SUFFICES ASSUME "shared" \notin history',
                        NEW p \in Openers, NEW f \in FilesOf(p)'
                 PROVE  SlotsByFd(f.fd)' # {} /\ Users(f.fd)' = {p}
    BY DEF Unshared
  <2>2. "shared" \notin history
    BY <2>1 DEF Release
  <2>3. p # o /\ f \in FilesOf(p)
    BY <2>1, ReleaseFilesOf
  <2>4. SlotsByFd(f.fd) # {} /\ Users(f.fd) = {p}
    BY <2>2, <2>3 DEF Unshared
  <2>5. o \in Users(e.fd)
    BY <1>1 DEF Users
  <2>6. f.fd # e.fd
    BY <2>3, <2>4, <2>5
  <2>7. PICK k \in Live : sockf_array[k].fs_fd = f.fd
    BY <2>4 DEF SlotsByFd
  <2>8. k \in SlotsByFd(f.fd)'
    BY <1>3, <1>4, <2>6, <2>7 DEF SlotsByFd
  <2> QED
    BY <1>2, <2>4, <2>6, <2>8
<1> QED
  BY <1>5, <1>6, <1>7, <1>8

\* The end of the mount.
LEMMA UnmountPreserves ==
  ASSUME IInv, FsIInv, Unmount
  PROVE  FsIInv'
<1> USE DEF FsIInv
<1>1. \A o \in Openers : FilesOf(o) = {}
  BY DEF Unmount, FilesOf
<1>2. Live = {}
  BY <1>1 DEF NothingLeaks, Users
<1>3. opened = {}
  BY <1>2 DEF IInv, SocketsMatchSlots, Unmount, ZeromqTerm
<1>4. /\ context' = "destroyed"
      /\ Indexes' = {} /\ Live' = {}
      /\ tempbuf' = [k \in {} |-> k]
      /\ UNCHANGED <<handle, history>>
  BY <1>3 DEF Unmount, ZeromqTerm, Indexes, Live
<1>5. \A o \in Openers : FilesOf(o)' = {}
  BY <1>1, <1>4 DEF FilesOf, IsOpen
<1> QED
  BY <1>4, <1>5 DEF FsTypeOK, NothingLeaks, Unshared, RestIsOfUser

\* A step that changes nothing of what the invariant is about.
LEMMA StutterPreserves ==
  ASSUME FsIInv, UNCHANGED fsVars
  PROVE  FsIInv'
<1>1. UNCHANGED <<count_max, sockf_array, opened, context, tempbuf, handle, history>>
  BY DEF fsVars
<1>2. Indexes' = Indexes /\ Live' = Live
  BY <1>1 DEF Indexes, Live
<1>3. \A fd : Users(fd)' = Users(fd) /\ SlotsByFd(fd)' = SlotsByFd(fd)
  BY <1>1, <1>2 DEF Users, FilesOf, IsOpen, SlotsByFd
<1>4. \A o \in Openers : FilesOf(o)' = FilesOf(o)
  BY <1>1 DEF FilesOf, IsOpen
<1> QED
  BY <1>1, <1>2, <1>3, <1>4 DEF FsIInv, FsTypeOK, NothingLeaks, Unshared, RestIsOfUser

\* The invariant of the file system over its pool.
THEOREM FsInvariance == FsSpec => []FsIInv
<1>1. FsInit => FsIInv
  <2> SUFFICES ASSUME FsInit PROVE FsIInv
    OBVIOUS
  <2>1. Live = {} /\ Indexes = 0 .. Granularity - 1 /\ context = "up"
    BY DEF FsInit, Init, Live, Indexes
  <2>2. \A o \in Openers : FilesOf(o) = {}
    BY DEF FsInit, FilesOf, IsOpen
  <2> QED
    BY <2>1, <2>2 DEF FsInit, FsIInv, FsTypeOK, NothingLeaks, Unshared, RestIsOfUser
<1>2. IInv /\ IInv' /\ FsIInv /\ [FsNext]_fsVars => FsIInv'
  <2> SUFFICES ASSUME IInv, IInv', FsIInv, [FsNext]_fsVars PROVE FsIInv'
    OBVIOUS
  <2>1. ASSUME NEW o \in Openers, NEW path \in Paths, NEW flags \in Flags,
               Open(o, path, flags)
        PROVE  FsIInv'
    <3>1. PICK e \in FilesAt[path] :
            /\ OpenAgain(e.fd) \/ OpenFirst(e, flags)
            /\ history' = history
                 \cup (IF Users(e.fd) # {} THEN {"shared"} ELSE {})
                 \cup (IF Cardinality(OpenFiles') > Granularity THEN {"crowded"} ELSE {})
      BY <2>1 DEF Open
    <3>2. CASE OpenAgain(e.fd)
      BY <2>1, <3>1, <3>2, OpenAgainPreserves
    <3>3. CASE OpenFirst(e, flags)
      BY <2>1, <3>1, <3>3, OpenFirstPreserves
    <3> QED
      BY <3>1, <3>2, <3>3
  <2>2. ASSUME NEW o \in Openers, Read(o) PROVE FsIInv'
    BY <2>2, ReadPreserves
  <2>3. ASSUME NEW o \in Openers, Release(o) PROVE FsIInv'
    BY <2>3, ReleasePreserves
  <2>4. CASE OpenDenied
    <3>1. PICK fd : OpenSockf(fd) /\ SlotsByFd(fd)' = {}
      BY <2>4 DEF OpenDenied
    <3>2. UNCHANGED vars
      BY <3>1, OpenSockfFacts DEF FsIInv, SlotsByFd
    <3>3. UNCHANGED fsVars
      BY <2>4, <3>2 DEF OpenDenied, vars, fsVars
    <3> QED
      BY <3>3, StutterPreserves
  <2>5. CASE Unmount
    BY <2>5, UnmountPreserves
  <2>6. CASE UNCHANGED fsVars
    BY <2>6, StutterPreserves
  <2> QED
    BY <2>1, <2>2, <2>3, <2>4, <2>5, <2>6 DEF FsNext
<1> QED
  BY <1>1, <1>2, PoolInvariance, PTL DEF FsSpec

\* No slot outlives its users, and zeromq_term returns.
THEOREM NoSlotLeaks == FsSpec => []NothingLeaks
<1>1. FsIInv => NothingLeaks
  BY DEF FsIInv
<1> QED
  BY <1>1, FsInvariance, PTL

\* A rest that was not read is never given to another program.
THEOREM RestsStayPrivate == FsSpec => []RestIsOfUser
<1>1. FsIInv => RestIsOfUser
  BY DEF FsIInv
<1> QED
  BY <1>1, FsInvariance, PTL

\* Until a file is shared, every open file has a slot on an open socket.
THEOREM FilesUsable == FsSpec => []OpenFilesStayUsable
<1>1. IInv /\ FsIInv => OpenFilesStayUsable
  <2> SUFFICES ASSUME IInv, FsIInv, "shared" \notin history,
                      NEW o \in Openers, NEW e \in FilesOf(o)
               PROVE  \E k \in SlotsByFd(e.fd) : sockf_array[k].netw_socket \in opened
    BY DEF OpenFilesStayUsable
  <2>1. PICK k \in SlotsByFd(e.fd) : TRUE
    BY DEF FsIInv, Unshared
  <2>2. k \in Live /\ context = "up"
    BY <2>1 DEF SlotsByFd, Live, Indexes
  <2> QED
    BY <2>1, <2>2 DEF IInv, SocketsMatchSlots
<1> QED
  BY <1>1, FsInvariance, PoolInvariance, PTL

-----------------------------------------------------------------------------
(* The array grows only when more files are open than it has cells. *)

\* Until then it is the first array, and no cell holds an uninitialized pointer.
OwnMemory ==
  "crowded" \notin history =>
    /\ count_max = Granularity
    /\ \A k \in Indexes : tempbuf[k] # "junk"

\* Finitely many files are open, because there are finitely many openers.
LEMMA OpenFilesFinite ==
  ASSUME FsTypeOK'
  PROVE  IsFiniteSet(OpenFiles')
<1>1. PICK files : files = OpenFiles'
  OBVIOUS
<1>2. \A e \in files : \E o \in Openers : e \in FilesOf(o)'
  BY <1>1 DEF OpenFiles
<1>3. PICK f : f = [e \in files |-> CHOOSE o \in Openers : e \in FilesOf(o)']
  OBVIOUS
<1>4. \A e \in files : f[e] \in Openers /\ e \in FilesOf(f[e])'
  BY <1>2, <1>3
<1>5. ASSUME NEW e \in files, NEW g \in files, f[e] = f[g]
      PROVE  e = g
  <2>1. PICK o \in Openers : o = f[e]
    BY <1>4
  <2>2. e \in FilesOf(o)' /\ g \in FilesOf(o)'
    BY <1>4, <1>5, <2>1
  <2> QED
    BY <2>2, OneFileNext
<1>6. f \in Injection(files, Openers)
  BY <1>3, <1>4, <1>5 DEF Injection, IsInjective
<1>7. IsFiniteSet(files)
  BY <1>6, FS_Injection, OpenersAssumption
<1> QED
  BY <1>1, <1>7

\* Each live slot is the slot of another open file.
LEMMA SlotsHaveFiles ==
  ASSUME IInv', FsIInv'
  PROVE  IsFiniteSet(Live') /\ Cardinality(Live') <= Cardinality(OpenFiles')
<1>1. PICK files : files = OpenFiles'
  OBVIOUS
<1>2. PICK live : live = Live'
  OBVIOUS
<1>3. \A k \in live : \E e \in files : e.fd = sockf_array'[k].fs_fd
  <2> SUFFICES ASSUME NEW k \in Live' PROVE \E e \in OpenFiles' : e.fd = sockf_array'[k].fs_fd
    BY <1>1, <1>2
  <2>1. PICK o : o \in Users(sockf_array[k].fs_fd)'
    BY DEF FsIInv, NothingLeaks
  <2>2. o \in Openers /\ \E e \in FilesOf(o)' : e.fd = sockf_array'[k].fs_fd
    BY <2>1 DEF Users
  <2> QED
    BY <2>2 DEF OpenFiles
<1>4. PICK f : f = [k \in live |-> CHOOSE e \in files : e.fd = sockf_array'[k].fs_fd]
  OBVIOUS
<1>5. \A k \in live : f[k] \in files /\ f[k].fd = sockf_array'[k].fs_fd
  BY <1>3, <1>4
<1>6. \A j, k \in live : f[j] = f[k] => j = k
  BY <1>2, <1>5, OneSlotNext
<1>7. f \in Injection(live, files)
  BY <1>4, <1>5, <1>6 DEF Injection, IsInjective
<1>8. IsFiniteSet(files)
  BY <1>1, OpenFilesFinite DEF FsIInv
<1>9. IsFiniteSet(live) /\ Cardinality(live) <= Cardinality(files)
  BY <1>7, <1>8, FS_Injection
<1> QED
  BY <1>1, <1>2, <1>9

\* An array grows when all its cells are live.
LEMMA GrowsWhenFull ==
  ASSUME NEW fd, OpenSockf(fd), count_max' # count_max
  PROVE  Live = Indexes
BY DEF OpenSockf, OpenDual, OpenFresh, OpenFails, AddSockf

\* An open that gets a slot.
LEMMA OpenFirstOwns ==
  ASSUME IInv, IInv', FsIInv', OwnMemory, NEW e, NEW flags, OpenFirst(e, flags),
         "crowded" \notin history,
         ~ (Cardinality(OpenFiles') > Granularity)
  PROVE  count_max' = Granularity /\ \A k \in Indexes' : tempbuf'[k] # "junk"
<1>1. PICK k \in Indexes' : k \notin Live /\ Live' = Live \cup {k}
  BY OpenSockfFacts DEF OpenFirst
<1>2. context = "up" /\ context' = "up" /\ OpenSockf(e.fd)
  BY OpenSockfFacts DEF OpenFirst
<1>3. count_max = Granularity /\ \A j \in Indexes : tempbuf[j] # "junk"
  BY DEF OwnMemory
<1>4. Indexes = 0 .. Granularity - 1
  BY <1>2, <1>3 DEF Indexes
<1>5. count_max' = count_max
  <2> SUFFICES ASSUME count_max' # count_max PROVE FALSE
    OBVIOUS
  <2>1. Live = 0 .. Granularity - 1
    BY <1>2, <1>4, GrowsWhenFull
  <2>2. IsFiniteSet(Live) /\ Cardinality(Live) = Granularity
    BY <2>1, FS_Interval, GranularityAssumption
  <2>3. Cardinality(Live') = Granularity + 1
    BY <1>1, <2>2, FS_AddElement
  <2>4. Cardinality(Live') <= Cardinality(OpenFiles') /\ IsFiniteSet(OpenFiles')
    BY SlotsHaveFiles, OpenFilesFinite DEF FsIInv
  <2>5. PICK n \in Nat : n = Cardinality(OpenFiles')
    BY <2>4, FS_CardinalityType
  <2> QED
    BY <2>3, <2>4, <2>5, GranularityAssumption
<1>6. Indexes' = 0 .. Granularity - 1
  BY <1>2, <1>3, <1>5 DEF Indexes
<1>7. ASSUME NEW j \in 0 .. Granularity - 1 PROVE tempbuf'[j] # "junk"
  <2>1. tempbuf'[j] \in {"null", tempbuf[j]}
    BY <1>3, <1>5, <1>7, GranularityAssumption DEF OpenFirst, TempbufsAdded
  <2> QED
    BY <1>3, <1>4, <2>1
<1> QED
  BY <1>3, <1>5, <1>6, <1>7

\* A step of the file system.
LEMMA OwnMemoryPreserved ==
  ASSUME IInv, IInv', FsIInv, FsIInv', OwnMemory, [FsNext]_fsVars
  PROVE  OwnMemory'
<1> SUFFICES ASSUME "crowded" \notin history'
             PROVE  count_max' = Granularity /\ \A k \in Indexes' : tempbuf'[k] # "junk"
  BY DEF OwnMemory
<1>1. ASSUME "crowded" \notin history, UNCHANGED <<vars, tempbuf>>
      PROVE  count_max' = Granularity /\ \A k \in Indexes' : tempbuf'[k] # "junk"
  BY <1>1 DEF OwnMemory, vars, Indexes
<1>2. ASSUME NEW o \in Openers, NEW path \in Paths, NEW flags \in Flags,
             Open(o, path, flags)
      PROVE  count_max' = Granularity /\ \A k \in Indexes' : tempbuf'[k] # "junk"
  <2>1. PICK e \in FilesAt[path] :
          /\ OpenAgain(e.fd) \/ OpenFirst(e, flags)
          /\ history' = history
               \cup (IF Users(e.fd) # {} THEN {"shared"} ELSE {})
               \cup (IF Cardinality(OpenFiles') > Granularity THEN {"crowded"} ELSE {})
    BY <1>2 DEF Open
  <2>2. "crowded" \notin history /\ ~ (Cardinality(OpenFiles') > Granularity)
    BY <2>1
  <2>3. CASE OpenAgain(e.fd)
    BY <1>1, <2>2, <2>3 DEF OpenAgain
  <2>4. CASE OpenFirst(e, flags)
    BY <2>2, <2>4, OpenFirstOwns
  <2> QED
    BY <2>1, <2>3, <2>4
<1>3. ASSUME NEW o \in Openers, Read(o)
      PROVE  count_max' = Granularity /\ \A k \in Indexes' : tempbuf'[k] # "junk"
  <2>1. PICK k \in SlotsFor(o, "r") :
          \E rest \in {tempbuf[k], "null", o} : tempbuf' = [tempbuf EXCEPT ![k] = rest]
    BY <1>3 DEF Read
  <2>2. "crowded" \notin history /\ UNCHANGED vars
    BY <1>3 DEF Read
  <2>3. k \in Indexes
    BY <2>1 DEF SlotsFor, SlotsByFd, Live
  <2>4. o # "junk"
    BY OpenersAssumption
  <2> QED
    BY <2>1, <2>2, <2>3, <2>4 DEF OwnMemory, vars, Indexes, FsIInv, FsTypeOK
<1>4. ASSUME NEW o \in Openers, Release(o)
      PROVE  count_max' = Granularity /\ \A k \in Indexes' : tempbuf'[k] # "junk"
  <2>1. PICK e \in FilesOf(o) :
          IF SlotsByFd(e.fd) = {}
          THEN UNCHANGED <<vars, tempbuf>>
          ELSE \E k \in SlotsByFd(e.fd) : CloseSockf(k) /\ TempbufsClosed(k)
    BY <1>4 DEF Release
  <2>2. "crowded" \notin history
    BY <1>4 DEF Release
  <2>3. ASSUME NEW k \in SlotsByFd(e.fd), CloseSockf(k), TempbufsClosed(k)
        PROVE  count_max' = Granularity /\ \A j \in Indexes' : tempbuf'[j] # "junk"
    <3>1. UNCHANGED <<count_max, context>> /\ Indexes' = Indexes
      BY <2>3 DEF CloseSockf, Indexes
    <3>2. \A j \in Indexes : tempbuf'[j] \in {"null", tempbuf[j]}
      BY <2>3 DEF TempbufsClosed, FsIInv, FsTypeOK
    <3> QED
      BY <2>2, <3>1, <3>2 DEF OwnMemory
  <2> QED
    BY <1>1, <2>1, <2>2, <2>3
<1>5. CASE OpenDenied
  <2>1. PICK fd : OpenSockf(fd) /\ SlotsByFd(fd)' = {}
    BY <1>5 DEF OpenDenied
  <2>2. UNCHANGED vars
    BY <2>1, OpenSockfFacts DEF SlotsByFd
  <2> QED
    BY <1>1, <1>5, <2>2 DEF OpenDenied
<1>6. CASE Unmount
  <2>1. context' # "up" /\ UNCHANGED <<count_max, history>>
    BY <1>6 DEF Unmount, ZeromqTerm
  <2> QED
    BY <2>1 DEF OwnMemory, Indexes
<1>7. CASE UNCHANGED fsVars
  BY <1>1, <1>7 DEF fsVars, vars
<1> QED
  BY <1>2, <1>3, <1>4, <1>5, <1>6, <1>7 DEF FsNext

\* zeromq_term frees no pointer that was never initialized as long as there were never
\* more files open at a time than the first array has cells.
THEOREM TermFreesOwn == FsSpec => TermFreesOwnMemory
<1>1. FsInit => OwnMemory
  BY DEF FsInit, Init, OwnMemory, Indexes
<1>2. IInv /\ IInv' /\ FsIInv /\ FsIInv' /\ OwnMemory /\ [FsNext]_fsVars => OwnMemory'
  BY OwnMemoryPreserved
<1>3. FsSpec => []OwnMemory
  BY <1>1, <1>2, PoolInvariance, FsInvariance, PTL DEF FsSpec
<1>4. OwnMemory =>
        [context # context' /\ "crowded" \notin history =>
           \A k \in Indexes : tempbuf[k] # "junk"]_fsVars
  BY DEF OwnMemory
<1> QED
  BY <1>3, <1>4, PTL DEF TermFreesOwnMemory

-----------------------------------------------------------------------------
(* Where bytes go. *)

\* The records that the table of the mount is filled from.
FsRecords ==
  [k \in DOMAIN DbRecords |->
     [fpath |-> FileRows[k].fpath, fd |-> DbRecords[k].fd, fmode |-> DbRecords[k].fmode]]

\* The table of the mount is that of the records.
LEMMA StructureFilled ==
  /\ Structure \in Tables
  /\ Filled(Structure, FsRecords, Len(DbRecords))
<1>1. PICK n \in Nat : n = Len(DbRecords) /\ DOMAIN DbRecords = 1 .. n
  BY DbTypeAssumption
<1>2. DOMAIN FsRecords = 1 .. n
  BY <1>1 DEF FsRecords
<1>3. ASSUME NEW k \in 1 .. n PROVE IsRecord(FsRecords[k])
  <2>1. FileRows[k].fpath \in Seq(STRING)
    BY <1>1, FileRowsAssumption
  <2>2. DbRecords[k].fd \in Int /\ DbRecords[k].fmode \in {"r", "w"}
    <3>1. DbRecords[k] \in DbRecord
      BY <1>1, DbTypeAssumption
    <3> QED
      BY <3>1 DEF DbRecord
  <2>3. FsRecords[k] = [fpath |-> FileRows[k].fpath, fd |-> DbRecords[k].fd,
                        fmode |-> DbRecords[k].fmode]
    BY <1>1 DEF FsRecords
  <2> QED
    BY <2>1, <2>2, <2>3 DEF IsRecord
<1>4. Structure = Fill(FsRecords)
  BY Zenon DEF Structure, FsRecords
<1> QED
  BY <1>1, <1>2, <1>3, <1>4, FillFacts

\* What a lookup that finds a file says of the records. The path of a record finds an entry
\* that was added for it or for one before: of these, none has a longer path.
LEMMA FileFound ==
  ASSUME NEW path, NEW e \in EntriesOf(Structure, path), e.mode # "dir"
  PROVE  \E n \in DOMAIN DbRecords :
           /\ DbRecords[n].fd = e.fd
           /\ DbRecords[n].fmode = e.mode
           /\ IsPrefix(path, FileRows[n].fpath)
           /\ path \in {FileRows[j].fpath : j \in DOMAIN FileRows} =>
                path = FileRows[n].fpath
<1>1. PICK m \in Nat : m = Len(DbRecords) /\ DOMAIN DbRecords = 1 .. m
  BY DbTypeAssumption
<1>2. PICK t \in Tables : t = Structure /\ Filled(t, FsRecords, m)
  BY <1>1, StructureFilled
<1>3. PICK k \in ByPath(t, path) : e = t.array[k]
  BY <1>2 DEF EntriesOf
<1>4. FoundAt(t, path, k)
  BY FoundByPath
<1>5. k \in 1 .. Len(t.array) /\ IsPrefix(path, e.path)
  BY <1>3, <1>4 DEF FoundAt
<1>6. ASSUME NEW n \in 1 .. m, EntryFor(e, FsRecords[n])
      PROVE  /\ e.path = FileRows[n].fpath
             /\ e.fd = DbRecords[n].fd
             /\ e.mode = DbRecords[n].fmode
  <2>1. \A p : e # DirEntry(p)
    BY DEF DirEntry, Entry
  <2>2. e = FileEntry(FsRecords[n])
    BY <1>6, <2>1 DEF EntryFor
  <2> QED
    BY <1>1, <2>2 DEF FileEntry, Entry, FsRecords
<1>7. CASE path \in {FileRows[j].fpath : j \in DOMAIN FileRows}
  <2>1. PICK j \in 1 .. m : path = FileRows[j].fpath /\ path = FsRecords[j].fpath
    BY <1>1, <1>7, FileRowsAssumption DEF FsRecords
  <2>2. path \in Mentions(FsRecords[j].fpath)
    BY <2>1 DEF Mentions
  <2>3. PICK l \in 1 .. Len(t.array) :
          FoundAt(t, path, l) /\ \E n \in 1 .. j : EntryFor(t.array[l], FsRecords[n])
    BY <1>2, <2>2, FoundBefore
  <2>4. l = k
    BY <1>4, <2>3, FoundUnique
  <2>5. PICK n \in 1 .. j : EntryFor(e, FsRecords[n])
    BY <1>3, <2>3, <2>4
  <2>6. n \in 1 .. m /\ ~ (j < n)
    OBVIOUS
  <2>7. ~ IsStrictPrefix(path, FileRows[n].fpath)
    BY <1>1, <2>1, <2>6, FileRowsAssumption, NamesAssumption
  <2>8. path = FileRows[n].fpath
    BY <1>5, <1>6, <2>5, <2>6, <2>7 DEF IsStrictPrefix
  <2> QED
    BY <1>1, <1>5, <1>6, <2>5, <2>6, <2>8
<1>8. CASE path \notin {FileRows[j].fpath : j \in DOMAIN FileRows}
  <2>1. PICK n \in 1 .. m : EntryFor(e, FsRecords[n])
    BY <1>2, <1>3, <1>5 DEF Filled, Holds
  <2> QED
    BY <1>1, <1>5, <1>6, <1>8, <2>1
<1> QED
  BY <1>7, <1>8

\* Bytes pass only in a file's own direction, and between the program and the socket of
\* the file that it named, although open checks no flags when the file is open.
THEOREM IoDirected == FsSpec => []IoIsDirected
<1>1. FsTypeOK => IoIsDirected
  <2> SUFFICES ASSUME FsTypeOK, NEW o \in Openers, NEW mode \in {"r", "w"},
                      NEW k \in SlotsFor(o, mode)
               PROVE  \E n \in DOMAIN DbRecords :
                        /\ DbRecords[n].fd = sockf_array[k].fs_fd
                        /\ DbRecords[n].fmode = mode
                        /\ IsPrefix(handle[o].path, FileRows[n].fpath)
                        /\ handle[o].path \in {FileRows[j].fpath : j \in DOMAIN FileRows} =>
                             handle[o].path = FileRows[n].fpath
    BY DEF IoIsDirected
  <2>1. PICK e \in FilesOf(o) :
          /\ MayCall(o, mode)
          /\ AccessAllowed(e.mode, handle[o].flags)
          /\ k \in SlotsByFd(e.fd)
    BY DEF SlotsFor
  <2>2. e.mode = mode
    BY <2>1 DEF MayCall, AccessAllowed
  <2>3. sockf_array[k].fs_fd = e.fd
    BY <2>1 DEF SlotsByFd
  <2>4. e \in EntriesOf(Structure, handle[o].path) /\ e.mode # "dir"
    <3>1. IsOpen(o) /\ handle[o].path \in Paths
      BY <2>1 DEF MayCall, IsOpen, FsTypeOK
    <3> QED
      BY <2>1, <3>1 DEF FilesOf, FilesAt
  <2> QED
    BY <2>2, <2>3, <2>4, FileFound
<1>2. FsIInv => FsTypeOK
  BY DEF FsIInv
<1> QED
  BY <1>1, <1>2, FsInvariance, PTL
=============================================================================
