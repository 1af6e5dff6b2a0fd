------------------------------ MODULE Channels ------------------------------
(***************************************************************************)
(* The shipped channels tables (sql/db_*_dsort.sql for 5 nodes of a kind,  *)
(* sql/db_*_dsort-50.sql for 50), the descriptors that the node programs   *)
(* compute from node ids, and what a descriptor leads to: the path of the  *)
(* client's row, the entry that the file server finds for the path, and    *)
(* the channel of the entry's descriptor.                                  *)
(***************************************************************************)
EXTENDS FsFill

CONSTANT TableSizes    \* the tables: how many sources, and destinations, they have

\* The descriptors and node ids of two kinds stay apart up to 50 nodes.
ASSUME TableSizesAssumption == TableSizes \subseteq 1 .. 50

ManagerNodeId == 1
FirstSourceNodeId == 2
FirstDestNodeId == 52

SourceIds(nodes) == FirstSourceNodeId .. FirstSourceNodeId + nodes - 1
DestIds(nodes) == FirstDestNodeId .. FirstDestNodeId + nodes - 1

NodeName(id) ==
  CASE id = ManagerNodeId -> "manager"
    [] id \in SourceIds(50) -> "source"
    [] id \in DestIds(50) -> "dest"

-----------------------------------------------------------------------------
(* The rows of a table. *)

\* An endpoint of one node, of the node that reads the row (%d), or of no node.
At(name, id) == [name |-> name, id |-> id]
Own(name) == At(name, -1)
Shared(name) == At(name, 0)

InPath(names) == <<"/", "in", "/">> \o names
OutPath(names) == <<"/", "out", "/">> \o names

Digits(n) ==
  IF n < 10 THEN <<ToString(n)>> ELSE <<ToString(n \div 10), ToString(n % 10)>>

Row(sock, method, endpoint, fmode, fpath, fd) ==
  [sock |-> sock, method |-> method, endpoint |-> endpoint, fmode |-> fmode,
   fpath |-> fpath, fd |-> fd]

\* A row for each of the nodes 0, 1 and so on.
Each(nodes, RowFor(_)) == [k \in 1 .. nodes |-> RowFor(k - 1)]

StdRows ==
  << Row("none", "unexpected", Shared(""), "r", InPath(<<"stdin">>), 0),
     Row("none", "unexpected", Shared(""), "w", OutPath(<<"stdout">>), 1),
     Row("none", "unexpected", Shared(""), "w", OutPath(<<"stderr">>), 2) >>

SourceRows(nodes) ==
  LET hist == Own("detailed-histogram")
      WriteRanges(k) == Row("REQ", "connect", At("ranges", 52 + k), "w",
                            OutPath(<<"ranges">> \o Digits(k)), 7 + k)
      ReadRanges(k) == Row("REQ", "connect", At("ranges", 52 + k), "r",
                           InPath(<<"ranges">> \o Digits(k)), 57 + k)
  IN  StdRows
      \o << Row("PUSH", "connect", Shared("histograms"), "w",
                OutPath(<<"histogram">>), 3),
            Row("REP", "bind", hist, "r",
                InPath(<<"detailed_histogram_request">>), 4),
            Row("REP", "bind", hist, "w",
                OutPath(<<"detailed_histogram_reply">>), 5),
            Row("PULL", "bind", Own("range-request"), "r",
                InPath(<<"sequences_request">>), 6) >>
      \o Each(nodes, WriteRanges) \o Each(nodes, ReadRanges)
      \o << Row("PUSH", "connect", Shared("crc"), "w", OutPath(<<"crc">>), 107) >>

DestRows ==
  StdRows
  \o << Row("REP", "bind", Own("ranges"), "r", InPath(<<"ranges">>), 3),
        Row("REP", "bind", Own("ranges"), "w", OutPath(<<"ranges">>), 4),
        Row("PUSH", "connect", Shared("sort-result"), "w",
            OutPath(<<"sorted_range">>), 5) >>

ManagerRows(nodes) ==
  LET WriteRequest(k) ==
        Row("REQ", "connect", At("detailed-histogram", 2 + k), "w",
            OutPath(<<"detailed_histogram_request">> \o Digits(k)), 4 + k)
      ReadReply(k) ==
        Row("REQ", "connect", At("detailed-histogram", 2 + k), "r",
            InPath(<<"detailed_histogram_reply">> \o Digits(k)), 54 + k)
      WriteRange(k) ==
        Row("PUSH", "connect", At("range-request", 2 + k), "w",
            OutPath(<<"range-request">> \o Digits(k)), 104 + k)
  IN  StdRows
      \o << Row("PULL", "bind", Shared("histograms"), "r",
                InPath(<<"histograms">>), 3) >>
      \o Each(nodes, WriteRequest) \o Each(nodes, ReadReply)
      \o Each(nodes, WriteRange)
      \o << Row("PULL", "bind", Shared("sort-result"), "r",
                InPath(<<"sorted_range">>), 154),
            Row("PULL", "bind", Shared("crc"), "r", InPath(<<"crc">>), 155) >>

\* get_all_records_from_dbtable, and get_all_files_from_dbtable of the client:
\* the rows of a node name.
TableOf(name, nodes) ==
  CASE name = "manager" -> ManagerRows(nodes)
    [] name = "source" -> SourceRows(nodes)
    [] name = "dest" -> DestRows

ShippedTables ==
  {TableOf(name, nodes) : name \in {"manager", "source", "dest"},
                          nodes \in TableSizes}

\* What Vfs assumes of its rows (NamesAssumption) is so in the shipped tables.
ASSUME ShippedNamesAssumption ==
  \A rows \in ShippedTables : \A j, k \in DOMAIN rows :
    IsStrictPrefix(rows[j].fpath, rows[k].fpath) => j < k

-----------------------------------------------------------------------------
(* The descriptors that the programs use. *)

\* Seeded fault of WriteRangesFd: destinations counted from 1.
WriteRangesFdFrom1(dest) == dest - FirstDestNodeId + 1 + 7

WriteRangesFd(dest) == dest - FirstDestNodeId + 7
ReadRangesFd(dest) == dest - FirstDestNodeId + 57
RangeRequestFd(source) == source - FirstSourceNodeId + 104

\* An end of a conversation: a node, a descriptor, and how it opens the file.
End(id, fd, flags) == [id |-> id, fd |-> fd, flags |-> flags]

\* The requests and their replies: written by the one, read by the other, answered
\* by it, and the answer read. The manager's i-th worker, i from 0, asks the i-th
\* source, as the histograms are sorted by node id.
Dialogs(nodes) ==
  {<<End(ManagerNodeId, i + 4, "w"), End(FirstSourceNodeId + i, 4, "r"),
     End(FirstSourceNodeId + i, 5, "w"), End(ManagerNodeId, i + 54, "r")>>
     : i \in 0 .. nodes - 1}
  \cup
  {<<End(s, WriteRangesFd(d), "w"), End(d, 3, "r"),
     End(d, 4, "w"), End(s, ReadRangesFd(d), "r")>>
     : s \in SourceIds(nodes), d \in DestIds(nodes)}

\* What is written by the one node and read by the other.
Transfers(nodes) ==
  UNION {
    {<<End(s, 107, "w"), End(ManagerNodeId, 155, "r")>> : s \in SourceIds(nodes)},
    {<<End(s, 3, "w"), End(ManagerNodeId, 3, "r")>> : s \in SourceIds(nodes)},
    {<<End(ManagerNodeId, RangeRequestFd(s), "w"), End(s, 6, "r")>>
       : s \in SourceIds(nodes)},
    {<<End(d, 5, "w"), End(ManagerNodeId, 154, "r")>> : d \in DestIds(nodes)},
    {<<d[1], d[2]>> : d \in Dialogs(nodes)},
    {<<d[3], d[4]>> : d \in Dialogs(nodes)} }

\* match_file_record_by_fd and match_db_record_by_fd: the first row, if any.
RowsByFd(rows, fd) ==
  LET match == {k \in DOMAIN rows : rows[k].fd = fd}
  IN  IF match = {} THEN {} ELSE {rows[Min(match)]}

\* The channels that a program's open of a descriptor leads to: one, or none
\* when the client has no row, the server no entry, or access is denied.
Opened(rows, table, end) ==
  UNION { UNION { RowsByFd(rows, entry.fd)
                  : entry \in {e \in EntriesOf(table, row.fpath) :
                                 AccessAllowed(e.mode, end.flags)} }
          : row \in RowsByFd(rows, end.fd) }

\* The endpoint a row names at a node: get_dbrecords_callback replaces %d.
EndpointAt(row, id) ==
  IF row.endpoint.id = -1 THEN At(row.endpoint.name, id) ELSE row.endpoint

Talks(x, y) ==
  \/ x.sock = "PUSH" /\ y.sock = "PULL"
  \/ {x.sock, y.sock} = {"REQ", "REP"}

\* Two rows of a node that get_dual_sockf takes for one channel.
SameSocket(x, y) ==
  x.sock = y.sock /\ x.method = y.method /\ x.endpoint = y.endpoint

-----------------------------------------------------------------------------
\* Descriptors are named in defines.h, computed from node ids in the programs,
\* and given a channel in two databases; in between paths are looked up by prefix.
\* Together, every file that a program opens leads to the very node that the
\* program means: it is the channel of its row, and meets the one of the other end
\* on an endpoint that one of the two nodes alone binds, with sockets that talk;
\* and the two files of a request and its reply are dual, so that they share a
\* socket. (Each end opens its file in the state that has its own table.)
FilesReachPeers ==
  \A nodes \in TableSizes, name \in {"manager", "source", "dest"} :
    done = Len(db_records) /\ db_records = TableOf(name, nodes) =>
      LET rows == [n \in {"manager", "source", "dest"} |-> TableOf(n, nodes)]
          Channel(end) ==
            IF NodeName(end.id) = name THEN Opened(rows[name], fs_structure, end)
            ELSE RowsByFd(rows[NodeName(end.id)], end.fd)
          bound == UNION {{<<id, EndpointAt(row, id)>> :
                             row \in {r \in ToSet(rows[NodeName(id)]) : r.method = "bind"}}
                          : id \in {ManagerNodeId} \cup SourceIds(nodes)
                                     \cup DestIds(nodes)}
          Meet(a, b) ==
            \E x \in Channel(a), y \in Channel(b) :
              /\ Talks(x, y)
              /\ {x.method, y.method} = {"bind", "connect"}
              /\ EndpointAt(x, a.id) = EndpointAt(y, b.id)
              /\ \E id \in {a.id, b.id} :
                   {p \in bound : p[2] = EndpointAt(x, a.id)}
                     = {<<id, EndpointAt(x, a.id)>>}
          AreDual(a, b) == \E x \in Channel(a), y \in Channel(b) : SameSocket(x, y)
      IN  /\ \A t \in Transfers(nodes) :
               name \in {NodeName(t[1].id), NodeName(t[2].id)} => Meet(t[1], t[2])
          /\ \A d \in Dialogs(nodes) :
               name \in {NodeName(d[1].id), NodeName(d[2].id)} =>
                 AreDual(d[1], d[4]) /\ AreDual(d[2], d[3])
=============================================================================
