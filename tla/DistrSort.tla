------------------------------ MODULE DistrSort ------------------------------
(***************************************************************************)
(* The distributed sort: the protocol between the manager, the source and  *)
(* the destination nodes (client/manager, client/source, client/dest).     *)
(*                                                                         *)
(* Sources sort their input and send its crc and its histogram to the      *)
(* manager. While it analyses the histograms the manager asks every source *)
(* for detailed histograms, in rounds, then tells every source which range *)
(* of its items goes to which destination. The sources send the ranges,    *)
(* each destination sorts what it received, saves it to its output file if *)
(* it can, and reports its minimum, maximum and crc to the manager, which  *)
(* checks them.                                                            *)
(*                                                                         *)
(* Node k stands for source FIRST_SOURCE_NODEID + k and for destination    *)
(* FIRST_DEST_NODEID + k. Items are naturals. The histogram analysis       *)
(* itself is the subject of HistAnalyzer; here it yields some partition,   *)
(* or ends the manager as it does there.                                   *)
(***************************************************************************)
EXTENDS SortedArray, OutputFile, ReqRep

CONSTANTS
  NodeCount,    \* SRC_NODES_COUNT
  ItemsCount,   \* ARRAY_ITEMS_COUNT
  ChunkItems,   \* items in FUSE_IO_MAX_CHUNK_SIZE
  CrcAtom,      \* CRC_ATOM
  Inputs,       \* the contents the input files may have
  OldOutputs,   \* what the output files hold before, <<>> for those not there
  MayFail       \* whether a source may find its input file missing or too short,
                \* the analysis may end the manager, and an output file may not
                \* take all the items

VARIABLES
  input,        \* data/<k>input.data
  output,       \* data/<k>output.data
  src,          \* the source processes
  man,          \* the manager process
  dst,          \* the destination processes
  crcPipe,      \* PUSH/PULL to the manager: crcs not yet read
  histPipe,     \* PUSH/PULL to the manager: each source's unread messages
  detail,       \* REQ/REP from the manager to each source
  rangePipe,    \* PUSH/PULL from the manager to each source
  ranges,       \* REQ/REP from each source to each destination
  resultPipe    \* PUSH/PULL to the manager: results not yet read

vars == <<input, output, src, man, dst, crcPipe, histPipe, detail, rangePipe,
          ranges, resultPipe>>

Nodes == 0 .. NodeCount - 1

ASSUME CountsAssumption ==
  /\ NodeCount \in Nat \ {0}
  /\ ItemsCount \in Nat \ {0}
  /\ ChunkItems \in Nat \ {0}
  /\ CrcAtom \in Nat \ {0}

ASSUME InputsAssumption ==
  /\ Inputs \subseteq [Nodes -> [1 .. ItemsCount -> Nat]]
  /\ OldOutputs \in [Nodes -> Seq(Nat)]
  /\ MayFail \in BOOLEAN

-----------------------------------------------------------------------------
(* client/sort.c *)

\* array_crc: the sum of the items, modulo CRC_ATOM at every addition.
Crc(s) == FoldLeft(LAMBDA crc, item : (crc + (item % CrcAtom)) % CrcAtom, 0, s)

-----------------------------------------------------------------------------
(* Ranges of sorted arrays. *)

\* Seeded fault of RangeLength: off by one.
RangeDistance(r) == r.last - r.first

\* The array_len of a range: 0 when last_item_index = first_item_index - 1.
RangeLength(r) == r.last - r.first + 1

\* The C indexes of a range start at 0.
ItemsOf(array, r) == SubSeq(array, r.first + 1, r.last + 1)

\* The items, by source and position, that cut gives to destination d: cut[d][s]
\* items of source s go to destinations before d.
Given(cut, d) ==
  {p \in Nodes \X (1 .. ItemsCount) : cut[d][p[1]] < p[2] /\ p[2] <= cut[d + 1][p[1]]}

\* What the analysis yields if it ends: each destination gets ItemsCount items.
\* Whether they are in order with those of the next destination depends on the
\* data (HistAnalyzer: RangesContiguous, RangesOrdered): nothing here relies on it.
Cuts ==
  {cut \in [0 .. NodeCount -> [Nodes -> 0 .. ItemsCount]] :
     /\ \A s \in Nodes : cut[0][s] = 0 /\ cut[NodeCount][s] = ItemsCount
     /\ \A d \in Nodes :
          /\ \A s \in Nodes : cut[d][s] <= cut[d + 1][s]
          /\ Cardinality(Given(cut, d)) = ItemsCount}

-----------------------------------------------------------------------------
(* Messages. A histogram travels as one message of two parts, its header and
   its array; reads of the manager consume it part by part. *)

HistogramMessage(s) ==
  << [kind |-> "header", src |-> s], [kind |-> "array", src |-> s] >>

\* The requests and the replies of one detailed histogram, in their order.
Asks == <<"request_data", "is_complete", "reply", "reply">>
Answers == <<"reply", "nodeid", "array_len", "histogram">>

\* Seeded fault of Ask: every round is announced as the last one.
AskComplete(k, complete) == [kind |-> Asks[k], complete |-> TRUE]

Ask(k, complete) == [kind |-> Asks[k], complete |-> complete]

RangeHeader(size) == [type |-> "EPACKET_RANGE", size |-> size]
RangePart(items) == [type |-> "EPACKET_RANGE_PART", items |-> items]

-----------------------------------------------------------------------------
Init ==
  /\ input \in Inputs
  /\ output = OldOutputs
  /\ src = [s \in Nodes |->
              [pc |-> "start", array |-> <<>>, step |-> 1, complete |-> FALSE,
               request |-> <<>>, to |-> 0, sent |-> -1]]
  /\ man = [pc |-> "crc", crcs |-> <<>>, tempbuf |-> <<>>, hists |-> <<>>,
            dest |-> 0, to |-> 0, step |-> 1, told |-> 0,
            results |-> <<>>, cut |-> <<>>]
  /\ dst = [d \in Nodes |->
              [pc |-> "read", array |-> <<>>, waiting |-> 0, ranges |-> 0,
               client |-> -1]]
  /\ crcPipe = {}
  /\ histPipe = [s \in Nodes |-> <<>>]
  /\ detail = [s \in Nodes |-> Fresh]
  /\ rangePipe = [s \in Nodes |-> <<>>]
  /\ ranges = [s \in Nodes |-> [d \in Nodes |-> Fresh]]
  /\ resultPipe = {}

-----------------------------------------------------------------------------
(* A source: client/source. *)

\* main: the input is read and sorted.
SourceSort(s) ==
  /\ src[s].pc = "start"
  /\ src' = [src EXCEPT ![s].pc = "crc", ![s].array = Sorted(input[s])]
  /\ UNCHANGED <<input, output, man, dst, crcPipe, histPipe, detail, rangePipe,
                 ranges, resultPipe>>

\* Seeded fault of SourceExit: the input is not checked before it is used.
SourceExitLate(s) ==
  /\ MayFail
  /\ src[s].pc # "exited"
  /\ src' = [src EXCEPT ![s].pc = "exited"]
  /\ UNCHANGED <<input, output, man, dst, crcPipe, histPipe, detail, rangePipe,
                 ranges, resultPipe>>

\* main: there is no input file, or not all of it, and the process ends.
SourceExit(s) ==
  /\ MayFail
  /\ src[s].pc = "start"
  /\ src' = [src EXCEPT ![s].pc = "exited"]
  /\ UNCHANGED <<input, output, man, dst, crcPipe, histPipe, detail, rangePipe,
                 ranges, resultPipe>>

\* write_crc
SourceWriteCrc(s) ==
  /\ src[s].pc = "crc"
  /\ crcPipe' = crcPipe \cup {[src |-> s, crc |-> Crc(src[s].array)]}
  /\ src' = [src EXCEPT ![s].pc = "hist"]
  /\ UNCHANGED <<input, output, man, dst, histPipe, detail, rangePipe, ranges,
                 resultPipe>>

\* Seeded fault of SourceWriteHistogram: header and array are two messages.
SourceWriteHistogramTwice(s) ==
  /\ src[s].pc = "hist"
  /\ histPipe' = [histPipe EXCEPT
                    ![s] = @ \o [k \in 1 .. 2 |-> <<HistogramMessage(s)[k]>>]]
  /\ src' = [src EXCEPT ![s].pc = "detail"]
  /\ UNCHANGED <<input, output, man, dst, crcPipe, detail, rangePipe, ranges,
                 resultPipe>>

\* write_histogram: header and array in one buffer, one message.
SourceWriteHistogram(s) ==
  /\ src[s].pc = "hist"
  /\ histPipe' = [histPipe EXCEPT ![s] = Append(@, HistogramMessage(s))]
  /\ src' = [src EXCEPT ![s].pc = "detail"]
  /\ UNCHANGED <<input, output, man, dst, crcPipe, detail, rangePipe, ranges,
                 resultPipe>>

\* read_requests_write_detailed_histograms: one request read, one reply
\* written. The source takes the step-th request for what the protocol expects
\* at that step, and leaves the loop after the histogram of a complete request.
SourceAnswer(s) ==
  /\ src[s].pc = "detail"
  /\ Requested(detail[s])
  /\ LET k == src[s].step
         complete == IF k = 2 THEN detail[s].request[1].complete
                              ELSE src[s].complete
     IN  /\ detail' = [detail EXCEPT ![s] = Answer(Take(@), Answers[k])]
         /\ src' = [src EXCEPT ![s].step = IF k = 4 THEN 1 ELSE k + 1,
                               ![s].complete = complete,
                               ![s].pc = IF k = 4 /\ complete THEN "request" ELSE @]
  /\ UNCHANGED <<input, output, man, dst, crcPipe, histPipe, rangePipe, ranges,
                 resultPipe>>

\* read_range_request: the header, then one range per destination.
SourceReadRequest(s) ==
  /\ src[s].pc = "request"
  /\ rangePipe[s] # <<>>
  /\ src' = [src EXCEPT ![s].pc = "transfer", ![s].request = Head(rangePipe[s])]
  /\ rangePipe' = [rangePipe EXCEPT ![s] = Tail(@)]
  /\ UNCHANGED <<input, output, man, dst, crcPipe, histPipe, detail, ranges,
                 resultPipe>>

\* The range of s that goes to the destination it is now writing to.
Current(s) == src[s].request[src[s].to + 1]

\* write_sorted_ranges, its writes: the header with the size of the range, then
\* parts of at most ChunkItems items.
SourceSend(s) ==
  /\ src[s].pc = "transfer"
  /\ LET d == Current(s).dst
         size == RangeLength(Current(s))
         upto == IF src[s].sent + ChunkItems < size
                 THEN src[s].sent + ChunkItems ELSE size
         items == ItemsOf(src[s].array, Current(s))
         message == IF src[s].sent = -1 THEN RangeHeader(size)
                    ELSE RangePart(SubSeq(items, src[s].sent + 1, upto))
     IN  /\ MayRequest(ranges[s][d])
         /\ ranges' = [ranges EXCEPT ![s][d] = Request(@, message)]
         /\ src' = [src EXCEPT ![s].pc = "reply",
                               ![s].sent = IF @ = -1 THEN 0 ELSE upto]
  /\ UNCHANGED <<input, output, man, dst, crcPipe, histPipe, detail, rangePipe,
                 resultPipe>>

\* write_sorted_ranges, the read of the reply; after the last one of a range
\* main goes on with the next destination.
SourceReceive(s) ==
  /\ src[s].pc = "reply"
  /\ LET d == Current(s).dst
         more == src[s].sent < RangeLength(Current(s))
     IN  /\ Answered(ranges[s][d])
         /\ ranges' = [ranges EXCEPT ![s][d] = Finish(@)]
         /\ src' = IF more THEN [src EXCEPT ![s].pc = "transfer"]
                   ELSE [src EXCEPT
                           ![s].pc = IF src[s].to + 1 < NodeCount THEN "transfer"
                                                                  ELSE "done",
                           ![s].to = @ + 1, ![s].sent = -1]
  /\ UNCHANGED <<input, output, man, dst, crcPipe, histPipe, detail, rangePipe,
                 resultPipe>>

SourceStep(s) ==
  \/ SourceSort(s)
  \/ SourceExit(s)
  \/ SourceWriteCrc(s)
  \/ SourceWriteHistogram(s)
  \/ SourceAnswer(s)
  \/ SourceReadRequest(s)
  \/ SourceSend(s)
  \/ SourceReceive(s)

-----------------------------------------------------------------------------
(* The manager: client/manager. *)

\* read_crcs: the crcs are read in the order they come in.
ManagerReadCrc ==
  /\ man.pc = "crc"
  /\ \E m \in crcPipe :
       /\ crcPipe' = crcPipe \ {m}
       /\ man' = [man EXCEPT !.crcs = Append(@, m.crc),
                             !.pc = IF Len(man.crcs) + 1 = NodeCount THEN "header" ELSE @]
  /\ UNCHANGED <<input, output, src, dst, histPipe, detail, rangePipe, ranges,
                 resultPipe>>

\* What a read of the histograms file may return: the rest of the message read
\* last, or else the first part of any source's next message.
HistogramReads ==
  IF man.tempbuf # <<>>
  THEN {[part |-> Head(man.tempbuf), rest |-> Tail(man.tempbuf), pipe |-> histPipe]}
  ELSE {[part |-> Head(Head(histPipe[s])), rest |-> Tail(Head(histPipe[s])),
         pipe |-> [histPipe EXCEPT ![s] = Tail(@)]] :
          s \in {s \in Nodes : histPipe[s] # <<>>}}

\* recv_histograms, the read of a header; the process exits on anything else.
ManagerReadHeader ==
  /\ man.pc = "header"
  /\ \E r \in HistogramReads :
       /\ histPipe' = r.pipe
       /\ man' = IF r.part.kind = "header"
                 THEN [man EXCEPT !.pc = "array", !.tempbuf = r.rest,
                                  !.hists = Append(@, [src |-> r.part.src, of |-> -1])]
                 ELSE [man EXCEPT !.pc = "aborted"]
  /\ UNCHANGED <<input, output, src, dst, crcPipe, detail, rangePipe, ranges,
                 resultPipe>>

\* main's qsort of the histograms by their source, of which it has one each.
BySource(hists) ==
  [i \in 1 .. Len(hists) |->
     CHOOSE h \in ToSet(hists) :
       Cardinality({k \in DOMAIN hists : hists[k].src < h.src}) = i - 1]

\* recv_histograms, the read of the array (of source "of"); main sorts the
\* histograms when it has them all.
ManagerReadArray ==
  /\ man.pc = "array"
  /\ \E r \in HistogramReads :
       LET hists == [man.hists EXCEPT ![Len(man.hists)].of = r.part.src]
           all == Len(hists) = NodeCount
       IN  /\ histPipe' = r.pipe
           /\ man' = [man EXCEPT
                        !.tempbuf = r.rest,
                        !.hists = IF all THEN BySource(hists) ELSE hists,
                        !.pc = IF all THEN "analyze" ELSE "header"]
  /\ UNCHANGED <<input, output, src, dst, crcPipe, detail, rangePipe, ranges,
                 resultPipe>>

\* last_histograms_requested, in alloc_range_request_analize_histograms.
LastRound == man.dest + 1 >= NodeCount

\* alloc_range_request_analize_histograms, one destination: its range is cut
\* with the histograms at hand, or after a round of detailed histograms. The
\* last destination always asks (HistAnalyzer: AsksWhenLast).
ManagerAnalyze ==
  /\ man.pc = "analyze"
  /\ \/ man' = [man EXCEPT !.pc = "detail", !.to = 0, !.step = 1]
     \/ ~ LastRound /\ man' = [man EXCEPT !.dest = @ + 1]
  /\ UNCHANGED <<input, output, src, dst, crcPipe, histPipe, detail, rangePipe,
                 ranges, resultPipe>>

\* reqrep_detailed_histograms_alloc, its writes.
ManagerAsk ==
  /\ man.pc = "detail"
  /\ MayRequest(detail[man.to])
  /\ detail' = [detail EXCEPT ![man.to] = Request(@, Ask(man.step, LastRound))]
  /\ UNCHANGED <<input, output, src, man, dst, crcPipe, histPipe, rangePipe,
                 ranges, resultPipe>>

\* Seeded fault of ManagerHear: the exchange with the next source starts where
\* the one before ended.
ManagerHearOn ==
  /\ man.pc = "detail"
  /\ Answered(detail[man.to])
  /\ detail' = [detail EXCEPT ![man.to] = Finish(@)]
  /\ man' = IF man.step < 4 THEN [man EXCEPT !.step = @ + 1]
            ELSE IF man.to + 1 < NodeCount THEN [man EXCEPT !.to = @ + 1]
            ELSE IF ~ LastRound THEN [man EXCEPT !.pc = "analyze", !.dest = @ + 1]
            ELSE [man EXCEPT !.pc = "partition"]
  /\ UNCHANGED <<input, output, src, dst, crcPipe, histPipe, rangePipe, ranges,
                 resultPipe>>

\* Seeded fault of ManagerHear: a round does not bring the analysis to the next
\* destination.
ManagerHearAgain ==
  /\ man.pc = "detail"
  /\ Answered(detail[man.to])
  /\ detail' = [detail EXCEPT ![man.to] = Finish(@)]
  /\ man' = IF man.step < 4 THEN [man EXCEPT !.step = @ + 1]
            ELSE IF man.to + 1 < NodeCount
                 THEN [man EXCEPT !.step = 1, !.to = @ + 1]
            ELSE IF ~ LastRound THEN [man EXCEPT !.pc = "analyze"]
            ELSE [man EXCEPT !.pc = "partition"]
  /\ UNCHANGED <<input, output, src, dst, crcPipe, histPipe, rangePipe, ranges,
                 resultPipe>>

\* reqrep_detailed_histograms_alloc, its reads: after the histogram itself comes
\* the next source, after the last source the next destination.
ManagerHear ==
  /\ man.pc = "detail"
  /\ Answered(detail[man.to])
  /\ detail' = [detail EXCEPT ![man.to] = Finish(@)]
  /\ man' = IF man.step < 4 THEN [man EXCEPT !.step = @ + 1]
            ELSE IF man.to + 1 < NodeCount
                 THEN [man EXCEPT !.step = 1, !.to = @ + 1]
            ELSE IF ~ LastRound THEN [man EXCEPT !.pc = "analyze", !.dest = @ + 1]
            ELSE [man EXCEPT !.pc = "partition"]
  /\ UNCHANGED <<input, output, src, dst, crcPipe, histPipe, rangePipe, ranges,
                 resultPipe>>

\* The analysis fails an assertion or reads behind a histogram (HistAnalyzer):
\* before a round of requests or after a source's detailed histogram.
ManagerFault ==
  /\ MayFail
  /\ \/ man.pc \in {"analyze", "partition"}
     \/ man.pc = "detail" /\ man.step = 1 /\ MayRequest(detail[man.to])
  /\ man' = [man EXCEPT !.pc = "faulted"]
  /\ UNCHANGED <<input, output, src, dst, crcPipe, histPipe, detail, rangePipe,
                 ranges, resultPipe>>

\* The analysis returns its ranges.
ManagerPartition ==
  /\ man.pc = "partition"
  /\ \E cut \in Cuts : man' = [man EXCEPT !.pc = "tell", !.cut = cut]
  /\ UNCHANGED <<input, output, src, dst, crcPipe, histPipe, detail, rangePipe,
                 ranges, resultPipe>>

\* range[j][i] for every destination j: what the source of the i-th histogram
\* sends where.
RequestFor(i) ==
  LET s == man.hists[i + 1].src IN
  [j \in 1 .. NodeCount |->
     [dst |-> j - 1, first |-> man.cut[j - 1][s], last |-> man.cut[j][s] - 1]]

\* write_range_request to the source of the told-th histogram.
ManagerTell ==
  /\ man.pc = "tell"
  /\ rangePipe' = [rangePipe EXCEPT
                     ![man.hists[man.told + 1].src] = Append(@, RequestFor(man.told))]
  /\ man' = [man EXCEPT !.told = @ + 1,
                        !.pc = IF man.told + 1 = NodeCount THEN "results" ELSE @]
  /\ UNCHANGED <<input, output, src, dst, crcPipe, histPipe, detail, ranges,
                 resultPipe>>

\* Seeded fault of ManagerReadResult: the results stay in the order they came in.
ManagerReadResultUnsorted ==
  /\ man.pc = "results"
  /\ \E m \in resultPipe :
       LET results == Append(man.results, m) IN
       /\ resultPipe' = resultPipe \ {m}
       /\ man' = [man EXCEPT !.results = results,
                   !.pc = IF Len(results) = NodeCount THEN "done" ELSE @]
  /\ UNCHANGED <<input, output, src, dst, crcPipe, histPipe, detail, rangePipe,
                 ranges>>

\* main's qsort of the results by their node, of which it has one each.
ByNode(results) ==
  [i \in 1 .. Len(results) |->
     CHOOSE r \in ToSet(results) :
       Cardinality({k \in DOMAIN results : results[k].node < r.node}) = i - 1]

\* read_sort_result; main sorts the results by node when it has them all.
ManagerReadResult ==
  /\ man.pc = "results"
  /\ \E m \in resultPipe :
       LET results == Append(man.results, m)
           all == Len(results) = NodeCount
       IN  /\ resultPipe' = resultPipe \ {m}
           /\ man' = IF all
                     THEN [man EXCEPT !.pc = "done", !.results = ByNode(results)]
                     ELSE [man EXCEPT !.results = results]
  /\ UNCHANGED <<input, output, src, dst, crcPipe, histPipe, detail, rangePipe,
                 ranges>>

ManagerStep ==
  \/ ManagerReadCrc
  \/ ManagerReadHeader
  \/ ManagerReadArray
  \/ ManagerAnalyze
  \/ ManagerAsk
  \/ ManagerHear
  \/ ManagerFault
  \/ ManagerPartition
  \/ ManagerTell
  \/ ManagerReadResult

\* main's test: sort_ok, and crc_test_unsorted against crc_test_sorted. The
\* first result is only compared as the predecessor of the second.
SortOk ==
  \A i \in 2 .. NodeCount :
    /\ man.results[i].max > man.results[i].min
    /\ man.results[i - 1].max < man.results[i].min

CrcOk == Crc(man.crcs) = Crc([i \in 1 .. NodeCount |-> man.results[i].crc])

-----------------------------------------------------------------------------
(* A destination: client/dest. *)

\* repreq_read_sorted_ranges, its reads: a request of any source; a header adds
\* to what is awaited, a part goes behind the items received so far.
DestRead(d) ==
  /\ dst[d].pc = "read"
  /\ \E s \in Nodes :
       /\ Requested(ranges[s][d])
       /\ ranges' = [ranges EXCEPT ![s][d] = Take(@)]
       /\ LET m == ranges[s][d].request[1] IN
          dst' = IF m.type = "EPACKET_RANGE"
                 THEN [dst EXCEPT ![d].pc = "write", ![d].client = s,
                                  ![d].waiting = @ + m.size, ![d].ranges = @ + 1]
                 ELSE [dst EXCEPT ![d].pc = "write", ![d].client = s,
                                  ![d].array = @ \o m.items]
  /\ UNCHANGED <<input, output, src, man, crcPipe, histPipe, detail, rangePipe,
                 resultPipe>>

\* Seeded faults of DestWrite: the loop ends when the bytes awaited so far are
\* there, or when every source has announced its range.
DestWriteLeaves(d, more) ==
  /\ dst[d].pc = "write"
  /\ ranges' = [ranges EXCEPT ![dst[d].client][d] = Answer(@, "reply")]
  /\ dst' = [dst EXCEPT ![d].client = -1, ![d].pc = IF more THEN "read" ELSE "sort"]
  /\ UNCHANGED <<input, output, src, man, crcPipe, histPipe, detail, rangePipe,
                 resultPipe>>

DestWriteByBytes(d) == DestWriteLeaves(d, Len(dst[d].array) < dst[d].waiting)

DestWriteByRanges(d) == DestWriteLeaves(d, dst[d].ranges < NodeCount)

\* repreq_read_sorted_ranges, the reply, and whether the loop goes on.
DestWrite(d) ==
  /\ dst[d].pc = "write"
  /\ ranges' = [ranges EXCEPT ![dst[d].client][d] = Answer(@, "reply")]
  /\ dst' = [dst EXCEPT ![d].client = -1,
                        ![d].pc = IF \/ Len(dst[d].array) < dst[d].waiting
                                     \/ dst[d].ranges < NodeCount
                                  THEN "read" ELSE "sort"]
  /\ UNCHANGED <<input, output, src, man, crcPipe, histPipe, detail, rangePipe,
                 resultPipe>>

\* What becomes of the output file, and what main does next: it reports also when the
\* file could not be opened.
Outcomes(file, items) ==
  [file : Saved(file, items), pc : {"report"}]
    \cup [file : IF MayFail THEN Torn(file, items) ELSE {}, pc : {"aborted"}]

\* Seeded fault of DestSave: the items are saved before they are sorted.
DestSaveUnsorted(d) ==
  /\ dst[d].pc = "sort"
  /\ \E end \in Outcomes(output[d], dst[d].array) :
       /\ output' = [output EXCEPT ![d] = end.file]
       /\ dst' = [dst EXCEPT ![d].pc = end.pc]
  /\ UNCHANGED <<input, src, man, crcPipe, histPipe, detail, rangePipe, ranges,
                 resultPipe>>

\* main: the ARRAY_ITEMS_COUNT items are sorted and saved to the output file.
DestSave(d) ==
  /\ dst[d].pc = "sort"
  /\ \E end \in Outcomes(output[d], Sorted(dst[d].array)) :
       /\ output' = [output EXCEPT ![d] = end.file]
       /\ dst' = [dst EXCEPT ![d].pc = end.pc]
  /\ UNCHANGED <<input, src, man, crcPipe, histPipe, detail, rangePipe, ranges,
                 resultPipe>>

\* write_sort_result, of the sorted array.
DestReport(d) ==
  /\ dst[d].pc = "report"
  /\ LET array == Sorted(dst[d].array) IN
     resultPipe' = resultPipe \cup
       {[node |-> d, min |-> array[1], max |-> array[Len(array)], crc |-> Crc(array)]}
  /\ dst' = [dst EXCEPT ![d].pc = "done"]
  /\ UNCHANGED <<input, output, src, man, crcPipe, histPipe, detail, rangePipe,
                 ranges>>

DestStep(d) ==
  \/ DestRead(d)
  \/ DestWrite(d)
  \/ DestSave(d)
  \/ DestReport(d)

-----------------------------------------------------------------------------
\* Every process has come to its end.
Ended ==
  /\ man.pc = "done"
  /\ \A k \in Nodes : src[k].pc = "done" /\ dst[k].pc = "done"

\* A source or the manager has ended early, before any range was sent, or a
\* destination before its report: those that wait for it wait for ever.
Failed == man.pc = "faulted" \/ \E s \in Nodes : src[s].pc = "exited"
Aborted == \E d \in Nodes : dst[d].pc = "aborted"

Next ==
  \/ \E s \in Nodes : SourceStep(s)
  \/ ManagerStep
  \/ \E d \in Nodes : DestStep(d)
  \/ (Ended \/ Failed \/ Aborted) /\ UNCHANGED vars

\* The nodes are operating system processes: one that can go on does.
Fairness ==
  /\ \A s \in Nodes : WF_vars(SourceStep(s))
  /\ WF_vars(ManagerStep)
  /\ \A d \in Nodes : WF_vars(DestStep(d))

Spec == Init /\ [][Next]_vars /\ Fairness

-----------------------------------------------------------------------------
DataMessages ==
  [type : {"EPACKET_RANGE"}, size : 0 .. ItemsCount]
    \cup [type : {"EPACKET_RANGE_PART"}, items : Seq(Nat)]

TypeOK ==
  /\ input \in Inputs
  /\ output \in [Nodes -> Seq(Nat)]
  /\ \A s \in Nodes :
       /\ src[s].pc \in {"start", "exited", "crc", "hist", "detail", "request",
                         "transfer", "reply", "done"}
       /\ src[s].array \in Seq(Nat)
       /\ src[s].step \in 1 .. 4
       /\ src[s].to \in 0 .. NodeCount
       /\ src[s].sent \in -1 .. ItemsCount
  /\ man.pc \in {"crc", "header", "array", "analyze", "detail", "partition",
                 "tell", "results", "done", "aborted", "faulted"}
  /\ man.dest \in Nodes /\ man.to \in Nodes /\ man.step \in 1 .. 4
  /\ man.told \in 0 .. NodeCount
  /\ \A d \in Nodes :
       /\ dst[d].pc \in {"read", "write", "sort", "report", "done", "aborted"}
       /\ dst[d].array \in Seq(Nat)
       /\ dst[d].waiting \in Nat
       /\ dst[d].ranges \in Nat
       /\ dst[d].client \in Nodes \cup {-1}
  /\ \A s \in Nodes : detail[s].turn \in {"send", "recv"}
  /\ \A s, d \in Nodes :
       ranges[s][d].request = <<>> \/ ranges[s][d].request[1] \in DataMessages

\* Histograms arrive in any order on one pipe and are read in two reads each.
\* The manager never gives a source the array of another one, and analyses the
\* histograms in the order of the files it asks for details on.
HistogramsIntact ==
  /\ man.pc # "aborted"
  /\ \A i \in DOMAIN man.hists : man.hists[i].of \in {man.hists[i].src, -1}
  /\ man.pc \notin {"crc", "header", "array"} =>
       man.hists = [i \in 1 .. NodeCount |-> [src |-> i - 1, of |-> i - 1]]

\* The manager and a source take each of the eight messages of a detailed
\* histogram for the same thing: nobody reads a reply byte as an array length
\* or waits for a request the other does not send.
ExchangeInStep ==
  \A s \in Nodes :
    /\ Requested(detail[s]) =>
         /\ src[s].pc = "detail"
         /\ detail[s].request[1].kind = Asks[src[s].step]
    /\ detail[s].reply # <<>> =>
         /\ man.pc = "detail"
         /\ man.to = s
         /\ detail[s].reply[1] = Answers[man.step]

\* A source leaves the detailed histograms loop exactly when the manager will
\* not ask it again: none is left waiting for a request, none is gone when one
\* comes. (A manager that faults asks nobody any more.)
CompleteAgreed ==
  \A s \in Nodes :
    LET asked == \/ man.pc \in {"partition", "tell", "results", "done"}
                 \/ man.pc = "detail" /\ LastRound /\ s < man.to
    IN  /\ asked => src[s].pc # "detail"
        /\ src[s].pc \in {"request", "transfer", "reply", "done"} =>
             \/ asked
             \/ man.pc = "faulted"
             \/ man.pc = "detail" /\ LastRound /\ s = man.to /\ man.step = 4

\* A destination that leaves its loop has exactly its ARRAY_ITEMS_COUNT items, however
\* the sources' parts interleave and whichever ranges are empty, and has answered every
\* source: none has more for it, and none would wait for an answer for ever.
DestsServed ==
  \A d \in Nodes :
    /\ Len(dst[d].array) <= ItemsCount
    /\ dst[d].pc \notin {"read", "write"} =>
         /\ Len(dst[d].array) = ItemsCount
         /\ \A s \in Nodes :
              \/ src[s].pc = "done"
              \/ src[s].to > d
              \/ src[s].to = d /\ src[s].pc = "reply" /\ Answered(ranges[s][d])

\* The items that a destination reports and that it saves if it can.
SortedArrays ==
  [d \in Nodes |-> IF dst[d].pc \in {"report", "done", "aborted"}
                   THEN Sorted(dst[d].array) ELSE <<>>]

\* The results that the manager compares are the bounds of the destinations' sorted
\* arrays, in node order, and the crcs agree, for no item is lost or sent twice on the
\* way. A verdict that says the sort is right can be trusted: these arrays, in node order,
\* are all the inputs sorted, however the ranges were cut. Of the output files it only
\* says what their destination could do: each has its array in front, or is as it was.
VerdictIsSound ==
  man.pc = "done" =>
    /\ \A d \in Nodes : /\ man.results[d + 1].min = Head(SortedArrays[d])
                        /\ man.results[d + 1].max = Last(SortedArrays[d])
                        /\ output[d] \in Saved(OldOutputs[d], SortedArrays[d])
    /\ CrcOk
    /\ SortOk =>
         FlattenSeq([d \in 1 .. NodeCount |-> SortedArrays[d - 1]])
           = Sorted(FlattenSeq([s \in 1 .. NodeCount |-> input[s - 1]]))

\* Every run whose nodes have what they need, that is with all inputs, room for the
\* outputs and an analysis that ends normally (MayFail is FALSE), comes to the manager's
\* verdict, with every source and destination at its end.
Termination == <>Ended

\* The items in no destination's sorted array.
Left ==
  {p \in Nodes \X (1 .. ItemsCount) :
     \A d \in Nodes : SortedArrays[d] # <<>> => p \notin Given(man.cut, d)}

Job == INSTANCE SortJob WITH array <- SortedArrays, left <- Left

\* The protocol implements the distributed sort job: every destination sorts its share,
\* once, and every item of every input is in exactly one share; its output file gets the
\* share, or stays as it was.
ImplementsSortJob == Job!Spec
=============================================================================
