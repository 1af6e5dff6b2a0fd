----------------------------- MODULE HistAnalyzer -----------------------------
(***************************************************************************)
(* The analysis of the histograms (client/manager/histanlz.c): from every  *)
(* step-th item of each source's sorted array the manager cuts the arrays  *)
(* into one range per source and destination. A worker per source walks    *)
(* the coarse histogram and, near the end of a destination's share, a      *)
(* detailed histogram (client/dsort.c, step 1) asked from the sources.     *)
(*                                                                         *)
(* One step is one iteration of the inner loop of                          *)
(* alloc_range_request_analize_histograms. Reads past the end of a         *)
(* histogram and assertions that fail end the analysis: "status" says how. *)
(* Indexes are those of the C arrays, from 0.                              *)
(***************************************************************************)
EXTENDS Integers, Sequences, FiniteSets, FiniteSetsExt, Functions

CONSTANTS
  Inputs,       \* the sorted arrays that the sources may have, by source
  Step          \* the step of the coarse histograms, 1000 in main_src.c

VARIABLES
  array,        \* the sources' sorted arrays, by source
  workers,      \* struct histogram_worker workers[len]
  dest,         \* destination_index
  range_count,
  last_requested,   \* last_histograms_requested
  allow_remove,     \* allow_check_remove_detailed_hitogram
  asked,        \* the rounds of requests: the destination and the complete flag
  result,       \* result[destination][source]: first and last item index
  status        \* "run", "done", or how the analysis went wrong

vars == <<array, workers, dest, range_count, last_requested, allow_remove,
          asked, result, status>>

Nodes == DOMAIN array

\* len, SRC_NODES_COUNT
NodeCount == Cardinality(Nodes)

\* single_src_items_count, ARRAY_ITEMS_COUNT
ItemsCount == Cardinality(DOMAIN array[0])

ASSUME AnalyzerAssumption ==
  /\ Step \in Nat \ {0, 1}
  /\ \A input \in Inputs :
       LET nodes == Cardinality(DOMAIN input)  items == Cardinality(DOMAIN input[0]) IN
       /\ nodes \in Nat \ {0} /\ items \in Nat \ {0}
       /\ items % Step = 0 /\ nodes * Step <= items
       /\ input \in [0 .. nodes - 1 -> [0 .. items - 1 -> Nat]]
       /\ \A n \in DOMAIN input : \A i \in 1 .. items - 1 : input[n][i - 1] <= input[n][i]

-----------------------------------------------------------------------------
(* client/dsort.c and client/source/comm_src.c: the histograms. *)

\* Seeded fault of HistogramOf: the items are those of the array's beginning.
HistogramOfStart(a, offset, n, step) ==
  [h \in 0 .. ((n + step - 1) \div step) - 1 |->
     [item_index |-> offset + h * step,
      last_item_index |-> offset + h * step + step - 1,
      item |-> a[h * step]]]

\* alloc_histogram_array_get_len: one item for every block of step items of the
\* n items from offset on. The last block may be shorter than last_item_index
\* says; the code that would correct it is never reached.
HistogramOf(a, offset, n, step) ==
  [h \in 0 .. ((n + step - 1) \div step) - 1 |->
     [item_index |-> offset + h * step,
      last_item_index |-> offset + h * step + step - 1,
      item |-> a[offset + h * step]]]

\* read_requests_write_detailed_histograms: the histogram a source answers to a
\* request of the items from first up to last.
DetailedHistogram(a, first, last) ==
  LET offset == Min({first, ItemsCount - 1})
  IN  HistogramOf(a, offset, Min({last - first, ItemsCount - offset}), 1)

-----------------------------------------------------------------------------
(* A worker: struct histogram_worker. *)

None == <<>>    \* a NULL array

Size(h) == Cardinality(DOMAIN h)

\* init_worker
NewWorker(a) ==
  [hist |-> HistogramOf(a, 0, Cardinality(DOMAIN a), Step), detail |-> None,
   begin_offset |-> 0, begin_hist |-> 0, end_hist |-> 0,
   begin_detail |-> 0, end_detail |-> 0, complete |-> FALSE]

\* Seeded fault of CheckRemove: a detailed histogram is never discarded.
KeepDetailed(w) == w

\* check_remove_detailed_histogram: when the cursor of the detailed histogram is
\* at an item of the coarse one, go on with the coarse one from there.
CheckRemove(w) ==
  IF w.detail = None THEN w
  ELSE LET current == w.detail[w.end_detail].item_index
           later == {k \in w.end_hist .. Size(w.hist) - 1 :
                       w.hist[k].item_index >= current}
           index == IF later = {} THEN 0 ELSE Min(later)
       IN  IF w.hist[index].item_index # current THEN w
           ELSE [w EXCEPT !.begin_offset = w.detail[w.begin_detail].item_index,
                          !.begin_hist = index, !.end_hist = index,
                          !.detail = None]

\* Seeded fault of InitHistogram: the range still begins where the last one did.
InitNotAtCursor(w) ==
  IF w.detail # None THEN [w EXCEPT !.begin_offset = 0, !.begin_hist = -1]
  ELSE [w EXCEPT !.begin_offset = 0, !.begin_hist = w.end_hist]

\* init_histogram: a new destination's range begins at the cursor.
InitHistogram(w) ==
  IF w.detail # None
  THEN [w EXCEPT !.begin_offset = 0, !.begin_hist = -1, !.begin_detail = w.end_detail]
  ELSE [w EXCEPT !.begin_offset = 0, !.begin_hist = w.end_hist]

\* set_detailed_histogram, when its assertion holds.
SetDetailed(w, h) ==
  IF Size(h) = 0 THEN w
  ELSE [w EXCEPT !.detail = h, !.begin_detail = 0, !.end_detail = 0]

\* set_next_histogram
SetNext(w) ==
  IF w.detail = None THEN [w EXCEPT !.end_hist = @ + 1]
  ELSE IF w.end_detail + 1 = Size(w.detail) THEN [w EXCEPT !.complete = TRUE]
  ELSE IF ~ w.complete THEN [w EXCEPT !.end_detail = @ + 1]
  ELSE w

\* value_at_cursor_histogram: the item at the cursor, if there is one.
ValueAtCursor(w) ==
  LET h == IF w.detail # None THEN w.detail ELSE w.hist
      k == IF w.detail # None THEN w.end_detail ELSE w.end_hist
  IN  IF ~ w.complete /\ k < Size(h) THEN {h[k].item} ELSE {}

\* length_current_histogram
LengthCurrent(w) ==
  LET current == IF w.detail # None THEN w.detail[w.end_detail] ELSE w.hist[w.end_hist]
  IN  current.last_item_index - current.item_index + 1

\* get_begin_end_histograms_item_indexes
RangeBegin(w) ==
  LET at == IF w.detail # None THEN {w.detail[w.begin_detail].item_index} ELSE {}
      offset == IF w.begin_offset > 0 THEN {w.begin_offset} ELSE {}
      coarse == IF w.detail = None \/ w.begin_hist # -1
                THEN {w.hist[w.begin_hist].item_index} ELSE {}
  IN  Min(at \cup offset \cup coarse)

\* Seeded fault of RangeEnd: the last item of a used up histogram is left out.
RangeEndCursor(w) ==
  IF w.detail = None THEN w.hist[w.end_hist].item_index
  ELSE w.detail[w.end_detail].item_index

RangeEnd(w) ==
  IF w.detail = None THEN w.hist[w.end_hist].item_index
  ELSE w.detail[w.end_detail].item_index + (IF w.complete THEN 1 ELSE 0)

\* size_all_processed_histograms
SizeAllProcessed(ws) ==
  SumFunction([i \in Nodes |-> RangeEnd(ws[i]) - RangeBegin(ws[i])])

\* The coarse cursor is behind its histogram's last item: the C code still reads
\* histogram.array there.
PastCoarse(w) == w.end_hist >= Size(w.hist)

-----------------------------------------------------------------------------
Init ==
  /\ array \in Inputs
  /\ workers = [i \in Nodes |-> NewWorker(array[i])]
  /\ dest = 0
  /\ range_count = 0
  /\ last_requested = FALSE
  /\ allow_remove = FALSE
  /\ asked = <<>>
  /\ result = <<>>
  /\ status = "run"

\* Detailed histograms that are no longer needed are discarded, but not those of
\* the last round, nor before the first destination after a round.
Checked ==
  IF ~ last_requested /\ allow_remove
  THEN [i \in Nodes |-> CheckRemove(workers[i])]
  ELSE workers

Candidates(ws) == {i \in Nodes : ValueAtCursor(ws[i]) # {}}

\* The source with the smallest item at its cursor, the last one of equals.
Smallest(ws) ==
  Max({i \in Candidates(ws) :
         \A j \in Candidates(ws) :
           \A x \in ValueAtCursor(ws[i]), y \in ValueAtCursor(ws[j]) : x <= y})

Moved == [Checked EXCEPT ![Smallest(Checked)] = SetNext(@)]

\* The iteration reads a coarse histogram behind its end.
Overreads == \E i \in Nodes : Moved[i].detail = None /\ PastCoarse(Moved[i])

\* The destination's share nearly ends in coarse items: details are needed.
Asks ==
  LET ws == Moved  w == ws[Smallest(Checked)] IN
  /\ w.detail = None
  /\ SizeAllProcessed(ws) + NodeCount * LengthCurrent(w) >= ItemsCount

InLoop == status = "run" /\ range_count < ItemsCount

Overread ==
  /\ InLoop
  /\ Candidates(Checked) # {}
  /\ Overreads
  /\ status' = "overread"
  /\ UNCHANGED <<array, workers, dest, range_count, last_requested,
                 allow_remove, asked, result>>

\* An iteration that only moves a cursor.
Advance ==
  /\ InLoop
  /\ Candidates(Checked) # {}
  /\ ~ Overreads
  /\ ~ Asks
  /\ workers' = Moved
  /\ range_count' = SizeAllProcessed(Moved)
  /\ UNCHANGED <<array, dest, last_requested, allow_remove, asked, result, status>>

\* request_assign_detailed_histogram: what it asks of source i.
Detailed(ws, i, length) ==
  LET start == ws[i].hist[ws[i].end_hist].item_index
  IN  DetailedHistogram(array[i], start, Min({start + length * NodeCount, ItemsCount}))

\* Seeded fault of LastRequest: off by one.
NeverLastRequest == dest >= NodeCount

\* last_histograms_requested of a round for the destination at hand.
LastRequest == dest + 1 >= NodeCount

\* An iteration that ends with a round of requests. A worker that still has a
\* detailed histogram fails the assertion of set_detailed_histogram.
AskDetails ==
  /\ InLoop
  /\ Candidates(Checked) # {}
  /\ ~ Overreads
  /\ Asks
  /\ LET ws == Moved
         length == LengthCurrent(ws[Smallest(Checked)])
         last == LastRequest
     IN  /\ asked' = Append(asked, [dest |-> dest, complete |-> last])
         /\ last_requested' = last
         /\ range_count' = SizeAllProcessed(ws)
         /\ IF \E i \in Nodes : PastCoarse(ws[i])
            THEN status' = "overread" /\ UNCHANGED <<workers, allow_remove>>
            ELSE IF \E i \in Nodes : ws[i].detail # None
            THEN status' = "assert_failed" /\ UNCHANGED <<workers, allow_remove>>
            ELSE /\ workers' = [i \in Nodes |-> SetDetailed(ws[i], Detailed(ws, i, length))]
                 /\ allow_remove' = FALSE
                 /\ UNCHANGED status
  /\ UNCHANGED <<array, dest, result>>

\* The destination's share is complete: its ranges are saved, and the next
\* destination begins where they end.
Save ==
  /\ status = "run"
  /\ range_count >= ItemsCount
  /\ result' = Append(result, [i \in Nodes |-> [first |-> RangeBegin(workers[i]),
                                                last |-> RangeEnd(workers[i]) - 1]])
  /\ allow_remove' = TRUE
  /\ dest' = dest + 1
  /\ range_count' = 0
  /\ last_requested' = FALSE
  /\ IF dest + 1 < NodeCount
     THEN workers' = [i \in Nodes |-> InitHistogram(workers[i])] /\ UNCHANGED status
     ELSE status' = "done" /\ UNCHANGED workers
  /\ UNCHANGED <<array, asked>>

Stopped == status # "run" /\ UNCHANGED vars

Next == Overread \/ Advance \/ AskDetails \/ Save \/ Stopped

Spec == Init /\ [][Next]_vars

-----------------------------------------------------------------------------
\* The ranges saved so far cut every array from its start without a gap or an
\* overlap, and give every destination exactly ItemsCount items.
RangesContiguous ==
  /\ \A d \in DOMAIN result : \A i \in Nodes :
       /\ result[d][i].first = IF d = 1 THEN 0 ELSE result[d - 1][i].last + 1
       /\ result[d][i].last >= result[d][i].first - 1
  /\ \A d \in DOMAIN result :
       SumFunction([i \in Nodes |-> result[d][i].last - result[d][i].first + 1])
         = ItemsCount

\* histanlz.c:171 of the result: "part of sorted data". When the analysis ends
\* normally, no item of a destination's ranges is greater than an item that is
\* left for the destinations after it, of whatever source.
RangesOrdered ==
  status = "done" =>
  \A d \in DOMAIN result : \A i, j \in Nodes :
    \A x \in result[d][i].first .. result[d][i].last :
      \A y \in result[d][j].last + 1 .. ItemsCount - 1 : array[i][x] <= array[j][y]

\* With two sources the ranges are those of the sorted data: the coarse blocks
\* that are passed on the evidence of their first items, and the details that are
\* kept or thrown away, never cost an item that belongs to the other side.
TwoOrdered == NodeCount <= 2 => RangesOrdered

\* The analysis that ends normally has asked for details once per destination at
\* most, and for the last one, with the complete flag, exactly once: otherwise
\* the sources would wait for the next request for ever, or answer one that a
\* source which left its loop cannot see.
AsksWhenLast ==
  status = "done" =>
    /\ \E k \in DOMAIN asked : asked[k].complete
    /\ \A k, l \in DOMAIN asked : k < l => asked[k].dest < asked[l].dest
    /\ \A k \in DOMAIN asked : asked[k].complete <=> k = Len(asked)

\* "should not be previous detailed histograms", histanlz.c:69.
NoPreviousDetailed == status # "assert_failed"

\* assert( -1 != source_index_of_histogram ), histanlz.c:222: as long as the
\* destination's share is not complete some source has an item at its cursor,
\* however the detailed histograms were cut, used up or discarded.
CursorFound == InLoop => Candidates(Checked) # {}

\* The items the cursors have passed, and the destinations served.
Progress == dest + SumFunction([i \in Nodes |-> RangeEnd(workers[i])])

\* The analysis always stops: whatever histograms are loaded, discarded or used
\* up, an iteration moves a cursor forward over the items and no bookkeeping
\* moves one back, so a loop that goes on comes ever closer to the end.
AlwaysForward == [][status' = "run" => Progress' > Progress]_vars
=============================================================================
