----------------------------- MODULE DistrMounts -----------------------------
(***************************************************************************)
(* The distributed sort when the file servers of destinations end while    *)
(* their nodes are still at work: a signal interrupts the server, a read   *)
(* it was blocked in returns 0, and every later read and write of the node *)
(* fails.                                                                  *)
(*                                                                         *)
(* A destination does not look at what read returns: it handles the header *)
(* it read last again, may leave its loop, and saves its output, which is  *)
(* not on the mount. It is then an orphan: "dst" and "output" keep what    *)
(* there was of it when its server ended, and "orphans" has what it is     *)
(* since. So what happens to all others are steps of DistrSort, in which   *)
(* it has merely stopped.                                                  *)
(*                                                                         *)
(* Sources and the manager whose servers end have no effect on the others  *)
(* any more. As this specification has no fairness, its behaviours include *)
(* all where they, and messages of theirs, stop.                           *)
(***************************************************************************)
EXTENDS DistrSort

CONSTANTS
  IntMax,       \* the values of a signed int are -IntMax .. IntMax - 1
  Garbage,      \* items of an array that malloc left as it was
  FirstHeaders  \* the header is not initialized: what it may be before a read

ASSUME MountsAssumption ==
  /\ IntMax \in Nat /\ IntMax > ItemsCount
  /\ Garbage \subseteq Nat /\ Garbage # {}

VARIABLES
  orphans,      \* the destinations whose server has ended, and their outputs
  header        \* for each destination the header read last

mountVars == <<orphans, header>>
allVars == <<input, output, src, man, dst, crcPipe, histPipe, detail, rangePipe,
             ranges, resultPipe, orphans, header>>

Gone == DOMAIN orphans
Up(d) == d \notin Gone

\* A destination and its output file, whatever became of its server.
Process(d) == IF Up(d) THEN dst[d] ELSE orphans[d].process
File(d) == IF Up(d) THEN output[d] ELSE orphans[d].file

UnknownHeader == [type |-> "unknown"]

MountsInit ==
  /\ Init
  /\ orphans = <<>>
  /\ header \in [Nodes -> FirstHeaders]

-----------------------------------------------------------------------------
\* The server of a destination ends.
ServerEnds(d) ==
  /\ Up(d)
  /\ dst[d].pc # "done"
  /\ orphans' = [e \in Gone \cup {d} |->
                   IF e = d THEN [process |-> dst[d], file |-> output[d]]
                            ELSE orphans[e]]
  /\ UNCHANGED <<vars, header>>

(* A destination with its mount gone. *)

\* An int that a size_t is added to wraps.
Wrap(x) == ((x + IntMax) % (2 * IntMax)) - IntMax

\* The condition of the loop in repreq_read_sorted_ranges.
Waits(p) == Len(p.array) < p.waiting \/ p.ranges < NodeCount

LoopEnd(p) == [p EXCEPT !.pc = IF Waits(p) THEN "read" ELSE "sort"]

\* What it does has no effect on the others.
Orphan(d) == d \in Gone /\ UNCHANGED <<vars, header>>

\* The read fails and a stale EPACKET_RANGE is counted again. The counter of
\* ranges only matters up to NodeCount.
DestCountsAgain(d) ==
  /\ Orphan(d)
  /\ Process(d).pc = "read"
  /\ header[d].type = "EPACKET_RANGE"
  /\ orphans' = [orphans EXCEPT ![d].process =
       LoopEnd([@ EXCEPT !.waiting = Wrap(@ + header[d].size),
                         !.ranges = IF @ < NodeCount THEN @ + 1 ELSE @])]

\* The read of the items of a part fails, behind a stale header or the last one
\* that could be read: assert(bytes>0).
DestAborts(d) ==
  /\ Orphan(d)
  /\ Process(d).pc = "read"
  /\ \/ header[d].type = "EPACKET_RANGE_PART"
     \/ \E s \in Nodes : /\ Requested(ranges[s][d])
                         /\ ranges[s][d].request[1].type = "EPACKET_RANGE_PART"
  /\ orphans' = [orphans EXCEPT ![d].process.pc = "aborted"]

\* The reply cannot be written.
DestNotReplies(d) ==
  /\ Orphan(d)
  /\ Process(d).pc = "write"
  /\ orphans' = [orphans EXCEPT ![d].process = LoopEnd([@ EXCEPT !.client = -1])]

\* The output file is not on the mount: the whole array is sorted and saved if it can
\* be, whatever was received of it.
DestSavesAll(d) ==
  /\ Orphan(d)
  /\ Process(d).pc = "sort"
  /\ \E g \in Garbage :
       LET received == Process(d).array
           array == received \o [i \in 1 .. ItemsCount - Len(received) |-> g]
       IN  \E end \in Outcomes(File(d), Sorted(array)) :
             orphans' = [orphans EXCEPT ![d].file = end.file,
                           ![d].process = [@ EXCEPT !.pc = end.pc, !.array = array]]

\* Seeded fault of DestNotReports: the result gets through all the same.
DestReportsStill(d) ==
  /\ d \in Gone
  /\ Process(d).pc = "report"
  /\ LET array == Sorted(Process(d).array) IN
     resultPipe' = resultPipe \cup
       {[node |-> d, min |-> array[1], max |-> array[Len(array)], crc |-> Crc(array)]}
  /\ orphans' = [orphans EXCEPT ![d].process.pc = "done"]
  /\ UNCHANGED <<input, output, src, man, dst, crcPipe, histPipe, detail, rangePipe,
                 ranges, header>>

\* The result cannot be written.
DestNotReports(d) ==
  /\ Orphan(d)
  /\ Process(d).pc = "report"
  /\ orphans' = [orphans EXCEPT ![d].process.pc = "done"]

\* A step of a destination whose mount is there, with the header it reads.
DestGoesOn(d) ==
  /\ Up(d)
  /\ DestStep(d)
  /\ header' = IF dst[d].pc = "read"
               THEN [header EXCEPT ![d] = ranges[dst'[d].client][d].request[1]]
               ELSE header
  /\ UNCHANGED orphans

MountsNext ==
  \/ (\E s \in Nodes : SourceStep(s)) /\ UNCHANGED mountVars
  \/ ManagerStep /\ UNCHANGED mountVars
  \/ \E d \in Nodes :
       \/ DestGoesOn(d)
       \/ ServerEnds(d)
       \/ DestCountsAgain(d)
       \/ DestAborts(d)
       \/ DestNotReplies(d)
       \/ DestSavesAll(d)
       \/ DestNotReports(d)

MountsSpec == MountsInit /\ [][MountsNext]_allVars

-----------------------------------------------------------------------------
(* A destination whose own mount stays leaves its loop with exactly its    *)
(* items, and with no source that waits for it or has more to send,        *)
(* whatever happens at the other destinations.                             *)
LivingDestFull ==
  \A d \in Nodes : Up(d) =>
    /\ Len(dst[d].array) <= ItemsCount
    /\ dst[d].pc \notin {"read", "write"} =>
         /\ Len(dst[d].array) = ItemsCount
         /\ \A s \in Nodes :
              \/ src[s].pc = "done" \/ src[s].to > d
              \/ src[s].to = d /\ src[s].pc = "reply" /\ Answered(ranges[s][d])

\* What the manager told the sources to send to d, sorted.
Share(d) == Sorted([p \in Given(man.cut, d) |-> Sorted(input[p[1]])[p[2]]])

(* A destination that lost its server may sort and save what is not its    *)
(* share. The manager never comes to a verdict on it: what it compares are *)
(* the results of the shares it asked for, and every output file has its   *)
(* share in front or is as it was, with nothing of a damaged array.        *)
NoVerdictOnDamage ==
  man.pc = "done" =>
    /\ \A d \in Nodes : /\ Sorted(Process(d).array) = Share(d)
                        /\ File(d) \in Saved(OldOutputs[d], Share(d))
    /\ CrcOk

(* If a source exits or the analysis fails, no destination with its mount  *)
(* touches its output file; if one is aborted before its report, with its  *)
(* mount or not, its file may be torn. In neither case does the manager    *)
(* give a verdict: partial data never become a seemingly complete result,  *)
(* also when servers end before, at the same time or after.                *)
NoPartialResult ==
  /\ Failed => \A d \in Nodes : Up(d) => output[d] = OldOutputs[d]
  /\ Failed \/ (\E d \in Nodes : Process(d).pc = "aborted") => man.pc # "done"

(* repreq_read_sorted_ranges says that it is "waiting in loop while not    *)
(* all waiting bytes received and for all ranges": no destination leaves   *)
(* it with less than every source has for it.                              *)
WaitsForAllRanges ==
  \A d \in Nodes : Process(d).pc = "sort" => Len(Process(d).array) = ItemsCount

=============================================================================
