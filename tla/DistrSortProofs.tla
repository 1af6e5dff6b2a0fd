--------------------------- MODULE DistrSortProofs ---------------------------
(***************************************************************************)
(* For any number of nodes, inputs and items, with and without failures:   *)
(* the manager and the sources agree on the histograms, on every message   *)
(* of the detailed ones, and on when these end; and a destination that     *)
(* leaves its loop has the items that the analysis gave it, and every      *)
(* source has its answer.                                                  *)
(***************************************************************************)
EXTENDS DistrSort, FiniteSetTheorems, TLAPS

\* The protocol without its fairness: what holds of it also holds if nodes stop.
Steps == Init /\ [][Next]_vars

\* The parts of the state that the exchange is about.
Message == [kind : {"request_data", "is_complete", "reply"}, complete : BOOLEAN]
Reply == {"reply", "nodeid", "array_len", "histogram"}

Link ==
  [turn : {"send", "recv"}, request : {<<>>} \cup {<<m>> : m \in Message},
   reply : {<<>>} \cup {<<r>> : r \in Reply}]

SourcePcs == {"start", "exited", "crc", "hist", "detail", "request", "transfer",
              "reply", "done"}

Collecting == {"crc", "header", "array"}

ManagerPcs == Collecting \cup {"analyze", "detail", "partition", "tell", "results",
                               "done", "faulted"}

Shape ==
  /\ DOMAIN src = Nodes
  /\ \A s \in Nodes :
       /\ {"pc", "step", "complete"} \subseteq DOMAIN src[s]
       /\ src[s].pc \in SourcePcs
       /\ src[s].step \in 1 .. 4
       /\ src[s].complete \in BOOLEAN
  /\ {"pc", "tempbuf", "hists", "dest", "to", "step"} \subseteq DOMAIN man
  /\ man.pc \in ManagerPcs
  /\ man.dest \in Nodes
  /\ man.to \in Nodes
  /\ man.step \in 1 .. 4
  /\ detail \in [Nodes -> Link]
  /\ DOMAIN histPipe = Nodes

\* A histogram that was read: its header, and, unless it is only now coming, the
\* array of the same source.
HistRecord == [src : Nodes, of : Nodes \cup {-1}]

\* While the manager collects histograms: it has those of different sources, which
\* have none on the way any more; a source's own is on the way, read, or to come.
Collected ==
  man.pc \in Collecting =>
    LET n == Len(man.hists) IN
    /\ man.hists \in Seq(HistRecord)
    /\ \A i, j \in 1 .. n : man.hists[i].src = man.hists[j].src => i = j
    /\ \A i \in 1 .. n :
         /\ src[man.hists[i].src].pc = "detail"
         /\ histPipe[man.hists[i].src] = <<>>
    /\ \A s \in Nodes :
         \/ histPipe[s] = <<>>
         \/ histPipe[s] = <<HistogramMessage(s)>> /\ src[s].pc = "detail"
    /\ IF man.pc = "array"
       THEN /\ n \in 1 .. NodeCount
            /\ man.tempbuf = <<[kind |-> "array", src |-> man.hists[n].src]>>
            /\ \A i \in 1 .. n : man.hists[i].of
                                   = IF i = n THEN -1 ELSE man.hists[i].src
       ELSE /\ n < NodeCount
            /\ man.tempbuf = <<>>
            /\ \A i \in 1 .. n : man.hists[i].of = man.hists[i].src

\* When it has them all.
Complete ==
  man.pc \notin Collecting =>
    man.hists = [i \in 1 .. NodeCount |-> [src |-> i - 1, of |-> i - 1]]

Here(s) == man.pc = "detail" /\ man.to = s

\* The source has answered the last request of the last round.
Past(s) ==
  \/ man.pc \in {"partition", "tell", "results", "done"}
  \/ /\ man.pc = "detail" /\ LastRound
     /\ \/ s < man.to
        \/ s = man.to /\ man.step = 4 /\ detail[s].reply # <<>>

\* The exchange with a source: nothing on the way, a request, or an answer.
Quiet(s) ==
  /\ detail[s] = Fresh
  /\ src[s].step = IF Here(s) THEN man.step ELSE 1

Asking(s) ==
  /\ Here(s)
  /\ src[s].pc = "detail"
  /\ detail[s] = [turn |-> "recv", request |-> <<Ask(man.step, LastRound)>>,
                  reply |-> <<>>]
  /\ src[s].step = man.step

Answering(s) ==
  /\ Here(s)
  /\ detail[s] = [turn |-> "recv", request |-> <<>>, reply |-> <<Answers[man.step]>>]
  /\ src[s].step = IF man.step = 4 THEN 1 ELSE man.step + 1

Exchange(s) == Quiet(s) \/ Asking(s) \/ Answering(s)

\* Until it leaves its loop a source holds the round for the last one exactly from
\* the second request of the last round on.
Told(s) ==
  src[s].pc \in {"start", "exited", "crc", "hist", "detail"} =>
    (src[s].complete <=> Here(s) /\ LastRound /\ src[s].step \in {3, 4})

Phase(s) ==
  /\ man.pc \in Collecting =>
       src[s].pc \in {"start", "exited", "crc", "hist", "detail"}
  /\ man.pc \notin Collecting =>
       src[s].pc \in {"detail", "request", "transfer", "reply", "done"}
  /\ man.pc \notin Collecting \cup {"faulted"} =>
       (src[s].pc = "detail" <=> ~ Past(s))

ExInv ==
  /\ Shape
  /\ Collected
  /\ Complete
  /\ \A s \in Nodes : Exchange(s) /\ Told(s) /\ Phase(s)

-----------------------------------------------------------------------------
\* A step that moves a source on in its main, outside its exchange with the manager.
MovesOn(s) ==
  /\ UNCHANGED <<man, detail, histPipe>>
  /\ DOMAIN src' = Nodes
  /\ {"pc", "step", "complete"} \subseteq DOMAIN src'[s]
  /\ src'[s].step = src[s].step /\ src'[s].complete = src[s].complete
  /\ \/ src[s].pc \in {"start", "crc"} /\ src'[s].pc \in {"exited", "crc", "hist"}
     \/ /\ src[s].pc \in {"request", "transfer", "reply"}
        /\ src'[s].pc \in {"transfer", "reply", "done"}
  /\ \A k \in Nodes \ {s} : src'[k] = src[k]

\* Outside its exchange with the manager a source only moves on in its main.
LEMMA SourceMoves ==
  ASSUME ExInv, NEW s \in Nodes,
         \/ SourceSort(s) \/ SourceExit(s) \/ SourceWriteCrc(s)
         \/ SourceReadRequest(s) \/ SourceSend(s) \/ SourceReceive(s)
  PROVE  MovesOn(s)
<1> USE DEF ExInv, Shape, MovesOn
<1>1. CASE SourceSort(s)
  BY <1>1 DEF SourceSort
<1>2. CASE SourceExit(s)
  BY <1>2 DEF SourceExit
<1>3. CASE SourceWriteCrc(s)
  BY <1>3 DEF SourceWriteCrc
<1>4. CASE SourceReadRequest(s)
  BY <1>4 DEF SourceReadRequest
<1>5. CASE SourceSend(s)
  BY <1>5 DEF SourceSend
<1>6. CASE SourceReceive(s)
  BY <1>6 DEF SourceReceive
<1> QED
  BY <1>1, <1>2, <1>3, <1>4, <1>5, <1>6

\* What the manager has collected so far is a sequence of histograms of sources.
LEMMA HistTypes ==
  ASSUME ExInv, man.pc \in Collecting
  PROVE  /\ man.hists \in Seq(HistRecord)
         /\ Len(man.hists) \in Nat
         /\ \A i \in 1 .. Len(man.hists) : /\ man.hists[i] \in HistRecord
                                           /\ man.hists[i].src \in Nodes
<1>1. man.hists \in Seq(HistRecord)
  BY DEF ExInv, Collected
<1>2. \A i \in 1 .. Len(man.hists) : man.hists[i] \in HistRecord
  BY <1>1
<1> QED
  BY <1>1, <1>2 DEF HistRecord

\* Collected is about the manager, the messages and which sources are in their loop.
LEMMA SameCollected ==
  ASSUME ExInv, UNCHANGED <<man, histPipe>>,
         \A k \in Nodes : src'[k].pc = "detail" <=> src[k].pc = "detail"
  PROVE  Collected'
<1> SUFFICES ASSUME man.pc \in Collecting
             PROVE  Collected'
  BY DEF Collected
<1>. Collected /\ UNCHANGED <<man, histPipe>>
  BY DEF ExInv
<1>1. \A i \in 1 .. Len(man.hists) : man.hists[i].src \in Nodes
  BY HistTypes
<1>2. \A i \in 1 .. Len(man.hists) : /\ src'[man.hists[i].src].pc = "detail"
                                     /\ histPipe'[man.hists[i].src] = <<>>
  BY <1>1 DEF Collected
<1>3. \A s \in Nodes : \/ histPipe'[s] = <<>>
                       \/ /\ histPipe'[s] = <<HistogramMessage(s)>>
                          /\ src'[s].pc = "detail"
  BY DEF Collected
<1>4. /\ man.hists \in Seq(HistRecord)
      /\ \A i, j \in 1 .. Len(man.hists) : man.hists[i].src = man.hists[j].src => i = j
      /\ IF man.pc = "array"
         THEN /\ Len(man.hists) \in 1 .. NodeCount
              /\ man.tempbuf = <<[kind |-> "array", src |-> man.hists[Len(man.hists)].src]>>
              /\ \A i \in 1 .. Len(man.hists) :
                   man.hists[i].of = IF i = Len(man.hists) THEN -1 ELSE man.hists[i].src
         ELSE /\ Len(man.hists) < NodeCount
              /\ man.tempbuf = <<>>
              /\ \A i \in 1 .. Len(man.hists) : man.hists[i].of = man.hists[i].src
  BY DEF Collected
<1>5. man' = man
  OBVIOUS
<1> QED
  BY <1>2, <1>3, <1>4, <1>5 DEF Collected

\* Such a move keeps the exchange in step.
LEMMA MovesOnPreserves ==
  ASSUME ExInv, NEW s \in Nodes, MovesOn(s)
  PROVE  ExInv'
<1>1. Shape'
  BY DEF ExInv, Shape, MovesOn, SourcePcs
<1>2. \A k \in Nodes : /\ src'[k].step = src[k].step
                        /\ src'[k].complete = src[k].complete
                        /\ src'[k].pc = "detail" <=> src[k].pc = "detail"
  BY DEF ExInv, Shape, MovesOn
<1>3. Collected'
  BY <1>2, SameCollected DEF MovesOn
<1>4. Complete'
  BY DEF ExInv, Complete, MovesOn
<1>5. ASSUME NEW k \in Nodes
      PROVE  Exchange(k)' /\ Told(k)' /\ Phase(k)'
  <2>1. Exchange(k) /\ Told(k) /\ Phase(k)
    BY DEF ExInv
  <2>2. Exchange(k)' /\ Told(k)'
    BY <1>2, <2>1 DEF Exchange, Quiet, Asking, Answering, Told, Here, LastRound, MovesOn
  <2>3. Phase(k)'
    BY <1>2, <2>1 DEF Phase, Past, LastRound, MovesOn, ExInv, Shape, Collecting
  <2> QED
    BY <2>2, <2>3
<1> QED
  BY <1>1, <1>3, <1>4, <1>5 DEF ExInv

\* Nothing has been collected, and nothing is on the way, when the nodes start.
LEMMA ExInit ==
  Init => ExInv
<1> SUFFICES ASSUME Init PROVE ExInv
  OBVIOUS
<1> USE CountsAssumption
<1>1. NodeCount \in Nat /\ 0 \in Nodes
  BY DEF Nodes
<1>2. Fresh \in Link
  BY DEF Fresh, Link
<1>3. Shape
  <2>1. DOMAIN src = Nodes /\ \A s \in Nodes :
          src[s] = [pc |-> "start", array |-> <<>>, step |-> 1, complete |-> FALSE,
                    request |-> <<>>, to |-> 0, sent |-> -1]
    BY DEF Init
  <2>2. \A s \in Nodes : /\ {"pc", "step", "complete"} \subseteq DOMAIN src[s]
                         /\ src[s].pc \in SourcePcs
                         /\ src[s].step \in 1 .. 4
                         /\ src[s].complete \in BOOLEAN
    <3>1. \A s \in Nodes : /\ DOMAIN src[s] = {"pc", "array", "step", "complete",
                                               "request", "to", "sent"}
                           /\ src[s].pc = "start" /\ src[s].step = 1
      BY <2>1
    <3>2. \A s \in Nodes : src[s].complete = FALSE
      BY <2>1
    <3>3. \A s \in Nodes : src[s].complete \in BOOLEAN
      BY <3>2
    <3>4. \A s \in Nodes : {"pc", "step", "complete"} \subseteq DOMAIN src[s]
      BY <3>1
    <3> QED
      BY <3>1, <3>3, <3>4 DEF SourcePcs
  <2>3. /\ {"pc", "tempbuf", "hists", "dest", "to", "step"} \subseteq DOMAIN man
        /\ man.pc \in ManagerPcs
        /\ man.dest \in Nodes /\ man.to \in Nodes /\ man.step \in 1 .. 4
    BY <1>1 DEF Init, ManagerPcs, Collecting
  <2>4. detail \in [Nodes -> Link] /\ DOMAIN histPipe = Nodes
    BY <1>2 DEF Init
  <2> QED
    BY <2>1, <2>2, <2>3, <2>4 DEF Shape
<1>4. Collected
  BY <1>1 DEF Init, Collected
<1>5. Complete
  BY DEF Init, Complete, Collecting
<1>6. \A s \in Nodes : Exchange(s) /\ Told(s) /\ Phase(s)
  BY DEF Init, Exchange, Quiet, Told, Phase, Here, Past, Collecting
<1> QED
  BY <1>3, <1>4, <1>5, <1>6 DEF ExInv

\* A source that has not sent its histogram yet is not among those the manager has.
LEMMA HistogramSent ==
  ASSUME ExInv, NEW s \in Nodes, SourceWriteHistogram(s)
  PROVE  ExInv'
<1> USE DEF SourceWriteHistogram
<1>1. man.pc \in Collecting
  BY DEF ExInv, Phase
<1>2. Shape'
  BY DEF ExInv, Shape, SourcePcs
<1>3. /\ src'[s].pc = "detail" /\ src'[s].step = src[s].step
      /\ src'[s].complete = src[s].complete
      /\ \A k \in Nodes \ {s} : src'[k] = src[k]
  BY DEF ExInv, Shape
<1>4. /\ histPipe'[s] = Append(histPipe[s], HistogramMessage(s))
      /\ \A k \in Nodes \ {s} : histPipe'[k] = histPipe[k]
  BY DEF ExInv, Shape
<1>5. histPipe[s] = <<>> /\ \A i \in 1 .. Len(man.hists) : man.hists[i].src # s
  BY <1>1 DEF ExInv, Collected
<1>6. Collected'
  <2>1. \A i \in 1 .. Len(man.hists) : /\ src'[man.hists[i].src].pc = "detail"
                                       /\ histPipe'[man.hists[i].src] = <<>>
    BY <1>1, <1>3, <1>4, <1>5, HistTypes DEF ExInv, Collected
  <2>2. \A k \in Nodes : \/ histPipe'[k] = <<>>
                         \/ /\ histPipe'[k] = <<HistogramMessage(k)>>
                            /\ src'[k].pc = "detail"
    BY <1>1, <1>3, <1>4, <1>5 DEF ExInv, Collected
  <2> QED
    BY <1>1, <2>1, <2>2 DEF ExInv, Collected
<1>7. Complete'
  BY DEF ExInv, Complete
<1>8. ASSUME NEW k \in Nodes
      PROVE  Exchange(k)' /\ Told(k)' /\ Phase(k)'
  <2>1. Exchange(k) /\ Told(k) /\ Phase(k)
    BY DEF ExInv
  <2>2. ~ Here(k) /\ ~ Here(k)'
    BY <1>1 DEF Here, Collecting
  <2>3. src'[k].step = src[k].step /\ src'[k].complete = src[k].complete
    BY <1>3
  <2>4. Exchange(k)'
    BY <2>1, <2>2, <2>3 DEF Exchange, Quiet, Asking, Answering
  <2>5. Told(k)' /\ Phase(k)'
    BY <1>1, <1>3, <2>1, <2>2, <2>3 DEF Told, Phase, Past, Collecting
  <2> QED
    BY <2>4, <2>5
<1> QED
  BY <1>2, <1>6, <1>7, <1>8 DEF ExInv

\* What taking a request and answering it makes of a connection.
LEMMA AnswerOfRequest ==
  ASSUME NEW m, NEW r
  PROVE  Answer(Take([turn |-> "recv", request |-> m, reply |-> <<>>]), r)
           = [turn |-> "recv", request |-> <<>>, reply |-> <<r>>]
<1>1. Take([turn |-> "recv", request |-> m, reply |-> <<>>])
        = [turn |-> "recv", request |-> <<>>, reply |-> <<>>]
  BY DEF Take
<1>2. Answer([turn |-> "recv", request |-> <<>>, reply |-> <<>>], r)
        = [turn |-> "recv", request |-> <<>>, reply |-> <<r>>]
  BY DEF Answer
<1> QED
  BY <1>1, <1>2

\* A source answers the request it expects, and leaves its loop with the last answer
\* of the last round.
LEMMA SourceAnswers ==
  ASSUME ExInv, NEW s \in Nodes, SourceAnswer(s)
  PROVE  ExInv'
<1> DEFINE k == src[s].step
<1>1. /\ src[s].pc = "detail"
      /\ detail[s].request # <<>>
  BY DEF SourceAnswer, Requested
<1>2. Asking(s)
  BY <1>1 DEF ExInv, Exchange, Quiet, Answering, Fresh
<1>3. k \in 1 .. 4 /\ k = man.step /\ man.pc = "detail" /\ man.to = s
  BY <1>2 DEF Asking, Here, ExInv, Shape
<1>4. PICK complete \in BOOLEAN :
        /\ complete = IF k = 2 THEN LastRound ELSE src[s].complete
        /\ detail' = [detail EXCEPT ![s] = Answer(Take(@), Answers[k])]
        /\ src' = [src EXCEPT ![s].step = IF k = 4 THEN 1 ELSE k + 1,
                              ![s].complete = complete,
                              ![s].pc = IF k = 4 /\ complete THEN "request" ELSE @]
  <2>1. detail[s].request = <<Ask(man.step, LastRound)>>
    BY <1>2 DEF Asking
  <2>2. detail[s].request[1].complete = LastRound
    BY <2>1 DEF Ask
  <2>3. src[s].complete \in BOOLEAN /\ LastRound \in BOOLEAN
    BY DEF ExInv, Shape, LastRound
  <2> QED
    BY <2>2, <2>3 DEF SourceAnswer
<1>5. complete <=> LastRound /\ k \in {2, 3, 4}
  BY <1>1, <1>3, <1>4 DEF ExInv, Told, Here
<1>6. UNCHANGED <<man, histPipe>>
  BY DEF SourceAnswer
<1>7. /\ DOMAIN src' = Nodes
      /\ {"pc", "step", "complete"} \subseteq DOMAIN src'[s]
      /\ src'[s].step = IF k = 4 THEN 1 ELSE k + 1
      /\ src'[s].complete = complete
      /\ src'[s].pc = IF k = 4 /\ LastRound THEN "request" ELSE "detail"
      /\ \A j \in Nodes \ {s} : src'[j] = src[j]
  BY <1>1, <1>3, <1>4, <1>5 DEF ExInv, Shape
<1>8. /\ detail'[s] = [turn |-> "recv", request |-> <<>>, reply |-> <<Answers[k]>>]
      /\ Answers[k] \in Reply
      /\ \A j \in Nodes \ {s} : detail'[j] = detail[j]
      /\ detail' \in [Nodes -> Link]
  <2>1. Answers[k] \in Reply
    BY <1>3 DEF Answers, Reply
  <2>2. Answer(Take(detail[s]), Answers[k])
          = [turn |-> "recv", request |-> <<>>, reply |-> <<Answers[k]>>]
    BY <1>2, AnswerOfRequest DEF Asking
  <2>3. [turn |-> "recv", request |-> <<>>, reply |-> <<Answers[k]>>] \in Link
    BY <2>1 DEF Link
  <2> QED
    BY <1>4, <2>1, <2>2, <2>3 DEF ExInv, Shape
<1>9. Shape'
  BY <1>3, <1>6, <1>7, <1>8 DEF ExInv, Shape, SourcePcs
<1>10. Collected' /\ Complete'
  BY <1>3, <1>6 DEF Collected, Complete, Collecting, ExInv
<1>11. Answering(s)'
  BY <1>3, <1>6, <1>7, <1>8 DEF Answering, Here
<1>12. Told(s)'
  BY <1>3, <1>5, <1>6, <1>7 DEF Told, Here, LastRound
<1>13. Past(s)' <=> k = 4 /\ LastRound
  BY <1>3, <1>6, <1>8 DEF Past, LastRound, ExInv, Shape, Nodes
<1>14. Phase(s)'
  BY <1>3, <1>6, <1>7, <1>13 DEF Phase, Collecting
<1>15. ASSUME NEW j \in Nodes \ {s}
       PROVE  Exchange(j)' /\ Told(j)' /\ Phase(j)'
  <2>1. Exchange(j) /\ Told(j) /\ Phase(j)
    BY DEF ExInv
  <2>2. src'[j] = src[j] /\ detail'[j] = detail[j] /\ man' = man
    BY <1>6, <1>7, <1>8
  <2> QED
    BY <2>1, <2>2 DEF Exchange, Quiet, Asking, Answering, Told, Phase, Past, Here, LastRound
<1> QED
  BY <1>9, <1>10, <1>11, <1>12, <1>14, <1>15 DEF ExInv, Exchange

\* Any step of a source.
LEMMA SourceStepPreserves ==
  ASSUME ExInv, NEW s \in Nodes, SourceStep(s)
  PROVE  ExInv'
BY SourceMoves, MovesOnPreserves, HistogramSent, SourceAnswers DEF SourceStep

-----------------------------------------------------------------------------
\* What a request makes of an unused connection, and reading its answer.
LEMMA RequestAndFinish ==
  ASSUME NEW m, NEW r
  PROVE  /\ Request(Fresh, m) = [turn |-> "recv", request |-> <<m>>, reply |-> <<>>]
         /\ Finish([turn |-> "recv", request |-> <<>>, reply |-> <<r>>]) = Fresh
<1> DEFINE Connection(turn, request, reply) ==
             [turn |-> turn, request |-> request, reply |-> reply]
<1>1. [Connection("send", <<>>, <<>>) EXCEPT !.turn = "recv"]
        = Connection("recv", <<>>, <<>>)
  OBVIOUS
<1>2. Request(Fresh, m)
        = [[Connection("send", <<>>, <<>>) EXCEPT !.turn = "recv"] EXCEPT !.request = <<m>>]
  BY DEF Request, Fresh
<1>3. [Connection("recv", <<>>, <<r>>) EXCEPT !.turn = "send"]
        = Connection("send", <<>>, <<r>>)
  OBVIOUS
<1>4. Finish(Connection("recv", <<>>, <<r>>))
        = [[Connection("recv", <<>>, <<r>>) EXCEPT !.turn = "send"] EXCEPT !.reply = <<>>]
  BY DEF Finish
<1> QED
  BY <1>1, <1>2, <1>3, <1>4 DEF Fresh

\* Once all histograms are there they stay as they are.
LEMMA AfterCollecting ==
  ASSUME ExInv, man.pc \notin Collecting, UNCHANGED <<src, histPipe>>,
         man'.pc \in ManagerPcs \ Collecting, man'.hists = man.hists,
         {"pc", "tempbuf", "hists", "dest", "to", "step"} \subseteq DOMAIN man',
         man'.dest \in Nodes, man'.to \in Nodes, man'.step \in 1 .. 4,
         detail' \in [Nodes -> Link]
  PROVE  Shape' /\ Collected' /\ Complete'
<1>1. Shape'
  BY DEF ExInv, Shape
<1>2. Collected'
  BY DEF Collected
<1>3. Complete'
  BY DEF ExInv, Complete
<1> QED
  BY <1>1, <1>2, <1>3

\* Reading a crc moves the manager on, if at all, to the histograms.
LEMMA CrcRead ==
  ASSUME ExInv, ManagerReadCrc
  PROVE  ExInv'
<1>1. /\ man.pc = "crc" /\ man'.pc \in {"crc", "header"}
      /\ UNCHANGED <<src, detail, histPipe>>
      /\ {"pc", "tempbuf", "hists", "dest", "to", "step"} \subseteq DOMAIN man'
      /\ man'.hists = man.hists /\ man'.tempbuf = man.tempbuf
      /\ man'.dest = man.dest /\ man'.to = man.to /\ man'.step = man.step
  BY DEF ManagerReadCrc, ExInv, Shape
<1>2. Shape'
  BY <1>1 DEF ExInv, Shape, ManagerPcs, Collecting
<1>3. Collected' /\ Complete'
  BY <1>1 DEF ExInv, Collected, Complete, Collecting
<1>4. ASSUME NEW s \in Nodes
      PROVE  Exchange(s)' /\ Told(s)' /\ Phase(s)'
  <2>1. Exchange(s) /\ Told(s) /\ Phase(s)
    BY DEF ExInv
  <2> QED
    BY <1>1, <2>1 DEF Exchange, Quiet, Asking, Answering, Told, Phase, Past, Here, Collecting
<1> QED
  BY <1>2, <1>3, <1>4 DEF ExInv

\* The analysis starts a round with the first source or cuts the range itself.
LEMMA Analyzed ==
  ASSUME ExInv, ManagerAnalyze
  PROVE  ExInv'
<1>1. /\ man.pc = "analyze" /\ UNCHANGED <<src, detail, histPipe>>
      /\ {"pc", "tempbuf", "hists", "dest", "to", "step"} \subseteq DOMAIN man'
      /\ man'.hists = man.hists
      /\ \/ /\ man'.pc = "detail" /\ man'.to = 0 /\ man'.step = 1
            /\ man'.dest = man.dest
         \/ /\ man'.pc = "analyze" /\ man'.to = man.to /\ man'.step = man.step
            /\ man'.dest = man.dest + 1 /\ ~ LastRound
  BY DEF ManagerAnalyze, ExInv, Shape
<1>2. man'.to \in Nodes /\ man'.dest \in Nodes /\ man'.step \in 1 .. 4
  BY <1>1, CountsAssumption DEF ExInv, Shape, Nodes, LastRound
<1>3. Shape' /\ Collected' /\ Complete'
  BY <1>1, <1>2, AfterCollecting DEF Collecting, ManagerPcs, ExInv, Shape
<1>4. ASSUME NEW s \in Nodes
      PROVE  Exchange(s)' /\ Told(s)' /\ Phase(s)'
  <2>1. Exchange(s) /\ Told(s) /\ Phase(s)
    BY DEF ExInv
  <2>2. detail[s] = Fresh /\ src[s].step = 1 /\ src[s].pc = "detail" /\ ~ src[s].complete
    BY <1>1, <2>1 DEF Exchange, Quiet, Asking, Answering, Told, Phase, Past, Here,
                      Collecting, ExInv, Shape
  <2>3. Exchange(s)' /\ Told(s)'
    BY <1>1, <2>2 DEF Exchange, Quiet, Here, Told
  <2>4. ~ Past(s)'
    BY <1>1, <2>2 DEF Past, Nodes
  <2> QED
    BY <1>1, <2>2, <2>3, <2>4 DEF Phase, Collecting
<1> QED
  BY <1>3, <1>4 DEF ExInv

\* A request goes to a source that is in its loop and expects this one.
LEMMA Asked ==
  ASSUME ExInv, ManagerAsk
  PROVE  ExInv'
<1> DEFINE t == man.to
<1>1. /\ man.pc = "detail" /\ t \in Nodes /\ man.step \in 1 .. 4
      /\ detail[t].turn = "send"
      /\ detail' = [detail EXCEPT ![t] = Request(@, Ask(man.step, LastRound))]
      /\ UNCHANGED <<src, man, histPipe>>
  BY DEF ManagerAsk, MayRequest, ExInv, Shape
<1>2. Quiet(t)
  BY <1>1 DEF ExInv, Exchange, Asking, Answering
<1>3. src[t].pc = "detail" /\ src[t].step = man.step
  BY <1>1, <1>2 DEF ExInv, Phase, Past, Quiet, Here, Fresh, Collecting, Shape, Nodes
<1>4. Ask(man.step, LastRound) \in Message
  BY <1>1 DEF Ask, Asks, Message, LastRound
<1>5. /\ detail'[t] = [turn |-> "recv", request |-> <<Ask(man.step, LastRound)>>,
                       reply |-> <<>>]
      /\ \A s \in Nodes \ {t} : detail'[s] = detail[s]
      /\ detail' \in [Nodes -> Link]
  <2>1. [turn |-> "recv", request |-> <<Ask(man.step, LastRound)>>, reply |-> <<>>]
          \in Link
    BY <1>4 DEF Link
  <2>2. Request(detail[t], Ask(man.step, LastRound))
          = [turn |-> "recv", request |-> <<Ask(man.step, LastRound)>>, reply |-> <<>>]
    BY <1>2, RequestAndFinish DEF Quiet
  <2> QED
    BY <1>1, <2>1, <2>2 DEF ExInv, Shape
<1>6. Shape' /\ Collected' /\ Complete'
  BY <1>1, <1>5, AfterCollecting DEF Collecting, ExInv, Shape, ManagerPcs
<1>7. ASSUME NEW s \in Nodes
      PROVE  Exchange(s)' /\ Told(s)' /\ Phase(s)'
  <2>1. Exchange(s) /\ Told(s) /\ Phase(s)
    BY DEF ExInv
  <2>2. Told(s)'
    BY <1>1, <2>1 DEF Told, Here, LastRound
  <2>3. CASE s = t
    <3>1. Asking(s)'
      BY <1>1, <1>3, <1>5, <2>3 DEF Asking, Here, LastRound
    <3>2. Past(s)' <=> Past(s)
      BY <1>1, <1>2, <1>5, <2>3 DEF Past, LastRound, Quiet, Fresh
    <3> QED
      BY <1>1, <2>1, <2>2, <3>1, <3>2 DEF Exchange, Phase
  <2>4. CASE s # t
    <3>1. detail'[s] = detail[s] /\ src' = src /\ man' = man
      BY <1>1, <1>5, <2>4
    <3> QED
      BY <2>1, <2>2, <3>1 DEF Exchange, Quiet, Asking, Answering, Here, Phase, Past, LastRound
  <2> QED
    BY <2>3, <2>4
<1> QED
  BY <1>6, <1>7 DEF ExInv

\* What was heard of the source: the next request of its exchange, the next source,
\* the next destination, or the end of the last round.
LEMMA Heard ==
  ASSUME ExInv, ManagerHear
  PROVE  ExInv'
<1> DEFINE t == man.to
<1>1. /\ man.pc = "detail" /\ t \in Nodes /\ man.step \in 1 .. 4 /\ man.dest \in Nodes
      /\ detail[t].reply # <<>>
      /\ detail' = [detail EXCEPT ![t] = Finish(@)]
      /\ UNCHANGED <<src, histPipe>>
  BY DEF ManagerHear, Answered, ExInv, Shape
<1>2. Answering(t)
  BY <1>1 DEF ExInv, Exchange, Asking, Quiet, Fresh
<1>3. /\ detail'[t] = Fresh
      /\ \A s \in Nodes \ {t} : detail'[s] = detail[s] /\ Quiet(s)
      /\ detail' \in [Nodes -> Link]
  <2>1. Finish(detail[t]) = Fresh
    BY <1>2, RequestAndFinish DEF Answering
  <2>2. Fresh \in Link
    BY DEF Fresh, Link
  <2>3. \A s \in Nodes \ {t} : Quiet(s)
    BY DEF ExInv, Exchange, Asking, Answering, Here
  <2> QED
    BY <1>1, <2>1, <2>2, <2>3 DEF ExInv, Shape
<1>4. src[t].step = IF man.step = 4 THEN 1 ELSE man.step + 1
  BY <1>2 DEF Answering
<1>5. \A s \in Nodes \ {t} : detail[s] = Fresh /\ src[s].step = 1
  BY <1>3 DEF Quiet, Here
<1>6. /\ {"pc", "tempbuf", "hists", "dest", "to", "step"} \subseteq DOMAIN man'
      /\ man'.hists = man.hists
  BY DEF ManagerHear, ExInv, Shape
<1>7. CASE man.step < 4
  <2>1. /\ man'.pc = "detail" /\ man'.step = man.step + 1 /\ man'.to = t
        /\ man'.dest = man.dest
    BY <1>1, <1>7 DEF ManagerHear, ExInv, Shape
  <2>2. Shape' /\ Collected' /\ Complete'
    BY <1>1, <1>3, <1>6, <1>7, <2>1, AfterCollecting DEF Collecting, ManagerPcs
  <2>3. ASSUME NEW s \in Nodes
        PROVE  Exchange(s)' /\ Told(s)' /\ Phase(s)'
    <3>1. Told(s) /\ Phase(s)
      BY DEF ExInv
    <3>2. detail'[s] = Fresh /\ src'[s] = src[s]
      BY <1>1, <1>3, <1>5
    <3>3. Exchange(s)'
      BY <1>1, <1>4, <1>5, <1>7, <2>1, <3>2 DEF Exchange, Quiet, Here
    <3>4. Told(s)'
      BY <1>1, <2>1, <3>1, <3>2 DEF Told, Here, LastRound
    <3>5. Past(s)' <=> Past(s)
      BY <1>1, <1>5, <1>7, <2>1, <3>2 DEF Past, LastRound, Fresh
    <3> QED
      BY <1>1, <2>1, <3>1, <3>2, <3>3, <3>4, <3>5 DEF Phase
  <2> QED
    BY <2>2, <2>3 DEF ExInv
<1>8. CASE man.step = 4 /\ t + 1 < NodeCount
  <2>1. /\ man'.pc = "detail" /\ man'.step = 1 /\ man'.to = t + 1
        /\ man'.dest = man.dest
    BY <1>1, <1>8 DEF ManagerHear, ExInv, Shape
  <2>2. t + 1 \in Nodes
    BY <1>1, <1>8, CountsAssumption DEF Nodes
  <2>3. Shape' /\ Collected' /\ Complete'
    BY <1>1, <1>3, <1>6, <2>1, <2>2, AfterCollecting DEF Collecting, ManagerPcs
  <2>4. ASSUME NEW s \in Nodes
        PROVE  Exchange(s)' /\ Told(s)' /\ Phase(s)'
    <3>1. Told(s) /\ Phase(s)
      BY DEF ExInv
    <3>2. detail'[s] = Fresh /\ src'[s] = src[s] /\ src[s].step = 1
      BY <1>1, <1>3, <1>4, <1>5, <1>8
    <3>3. Exchange(s)'
      BY <2>1, <3>2 DEF Exchange, Quiet
    <3>4. Told(s)'
      BY <3>1, <3>2 DEF Told
    <3>5. Past(s)' <=> Past(s)
      BY <1>1, <1>5, <1>8, <2>1, <3>2 DEF Past, LastRound, Fresh, Nodes
    <3> QED
      BY <1>1, <2>1, <3>1, <3>2, <3>3, <3>4, <3>5 DEF Phase
  <2> QED
    BY <2>3, <2>4 DEF ExInv
<1>9. CASE man.step = 4 /\ t + 1 >= NodeCount /\ ~ LastRound
  <2>1. /\ man'.pc = "analyze" /\ man'.step = man.step /\ man'.to = t
        /\ man'.dest = man.dest + 1
    BY <1>1, <1>9, CountsAssumption DEF ManagerHear, ExInv, Shape, Nodes
  <2>2. man.dest + 1 \in Nodes
    BY <1>1, <1>9, CountsAssumption DEF Nodes, LastRound
  <2>3. Shape' /\ Collected' /\ Complete'
    BY <1>1, <1>3, <1>6, <2>1, <2>2, AfterCollecting DEF Collecting, ManagerPcs
  <2>4. ASSUME NEW s \in Nodes
        PROVE  Exchange(s)' /\ Told(s)' /\ Phase(s)'
    <3>1. Told(s) /\ Phase(s)
      BY DEF ExInv
    <3>2. detail'[s] = Fresh /\ src'[s] = src[s] /\ src[s].step = 1
      BY <1>1, <1>3, <1>4, <1>5, <1>9
    <3>3. Exchange(s)'
      BY <2>1, <3>2 DEF Exchange, Quiet, Here
    <3>4. Told(s)'
      BY <3>1, <3>2 DEF Told
    <3>5. ~ Past(s) /\ ~ Past(s)'
      BY <1>1, <1>9, <2>1 DEF Past
    <3> QED
      BY <1>1, <2>1, <3>1, <3>2, <3>3, <3>4, <3>5 DEF Phase, Collecting
  <2> QED
    BY <2>3, <2>4 DEF ExInv
<1>10. CASE man.step = 4 /\ t + 1 >= NodeCount /\ LastRound
  <2>1. /\ man'.pc = "partition" /\ man'.step = man.step /\ man'.to = t
        /\ man'.dest = man.dest
    BY <1>1, <1>10, CountsAssumption DEF ManagerHear, ExInv, Shape, Nodes
  <2>2. Shape' /\ Collected' /\ Complete'
    BY <1>1, <1>3, <1>6, <2>1, AfterCollecting DEF Collecting, ManagerPcs
  <2>3. ASSUME NEW s \in Nodes
        PROVE  Exchange(s)' /\ Told(s)' /\ Phase(s)'
    <3>1. Told(s) /\ Phase(s)
      BY DEF ExInv
    <3>2. detail'[s] = Fresh /\ src'[s] = src[s] /\ src[s].step = 1
      BY <1>1, <1>3, <1>4, <1>5, <1>10
    <3>3. Exchange(s)'
      BY <2>1, <3>2 DEF Exchange, Quiet, Here
    <3>4. Told(s)'
      BY <3>1, <3>2 DEF Told
    <3>5. Past(s) /\ Past(s)'
      BY <1>1, <1>10, <2>1, CountsAssumption DEF Past, Nodes
    <3> QED
      BY <1>1, <2>1, <3>1, <3>2, <3>3, <3>4, <3>5 DEF Phase, Collecting
  <2> QED
    BY <2>2, <2>3 DEF ExInv
<1> QED
  BY <1>1, <1>7, <1>8, <1>9, <1>10, CountsAssumption DEF Nodes

\* The analysis may end the manager where no exchange is under way.
LEMMA Faulted ==
  ASSUME ExInv, ManagerFault
  PROVE  ExInv'
<1>1. /\ man.pc \in {"analyze", "partition", "detail"}
      /\ man.pc = "detail" => man.step = 1 /\ detail[man.to].turn = "send"
      /\ UNCHANGED <<src, detail, histPipe>>
      /\ man'.pc = "faulted"
      /\ {"pc", "tempbuf", "hists", "dest", "to", "step"} \subseteq DOMAIN man'
      /\ man'.hists = man.hists
      /\ man'.dest = man.dest /\ man'.to = man.to /\ man'.step = man.step
  BY DEF ManagerFault, MayRequest, ExInv, Shape
<1>2. Shape' /\ Collected' /\ Complete'
  BY <1>1, AfterCollecting DEF Collecting, ManagerPcs, ExInv, Shape
<1>3. ASSUME NEW s \in Nodes
      PROVE  Exchange(s)' /\ Told(s)' /\ Phase(s)'
  <2>1. Exchange(s) /\ Told(s) /\ Phase(s)
    BY DEF ExInv
  <2>2. detail[s] = Fresh /\ src[s].step = 1
    BY <1>1, <2>1 DEF Exchange, Quiet, Asking, Answering, Here
  <2> QED
    BY <1>1, <2>1, <2>2 DEF Exchange, Quiet, Told, Phase, Here, Collecting
<1> QED
  BY <1>2, <1>3 DEF ExInv

\* What the manager does after the last round concerns no exchange.
LEMMA AfterRounds ==
  ASSUME ExInv, ManagerPartition \/ ManagerTell \/ ManagerReadResult
  PROVE  ExInv'
<1> DEFINE Over == {"partition", "tell", "results", "done"}
<1>1. /\ man.pc \in Over /\ man'.pc \in Over
      /\ UNCHANGED <<src, detail, histPipe>>
      /\ {"pc", "tempbuf", "hists", "dest", "to", "step"} \subseteq DOMAIN man'
      /\ man'.hists = man.hists
      /\ man'.dest = man.dest /\ man'.to = man.to /\ man'.step = man.step
  <2>1. CASE ManagerPartition
    BY <2>1 DEF ManagerPartition, ExInv, Shape
  <2>2. CASE ManagerTell
    BY <2>2 DEF ManagerTell, ExInv, Shape
  <2>3. CASE ManagerReadResult
    BY <2>3 DEF ManagerReadResult, ExInv, Shape
  <2> QED
    BY <2>1, <2>2, <2>3
<1>2. Shape' /\ Collected' /\ Complete'
  BY <1>1, AfterCollecting DEF Collecting, ManagerPcs, ExInv, Shape
<1>3. ASSUME NEW s \in Nodes
      PROVE  Exchange(s)' /\ Told(s)' /\ Phase(s)'
  <2>1. Exchange(s) /\ Told(s) /\ Phase(s)
    BY DEF ExInv
  <2>2. ~ Here(s) /\ ~ Here(s)' /\ Past(s) /\ Past(s)'
    BY <1>1 DEF Here, Past
  <2> QED
    BY <1>1, <2>1, <2>2 DEF Exchange, Quiet, Asking, Answering, Told, Phase, Collecting
<1> QED
  BY <1>2, <1>3 DEF ExInv

-----------------------------------------------------------------------------
\* A read of the manager takes a histogram none of whose parts it has read before,
\* and the header comes first.
LEMMA HeaderRead ==
  ASSUME ExInv, ManagerReadHeader
  PROVE  ExInv'
<1> DEFINE n == Len(man.hists)
<1>1. man.pc = "header" /\ n \in Nat /\ n < NodeCount /\ man.tempbuf = <<>>
  BY HistTypes DEF ManagerReadHeader, ExInv, Collected, Collecting
<1>2. PICK s \in Nodes :
        /\ histPipe[s] # <<>>
        /\ histPipe' = [histPipe EXCEPT ![s] = Tail(@)]
        /\ LET m == Head(histPipe[s]) IN
           man' = IF Head(m).kind = "header"
                  THEN [man EXCEPT !.pc = "array", !.tempbuf = Tail(m),
                                   !.hists = Append(@, [src |-> Head(m).src, of |-> -1])]
                  ELSE [man EXCEPT !.pc = "aborted"]
  <2>1. PICK r \in HistogramReads :
          /\ histPipe' = r.pipe
          /\ man' = IF r.part.kind = "header"
                    THEN [man EXCEPT !.pc = "array", !.tempbuf = r.rest,
                                     !.hists = Append(@, [src |-> r.part.src, of |-> -1])]
                    ELSE [man EXCEPT !.pc = "aborted"]
    BY DEF ManagerReadHeader
  <2>2. PICK s \in Nodes :
          /\ histPipe[s] # <<>>
          /\ r = [part |-> Head(Head(histPipe[s])), rest |-> Tail(Head(histPipe[s])),
                  pipe |-> [histPipe EXCEPT ![s] = Tail(@)]]
    BY <1>1, <2>1 DEF HistogramReads
  <2>3. /\ r.part = Head(Head(histPipe[s])) /\ r.rest = Tail(Head(histPipe[s]))
        /\ r.pipe = [histPipe EXCEPT ![s] = Tail(@)]
    BY <2>2
  <2> QED
    BY <2>1, <2>2, <2>3
<1>3. histPipe[s] = <<HistogramMessage(s)>> /\ src[s].pc = "detail"
  BY <1>1, <1>2 DEF ExInv, Collected, Collecting
<1>4. /\ Head(HistogramMessage(s)) = [kind |-> "header", src |-> s]
      /\ Tail(HistogramMessage(s)) = <<[kind |-> "array", src |-> s]>>
  BY DEF HistogramMessage
<1>5. /\ man' = [man EXCEPT !.pc = "array",
                           !.tempbuf = <<[kind |-> "array", src |-> s]>>,
                           !.hists = Append(@, [src |-> s, of |-> -1])]
      /\ histPipe' = [histPipe EXCEPT ![s] = <<>>]
      /\ UNCHANGED <<src, detail>>
  <2>1. Head(histPipe[s]) = HistogramMessage(s) /\ Tail(histPipe[s]) = <<>>
    BY <1>3
  <2>2. histPipe' = [histPipe EXCEPT ![s] = <<>>]
    BY <1>2, <2>1
  <2>3. man' = [man EXCEPT !.pc = "array",
                           !.tempbuf = <<[kind |-> "array", src |-> s]>>,
                           !.hists = Append(@, [src |-> s, of |-> -1])]
    <3>1. Head(HistogramMessage(s)).kind = "header" /\ Head(HistogramMessage(s)).src = s
      BY <1>4
    <3> QED
      BY <1>2, <1>4, <2>1, <3>1
  <2> QED
    BY <2>2, <2>3 DEF ManagerReadHeader
<1>6. /\ {"pc", "tempbuf", "hists", "dest", "to", "step"} \subseteq DOMAIN man'
      /\ man'.pc = "array"
      /\ man'.tempbuf = <<[kind |-> "array", src |-> s]>>
      /\ man'.hists = Append(man.hists, [src |-> s, of |-> -1])
      /\ man'.dest = man.dest /\ man'.to = man.to /\ man'.step = man.step
  BY <1>5 DEF ExInv, Shape
<1>7. /\ DOMAIN histPipe' = Nodes /\ histPipe'[s] = <<>>
      /\ \A k \in Nodes \ {s} : histPipe'[k] = histPipe[k]
  BY <1>5 DEF ExInv, Shape
<1>8. Shape'
  BY <1>5, <1>6, <1>7 DEF ExInv, Shape, ManagerPcs, Collecting
<1>9. Collected'
  <2> DEFINE hists == Append(man.hists, [src |-> s, of |-> -1])
  <2>1. man.hists \in Seq(HistRecord) /\ [src |-> s, of |-> -1] \in HistRecord
    BY <1>1, HistTypes DEF HistRecord, Collecting
  <2>2. /\ hists \in Seq(HistRecord) /\ Len(hists) = n + 1
        /\ \A i \in 1 .. n : hists[i] = man.hists[i]
        /\ hists[n + 1] = [src |-> s, of |-> -1]
    BY <2>1
  <2>3. \A i \in 1 .. n : /\ man.hists[i].src \in Nodes \ {s}
                          /\ man.hists[i].of = man.hists[i].src
                          /\ src[man.hists[i].src].pc = "detail"
                          /\ histPipe[man.hists[i].src] = <<>>
    BY <1>1, <1>2, HistTypes DEF ExInv, Collected, Collecting
  <2>4. \A i, j \in 1 .. n : man.hists[i].src = man.hists[j].src => i = j
    BY <1>1 DEF ExInv, Collected, Collecting
  <2>5. \A i, j \in 1 .. n + 1 : hists[i].src = hists[j].src => i = j
    BY <1>1, <2>2, <2>3, <2>4
  <2>6. \A i \in 1 .. n + 1 : /\ src'[hists[i].src].pc = "detail"
                              /\ histPipe'[hists[i].src] = <<>>
    BY <1>1, <1>3, <1>5, <1>7, <2>2, <2>3
  <2>7. \A k \in Nodes : \/ histPipe'[k] = <<>>
                         \/ /\ histPipe'[k] = <<HistogramMessage(k)>>
                            /\ src'[k].pc = "detail"
    BY <1>1, <1>5, <1>7 DEF ExInv, Collected, Collecting
  <2>8. \A i \in 1 .. n + 1 : hists[i].of = IF i = n + 1 THEN -1 ELSE hists[i].src
    BY <1>1, <2>2, <2>3
  <2>9. n + 1 \in 1 .. NodeCount
    BY <1>1, CountsAssumption
  <2>10. hists[n + 1].src = s
    <3> HIDE DEF hists
    <3> QED
      BY <2>2
  <2> HIDE DEF hists, n
  <2>11. man'.hists = hists
    BY <1>6 DEF hists
  <2>12. /\ man'.hists \in Seq(HistRecord)
         /\ \A i, j \in 1 .. Len(man'.hists) :
              man'.hists[i].src = man'.hists[j].src => i = j
         /\ \A i \in 1 .. Len(man'.hists) :
              /\ src'[man'.hists[i].src].pc = "detail"
              /\ histPipe'[man'.hists[i].src] = <<>>
    BY <2>2, <2>5, <2>6, <2>11
  <2>13. /\ Len(man'.hists) \in 1 .. NodeCount
         /\ man'.tempbuf = <<[kind |-> "array", src |-> man'.hists[Len(man'.hists)].src]>>
         /\ \A i \in 1 .. Len(man'.hists) :
              man'.hists[i].of = IF i = Len(man'.hists) THEN -1 ELSE man'.hists[i].src
    BY <1>6, <2>2, <2>8, <2>9, <2>10, <2>11
  <2> QED
    BY <1>6, <2>7, <2>12, <2>13 DEF Collected
<1>10. Complete'
  BY <1>6 DEF Complete, Collecting
<1>11. ASSUME NEW k \in Nodes
       PROVE  Exchange(k)' /\ Told(k)' /\ Phase(k)'
  <2>1. Exchange(k) /\ Told(k) /\ Phase(k)
    BY DEF ExInv
  <2> QED
    BY <1>1, <1>5, <1>6, <2>1
       DEF Exchange, Quiet, Asking, Answering, Told, Phase, Past, Here, Collecting
<1> QED
  BY <1>8, <1>9, <1>10, <1>11 DEF ExInv

\* Sorted by source, one histogram of each source is the list of all of them.
LEMMA SortedBySource ==
  ASSUME NEW hists \in Seq(HistRecord), Len(hists) = NodeCount,
         \A i, j \in 1 .. NodeCount : hists[i].src = hists[j].src => i = j,
         \A i \in 1 .. NodeCount : hists[i].of = hists[i].src
  PROVE  /\ BySource(hists) = [i \in 1 .. NodeCount |-> [src |-> i - 1, of |-> i - 1]]
         /\ \A s \in Nodes : \E i \in 1 .. NodeCount : hists[i].src = s
<1> USE CountsAssumption
<1> DEFINE f == [i \in 1 .. NodeCount |-> hists[i].src]
<1>1. DOMAIN hists = 1 .. NodeCount /\ \A i \in 1 .. NodeCount : hists[i] \in HistRecord
  OBVIOUS
<1>2. f \in Injection(1 .. NodeCount, Nodes)
  <2>1. f \in [1 .. NodeCount -> Nodes]
    BY <1>1 DEF HistRecord
  <2>2. \A i, j \in 1 .. NodeCount : f[i] = f[j] => i = j
    OBVIOUS
  <2> QED
    BY <2>1, <2>2 DEF Injection, IsInjective
<1>3. /\ IsFiniteSet(1 .. NodeCount) /\ Cardinality(1 .. NodeCount) = NodeCount
      /\ IsFiniteSet(Nodes) /\ Cardinality(Nodes) = NodeCount
  BY FS_Interval DEF Nodes
<1>4. f \in Surjection(1 .. NodeCount, Nodes)
  BY <1>2, <1>3, FS_Injection
<1>5. \A s \in Nodes : \E i \in 1 .. NodeCount : hists[i].src = s
  BY <1>4 DEF Surjection
<1>6. ASSUME NEW s \in Nodes
      PROVE  Cardinality({k \in DOMAIN hists : hists[k].src < s}) = s
  <2> DEFINE Before == {k \in DOMAIN hists : hists[k].src < s}
  <2> DEFINE g == [k \in Before |-> hists[k].src]
  <2>1. \A k \in 1 .. NodeCount : hists[k].src \in Nodes
    BY <1>1 DEF HistRecord
  <2>2. IsFiniteSet(0 .. s - 1) /\ Cardinality(0 .. s - 1) = s
    <3>1. s \in Nat /\ s - 1 \in Int /\ 0 \in Int
      BY <1>6 DEF Nodes
    <3>2. /\ IsFiniteSet(0 .. s - 1)
          /\ Cardinality(0 .. s - 1) = IF 0 > s - 1 THEN 0 ELSE (s - 1) - 0 + 1
      BY <3>1, FS_Interval
    <3> QED
      BY <3>1, <3>2
  <2>3. IsFiniteSet(Before)
    BY <1>1, <1>3, FS_Subset
  <2>4. g \in [Before -> 0 .. s - 1]
    BY <1>1, <2>1 DEF Nodes
  <2>5. \A k, l \in Before : g[k] = g[l] => k = l
    BY <1>1
  <2>6. ASSUME NEW r \in 0 .. s - 1
        PROVE  \E k \in Before : g[k] = r
    <3>1. r \in Nodes /\ r < s
      BY <1>6 DEF Nodes
    <3>2. PICK k \in 1 .. NodeCount : hists[k].src = r
      BY <1>5, <3>1
    <3>3. k \in Before
      BY <1>1, <3>1, <3>2
    <3> QED
      BY <3>2, <3>3
  <2>7. g \in Bijection(Before, 0 .. s - 1)
    BY <2>4, <2>5, <2>6 DEF Bijection, Injection, IsInjective, Surjection
  <2>8. ExistsBijection(Before, 0 .. s - 1)
    BY <2>7 DEF ExistsBijection
  <2> QED
    BY <2>2, <2>3, <2>8, FS_Bijection
<1>7. ASSUME NEW i \in 1 .. NodeCount
      PROVE  (CHOOSE h \in ToSet(hists) :
                Cardinality({k \in DOMAIN hists : hists[k].src < h.src}) = i - 1)
               = [src |-> i - 1, of |-> i - 1]
  <2> DEFINE H == [src |-> i - 1, of |-> i - 1]
  <2>1. i - 1 \in Nodes
    BY DEF Nodes
  <2>2. PICK k \in 1 .. NodeCount : hists[k].src = i - 1
    BY <1>5, <2>1
  <2>3. hists[k] = H
    BY <1>1, <2>2 DEF HistRecord
  <2>4. H \in ToSet(hists)
    BY <1>1, <2>3 DEF ToSet
  <2>5. Cardinality({l \in DOMAIN hists : hists[l].src < H.src}) = i - 1
    BY <1>6, <2>1
  <2>6. ASSUME NEW h \in ToSet(hists),
               Cardinality({l \in DOMAIN hists : hists[l].src < h.src}) = i - 1
        PROVE  h = H
    <3>1. PICK j \in 1 .. NodeCount : h = hists[j]
      BY <1>1 DEF ToSet
    <3>2. h.src \in Nodes
      BY <1>1, <3>1 DEF HistRecord
    <3>3. h.src = i - 1
      BY <1>6, <2>6, <3>2
    <3>4. j = k
      BY <2>2, <3>1, <3>3
    <3> QED
      BY <2>3, <3>1, <3>4
  <2> QED
    BY <2>4, <2>5, <2>6
<1>8. BySource(hists) = [i \in 1 .. NodeCount |-> [src |-> i - 1, of |-> i - 1]]
  <2>1. Len(hists) = NodeCount
    BY <1>1
  <2> QED
    BY <1>7, <2>1, Zenon DEF BySource
<1> QED
  BY <1>5, <1>8

\* The array that is read is that of the header before it. With the last one the
\* manager has the histograms of all sources, which are all in their loops.
LEMMA ArrayRead ==
  ASSUME ExInv, ManagerReadArray
  PROVE  ExInv'
<1> DEFINE n == Len(man.hists)
<1> DEFINE s == man.hists[n].src
<1> DEFINE hists == [man.hists EXCEPT ![n].of = s]
<1>1. /\ man.pc = "array" /\ n \in 1 .. NodeCount
      /\ man.tempbuf = <<[kind |-> "array", src |-> s]>>
  BY DEF ManagerReadArray, ExInv, Collected, Collecting
<1>2. man.hists \in Seq(HistRecord) /\ s \in Nodes /\ man.hists[n] \in HistRecord
  BY <1>1, HistTypes DEF Collecting
<1>3. /\ UNCHANGED <<src, detail, histPipe>>
      /\ man' = [man EXCEPT !.tempbuf = <<>>,
                           !.hists = IF n = NodeCount THEN BySource(hists) ELSE hists,
                           !.pc = IF n = NodeCount THEN "analyze" ELSE "header"]
  <2>1. PICK r \in HistogramReads :
          LET h == [man.hists EXCEPT ![n].of = r.part.src]
              all == Len(h) = NodeCount
          IN  /\ histPipe' = r.pipe
              /\ man' = [man EXCEPT !.tempbuf = r.rest,
                                   !.hists = IF all THEN BySource(h) ELSE h,
                                   !.pc = IF all THEN "analyze" ELSE "header"]
    BY DEF ManagerReadArray
  <2>2. r = [part |-> Head(man.tempbuf), rest |-> Tail(man.tempbuf), pipe |-> histPipe]
    BY <1>1, <2>1 DEF HistogramReads
  <2>3. r.part.src = s /\ r.rest = <<>> /\ r.pipe = histPipe
    BY <1>1, <2>2
  <2>4. Len(hists) = n
    BY <1>2
  <2> QED
    BY <2>1, <2>3, <2>4 DEF ManagerReadArray
<1>4. /\ hists \in Seq(HistRecord) /\ Len(hists) = n
      /\ \A i \in 1 .. n : /\ hists[i].src = man.hists[i].src
                           /\ hists[i].src \in Nodes
                           /\ hists[i].of = hists[i].src
  <2>1. /\ Len(hists) = n /\ hists[n] = [man.hists[n] EXCEPT !.of = s]
        /\ \A i \in 1 .. n : i # n => hists[i] = man.hists[i]
    BY <1>1, <1>2
  <2>2. [man.hists[n] EXCEPT !.of = s] = [src |-> s, of |-> s]
    BY <1>2 DEF HistRecord
  <2>3. \A i \in 1 .. n : man.hists[i] \in HistRecord /\ man.hists[i].src \in Nodes
    BY <1>1, HistTypes DEF Collecting
  <2>4. \A i \in 1 .. n : i # n => man.hists[i].of = man.hists[i].src
    BY <1>1 DEF ExInv, Collected, Collecting
  <2>5. [src |-> s, of |-> s] \in HistRecord
    BY <1>2 DEF HistRecord
  <2>6. \A i \in 1 .. n : hists[i] \in HistRecord
    BY <2>1, <2>2, <2>3, <2>5
  <2>7. hists \in Seq(HistRecord)
    BY <1>1, <1>2, <2>5, <2>2
  <2> QED
    BY <2>1, <2>2, <2>3, <2>4, <2>7
<1>5. /\ \A i, j \in 1 .. n : hists[i].src = hists[j].src => i = j
      /\ \A i \in 1 .. n : /\ src[hists[i].src].pc = "detail"
                           /\ histPipe[hists[i].src] = <<>>
  <2>1. /\ \A i, j \in 1 .. n : man.hists[i].src = man.hists[j].src => i = j
        /\ \A i \in 1 .. n : /\ src[man.hists[i].src].pc = "detail"
                             /\ histPipe[man.hists[i].src] = <<>>
    BY <1>1 DEF ExInv, Collected, Collecting
  <2> HIDE DEF hists
  <2> QED
    BY <1>4, <2>1
<1> HIDE DEF hists
<1>6. /\ {"pc", "tempbuf", "hists", "dest", "to", "step"} \subseteq DOMAIN man'
      /\ man'.pc = IF n = NodeCount THEN "analyze" ELSE "header"
      /\ man'.tempbuf = <<>>
      /\ man'.hists = IF n = NodeCount THEN BySource(hists) ELSE hists
      /\ man'.dest = man.dest /\ man'.to = man.to /\ man'.step = man.step
  BY <1>3 DEF ExInv, Shape
<1>7. Shape'
  BY <1>3, <1>6 DEF ExInv, Shape, ManagerPcs, Collecting
<1>8. \A k \in Nodes : detail[k] = Fresh /\ src[k].step = 1
  BY <1>1 DEF ExInv, Exchange, Quiet, Asking, Answering, Here
<1>9. \A k \in Nodes : Exchange(k)'
  BY <1>3, <1>6, <1>8 DEF Exchange, Quiet, Here
<1>10. \A k \in Nodes : Told(k)'
  BY <1>1, <1>3, <1>6 DEF ExInv, Told, Here
<1>11. CASE n = NodeCount
  <2>1. /\ man'.pc = "analyze"
        /\ man'.hists = [i \in 1 .. NodeCount |-> [src |-> i - 1, of |-> i - 1]]
        /\ \A k \in Nodes : \E i \in 1 .. NodeCount : hists[i].src = k
    <3>1. /\ BySource(hists) = [i \in 1 .. NodeCount |-> [src |-> i - 1, of |-> i - 1]]
          /\ \A k \in Nodes : \E i \in 1 .. NodeCount : hists[i].src = k
      BY <1>4, <1>5, <1>11, SortedBySource
    <3> QED
      BY <1>6, <1>11, <3>1
  <2>2. \A k \in Nodes : src[k].pc = "detail"
    BY <1>5, <1>11, <2>1
  <2>3. Collected' /\ Complete'
    BY <2>1 DEF Collected, Complete, Collecting
  <2>4. \A k \in Nodes : Phase(k)'
    BY <1>3, <2>1, <2>2 DEF Phase, Past, Collecting
  <2> QED
    BY <1>7, <1>9, <1>10, <2>3, <2>4 DEF ExInv
<1>12. CASE n # NodeCount
  <2>1. /\ man'.pc = "header" /\ man'.hists = hists
        /\ Len(hists) < NodeCount
    BY <1>1, <1>4, <1>6, <1>12, CountsAssumption
  <2>2. /\ man'.hists \in Seq(HistRecord) /\ Len(man'.hists) < NodeCount
        /\ \A i, j \in 1 .. Len(man'.hists) :
             man'.hists[i].src = man'.hists[j].src => i = j
        /\ \A i \in 1 .. Len(man'.hists) :
             /\ src'[man'.hists[i].src].pc = "detail"
             /\ histPipe'[man'.hists[i].src] = <<>>
             /\ man'.hists[i].of = man'.hists[i].src
    BY <1>3, <1>4, <1>5, <2>1
  <2>3. \A k \in Nodes : \/ histPipe'[k] = <<>>
                         \/ /\ histPipe'[k] = <<HistogramMessage(k)>>
                            /\ src'[k].pc = "detail"
    BY <1>1, <1>3 DEF ExInv, Collected, Collecting
  <2>4. Collected' /\ Complete'
    BY <1>6, <2>1, <2>2, <2>3 DEF Collected, Complete, Collecting
  <2>5. \A k \in Nodes : Phase(k)'
    BY <1>1, <1>3, <2>1 DEF ExInv, Phase, Collecting
  <2> QED
    BY <1>7, <1>9, <1>10, <2>4, <2>5 DEF ExInv
<1> QED
  BY <1>11, <1>12

\* Any step of the manager.
LEMMA ManagerStepPreserves ==
  ASSUME ExInv, ManagerStep
  PROVE  ExInv'
BY CrcRead, HeaderRead, ArrayRead, Analyzed, Asked, Heard, Faulted, AfterRounds
   DEF ManagerStep

\* A step of a destination, and none at all, leave the exchange alone.
LEMMA OthersPreserve ==
  ASSUME ExInv, UNCHANGED <<src, man, detail, histPipe>>
  PROVE  ExInv'
<1>1. Shape' /\ Complete'
  BY DEF ExInv, Shape, Complete
<1>2. Collected'
  BY SameCollected
<1>3. ASSUME NEW s \in Nodes
      PROVE  Exchange(s)' /\ Told(s)' /\ Phase(s)'
  <2>1. Exchange(s) /\ Told(s) /\ Phase(s)
    BY DEF ExInv
  <2> QED
    BY <2>1 DEF Exchange, Quiet, Asking, Answering, Told, Phase, Past, Here, LastRound
<1> QED
  BY <1>1, <1>2, <1>3 DEF ExInv

-----------------------------------------------------------------------------
\* The exchange invariant holds in every state of the protocol, for any number of
\* nodes, whatever the inputs, and whether or not sources or the analysis fail.
THEOREM ExchangeInvariance == Steps => []ExInv
<1>1. ExInv /\ [Next]_vars => ExInv'
  <2> SUFFICES ASSUME ExInv, [Next]_vars
               PROVE  ExInv'
    OBVIOUS
  <2>1. ASSUME NEW s \in Nodes, SourceStep(s)
        PROVE  ExInv'
    BY <2>1, SourceStepPreserves
  <2>2. CASE ManagerStep
    BY Zenon, <2>2, ManagerStepPreserves
  <2>3. ASSUME NEW d \in Nodes, DestStep(d)
        PROVE  ExInv'
    BY Zenon, <2>3, OthersPreserve DEF DestStep, DestRead, DestWrite, DestSave, DestReport
  <2>4. CASE UNCHANGED vars
    BY <2>4, OthersPreserve DEF vars
  <2> QED
    BY <2>1, <2>2, <2>3, <2>4 DEF Next
<1> QED
  BY ExInit, <1>1, PTL DEF Steps

\* The histograms are never mixed up, in whichever order they arrive, and are analysed
\* in the order of the files the manager asks for details on.
THEOREM HistogramsSafe == Spec => []HistogramsIntact
<1>1. ExInv => HistogramsIntact
  <2> SUFFICES ASSUME ExInv PROVE HistogramsIntact
    OBVIOUS
  <2>1. man.pc # "aborted"
    BY DEF ExInv, Shape, ManagerPcs, Collecting
  <2>2. \A i \in DOMAIN man.hists : man.hists[i].of \in {man.hists[i].src, -1}
    <3>1. CASE man.pc \in Collecting
      <4>1. DOMAIN man.hists = 1 .. Len(man.hists)
        BY <3>1, HistTypes
      <4> QED
        BY <3>1, <4>1 DEF ExInv, Collected
    <3>2. CASE man.pc \notin Collecting
      <4>1. man.hists = [i \in 1 .. NodeCount |-> [src |-> i - 1, of |-> i - 1]]
        BY <3>2 DEF ExInv, Complete
      <4>2. ASSUME NEW i \in DOMAIN man.hists
            PROVE  man.hists[i].of = man.hists[i].src
        <5>1. PICK v : man.hists[i] = [src |-> v, of |-> v]
          BY <4>1, <4>2
        <5> QED
          BY <5>1
      <4> QED
        BY <4>2
    <3> QED
      BY <3>1, <3>2
  <2> QED
    BY <2>1, <2>2 DEF HistogramsIntact, ExInv, Complete, Collecting
<1> QED
  BY ExchangeInvariance, <1>1, PTL DEF Spec, Steps

\* Every message of a detailed histogram is taken for what it is.
THEOREM ExchangeSafe == Spec => []ExchangeInStep
<1>1. ExInv => ExchangeInStep
  <2> SUFFICES ASSUME ExInv, NEW s \in Nodes
               PROVE  /\ Requested(detail[s]) =>
                           /\ src[s].pc = "detail"
                           /\ detail[s].request[1].kind = Asks[src[s].step]
                      /\ detail[s].reply # <<>> =>
                           /\ man.pc = "detail"
                           /\ man.to = s
                           /\ detail[s].reply[1] = Answers[man.step]
    BY DEF ExchangeInStep
  <2>1. Exchange(s)
    BY DEF ExInv
  <2>2. CASE Quiet(s)
    BY <2>2 DEF Quiet, Requested, Fresh
  <2>3. CASE Asking(s)
    <3>1. detail[s].request = <<Ask(man.step, LastRound)>> /\ detail[s].reply = <<>>
      BY <2>3 DEF Asking
    <3>2. detail[s].request[1].kind = Asks[man.step]
      BY <3>1 DEF Ask
    <3> QED
      BY <2>3, <3>1, <3>2 DEF Asking
  <2>4. CASE Answering(s)
    BY <2>4 DEF Answering, Requested, Here
  <2> QED
    BY <2>1, <2>2, <2>3, <2>4 DEF Exchange
<1> QED
  BY ExchangeInvariance, <1>1, PTL DEF Spec, Steps

\* Source and manager agree on which detailed histogram is the last one.
THEOREM CompleteSafe == Spec => []CompleteAgreed
<1>1. ExInv => CompleteAgreed
  <2> SUFFICES ASSUME ExInv PROVE CompleteAgreed
    OBVIOUS
  <2>1. ASSUME NEW s \in Nodes
        PROVE  LET asked == \/ man.pc \in {"partition", "tell", "results", "done"}
                            \/ man.pc = "detail" /\ LastRound /\ s < man.to
               IN  /\ asked => src[s].pc # "detail"
                   /\ src[s].pc \in {"request", "transfer", "reply", "done"} =>
                        \/ asked
                        \/ man.pc = "faulted"
                        \/ man.pc = "detail" /\ LastRound /\ s = man.to /\ man.step = 4
    BY DEF ExInv, Phase, Past, Collecting
  <2> QED
    BY <2>1 DEF CompleteAgreed
<1> QED
  BY ExchangeInvariance, <1>1, PTL DEF Spec, Steps

-----------------------------------------------------------------------------
(* The transfer of the ranges. The argument counts the items that every    *)
(* source has brought to every destination.                                *)

DestPcs == {"read", "write", "sort", "report", "done", "aborted"}

\* The parts of the state that the transfer of ranges is about.
TransferShape ==
  /\ \A s \in Nodes : {"request", "to", "sent"} \subseteq DOMAIN src[s]
  /\ {"told", "cut"} \subseteq DOMAIN man
  /\ DOMAIN rangePipe = Nodes
  /\ DOMAIN ranges = Nodes
  /\ \A s \in Nodes : DOMAIN ranges[s] = Nodes
  /\ DOMAIN dst = Nodes
  /\ \A d \in Nodes :
       /\ {"pc", "array", "waiting", "ranges", "client"} \subseteq DOMAIN dst[d]
       /\ dst[d].pc \in DestPcs

\* The ranges are known, and those of source s have been sent to it.
Ranged == man.pc \in {"tell", "results", "done"}
Ordered(s) == Ranged /\ (man.pc = "tell" => s < man.told)

\* What the manager tells source s.
Order(s) ==
  [j \in 1 .. NodeCount |->
     [dst |-> j - 1, first |-> man.cut[j - 1][s], last |-> man.cut[j][s] - 1]]

Transferring(s) == src[s].pc \in {"transfer", "reply", "done"}

Orders ==
  /\ Ranged => man.cut \in Cuts
  /\ man.told \in 0 .. NodeCount
  /\ man.pc = "tell" => man.told < NodeCount
  /\ ~ Ranged => man.told = 0
  /\ \A s \in Nodes :
       /\ rangePipe[s] # <<>> =>
            Ordered(s) /\ rangePipe[s] = <<Order(s)>> /\ ~ Transferring(s)
       /\ Transferring(s) => Ordered(s) /\ src[s].request = Order(s)

\* How many items source s has for destination d.
Size(s, d) == man.cut[d + 1][s] - man.cut[d][s]

\* Where source s is: the destination it serves and the items it sent there.
Progress(s) ==
  /\ src[s].pc = "transfer" =>
       src[s].to \in Nodes /\ src[s].sent \in -1 .. Size(s, src[s].to) - 1
  /\ src[s].pc = "reply" =>
       src[s].to \in Nodes /\ src[s].sent \in 0 .. Size(s, src[s].to)
  /\ src[s].pc = "done" => src[s].to = NodeCount /\ src[s].sent = -1
  /\ ~ Transferring(s) => src[s].to = 0 /\ src[s].sent = -1

\* The connection of s and d: unused, or with the message that s waits for an
\* answer to still unread, in d's hands, or answered.
Sent(s, m) ==
  \/ src[s].sent = 0 /\ m = RangeHeader(Size(s, src[s].to))
  \/ /\ src[s].sent > 0
     /\ m.type = "EPACKET_RANGE_PART" /\ m = RangePart(m.items)
     /\ Len(m.items) \in 1 .. src[s].sent

Serving(s, d) == src[s].pc = "reply" /\ src[s].to = d

Unread(s, d) ==
  /\ ranges[s][d].request # <<>>
  /\ LET m == ranges[s][d].request[1] IN
       /\ Sent(s, m)
       /\ ranges[s][d] = [turn |-> "recv", request |-> <<m>>, reply |-> <<>>]

InHand(s, d) ==
  /\ dst[d].pc = "write" /\ dst[d].client = s
  /\ ranges[s][d] = [turn |-> "recv", request |-> <<>>, reply |-> <<>>]

Replied(s, d) ==
  ranges[s][d] = [turn |-> "recv", request |-> <<>>, reply |-> <<"reply">>]

Line(s, d) ==
  /\ Serving(s, d) => Unread(s, d) \/ InHand(s, d) \/ Replied(s, d)
  /\ ~ Serving(s, d) => ranges[s][d] = Fresh
  /\ dst[d].pc = "write" /\ dst[d].client = s => Serving(s, d) /\ InHand(s, d)

\* What d has of s: how many items, and whether it knows how many there will be.
Header(s, d) ==
  ranges[s][d].request # <<>> /\ ranges[s][d].request[1].type = "EPACKET_RANGE"

OnTheWay(s, d) ==
  IF ranges[s][d].request # <<>> /\ ~ Header(s, d)
  THEN Len(ranges[s][d].request[1].items) ELSE 0

Announced(s, d) ==
  src[s].to > d \/ (src[s].to = d /\ src[s].sent >= 0 /\ ~ Header(s, d))

Got(s, d) ==
  IF src[s].to > d THEN Size(s, d)
  ELSE IF src[s].to = d /\ src[s].sent >= 0 THEN src[s].sent - OnTheWay(s, d)
  ELSE 0

\* The items that d has, those that it awaits, by source and position, and the
\* sources it knows of.
Had(d) ==
  {p \in Nodes \X (1 .. ItemsCount) :
     /\ Got(p[1], d) > 0
     /\ man.cut[d][p[1]] < p[2] /\ p[2] <= man.cut[d][p[1]] + Got(p[1], d)}

Awaited(d) ==
  {p \in Nodes \X (1 .. ItemsCount) :
     /\ Announced(p[1], d)
     /\ man.cut[d][p[1]] < p[2] /\ p[2] <= man.cut[d + 1][p[1]]}

Known(d) == {s \in Nodes : Announced(s, d)}

Counted(d) ==
  /\ Len(dst[d].array) = Cardinality(Had(d))
  /\ dst[d].waiting = Cardinality(Awaited(d))
  /\ dst[d].ranges = Cardinality(Known(d))
  /\ dst[d].pc = "write" => dst[d].client \in Nodes

\* A destination behind its loop.
LoopOver(d) ==
  dst[d].pc \in {"sort", "report", "done", "aborted"} =>
    Len(dst[d].array) >= dst[d].waiting /\ dst[d].ranges >= NodeCount

ServedInv ==
  /\ TransferShape
  /\ Orders
  /\ \A s \in Nodes : Progress(s)
  /\ \A s, d \in Nodes : Line(s, d)
  /\ \A d \in Nodes : Counted(d) /\ LoopOver(d)
-----------------------------------------------------------------------------
\* The items of source s from its a-th, exclusively, to its b-th.
Block(s, a, b) ==
  {p \in Nodes \X (1 .. ItemsCount) : p[1] = s /\ a < p[2] /\ p[2] <= b}

\* There are as many nodes as their count says.
LEMMA NodesFinite ==
  IsFiniteSet(Nodes) /\ Cardinality(Nodes) = NodeCount
<1>1. 0 \in Int /\ NodeCount - 1 \in Int
  BY CountsAssumption
<1>2. /\ IsFiniteSet(Nodes)
      /\ Cardinality(Nodes) = IF 0 > NodeCount - 1 THEN 0 ELSE NodeCount - 1 - 0 + 1
  BY <1>1, FS_Interval DEF Nodes
<1> QED
  BY <1>2, CountsAssumption

\* All the items are finitely many.
LEMMA ItemsFinite ==
  IsFiniteSet(Nodes \X (1 .. ItemsCount))
<1>1. IsFiniteSet(1 .. ItemsCount)
  BY CountsAssumption, FS_Interval
<1> QED
  BY <1>1, NodesFinite, FS_Product

\* A block of items is as large as its bounds say.
LEMMA BlockSize ==
  ASSUME NEW s \in Nodes, NEW a \in Nat, NEW b \in 0 .. ItemsCount, a <= b
  PROVE  IsFiniteSet(Block(s, a, b)) /\ Cardinality(Block(s, a, b)) = b - a
<1> USE CountsAssumption
<1> DEFINE f == [i \in a + 1 .. b |-> <<s, i>>]
<1>1. a + 1 \in Int /\ b \in Int
  OBVIOUS
<1>2. IsFiniteSet(a + 1 .. b) /\ Cardinality(a + 1 .. b) = b - a
  <2>1. /\ IsFiniteSet(a + 1 .. b)
        /\ Cardinality(a + 1 .. b) = IF a + 1 > b THEN 0 ELSE b - (a + 1) + 1
    BY <1>1, FS_Interval
  <2> QED
    BY <2>1
<1>3. \A i \in a + 1 .. b : <<s, i>> \in Block(s, a, b)
  BY DEF Block
<1>4. \A p \in Block(s, a, b) : p[2] \in a + 1 .. b /\ p = <<s, p[2]>>
  BY DEF Block
<1>5. f \in Bijection(a + 1 .. b, Block(s, a, b))
  BY <1>3, <1>4 DEF Bijection, Injection, IsInjective, Surjection
<1>6. ExistsBijection(a + 1 .. b, Block(s, a, b))
  BY <1>5 DEF ExistsBijection
<1> QED
  BY <1>2, <1>6, FS_Bijection

\* A set of items that gains a block it had nothing of is larger by its size.
LEMMA BlockAdded ==
  ASSUME NEW s \in Nodes, NEW a \in Nat, NEW b \in 0 .. ItemsCount, a <= b,
         NEW S, S \subseteq Nodes \X (1 .. ItemsCount),
         \A p \in S : p \notin Block(s, a, b)
  PROVE  Cardinality(S \cup Block(s, a, b)) = Cardinality(S) + (b - a)
<1>1. /\ IsFiniteSet(Block(s, a, b)) /\ Cardinality(Block(s, a, b)) = b - a
  BY BlockSize
<1>2. IsFiniteSet(S) /\ Cardinality(S) \in Nat
  BY ItemsFinite, FS_Subset, FS_CardinalityType
<1>3. Cardinality(S \cap Block(s, a, b)) = 0
  <2>1. S \cap Block(s, a, b) = {}
    OBVIOUS
  <2> QED
    BY <2>1, FS_EmptySet
<1>4. Cardinality(S \cup Block(s, a, b))
        = Cardinality(S) + Cardinality(Block(s, a, b)) - Cardinality(S \cap Block(s, a, b))
  BY <1>1, <1>2, FS_Union
<1> QED
  BY <1>1, <1>2, <1>3, <1>4

\* What is known of the ranges of an analysis.
LEMMA CutFacts ==
  ASSUME NEW cut \in Cuts, NEW d \in Nodes, NEW s \in Nodes
  PROVE  /\ cut[d][s] \in 0 .. ItemsCount
         /\ cut[d + 1][s] \in 0 .. ItemsCount
         /\ cut[d][s] <= cut[d + 1][s]
         /\ Cardinality(Given(cut, d)) = ItemsCount
<1>1. d \in 0 .. NodeCount /\ d + 1 \in 0 .. NodeCount
  BY CountsAssumption DEF Nodes
<1> QED
  BY <1>1 DEF Cuts

\* What the invariant says of one source and one destination.
LEMMA PairFacts ==
  ASSUME ServedInv, NEW s \in Nodes, NEW d \in Nodes
  PROVE  /\ Got(s, d) \in Nat
         /\ src[s].to \in 0 .. NodeCount
         /\ src[s].sent \in Int
         /\ Announced(s, d) => Ranged
         /\ Got(s, d) > 0 => Announced(s, d)
         /\ Ranged => /\ man.cut \in Cuts
                      /\ man.cut[d][s] \in 0 .. ItemsCount
                      /\ man.cut[d + 1][s] \in 0 .. ItemsCount
                      /\ Size(s, d) \in Nat
                      /\ man.cut[d + 1][s] = man.cut[d][s] + Size(s, d)
                      /\ Got(s, d) <= Size(s, d)
<1> USE CountsAssumption
<1>1. d \in Nat /\ s \in Nat
  BY DEF Nodes
<1>2. Progress(s) /\ Line(s, d) /\ Orders
  BY DEF ServedInv
<1>3. Ranged => /\ man.cut \in Cuts
                /\ man.cut[d][s] \in 0 .. ItemsCount
                /\ man.cut[d + 1][s] \in 0 .. ItemsCount
                /\ Size(s, d) \in Nat
                /\ man.cut[d + 1][s] = man.cut[d][s] + Size(s, d)
  <2>1. Ranged => man.cut \in Cuts
    BY <1>2 DEF Orders
  <2>2. Ranged => /\ man.cut[d][s] \in 0 .. ItemsCount
                  /\ man.cut[d + 1][s] \in 0 .. ItemsCount
                  /\ man.cut[d][s] <= man.cut[d + 1][s]
    BY <2>1, CutFacts
  <2> QED
    BY <2>1, <2>2 DEF Size
<1>4. Transferring(s) => Ranged
  BY <1>2 DEF Orders, Ordered
<1>5. CASE ~ Transferring(s)
  <2>1. src[s].to = 0 /\ src[s].sent = -1
    BY <1>2, <1>5 DEF Progress, Transferring
  <2>2. ~ Announced(s, d) /\ Got(s, d) = 0
    BY <1>1, <2>1 DEF Announced, Got
  <2> QED
    BY <1>3, <2>1, <2>2
<1>6. CASE src[s].pc = "done"
  <2>1. src[s].to = NodeCount /\ src[s].sent = -1
    BY <1>2, <1>6 DEF Progress
  <2>2. Announced(s, d) /\ Got(s, d) = Size(s, d)
    BY <1>1, <2>1 DEF Announced, Got, Nodes
  <2> QED
    BY <1>3, <1>4, <1>6, <2>1, <2>2 DEF Transferring
<1>7. CASE src[s].pc \in {"transfer", "reply"} /\ src[s].to # d
  <2>1. src[s].to \in Nodes
    BY <1>2, <1>7 DEF Progress
  <2>2. src[s].to \in 0 .. NodeCount /\ src[s].sent \in Int
    <3>1. Size(s, src[s].to) \in Int
      BY <1>2, <1>4, <1>7, <2>1, CutFacts DEF Orders, Size, Transferring
    <3> QED
      BY <1>2, <1>7, <2>1, <3>1 DEF Progress, Nodes
  <2>3. CASE src[s].to > d
    BY <1>3, <1>4, <1>7, <2>2, <2>3 DEF Announced, Got, Transferring
  <2>4. CASE src[s].to < d
    BY <1>1, <1>3, <1>7, <2>2, <2>4 DEF Announced, Got
  <2> QED
    BY <1>1, <1>7, <2>2, <2>3, <2>4
<1>8. CASE src[s].pc = "transfer" /\ src[s].to = d
  <2>1. Ranged /\ src[s].sent \in -1 .. Size(s, d) - 1
    BY <1>2, <1>4, <1>8 DEF Progress, Transferring
  <2>2. ranges[s][d].request = <<>>
    BY <1>2, <1>8 DEF Line, Serving, Fresh
  <2>3. ~ Header(s, d) /\ OnTheWay(s, d) = 0
    BY <2>2 DEF Header, OnTheWay
  <2>4. src[s].to \in 0 .. NodeCount
    BY <1>8 DEF Nodes
  <2>5. /\ Got(s, d) = IF src[s].sent >= 0 THEN src[s].sent ELSE 0
        /\ Announced(s, d) <=> src[s].sent >= 0
    BY <1>1, <1>3, <1>8, <2>1, <2>3 DEF Got, Announced
  <2> QED
    BY <1>3, <2>1, <2>4, <2>5
<1>9. CASE src[s].pc = "reply" /\ src[s].to = d
  <2>1. Ranged /\ src[s].sent \in 0 .. Size(s, d)
    BY <1>2, <1>4, <1>9 DEF Progress, Transferring
  <2>2. Unread(s, d) \/ InHand(s, d) \/ Replied(s, d)
    BY <1>2, <1>9 DEF Line, Serving
  <2>3. src[s].to \in 0 .. NodeCount
    BY <1>9 DEF Nodes
  <2>4. OnTheWay(s, d) \in 0 .. src[s].sent
        /\ (src[s].sent > OnTheWay(s, d) => ~ Header(s, d))
    <3>1. CASE Unread(s, d)
      <4>1. ranges[s][d].request # <<>> /\ Sent(s, ranges[s][d].request[1])
        BY <3>1 DEF Unread
      <4>2. CASE src[s].sent = 0
        BY <1>9, <4>1, <4>2 DEF Sent, RangeHeader, OnTheWay, Header
      <4>3. CASE src[s].sent > 0
        <5>1. src[s].sent \in Nat
          BY <1>3, <2>1
        <5>2. /\ ranges[s][d].request[1].type = "EPACKET_RANGE_PART"
              /\ Len(ranges[s][d].request[1].items) \in 1 .. src[s].sent
          BY <4>1, <4>3 DEF Sent
        <5>3. ~ Header(s, d)
          BY <5>2 DEF Header
        <5>4. OnTheWay(s, d) \in 1 .. src[s].sent
          BY <4>1, <5>2, <5>3 DEF OnTheWay
        <5> QED
          BY <5>1, <5>3, <5>4
      <4> QED
        BY <1>3, <2>1, <4>2, <4>3
    <3>2. CASE ranges[s][d].request = <<>>
      BY <1>3, <2>1, <3>2 DEF OnTheWay, Header
    <3> QED
      BY <2>2, <3>1, <3>2 DEF InHand, Replied
  <2>5. /\ Got(s, d) = src[s].sent - OnTheWay(s, d)
        /\ Announced(s, d) <=> ~ Header(s, d)
    BY <1>1, <1>3, <1>9, <2>1 DEF Got, Announced
  <2> QED
    BY <1>3, <2>1, <2>3, <2>4, <2>5
<1> QED
  BY <1>5, <1>6, <1>7, <1>8, <1>9 DEF Transferring

-----------------------------------------------------------------------------
\* A connection that a step leaves alone, as its source and its destination do.
PairStays(s, d) ==
  /\ src'[s].to = src[s].to /\ src'[s].sent = src[s].sent
  /\ src'[s].pc = "reply" <=> src[s].pc = "reply"
  /\ ranges'[s][d] = ranges[s][d]
  /\ dst'[d].pc = "write" /\ dst'[d].client = s
       <=> dst[d].pc = "write" /\ dst[d].client = s

\* The ranges that the steps so far rest on do not change.
CutStays == man'.cut = man.cut \/ ~ Ranged

\* No destination receives an item.
HadStays == \A d \in Nodes : Had(d)' = Had(d)

\* Such a connection is as it was, and so is what the destination has of it.
LEMMA PairUnchanged ==
  ASSUME ServedInv, NEW s \in Nodes, NEW d \in Nodes, CutStays, PairStays(s, d)
  PROVE  /\ Line(s, d)'
         /\ Got(s, d)' = Got(s, d)
         /\ Announced(s, d)' <=> Announced(s, d)
<1> USE DEF PairStays
<1>1. Line(s, d) /\ (Transferring(s) => Ranged) /\ Progress(s)
  BY DEF ServedInv, Orders, Ordered
<1>2. /\ Header(s, d)' <=> Header(s, d)
      /\ OnTheWay(s, d)' = OnTheWay(s, d)
      /\ Serving(s, d)' <=> Serving(s, d)
      /\ InHand(s, d)' <=> InHand(s, d)
      /\ Replied(s, d)' <=> Replied(s, d)
  BY DEF Header, OnTheWay, Serving, InHand, Replied
<1>3. CASE ~ Ranged
  <2>1. ~ Serving(s, d) /\ src[s].to = 0
    BY <1>1, <1>3 DEF Serving, Transferring, Progress
  <2>2. Line(s, d)'
    BY <1>1, <1>2, <2>1 DEF Line
  <2> QED
    BY <1>2, <2>1, <2>2 DEF Got, Announced, Nodes
<1>4. CASE man'.cut = man.cut
  <2>1. /\ Size(s, d)' = Size(s, d)
        /\ Size(s, src[s].to)' = Size(s, src[s].to)
    BY <1>4 DEF Size
  <2>2. Unread(s, d)' <=> Unread(s, d)
    BY <2>1 DEF Unread, Sent
  <2>3. Line(s, d)'
    BY <1>1, <1>2, <2>2 DEF Line
  <2> QED
    BY <1>2, <2>1, <2>3 DEF Got, Announced
<1> QED
  BY <1>3, <1>4 DEF CutStays

\* So is the place of a source that a step leaves where it is.
LEMMA PlaceUnchanged ==
  ASSUME ServedInv, NEW s \in Nodes, CutStays,
         src'[s].to = src[s].to, src'[s].sent = src[s].sent,
         src'[s].pc = src[s].pc \/ ~ (Transferring(s) \/ Transferring(s)')
  PROVE  Progress(s)'
<1>1. Progress(s) /\ (Transferring(s) => Ranged)
  BY DEF ServedInv, Orders, Ordered
<1>2. CASE Transferring(s)
  <2>1. man'.cut = man.cut /\ src'[s].pc = src[s].pc
    BY <1>1, <1>2 DEF CutStays
  <2>2. Size(s, src[s].to)' = Size(s, src[s].to)
    BY <2>1 DEF Size
  <2> QED
    BY <1>1, <1>2, <2>1, <2>2 DEF Progress, Transferring
<1>3. CASE ~ Transferring(s)
  BY <1>1, <1>3 DEF Progress, Transferring
<1> QED
  BY <1>2, <1>3

\* A destination for which nothing comes in has and awaits what it did.
LEMMA CountsUnchanged ==
  ASSUME ServedInv, NEW d \in Nodes, CutStays,
         \A s \in Nodes : Got(s, d)' = Got(s, d) /\ (Announced(s, d)' <=> Announced(s, d))
  PROVE  Had(d)' = Had(d) /\ Awaited(d)' = Awaited(d) /\ Known(d)' = Known(d)
<1>1. Known(d)' = Known(d)
  BY DEF Known
<1>2. CASE man'.cut = man.cut
  BY <1>1, <1>2 DEF Had, Awaited
<1>3. CASE ~ Ranged
  <2>1. \A s \in Nodes : ~ (Got(s, d) > 0) /\ ~ Announced(s, d)
    BY <1>3, PairFacts
  <2> QED
    BY <1>1, <2>1 DEF Had, Awaited
<1> QED
  BY <1>2, <1>3 DEF CutStays

\* A part that a destination reads adds its items to those it has.
LEMMA PartCounts ==
  ASSUME ServedInv, Ranged, man'.cut = man.cut, NEW s \in Nodes, NEW d \in Nodes,
         NEW n \in Nat, Got(s, d)' = Got(s, d) + n, Got(s, d) + n <= Size(s, d),
         \A k \in Nodes : k # s => Got(k, d)' = Got(k, d)
  PROVE  /\ Cardinality(Had(d)') = Cardinality(Had(d)) + n
         /\ Had(d)' = Had(d) \cup Block(s, man.cut[d][s] + Got(s, d),
                                           man.cut[d][s] + Got(s, d) + n)
         /\ \A p \in Had(d) : p \notin Block(s, man.cut[d][s] + Got(s, d),
                                                man.cut[d][s] + Got(s, d) + n)
         /\ man.cut[d][s] + Got(s, d) \in Nat
         /\ man.cut[d][s] + Got(s, d) + n \in 0 .. ItemsCount
<1> DEFINE a == man.cut[d][s] + Got(s, d)
<1>1. /\ Got(s, d) \in Nat /\ man.cut[d][s] \in Nat
      /\ a \in Nat /\ a + n \in 0 .. ItemsCount
  BY PairFacts, CountsAssumption
<1>2. Had(d)' = Had(d) \cup Block(s, a, a + n)
  <2> SUFFICES ASSUME NEW p \in Nodes \X (1 .. ItemsCount)
               PROVE  p \in Had(d)' <=> p \in Had(d) \/ p \in Block(s, a, a + n)
    BY DEF Had, Block
  <2>1. p[1] \in Nodes /\ p[2] \in Nat
    OBVIOUS
  <2>2. CASE p[1] # s
    BY <2>1, <2>2 DEF Had, Block
  <2>3. CASE p[1] = s
    BY <1>1, <2>1, <2>3 DEF Had, Block
  <2> QED
    BY <2>2, <2>3
<1>3. /\ Had(d) \subseteq Nodes \X (1 .. ItemsCount)
      /\ \A p \in Had(d) : p \notin Block(s, a, a + n)
  BY <1>1 DEF Had, Block
<1>4. a <= a + n /\ a + n - a = n
  BY <1>1
<1>5. Cardinality(Had(d)') = Cardinality(Had(d)) + n
  <2> HIDE DEF a
  <2> QED
    BY <1>1, <1>2, <1>3, <1>4, BlockAdded
<1> QED
  BY <1>1, <1>2, <1>3, <1>5

\* A header that a destination reads adds its range to what it awaits.
LEMMA HeaderCounts ==
  ASSUME ServedInv, Ranged, man'.cut = man.cut, NEW s \in Nodes, NEW d \in Nodes,
         ~ Announced(s, d), Announced(s, d)',
         \A k \in Nodes : k # s => (Announced(k, d)' <=> Announced(k, d))
  PROVE  /\ Cardinality(Awaited(d)') = Cardinality(Awaited(d)) + Size(s, d)
         /\ Cardinality(Known(d)') = Cardinality(Known(d)) + 1
<1>1. /\ man.cut[d][s] \in 0 .. ItemsCount /\ man.cut[d + 1][s] \in 0 .. ItemsCount
      /\ Size(s, d) \in Nat /\ man.cut[d + 1][s] = man.cut[d][s] + Size(s, d)
  BY PairFacts
<1>2. Awaited(d)' = Awaited(d) \cup Block(s, man.cut[d][s], man.cut[d + 1][s])
  <2> SUFFICES ASSUME NEW p \in Nodes \X (1 .. ItemsCount)
               PROVE  p \in Awaited(d)' <=>
                        \/ p \in Awaited(d)
                        \/ p \in Block(s, man.cut[d][s], man.cut[d + 1][s])
    BY DEF Awaited, Block
  <2>1. p[1] \in Nodes /\ p[2] \in Nat
    OBVIOUS
  <2>2. CASE p[1] # s
    BY <2>1, <2>2 DEF Awaited, Block
  <2>3. CASE p[1] = s
    BY <1>1, <2>1, <2>3 DEF Awaited, Block
  <2> QED
    BY <2>2, <2>3
<1>3. /\ Awaited(d) \subseteq Nodes \X (1 .. ItemsCount)
      /\ \A p \in Awaited(d) : p \notin Block(s, man.cut[d][s], man.cut[d + 1][s])
  BY DEF Awaited, Block
<1>4. Cardinality(Awaited(d)') = Cardinality(Awaited(d)) + Size(s, d)
  <2>1. /\ man.cut[d][s] \in Nat /\ man.cut[d][s] <= man.cut[d + 1][s]
        /\ man.cut[d + 1][s] - man.cut[d][s] = Size(s, d)
    BY <1>1, CountsAssumption
  <2> QED
    BY <1>1, <1>2, <1>3, <2>1, BlockAdded
<1>5. Known(d)' = Known(d) \cup {s} /\ s \notin Known(d)
  BY DEF Known
<1>6. IsFiniteSet(Known(d))
  BY NodesFinite, FS_Subset DEF Known
<1> QED
  BY <1>4, <1>5, <1>6, FS_AddElement

-----------------------------------------------------------------------------
\* Nothing has been told, sent or received when the nodes start.
LEMMA ServedInit ==
  Init => ServedInv
<1> SUFFICES ASSUME Init PROVE ServedInv
  OBVIOUS
<1> USE CountsAssumption DEF Init
<1>1. \A s \in Nodes :
        /\ DOMAIN src[s] = {"pc", "array", "step", "complete", "request", "to", "sent"}
        /\ src[s].pc = "start" /\ src[s].to = 0 /\ src[s].sent = -1
  OBVIOUS
<1>2. \A d \in Nodes :
        /\ DOMAIN dst[d] = {"pc", "array", "waiting", "ranges", "client"}
        /\ dst[d].pc = "read" /\ dst[d].array = <<>> /\ dst[d].waiting = 0
        /\ dst[d].ranges = 0
  OBVIOUS
<1>3. man.pc = "crc" /\ man.told = 0 /\ {"told", "cut"} \subseteq DOMAIN man
  OBVIOUS
<1>4. TransferShape
  BY <1>1, <1>2, <1>3 DEF TransferShape, DestPcs
<1>5. ~ Ranged /\ \A s \in Nodes : ~ Transferring(s) /\ rangePipe[s] = <<>>
  BY <1>1, <1>3 DEF Ranged, Transferring
<1>6. Orders
  BY <1>3, <1>5 DEF Orders
<1>7. \A s \in Nodes : Progress(s)
  BY <1>1, <1>5 DEF Progress, Transferring
<1>8. \A s, d \in Nodes : Line(s, d)
  BY <1>1, <1>2 DEF Line, Serving
<1>9. \A s, d \in Nodes : ~ Announced(s, d) /\ Got(s, d) = 0
  BY <1>1 DEF Announced, Got, Nodes
<1>10. ASSUME NEW d \in Nodes
       PROVE  Counted(d) /\ LoopOver(d)
  <2>1. Had(d) = {} /\ Awaited(d) = {} /\ Known(d) = {}
    BY <1>9 DEF Had, Awaited, Known
  <2>2. /\ Cardinality(Had(d)) = 0
        /\ Cardinality(Awaited(d)) = 0
        /\ Cardinality(Known(d)) = 0
    BY <2>1, FS_EmptySet
  <2> QED
    BY <1>2, <2>2 DEF Counted, LoopOver
<1> QED
  BY <1>4, <1>6, <1>7, <1>8, <1>10 DEF ServedInv

-----------------------------------------------------------------------------
\* Steps that move nothing of a range: the sources may sort, exit, or answer the
\* manager, the manager may be anywhere but in telling, a destination may save and
\* report.
SourceAside(s) ==
  /\ src'[s].request = src[s].request
  /\ src'[s].to = src[s].to
  /\ src'[s].sent = src[s].sent
  /\ src'[s].pc = src[s].pc \/ ~ (Transferring(s) \/ Transferring(s)')

ManagerAside ==
  /\ man'.cut = man.cut
  /\ man'.told = man.told
  /\ \/ man'.pc = man.pc
     \/ ~ Ranged /\ ~ Ranged'
     \/ man.pc = "results" /\ man'.pc = "done"

DestAside(d) ==
  /\ dst'[d].array = dst[d].array
  /\ dst'[d].waiting = dst[d].waiting
  /\ dst'[d].ranges = dst[d].ranges
  /\ dst'[d].client = dst[d].client
  /\ \/ dst'[d].pc = dst[d].pc
     \/ {dst[d].pc, dst'[d].pc} \subseteq {"sort", "report", "done", "aborted"}

\* Such steps leave all that is known of the ranges as it was.
LEMMA AsidePreserves ==
  ASSUME ServedInv, TransferShape', UNCHANGED <<rangePipe, ranges>>, ManagerAside,
         \A s \in Nodes : SourceAside(s), \A d \in Nodes : DestAside(d)
  PROVE  ServedInv' /\ HadStays
<1>1. CutStays
  BY DEF CutStays, ManagerAside
<1>2. \A s, d \in Nodes : PairStays(s, d)
  <2> SUFFICES ASSUME NEW s \in Nodes, NEW d \in Nodes
               PROVE  PairStays(s, d)
    OBVIOUS
  <2>1. SourceAside(s) /\ DestAside(d)
    OBVIOUS
  <2> QED
    BY <2>1 DEF SourceAside, DestAside, PairStays, Transferring
<1>3. \A s, d \in Nodes : /\ Line(s, d)'
                          /\ Got(s, d)' = Got(s, d)
                          /\ Announced(s, d)' <=> Announced(s, d)
  BY <1>1, <1>2, PairUnchanged
<1>4. \A s \in Nodes : Progress(s)'
  BY <1>1, PlaceUnchanged DEF SourceAside
<1>5. Orders'
  <2>1. /\ Orders
        /\ Ranged' <=> Ranged
        /\ man'.pc = "tell" <=> man.pc = "tell"
        /\ \A s \in Nodes : Order(s)' = Order(s) /\ (Ordered(s)' <=> Ordered(s))
    BY DEF ServedInv, ManagerAside, Ranged, Order, Ordered
  <2>2. \A s \in Nodes : /\ Transferring(s)' <=> Transferring(s)
                         /\ src'[s].request = src[s].request
    BY DEF SourceAside, Transferring
  <2> QED
    BY <2>1, <2>2 DEF Orders, ManagerAside
<1>6. ASSUME NEW d \in Nodes
      PROVE  Counted(d)' /\ LoopOver(d)' /\ Had(d)' = Had(d)
  <2>1. Had(d)' = Had(d) /\ Awaited(d)' = Awaited(d) /\ Known(d)' = Known(d)
    BY <1>1, <1>3, CountsUnchanged
  <2>2. Counted(d) /\ LoopOver(d) /\ DestAside(d)
    BY DEF ServedInv
  <2>3. Counted(d)'
    BY <2>1, <2>2 DEF Counted, DestAside
  <2>4. LoopOver(d)'
    BY <2>2 DEF LoopOver, DestAside
  <2> QED
    BY <2>1, <2>3, <2>4
<1> QED
  BY <1>3, <1>4, <1>5, <1>6 DEF ServedInv, HadStays

\* Before its transfer a source moves nothing of a range.
LEMMA SourcePrepares ==
  ASSUME ServedInv, ExInv, NEW s \in Nodes,
         \/ SourceSort(s) \/ SourceExit(s) \/ SourceWriteCrc(s)
         \/ SourceWriteHistogram(s) \/ SourceAnswer(s)
  PROVE  ServedInv' /\ HadStays
<1>1. /\ UNCHANGED <<man, dst, rangePipe, ranges>>
      /\ DOMAIN src' = Nodes /\ DOMAIN src'[s] = DOMAIN src[s]
      /\ ~ Transferring(s) /\ ~ Transferring(s)'
      /\ src'[s].request = src[s].request
      /\ src'[s].to = src[s].to
      /\ src'[s].sent = src[s].sent
      /\ \A k \in Nodes : k # s => src'[k] = src[k]
  <2> USE DEF ExInv, Shape, ServedInv, TransferShape, Transferring
  <2>1. CASE SourceSort(s)
    BY <2>1 DEF SourceSort
  <2>2. CASE SourceExit(s)
    BY <2>2 DEF SourceExit
  <2>3. CASE SourceWriteCrc(s)
    BY <2>3 DEF SourceWriteCrc
  <2>4. CASE SourceWriteHistogram(s)
    BY <2>4 DEF SourceWriteHistogram
  <2>5. CASE SourceAnswer(s)
    BY <2>5 DEF SourceAnswer
  <2> QED
    BY <2>1, <2>2, <2>3, <2>4, <2>5
<1>2. TransferShape'
  BY <1>1 DEF ServedInv, TransferShape
<1>3. ManagerAside /\ \A d \in Nodes : DestAside(d)
  BY <1>1 DEF ManagerAside, DestAside
<1>4. ASSUME NEW k \in Nodes
      PROVE  SourceAside(k)
  <2>1. CASE k = s
    BY <1>1, <2>1 DEF SourceAside, Transferring
  <2>2. CASE k # s
    BY <1>1, <2>2 DEF SourceAside
  <2> QED
    BY <2>1, <2>2
<1> QED
  BY <1>1, <1>2, <1>3, <1>4, AsidePreserves

\* A source reads what it was told, and has sent nothing yet.
LEMMA RequestRead ==
  ASSUME ServedInv, ExInv, NEW s \in Nodes, SourceReadRequest(s)
  PROVE  ServedInv' /\ HadStays
<1>1. /\ UNCHANGED <<man, dst, ranges>>
      /\ src[s].pc = "request" /\ rangePipe[s] # <<>>
      /\ rangePipe' = [rangePipe EXCEPT ![s] = Tail(@)]
      /\ src' = [src EXCEPT ![s].pc = "transfer", ![s].request = Head(rangePipe[s])]
  BY DEF SourceReadRequest
<1>2. /\ DOMAIN src' = Nodes /\ DOMAIN src'[s] = DOMAIN src[s]
      /\ src'[s].pc = "transfer" /\ src'[s].request = Head(rangePipe[s])
      /\ src'[s].to = src[s].to /\ src'[s].sent = src[s].sent
      /\ \A k \in Nodes : k # s => src'[k] = src[k]
  BY <1>1 DEF ExInv, Shape, ServedInv, TransferShape
<1>3. Orders /\ Progress(s)
  BY DEF ServedInv
<1>4. rangePipe[s] = <<Order(s)>> /\ Ordered(s) /\ Ranged
  BY <1>1, <1>3 DEF Orders, Ordered
<1>5. /\ rangePipe'[s] = <<>> /\ \A k \in Nodes : k # s => rangePipe'[k] = rangePipe[k]
      /\ src'[s].request = Order(s)
  BY <1>1, <1>2, <1>4 DEF ServedInv, TransferShape
<1>6. TransferShape'
  BY <1>1, <1>2 DEF ServedInv, TransferShape
<1>7. src'[s].to = 0 /\ src'[s].sent = -1
  BY <1>1, <1>2, <1>3 DEF Progress, Transferring
<1>8. Orders'
  <2>1. Ranged' <=> Ranged
    BY <1>1 DEF Ranged
  <2>2. \A k \in Nodes : Order(k)' = Order(k) /\ (Ordered(k)' <=> Ordered(k))
    BY <1>1, <2>1 DEF Order, Ordered
  <2> QED
    BY <1>1, <1>2, <1>3, <1>4, <1>5, <2>1, <2>2 DEF Orders, Transferring
<1>9. \A k, d \in Nodes : PairStays(k, d)
  BY <1>1, <1>2 DEF PairStays
<1>10. CutStays
  BY <1>1 DEF CutStays
<1>11. \A k, d \in Nodes : /\ Line(k, d)'
                           /\ Got(k, d)' = Got(k, d)
                           /\ Announced(k, d)' <=> Announced(k, d)
  BY <1>9, <1>10, PairUnchanged
<1>12. \A k \in Nodes : Progress(k)'
  <2>1. Progress(s)'
    <3>1. 0 \in Nodes
      BY CountsAssumption DEF Nodes
    <3>2. Size(s, 0) \in Nat
      BY <1>4, <3>1, PairFacts
    <3>3. Size(s, src[s].to)' = Size(s, 0)
      BY <1>1, <1>7 DEF Size
    <3>4. src'[s].to \in Nodes /\ src'[s].sent \in -1 .. Size(s, src[s].to)' - 1
      BY <1>7, <3>1, <3>2, <3>3
    <3> QED
      BY <1>2, <3>4 DEF Progress, Transferring, Size
  <2>2. \A k \in Nodes : k # s => Progress(k)'
    BY <1>2, <1>10, PlaceUnchanged
  <2> QED
    BY <2>1, <2>2
<1>13. \A d \in Nodes : Counted(d)' /\ LoopOver(d)' /\ Had(d)' = Had(d)
  <2> SUFFICES ASSUME NEW d \in Nodes
               PROVE  Counted(d)' /\ LoopOver(d)' /\ Had(d)' = Had(d)
    OBVIOUS
  <2>1. Had(d)' = Had(d) /\ Awaited(d)' = Awaited(d) /\ Known(d)' = Known(d)
    BY <1>10, <1>11, CountsUnchanged
  <2>2. Counted(d) /\ LoopOver(d) /\ UNCHANGED dst
    BY <1>1 DEF ServedInv
  <2> QED
    BY <2>1, <2>2 DEF Counted, LoopOver
<1> QED
  BY <1>6, <1>8, <1>11, <1>12, <1>13 DEF ServedInv, HadStays

-----------------------------------------------------------------------------
\* A source and a destination that have nothing to do with each other at the moment.
Idle(s, d) == ~ Serving(s, d) /\ (src[s].to = d => src[s].sent = -1)

\* Their connection stays as it is while the source serves another destination.
LEMMA IdleUnchanged ==
  ASSUME ServedInv, NEW s \in Nodes, NEW d \in Nodes,
         man' = man, dst' = dst, ranges'[s][d] = ranges[s][d],
         Idle(s, d), Idle(s, d)', src'[s].to > d <=> src[s].to > d
  PROVE  /\ Line(s, d)'
         /\ Got(s, d)' = Got(s, d)
         /\ Announced(s, d)' <=> Announced(s, d)
<1>1. Line(s, d)
  BY DEF ServedInv
<1>2. Line(s, d)'
  BY <1>1 DEF Idle, Line
<1>3. Size(s, d)' = Size(s, d)
  BY DEF Size
<1>4. /\ ~ (src[s].to = d /\ src[s].sent >= 0)
      /\ ~ (src'[s].to = d /\ src'[s].sent >= 0)
  BY DEF Idle
<1> QED
  BY <1>2, <1>3, <1>4 DEF Got, Announced

\* What a source sends next is the range it was told to send there.
LEMMA CurrentFacts ==
  ASSUME ServedInv, NEW s \in Nodes, src[s].pc \in {"transfer", "reply"}
  PROVE  /\ Ranged
         /\ src[s].to \in Nodes
         /\ Size(s, src[s].to) \in Nat
         /\ Current(s).dst = src[s].to
         /\ RangeLength(Current(s)) = Size(s, src[s].to)
         /\ Current(s).first = man.cut[src[s].to][s]
         /\ Current(s).last = man.cut[src[s].to + 1][s] - 1
<1>1. Progress(s) /\ Orders
  BY DEF ServedInv
<1>2. src[s].to \in Nodes /\ Ranged /\ src[s].request = Order(s)
  BY <1>1 DEF Progress, Orders, Transferring, Ordered
<1>3. /\ Size(s, src[s].to) \in Nat
      /\ man.cut[src[s].to][s] \in Int /\ man.cut[src[s].to + 1][s] \in Int
  BY <1>2, PairFacts, CountsAssumption
<1>4. PICK j \in 1 .. NodeCount : j = src[s].to + 1 /\ j - 1 = src[s].to
  BY <1>2, CountsAssumption DEF Nodes
<1>5. Current(s) = [dst |-> j - 1, first |-> man.cut[j - 1][s],
                    last |-> man.cut[j][s] - 1]
  BY <1>2, <1>4 DEF Current, Order
<1>6. /\ Current(s).dst = j - 1
      /\ Current(s).first = man.cut[j - 1][s]
      /\ Current(s).last = man.cut[j][s] - 1
      /\ RangeLength(Current(s)) = man.cut[j][s] - 1 - man.cut[j - 1][s] + 1
  BY <1>5 DEF RangeLength
<1> QED
  BY <1>2, <1>3, <1>4, <1>6 DEF Size

\* Source s has sent message m to destination d, the one it serves; with it it has sent
\* it "now" items, and "sent" before, which is -1 before the header.
Sends(s, d, sent, now, m) ==
  /\ d \in Nodes /\ sent \in Int /\ now \in Nat
  /\ Ranged /\ src[s].to = d /\ src[s].sent = sent
  /\ sent \in -1 .. Size(s, d) - 1 /\ now <= Size(s, d)
  /\ sent = -1 => now = 0 /\ m = RangeHeader(Size(s, d))
  /\ sent # -1 => /\ m.type = "EPACKET_RANGE_PART" /\ m = RangePart(m.items)
                  /\ m.items = SubSeq(ItemsOf(src[s].array, Current(s)), sent + 1, now)
                  /\ Len(m.items) = now - sent
                  /\ sent < now
  /\ ranges[s][d] = Fresh
  /\ DOMAIN ranges' = Nodes
  /\ \A k \in Nodes : DOMAIN ranges'[k] = Nodes
  /\ ranges'[s][d] = Request(Fresh, m)
  /\ \A k, e \in Nodes : k # s \/ e # d => ranges'[k][e] = ranges[k][e]
  /\ DOMAIN src' = Nodes /\ DOMAIN src'[s] = DOMAIN src[s]
  /\ src'[s].pc = "reply" /\ src'[s].sent = now
  /\ src'[s].to = src[s].to /\ src'[s].request = src[s].request
  /\ \A k \in Nodes : k # s => src'[k] = src[k]

\* A source sends the size of a range first, then parts of it.
LEMMA SendFacts ==
  ASSUME ServedInv, ExInv, NEW s \in Nodes, SourceSend(s)
  PROVE  \E d, sent, now, m : Sends(s, d, sent, now, m)
<1> USE CountsAssumption
<1> DEFINE d == src[s].to
<1> DEFINE sent == src[s].sent
<1> DEFINE size == RangeLength(Current(s))
<1> DEFINE upto == IF sent + ChunkItems < size THEN sent + ChunkItems ELSE size
<1> DEFINE items == ItemsOf(src[s].array, Current(s))
<1> DEFINE m == IF sent = -1 THEN RangeHeader(size) ELSE RangePart(SubSeq(items, sent + 1, upto))
<1> DEFINE now == IF sent = -1 THEN 0 ELSE upto
<1>1. src[s].pc = "transfer"
  BY DEF SourceSend
<1>2. /\ Ranged /\ d \in Nodes /\ size \in Nat
      /\ Current(s).dst = d /\ size = Size(s, d)
  BY <1>1, CurrentFacts
<1>3. Progress(s) /\ Line(s, d)
  BY <1>2 DEF ServedInv
<1>4. sent \in -1 .. size - 1 /\ ranges[s][d] = Fresh
  BY <1>1, <1>2, <1>3 DEF Progress, Line, Serving
<1>5. /\ ranges' = [ranges EXCEPT ![s][d] = Request(@, m)]
      /\ src' = [src EXCEPT ![s].pc = "reply", ![s].sent = now]
  <2>1. /\ ranges' = [ranges EXCEPT ![s][Current(s).dst] = Request(@, m)]
        /\ src' = [src EXCEPT ![s].pc = "reply", ![s].sent = IF @ = -1 THEN 0 ELSE upto]
    BY DEF SourceSend
  <2> QED
    BY <1>2, <2>1
<1>6. /\ DOMAIN ranges' = Nodes
      /\ \A k \in Nodes : DOMAIN ranges'[k] = Nodes
      /\ ranges'[s][d] = Request(Fresh, m)
      /\ \A k, e \in Nodes : k # s \/ e # d => ranges'[k][e] = ranges[k][e]
  <2> HIDE DEF m
  <2> QED
    BY <1>2, <1>4, <1>5 DEF ServedInv, TransferShape
<1>7. /\ DOMAIN src' = Nodes /\ DOMAIN src'[s] = DOMAIN src[s]
      /\ src'[s].pc = "reply" /\ src'[s].sent = now
      /\ src'[s].to = src[s].to /\ src'[s].request = src[s].request
      /\ \A k \in Nodes : k # s => src'[k] = src[k]
  <2> HIDE DEF now
  <2> QED
    BY <1>5 DEF ExInv, Shape, ServedInv, TransferShape
<1>8. /\ now \in Nat /\ now <= Size(s, d)
      /\ sent = -1 => now = 0 /\ m = RangeHeader(Size(s, d))
      /\ sent # -1 => /\ m.type = "EPACKET_RANGE_PART" /\ m = RangePart(m.items)
                      /\ m.items = SubSeq(items, sent + 1, now)
                      /\ Len(m.items) = now - sent
                      /\ sent < now
  <2>1. CASE sent = -1
    BY <1>2, <2>1
  <2>2. CASE sent # -1
    <3>1. upto \in Nat /\ sent \in Nat /\ sent < upto /\ upto <= size
      BY <1>2, <1>4, <2>2
    <3>2. m = RangePart(SubSeq(items, sent + 1, upto)) /\ now = upto
      BY <2>2
    <3> HIDE DEF items, upto, m, now
    <3>3. /\ m.type = "EPACKET_RANGE_PART" /\ m = RangePart(m.items)
          /\ m.items = SubSeq(items, sent + 1, upto)
      BY <3>2 DEF RangePart
    <3>4. Len(SubSeq(items, sent + 1, upto)) = upto - sent
      BY <3>1
    <3> QED
      BY <1>2, <2>2, <3>1, <3>2, <3>3, <3>4
  <2> QED
    BY <2>1, <2>2
<1>9. Sends(s, d, sent, now, m)
  <2>1. sent # -1 => m.items = SubSeq(ItemsOf(src[s].array, Current(s)), sent + 1, now)
    BY <1>8
  <2> HIDE DEF m, now, items
  <2> QED
    BY <1>2, <1>4, <1>6, <1>7, <1>8, <2>1 DEF Sends
<1> HIDE DEF m, now
<1> QED
  BY <1>2, <1>8, <1>9

\* What a source sends is on its way, and nothing else changes.
LEMMA RangeSent ==
  ASSUME ServedInv, ExInv, NEW s \in Nodes, SourceSend(s)
  PROVE  ServedInv' /\ HadStays
<1>1. src[s].pc = "transfer" /\ UNCHANGED <<man, dst, rangePipe>>
  BY DEF SourceSend
<1>2. PICK d, sent, now, m : Sends(s, d, sent, now, m)
  BY SendFacts
<1> USE DEF Sends
<1>3. Orders /\ Size(s, d) \in Nat /\ \A e \in Nodes : Line(s, e)
  BY <1>2, PairFacts DEF ServedInv
<1>4. ranges'[s][d] = [turn |-> "recv", request |-> <<m>>, reply |-> <<>>]
  BY <1>2, RequestAndFinish
<1>5. TransferShape'
  BY <1>1, <1>2 DEF ServedInv, TransferShape
<1>6. \A e \in Nodes : Size(s, e)' = Size(s, e)
  BY <1>1 DEF Size
<1>7. Orders'
  <2>1. Ranged' <=> Ranged
    BY <1>1 DEF Ranged
  <2>2. \A k \in Nodes : Order(k)' = Order(k) /\ (Ordered(k)' <=> Ordered(k))
    BY <1>1, <2>1 DEF Order, Ordered
  <2>3. \A k \in Nodes : /\ Transferring(k)' <=> Transferring(k)
                         /\ src'[k].request = src[k].request
    BY <1>1, <1>2 DEF Transferring
  <2> QED
    BY <1>1, <1>3, <2>1, <2>2, <2>3 DEF Orders
<1>8. CutStays
  BY <1>1 DEF CutStays
<1>9. \A k \in Nodes : Progress(k)'
  <2>1. Progress(s)'
    <3>1. src'[s].to \in Nodes /\ src'[s].sent \in 0 .. Size(s, src[s].to)'
      BY <1>2, <1>3, <1>6
    <3> QED
      BY <1>2, <3>1 DEF Progress, Transferring
  <2>2. \A k \in Nodes : k # s => Progress(k)'
    BY <1>2, <1>8, PlaceUnchanged
  <2> QED
    BY <2>1, <2>2
<1>10. Line(s, d)' /\ Got(s, d)' = Got(s, d) /\ (Announced(s, d)' <=> Announced(s, d))
  <2>1. /\ ranges'[s][d].request = <<m>> /\ ranges'[s][d].request # <<>>
        /\ ranges'[s][d].request[1] = m
    BY <1>4
  <2>2. Sent(s, m)'
    <3>1. Size(s, src[s].to)' = Size(s, d)
      BY <1>2, <1>6
    <3>2. CASE sent = -1
      BY <1>2, <3>1, <3>2 DEF Sent
    <3>3. CASE sent # -1
      <4>1. sent \in Nat /\ now - sent \in 1 .. now /\ now > 0
        BY <1>2, <1>3, <3>3
      <4> QED
        BY <1>2, <3>3, <4>1 DEF Sent
    <3> QED
      BY <3>2, <3>3
  <2>3. Unread(s, d)'
    BY <1>4, <2>1, <2>2 DEF Unread
  <2>4. ~ (dst[d].pc = "write" /\ dst[d].client = s)
    BY <1>1, <1>2, <1>3 DEF Line, Serving
  <2>5. Line(s, d)'
    BY <1>1, <1>2, <2>3, <2>4 DEF Line, Serving
  <2>6. ~ Header(s, d) /\ OnTheWay(s, d) = 0
    BY <1>2 DEF Header, OnTheWay, Fresh
  <2>7. CASE sent = -1
    <3>1. Header(s, d)' /\ now = 0
      BY <1>2, <2>1, <2>7 DEF Header, RangeHeader
    <3>2. OnTheWay(s, d)' = 0
      BY <3>1 DEF OnTheWay
    <3> QED
      BY <1>2, <2>5, <2>7, <3>1, <3>2 DEF Got, Announced, Nodes
  <2>8. CASE sent # -1
    <3>1. ~ Header(s, d)'
      BY <1>2, <2>1, <2>8 DEF Header
    <3>2. OnTheWay(s, d)' = now - sent
      BY <1>2, <2>1, <2>8, <3>1 DEF OnTheWay
    <3>3. now >= 0 /\ sent >= 0 /\ now - (now - sent) = sent /\ sent - 0 = sent
      BY <1>2, <1>3, <2>8
    <3> QED
      BY <1>2, <2>5, <2>6, <3>1, <3>2, <3>3 DEF Got, Announced, Nodes
  <2> QED
    BY <2>7, <2>8
<1>11. ASSUME NEW k \in Nodes, NEW e \in Nodes
       PROVE  Line(k, e)' /\ Got(k, e)' = Got(k, e) /\ (Announced(k, e)' <=> Announced(k, e))
  <2>1. CASE k = s /\ e = d
    BY <1>10, <2>1
  <2>2. CASE k = s /\ e # d
    <3>1. Idle(s, e) /\ Idle(s, e)' /\ ranges'[s][e] = ranges[s][e]
      BY <1>2, <2>2 DEF Idle, Serving
    <3> QED
      BY <1>1, <1>2, <2>2, <3>1, IdleUnchanged
  <2>3. CASE k # s
    <3>1. PairStays(k, e)
      BY <1>1, <1>2, <2>3 DEF PairStays
    <3> QED
      BY <1>8, <3>1, PairUnchanged
  <2> QED
    BY <2>1, <2>2, <2>3
<1>12. ASSUME NEW e \in Nodes
       PROVE  Counted(e)' /\ LoopOver(e)' /\ Had(e)' = Had(e)
  <2>1. Had(e)' = Had(e) /\ Awaited(e)' = Awaited(e) /\ Known(e)' = Known(e)
    BY <1>8, <1>11, CountsUnchanged
  <2>2. Counted(e) /\ LoopOver(e) /\ UNCHANGED dst
    BY <1>1 DEF ServedInv
  <2> QED
    BY <2>1, <2>2 DEF Counted, LoopOver
<1> QED
  BY <1>5, <1>7, <1>9, <1>11, <1>12 DEF ServedInv, HadStays

\* Source s has read the answer of destination d, and goes on with it, with the next
\* destination, or to its end.
Receives(s, d) ==
  /\ Ranged /\ src[s].pc = "reply" /\ src[s].to = d
  /\ src[s].sent \in 0 .. Size(s, d)
  /\ Replied(s, d)
  /\ DOMAIN ranges' = Nodes
  /\ \A k \in Nodes : DOMAIN ranges'[k] = Nodes
  /\ ranges'[s][d] = Fresh
  /\ \A k, e \in Nodes : k # s \/ e # d => ranges'[k][e] = ranges[k][e]
  /\ DOMAIN src' = Nodes /\ DOMAIN src'[s] = DOMAIN src[s]
  /\ src'[s].request = src[s].request
  /\ \A k \in Nodes : k # s => src'[k] = src[k]
  /\ src[s].sent < Size(s, d) =>
       /\ src'[s].pc = "transfer" /\ src'[s].to = src[s].to
       /\ src'[s].sent = src[s].sent
  /\ src[s].sent = Size(s, d) =>
       /\ src'[s].pc = IF d + 1 < NodeCount THEN "transfer" ELSE "done"
       /\ src'[s].to = d + 1 /\ src'[s].sent = -1

\* A source reads the answer of the destination it serves.
LEMMA ReceiveFacts ==
  ASSUME ServedInv, ExInv, NEW s \in Nodes, SourceReceive(s)
  PROVE  \E d \in Nodes : Receives(s, d)
<1> DEFINE d == src[s].to
<1> DEFINE more == src[s].sent < RangeLength(Current(s))
<1>1. src[s].pc = "reply"
  BY DEF SourceReceive
<1>2. /\ Ranged /\ d \in Nodes /\ Size(s, d) \in Nat
      /\ Current(s).dst = d /\ RangeLength(Current(s)) = Size(s, d)
  BY <1>1, CurrentFacts
<1>3. Progress(s) /\ Line(s, d)
  BY <1>2 DEF ServedInv
<1>4. src[s].sent \in 0 .. Size(s, d)
  BY <1>1, <1>3 DEF Progress
<1>5. /\ Answered(ranges[s][d])
      /\ ranges' = [ranges EXCEPT ![s][d] = Finish(@)]
      /\ src' = IF more THEN [src EXCEPT ![s].pc = "transfer"]
                ELSE [src EXCEPT
                        ![s].pc = IF src[s].to + 1 < NodeCount THEN "transfer" ELSE "done",
                        ![s].to = @ + 1, ![s].sent = -1]
  BY <1>2 DEF SourceReceive
<1>6. Replied(s, d)
  BY <1>1, <1>3, <1>5 DEF Line, Serving, Answered, Unread, InHand
<1>7. Finish(ranges[s][d]) = Fresh
  BY <1>6, RequestAndFinish DEF Replied
<1>8. /\ DOMAIN ranges' = Nodes
      /\ \A k \in Nodes : DOMAIN ranges'[k] = Nodes
      /\ ranges'[s][d] = Fresh
      /\ \A k, e \in Nodes : k # s \/ e # d => ranges'[k][e] = ranges[k][e]
  BY <1>2, <1>5, <1>7 DEF ServedInv, TransferShape
<1>9. /\ DOMAIN src' = Nodes /\ DOMAIN src'[s] = DOMAIN src[s]
      /\ src'[s].request = src[s].request
      /\ \A k \in Nodes : k # s => src'[k] = src[k]
      /\ more =>
           /\ src'[s].pc = "transfer" /\ src'[s].to = src[s].to
           /\ src'[s].sent = src[s].sent
      /\ ~ more =>
           /\ src'[s].pc = IF d + 1 < NodeCount THEN "transfer" ELSE "done"
           /\ src'[s].to = d + 1 /\ src'[s].sent = -1
  <2> HIDE DEF more
  <2>1. CASE more
    BY <1>5, <2>1 DEF ExInv, Shape, ServedInv, TransferShape
  <2>2. CASE ~ more
    BY <1>5, <2>2 DEF ExInv, Shape, ServedInv, TransferShape
  <2> QED
    BY <2>1, <2>2
<1>10. Receives(s, d)
  <2>1. more <=> src[s].sent < Size(s, d)
    BY <1>2
  <2>2. src[s].sent = Size(s, d) => ~ (src[s].sent < Size(s, d))
    BY <1>2, <1>4
  <2> HIDE DEF more
  <2> QED
    BY <1>1, <1>2, <1>4, <1>6, <1>8, <1>9, <2>1, <2>2 DEF Receives
<1> QED
  BY <1>2, <1>10

\* With the answer a source has its connection to itself again, and has sent the
\* destination the whole range before it turns to the next one.
LEMMA AnswerReceived ==
  ASSUME ServedInv, ExInv, NEW s \in Nodes, SourceReceive(s)
  PROVE  ServedInv' /\ HadStays
<1>1. UNCHANGED <<man, dst, rangePipe>>
  BY DEF SourceReceive
<1>2. PICK d \in Nodes : Receives(s, d)
  BY ReceiveFacts
<1> USE DEF Receives
<1>3. Orders /\ Size(s, d) \in Nat /\ Line(s, d)
  BY <1>2, PairFacts DEF ServedInv
<1>4. /\ src[s].sent < Size(s, d) \/ src[s].sent = Size(s, d)
      /\ src'[s].pc \in {"transfer", "done"}
  <2>1. src[s].sent \in 0 .. Size(s, d) /\ Size(s, d) \in Nat
    BY <1>2, <1>3
  <2>2. src[s].sent < Size(s, d) \/ src[s].sent = Size(s, d)
    BY <2>1
  <2> QED
    BY <1>2, <2>2
<1>5. TransferShape'
  BY <1>1, <1>2 DEF ServedInv, TransferShape
<1>6. \A e \in Nodes : Size(s, e)' = Size(s, e)
  BY <1>1 DEF Size
<1>7. Orders'
  <2>1. Ranged' <=> Ranged
    BY <1>1 DEF Ranged
  <2>2. \A k \in Nodes : Order(k)' = Order(k) /\ (Ordered(k)' <=> Ordered(k))
    BY <1>1, <2>1 DEF Order, Ordered
  <2>3. \A k \in Nodes : /\ Transferring(k)' <=> Transferring(k)
                         /\ src'[k].request = src[k].request
    BY <1>2, <1>4 DEF Transferring
  <2> QED
    BY <1>1, <1>3, <2>1, <2>2, <2>3 DEF Orders
<1>8. CutStays
  BY <1>1 DEF CutStays
<1>9. \A k \in Nodes : Progress(k)'
  <2>1. CASE src[s].sent < Size(s, d)
    <3>1. Size(s, src[s].to)' = Size(s, d)
      BY <1>2, <1>6, <2>1
    <3>2. src'[s].to \in Nodes /\ src'[s].sent \in -1 .. Size(s, src[s].to)' - 1
      BY <1>2, <1>3, <2>1, <3>1
    <3> QED
      BY <1>2, <1>8, <2>1, <3>2, PlaceUnchanged DEF Progress, Transferring
  <2>2. CASE src[s].sent = Size(s, d) /\ d + 1 < NodeCount
    <3>1. d + 1 \in Nodes
      BY <2>2, CountsAssumption DEF Nodes
    <3>2. Size(s, d + 1) \in Nat
      BY <1>2, <3>1, PairFacts
    <3>3. Size(s, src[s].to)' = Size(s, d + 1)
      BY <1>2, <1>6, <2>2, <3>1
    <3>4. src'[s].to \in Nodes /\ src'[s].sent \in -1 .. Size(s, src[s].to)' - 1
      BY <1>2, <2>2, <3>1, <3>2, <3>3
    <3> QED
      BY <1>2, <1>8, <2>2, <3>4, PlaceUnchanged DEF Progress, Transferring
  <2>3. CASE src[s].sent = Size(s, d) /\ ~ (d + 1 < NodeCount)
    <3>1. d + 1 = NodeCount
      BY <2>3, CountsAssumption DEF Nodes
    <3> QED
      BY <1>2, <1>8, <2>3, <3>1, PlaceUnchanged DEF Progress, Transferring
  <2> QED
    BY <1>4, <2>1, <2>2, <2>3
<1>10. Line(s, d)' /\ Got(s, d)' = Got(s, d) /\ (Announced(s, d)' <=> Announced(s, d))
  <2>1. ~ (dst[d].pc = "write" /\ dst[d].client = s)
    BY <1>2, <1>3 DEF Line, InHand, Replied
  <2>2. Line(s, d)'
    BY <1>1, <1>2, <1>4, <2>1 DEF Line, Serving
  <2>3. /\ ~ Header(s, d) /\ OnTheWay(s, d) = 0
        /\ ~ Header(s, d)' /\ OnTheWay(s, d)' = 0
    BY <1>2 DEF Header, OnTheWay, Replied, Fresh
  <2>4. Got(s, d) = src[s].sent /\ Announced(s, d)
    BY <1>2, <1>3, <2>3 DEF Got, Announced, Nodes
  <2>5. CASE src[s].sent < Size(s, d)
    BY <1>2, <1>3, <2>2, <2>3, <2>4, <2>5 DEF Got, Announced, Nodes
  <2>6. CASE src[s].sent = Size(s, d)
    <3>1. src'[s].to > d
      BY <1>2, <2>6 DEF Nodes
    <3>2. Got(s, d)' = Size(s, d) /\ Announced(s, d)'
      BY <1>6, <3>1 DEF Got, Announced
    <3> QED
      BY <2>2, <2>4, <2>6, <3>2
  <2> QED
    BY <1>4, <2>5, <2>6
<1>11. ASSUME NEW k \in Nodes, NEW e \in Nodes
       PROVE  Line(k, e)' /\ Got(k, e)' = Got(k, e) /\ (Announced(k, e)' <=> Announced(k, e))
  <2>1. CASE k = s /\ e = d
    BY <1>10, <2>1
  <2>2. CASE k = s /\ e # d
    <3>1. ranges'[s][e] = ranges[s][e] /\ Idle(s, e)
      BY <1>2, <2>2 DEF Idle, Serving
    <3>2. Idle(s, e)' /\ (src'[s].to > e <=> src[s].to > e)
      <4>1. CASE src[s].sent < Size(s, d)
        BY <1>2, <1>4, <2>2, <4>1 DEF Idle, Serving
      <4>2. CASE src[s].sent = Size(s, d)
        BY <1>2, <1>4, <2>2, <4>2 DEF Idle, Serving, Nodes
      <4> QED
        BY <1>4, <4>1, <4>2
    <3> QED
      BY <1>1, <2>2, <3>1, <3>2, IdleUnchanged
  <2>3. CASE k # s
    <3>1. PairStays(k, e)
      BY <1>1, <1>2, <2>3 DEF PairStays
    <3> QED
      BY <1>8, <3>1, PairUnchanged
  <2> QED
    BY <2>1, <2>2, <2>3
<1>12. ASSUME NEW e \in Nodes
       PROVE  Counted(e)' /\ LoopOver(e)' /\ Had(e)' = Had(e)
  <2>1. Had(e)' = Had(e) /\ Awaited(e)' = Awaited(e) /\ Known(e)' = Known(e)
    BY <1>8, <1>11, CountsUnchanged
  <2>2. Counted(e) /\ LoopOver(e) /\ UNCHANGED dst
    BY <1>1 DEF ServedInv
  <2> QED
    BY <2>1, <2>2 DEF Counted, LoopOver
<1> QED
  BY <1>5, <1>7, <1>9, <1>11, <1>12 DEF ServedInv, HadStays

-----------------------------------------------------------------------------
\* While it reads, asks or checks the manager moves nothing of a range.
LEMMA ManagerPrepares ==
  ASSUME ServedInv, ExInv,
         \/ ManagerReadCrc \/ ManagerReadHeader \/ ManagerReadArray \/ ManagerAnalyze
         \/ ManagerAsk \/ ManagerHear \/ ManagerFault \/ ManagerReadResult
  PROVE  ServedInv' /\ HadStays
<1>1. {"pc", "told", "cut"} \subseteq DOMAIN man
  BY DEF ServedInv, TransferShape, ExInv, Shape
<1>2. UNCHANGED <<src, dst, rangePipe, ranges>> /\ DOMAIN man' = DOMAIN man /\ ManagerAside
  <2>1. CASE ManagerReadCrc
    BY <1>1, <2>1 DEF ManagerReadCrc, ManagerAside, Ranged
  <2>2. CASE ManagerReadHeader
    BY <1>1, <2>2 DEF ManagerReadHeader, ManagerAside, Ranged
  <2>3. CASE ManagerReadArray
    BY <1>1, <2>3 DEF ManagerReadArray, ManagerAside, Ranged
  <2>4. CASE ManagerAnalyze
    BY <1>1, <2>4 DEF ManagerAnalyze, ManagerAside, Ranged
  <2>5. CASE ManagerAsk
    BY <1>1, <2>5 DEF ManagerAsk, ManagerAside, Ranged
  <2>6. CASE ManagerHear
    BY <1>1, <2>6 DEF ManagerHear, ManagerAside, Ranged
  <2>7. CASE ManagerFault
    BY <1>1, <2>7 DEF ManagerFault, ManagerAside, Ranged
  <2>8. CASE ManagerReadResult
    BY <1>1, <2>8 DEF ManagerReadResult, ManagerAside, Ranged
  <2> QED
    BY <2>1, <2>2, <2>3, <2>4, <2>5, <2>6, <2>7, <2>8
<1>3. TransferShape'
  BY <1>2 DEF ServedInv, TransferShape
<1>4. \A s \in Nodes : SourceAside(s) /\ DestAside(s)
  BY <1>2 DEF SourceAside, DestAside
<1> QED
  BY <1>2, <1>3, <1>4, AsidePreserves

\* When the ranges become known no source has begun to send.
LEMMA RangesKnown ==
  ASSUME ServedInv, ExInv, ManagerPartition
  PROVE  ServedInv' /\ HadStays
<1>1. man.pc = "partition" /\ UNCHANGED <<src, dst, rangePipe, ranges>>
  BY DEF ManagerPartition
<1>2. PICK cut \in Cuts : man' = [man EXCEPT !.pc = "tell", !.cut = cut]
  BY DEF ManagerPartition
<1>3. DOMAIN man' = DOMAIN man /\ man'.pc = "tell" /\ man'.cut = cut /\ man'.told = man.told
  BY <1>2 DEF ServedInv, TransferShape, ExInv, Shape
<1>4. ~ Ranged /\ CutStays
  BY <1>1 DEF Ranged, CutStays
<1>5. Orders
  BY DEF ServedInv
<1>6. \A s \in Nodes : rangePipe[s] = <<>> /\ ~ Transferring(s)
  BY <1>4, <1>5 DEF Orders, Ordered
<1>7. TransferShape'
  BY <1>1, <1>3 DEF ServedInv, TransferShape
<1>8. Orders'
  <2>1. man'.told = 0 /\ 0 < NodeCount /\ man'.cut \in Cuts /\ Ranged'
    BY <1>3, <1>4, <1>5, CountsAssumption DEF Orders, Ranged
  <2>2. man'.told \in 0 .. NodeCount
    BY <2>1, CountsAssumption
  <2>3. \A s \in Nodes : rangePipe'[s] = <<>> /\ ~ Transferring(s)'
    BY <1>1, <1>6 DEF Transferring
  <2> QED
    BY <2>1, <2>2, <2>3 DEF Orders
<1>9. \A s, d \in Nodes : PairStays(s, d)
  BY <1>1 DEF PairStays
<1>10. \A s, d \in Nodes : /\ Line(s, d)'
                           /\ Got(s, d)' = Got(s, d)
                           /\ Announced(s, d)' <=> Announced(s, d)
  BY <1>4, <1>9, PairUnchanged
<1>11. \A s \in Nodes : Progress(s)'
  BY <1>1, <1>4, PlaceUnchanged
<1>12. ASSUME NEW d \in Nodes
       PROVE  Counted(d)' /\ LoopOver(d)' /\ Had(d)' = Had(d)
  <2>1. Had(d)' = Had(d) /\ Awaited(d)' = Awaited(d) /\ Known(d)' = Known(d)
    BY <1>4, <1>10, CountsUnchanged
  <2>2. Counted(d) /\ LoopOver(d) /\ UNCHANGED dst
    BY <1>1 DEF ServedInv
  <2> QED
    BY <2>1, <2>2 DEF Counted, LoopOver
<1> QED
  BY <1>7, <1>8, <1>10, <1>11, <1>12 DEF ServedInv, HadStays

\* The manager tells the sources, in their order, what each one has to send.
LEMMA RangesTold ==
  ASSUME ServedInv, ExInv, ManagerTell
  PROVE  ServedInv' /\ HadStays
<1> USE CountsAssumption
<1>1. /\ man.pc = "tell" /\ UNCHANGED <<src, dst, ranges>>
      /\ man' = [man EXCEPT !.told = @ + 1,
                            !.pc = IF man.told + 1 = NodeCount THEN "results" ELSE @]
  BY DEF ManagerTell
<1>2. Orders
  BY DEF ServedInv
<1>3. PICK s \in Nodes : s = man.told
  BY <1>1, <1>2 DEF Orders, Nodes
<1>4. man.hists[s + 1].src = s
  <2>1. man.hists = [i \in 1 .. NodeCount |-> [src |-> i - 1, of |-> i - 1]]
    BY <1>1 DEF ExInv, Complete, Collecting
  <2>2. PICK j \in 1 .. NodeCount : j = s + 1 /\ j - 1 = s
    BY DEF Nodes
  <2>3. man.hists[j] = [src |-> j - 1, of |-> j - 1]
    BY <2>1
  <2> QED
    BY <2>2, <2>3
<1>5. RequestFor(man.told) = Order(s)
  BY <1>3, <1>4 DEF RequestFor, Order
<1>6. rangePipe' = [rangePipe EXCEPT ![s] = Append(@, Order(s))]
  BY <1>3, <1>4, <1>5 DEF ManagerTell
<1>7. /\ DOMAIN man' = DOMAIN man /\ man'.cut = man.cut /\ man'.told = s + 1
      /\ man'.pc = IF s + 1 = NodeCount THEN "results" ELSE "tell"
  BY <1>1, <1>3 DEF ServedInv, TransferShape, ExInv, Shape
<1>8. rangePipe[s] = <<>> /\ ~ Transferring(s)
  <2>1. ~ Ordered(s)
    BY <1>1, <1>3 DEF Ordered, Nodes
  <2> QED
    BY <1>2, <2>1 DEF Orders
<1>9. /\ DOMAIN rangePipe' = Nodes
      /\ rangePipe'[s] = <<Order(s)>>
      /\ \A k \in Nodes : k # s => rangePipe'[k] = rangePipe[k]
  BY <1>6, <1>8 DEF ServedInv, TransferShape
<1>10. TransferShape'
  BY <1>1, <1>7, <1>9 DEF ServedInv, TransferShape
<1>11. CutStays
  BY <1>7 DEF CutStays
<1>12. Orders'
  <2>1. Ranged /\ Ranged'
    BY <1>1, <1>7 DEF Ranged
  <2>2. man'.told \in 0 .. NodeCount /\ (man'.pc = "tell" => man'.told < NodeCount)
    BY <1>7 DEF Nodes
  <2>3. \A k \in Nodes : /\ Order(k)' = Order(k)
                         /\ Transferring(k)' <=> Transferring(k)
    BY <1>1, <1>7 DEF Order, Transferring
  <2>4. Ordered(s)' /\ \A k \in Nodes : Ordered(k) => Ordered(k)'
    BY <1>1, <1>3, <1>7, <2>1 DEF Ordered, Nodes
  <2>5. ASSUME NEW k \in Nodes
        PROVE  /\ rangePipe'[k] # <<>> =>
                    /\ Ordered(k)' /\ rangePipe'[k] = <<Order(k)'>>
                    /\ ~ Transferring(k)'
               /\ Transferring(k)' => Ordered(k)' /\ src'[k].request = Order(k)'
    <3>1. CASE k = s
      BY <1>8, <1>9, <2>3, <2>4, <3>1
    <3>2. CASE k # s
      BY <1>1, <1>2, <1>9, <2>3, <2>4, <3>2 DEF Orders
    <3> QED
      BY <3>1, <3>2
  <2>6. man'.cut \in Cuts
    BY <1>2, <1>7, <2>1 DEF Orders
  <2> QED
    BY <2>1, <2>2, <2>5, <2>6 DEF Orders
<1>13. \A k, d \in Nodes : PairStays(k, d)
  BY <1>1 DEF PairStays
<1>14. \A k, d \in Nodes : /\ Line(k, d)'
                           /\ Got(k, d)' = Got(k, d)
                           /\ Announced(k, d)' <=> Announced(k, d)
  BY <1>11, <1>13, PairUnchanged
<1>15. \A k \in Nodes : Progress(k)'
  BY <1>1, <1>11, PlaceUnchanged
<1>16. ASSUME NEW d \in Nodes
       PROVE  Counted(d)' /\ LoopOver(d)' /\ Had(d)' = Had(d)
  <2>1. Had(d)' = Had(d) /\ Awaited(d)' = Awaited(d) /\ Known(d)' = Known(d)
    BY <1>11, <1>14, CountsUnchanged
  <2>2. Counted(d) /\ LoopOver(d) /\ UNCHANGED dst
    BY <1>1 DEF ServedInv
  <2> QED
    BY <2>1, <2>2 DEF Counted, LoopOver
<1> QED
  BY <1>10, <1>12, <1>14, <1>15, <1>16 DEF ServedInv, HadStays

-----------------------------------------------------------------------------
\* What destinations do does not touch what the sources are told.
LEMMA OrdersStay ==
  ASSUME ServedInv, UNCHANGED <<src, man, rangePipe>>
  PROVE  Orders' /\ CutStays /\ \A s \in Nodes : Progress(s)'
<1>1. Orders
  BY DEF ServedInv
<1>2. Ranged' <=> Ranged
  BY DEF Ranged
<1>3. \A k \in Nodes : /\ Order(k)' = Order(k) /\ (Ordered(k)' <=> Ordered(k))
                       /\ Transferring(k)' <=> Transferring(k)
  BY <1>2 DEF Order, Ordered, Transferring
<1>4. CutStays
  BY DEF CutStays
<1> QED
  BY <1>1, <1>2, <1>3, <1>4, PlaceUnchanged DEF Orders

\* What has been counted of a destination are numbers.
LEMMA CountTypes ==
  ASSUME ServedInv, NEW d \in Nodes
  PROVE  /\ Len(dst[d].array) \in Nat /\ dst[d].waiting \in Nat /\ dst[d].ranges \in Nat
         /\ IsFiniteSet(Had(d)) /\ IsFiniteSet(Awaited(d)) /\ IsFiniteSet(Known(d))
<1>1. /\ IsFiniteSet(Had(d)) /\ IsFiniteSet(Awaited(d)) /\ IsFiniteSet(Known(d))
  BY ItemsFinite, NodesFinite, FS_Subset DEF Had, Awaited, Known
<1> QED
  BY <1>1, FS_CardinalityType DEF ServedInv, Counted

\* Destination d has read message m of source s.
Reads(s, d, m) ==
  /\ s \in Nodes
  /\ dst[d].pc = "read"
  /\ Serving(s, d) /\ Sent(s, m)
  /\ ranges[s][d] = [turn |-> "recv", request |-> <<m>>, reply |-> <<>>]
  /\ DOMAIN ranges' = Nodes
  /\ \A k \in Nodes : DOMAIN ranges'[k] = Nodes
  /\ ranges'[s][d] = [turn |-> "recv", request |-> <<>>, reply |-> <<>>]
  /\ \A k, e \in Nodes : k # s \/ e # d => ranges'[k][e] = ranges[k][e]
  /\ DOMAIN dst' = Nodes /\ DOMAIN dst'[d] = DOMAIN dst[d]
  /\ dst'[d].pc = "write" /\ dst'[d].client = s
  /\ \A e \in Nodes : e # d => dst'[e] = dst[e]
  /\ m.type = "EPACKET_RANGE" => /\ dst'[d].array = dst[d].array
                                 /\ dst'[d].waiting = dst[d].waiting + m.size
                                 /\ dst'[d].ranges = dst[d].ranges + 1
  /\ m.type # "EPACKET_RANGE" => /\ dst'[d].array = dst[d].array \o m.items
                                 /\ dst'[d].waiting = dst[d].waiting
                                 /\ dst'[d].ranges = dst[d].ranges

\* What a destination reads is the message that the source waits for an answer to.
LEMMA ReadFacts ==
  ASSUME ServedInv, NEW d \in Nodes, DestRead(d)
  PROVE  \E s, m : Reads(s, d, m)
<1>1. PICK s \in Nodes :
        /\ Requested(ranges[s][d])
        /\ ranges' = [ranges EXCEPT ![s][d] = Take(@)]
        /\ LET m == ranges[s][d].request[1] IN
           dst' = IF m.type = "EPACKET_RANGE"
                  THEN [dst EXCEPT ![d].pc = "write", ![d].client = s,
                                   ![d].waiting = @ + m.size, ![d].ranges = @ + 1]
                  ELSE [dst EXCEPT ![d].pc = "write", ![d].client = s,
                                   ![d].array = @ \o m.items]
  BY Zenon DEF DestRead
<1>2. Line(s, d)
  BY DEF ServedInv
<1>3. Serving(s, d) /\ Unread(s, d)
  <2>1. ranges[s][d].request # <<>>
    BY <1>1 DEF Requested
  <2>2. Serving(s, d)
    BY <1>2, <2>1 DEF Line, Fresh
  <2>3. ~ InHand(s, d) /\ ~ Replied(s, d)
    BY <2>1 DEF InHand, Replied
  <2> QED
    BY <1>2, <2>2, <2>3 DEF Line
<1>4. PICK m : m = ranges[s][d].request[1]
  OBVIOUS
<1>5. /\ Sent(s, m)
      /\ ranges[s][d] = [turn |-> "recv", request |-> <<m>>, reply |-> <<>>]
  BY <1>3, <1>4 DEF Unread
<1>6. Take(ranges[s][d]) = [turn |-> "recv", request |-> <<>>, reply |-> <<>>]
  BY <1>5 DEF Take
<1>7. /\ DOMAIN ranges' = Nodes
      /\ \A k \in Nodes : DOMAIN ranges'[k] = Nodes
      /\ ranges'[s][d] = [turn |-> "recv", request |-> <<>>, reply |-> <<>>]
      /\ \A k, e \in Nodes : k # s \/ e # d => ranges'[k][e] = ranges[k][e]
  BY <1>1, <1>6 DEF ServedInv, TransferShape
<1>8. dst[d].pc = "read"
  BY DEF DestRead
<1>9. /\ DOMAIN dst' = Nodes /\ DOMAIN dst'[d] = DOMAIN dst[d]
      /\ dst'[d].pc = "write" /\ dst'[d].client = s
      /\ \A e \in Nodes : e # d => dst'[e] = dst[e]
      /\ m.type = "EPACKET_RANGE" => /\ dst'[d].array = dst[d].array
                                     /\ dst'[d].waiting = dst[d].waiting + m.size
                                     /\ dst'[d].ranges = dst[d].ranges + 1
      /\ m.type # "EPACKET_RANGE" => /\ dst'[d].array = dst[d].array \o m.items
                                     /\ dst'[d].waiting = dst[d].waiting
                                     /\ dst'[d].ranges = dst[d].ranges
  <2>1. CASE m.type = "EPACKET_RANGE"
    <3>1. dst' = [dst EXCEPT ![d].pc = "write", ![d].client = s,
                             ![d].waiting = @ + m.size, ![d].ranges = @ + 1]
      BY <1>1, <1>4, <2>1
    <3> QED
      BY <2>1, <3>1 DEF ServedInv, TransferShape
  <2>2. CASE m.type # "EPACKET_RANGE"
    <3>1. dst' = [dst EXCEPT ![d].pc = "write", ![d].client = s,
                             ![d].array = @ \o m.items]
      BY <1>1, <1>4, <2>2
    <3> QED
      BY <2>2, <3>1 DEF ServedInv, TransferShape
  <2> QED
    BY <2>1, <2>2
<1>10. Reads(s, d, m)
  BY <1>3, <1>5, <1>7, <1>8, <1>9 DEF Reads
<1> QED
  BY Zenon, <1>10

\* The items on the way from s to d stand behind those that d has of s already.
Reached(s, d, m) == man.cut[d][s] + src[s].sent - Len(m.items)

\* With message m of source s destination d has its items, and nobody else has more.
Collects(s, d, m) ==
  /\ Reads(s, d, m)
  /\ \A e \in Nodes : e # d => Had(e)' = Had(e)
  /\ m.type = "EPACKET_RANGE" => Had(d)' = Had(d)
  /\ m.type # "EPACKET_RANGE" =>
       /\ Len(m.items) \in Nat
       /\ Reached(s, d, m) \in Nat /\ Reached(s, d, m) + Len(m.items) \in 0 .. ItemsCount
       /\ Had(d)' = Had(d) \cup Block(s, Reached(s, d, m), Reached(s, d, m) + Len(m.items))
       /\ \A p \in Had(d) :
            p \notin Block(s, Reached(s, d, m), Reached(s, d, m) + Len(m.items))

\* A destination counts what it reads: a range it has to wait for, or items of one.
LEMMA MessageRead ==
  ASSUME ServedInv, NEW d \in Nodes, DestRead(d)
  PROVE  ServedInv' /\ \E s, m : Collects(s, d, m)
<1>1. UNCHANGED <<src, man, rangePipe>>
  BY DEF DestRead
<1>2. PICK s, m : Reads(s, d, m)
  BY ReadFacts
<1>3. Orders' /\ CutStays /\ \A k \in Nodes : Progress(k)'
  BY <1>1, OrdersStay
<1>4. TransferShape'
  BY <1>1, <1>2 DEF ServedInv, TransferShape, Reads, DestPcs
<1>5. ASSUME NEW k \in Nodes, NEW e \in Nodes, k # s \/ e # d
      PROVE  PairStays(k, e)
  <2>1. CASE e # d
    BY <1>1, <1>2, <2>1 DEF PairStays, Reads
  <2>2. CASE e = d /\ k # s
    BY <1>1, <1>2, <2>2 DEF PairStays, Reads
  <2> QED
    BY <1>5, <2>1, <2>2
<1>6. \A k, e \in Nodes : k # s \/ e # d => /\ Line(k, e)'
                                            /\ Got(k, e)' = Got(k, e)
                                            /\ Announced(k, e)' <=> Announced(k, e)
  BY <1>3, <1>5, PairUnchanged
<1>7. Line(s, d)'
  <2>1. InHand(s, d)' /\ Serving(s, d)'
    BY <1>1, <1>2 DEF InHand, Serving, Reads
  <2> QED
    BY <2>1 DEF Line
<1>8. ASSUME NEW e \in Nodes, e # d
      PROVE  Counted(e)' /\ LoopOver(e)' /\ Had(e)' = Had(e)
  <2>1. Had(e)' = Had(e) /\ Awaited(e)' = Awaited(e) /\ Known(e)' = Known(e)
    BY <1>3, <1>6, <1>8, CountsUnchanged
  <2>2. Counted(e) /\ LoopOver(e) /\ dst'[e] = dst[e]
    BY <1>2, <1>8 DEF ServedInv, Reads
  <2> QED
    BY <2>1, <2>2 DEF Counted, LoopOver
<1>9. /\ Ranged /\ man'.cut = man.cut /\ s \in Nodes /\ src[s].to = d
      /\ src[s].sent \in 0 .. Size(s, d) /\ Size(s, d) \in Nat
  <2>1. s \in Nodes /\ src[s].pc = "reply" /\ src[s].to = d /\ Progress(s) /\ Orders
    BY <1>2 DEF Reads, Serving, ServedInv
  <2> QED
    BY <1>1, <2>1, PairFacts DEF Progress, Orders, Ordered, Transferring
<1>10. /\ ranges[s][d].request # <<>> /\ ranges[s][d].request[1] = m
       /\ ~ Header(s, d)' /\ OnTheWay(s, d)' = 0
       /\ Size(s, d)' = Size(s, d)
  <2>1. ranges[s][d].request = <<m>> /\ ranges'[s][d].request = <<>>
    BY <1>2 DEF Reads
  <2> QED
    BY <1>1, <2>1 DEF Header, OnTheWay, Size
<1>11. Got(s, d)' = src[s].sent /\ Announced(s, d)'
  BY <1>1, <1>9, <1>10 DEF Got, Announced, Nodes
<1>12. Counted(d) /\ Len(dst[d].array) \in Nat
  BY CountTypes DEF ServedInv
<1>13. CASE src[s].sent = 0
  <2>1. m.type = "EPACKET_RANGE" /\ m.size = Size(s, d)
    BY <1>2, <1>9, <1>13 DEF Reads, Sent, RangeHeader
  <2>2. Header(s, d) /\ OnTheWay(s, d) = 0
    BY <1>10, <2>1 DEF Header, OnTheWay
  <2>3. ~ Announced(s, d) /\ Got(s, d) = 0
    BY <1>9, <1>13, <2>2 DEF Got, Announced, Nodes
  <2>4. \A k \in Nodes : Got(k, d)' = Got(k, d)
    BY <1>6, <1>11, <1>13, <2>3
  <2>5. Had(d)' = Had(d)
    BY <1>9, <2>4 DEF Had
  <2>6. /\ Cardinality(Awaited(d)') = Cardinality(Awaited(d)) + Size(s, d)
        /\ Cardinality(Known(d)') = Cardinality(Known(d)) + 1
    BY <1>6, <1>9, <1>11, <2>3, HeaderCounts
  <2>7. Counted(d)' /\ LoopOver(d)'
    BY <1>2, <1>12, <2>1, <2>5, <2>6 DEF Counted, LoopOver, Reads
  <2>8. Collects(s, d, m)
    BY <1>2, <1>8, <2>1, <2>5 DEF Collects
  <2> QED
    BY <1>3, <1>4, <1>6, <1>7, <1>8, <2>7, <2>8 DEF ServedInv
<1>14. CASE src[s].sent > 0
  <2>1. m.type = "EPACKET_RANGE_PART" /\ Len(m.items) \in 1 .. src[s].sent
    BY <1>2, <1>14 DEF Reads, Sent
  <2>2. ~ Header(s, d) /\ OnTheWay(s, d) = Len(m.items)
    BY <1>10, <2>1 DEF Header, OnTheWay
  <2>3. Announced(s, d) /\ Got(s, d) = src[s].sent - Len(m.items)
    BY <1>9, <1>14, <2>2 DEF Got, Announced, Nodes
  <2>4. \A k \in Nodes : Announced(k, d)' <=> Announced(k, d)
    BY <1>6, <1>11, <2>3
  <2>5. Awaited(d)' = Awaited(d) /\ Known(d)' = Known(d)
    BY <1>9, <2>4 DEF Awaited, Known
  <2>6. /\ Len(m.items) \in Nat /\ Got(s, d)' = Got(s, d) + Len(m.items)
        /\ Got(s, d) + Len(m.items) <= Size(s, d)
    BY <1>9, <1>11, <2>1, <2>3
  <2>7. /\ Cardinality(Had(d)') = Cardinality(Had(d)) + Len(m.items)
        /\ Had(d)' = Had(d) \cup Block(s, man.cut[d][s] + Got(s, d),
                                          man.cut[d][s] + Got(s, d) + Len(m.items))
        /\ \A p \in Had(d) : p \notin Block(s, man.cut[d][s] + Got(s, d),
                                               man.cut[d][s] + Got(s, d) + Len(m.items))
        /\ man.cut[d][s] + Got(s, d) \in Nat
        /\ man.cut[d][s] + Got(s, d) + Len(m.items) \in 0 .. ItemsCount
    BY <1>6, <1>9, <2>6, PartCounts
  <2>8. Len(dst[d].array \o m.items) = Len(dst[d].array) + Len(m.items)
    BY <1>12, <2>6
  <2>9. Counted(d)' /\ LoopOver(d)'
    BY <1>2, <1>12, <2>1, <2>5, <2>7, <2>8 DEF Counted, LoopOver, Reads
  <2>10. Reached(s, d, m) = man.cut[d][s] + Got(s, d)
    <3>1. man.cut[d][s] \in Int
      BY <1>9, PairFacts
    <3> QED
      BY <1>9, <2>3, <2>6, <3>1 DEF Reached
  <2>11. Collects(s, d, m)
    <3>1. m.type # "EPACKET_RANGE"
      BY <2>1
    <3> QED
      BY <1>2, <1>8, <2>6, <2>7, <2>10, <3>1 DEF Collects
  <2> QED
    BY <1>3, <1>4, <1>6, <1>7, <1>8, <2>9, <2>11 DEF ServedInv
<1> QED
  BY <1>9, <1>13, <1>14

\* A destination answers what it read, and leaves its loop when nothing is missing.
LEMMA MessageAnswered ==
  ASSUME ServedInv, NEW d \in Nodes, DestWrite(d)
  PROVE  ServedInv' /\ HadStays
<1>1. dst[d].pc = "write" /\ UNCHANGED <<src, man, rangePipe>>
  BY DEF DestWrite
<1>2. Counted(d) /\ Len(dst[d].array) \in Nat /\ dst[d].waiting \in Nat /\ dst[d].ranges \in Nat
  BY CountTypes DEF ServedInv
<1>3. PICK s \in Nodes : s = dst[d].client
  BY <1>1, <1>2 DEF Counted
<1>4. Serving(s, d) /\ InHand(s, d)
  BY <1>1, <1>3 DEF ServedInv, Line
<1>5. Answer(ranges[s][d], "reply") = [turn |-> "recv", request |-> <<>>, reply |-> <<"reply">>]
  BY <1>4 DEF Answer, InHand
<1>6. /\ DOMAIN ranges' = Nodes
      /\ \A k \in Nodes : DOMAIN ranges'[k] = Nodes
      /\ ranges'[s][d] = [turn |-> "recv", request |-> <<>>, reply |-> <<"reply">>]
      /\ \A k, e \in Nodes : k # s \/ e # d => ranges'[k][e] = ranges[k][e]
  BY <1>3, <1>5 DEF DestWrite, ServedInv, TransferShape
<1>7. /\ DOMAIN dst' = Nodes /\ DOMAIN dst'[d] = DOMAIN dst[d]
      /\ dst'[d].array = dst[d].array /\ dst'[d].waiting = dst[d].waiting
      /\ dst'[d].ranges = dst[d].ranges
      /\ dst'[d].pc = IF \/ Len(dst[d].array) < dst[d].waiting
                         \/ dst[d].ranges < NodeCount
                      THEN "read" ELSE "sort"
      /\ \A e \in Nodes : e # d => dst'[e] = dst[e]
  BY DEF DestWrite, ServedInv, TransferShape
<1>8. Orders' /\ CutStays /\ \A k \in Nodes : Progress(k)'
  BY <1>1, OrdersStay
<1>9. TransferShape'
  BY <1>1, <1>6, <1>7 DEF ServedInv, TransferShape, DestPcs
<1>10. dst'[d].pc # "write"
  BY <1>7
<1>11. ASSUME NEW k \in Nodes, NEW e \in Nodes, k # s \/ e # d
       PROVE  PairStays(k, e)
  <2>1. CASE e # d
    BY <1>1, <1>6, <1>7, <2>1 DEF PairStays
  <2>2. CASE e = d /\ k # s
    BY <1>1, <1>3, <1>6, <1>10, <2>2 DEF PairStays
  <2> QED
    BY <1>11, <2>1, <2>2
<1>12. Line(s, d)' /\ Got(s, d)' = Got(s, d) /\ (Announced(s, d)' <=> Announced(s, d))
  <2>1. Serving(s, d)' /\ Replied(s, d)'
    BY <1>1, <1>4, <1>6 DEF Serving, Replied
  <2>2. Line(s, d)'
    BY <1>10, <2>1 DEF Line
  <2>3. /\ ~ Header(s, d) /\ OnTheWay(s, d) = 0
        /\ ~ Header(s, d)' /\ OnTheWay(s, d)' = 0
    BY <1>4, <1>6 DEF Header, OnTheWay, InHand
  <2> QED
    BY <1>1, <2>2, <2>3 DEF Got, Announced, Size
<1>13. \A k, e \in Nodes : /\ Line(k, e)'
                           /\ Got(k, e)' = Got(k, e)
                           /\ Announced(k, e)' <=> Announced(k, e)
  BY <1>8, <1>11, <1>12, PairUnchanged
<1>14. ASSUME NEW e \in Nodes
       PROVE  Counted(e)' /\ LoopOver(e)' /\ Had(e)' = Had(e)
  <2>1. Had(e)' = Had(e) /\ Awaited(e)' = Awaited(e) /\ Known(e)' = Known(e)
    BY <1>8, <1>13, CountsUnchanged
  <2>2. Counted(e) /\ LoopOver(e)
    BY DEF ServedInv
  <2>3. CASE e = d
    <3>1. Counted(d)'
      BY <1>7, <1>10, <2>1, <2>2, <2>3 DEF Counted
    <3>2. LoopOver(d)'
      BY <1>2, <1>7, CountsAssumption DEF LoopOver
    <3> QED
      BY <2>1, <2>3, <3>1, <3>2
  <2>4. CASE e # d
    BY <1>7, <2>1, <2>2, <2>4 DEF Counted, LoopOver
  <2> QED
    BY <2>1, <2>3, <2>4
<1> QED
  BY <1>8, <1>9, <1>13, <1>14 DEF ServedInv, HadStays

\* A destination that saves its items goes on, whether or not it could open the file, or
\* is aborted when the file did not take them all.
LEMMA OutcomeCases ==
  ASSUME NEW file, NEW items, NEW end \in Outcomes(file, items)
  PROVE  \/ end.pc = "report" /\ end.file \in Saved(file, items)
         \/ MayFail /\ end.pc = "aborted" /\ end.file \in Torn(file, items)
BY DEF Outcomes

\* Behind its loop a destination changes nothing of what it received.
LEMMA DestEnds ==
  ASSUME ServedInv, NEW d \in Nodes, DestSave(d) \/ DestReport(d)
  PROVE  ServedInv' /\ HadStays
<1>1. /\ UNCHANGED <<src, man, rangePipe, ranges>>
      /\ DOMAIN dst' = Nodes /\ DOMAIN dst'[d] = DOMAIN dst[d]
      /\ dst'[d].array = dst[d].array /\ dst'[d].waiting = dst[d].waiting
      /\ dst'[d].ranges = dst[d].ranges /\ dst'[d].client = dst[d].client
      /\ {dst[d].pc, dst'[d].pc} \subseteq {"sort", "report", "done", "aborted"}
      /\ \A e \in Nodes : e # d => dst'[e] = dst[e]
  <2>1. CASE DestSave(d)
    <3>1. PICK end \in Outcomes(output[d], Sorted(dst[d].array)) :
            dst' = [dst EXCEPT ![d].pc = end.pc]
      BY <2>1 DEF DestSave
    <3>2. end.pc \in {"report", "aborted"}
      BY OutcomeCases
    <3> QED
      BY <2>1, <3>1, <3>2 DEF DestSave, ServedInv, TransferShape
  <2>2. CASE DestReport(d)
    BY <2>2 DEF DestReport, ServedInv, TransferShape
  <2> QED
    BY <2>1, <2>2
<1>2. TransferShape'
  BY <1>1 DEF ServedInv, TransferShape, DestPcs
<1>3. ManagerAside /\ \A s \in Nodes : SourceAside(s)
  BY <1>1 DEF ManagerAside, SourceAside
<1>4. ASSUME NEW e \in Nodes
      PROVE  DestAside(e)
  <2>1. CASE e = d
    BY <1>1, <2>1 DEF DestAside
  <2>2. CASE e # d
    BY <1>1, <2>2 DEF DestAside
  <2> QED
    BY <2>1, <2>2
<1> QED
  BY <1>1, <1>2, <1>3, <1>4, AsidePreserves

\* A step that changes none of it keeps the invariant.
LEMMA NothingMoves ==
  ASSUME ServedInv, UNCHANGED vars
  PROVE  ServedInv' /\ HadStays
<1>1. UNCHANGED <<src, man, dst, rangePipe, ranges>>
  BY DEF vars
<1>2. TransferShape'
  BY <1>1 DEF ServedInv, TransferShape
<1>3. ManagerAside /\ \A k \in Nodes : SourceAside(k) /\ DestAside(k)
  BY <1>1 DEF ManagerAside, SourceAside, DestAside
<1> QED
  BY <1>1, <1>2, <1>3, AsidePreserves

-----------------------------------------------------------------------------
\* The counting invariant holds in every state of the protocol, for any number of
\* nodes and items and any size of the parts, in whichever order the parts of the
\* sources come in, and whether or not sources or the analysis fail.
THEOREM ServedInvariance == Steps => []ServedInv
<1>1. ServedInv /\ ExInv /\ [Next]_vars => ServedInv'
  <2> SUFFICES ASSUME ServedInv, ExInv, [Next]_vars
               PROVE  ServedInv'
    OBVIOUS
  <2>1. ASSUME NEW s \in Nodes, SourceStep(s)
        PROVE  ServedInv'
    BY <2>1, SourcePrepares, RequestRead, RangeSent, AnswerReceived DEF SourceStep
  <2>2. CASE ManagerStep
    BY <2>2, ManagerPrepares, RangesKnown, RangesTold DEF ManagerStep
  <2>3. ASSUME NEW d \in Nodes, DestStep(d)
        PROVE  ServedInv'
    BY <2>3, MessageRead, MessageAnswered, DestEnds DEF DestStep
  <2>4. CASE UNCHANGED vars
    BY <2>4, NothingMoves
  <2> QED
    BY <2>1, <2>2, <2>3, <2>4 DEF Next
<1> QED
  BY ServedInit, ExchangeInvariance, <1>1, PTL DEF Steps

\* A destination has, of what it awaits, some items that the analysis gave it.
LEMMA HadIsGiven ==
  ASSUME ServedInv, NEW d \in Nodes, Ranged
  PROVE  /\ Had(d) \subseteq Awaited(d) /\ Awaited(d) \subseteq Given(man.cut, d)
         /\ IsFiniteSet(Given(man.cut, d))
         /\ Cardinality(Given(man.cut, d)) = ItemsCount
<1>1. IsFiniteSet(Given(man.cut, d))
  BY ItemsFinite, FS_Subset DEF Given
<1>2. Cardinality(Given(man.cut, d)) = ItemsCount
  BY PairFacts, CutFacts
<1>3. Awaited(d) \subseteq Given(man.cut, d)
  BY DEF Awaited, Given
<1>4. ASSUME NEW p \in Had(d)
      PROVE  p \in Awaited(d)
  <2>1. /\ p[1] \in Nodes /\ p[2] \in Nat
        /\ Got(p[1], d) > 0 /\ man.cut[d][p[1]] < p[2]
        /\ p[2] <= man.cut[d][p[1]] + Got(p[1], d)
    BY DEF Had
  <2>2. /\ Announced(p[1], d) /\ Got(p[1], d) \in Nat /\ Got(p[1], d) <= Size(p[1], d)
        /\ man.cut[d][p[1]] \in Nat /\ Size(p[1], d) \in Nat
        /\ man.cut[d + 1][p[1]] = man.cut[d][p[1]] + Size(p[1], d)
    BY <2>1, PairFacts, CountsAssumption
  <2> QED
    BY <2>1, <2>2 DEF Had, Awaited
<1> QED
  BY <1>1, <1>2, <1>3, <1>4

\* A destination never has more than its items.
LEMMA NoneTooMany ==
  ASSUME ServedInv, NEW d \in Nodes
  PROVE  Len(dst[d].array) <= ItemsCount
<1>1. Counted(d)
  BY DEF ServedInv
<1>2. CASE Ranged
  BY <1>1, <1>2, HadIsGiven, FS_Subset, FS_CardinalityType DEF Counted
<1>3. CASE ~ Ranged
  <2>1. Had(d) = {}
    BY <1>3, PairFacts DEF Had
  <2>2. Len(dst[d].array) = 0
    BY <1>1, <2>1, FS_EmptySet DEF Counted
  <2> QED
    BY <2>2, CountsAssumption
<1> QED
  BY <1>2, <1>3

\* When it leaves its loop it has all that the analysis gave it.
LEMMA AllReceived ==
  ASSUME ServedInv, NEW d \in Nodes, dst[d].pc \in {"sort", "report", "done", "aborted"}
  PROVE  /\ Ranged /\ Len(dst[d].array) = ItemsCount /\ Had(d) = Given(man.cut, d)
         /\ \A s \in Nodes : Announced(s, d)
<1>1. Counted(d) /\ LoopOver(d)
  BY DEF ServedInv
<1>2. Len(dst[d].array) <= ItemsCount
  BY NoneTooMany
<1>3. Len(dst[d].array) >= dst[d].waiting /\ dst[d].ranges >= NodeCount
  BY <1>1 DEF LoopOver
<1>4. Known(d) = Nodes
  <2>1. Known(d) \in SUBSET Nodes
    BY DEF Known
  <2>2. Cardinality(Known(d)) <= NodeCount
        /\ (NodeCount = Cardinality(Known(d)) => Nodes = Known(d))
    BY <2>1, NodesFinite, FS_Subset
  <2>3. Cardinality(Known(d)) >= NodeCount /\ Cardinality(Known(d)) \in Nat
    BY <1>1, <1>3, CountTypes DEF Counted
  <2> QED
    BY <2>2, <2>3, CountsAssumption
<1>5. \A s \in Nodes : Announced(s, d)
  BY <1>4 DEF Known
<1>6. Ranged
  BY <1>5, PairFacts
<1>7. Awaited(d) = Given(man.cut, d)
  BY <1>5 DEF Awaited, Given
<1>8. dst[d].waiting = ItemsCount
  BY <1>1, <1>6, <1>7, HadIsGiven DEF Counted
<1>9. Len(dst[d].array) = ItemsCount
  BY <1>2, <1>3, <1>8, CountTypes, CountsAssumption
<1>10. Had(d) = Given(man.cut, d)
  <2>1. /\ Had(d) \in SUBSET Given(man.cut, d) /\ IsFiniteSet(Given(man.cut, d))
        /\ Cardinality(Given(man.cut, d)) = Cardinality(Had(d))
    BY <1>1, <1>6, <1>9, HadIsGiven DEF Counted
  <2> QED
    BY <2>1, FS_Subset
<1> QED
  BY <1>5, <1>6, <1>9, <1>10

\* So the counting invariant says that destinations are served.
LEMMA AllServed ==
  ASSUME ServedInv
  PROVE  DestsServed
<1> SUFFICES ASSUME NEW d \in Nodes
             PROVE  /\ Len(dst[d].array) <= ItemsCount
                    /\ dst[d].pc \in {"sort", "report", "done", "aborted"} =>
                         /\ Len(dst[d].array) = ItemsCount
                         /\ \A s \in Nodes :
                              \/ src[s].pc = "done"
                              \/ src[s].to > d
                              \/ /\ src[s].to = d /\ src[s].pc = "reply"
                                 /\ Answered(ranges[s][d])
  BY DEF DestsServed, ServedInv, TransferShape, DestPcs
<1>1. Len(dst[d].array) <= ItemsCount
  BY NoneTooMany
<1>2. ASSUME dst[d].pc \in {"sort", "report", "done", "aborted"}
      PROVE  /\ Len(dst[d].array) = ItemsCount
             /\ \A s \in Nodes :
                  \/ src[s].pc = "done"
                  \/ src[s].to > d
                  \/ /\ src[s].to = d /\ src[s].pc = "reply"
                     /\ Answered(ranges[s][d])
  <2>1. /\ Ranged /\ Len(dst[d].array) = ItemsCount /\ Had(d) = Given(man.cut, d)
        /\ \A s \in Nodes : Announced(s, d)
    BY <1>2, AllReceived
  <2>2. ASSUME NEW s \in Nodes
        PROVE  \/ src[s].pc = "done"
               \/ src[s].to > d
               \/ /\ src[s].to = d /\ src[s].pc = "reply"
                  /\ Answered(ranges[s][d])
    <3>1. /\ Got(s, d) \in Nat /\ Size(s, d) \in Nat /\ Got(s, d) <= Size(s, d)
          /\ man.cut[d][s] \in 0 .. ItemsCount /\ man.cut[d + 1][s] \in 0 .. ItemsCount
          /\ man.cut[d + 1][s] = man.cut[d][s] + Size(s, d)
      BY <2>1, PairFacts
    <3>2. Got(s, d) = Size(s, d)
      <4> SUFFICES ASSUME Got(s, d) < Size(s, d) PROVE FALSE
        BY <3>1
      <4>1. <<s, man.cut[d + 1][s]>> \in Given(man.cut, d)
        BY <3>1, CountsAssumption DEF Given
      <4>2. man.cut[d + 1][s] <= man.cut[d][s] + Got(s, d)
        BY <2>1, <4>1 DEF Had
      <4> QED
        BY <3>1, <4>2
    <3>3. Progress(s) /\ Line(s, d) /\ src[s].to \in 0 .. NodeCount /\ d \in Nat
      BY PairFacts DEF ServedInv, Nodes
    <3>4. CASE src[s].to > d
      BY <3>4
    <3>5. CASE src[s].to = d
      <4>1. /\ src[s].sent >= 0 /\ ~ Header(s, d)
            /\ src[s].sent - OnTheWay(s, d) = Size(s, d)
        <5>1. ~ (src[s].to > d)
          BY <3>3, <3>5
        <5>2. src[s].sent >= 0 /\ ~ Header(s, d)
          BY <2>1, <5>1 DEF Announced
        <5> QED
          BY <3>2, <3>5, <5>1, <5>2 DEF Got
      <4>2. src[s].pc = "reply" /\ src[s].sent \in 0 .. Size(s, d)
        <5>1. OnTheWay(s, d) = 0 \/ src[s].pc = "reply"
          BY <3>3 DEF Line, Serving, OnTheWay, Fresh
        <5>2. src[s].pc # "transfer"
          BY <3>1, <3>3, <3>5, <4>1, <5>1 DEF Progress
        <5>3. Transferring(s)
          BY <3>3, <4>1 DEF Progress
        <5>4. src[s].pc # "done"
          BY <3>3, <4>1 DEF Progress
        <5> QED
          BY <3>3, <3>5, <5>2, <5>3, <5>4 DEF Progress, Transferring
      <4>3. ~ Unread(s, d)
        <5> SUFFICES ASSUME Unread(s, d) PROVE FALSE
          OBVIOUS
        <5>1. ranges[s][d].request # <<>> /\ Sent(s, ranges[s][d].request[1])
          BY DEF Unread
        <5>2. OnTheWay(s, d) = Len(ranges[s][d].request[1].items)
          BY <4>1, <5>1 DEF OnTheWay
        <5>3. src[s].sent > 0
          BY <4>1, <4>2, <5>1, <3>1 DEF Sent, RangeHeader, Header
        <5>4. OnTheWay(s, d) \in 1 .. src[s].sent
          BY <5>1, <5>2, <5>3 DEF Sent
        <5> QED
          BY <3>1, <4>1, <4>2, <5>4
      <4>4. ~ InHand(s, d)
        BY <1>2 DEF InHand
      <4>5. Replied(s, d)
        BY <3>3, <3>5, <4>2, <4>3, <4>4 DEF Line, Serving
      <4> QED
        BY <3>5, <4>2, <4>5 DEF Replied, Answered
    <3>6. CASE src[s].to < d
      BY <2>1, <3>3, <3>6 DEF Announced
    <3> QED
      BY <3>3, <3>4, <3>5, <3>6
  <2> QED
    BY <2>1, <2>2
<1> QED
  BY <1>1, <1>2

\* DestsServed, for every number of nodes, items and chunks: however the parts of the
\* sources come in, a destination leaves its loop with all its items, and each source
\* has its answer.
THEOREM ServedSafe == Spec => []DestsServed
<1>1. ServedInv => DestsServed
  BY AllServed
<1> QED
  BY <1>1, ServedInvariance, PTL DEF Spec, Steps
=============================================================================
