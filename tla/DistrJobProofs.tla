---------------------------- MODULE DistrJobProofs ----------------------------
(***************************************************************************)
(* For any number of nodes and items: what the protocol carries are the    *)
(* items themselves. Each part of a range has the items of its source that *)
(* come behind those sent before, a destination holds one copy of every    *)
(* item that was brought to it, so what it sorts are the items that the    *)
(* analysis gave it. Its output file has them in front, or stays as it was *)
(* where it could not be opened, or has the first of them where it did not *)
(* take them all. So every step of the protocol is one of the abstract     *)
(* job, or leaves it alone.                                                *)
(***************************************************************************)
EXTENDS DistrSortProofs, DataLemmas

\* The i-th smallest item of source s, for p = <<s, i>>.
Item(p) == Sorted(input[p[1]])[p[2]]

\* A source has sorted its input, unless it has just begun or has exited.
SourceSorted(s) ==
  /\ "array" \in DOMAIN src[s]
  /\ src[s].pc \notin {"start", "exited"} => src[s].array = Sorted(input[s])

\* The items of an unread part are those of its source behind what was sent before.
Carried(s, d) ==
  ranges[s][d].request # <<>> /\ ~ Header(s, d) =>
    LET m == ranges[s][d].request[1] IN
    /\ m.items \in Seq(Nat)
    /\ \A k \in 1 .. Len(m.items) : m.items[k] = Item(<<s, Reached(s, d, m) + k>>)

\* A destination holds each item that was brought to it once.
Holds(d) ==
  /\ dst[d].array \in Seq(Nat)
  /\ \E place \in Bijection(1 .. Len(dst[d].array), Had(d)) :
       \A k \in 1 .. Len(dst[d].array) : dst[d].array[k] = Item(place[k])

\* The output file is as it was until the items are sorted. A destination that comes to
\* its report has saved them or left the file as it was, one that was aborted has saved
\* some of them.
Written(d) ==
  /\ dst[d].pc \in {"read", "write", "sort"} => output[d] = OldOutputs[d]
  /\ dst[d].pc \in {"report", "done"} =>
       output[d] \in Saved(OldOutputs[d], Sorted(dst[d].array))
  /\ dst[d].pc = "aborted" => output[d] \in Torn(OldOutputs[d], Sorted(dst[d].array))

ContentInv ==
  /\ input \in Inputs
  /\ DOMAIN output = Nodes
  /\ \A s \in Nodes : SourceSorted(s)
  /\ \A s, d \in Nodes : Carried(s, d)
  /\ \A d \in Nodes : Holds(d) /\ Written(d)

-----------------------------------------------------------------------------
\* An input file sorted is an array of as many items.
LEMMA InputSorted ==
  ASSUME ContentInv, NEW s \in Nodes
  PROVE  /\ Sorted(input[s]) \in [1 .. ItemsCount -> Nat]
         /\ \A i \in 1 .. ItemsCount : /\ Item(<<s, i>>) = Sorted(input[s])[i]
                                       /\ Item(<<s, i>>) \in Nat
<1>1. ItemsCount \in Nat /\ input[s] \in [1 .. ItemsCount -> Nat]
  BY CountsAssumption, InputsAssumption DEF ContentInv
<1>2. Items(input[s]) /\ Number(input[s]) = ItemsCount
  BY <1>1, FirstNumbers DEF Items, Number
<1>3. Sorted(input[s]) \in [1 .. ItemsCount -> Nat]
  BY <1>2, SortedRanks
<1> QED
  BY <1>3 DEF Item

\* Nothing has been read, sent or written when the nodes start.
LEMMA ContentInit ==
  ASSUME Init, ServedInv
  PROVE  ContentInv
<1> USE DEF Init
<1>1. input \in Inputs /\ DOMAIN output = Nodes
  BY InputsAssumption
<1>2. \A s \in Nodes : "array" \in DOMAIN src[s] /\ src[s].pc = "start"
  OBVIOUS
<1>3. \A s, d \in Nodes : ranges[s][d].request = <<>>
  BY DEF Fresh
<1>4. \A d \in Nodes : /\ dst[d].pc = "read" /\ dst[d].array = <<>>
                      /\ output[d] = OldOutputs[d]
  OBVIOUS
<1> HIDE DEF Init
<1>5. ASSUME NEW d \in Nodes PROVE Holds(d)
  <2>1. Len(dst[d].array) = 0 /\ dst[d].array \in Seq(Nat)
    <3>1. <<>> \in Seq(Nat) /\ Len(<<>>) = 0
      OBVIOUS
    <3> QED
      BY <1>4, <3>1
  <2>2. Had(d) = {}
    <3>1. Cardinality(Had(d)) = 0 /\ IsFiniteSet(Had(d))
      BY <2>1, CountTypes DEF ServedInv, Counted
    <3> QED
      BY <3>1, FS_EmptySet
  <2>3. [k \in 1 .. 0 |-> k] \in Bijection(1 .. 0, {})
    BY DEF Bijection, Injection, Surjection, IsInjective
  <2> QED
    BY <2>1, <2>2, <2>3 DEF Holds
<1> QED
  BY <1>1, <1>2, <1>3, <1>4, <1>5 DEF ContentInv, SourceSorted, Carried, Written

-----------------------------------------------------------------------------
\* No new message comes from s to d.
Kept(s, d) ==
  \/ ranges'[s][d].request = <<>>
  \/ ranges'[s][d].request = ranges[s][d].request /\ src'[s].sent = src[s].sent

\* A part on its way stays what it is.
LEMMA CarriedStays ==
  ASSUME ServedInv, ContentInv, NEW s \in Nodes, NEW d \in Nodes,
         UNCHANGED input, CutStays, Kept(s, d)
  PROVE  Carried(s, d)'
<1>1. CASE ranges'[s][d].request = <<>>
  BY <1>1 DEF Carried
<1>2. CASE /\ ranges'[s][d].request # <<>>
           /\ ranges'[s][d].request = ranges[s][d].request /\ src'[s].sent = src[s].sent
  <2>1. Serving(s, d)
    BY <1>2 DEF ServedInv, Line, Fresh
  <2>2. man'.cut = man.cut
    BY <2>1 DEF ServedInv, Orders, Ordered, Serving, Transferring, CutStays
  <2>3. PICK m : m = ranges[s][d].request[1]
    OBVIOUS
  <2>4. /\ Header(s, d)' <=> Header(s, d)
        /\ Reached(s, d, m)' = Reached(s, d, m)
        /\ \A p : Item(p)' = Item(p)
    BY <1>2, <2>2 DEF Header, Reached, Item
  <2>5. Carried(s, d)
    BY DEF ContentInv
  <2> QED
    BY <1>2, <2>3, <2>4, <2>5 DEF Carried
<1> QED
  BY <1>1, <1>2 DEF Kept

\* So do the items that a destination has.
LEMMA HoldsStays ==
  ASSUME ContentInv, NEW d \in Nodes, UNCHANGED input, Had(d)' = Had(d),
         dst'[d].array = dst[d].array
  PROVE  Holds(d)'
<1>1. \A p : Item(p)' = Item(p)
  BY DEF Item
<1>2. Holds(d)
  BY DEF ContentInv
<1> QED
  BY <1>1, <1>2 DEF Holds

\* A step that sends nothing and in which no destination receives anything.
LEMMA ContentStays ==
  ASSUME ServedInv, ContentInv, UNCHANGED input, HadStays, CutStays,
         \A s \in Nodes : SourceSorted(s)', DOMAIN output' = Nodes,
         \A s, d \in Nodes : Kept(s, d),
         \A d \in Nodes : dst'[d].array = dst[d].array /\ Written(d)'
  PROVE  ContentInv'
<1>1. \A s, d \in Nodes : Carried(s, d)'
  BY CarriedStays
<1>2. \A d \in Nodes : Holds(d)'
  BY HoldsStays DEF HadStays
<1> QED
  BY <1>1, <1>2 DEF ContentInv

\* The manager decides on the ranges once.
LEMMA ManagerCuts ==
  ASSUME ServedInv, ManagerStep
  PROVE  man'.cut = man.cut \/ (ManagerPartition /\ ~ Ranged)
<1>1. "cut" \in DOMAIN man
  BY DEF ServedInv, TransferShape
<1>2. CASE ManagerReadCrc
  BY <1>1, <1>2 DEF ManagerReadCrc
<1>3. CASE ManagerReadHeader
  BY <1>1, <1>3 DEF ManagerReadHeader
<1>4. CASE ManagerReadArray
  BY <1>1, <1>4 DEF ManagerReadArray
<1>5. CASE ManagerAnalyze
  BY <1>1, <1>5 DEF ManagerAnalyze
<1>6. CASE ManagerAsk
  BY <1>1, <1>6 DEF ManagerAsk
<1>7. CASE ManagerHear
  BY <1>1, <1>7 DEF ManagerHear
<1>8. CASE ManagerFault
  BY <1>1, <1>8 DEF ManagerFault
<1>9. CASE ManagerPartition
  BY <1>9 DEF ManagerPartition, Ranged
<1>10. CASE ManagerTell
  BY <1>1, <1>10 DEF ManagerTell
<1>11. CASE ManagerReadResult
  BY <1>1, <1>11 DEF ManagerReadResult
<1> QED
  BY <1>2, <1>3, <1>4, <1>5, <1>6, <1>7, <1>8, <1>9, <1>10, <1>11 DEF ManagerStep

\* The same for a step of one source.
LEMMA SourceContent ==
  ASSUME ServedInv, ExInv, ContentInv, NEW s \in Nodes, HadStays,
         UNCHANGED <<input, output, man, dst>>,
         \A k \in Nodes : k # s => src'[k] = src[k],
         SourceSorted(s)', \A k, d \in Nodes : Kept(k, d)
  PROVE  ContentInv'
<1>1. CutStays
  BY DEF CutStays
<1>2. \A k \in Nodes : SourceSorted(k)'
  BY DEF ContentInv, SourceSorted
<1>3. \A d \in Nodes : dst'[d].array = dst[d].array /\ Written(d)'
  BY DEF ContentInv, Written
<1>4. DOMAIN output' = Nodes
  BY DEF ContentInv
<1> QED
  BY <1>1, <1>2, <1>3, <1>4, ContentStays

\* And for a step of the manager.
LEMMA ManagerContent ==
  ASSUME ServedInv, ContentInv, HadStays, CutStays,
         UNCHANGED <<input, output, src, dst, ranges>>
  PROVE  ContentInv'
<1>1. \A s \in Nodes : SourceSorted(s)'
  BY DEF ContentInv, SourceSorted
<1>2. \A d \in Nodes : dst'[d].array = dst[d].array /\ Written(d)'
  BY DEF ContentInv, Written
<1>3. DOMAIN output' = Nodes /\ \A s, d \in Nodes : Kept(s, d)
  BY DEF ContentInv, Kept
<1> QED
  BY <1>1, <1>2, <1>3, ContentStays

\* A source sorts its input and keeps the array to its end.
LEMMA SourceKeeps ==
  ASSUME ServedInv, ExInv, ContentInv, NEW s \in Nodes,
         \/ SourceSort(s) \/ SourceExit(s) \/ SourceWriteCrc(s)
         \/ SourceWriteHistogram(s) \/ SourceAnswer(s) \/ SourceReadRequest(s)
  PROVE  ContentInv'
<1>1. HadStays
  BY SourcePrepares, RequestRead
<1>2. /\ UNCHANGED <<input, output, man, dst, ranges>>
      /\ \A k \in Nodes : k # s => src'[k] = src[k]
      /\ src'[s].sent = src[s].sent
      /\ SourceSorted(s)'
  <2> USE DEF ExInv, Shape, ServedInv, TransferShape, SourceSorted, ContentInv
  <2>1. CASE SourceSort(s)
    BY <2>1 DEF SourceSort
  <2>2. CASE SourceExit(s)
    BY <2>2 DEF SourceExit
  <2>3. CASE SourceWriteCrc(s)
    BY <2>3 DEF SourceWriteCrc
  <2>4. CASE SourceWriteHistogram(s)
    BY <2>4 DEF SourceWriteHistogram
  <2>5. CASE SourceAnswer(s)
    BY <2>5 DEF SourceAnswer
  <2>6. CASE SourceReadRequest(s)
    BY <2>6 DEF SourceReadRequest
  <2> QED
    BY <2>1, <2>2, <2>3, <2>4, <2>5, <2>6
<1>3. \A k, d \in Nodes : Kept(k, d)
  BY <1>2 DEF Kept
<1> QED
  BY <1>1, <1>2, <1>3, SourceContent

\* The answer of a destination carries nothing.
LEMMA ReceiveKeeps ==
  ASSUME ServedInv, ExInv, ContentInv, NEW s \in Nodes, SourceReceive(s)
  PROVE  ContentInv'
<1>1. HadStays
  BY AnswerReceived
<1>2. PICK d \in Nodes : Receives(s, d)
  BY ReceiveFacts
<1>3. /\ UNCHANGED <<input, output, man, dst>>
      /\ \A k \in Nodes : k # s => src'[k] = src[k]
      /\ SourceSorted(s)'
  <2>1. UNCHANGED <<input, output, man, dst>> /\ src[s].pc = "reply"
    BY DEF SourceReceive
  <2>2. \A k \in Nodes : k # s => src'[k] = src[k]
    BY <1>2 DEF Receives
  <2>3. src'[s].array = src[s].array /\ "array" \in DOMAIN src'[s]
    <3> DEFINE more == src[s].sent < RangeLength(Current(s))
    <3>1. src' = IF more THEN [src EXCEPT ![s].pc = "transfer"]
                 ELSE [src EXCEPT
                        ![s].pc = IF src[s].to + 1 < NodeCount THEN "transfer" ELSE "done",
                        ![s].to = @ + 1, ![s].sent = -1]
      BY DEF SourceReceive
    <3> HIDE DEF more
    <3> QED
      BY <3>1 DEF ExInv, Shape, ContentInv, SourceSorted
  <2> QED
    BY <2>1, <2>2, <2>3 DEF ContentInv, SourceSorted
<1>4. ASSUME NEW k \in Nodes, NEW e \in Nodes PROVE Kept(k, e)
  <2>1. CASE k = s
    <3>1. CASE e = d
      BY <1>2, <2>1, <3>1 DEF Kept, Receives, Fresh
    <3>2. CASE e # d
      <4>1. ranges[s][e] = Fresh
        BY <1>2, <3>2 DEF ServedInv, Line, Serving, Receives
      <4> QED
        BY <1>2, <2>1, <3>2, <4>1 DEF Kept, Receives, Fresh
    <3> QED
      BY <3>1, <3>2
  <2>2. CASE k # s
    BY <1>2, <2>2 DEF Kept, Receives
  <2> QED
    BY <2>1, <2>2
<1> QED
  BY <1>1, <1>3, <1>4, SourceContent

\* A part of a part of an array.
LEMMA PartOfPart ==
  ASSUME NEW n \in Nat, NEW s \in [1 .. n -> Nat], NEW a \in 0 .. n, NEW b \in a .. n,
         NEW i \in 0 .. b - a, NEW j \in i .. b - a
  PROVE  LET t == SubSeq(SubSeq(s, a + 1, b - 1 + 1), i + 1, j) IN
         /\ t \in Seq(Nat) /\ Len(t) = j - i
         /\ \A k \in 1 .. j - i : t[k] = s[a + i + k]
<1>1. s \in Seq(Nat) /\ Len(s) = n
  OBVIOUS
<1>2. PICK u : u = SubSeq(s, a + 1, b)
  OBVIOUS
<1>3. /\ u \in Seq(Nat) /\ Len(u) = b - a
      /\ \A k \in 1 .. b - a : u[k] = s[a + k]
  BY <1>1, <1>2, SubSeqProperties
<1>4. PICK t : t = SubSeq(u, i + 1, j)
  OBVIOUS
<1>5. /\ t \in Seq(Nat) /\ Len(t) = j - i
      /\ \A k \in 1 .. j - i : t[k] = u[i + k]
  <2>1. i + 1 \in Int /\ j \in Int /\ \A k \in i + 1 .. j : u[k] \in Nat
    BY <1>3
  <2>2. /\ t \in Seq(Nat) /\ Len(t) = IF i + 1 <= j THEN j - (i + 1) + 1 ELSE 0
        /\ \A k \in 1 .. j - (i + 1) + 1 : t[k] = u[i + 1 + k - 1]
    BY <1>4, <2>1, SubSeqProperties
  <2> QED
    BY <2>2
<1>6. \A k \in 1 .. j - i : t[k] = s[a + i + k]
  BY <1>3, <1>5
<1>7. b - 1 + 1 = b
  OBVIOUS
<1> QED
  BY <1>2, <1>4, <1>5, <1>6, <1>7

\* A source sends the items of the destination's range in their order.
LEMMA SendCarries ==
  ASSUME ServedInv, ExInv, ContentInv, NEW s \in Nodes, SourceSend(s)
  PROVE  ContentInv'
<1>1. src[s].pc = "transfer" /\ UNCHANGED <<input, output, man, dst>>
  BY DEF SourceSend
<1>2. PICK d, sent, now, m : Sends(s, d, sent, now, m)
  BY SendFacts
<1>3. HadStays /\ CutStays
  BY <1>1, RangeSent DEF CutStays
<1>4. d \in Nodes /\ src[s].to = d
  BY <1>2 DEF Sends
<1>5. ASSUME NEW k \in Nodes, NEW e \in Nodes, k # s \/ e # d
      PROVE  Carried(k, e)'
  <2>1. ranges'[k][e] = ranges[k][e]
    BY <1>2, <1>5 DEF Sends
  <2>2. CASE k = s
    <3>1. ranges[k][e] = Fresh
      BY <1>1, <2>2 DEF ServedInv, Line, Serving
    <3> QED
      BY <1>1, <1>3, <2>1, <3>1, CarriedStays DEF Kept, Fresh
  <2>3. CASE k # s
    <3>1. src'[k] = src[k]
      BY <1>2, <2>3 DEF Sends
    <3> QED
      BY <1>1, <1>3, <2>1, <3>1, CarriedStays DEF Kept
  <2> QED
    BY <2>2, <2>3
<1>6. ranges'[s][d].request # <<>> /\ ranges'[s][d].request[1] = m
  BY <1>2 DEF Sends, Request, Fresh
<1>7. Carried(s, d)'
  <2>1. CASE sent = -1
    BY <1>2, <1>6, <2>1 DEF Carried, Header, Sends, RangeHeader
  <2>2. CASE sent # -1
    <3>1. /\ sent \in Nat /\ now \in Nat /\ sent < now
          /\ man.cut[d][s] \in 0 .. ItemsCount /\ man.cut[d + 1][s] \in 0 .. ItemsCount
          /\ Size(s, d) \in Nat /\ now <= Size(s, d)
          /\ man.cut[d + 1][s] = man.cut[d][s] + Size(s, d)
      BY <1>2, <2>2, PairFacts DEF Sends
    <3>2. PICK a, b : a = man.cut[d][s] /\ b = man.cut[d + 1][s]
      OBVIOUS
    <3>3. src[s].array = Sorted(input[s]) /\ src[s].array \in [1 .. ItemsCount -> Nat]
      BY <1>1, InputSorted DEF ContentInv, SourceSorted
    <3>4. m.items = SubSeq(SubSeq(src[s].array, a + 1, b - 1 + 1), sent + 1, now)
      <4>1. Current(s).first = a /\ Current(s).last = b - 1
        BY <1>1, <1>4, <3>2, CurrentFacts
      <4> QED
        BY <1>2, <2>2, <4>1 DEF Sends, ItemsOf
    <3>5. /\ a \in 0 .. ItemsCount /\ b \in a .. ItemsCount
          /\ sent \in 0 .. b - a /\ now \in sent .. b - a
      BY <3>1, <3>2, CountsAssumption
    <3>6. /\ m.items \in Seq(Nat) /\ Len(m.items) = now - sent
          /\ \A k \in 1 .. now - sent : m.items[k] = src[s].array[a + sent + k]
      <4>1. ItemsCount \in Nat /\ \A k \in 1 .. now - sent : a + sent + k = a + (sent + k)
        BY <3>1, <3>5, CountsAssumption
      <4> QED
        BY <3>3, <3>4, <3>5, <4>1, PartOfPart
    <3>7. Reached(s, d, m)' = a + sent
      <4>1. Reached(s, d, m)' = a + now - Len(m.items)
        BY <1>1, <1>2, <3>2 DEF Reached, Sends
      <4> QED
        BY <3>1, <3>5, <3>6, <4>1
    <3>8. \A p : Item(p)' = Item(p)
      BY <1>1 DEF Item
    <3>9. \A k \in 1 .. Len(m.items) : m.items[k] = Item(<<s, a + sent + k>>)
      BY <3>3, <3>6 DEF Item
    <3> QED
      BY <1>6, <3>6, <3>7, <3>8, <3>9 DEF Carried
  <2> QED
    BY <2>1, <2>2
<1>8. \A k \in Nodes : SourceSorted(k)'
  <2>1. src'[s].array = src[s].array /\ "array" \in DOMAIN src'[s] /\ src'[s].pc = "reply"
    BY <1>2 DEF SourceSend, Sends, ExInv, Shape, ContentInv, SourceSorted
  <2>2. \A k \in Nodes : k # s => src'[k] = src[k]
    BY <1>2 DEF Sends
  <2> QED
    BY <1>1, <2>1, <2>2 DEF ContentInv, SourceSorted
<1>9. \A e \in Nodes : Holds(e)' /\ Written(e)'
  BY <1>1, <1>3, HoldsStays DEF HadStays, ContentInv, Written
<1> QED
  BY <1>1, <1>4, <1>5, <1>7, <1>8, <1>9 DEF ContentInv

-----------------------------------------------------------------------------
\* Where the items of a part are put.
Behind(place, n, s, r, k) == IF k <= n THEN place[k] ELSE <<s, r + (k - n)>>

\* They are other items than those before, each in one place.
LEMMA PlacesAdded ==
  ASSUME NEW n \in Nat, NEW l \in Nat, NEW H, NEW place \in Bijection(1 .. n, H),
         NEW s \in Nodes, NEW r \in Nat, r + l \in 0 .. ItemsCount,
         \A p \in H : p \notin Block(s, r, r + l)
  PROVE  [k \in 1 .. n + l |-> Behind(place, n, s, r, k)]
           \in Bijection(1 .. n + l, H \cup Block(s, r, r + l))
<1> DEFINE f == [k \in 1 .. n + l |-> Behind(place, n, s, r, k)]
<1>1. /\ place \in [1 .. n -> H] /\ \A j, k \in 1 .. n : place[j] = place[k] => j = k
      /\ \A p \in H : \E k \in 1 .. n : place[k] = p
  BY DEF Bijection, Injection, Surjection, IsInjective
<1>2. \A k \in 1 .. n : f[k] = place[k] /\ f[k] \in H
  BY <1>1 DEF Behind
<1>3. \A k \in n + 1 .. n + l : f[k] = <<s, r + (k - n)>> /\ f[k] \in Block(s, r, r + l)
  BY CountsAssumption DEF Behind, Block
<1>4. \A p \in Block(s, r, r + l) : \E k \in n + 1 .. n + l : f[k] = p
  <2> SUFFICES ASSUME NEW p \in Block(s, r, r + l)
               PROVE  \E k \in n + 1 .. n + l : f[k] = p
    OBVIOUS
  <2>1. p = <<s, p[2]>> /\ p[2] \in Nat /\ r < p[2] /\ p[2] <= r + l
    BY DEF Block
  <2>2. PICK k \in n + 1 .. n + l : k = p[2] - r + n
    BY <2>1
  <2>3. r + (k - n) = p[2]
    BY <2>1, <2>2
  <2> QED
    BY <1>3, <2>1, <2>2, <2>3
<1>5. \A k \in 1 .. n + l : k \in 1 .. n \/ k \in n + 1 .. n + l
  OBVIOUS
<1>6. \A j, k \in n + 1 .. n + l : f[j] = f[k] => j = k
  <2> SUFFICES ASSUME NEW j \in n + 1 .. n + l, NEW k \in n + 1 .. n + l, f[j] = f[k]
               PROVE  j = k
    OBVIOUS
  <2> HIDE DEF f
  <2>1. f[j] = <<s, r + (j - n)>> /\ f[k] = <<s, r + (k - n)>>
    BY <1>3
  <2>2. PICK x, y : x = r + (j - n) /\ y = r + (k - n)
    OBVIOUS
  <2>3. <<s, x>> = <<s, y>>
    BY <2>1, <2>2
  <2>4. x = y
    BY <2>3
  <2> QED
    BY <2>2, <2>4
<1>7. DOMAIN f = 1 .. n + l /\ 1 .. n \subseteq 1 .. n + l /\ n + 1 .. n + l \subseteq 1 .. n + l
  OBVIOUS
<1>8. f = [k \in 1 .. n + l |-> f[k]]
  OBVIOUS
<1> HIDE DEF f
<1>9. f \in [1 .. n + l -> H \cup Block(s, r, r + l)]
  BY <1>2, <1>3, <1>5, <1>7, <1>8
<1>10. \A j, k \in 1 .. n + l : f[j] = f[k] => j = k
  BY <1>1, <1>2, <1>3, <1>5, <1>6
<1>11. \A p \in H \cup Block(s, r, r + l) : \E k \in 1 .. n + l : f[k] = p
  BY <1>1, <1>2, <1>4, <1>7
<1>12. f \in Bijection(1 .. n + l, H \cup Block(s, r, r + l))
  BY <1>7, <1>9, <1>10, <1>11 DEF Bijection, Injection, Surjection, IsInjective
<1> QED
  BY <1>12 DEF f

\* A destination puts the items of a part behind those that it has.
LEMMA ReadKeeps ==
  ASSUME ServedInv, ContentInv, NEW d \in Nodes, DestRead(d)
  PROVE  ContentInv'
<1>1. UNCHANGED <<input, output, src, man>>
  BY DEF DestRead
<1>2. PICK s, m : Collects(s, d, m)
  BY MessageRead
<1>3. Reads(s, d, m) /\ s \in Nodes /\ CutStays
  BY <1>1, <1>2 DEF Collects, Reads, CutStays
<1>4. \A k, e \in Nodes : Carried(k, e)'
  <2> SUFFICES ASSUME NEW k \in Nodes, NEW e \in Nodes
               PROVE  Kept(k, e)
    BY <1>1, <1>3, CarriedStays
  <2>1. CASE k = s /\ e = d
    BY <1>3, <2>1 DEF Kept, Reads
  <2>2. CASE k # s \/ e # d
    BY <1>1, <1>3, <2>2 DEF Kept, Reads
  <2> QED
    BY <2>1, <2>2
<1>5. \A e \in Nodes : e # d => Holds(e)'
  BY <1>1, <1>2, <1>3, HoldsStays DEF Collects, Reads
<1>6. Holds(d)'
  <2>1. CASE m.type = "EPACKET_RANGE"
    BY <1>1, <1>2, <1>3, <2>1, HoldsStays DEF Collects, Reads
  <2>2. CASE m.type # "EPACKET_RANGE"
    <3>1. PICK n, l, r : n = Len(dst[d].array) /\ l = Len(m.items) /\ r = Reached(s, d, m)
      OBVIOUS
    <3>2. dst[d].array \in Seq(Nat) /\ n \in Nat
      BY <3>1 DEF ContentInv, Holds
    <3>3. PICK place \in Bijection(1 .. n, Had(d)) :
            \A k \in 1 .. n : dst[d].array[k] = Item(place[k])
      BY <3>1 DEF ContentInv, Holds
    <3>4. /\ m.items \in Seq(Nat) /\ l \in Nat
          /\ \A k \in 1 .. l : m.items[k] = Item(<<s, r + k>>)
      <4>1. ranges[s][d].request # <<>> /\ ranges[s][d].request[1] = m /\ ~ Header(s, d)
        BY <1>3, <2>2 DEF Reads, Header
      <4> QED
        BY <1>3, <3>1, <4>1 DEF ContentInv, Carried
    <3>5. /\ r \in Nat /\ r + l \in 0 .. ItemsCount
          /\ Had(d)' = Had(d) \cup Block(s, r, r + l)
          /\ \A p \in Had(d) : p \notin Block(s, r, r + l)
      BY <1>2, <2>2, <3>1 DEF Collects
    <3>6. PICK f : f = [k \in 1 .. n + l |-> Behind(place, n, s, r, k)]
      OBVIOUS
    <3>7. f \in Bijection(1 .. n + l, Had(d)')
      BY <1>3, <3>2, <3>3, <3>4, <3>5, <3>6, PlacesAdded
    <3>8. PICK a : a = dst'[d].array
      OBVIOUS
    <3>9. a = dst[d].array \o m.items
      BY <1>3, <2>2, <3>8 DEF Reads
    <3>10. /\ a \in Seq(Nat) /\ Len(a) = n + l
           /\ \A k \in 1 .. n + l :
                a[k] = IF k <= n THEN dst[d].array[k] ELSE m.items[k - n]
      <4>1. PICK u \in Seq(Nat) : u = dst[d].array
        BY <3>2
      <4>2. PICK v \in Seq(Nat) : v = m.items
        BY <3>4
      <4>3. Len(u) = n /\ Len(v) = l /\ a = u \o v
        BY <3>1, <3>9, <4>1, <4>2
      <4>4. /\ a \in Seq(Nat) /\ Len(a) = n + l
            /\ \A k \in 1 .. n + l : a[k] = IF k <= n THEN u[k] ELSE v[k - n]
        BY <4>3, ConcatProperties
      <4> QED
        BY <4>1, <4>2, <4>4
    <3>11. ASSUME NEW k \in 1 .. n + l
           PROVE  a[k] = Item(f[k])
      <4>1. f[k] = Behind(place, n, s, r, k)
        BY <3>6
      <4>2. CASE k <= n
        BY <3>2, <3>3, <3>10, <4>1, <4>2 DEF Behind
      <4>3. CASE ~ (k <= n)
        <5>1. k - n \in 1 .. l
          BY <3>2, <3>4, <4>3
        <5> QED
          BY <3>4, <3>10, <4>1, <4>3, <5>1 DEF Behind
      <4> QED
        BY <4>2, <4>3
    <3>12. \A p : Item(p)' = Item(p)
      BY <1>1 DEF Item
    <3> QED
      BY <3>7, <3>8, <3>10, <3>11, <3>12 DEF Holds
  <2> QED
    BY <2>1, <2>2
<1>7. \A e \in Nodes : Written(e)'
  BY <1>1, <1>3 DEF ContentInv, Written, Reads
<1> QED
  BY <1>1, <1>4, <1>5, <1>6, <1>7 DEF ContentInv, SourceSorted

\* Its answer carries nothing, and behind its loop it only writes its output.
LEMMA DestKeeps ==
  ASSUME ServedInv, ContentInv, NEW d \in Nodes,
         DestWrite(d) \/ DestSave(d) \/ DestReport(d)
  PROVE  ContentInv'
<1>1. HadStays
  BY MessageAnswered, DestEnds
<1>2. /\ UNCHANGED <<input, src, man>>
      /\ \A e \in Nodes : dst'[e].array = dst[e].array
      /\ \A e \in Nodes : e # d => dst'[e] = dst[e] /\ output'[e] = output[e]
      /\ DOMAIN output' = Nodes
      /\ Written(d)'
      /\ \A s, e \in Nodes : ranges'[s][e].request = ranges[s][e].request
  <2>1. CASE DestWrite(d)
    <3>1. /\ dst[d].pc = "write" /\ dst'[d].pc \in {"read", "sort"}
          /\ \A e \in Nodes : dst'[e].array = dst[e].array
          /\ \A e \in Nodes : e # d => dst'[e] = dst[e]
          /\ UNCHANGED <<input, src, man, output>>
      BY <2>1 DEF DestWrite, ServedInv, TransferShape
    <3>2. \A s, e \in Nodes : ranges'[s][e].request = ranges[s][e].request
      <4>1. PICK s \in Nodes : s = dst[d].client
        BY <3>1 DEF ServedInv, Counted
      <4>2. InHand(s, d)
        BY <3>1, <4>1 DEF ServedInv, Line
      <4>3. ranges' = [ranges EXCEPT ![s][d] = Answer(@, "reply")]
        BY <2>1, <4>1 DEF DestWrite
      <4>4. Answer(ranges[s][d], "reply").request = ranges[s][d].request
        BY <4>2 DEF Answer, InHand
      <4> QED
        BY <4>3, <4>4 DEF ServedInv, TransferShape
    <3>3. Written(d)'
      BY <3>1 DEF ContentInv, Written
    <3> QED
      BY <3>1, <3>2, <3>3 DEF ContentInv
  <2>2. CASE DestSave(d)
    <3>1. PICK end \in Outcomes(output[d], Sorted(dst[d].array)) :
            /\ output' = [output EXCEPT ![d] = end.file]
            /\ dst' = [dst EXCEPT ![d].pc = end.pc]
      BY <2>2 DEF DestSave
    <3>2. dst[d].pc = "sort" /\ UNCHANGED <<input, src, man, ranges>>
      BY <2>2 DEF DestSave
    <3>3. output[d] = OldOutputs[d]
      BY <3>2 DEF ContentInv, Written
    <3>4. /\ dst'[d].pc = end.pc /\ output'[d] = end.file /\ DOMAIN output' = Nodes
          /\ \A e \in Nodes : dst'[e].array = dst[e].array
          /\ \A e \in Nodes : e # d => dst'[e] = dst[e] /\ output'[e] = output[e]
      BY <3>1 DEF ServedInv, TransferShape, ContentInv
    <3>5. Written(d)'
      BY <3>3, <3>4, OutcomeCases DEF Written
    <3> QED
      BY <3>2, <3>4, <3>5
  <2>3. CASE DestReport(d)
    <3>1. /\ dst[d].pc = "report" /\ dst'[d].pc = "done"
          /\ UNCHANGED <<input, output, src, man, ranges>>
          /\ \A e \in Nodes : dst'[e].array = dst[e].array
          /\ \A e \in Nodes : e # d => dst'[e] = dst[e]
      BY <2>3 DEF DestReport, ServedInv, TransferShape
    <3>2. Written(d)'
      BY <3>1 DEF ContentInv, Written
    <3> QED
      BY <3>1, <3>2 DEF ContentInv
  <2> QED
    BY <2>1, <2>2, <2>3
<1>3. \A s, e \in Nodes : Kept(s, e)
  BY <1>2 DEF Kept
<1>4. \A e \in Nodes : Written(e)'
  <2> SUFFICES ASSUME NEW e \in Nodes, e # d PROVE Written(e)'
    BY <1>2
  <2> QED
    BY <1>2 DEF ContentInv, Written
<1>5. \A s \in Nodes : SourceSorted(s)'
  BY <1>2 DEF ContentInv, SourceSorted
<1>6. CutStays
  BY <1>2 DEF CutStays
<1> QED
  BY <1>1, <1>2, <1>3, <1>4, <1>5, <1>6, ContentStays

-----------------------------------------------------------------------------
\* Every step keeps the contents right.
LEMMA ContentStep ==
  ASSUME ServedInv, ExInv, ContentInv, [Next]_vars
  PROVE  ContentInv'
<1>1. ASSUME NEW s \in Nodes, SourceStep(s)
      PROVE  ContentInv'
  BY <1>1, SourceKeeps, SendCarries, ReceiveKeeps DEF SourceStep
<1>2. CASE ManagerStep
  <2>1. HadStays
    BY Zenon, <1>2, ManagerPrepares, RangesKnown, RangesTold DEF ManagerStep
  <2>2. UNCHANGED <<input, output, src, dst, ranges>>
    BY Zenon, <1>2 DEF ManagerStep, ManagerReadCrc, ManagerReadHeader, ManagerReadArray,
       ManagerAnalyze, ManagerAsk, ManagerHear, ManagerFault, ManagerPartition,
       ManagerTell, ManagerReadResult
  <2>3. CutStays
    BY <1>2, ManagerCuts DEF CutStays
  <2> QED
    BY <2>1, <2>2, <2>3, ManagerContent
<1>3. ASSUME NEW d \in Nodes, DestStep(d)
      PROVE  ContentInv'
  BY <1>3, ReadKeeps, DestKeeps DEF DestStep
<1>4. CASE UNCHANGED vars
  <2>1. HadStays /\ CutStays /\ UNCHANGED <<input, output, src, dst, ranges>>
    BY <1>4, NothingMoves DEF vars, CutStays
  <2> QED
    BY <2>1, ManagerContent
<1> QED
  BY <1>1, <1>2, <1>3, <1>4 DEF Next

\* What the protocol carries are the items themselves: in every state each part on its
\* way, the array of each destination and each output file have the items that they
\* stand for, however the parts of the sources interleave.
THEOREM ContentInvariance == Steps => []ContentInv
<1>1. Init => ContentInv
  BY ServedInit, ContentInit
<1>2. ContentInv /\ ServedInv /\ ExInv /\ [Next]_vars => ContentInv'
  BY ContentStep
<1> QED
  BY <1>1, <1>2, ServedInvariance, ExchangeInvariance, PTL DEF Steps

-----------------------------------------------------------------------------
\* The ranges of a source do not overlap.
LEMMA CutsInOrder ==
  ASSUME NEW cut \in Cuts, NEW s \in Nodes, NEW d \in Nodes, NEW e \in Nodes, d < e
  PROVE  cut[d + 1][s] <= cut[e][s]
<1> DEFINE P == {k \in Nat : d + 1 + k <= NodeCount => cut[d + 1][s] <= cut[d + 1 + k][s]}
<1> USE CountsAssumption
<1>1. d \in Nat /\ e \in Nat /\ e < NodeCount
  BY DEF Nodes
<1>2. \A k \in Nodes : /\ cut[k][s] \in Int /\ cut[k + 1][s] \in Int
                        /\ cut[k][s] <= cut[k + 1][s]
  BY CutFacts
<1>3. 0 \in P
  <2>1. cut[d + 1][s] <= cut[d + 1 + 0][s]
    BY <1>1, <1>2
  <2> QED
    BY <2>1
<1>4. ASSUME NEW k \in P PROVE k + 1 \in P
  <2>1. k \in Nat /\ k + 1 \in Nat
    OBVIOUS
  <2>2. ASSUME d + 1 + (k + 1) <= NodeCount
        PROVE  cut[d + 1][s] <= cut[d + 1 + (k + 1)][s]
    <3>1. PICK j \in Nodes : j = d + 1 + k /\ j + 1 = d + 1 + (k + 1)
      BY <1>1, <2>1, <2>2 DEF Nodes
    <3>2. cut[d + 1][s] <= cut[j][s]
      BY <1>1, <2>1, <2>2, <3>1
    <3> QED
      BY <1>2, <3>1, <3>2
  <2> QED
    BY <2>1, <2>2
<1>5. P = Nat
  <2>1. P \in SUBSET Nat
    OBVIOUS
  <2> HIDE DEF P
  <2> QED
    BY <1>3, <1>4, <2>1, NumberInduction
<1>6. PICK k \in Nat : k = e - (d + 1)
  BY <1>1
<1>7. d + 1 + k = e
  BY <1>1, <1>6
<1>8. d + 1 + k <= NodeCount => cut[d + 1][s] <= cut[d + 1 + k][s]
  BY <1>5
<1> QED
  BY <1>1, <1>7, <1>8

\* So no item is given to two destinations.
LEMMA GivenApart ==
  ASSUME NEW cut \in Cuts, NEW d \in Nodes, NEW e \in Nodes, d # e,
         NEW p \in Given(cut, d)
  PROVE  p \notin Given(cut, e)
<1>1. /\ p[1] \in Nodes /\ p[2] \in Nat
      /\ cut[d][p[1]] < p[2] /\ p[2] <= cut[d + 1][p[1]]
  BY DEF Given
<1>2. /\ cut[d][p[1]] \in Nat /\ cut[d + 1][p[1]] \in Nat
      /\ cut[e][p[1]] \in Nat /\ cut[e + 1][p[1]] \in Nat
  BY <1>1, CutFacts, CountsAssumption
<1>3. CASE d < e
  <2>1. cut[d + 1][p[1]] <= cut[e][p[1]]
    BY <1>1, <1>3, CutsInOrder
  <2> QED
    BY <1>1, <1>2, <2>1 DEF Given
<1>4. CASE e < d
  <2>1. cut[e + 1][p[1]] <= cut[d][p[1]]
    BY <1>1, <1>4, CutsInOrder
  <2> QED
    BY <1>1, <1>2, <2>1 DEF Given
<1> QED
  BY <1>3, <1>4 DEF Nodes

\* What a destination sorts are the items of its range.
LEMMA OutputsRight ==
  ASSUME ServedInv, ContentInv, NEW d \in Nodes,
         dst[d].pc \in {"sort", "report", "done", "aborted"}
  PROVE  /\ Ranged /\ man.cut \in Cuts
         /\ Sorted(dst[d].array) = Sorted([p \in Given(man.cut, d) |-> Item(p)])
         /\ Sorted(dst[d].array) \in [1 .. ItemsCount -> Nat]
<1>1. /\ Ranged /\ Len(dst[d].array) = ItemsCount /\ Had(d) = Given(man.cut, d)
      /\ man.cut \in Cuts
  BY AllReceived DEF ServedInv, Orders
<1>2. PICK s : s = dst[d].array
  OBVIOUS
<1>3. PICK t : t = [p \in Given(man.cut, d) |-> Item(p)]
  OBVIOUS
<1>4. s \in Seq(Nat) /\ Len(s) = ItemsCount /\ ItemsCount \in Nat
  BY <1>1, <1>2, CountsAssumption DEF ContentInv, Holds
<1>5. Items(s) /\ Number(s) = ItemsCount /\ DOMAIN s = 1 .. ItemsCount
  <2>1. s \in [1 .. ItemsCount -> Nat]
    BY <1>4
  <2> QED
    BY <1>4, <2>1, FirstNumbers DEF Items, Number
<1>6. Items(t) /\ DOMAIN t = Given(man.cut, d)
  <2>1. IsFiniteSet(Given(man.cut, d))
    BY <1>1, HadIsGiven
  <2>2. ASSUME NEW p \in Given(man.cut, d)
        PROVE  Item(p) \in Nat
    <3>1. p[1] \in Nodes /\ p[2] \in 1 .. ItemsCount
      BY DEF Given
    <3> QED
      BY <3>1, InputSorted DEF Item
  <2> QED
    BY <1>3, <2>1, <2>2 DEF Items
<1>7. PICK place \in Bijection(1 .. ItemsCount, Given(man.cut, d)) :
        \A k \in 1 .. ItemsCount : s[k] = Item(place[k])
  <2>1. \E place \in Bijection(1 .. Len(dst[d].array), Had(d)) :
          \A k \in 1 .. Len(dst[d].array) : dst[d].array[k] = Item(place[k])
    BY DEF ContentInv, Holds
  <2> QED
    BY <1>1, <1>2, <2>1, Zenon
<1>8. \A k \in DOMAIN s : t[place[k]] = s[k]
  <2>1. \A k \in 1 .. ItemsCount : place[k] \in Given(man.cut, d)
    BY <1>7 DEF Bijection, Injection
  <2> QED
    BY <1>3, <1>5, <1>7, <2>1
<1>9. Sorted(t) = Sorted(s)
  BY <1>5, <1>6, <1>7, <1>8, SortedSame
<1> QED
  BY <1>1, <1>2, <1>3, <1>5, <1>9, SortedRanks

-----------------------------------------------------------------------------
\* What the other invariants leave open of the types.
Shaped ==
  /\ output = [d \in Nodes |-> output[d]]
  /\ \A s \in Nodes : src[s].pc \in {"start", "exited"} => src[s].array = <<>>
  /\ \A d \in Nodes : dst[d].client \in Nodes \cup {-1}

\* Every step keeps it.
LEMMA ShapedStep ==
  ASSUME ServedInv, ExInv, ContentInv, Shaped, [Next]_vars
  PROVE  Shaped'
<1>1. ASSUME NEW s \in Nodes, SourceStep(s)
      PROVE  Shaped'
  <2>1. UNCHANGED <<output, dst>>
    BY <1>1 DEF SourceStep, SourceSort, SourceExit, SourceWriteCrc, SourceWriteHistogram,
       SourceAnswer, SourceReadRequest, SourceSend, SourceReceive
  <2>2. \A k \in Nodes : k # s => src'[k] = src[k]
    <3>1. DOMAIN src = Nodes
      BY DEF ExInv, Shape
    <3> QED
      BY Zenon, <1>1, <3>1 DEF SourceStep, SourceSort, SourceExit, SourceWriteCrc,
         SourceWriteHistogram, SourceAnswer, SourceReadRequest, SourceSend, SourceReceive
  <2>3. src'[s].pc \in {"start", "exited"} => src'[s].array = <<>>
    <3> USE DEF ExInv, Shape, ContentInv, SourceSorted, Shaped
    <3>1. CASE SourceSort(s)
      BY <3>1 DEF SourceSort
    <3>2. CASE SourceExit(s)
      BY <3>2 DEF SourceExit
    <3>3. CASE SourceWriteCrc(s)
      BY <3>3 DEF SourceWriteCrc
    <3>4. CASE SourceWriteHistogram(s)
      BY <3>4 DEF SourceWriteHistogram
    <3>5. CASE SourceAnswer(s)
      BY <3>5 DEF SourceAnswer
    <3>6. CASE SourceReadRequest(s)
      BY <3>6 DEF SourceReadRequest
    <3>7. CASE SourceSend(s)
      BY <3>7, SendFacts DEF Sends
    <3>8. CASE SourceReceive(s)
      <4>1. PICK d \in Nodes : Receives(s, d)
        BY <3>8, ReceiveFacts
      <4>2. src[s].sent < Size(s, d) \/ src[s].sent = Size(s, d)
        <5>1. Ranged /\ src[s].sent \in 0 .. Size(s, d)
          BY <4>1 DEF Receives
        <5>2. Size(s, d) \in Nat
          BY <5>1, PairFacts
        <5>3. PICK n \in Nat : n = Size(s, d)
          BY <5>2
        <5> QED
          BY <5>1, <5>3
      <4>3. src'[s].pc \in {"transfer", "done"}
        <5>1. CASE src[s].sent < Size(s, d)
          BY <4>1, <5>1 DEF Receives
        <5>2. CASE src[s].sent = Size(s, d)
          <6>1. src'[s].pc = IF d + 1 < NodeCount THEN "transfer" ELSE "done"
            BY <4>1, <5>2 DEF Receives
          <6> QED
            BY <6>1
        <5> QED
          BY <4>2, <5>1, <5>2
      <4> QED
        BY <4>3
    <3> QED
      BY <1>1, <3>1, <3>2, <3>3, <3>4, <3>5, <3>6, <3>7, <3>8 DEF SourceStep
  <2> QED
    BY <2>1, <2>2, <2>3 DEF Shaped
<1>2. CASE ManagerStep
  <2>1. UNCHANGED <<output, src, dst>>
    BY Zenon, <1>2 DEF ManagerStep, ManagerReadCrc, ManagerReadHeader, ManagerReadArray,
       ManagerAnalyze, ManagerAsk, ManagerHear, ManagerFault, ManagerPartition,
       ManagerTell, ManagerReadResult
  <2> QED
    BY <2>1 DEF Shaped
<1>3. ASSUME NEW d \in Nodes, DestStep(d)
      PROVE  Shaped'
  <2>1. UNCHANGED src
    BY Zenon, <1>3 DEF DestStep, DestRead, DestWrite, DestSave, DestReport
  <2>2. output' = [e \in Nodes |-> output'[e]]
    BY <1>3 DEF Shaped, DestStep, DestRead, DestWrite, DestSave, DestReport
  <2>3. \A e \in Nodes : dst'[e].client \in Nodes \cup {-1}
    <3> USE DEF ServedInv, TransferShape, Shaped
    <3>1. CASE DestRead(d)
      <4>1. PICK s, m : Reads(s, d, m)
        BY <3>1, ReadFacts
      <4>2. s \in Nodes /\ dst'[d].client = s /\ \A e \in Nodes : e # d => dst'[e] = dst[e]
        BY <4>1 DEF Reads
      <4> QED
        BY <4>2
    <3>2. CASE DestWrite(d)
      BY <3>2 DEF DestWrite
    <3>3. CASE DestSave(d)
      BY <3>3 DEF DestSave
    <3>4. CASE DestReport(d)
      BY <3>4 DEF DestReport
    <3> QED
      BY <1>3, <3>1, <3>2, <3>3, <3>4 DEF DestStep
  <2> QED
    BY <2>1, <2>2, <2>3 DEF Shaped
<1>4. CASE UNCHANGED vars
  BY <1>4 DEF vars, Shaped
<1> QED
  BY <1>1, <1>2, <1>3, <1>4 DEF Next

\* A source has no more for a destination than there are items.
LEMMA SizeBound ==
  ASSUME ServedInv, Ranged, NEW s \in Nodes, NEW d \in Nodes
  PROVE  Size(s, d) \in 0 .. ItemsCount
<1>1. /\ man.cut[d][s] \in 0 .. ItemsCount /\ man.cut[d + 1][s] \in 0 .. ItemsCount
      /\ Size(s, d) \in Nat /\ man.cut[d + 1][s] = man.cut[d][s] + Size(s, d)
  BY PairFacts
<1>2. PICK a, b, n : a = man.cut[d][s] /\ b = man.cut[d + 1][s] /\ n = Size(s, d)
  OBVIOUS
<1>3. a \in 0 .. ItemsCount /\ b \in 0 .. ItemsCount /\ n \in Nat /\ b = a + n
  BY <1>1, <1>2
<1>4. n \in 0 .. ItemsCount
  BY <1>3, CountsAssumption
<1> QED
  BY <1>2, <1>4

\* A message on its way is a header with a size, or a part with items.
LEMMA MessageTypes ==
  ASSUME ServedInv, ContentInv, NEW s \in Nodes, NEW d \in Nodes
  PROVE  ranges[s][d].request = <<>> \/ ranges[s][d].request[1] \in DataMessages
<1> SUFFICES ASSUME ranges[s][d].request # <<>>
             PROVE  ranges[s][d].request[1] \in DataMessages
  OBVIOUS
<1>1. Line(s, d) /\ Progress(s)
  BY DEF ServedInv
<1>2. Serving(s, d) /\ Unread(s, d)
  BY <1>1 DEF Line, Fresh, InHand, Replied
<1>3. PICK m : m = ranges[s][d].request[1]
  OBVIOUS
<1>4. Sent(s, m)
  BY <1>2, <1>3 DEF Unread
<1>5. CASE src[s].sent = 0 /\ m = RangeHeader(Size(s, src[s].to))
  <2>1. src[s].to = d /\ Ranged
    BY <1>2 DEF Serving, ServedInv, Orders, Transferring, Ordered
  <2>2. Size(s, d) \in 0 .. ItemsCount
    BY <2>1, SizeBound
  <2> QED
    BY <1>3, <1>5, <2>1, <2>2 DEF RangeHeader, DataMessages
<1>6. CASE m.type = "EPACKET_RANGE_PART" /\ m = RangePart(m.items)
  <2>1. m.items \in Seq(Nat)
    BY <1>3, <1>6 DEF ContentInv, Carried, Header
  <2> QED
    BY <1>3, <1>6, <2>1 DEF RangePart, DataMessages
<1> QED
  BY <1>4, <1>5, <1>6 DEF Sent

\* What is written over items are items.
LEMMA OverwrittenItems ==
  ASSUME NEW file \in Seq(Nat), NEW items \in Seq(Nat)
  PROVE  Overwritten(file, items) \in Seq(Nat)
<1>1. \A i \in Len(items) + 1 .. Len(file) : file[i] \in Nat
  OBVIOUS
<1>2. SubSeq(file, Len(items) + 1, Len(file)) \in Seq(Nat)
  BY <1>1, SubSeqProperties
<1> QED
  BY <1>2 DEF Overwritten

\* So an output file has items, whatever became of it.
LEMMA FilesHoldItems ==
  ASSUME NEW file \in Seq(Nat), NEW items \in Seq(Nat),
         NEW end \in Saved(file, items) \cup Torn(file, items)
  PROVE  end \in Seq(Nat)
<1>1. ASSUME NEW n \in 0 .. Len(items) - 1
      PROVE  Overwritten(file, SubSeq(items, 1, n)) \in Seq(Nat)
  <2>1. \A i \in 1 .. n : items[i] \in Nat
    OBVIOUS
  <2>2. SubSeq(items, 1, n) \in Seq(Nat)
    BY <2>1, SubSeqProperties
  <2> QED
    BY <2>2, OverwrittenItems
<1> QED
  BY <1>1, OverwrittenItems DEF Saved, Torn

\* What the invariants say of types.
LEMMA AllTyped ==
  ASSUME ExInv, ServedInv, ContentInv, Shaped
  PROVE  TypeOK
<1>0. <<>> \in Seq(Nat)
  OBVIOUS
<1>1. input \in Inputs
  BY DEF ContentInv
<1>2. output \in [Nodes -> Seq(Nat)]
  <2>1. ASSUME NEW d \in Nodes PROVE output[d] \in Seq(Nat)
    <3>1. OldOutputs[d] \in Seq(Nat)
      BY InputsAssumption
    <3>2. CASE dst[d].pc \in {"read", "write", "sort"}
      BY <3>1, <3>2 DEF ContentInv, Written
    <3>3. CASE dst[d].pc \in {"report", "done", "aborted"}
      <4>1. Sorted(dst[d].array) \in [1 .. ItemsCount -> Nat]
        BY <3>3, OutputsRight
      <4>2. Sorted(dst[d].array) \in Seq(Nat)
        BY <4>1, CountsAssumption
      <4>3. output[d] \in Saved(OldOutputs[d], Sorted(dst[d].array))
                            \cup Torn(OldOutputs[d], Sorted(dst[d].array))
        BY <3>3 DEF ContentInv, Written
      <4> QED
        BY <3>1, <4>2, <4>3, FilesHoldItems
    <3> QED
      BY <3>2, <3>3 DEF ServedInv, TransferShape, DestPcs
  <2> QED
    BY <2>1 DEF Shaped
<1>3. ASSUME NEW s \in Nodes
      PROVE  /\ src[s].pc \in SourcePcs
             /\ src[s].array \in Seq(Nat)
             /\ src[s].step \in 1 .. 4
             /\ src[s].to \in 0 .. NodeCount
             /\ src[s].sent \in -1 .. ItemsCount
  <2>1. src[s].array \in Seq(Nat)
    <3>1. CASE src[s].pc \in {"start", "exited"}
      BY <1>0, <3>1 DEF Shaped
    <3>2. CASE src[s].pc \notin {"start", "exited"}
      BY <3>2, InputSorted, CountsAssumption DEF ContentInv, SourceSorted
    <3> QED
      BY <3>1, <3>2
  <2>2. src[s].to \in 0 .. NodeCount /\ Progress(s)
    BY PairFacts DEF ServedInv
  <2>3. src[s].sent \in -1 .. ItemsCount
    <3>1. CASE src[s].pc \in {"transfer", "reply"}
      <4>1. src[s].to \in Nodes /\ Ranged
        BY <2>2, <3>1 DEF Progress, ServedInv, Orders, Transferring, Ordered
      <4>2. Size(s, src[s].to) \in 0 .. ItemsCount
        BY <4>1, SizeBound
      <4> QED
        BY <2>2, <3>1, <4>2, CountsAssumption DEF Progress
    <3>2. CASE src[s].pc \notin {"transfer", "reply"}
      BY <2>2, <3>2, CountsAssumption DEF Progress, Transferring
    <3> QED
      BY <3>1, <3>2
  <2> QED
    BY <2>1, <2>2, <2>3 DEF ExInv, Shape
<1>4. /\ man.pc \in ManagerPcs /\ man.dest \in Nodes /\ man.to \in Nodes
      /\ man.step \in 1 .. 4 /\ man.told \in 0 .. NodeCount
  BY DEF ExInv, Shape, ServedInv, Orders
<1>5. ASSUME NEW d \in Nodes
      PROVE  /\ dst[d].pc \in DestPcs
             /\ dst[d].array \in Seq(Nat)
             /\ dst[d].waiting \in Nat
             /\ dst[d].ranges \in Nat
             /\ dst[d].client \in Nodes \cup {-1}
  BY CountTypes DEF ServedInv, TransferShape, ContentInv, Holds, Shaped
<1>6. \A s \in Nodes : detail[s].turn \in {"send", "recv"}
  BY DEF ExInv, Shape, Link
<1> QED
  BY <1>1, <1>2, <1>3, <1>4, <1>5, <1>6, MessageTypes
     DEF TypeOK, SourcePcs, ManagerPcs, Collecting, DestPcs

\* Type correctness, for any number of nodes, items and chunks. It rests on all three
\* invariants: that a size fits its bound is known because the ranges are those of a
\* cut, and that a file has numbers because what is written over it is a sorted array.
THEOREM TypeSafe == Spec => []TypeOK
<1>1. Init => Shaped
  BY InputsAssumption DEF Init, Shaped
<1>2. Shaped /\ ContentInv /\ ServedInv /\ ExInv /\ [Next]_vars => Shaped'
  BY ShapedStep
<1>3. Shaped /\ ContentInv /\ ServedInv /\ ExInv => TypeOK
  BY AllTyped
<1> QED
  BY <1>1, <1>2, <1>3, ContentInvariance, ServedInvariance, ExchangeInvariance,
     PTL DEF Spec, Steps

-----------------------------------------------------------------------------
\* The abstract job sorts as the protocol does.
LEMMA JobSorted ==
  ASSUME NEW s
  PROVE  Job!Sorted(s) = Sorted(s)
BY Zenon DEF Sorted, Job!Sorted, Below, Job!Below, UpTo, Job!UpTo,
   Cardinality, Job!Cardinality, ToSet, Job!ToSet

\* The items at some places, sorted.
LEMMA JobItems ==
  ASSUME NEW places
  PROVE  Job!ItemsAt(places) = Sorted([p \in places |-> Item(p)])
BY JobSorted DEF Item, Job!ItemsAt

\* ItemsCount of the items that are left.
LEMMA JobSubsets ==
  ASSUME NEW places \in SUBSET Left, Cardinality(places) = ItemsCount
  PROVE  places \in Job!kSubset(ItemsCount, Left)
<1>1. Job!Cardinality(places) = Cardinality(places)
  BY Zenon DEF Job!Cardinality, Cardinality
<1> QED
  BY <1>1 DEF Job!kSubset

\* Its destinations do to the output file what those of the protocol do.
LEMMA JobFiles ==
  ASSUME NEW file, NEW items
  PROVE  /\ Job!Saved(file, items) = Saved(file, items)
         /\ Job!Torn(file, items) = Torn(file, items)
BY Zenon DEF Saved, Job!Saved, Torn, Job!Torn, Overwritten, Job!Overwritten

\* No destination has sorted or saved anything before the ranges are known.
LEMMA NoneWritten ==
  ASSUME ServedInv, ContentInv, ~ Ranged, NEW d \in Nodes
  PROVE  output[d] = OldOutputs[d] /\ SortedArrays[d] = <<>>
BY AllReceived DEF ServedInv, TransferShape, DestPcs, ContentInv, Written, SortedArrays

\* A destination that saves its items takes its share of the abstract job.
LEMMA SaveIsShare ==
  ASSUME ServedInv, ContentInv, NEW d \in Nodes, DestSave(d)
  PROVE  Job!SortShare(d)
<1>1. PICK end \in Outcomes(output[d], Sorted(dst[d].array)) :
        /\ output' = [output EXCEPT ![d] = end.file]
        /\ dst' = [dst EXCEPT ![d].pc = end.pc]
  BY DEF DestSave
<1>2. dst[d].pc = "sort" /\ UNCHANGED <<input, man>>
  BY DEF DestSave
<1>3. /\ Ranged /\ man.cut \in Cuts
      /\ Sorted(dst[d].array) = Sorted([p \in Given(man.cut, d) |-> Item(p)])
      /\ Sorted(dst[d].array) \in [1 .. ItemsCount -> Nat]
  BY <1>2, OutputsRight
<1>4. PICK places : places = Given(man.cut, d)
  OBVIOUS
<1>5. PICK items : items = Job!ItemsAt(places)
  OBVIOUS
<1>6. items = Sorted(dst[d].array)
  BY <1>3, <1>4, <1>5, JobItems
<1>7. /\ DOMAIN dst = Nodes /\ dst'[d].array = dst[d].array
      /\ dst'[d].pc \in {"report", "done", "aborted"}
      /\ \A e \in Nodes : e # d => dst'[e] = dst[e]
  BY <1>1, OutcomeCases DEF ServedInv, TransferShape
<1>8. SortedArrays[d] = <<>> /\ SortedArrays'[d] = items
  BY <1>2, <1>6, <1>7 DEF SortedArrays
<1>9. SortedArrays' = [SortedArrays EXCEPT ![d] = items]
  BY <1>6, <1>7 DEF SortedArrays
<1>10. items # <<>>
  <2>1. 1 \in DOMAIN items
    BY <1>3, <1>6, CountsAssumption
  <2>2. DOMAIN <<>> = {}
    OBVIOUS
  <2> QED
    BY <2>1, <2>2
<1>11. places \in SUBSET Left
  <2> SUFFICES ASSUME NEW p \in Given(man.cut, d), NEW e \in Nodes, SortedArrays[e] # <<>>
               PROVE  p \notin Given(man.cut, e)
    BY <1>4 DEF Left, Given
  <2>1. e # d
    BY <1>8
  <2> QED
    BY <1>3, <2>1, GivenApart
<1>12. Cardinality(places) = ItemsCount
  BY <1>3, <1>4, HadIsGiven
<1>13. places \in Job!kSubset(ItemsCount, Left)
  BY <1>11, <1>12, JobSubsets
<1>14. Left' = Left \ places
  <2>1. \A e \in Nodes : e # d => SortedArrays'[e] = SortedArrays[e]
    BY <1>7 DEF SortedArrays
  <2> SUFFICES ASSUME NEW p \in Nodes \X (1 .. ItemsCount)
               PROVE  (\A e \in Nodes : SortedArrays'[e] # <<>> => p \notin Given(man.cut, e))
                        <=> /\ \A e \in Nodes : SortedArrays[e] # <<>>
                                                   => p \notin Given(man.cut, e)
                            /\ p \notin places
    BY <1>2 DEF Left, Given
  <2> QED
    BY <1>4, <1>8, <1>10, <2>1
<1>15. end.file \in Job!Saved(output[d], items)
                      \cup (IF MayFail THEN Job!Torn(output[d], items) ELSE {})
  BY <1>1, <1>6, OutcomeCases, JobFiles
<1> QED
  BY <1>1, <1>2, <1>5, <1>8, <1>9, <1>13, <1>14, <1>15 DEF Job!SortShare

\* Every other step leaves the abstract job as it is.
LEMMA OtherStepsStutter ==
  ASSUME ServedInv, ContentInv, [Next]_vars, \A d \in Nodes : ~ DestSave(d)
  PROVE  UNCHANGED <<input, output, SortedArrays, Left>>
<1>1. /\ UNCHANGED <<input, output, SortedArrays>>
      /\ man'.cut = man.cut \/ ~ Ranged
  <2>1. ASSUME NEW s \in Nodes, SourceStep(s)
        PROVE  UNCHANGED <<input, output, man, dst>>
    BY <2>1 DEF SourceStep, SourceSort, SourceExit, SourceWriteCrc, SourceWriteHistogram,
       SourceAnswer, SourceReadRequest, SourceSend, SourceReceive
  <2>2. CASE ManagerStep
    <3>1. UNCHANGED <<input, output, dst>>
      BY Zenon, <2>2 DEF ManagerStep, ManagerReadCrc, ManagerReadHeader, ManagerReadArray,
         ManagerAnalyze, ManagerAsk, ManagerHear, ManagerFault, ManagerPartition,
         ManagerTell, ManagerReadResult
    <3> QED
      BY <2>2, <3>1, ManagerCuts DEF SortedArrays
  <2>3. ASSUME NEW d \in Nodes, DestStep(d)
        PROVE  UNCHANGED <<input, output, man, SortedArrays>>
    <3>1. UNCHANGED <<input, output, man>>
      BY Zenon, <2>3 DEF DestStep, DestRead, DestWrite, DestReport
    <3>2. \A e \in Nodes : \/ dst'[e] = dst[e]
                          \/ {dst[e].pc, dst'[e].pc} \subseteq {"read", "write", "sort"}
                          \/ /\ {dst[e].pc, dst'[e].pc} \subseteq {"report", "done"}
                             /\ dst'[e].array = dst[e].array
      <4> USE DEF ServedInv, TransferShape
      <4>1. CASE DestRead(d)
        BY <4>1, ReadFacts DEF Reads
      <4>2. CASE DestWrite(d)
        BY <4>2 DEF DestWrite
      <4>3. CASE DestReport(d)
        BY <4>3 DEF DestReport
      <4> QED
        BY <2>3, <4>1, <4>2, <4>3 DEF DestStep
    <3> QED
      BY <3>1, <3>2 DEF SortedArrays
  <2>4. CASE UNCHANGED vars
    BY <2>4 DEF vars, SortedArrays
  <2> QED
    BY <2>1, <2>2, <2>3, <2>4 DEF Next, SortedArrays
<1>2. CASE man'.cut = man.cut
  BY <1>1, <1>2 DEF Left, Given
<1>3. CASE ~ Ranged
  <2>1. \A d \in Nodes : SortedArrays[d] = <<>>
    BY <1>3, NoneWritten
  <2> QED
    BY <1>1, <2>1 DEF Left
<1> QED
  BY <1>1, <1>2, <1>3

\* The safety half of ImplementsSortJob, for every number of nodes, items and chunks,
\* every input, and output files of before of any length: the protocol begins where the
\* abstract job does, and in each of its steps a destination takes a share, the sorted
\* sequence of ItemsCount items that are in no other share, and its output file gets all
\* of it or stays as it was, or gets some where processes may fail; or the step leaves
\* inputs, outputs and shares alone.
THEOREM ImplementsJobSteps ==
  Spec => Job!Init /\ [][Job!Next]_(Job!jobVars)
<1>1. Init => Job!Init
  <2> SUFFICES ASSUME Init PROVE Job!Init
    OBVIOUS
  <2>1. \A d \in Nodes : dst[d].pc = "read"
    BY DEF Init
  <2>2. SortedArrays = [d \in Nodes |-> <<>>]
    BY <2>1 DEF SortedArrays
  <2>3. Left = Nodes \X (1 .. ItemsCount)
    BY <2>2 DEF Left
  <2> QED
    BY <2>2, <2>3, InputsAssumption DEF Init, Job!Init, Job!Nodes, Nodes
<1>2. ServedInv /\ ContentInv /\ [Next]_vars => [Job!Next]_(Job!jobVars)
  <2> SUFFICES ASSUME ServedInv, ContentInv, [Next]_vars
               PROVE  [Job!Next]_(Job!jobVars)
    OBVIOUS
  <2>1. ASSUME NEW d \in Nodes, DestSave(d)
        PROVE  Job!Next
    BY <2>1, SaveIsShare DEF Job!Next, Job!Nodes, Nodes
  <2>2. CASE \A d \in Nodes : ~ DestSave(d)
    BY <2>2, OtherStepsStutter DEF Job!jobVars
  <2> QED
    BY <2>1, <2>2
<1> QED
  BY <1>1, <1>2, ServedInvariance, ContentInvariance, PTL DEF Spec, Steps
=============================================================================
