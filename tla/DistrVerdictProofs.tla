------------------------- MODULE DistrVerdictProofs --------------------------
(***************************************************************************)
(* For any number of nodes and items: the manager has read one crc of each *)
(* source and one result of each destination when it gives its verdict,    *)
(* and the verdict is right. The crcs it compares are sums of the same     *)
(* items, and bounds in order mean arrays in order.                         *)
(*                                                                         *)
(* When file servers end, the nodes that are left see the protocol as      *)
(* before: what the theorems say of its steps holds of them.               *)
(***************************************************************************)
EXTENDS DistrJobProofs, DistrMounts

-----------------------------------------------------------------------------
(* The crc of an array. *)

\* array_crc is the sum of the items, modulo CRC_ATOM.
LEMMA CrcSum ==
  ASSUME NEW n \in Nat, NEW s \in [1 .. n -> Nat]
  PROVE  Crc(s) = SumFunctionOnSet(s, 1 .. n) % CrcAtom
<1> DEFINE M == CrcAtom
           D == 1 .. n
           V == Int
           c == [T \in SUBSET D |-> Max(T)]
           step == [x \in D |-> [v \in V |-> (v + (s[x] % M)) % M]]
           def(i) == [T \in SUBSET D |->
                        IF T = {} THEN 0
                        ELSE (i[T \ {Max(T)}] + (s[Max(T)] % M)) % M]
           iter == CHOOSE i : i = def(i)
           r == [T \in SUBSET D |-> SumFunctionOnSet(s, T) % M]
<1>1. M \in Nat \ {0} /\ IsFiniteSet(D) /\ DOMAIN s = D
  BY CountsAssumption, FirstNumbers
<1>2. Crc(s) = iter[D]
  BY <1>1, Zenon DEF Crc, FoldLeft, MapThenFoldSet
<1>3. \A T \in SUBSET D : T # {} => Max(T) \in T
  BY HighestPlace
<1>4. Summable(s, D)
  BY <1>1 DEF Summable
<1>5. ASSUME NEW T \in SUBSET D, T # {}
      PROVE  r[T] = (r[T \ {Max(T)}] + (s[Max(T)] % M)) % M
  <2>1. PICK x \in T : x = Max(T)
    BY <1>3, <1>5
  <2>2. Summable(s, T)
    BY <1>4, FS_Subset DEF Summable
  <2>3. PICK a \in Int : a = SumFunctionOnSet(s, T \ {x})
    BY <2>2, SumRemove
  <2>4. SumFunctionOnSet(s, T) = s[x] + a
    BY <2>2, <2>3, SumRemove
  <2>5. PICK b \in Int : b = s[x]
    BY <1>4 DEF Summable
  <2>6. r[T] = (b + a) % M /\ r[T \ {x}] = a % M
    <3>1. T \ {x} \in SUBSET D
      OBVIOUS
    <3> QED
      BY <2>3, <2>4, <2>5, <3>1
  <2> HIDE DEF r, M
  <2>7. ((a % M) + (b % M)) % M = (a + b) % M
    BY <1>1, RemainderOfSum
  <2>8. a + b = b + a
    OBVIOUS
  <2> QED
    BY <2>1, <2>5, <2>6, <2>7, <2>8
<1>6. r[{}] = 0
  <2>1. r[{}] = 0 % M
    BY SumEmpty
  <2>2. 0 = (M * 0) + 0 /\ 0 \in 0 .. M - 1
    BY <1>1
  <2> QED
    BY <1>1, <2>1, <2>2, Remainder
<1>7. r = def(r)
  <2> HIDE DEF r, M
  <2>1. \A T \in SUBSET D : r[T] = IF T = {} THEN 0
                                  ELSE (r[T \ {Max(T)}] + (s[Max(T)] % M)) % M
    BY <1>5, <1>6
  <2>2. r = [T \in SUBSET D |-> r[T]]
    BY DEF r
  <2> QED
    BY <2>1, <2>2
<1>8. iter = def(iter)
  <2> HIDE DEF def, r
  <2> QED
    BY <1>7
<1>9. /\ \A T \in SUBSET D : T # {} => c[T] \in T /\ c[T] = Max(T)
      /\ \A x \in D, v \in V : step[x][v] \in V /\ step[x][v] = (v + (s[x] % M)) % M
  <2>1. ASSUME NEW x \in D, NEW v \in V
        PROVE  step[x][v] \in V /\ step[x][v] = (v + (s[x] % M)) % M
    <3>1. PICK a \in Int : a = s[x] % M
      BY <1>1, <1>4, Division DEF Summable
    <3>2. (v + a) % M \in Int
      BY <1>1, Division
    <3> QED
      BY <3>1, <3>2
  <2> QED
    BY <1>3, <2>1
<1>10. Folding(D, V, 0, c, step)
  <2> HIDE DEF D, c, step
  <2> QED
    BY <1>1, <1>9 DEF Folding
<1>11. ASSUME NEW g, g = def(g)
       PROVE  IsFold(g, D, V, 0, c, step)
  <2>1. g[{}] = 0
    BY <1>11
  <2>2. ASSUME NEW T \in SUBSET D, T # {}, g[T \ {c[T]}] \in V
        PROVE  g[T] = step[c[T]][g[T \ {c[T]}]]
    <3>1. c[T] = Max(T) /\ c[T] \in D
      BY <1>9, <2>2
    <3>2. g[T] = (g[T \ {Max(T)}] + (s[Max(T)] % M)) % M
      <4> HIDE DEF M
      <4> QED
        BY <1>11, <2>2
    <3> HIDE DEF c, step, M
    <3> QED
      BY <1>9, <2>2, <3>1, <3>2
  <2> HIDE DEF def, c, step
  <2> QED
    BY <2>1, <2>2 DEF IsFold
<1> HIDE DEF def, iter, c, step, D, V
<1>12. IsFold(r, D, V, 0, c, step) /\ IsFold(iter, D, V, 0, c, step)
  <2> HIDE DEF r
  <2> QED
    BY <1>7, <1>8, <1>11
<1>13. D \in SUBSET D
  OBVIOUS
<1>14. r[D] = iter[D]
  <2> HIDE DEF r
  <2> QED
    BY <1>10, <1>12, <1>13, FoldUnique
<1> QED
  BY <1>2, <1>13, <1>14 DEF D

-----------------------------------------------------------------------------
(* What the manager reads of all the nodes. *)

\* What the manager has read: a sequence of the values of val on T, in some order.
Gathered(seq, val, T) ==
  seq \in Seq(ToSet(seq)) /\ Permuted(seq, Restrict(val, T))

\* Nothing yet.
LEMMA GatheredNone ==
  ASSUME NEW val
  PROVE  Gathered(<<>>, val, {})
<1>1. PICK b : b = [k \in {} |-> k]
  OBVIOUS
<1>2. DOMAIN <<>> = {} /\ DOMAIN Restrict(val, {}) = {}
  BY DEF Restrict
<1>3. b \in Bijection({}, {})
  BY <1>1, BijectionFacts
<1>4. Permuted(<<>>, Restrict(val, {}))
  BY <1>2, <1>3 DEF Permuted
<1> QED
  BY <1>4 DEF Gathered

\* As many as there are.
LEMMA GatheredNumber ==
  ASSUME NEW seq, NEW val, NEW T, Gathered(seq, val, T)
  PROVE  /\ Len(seq) \in Nat /\ DOMAIN seq = 1 .. Len(seq)
         /\ IsFiniteSet(T) /\ Cardinality(T) = Len(seq)
<1>1. Len(seq) \in Nat /\ DOMAIN seq = 1 .. Len(seq)
  BY DEF Gathered
<1>2. PICK b \in Bijection(DOMAIN seq, T) : TRUE
  BY DEF Gathered, Permuted, Restrict
<1>3. ExistsBijection(DOMAIN seq, T)
  BY <1>2 DEF ExistsBijection
<1>4. IsFiniteSet(1 .. Len(seq)) /\ Cardinality(1 .. Len(seq)) = Len(seq)
  BY <1>1, FirstNumbers
<1> QED
  BY <1>1, <1>3, <1>4, FS_Bijection

\* The value of one more is put behind the others.
LEMMA GatheredNext ==
  ASSUME NEW seq, NEW val, NEW T, Gathered(seq, val, T), NEW x, x \notin T
  PROVE  /\ Gathered(Append(seq, val[x]), val, T \cup {x})
         /\ Len(Append(seq, val[x])) = Len(seq) + 1
<1>1. PICK n \in Nat : n = Len(seq) /\ DOMAIN seq = 1 .. n
  BY GatheredNumber
<1>2. PICK b \in Bijection(1 .. n, T) : \A k \in 1 .. n : val[b[k]] = seq[k]
  <2>1. PICK b \in Bijection(DOMAIN seq, T) : \A k \in DOMAIN seq : Restrict(val, T)[b[k]] = seq[k]
    BY DEF Gathered, Permuted, Restrict
  <2>2. \A k \in DOMAIN seq : b[k] \in T
    BY <2>1, BijectionFacts
  <2> QED
    BY <1>1, <2>1, <2>2 DEF Restrict
<1>3. /\ b \in [1 .. n -> T] /\ \A k, l \in 1 .. n : b[k] = b[l] => k = l
      /\ \A t \in T : \E k \in 1 .. n : b[k] = t
  BY BijectionFacts
<1>4. PICK u : u = Append(seq, val[x])
  OBVIOUS
<1>5. /\ u \in Seq(ToSet(u)) /\ Len(u) = n + 1
      /\ \A k \in 1 .. n : u[k] = seq[k]
      /\ u[n + 1] = val[x]
  <2>1. PICK S : S = ToSet(seq) \cup {val[x]}
    OBVIOUS
  <2>2. seq \in Seq(S)
    <3>1. seq \in Seq(ToSet(seq))
      BY DEF Gathered
    <3>2. \A k \in 1 .. n : seq[k] \in S
      BY <1>1, <2>1 DEF ToSet
    <3> QED
      BY <1>1, <3>1, <3>2
  <2>3. /\ u \in Seq(S) /\ Len(u) = n + 1
        /\ \A k \in 1 .. n : u[k] = seq[k]
        /\ u[n + 1] = val[x]
    BY <1>1, <1>4, <2>1, <2>2, AppendProperties
  <2>4. u \in Seq(ToSet(u))
    BY <2>3 DEF ToSet
  <2> QED
    BY <2>3, <2>4
<1>6. DOMAIN u = 1 .. n + 1
  BY <1>5
<1>7. PICK c : c = [k \in 1 .. n + 1 |-> IF k <= n THEN b[k] ELSE x]
  OBVIOUS
<1>8. /\ \A k \in 1 .. n : c[k] = b[k] /\ c[k] \in T
      /\ c[n + 1] = x
      /\ \A k \in 1 .. n + 1 : k \in 1 .. n \/ k = n + 1
      /\ \A k \in 1 .. n : k \in 1 .. n + 1
      /\ n + 1 \in 1 .. n + 1
  BY <1>3, <1>7
<1>9. c \in Bijection(1 .. n + 1, T \cup {x})
  <2>1. c \in [1 .. n + 1 -> T \cup {x}]
    BY <1>7, <1>8
  <2>2. \A k, l \in 1 .. n + 1 : c[k] = c[l] => k = l
    BY <1>3, <1>8
  <2>3. \A t \in T \cup {x} : \E k \in 1 .. n + 1 : c[k] = t
    BY <1>3, <1>8
  <2> QED
    BY <2>1, <2>2, <2>3, BijectionFacts
<1>10. \A k \in 1 .. n + 1 : Restrict(val, T \cup {x})[c[k]] = u[k]
  BY <1>2, <1>5, <1>8 DEF Restrict
<1>11. Permuted(u, Restrict(val, T \cup {x}))
  <2>1. DOMAIN Restrict(val, T \cup {x}) = T \cup {x}
    BY DEF Restrict
  <2> QED
    BY <1>6, <1>9, <1>10, <2>1 DEF Permuted
<1> QED
  BY <1>1, <1>4, <1>5, <1>11 DEF Gathered

\* As many as there are nodes are those of all nodes.
LEMMA GatheredAll ==
  ASSUME NEW seq, NEW val, NEW T \in SUBSET Nodes, Gathered(seq, val, T),
         Len(seq) = NodeCount
  PROVE  T = Nodes /\ DOMAIN seq = 1 .. NodeCount
<1>1. /\ DOMAIN seq = 1 .. NodeCount /\ Cardinality(Nodes) = Cardinality(T)
      /\ IsFiniteSet(Nodes)
  BY GatheredNumber, NodesFinite
<1> QED
  BY <1>1, FS_Subset

-----------------------------------------------------------------------------
\* What a source sends as its crc, and when.
CrcOf(s) == Crc(Sorted(input[s]))
HasSentCrc(s) == src[s].pc \notin {"start", "exited", "crc"}

\* What a destination reports.
Result(d) ==
  LET array == Sorted(dst[d].array) IN
  [node |-> d, min |-> array[1], max |-> array[Len(array)], crc |-> Crc(array)]

\* The sources whose crcs, and the destinations whose results the manager has read.
CrcsRead == {s \in Nodes : HasSentCrc(s) /\ \A m \in crcPipe : m.src # s}
ResultsRead == {d \in Nodes : dst[d].pc = "done" /\ \A m \in resultPipe : m.node # d}

CrcsOfNodes == [s \in Nodes |-> CrcOf(s)]
ResultsOfNodes == [d \in Nodes |-> Result(d)]

\* The crcs and the results are on their way, or the manager has read them, in some order.
CrcsInv ==
  /\ \A m \in crcPipe : /\ m.src \in Nodes /\ HasSentCrc(m.src)
                        /\ m = [src |-> m.src, crc |-> CrcOf(m.src)]
  /\ Gathered(man.crcs, CrcsOfNodes, CrcsRead)
  /\ man.pc # "crc" => Len(man.crcs) = NodeCount

ResultsInv ==
  /\ \A m \in resultPipe : /\ m.node \in Nodes /\ dst[m.node].pc = "done"
                           /\ m = Result(m.node)
  /\ man.pc # "done" => /\ Gathered(man.results, ResultsOfNodes, ResultsRead)
                        /\ Len(man.results) < NodeCount
  /\ man.pc = "done" =>
       /\ man.results = [i \in 1 .. NodeCount |-> Result(i - 1)]
       /\ \A d \in Nodes : dst[d].pc = "done"

VerdictInv ==
  /\ {"crcs", "results"} \subseteq DOMAIN man
  /\ CrcsInv
  /\ ResultsInv

\* Nothing has been sent or read when the nodes start.
LEMMA VerdictInit ==
  ASSUME Init
  PROVE  VerdictInv
<1>1. /\ {"crcs", "results"} \subseteq DOMAIN man
      /\ man.pc = "crc" /\ man.crcs = <<>> /\ man.results = <<>>
      /\ crcPipe = {} /\ resultPipe = {}
      /\ \A s \in Nodes : src[s].pc = "start" /\ dst[s].pc = "read"
  BY DEF Init
<1>2. CrcsRead = {} /\ ResultsRead = {}
  BY <1>1 DEF CrcsRead, ResultsRead, HasSentCrc
<1>3. Len(<<>>) = 0 /\ 0 < NodeCount
  BY CountsAssumption
<1>4. /\ Gathered(<<>>, CrcsOfNodes, {})
      /\ Gathered(<<>>, ResultsOfNodes, {})
  BY GatheredNone
<1> QED
  BY <1>1, <1>2, <1>3, <1>4 DEF VerdictInv, CrcsInv, ResultsInv

-----------------------------------------------------------------------------
(* The steps. *)

\* A step that neither sends nor reads a crc.
LEMMA CrcsStay ==
  ASSUME VerdictInv, UNCHANGED <<input, crcPipe>>,
         \A s \in Nodes : HasSentCrc(s)' <=> HasSentCrc(s),
         man'.crcs = man.crcs, man.pc = "crc" => man'.pc = "crc"
                                  \/ Len(man.crcs) = NodeCount
  PROVE  CrcsInv'
<1>1. CrcsInv
  BY DEF VerdictInv
<1>2. CrcsRead' = CrcsRead /\ CrcsOfNodes' = CrcsOfNodes /\ \A s : CrcOf(s)' = CrcOf(s)
  BY DEF CrcsRead, CrcsOfNodes, CrcOf
<1>3. Gathered(man.crcs, CrcsOfNodes, CrcsRead)'
  BY <1>1, <1>2 DEF CrcsInv
<1> QED
  BY <1>1, <1>2, <1>3 DEF CrcsInv

\* A step that neither sends nor reads a result.
LEMMA ResultsStay ==
  ASSUME VerdictInv, UNCHANGED resultPipe,
         \A d \in Nodes : /\ dst'[d].pc = "done" <=> dst[d].pc = "done"
                          /\ dst[d].pc = "done" => dst'[d].array = dst[d].array,
         man'.results = man.results, man'.pc = "done" <=> man.pc = "done"
  PROVE  ResultsInv'
<1>1. ResultsInv
  BY DEF VerdictInv
<1>2. ResultsRead' = ResultsRead
  BY DEF ResultsRead
<1>3. \A d \in Nodes : dst[d].pc = "done" => Result(d)' = Result(d)
  BY DEF Result
<1>4. CASE man.pc # "done"
  <2>1. Restrict(ResultsOfNodes, ResultsRead)' = Restrict(ResultsOfNodes, ResultsRead)
    <3>1. \A d \in ResultsRead : d \in Nodes /\ Result(d)' = Result(d)
      BY <1>3 DEF ResultsRead
    <3> QED
      BY <1>2, <3>1 DEF Restrict, ResultsOfNodes
  <2>2. Gathered(man.results, ResultsOfNodes, ResultsRead)'
    BY <1>1, <1>4, <2>1 DEF ResultsInv, Gathered
  <2> QED
    BY <1>1, <1>3, <1>4, <2>2 DEF ResultsInv
<1>5. CASE man.pc = "done"
  <2>1. \A i \in 1 .. NodeCount : Result(i - 1)' = Result(i - 1)
    <3>1. \A i \in 1 .. NodeCount : i - 1 \in Nodes
      BY CountsAssumption DEF Nodes
    <3> QED
      BY <1>1, <1>3, <1>5, <3>1 DEF ResultsInv
  <2> QED
    BY <1>1, <1>3, <1>5, <2>1 DEF ResultsInv
<1> QED
  BY <1>4, <1>5

\* A source sends its crc once, behind sorting.
LEMMA CrcWritten ==
  ASSUME VerdictInv, ExInv, ContentInv, NEW s \in Nodes, SourceWriteCrc(s)
  PROVE  CrcsInv'
<1>1. /\ src[s].pc = "crc" /\ UNCHANGED <<input, man>>
      /\ crcPipe' = crcPipe \cup {[src |-> s, crc |-> Crc(src[s].array)]}
      /\ src' = [src EXCEPT ![s].pc = "hist"]
  BY DEF SourceWriteCrc
<1>2. src[s].array = Sorted(input[s])
  BY <1>1 DEF ContentInv, SourceSorted
<1>3. PICK m : m = [src |-> s, crc |-> CrcOf(s)]
  OBVIOUS
<1>4. crcPipe' = crcPipe \cup {m} /\ m.src = s
  BY <1>1, <1>2, <1>3 DEF CrcOf
<1>5. /\ HasSentCrc(s)' /\ ~ HasSentCrc(s)
      /\ \A k \in Nodes : k # s => (HasSentCrc(k)' <=> HasSentCrc(k))
  BY <1>1 DEF HasSentCrc, ExInv, Shape
<1>6. CrcsInv
  BY DEF VerdictInv
<1>7. CrcsRead' = CrcsRead
  BY <1>4, <1>5 DEF CrcsRead
<1>8. \A k : CrcOf(k)' = CrcOf(k)
  BY <1>1 DEF CrcOf
<1>9. CrcsOfNodes' = CrcsOfNodes
  BY <1>8 DEF CrcsOfNodes
<1>10. Gathered(man.crcs, CrcsOfNodes, CrcsRead)'
  BY <1>1, <1>6, <1>7, <1>9 DEF CrcsInv
<1>11. ASSUME NEW l \in crcPipe'
       PROVE  /\ l.src \in Nodes /\ HasSentCrc(l.src)'
              /\ l = [src |-> l.src, crc |-> CrcOf(l.src)']
  <2>1. CASE l = m
    BY <1>3, <1>4, <1>5, <1>8, <2>1
  <2>2. CASE l \in crcPipe
    BY <1>5, <1>6, <1>8, <2>2 DEF CrcsInv
  <2> QED
    BY <1>4, <2>1, <2>2
<1> QED
  BY <1>1, <1>6, <1>10, <1>11 DEF CrcsInv

\* The manager reads the crcs of all the sources, one each.
LEMMA CrcTaken ==
  ASSUME VerdictInv, ExInv, ManagerReadCrc
  PROVE  CrcsInv'
<1>1. PICK m \in crcPipe :
        /\ crcPipe' = crcPipe \ {m}
        /\ man' = [man EXCEPT !.crcs = Append(@, m.crc),
                              !.pc = IF Len(man.crcs) + 1 = NodeCount THEN "header" ELSE @]
  BY DEF ManagerReadCrc
<1>2. man.pc = "crc" /\ UNCHANGED <<input, src>>
  BY DEF ManagerReadCrc
<1>3. CrcsInv
  BY DEF VerdictInv
<1>4. PICK s \in Nodes : s = m.src
  BY <1>3 DEF CrcsInv
<1>5. m.crc = CrcsOfNodes[s] /\ HasSentCrc(s)
  <2>1. m = [src |-> s, crc |-> CrcOf(s)]
    BY <1>3, <1>4 DEF CrcsInv
  <2>2. m.crc = CrcOf(s)
    BY <2>1
  <2> QED
    BY <1>3, <1>4, <2>2 DEF CrcsInv, CrcsOfNodes
<1>6. \A l \in crcPipe : l.src = s => l = m
  BY <1>3, <1>4, Zenon DEF CrcsInv
<1>7. s \notin CrcsRead /\ CrcsRead' = CrcsRead \cup {s}
  BY <1>1, <1>2, <1>4, <1>5, <1>6 DEF CrcsRead, HasSentCrc
<1>8. /\ man'.crcs = Append(man.crcs, CrcsOfNodes[s])
      /\ man'.pc = IF Len(man.crcs) + 1 = NodeCount THEN "header" ELSE man.pc
  BY <1>1, <1>5 DEF VerdictInv, ExInv, Shape
<1>9. /\ Gathered(man'.crcs, CrcsOfNodes, CrcsRead \cup {s})
      /\ Len(man'.crcs) = Len(man.crcs) + 1
  <2>1. Gathered(man.crcs, CrcsOfNodes, CrcsRead) /\ s \notin CrcsRead
    BY <1>3, <1>7 DEF CrcsInv
  <2>2. /\ Gathered(Append(man.crcs, CrcsOfNodes[s]), CrcsOfNodes, CrcsRead \cup {s})
        /\ Len(Append(man.crcs, CrcsOfNodes[s])) = Len(man.crcs) + 1
    BY <2>1, GatheredNext
  <2> QED
    BY <1>8, <2>2
<1>10. CrcsOfNodes' = CrcsOfNodes /\ \A k : CrcOf(k)' = CrcOf(k)
  BY <1>2 DEF CrcsOfNodes, CrcOf
<1>11. Gathered(man.crcs, CrcsOfNodes, CrcsRead)'
  BY <1>7, <1>9, <1>10
<1>12. man'.pc # "crc" => Len(man'.crcs) = NodeCount
  BY <1>2, <1>8, <1>9
<1>13. \A l \in crcPipe' : l \in crcPipe
  BY <1>1
<1>14. \A l \in crcPipe' : HasSentCrc(l.src)' <=> HasSentCrc(l.src)
  BY <1>2 DEF HasSentCrc
<1> QED
  BY <1>3, <1>10, <1>11, <1>12, <1>13, <1>14 DEF CrcsInv

\* A destination reports once.
LEMMA ResultWritten ==
  ASSUME VerdictInv, ServedInv, NEW d \in Nodes, DestReport(d)
  PROVE  ResultsInv'
<1>1. /\ dst[d].pc = "report" /\ UNCHANGED man
      /\ resultPipe' = resultPipe \cup {Result(d)}
      /\ dst' = [dst EXCEPT ![d].pc = "done"]
  BY DEF DestReport, Result
<1>2. ResultsInv
  BY DEF VerdictInv
<1>3. man.pc # "done" /\ man'.pc # "done"
  BY <1>1, <1>2 DEF ResultsInv
<1>4. /\ dst'[d].pc = "done" /\ dst'[d].array = dst[d].array
      /\ \A e \in Nodes : e # d => dst'[e] = dst[e]
  BY <1>1 DEF ServedInv, TransferShape
<1>5. \A e \in Nodes : Result(e)' = Result(e)
  BY <1>4 DEF Result
<1>6. ResultsOfNodes' = ResultsOfNodes
  BY <1>5 DEF ResultsOfNodes
<1>7. Result(d).node = d
  BY DEF Result
<1>8. ResultsRead' = ResultsRead
  BY <1>1, <1>4, <1>7 DEF ResultsRead
<1>9. Gathered(man.results, ResultsOfNodes, ResultsRead)' /\ Len(man'.results) < NodeCount
  BY <1>1, <1>2, <1>3, <1>6, <1>8 DEF ResultsInv
<1>10. ASSUME NEW m \in resultPipe'
       PROVE  m.node \in Nodes /\ dst'[m.node].pc = "done" /\ m = Result(m.node)'
  <2>1. CASE m = Result(d)
    BY <1>4, <1>5, <1>7, <2>1
  <2>2. CASE m \in resultPipe
    BY <1>2, <1>4, <1>5, <2>2 DEF ResultsInv
  <2> QED
    BY <1>1, <2>1, <2>2
<1> QED
  BY <1>3, <1>9, <1>10 DEF ResultsInv

\* Sorted by node, one result of each node is the list of all of them.
LEMMA SortedByNode ==
  ASSUME NEW results, Gathered(results, ResultsOfNodes, Nodes), Len(results) = NodeCount
  PROVE  ByNode(results) = [i \in 1 .. NodeCount |-> Result(i - 1)]
<1> DEFINE N == NodeCount
<1>1. N \in Nat /\ DOMAIN results = 1 .. N
  BY GatheredNumber, CountsAssumption
<1>2. PICK b \in Bijection(1 .. N, Nodes) : \A k \in 1 .. N : results[k] = Result(b[k])
  <2>1. PICK b \in Bijection(DOMAIN results, Nodes) :
          \A k \in DOMAIN results : Restrict(ResultsOfNodes, Nodes)[b[k]] = results[k]
    BY DEF Gathered, Permuted, Restrict
  <2>2. \A k \in DOMAIN results : b[k] \in Nodes
    BY <2>1, BijectionFacts
  <2> QED
    BY <1>1, <2>1, <2>2 DEF Restrict, ResultsOfNodes
<1>3. /\ b \in [1 .. N -> Nodes] /\ \A k, l \in 1 .. N : b[k] = b[l] => k = l
      /\ \A s \in Nodes : \E k \in 1 .. N : b[k] = s
  BY BijectionFacts
<1>4. \A s : Result(s).node = s
  BY DEF Result
<1>5. \A k \in 1 .. N : results[k].node = b[k]
  BY <1>2, <1>4
<1>6. \A s \in Nodes : s \in Nat /\ \A r \in 0 .. s - 1 : r \in Nodes /\ r < s
  BY CountsAssumption DEF Nodes
<1>7. ASSUME NEW s \in Nodes
      PROVE  Cardinality({k \in DOMAIN results : results[k].node < s}) = s
  <2>1. PICK P : P = {k \in DOMAIN results : results[k].node < s}
    OBVIOUS
  <2>2. \A k \in P : k \in 1 .. N /\ b[k] \in 0 .. s - 1
    BY <1>1, <1>3, <1>5, <1>6, <2>1
  <2>3. \A k \in 1 .. N : b[k] < s => k \in P
    BY <1>1, <1>5, <2>1
  <2>4. PICK g : g = [k \in P |-> b[k]]
    OBVIOUS
  <2>5. g \in Bijection(P, 0 .. s - 1)
    <3>1. g \in [P -> 0 .. s - 1]
      BY <2>2, <2>4
    <3>2. \A k, l \in P : g[k] = g[l] => k = l
      BY <1>3, <2>2, <2>4
    <3>3. ASSUME NEW r \in 0 .. s - 1 PROVE \E k \in P : g[k] = r
      <4>1. r \in Nodes /\ r < s
        BY <1>6
      <4>2. PICK k \in 1 .. N : b[k] = r
        BY <1>3, <4>1
      <4> QED
        BY <2>3, <2>4, <4>1, <4>2
    <3> QED
      BY <3>1, <3>2, <3>3, BijectionFacts
  <2>6. IsFiniteSet(0 .. s - 1) /\ Cardinality(0 .. s - 1) = s
    <3>1. s \in Nat /\ s - 1 \in Int /\ 0 \in Int
      BY <1>6
    <3>2. /\ IsFiniteSet(0 .. s - 1)
          /\ Cardinality(0 .. s - 1) = IF 0 > s - 1 THEN 0 ELSE (s - 1) - 0 + 1
      BY <3>1, FS_Interval
    <3> QED
      BY <3>1, <3>2
  <2>7. IsFiniteSet(P)
    <3>1. P \in SUBSET (1 .. N) /\ IsFiniteSet(1 .. N)
      BY <1>1, <2>2, FirstNumbers
    <3> QED
      BY <3>1, FS_Subset
  <2>8. ExistsBijection(P, 0 .. s - 1)
    BY <2>5 DEF ExistsBijection
  <2>9. Cardinality(P) = s
    BY <2>6, <2>7, <2>8, FS_Bijection
  <2> QED
    BY <2>1, <2>9
<1>8. ASSUME NEW i \in 1 .. N
      PROVE  (CHOOSE r \in ToSet(results) :
                Cardinality({k \in DOMAIN results : results[k].node < r.node}) = i - 1)
               = Result(i - 1)
  <2>1. PICK s \in Nodes : s = i - 1
    BY <1>1 DEF Nodes
  <2>2. PICK k \in 1 .. N : b[k] = s
    BY <1>3
  <2>3. Result(s) \in ToSet(results)
    BY <1>1, <1>2, <2>2 DEF ToSet
  <2>4. Cardinality({l \in DOMAIN results : results[l].node < Result(s).node}) = s
    BY <1>4, <1>7
  <2>5. ASSUME NEW r \in ToSet(results),
               Cardinality({l \in DOMAIN results : results[l].node < r.node}) = s
        PROVE  r = Result(s)
    <3>1. PICK j \in 1 .. N : r = results[j]
      BY <1>1 DEF ToSet
    <3>2. r = Result(b[j]) /\ r.node = b[j] /\ b[j] \in Nodes
      BY <1>2, <1>3, <1>5, <3>1
    <3>3. Cardinality({l \in DOMAIN results : results[l].node < r.node}) = b[j]
      BY <1>7, <3>2
    <3> QED
      BY <2>5, <3>2, <3>3
  <2> QED
    BY <2>1, <2>3, <2>4, <2>5
<1>9. Len(results) = N
  OBVIOUS
<1> HIDE DEF N
<1> QED
  BY <1>8, <1>9 DEF ByNode, N

\* The manager reads the results of all the destinations, one each, and sorts them.
LEMMA ResultTaken ==
  ASSUME VerdictInv, ExInv, ManagerReadResult
  PROVE  ResultsInv'
<1>1. PICK m \in resultPipe :
        LET results == Append(man.results, m)
            all == Len(results) = NodeCount
        IN  /\ resultPipe' = resultPipe \ {m}
            /\ man' = IF all
                      THEN [man EXCEPT !.pc = "done", !.results = ByNode(results)]
                      ELSE [man EXCEPT !.results = results]
  BY DEF ManagerReadResult
<1>2. man.pc = "results" /\ UNCHANGED dst
  BY DEF ManagerReadResult
<1>3. ResultsInv /\ man.pc # "done"
  BY <1>2 DEF VerdictInv
<1>4. PICK d \in Nodes : d = m.node
  BY <1>3 DEF ResultsInv
<1>5. m = Result(d) /\ m = ResultsOfNodes[d] /\ dst[d].pc = "done"
  BY <1>3, <1>4 DEF ResultsInv, ResultsOfNodes
<1>6. \A l \in resultPipe : l.node = d => l = m
  BY <1>3, <1>5, Zenon DEF ResultsInv
<1>7. d \notin ResultsRead /\ ResultsRead' = ResultsRead \cup {d}
  BY <1>1, <1>2, <1>4, <1>5, <1>6 DEF ResultsRead
<1>8. PICK results : results = Append(man.results, m)
  OBVIOUS
<1>9. /\ Gathered(results, ResultsOfNodes, ResultsRead \cup {d})
      /\ Len(results) = Len(man.results) + 1
      /\ Len(man.results) \in Nat /\ Len(man.results) < NodeCount
  <2>1. /\ Gathered(man.results, ResultsOfNodes, ResultsRead) /\ d \notin ResultsRead
        /\ Len(man.results) < NodeCount
    BY <1>3, <1>7 DEF ResultsInv
  <2>2. /\ Gathered(Append(man.results, ResultsOfNodes[d]), ResultsOfNodes,
                   ResultsRead \cup {d})
        /\ Len(Append(man.results, ResultsOfNodes[d])) = Len(man.results) + 1
    BY <2>1, GatheredNext
  <2>3. Len(man.results) \in Nat
    BY <2>1, GatheredNumber
  <2> QED
    BY <1>5, <1>8, <2>1, <2>2, <2>3
<1>10. ResultsOfNodes' = ResultsOfNodes /\ \A k : Result(k)' = Result(k)
  BY <1>2 DEF ResultsOfNodes, Result
<1>11. \A l \in resultPipe' : /\ l.node \in Nodes /\ dst'[l.node].pc = "done"
                              /\ l = Result(l.node)'
  BY <1>1, <1>2, <1>3, <1>10 DEF ResultsInv
<1>12. CASE Len(results) = NodeCount
  <2>1. man'.pc = "done" /\ man'.results = ByNode(results)
    BY <1>1, <1>8, <1>12 DEF VerdictInv, ExInv, Shape
  <2>2. ResultsRead \cup {d} = Nodes
    <3>1. ResultsRead \cup {d} \in SUBSET Nodes
      BY DEF ResultsRead
    <3> QED
      BY <1>9, <1>12, <3>1, GatheredAll
  <2>3. ByNode(results) = [i \in 1 .. NodeCount |-> Result(i - 1)]
    BY <1>9, <1>12, <2>2, SortedByNode
  <2>4. \A k \in Nodes : dst'[k].pc = "done"
    BY <1>2, <1>7, <2>2 DEF ResultsRead
  <2> QED
    BY <1>10, <1>11, <2>1, <2>3, <2>4 DEF ResultsInv
<1>13. CASE Len(results) # NodeCount
  <2>1. man'.pc # "done" /\ man'.results = results
    BY <1>1, <1>2, <1>8, <1>13 DEF VerdictInv, ExInv, Shape
  <2>2. Len(results) < NodeCount
    BY <1>9, <1>13, CountsAssumption
  <2>3. Gathered(man.results, ResultsOfNodes, ResultsRead)'
    BY <1>7, <1>9, <1>10, <2>1
  <2> QED
    BY <1>11, <2>1, <2>2, <2>3 DEF ResultsInv
<1> QED
  BY <1>12, <1>13

\* A step of a source.
LEMMA SourceVerdict ==
  ASSUME VerdictInv, ExInv, ContentInv, NEW s \in Nodes, SourceStep(s)
  PROVE  VerdictInv'
<1>1. UNCHANGED <<input, man, dst, resultPipe>>
  BY DEF SourceStep, SourceSort, SourceExit, SourceWriteCrc, SourceWriteHistogram,
     SourceAnswer, SourceReadRequest, SourceSend, SourceReceive
<1>2. CrcsInv'
  <2>1. CASE SourceWriteCrc(s)
    BY <2>1, CrcWritten
  <2>2. CASE ~ SourceWriteCrc(s)
    <3>1. UNCHANGED crcPipe
      BY <2>2 DEF SourceStep, SourceSort, SourceExit, SourceWriteHistogram,
         SourceAnswer, SourceReadRequest, SourceSend, SourceReceive
    <3>2. \A k \in Nodes : HasSentCrc(k)' <=> HasSentCrc(k)
      <4> USE DEF ExInv, Shape, HasSentCrc
      <4>1. CASE SourceSort(s)
        BY <4>1 DEF SourceSort
      <4>2. CASE SourceExit(s)
        BY <4>2 DEF SourceExit
      <4>3. CASE SourceWriteHistogram(s)
        BY <4>3 DEF SourceWriteHistogram
      <4>4. CASE SourceAnswer(s)
        BY <4>4 DEF SourceAnswer
      <4>5. CASE SourceReadRequest(s)
        BY <4>5 DEF SourceReadRequest
      <4>6. CASE SourceSend(s)
        BY <4>6 DEF SourceSend
      <4>7. CASE SourceReceive(s)
        BY <4>7 DEF SourceReceive
      <4> QED
        BY <2>2, <4>1, <4>2, <4>3, <4>4, <4>5, <4>6, <4>7 DEF SourceStep
    <3> QED
      BY <1>1, <3>1, <3>2, CrcsStay
  <2> QED
    BY <2>1, <2>2
<1>3. ResultsInv'
  BY <1>1, ResultsStay
<1> QED
  BY <1>1, <1>2, <1>3 DEF VerdictInv

\* A step of the manager.
LEMMA ManagerVerdict ==
  ASSUME VerdictInv, ExInv, ManagerStep
  PROVE  VerdictInv'
<1>1. UNCHANGED <<input, src, dst>>
  BY Zenon DEF ManagerStep, ManagerReadCrc, ManagerReadHeader, ManagerReadArray,
     ManagerAnalyze, ManagerAsk, ManagerHear, ManagerFault, ManagerPartition,
     ManagerTell, ManagerReadResult
<1>2. ASSUME ~ ManagerReadCrc, ~ ManagerReadResult
      PROVE  /\ UNCHANGED <<crcPipe, resultPipe>>
             /\ man.pc # "crc" /\ man'.crcs = man.crcs
             /\ man.pc # "done" /\ man'.pc # "done" /\ man'.results = man.results
             /\ {"crcs", "results"} \subseteq DOMAIN man'
  <2> USE DEF VerdictInv, ExInv, Shape
  <2>1. CASE ManagerReadHeader
    BY <2>1 DEF ManagerReadHeader
  <2>2. CASE ManagerReadArray
    BY <2>2 DEF ManagerReadArray
  <2>3. CASE ManagerAnalyze
    BY <2>3 DEF ManagerAnalyze
  <2>4. CASE ManagerAsk
    BY <2>4 DEF ManagerAsk
  <2>5. CASE ManagerHear
    BY <2>5 DEF ManagerHear
  <2>6. CASE ManagerFault
    BY <2>6 DEF ManagerFault
  <2>7. CASE ManagerPartition
    BY <2>7 DEF ManagerPartition
  <2>8. CASE ManagerTell
    BY <2>8 DEF ManagerTell
  <2> QED
    BY <1>2, <2>1, <2>2, <2>3, <2>4, <2>5, <2>6, <2>7, <2>8 DEF ManagerStep
<1>3. CASE ManagerReadCrc
  <2>1. /\ UNCHANGED resultPipe /\ man'.results = man.results
        /\ man.pc = "crc" /\ man'.pc # "done"
        /\ {"crcs", "results"} \subseteq DOMAIN man'
    BY <1>3 DEF ManagerReadCrc, VerdictInv, ExInv, Shape
  <2>2. ResultsInv'
    BY <1>1, <2>1, ResultsStay
  <2> QED
    BY <1>3, <2>1, <2>2, CrcTaken DEF VerdictInv
<1>4. CASE ManagerReadResult
  <2>1. /\ UNCHANGED crcPipe /\ man'.crcs = man.crcs /\ man.pc = "results"
        /\ {"crcs", "results"} \subseteq DOMAIN man'
    BY <1>4 DEF ManagerReadResult, VerdictInv
  <2>2. CrcsInv'
    BY <1>1, <2>1, CrcsStay DEF HasSentCrc
  <2> QED
    BY <1>4, <2>1, <2>2, ResultTaken DEF VerdictInv
<1>5. CASE ~ ManagerReadCrc /\ ~ ManagerReadResult
  <2>1. CrcsInv'
    BY <1>1, <1>2, <1>5, CrcsStay DEF HasSentCrc
  <2>2. ResultsInv'
    BY <1>1, <1>2, <1>5, ResultsStay
  <2> QED
    BY <1>2, <1>5, <2>1, <2>2 DEF VerdictInv
<1> QED
  BY Zenon, <1>3, <1>4, <1>5

\* A step of a destination.
LEMMA DestVerdict ==
  ASSUME VerdictInv, ServedInv, NEW d \in Nodes, DestStep(d)
  PROVE  VerdictInv'
<1>1. UNCHANGED <<input, src, man, crcPipe>>
  BY Zenon DEF DestStep, DestRead, DestWrite, DestSave, DestReport
<1>2. CrcsInv'
  BY <1>1, CrcsStay DEF HasSentCrc
<1>3. ResultsInv'
  <2>1. CASE DestReport(d)
    BY <2>1, ResultWritten
  <2>2. CASE DestRead(d)
    <3>1. PICK s, m : Reads(s, d, m)
      BY <2>2, ReadFacts
    <3>2. UNCHANGED resultPipe
      BY <2>2 DEF DestRead
    <3> QED
      BY <1>1, <3>1, <3>2, ResultsStay DEF Reads
  <2>3. CASE DestWrite(d) \/ DestSave(d)
    <3>1. /\ UNCHANGED resultPipe
          /\ dst[d].pc # "done" /\ dst'[d].pc # "done"
          /\ \A e \in Nodes : e # d => dst'[e] = dst[e]
      <4> USE DEF ServedInv, TransferShape
      <4>1. CASE DestWrite(d)
        BY <4>1 DEF DestWrite
      <4>2. CASE DestSave(d)
        <5>1. PICK end \in Outcomes(output[d], Sorted(dst[d].array)) :
                dst' = [dst EXCEPT ![d].pc = end.pc]
          BY <4>2 DEF DestSave
        <5>2. end.pc # "done"
          BY OutcomeCases
        <5> QED
          BY <4>2, <5>1, <5>2 DEF DestSave
      <4> QED
        BY <2>3, <4>1, <4>2
    <3> QED
      BY <1>1, <3>1, ResultsStay
  <2> QED
    BY <2>1, <2>2, <2>3 DEF DestStep
<1> QED
  BY Zenon, <1>1, <1>2, <1>3 DEF VerdictInv

\* Every step of the protocol keeps what the manager reads right.
LEMMA VerdictStep ==
  ASSUME VerdictInv, ServedInv, ExInv, ContentInv, [Next]_vars
  PROVE  VerdictInv'
<1>1. CASE UNCHANGED vars
  <2>1. UNCHANGED <<input, src, man, dst, crcPipe, resultPipe>>
    BY <1>1 DEF vars
  <2>2. CrcsInv' /\ ResultsInv'
    BY <2>1, CrcsStay, ResultsStay DEF HasSentCrc
  <2> QED
    BY <2>1, <2>2 DEF VerdictInv
<1> QED
  BY <1>1, SourceVerdict, ManagerVerdict, DestVerdict DEF Next

-----------------------------------------------------------------------------
(* Arrays by node. *)

\* Every item is given to a destination.
LEMMA GivenCovers ==
  ASSUME NEW cut \in Cuts, NEW p \in Nodes \X (1 .. ItemsCount)
  PROVE  \E d \in Nodes : p \in Given(cut, d)
<1>1. PICK s \in Nodes, i \in 1 .. ItemsCount : s = p[1] /\ i = p[2]
  OBVIOUS
<1>2. /\ \A e \in 0 .. NodeCount : cut[e][s] \in 0 .. ItemsCount
      /\ cut[0][s] = 0 /\ cut[NodeCount][s] = ItemsCount
  BY DEF Cuts
<1>3. PICK E : E = {e \in 0 .. NodeCount : i <= cut[e][s]}
  OBVIOUS
<1>4. NodeCount \in E /\ E \in SUBSET Nat
  BY <1>2, <1>3, CountsAssumption
<1>5. PICK e \in E : \A f \in E : e <= f
  BY <1>4, LeastNumber
<1>6. e \in 0 .. NodeCount /\ i <= cut[e][s] /\ e # 0
  BY <1>2, <1>3
<1>7. PICK d \in Nodes : e = d + 1
  <2>1. e - 1 \in Nodes /\ e = (e - 1) + 1
    BY <1>6, CountsAssumption DEF Nodes
  <2> QED
    BY <2>1
<1>8. d \in 0 .. NodeCount /\ d < e
  BY <1>6, <1>7, CountsAssumption DEF Nodes
<1>9. d \notin E
  BY <1>4, <1>5, <1>8
<1>10. cut[d][s] < i
  BY <1>2, <1>3, <1>8, <1>9, CountsAssumption
<1> QED
  BY <1>1, <1>6, <1>7, <1>10 DEF Given

-----------------------------------------------------------------------------
\* The nodes count from 0, the elements of a sequence from 1.
Shifted(f, g) ==
  /\ DOMAIN f = 1 .. NodeCount /\ DOMAIN g = Nodes
  /\ \A i \in 1 .. NodeCount : f[i] = g[i - 1]

\* Either way they are the same.
LEMMA NodesShifted ==
  ASSUME NEW f, NEW g, Shifted(f, g)
  PROVE  Permuted(f, g)
<1> USE CountsAssumption
<1>1. PICK b : b = [i \in 1 .. NodeCount |-> i - 1]
  OBVIOUS
<1>2. /\ b \in [1 .. NodeCount -> Nodes]
      /\ \A k, l \in 1 .. NodeCount : b[k] = b[l] => k = l
  BY <1>1 DEF Nodes
<1>3. ASSUME NEW s \in Nodes PROVE \E k \in 1 .. NodeCount : b[k] = s
  <2>1. s + 1 \in 1 .. NodeCount /\ (s + 1) - 1 = s
    BY DEF Nodes
  <2> QED
    BY <1>1, <2>1
<1>4. b \in Bijection(1 .. NodeCount, Nodes)
  BY <1>2, <1>3, BijectionFacts
<1> QED
  BY <1>1, <1>4 DEF Permuted, Shifted

\* Their items together are the same.
LEMMA TogetherShifted ==
  ASSUME NEW f, NEW g, Shifted(f, g)
  PROVE  Permuted(Together(f), Together(g))
<1>0. DOMAIN f = 1 .. NodeCount /\ DOMAIN g = Nodes
  BY DEF Shifted
<1>1. PICK b \in Bijection(1 .. NodeCount, Nodes) : \A i \in 1 .. NodeCount : g[b[i]] = f[i]
  <2>1. Permuted(f, g)
    BY NodesShifted
  <2> QED
    BY <1>0, <2>1 DEF Permuted
<1>2. /\ b \in [1 .. NodeCount -> Nodes]
      /\ \A k, l \in 1 .. NodeCount : b[k] = b[l] => k = l
      /\ \A s \in Nodes : \E k \in 1 .. NodeCount : b[k] = s
  <2>1. b \in Bijection(1 .. NodeCount, Nodes)
    BY <1>1
  <2>2. PICK I : I = 1 .. NodeCount
    OBVIOUS
  <2>3. /\ b \in [I -> Nodes]
        /\ \A k, l \in I : b[k] = b[l] => k = l
        /\ \A s \in Nodes : \E k \in I : b[k] = s
    <3>1. b \in Bijection(I, Nodes)
      BY <2>1, <2>2
    <3> QED
      BY <3>1, BijectionFacts
  <2> QED
    BY <2>2, <2>3
<1>3. PICK h : h = [q \in Places(f) |-> <<b[q[1]], q[2]>>]
  OBVIOUS
<1>4. ASSUME NEW q \in Places(f)
      PROVE  /\ q[1] \in 1 .. NodeCount /\ q[2] \in DOMAIN f[q[1]] /\ q = <<q[1], q[2]>>
             /\ h[q] = <<b[q[1]], q[2]>>
             /\ h[q] \in Places(g) /\ Together(g)[h[q]] = Together(f)[q]
  <2>1. q[1] \in 1 .. NodeCount /\ q[2] \in DOMAIN f[q[1]] /\ q = <<q[1], q[2]>>
    BY <1>0, PlacesOf
  <2>2. h[q] = <<b[q[1]], q[2]>>
    BY <1>3
  <2>3. b[q[1]] \in Nodes /\ g[b[q[1]]] = f[q[1]]
    BY <1>1, <1>2, <2>1
  <2>4. h[q] \in Places(g) /\ Together(g)[h[q]] = g[b[q[1]]][q[2]]
    BY <1>0, <2>1, <2>2, <2>3, PlacesOf
  <2>5. Together(f)[q] = f[q[1]][q[2]]
    BY PlacesOf
  <2> QED
    BY <2>1, <2>2, <2>3, <2>4, <2>5
<1>5. h \in [Places(f) -> Places(g)]
  BY <1>3, <1>4
<1>6. ASSUME NEW q \in Places(f), NEW r \in Places(f), h[q] = h[r]
      PROVE  q = r
  <2>1. b[q[1]] = b[r[1]] /\ q[2] = r[2]
    BY <1>4, <1>6
  <2>2. q[1] = r[1]
    BY <1>2, <1>4, <2>1
  <2> QED
    BY <1>4, <2>1, <2>2
<1>7. ASSUME NEW r \in Places(g)
      PROVE  \E q \in Places(f) : h[q] = r
  <2>1. r[1] \in Nodes /\ r[2] \in DOMAIN g[r[1]] /\ r = <<r[1], r[2]>>
    BY <1>0, PlacesOf
  <2>2. PICK k \in 1 .. NodeCount : b[k] = r[1]
    BY <1>2, <2>1
  <2>3. r[2] \in DOMAIN f[k]
    BY <1>0, <1>1, <2>1, <2>2
  <2>4. PICK q : q = <<k, r[2]>>
    OBVIOUS
  <2>5. q \in Places(f) /\ q[1] = k /\ q[2] = r[2]
    BY <1>0, <2>3, <2>4, PlacesOf
  <2>6. h[q] = <<r[1], r[2]>>
    BY <1>3, <2>2, <2>5
  <2> QED
    BY <2>1, <2>5, <2>6
<1>8. h \in Bijection(Places(f), Places(g))
  BY <1>5, <1>6, <1>7, BijectionFacts
<1> QED
  BY <1>4, <1>8, PlacesOf DEF Permuted

-----------------------------------------------------------------------------
\* Arrays of ItemsCount items, one of each node.
Arrays == [Nodes -> [1 .. ItemsCount -> Nat]]

\* Their types, and those of the sorted arrays.
LEMMA ArrayFacts ==
  ASSUME NEW a \in Arrays
  PROVE  /\ DOMAIN a = Nodes /\ IsFiniteSet(Nodes)
         /\ \A s \in Nodes : /\ Items(a[s]) /\ Number(a[s]) = ItemsCount
                             /\ DOMAIN a[s] = 1 .. ItemsCount
         /\ [s \in Nodes |-> Sorted(a[s])] \in Arrays
<1>1. DOMAIN a = Nodes /\ \A s \in Nodes : a[s] \in [1 .. ItemsCount -> Nat]
  BY DEF Arrays
<1>2. \A s \in Nodes : DOMAIN a[s] = 1 .. ItemsCount
  BY <1>1
<1>3. ItemsCount \in Nat
  BY CountsAssumption
<1>4. IsFiniteSet(1 .. ItemsCount) /\ Cardinality(1 .. ItemsCount) = ItemsCount
  BY <1>3, FirstNumbers
<1>5. \A s \in Nodes : Items(a[s]) /\ Number(a[s]) = ItemsCount
  BY <1>1, <1>2, <1>4 DEF Items, Number
<1>6. \A s \in Nodes : Sorted(a[s]) \in [1 .. ItemsCount -> Nat]
  BY <1>5, SortedRanks
<1> QED
  BY <1>1, <1>2, <1>5, <1>6, NodesFinite DEF Arrays

\* The arrays sorted have the same items together.
LEMMA ArraysSorted ==
  ASSUME NEW a \in Arrays
  PROVE  Permuted(Together([s \in Nodes |-> Sorted(a[s])]), Together(a))
<1>1. PICK e : e = [s \in Nodes |-> Sorted(a[s])]
  OBVIOUS
<1>2. DOMAIN a = DOMAIN e
  BY <1>1, ArrayFacts
<1>3. \A s \in DOMAIN e : Permuted(e[s], a[s])
  BY <1>1, ArrayFacts, PermutedSorted
<1> QED
  BY <1>1, <1>2, <1>3, TogetherPermuted

\* The crcs of all the sorted arrays, added up, are all the items added up.
LEMMA CrcTotal ==
  ASSUME NEW a \in Arrays, NEW f, DOMAIN f = Nodes,
         \A s \in Nodes : f[s] = Crc(Sorted(a[s]))
  PROVE  /\ \A s \in Nodes : f[s] \in Nat
         /\ SumFunctionOnSet(f, Nodes) % CrcAtom
              = SumFunctionOnSet(Together(a), Places(a)) % CrcAtom
<1>1. PICK g : g = [s \in Nodes |-> SumFunctionOnSet(a[s], DOMAIN a[s])]
  OBVIOUS
<1>2. ASSUME NEW s \in Nodes
      PROVE  /\ g[s] \in Int /\ f[s] = g[s] % CrcAtom
             /\ f[s] \in Nat /\ f[s] % CrcAtom = g[s] % CrcAtom
  <2>1. /\ Items(a[s]) /\ DOMAIN a[s] = 1 .. ItemsCount
        /\ Sorted(a[s]) \in [1 .. ItemsCount -> Nat]
    BY ArrayFacts, SortedRanks
  <2>2. f[s] = SumFunctionOnSet(Sorted(a[s]), 1 .. ItemsCount) % CrcAtom
    BY <2>1, CrcSum, CountsAssumption
  <2>3. Items(Sorted(a[s])) /\ DOMAIN Sorted(a[s]) = 1 .. ItemsCount
    BY <2>1, SortedRanks
  <2>4. SumFunctionOnSet(a[s], 1 .. ItemsCount)
          = SumFunctionOnSet(Sorted(a[s]), 1 .. ItemsCount)
    BY <2>1, <2>3, PermutedSorted, PermutedSum
  <2>5. Summable(a[s], DOMAIN a[s])
    <3>1. PICK w : w = a[s]
      OBVIOUS
    <3>2. Items(w)
      BY <2>1, <3>1
    <3>3. \A k \in DOMAIN w : w[k] \in Nat
      BY <3>2, ItemTypes
    <3> QED
      BY <3>1, <3>2, <3>3 DEF Summable, Items
  <2>6. g[s] \in Int /\ g[s] = SumFunctionOnSet(a[s], 1 .. ItemsCount)
    BY <1>1, <2>1, <2>5, SumEqual
  <2>7. f[s] = g[s] % CrcAtom
    BY <2>2, <2>4, <2>6
  <2> QED
    BY <2>6, <2>7, RemainderTwice, CountsAssumption
<1>3. Summable(f, Nodes) /\ Summable(g, Nodes)
  BY <1>2, NodesFinite DEF Summable
<1>4. SumFunctionOnSet(f, Nodes) % CrcAtom = SumFunctionOnSet(g, Nodes) % CrcAtom
  BY <1>2, <1>3, SumRemainder, CountsAssumption
<1>5. SumFunctionOnSet(Together(a), Places(a)) = SumFunctionOnSet(g, Nodes)
  <2>1. DOMAIN a = Nodes /\ IsFiniteSet(DOMAIN a) /\ \A s \in DOMAIN a : Items(a[s])
    BY ArrayFacts
  <2> QED
    BY <1>1, <2>1, TogetherSum
<1> QED
  BY <1>2, <1>4, <1>5

-----------------------------------------------------------------------------
(* The items at the end. *)

\* The items that a destination brought with it, by their places at the sources.
Placing(d) ==
  {place \in Bijection(1 .. ItemsCount, Given(man.cut, d)) :
     \A k \in 1 .. ItemsCount : dst[d].array[k] = Item(place[k])}

Received == [d \in Nodes |-> dst[d].array]
SortedInputs == [s \in Nodes |-> Sorted(input[s])]

\* A destination at its end has its items, each once.
LEMMA DestPlaces ==
  ASSUME ServedInv, ContentInv, NEW d \in Nodes, dst[d].pc = "done"
  PROVE  /\ man.cut \in Cuts /\ dst[d].array \in [1 .. ItemsCount -> Nat]
         /\ \E place : place \in Placing(d)
<1>1. /\ Ranged /\ Len(dst[d].array) = ItemsCount /\ Had(d) = Given(man.cut, d)
      /\ man.cut \in Cuts
  BY AllReceived DEF ServedInv, Orders
<1>2. dst[d].array \in Seq(Nat)
  BY DEF ContentInv, Holds
<1>3. dst[d].array \in [1 .. ItemsCount -> Nat]
  BY <1>1, <1>2
<1>4. \E place \in Bijection(1 .. Len(dst[d].array), Had(d)) :
        \A k \in 1 .. Len(dst[d].array) : dst[d].array[k] = Item(place[k])
  BY DEF ContentInv, Holds
<1>5. \E place \in Bijection(1 .. ItemsCount, Given(man.cut, d)) :
        \A k \in 1 .. ItemsCount : dst[d].array[k] = Item(place[k])
  BY <1>1, <1>4, Zenon
<1> QED
  BY <1>1, <1>3, <1>5 DEF Placing

\* The arrays at the end are the sorted inputs, dealt out anew.
LEMMA ReceivedPermuted ==
  ASSUME ServedInv, ContentInv, \A d \in Nodes : dst[d].pc = "done"
  PROVE  /\ input \in Arrays /\ Received \in Arrays /\ SortedInputs \in Arrays
         /\ Permuted(Together(Received), Together(SortedInputs))
<1>1. \A d \in Nodes : /\ man.cut \in Cuts /\ dst[d].array \in [1 .. ItemsCount -> Nat]
                       /\ \E place : place \in Placing(d)
  BY DestPlaces
<1>2. input \in Arrays /\ SortedInputs \in Arrays
  <2>1. input \in Arrays
    BY InputsAssumption DEF ContentInv, Arrays
  <2> QED
    BY <2>1, ArrayFacts DEF SortedInputs
<1>3. Received \in Arrays
  BY <1>1 DEF Received, Arrays
<1>4. PICK cut \in Cuts : cut = man.cut
  <2>1. 0 \in Nodes
    BY CountsAssumption DEF Nodes
  <2> QED
    BY <1>1, <2>1
<1>5. PICK w : w = [d \in Nodes |-> CHOOSE place : place \in Placing(d)]
  OBVIOUS
<1>6. PICK I : I = 1 .. ItemsCount
  OBVIOUS
<1>7. ASSUME NEW d \in Nodes
      PROVE  /\ w[d] \in [I -> Given(cut, d)]
             /\ \A k, l \in I : w[d][k] = w[d][l] => k = l
             /\ \A p \in Given(cut, d) : \E k \in I : w[d][k] = p
             /\ \A k \in I : dst[d].array[k] = Item(w[d][k])
  <2>1. w[d] \in Placing(d)
    BY <1>1, <1>5
  <2>2. PICK v : v = w[d]
    OBVIOUS
  <2>3. /\ v \in Bijection(I, Given(cut, d))
        /\ \A k \in I : dst[d].array[k] = Item(v[k])
    BY <1>4, <1>6, <2>1, <2>2 DEF Placing
  <2>4. /\ v \in [I -> Given(cut, d)]
        /\ \A k, l \in I : v[k] = v[l] => k = l
        /\ \A p \in Given(cut, d) : \E k \in I : v[k] = p
    BY <2>3, BijectionFacts
  <2> QED
    BY <2>2, <2>3, <2>4
<1>8. PICK a, e : a = Received /\ e = SortedInputs
  OBVIOUS
<1>9. /\ DOMAIN a = Nodes /\ DOMAIN e = Nodes
      /\ \A d \in Nodes : a[d] = dst[d].array /\ DOMAIN a[d] = I
      /\ \A s \in Nodes : DOMAIN e[s] = I /\ \A k \in I : e[s][k] = Item(<<s, k>>)
  <2>1. \A s \in Nodes : \A k : Item(<<s, k>>) = Sorted(input[s])[k]
    BY DEF Item
  <2> QED
    BY <1>2, <1>3, <1>6, <1>8, <2>1, ArrayFacts DEF Received, SortedInputs
<1>10. PICK h : h = [q \in Places(a) |-> w[q[1]][q[2]]]
  OBVIOUS
<1>11. ASSUME NEW d \in Nodes, NEW p \in Given(cut, d)
       PROVE  p \in Places(e) /\ Together(e)[p] = Item(p)
  <2>1. p[1] \in Nodes /\ p[2] \in I /\ p = <<p[1], p[2]>>
    BY <1>6 DEF Given
  <2>2. <<p[1], p[2]>> \in Places(e) /\ Together(e)[<<p[1], p[2]>>] = e[p[1]][p[2]]
    BY <1>9, <2>1, PlacesOf
  <2>3. e[p[1]][p[2]] = Item(<<p[1], p[2]>>)
    BY <1>9, <2>1
  <2> QED
    BY <2>1, <2>2, <2>3
<1>12. ASSUME NEW q \in Places(a)
       PROVE  /\ q[1] \in Nodes /\ q[2] \in I /\ q = <<q[1], q[2]>>
              /\ h[q] = w[q[1]][q[2]] /\ h[q] \in Given(cut, q[1])
              /\ h[q] \in Places(e) /\ Together(e)[h[q]] = Together(a)[q]
  <2>1. q[1] \in Nodes /\ q[2] \in I /\ q = <<q[1], q[2]>>
    BY <1>9, PlacesOf
  <2>2. Together(a)[q] = dst[q[1]].array[q[2]]
    BY <1>9, <2>1, PlacesOf
  <2>3. h[q] = w[q[1]][q[2]]
    BY <1>10
  <2>4. h[q] \in Given(cut, q[1]) /\ dst[q[1]].array[q[2]] = Item(h[q])
    BY <1>7, <2>1, <2>3
  <2>5. h[q] \in Places(e) /\ Together(e)[h[q]] = Item(h[q])
    BY <1>11, <2>1, <2>4
  <2> QED
    BY <2>1, <2>2, <2>3, <2>4, <2>5
<1>13. h \in [Places(a) -> Places(e)]
  BY <1>10, <1>12
<1>14. ASSUME NEW q \in Places(a), NEW r \in Places(a), h[q] = h[r]
       PROVE  q = r
  <2>1. q[1] = r[1]
    <3>1. h[q] \in Given(cut, q[1]) /\ h[q] \in Given(cut, r[1])
      BY <1>12, <1>14
    <3>2. q[1] \in Nodes /\ r[1] \in Nodes
      BY <1>12
    <3> QED
      BY <3>1, <3>2, GivenApart
  <2>2. q[2] \in I /\ r[2] \in I /\ w[q[1]][q[2]] = w[q[1]][r[2]]
    BY <1>12, <1>14, <2>1
  <2>3. q[2] = r[2]
    BY <1>7, <1>12, <2>2
  <2> QED
    BY <1>12, <2>1, <2>3
<1>15. ASSUME NEW r \in Places(e)
       PROVE  \E q \in Places(a) : h[q] = r
  <2>1. r[1] \in Nodes /\ r[2] \in I /\ r = <<r[1], r[2]>>
    BY <1>9, PlacesOf
  <2>2. r \in Nodes \X (1 .. ItemsCount)
    BY <1>6, <2>1
  <2>3. PICK d \in Nodes : r \in Given(cut, d)
    BY <2>2, GivenCovers
  <2>4. PICK k \in I : w[d][k] = r
    BY <1>7, <2>3
  <2>5. PICK q : q = <<d, k>>
    OBVIOUS
  <2>6. q \in Places(a) /\ q[1] = d /\ q[2] = k
    BY <1>9, <2>5, PlacesOf
  <2>7. h[q] = r
    BY <1>10, <2>4, <2>6
  <2> QED
    BY <2>6, <2>7
<1>16. h \in Bijection(Places(a), Places(e))
  BY <1>13, <1>14, <1>15, BijectionFacts
<1>17. Permuted(Together(a), Together(e))
  BY <1>12, <1>16, PlacesOf DEF Permuted
<1> QED
  BY <1>2, <1>3, <1>8, <1>17

\* So they are the inputs, dealt out anew.
LEMMA ReceivedInputs ==
  ASSUME ServedInv, ContentInv, \A d \in Nodes : dst[d].pc = "done"
  PROVE  Permuted(Together(Received), Together(input))
<1>1. /\ input \in Arrays
      /\ Permuted(Together(Received), Together(SortedInputs))
  BY ReceivedPermuted
<1>2. Permuted(Together(SortedInputs), Together(input))
  BY <1>1, ArraysSorted DEF SortedInputs
<1> QED
  BY <1>1, <1>2, PermutedOn

-----------------------------------------------------------------------------
(* The crcs at the end. *)

\* The crc of the crcs of all sorted arrays, in any order, is the sum of their items.
LEMMA CrcOfAll ==
  ASSUME NEW a \in Arrays, NEW f, DOMAIN f = Nodes,
         \A s \in Nodes : f[s] = Crc(Sorted(a[s])),
         NEW e, e = [i \in 1 .. NodeCount |-> e[i]], Permuted(e, f)
  PROVE  Crc(e) = SumFunctionOnSet(Together(a), Places(a)) % CrcAtom
<1>1. /\ \A s \in Nodes : f[s] \in Nat
      /\ SumFunctionOnSet(f, Nodes) % CrcAtom
           = SumFunctionOnSet(Together(a), Places(a)) % CrcAtom
  BY CrcTotal
<1>2. PICK b \in Bijection(1 .. NodeCount, Nodes) : \A i \in 1 .. NodeCount : f[b[i]] = e[i]
  <2>1. DOMAIN e = 1 .. NodeCount
    OBVIOUS
  <2> QED
    BY <2>1 DEF Permuted
<1>3. \A i \in 1 .. NodeCount : b[i] \in Nodes
  <2>1. PICK I : I = 1 .. NodeCount
    OBVIOUS
  <2>2. b \in Bijection(I, Nodes)
    BY <1>2, <2>1
  <2>3. b \in [I -> Nodes]
    BY <2>2, BijectionFacts
  <2> QED
    BY <2>1, <2>3
<1>4. e \in [1 .. NodeCount -> Nat]
  BY <1>1, <1>2, <1>3
<1>5. Items(e) /\ DOMAIN e = 1 .. NodeCount
  <2>1. IsFiniteSet(1 .. NodeCount)
    BY FirstNumbers, CountsAssumption
  <2> QED
    BY <1>4, <2>1 DEF Items
<1>6. SumFunctionOnSet(f, Nodes) = SumFunctionOnSet(e, 1 .. NodeCount)
  BY <1>5, PermutedSum
<1>7. Crc(e) = SumFunctionOnSet(e, 1 .. NodeCount) % CrcAtom
  BY <1>4, CrcSum, CountsAssumption
<1> QED
  BY <1>1, <1>6, <1>7

\* What the manager knows in the end: the crcs of all sources, and one result of
\* each destination.
LEMMA AllRead ==
  ASSUME VerdictInv, man.pc = "done"
  PROVE  /\ \A d \in Nodes : dst[d].pc = "done"
         /\ man.results = [i \in 1 .. NodeCount |-> Result(i - 1)]
         /\ man.crcs = [i \in 1 .. NodeCount |-> man.crcs[i]]
         /\ Permuted(man.crcs, CrcsOfNodes)
<1>1. /\ Gathered(man.crcs, CrcsOfNodes, CrcsRead) /\ Len(man.crcs) = NodeCount
      /\ \A d \in Nodes : dst[d].pc = "done"
      /\ man.results = [i \in 1 .. NodeCount |-> Result(i - 1)]
  BY DEF VerdictInv, CrcsInv, ResultsInv
<1>2. CrcsRead \in SUBSET Nodes
  BY DEF CrcsRead
<1>3. CrcsRead = Nodes /\ DOMAIN man.crcs = 1 .. NodeCount
  BY <1>1, <1>2, GatheredAll
<1>4. PICK seq : seq = man.crcs
  OBVIOUS
<1>5. seq \in Seq(ToSet(seq)) /\ Permuted(seq, Restrict(CrcsOfNodes, Nodes))
  BY <1>1, <1>3, <1>4 DEF Gathered
<1>6. Restrict(CrcsOfNodes, Nodes) = CrcsOfNodes
  BY DEF Restrict, CrcsOfNodes
<1>7. seq = [i \in 1 .. NodeCount |-> seq[i]]
  <2>1. PICK S : S = ToSet(seq)
    OBVIOUS
  <2>2. PICK n \in Nat : n = Len(seq)
    BY <1>5, <2>1
  <2>3. seq \in [1 .. n -> S]
    BY <1>5, <2>1, <2>2
  <2>4. 1 .. n = 1 .. NodeCount
    BY <1>3, <1>4, <2>3
  <2> QED
    BY <2>3, <2>4
<1> QED
  BY <1>1, <1>4, <1>5, <1>6, <1>7

\* The crcs of the sources and of the results agree.
LEMMA CrcsAgree ==
  ASSUME VerdictInv, ServedInv, ContentInv, man.pc = "done"
  PROVE  CrcOk
<1>1. /\ \A d \in Nodes : dst[d].pc = "done"
      /\ man.results = [i \in 1 .. NodeCount |-> Result(i - 1)]
      /\ man.crcs = [i \in 1 .. NodeCount |-> man.crcs[i]]
      /\ Permuted(man.crcs, CrcsOfNodes)
  BY AllRead
<1>2. /\ input \in Arrays /\ Received \in Arrays
      /\ Permuted(Together(Received), Together(input))
  BY <1>1, ReceivedPermuted, ReceivedInputs
<1>3. DOMAIN CrcsOfNodes = Nodes /\ \A s \in Nodes : CrcsOfNodes[s] = Crc(Sorted(input[s]))
  BY DEF CrcsOfNodes, CrcOf
<1>4. PICK i : i = input
  OBVIOUS
<1>5. PICK q, c : q = man.crcs /\ c = CrcsOfNodes
  OBVIOUS
<1>6. Crc(q) = SumFunctionOnSet(Together(i), Places(i)) % CrcAtom
  <2>1. /\ i \in Arrays /\ DOMAIN c = Nodes /\ \A s \in Nodes : c[s] = Crc(Sorted(i[s]))
        /\ q = [k \in 1 .. NodeCount |-> q[k]] /\ Permuted(q, c)
    BY <1>1, <1>2, <1>3, <1>4, <1>5
  <2> QED
    BY <2>1, CrcOfAll
<1>7. PICK e : e = [k \in 1 .. NodeCount |-> man.results[k].crc]
  OBVIOUS
<1>8. PICK g : g = [d \in Nodes |-> Crc(Sorted(dst[d].array))]
  OBVIOUS
<1>9. Shifted(e, g)
  <2>1. ASSUME NEW k \in 1 .. NodeCount
        PROVE  e[k] = g[k - 1]
    <3>1. k - 1 \in Nodes
      BY CountsAssumption DEF Nodes
    <3>2. man.results[k] = Result(k - 1)
      BY <1>1
    <3> QED
      BY <1>7, <1>8, <3>1, <3>2 DEF Result
  <2> QED
    BY <1>7, <1>8, <2>1 DEF Shifted
<1>10. PICK a : a = Received
  OBVIOUS
<1>11. Crc(e) = SumFunctionOnSet(Together(a), Places(a)) % CrcAtom
  <2>1. a \in Arrays /\ DOMAIN g = Nodes /\ \A d \in Nodes : g[d] = Crc(Sorted(a[d]))
    BY <1>2, <1>8, <1>10 DEF Received
  <2>2. e = [k \in 1 .. NodeCount |-> e[k]]
    BY <1>7
  <2>3. Permuted(e, g)
    BY <1>9, NodesShifted
  <2> QED
    BY <2>1, <2>2, <2>3, CrcOfAll
<1>12. SumFunctionOnSet(Together(i), Places(i)) = SumFunctionOnSet(Together(a), Places(a))
  <2>1. Permuted(Together(a), Together(i))
    BY <1>2, <1>4, <1>10
  <2>2. Items(Together(a))
    <3>1. DOMAIN a = Nodes /\ IsFiniteSet(DOMAIN a) /\ \A s \in DOMAIN a : Items(a[s])
      BY <1>2, <1>10, ArrayFacts
    <3> QED
      BY <3>1, TogetherItems
  <2>3. DOMAIN Together(a) = Places(a) /\ DOMAIN Together(i) = Places(i)
    BY PlacesOf
  <2>4. SumFunctionOnSet(Together(i), DOMAIN Together(i))
          = SumFunctionOnSet(Together(a), DOMAIN Together(a))
    BY <2>1, <2>2, PermutedSum
  <2> QED
    BY <2>3, <2>4
<1> QED
  BY <1>5, <1>6, <1>7, <1>11, <1>12 DEF CrcOk

-----------------------------------------------------------------------------
(* The sorted arrays at the end. *)

ArraysByNode == [c \in 1 .. NodeCount |-> SortedArrays[c - 1]]
InputFiles == [c \in 1 .. NodeCount |-> input[c - 1]]

\* The sorted array of a destination, its result and its output file.
LEMMA ReportFacts ==
  ASSUME VerdictInv, ServedInv, ContentInv, man.pc = "done", NEW d \in Nodes
  PROVE  /\ SortedArrays[d] = Sorted(dst[d].array)
         /\ output[d] \in Saved(OldOutputs[d], SortedArrays[d])
         /\ SortedArrays[d] \in [1 .. ItemsCount -> Nat]
         /\ man.results[d + 1].min = SortedArrays[d][1]
         /\ man.results[d + 1].max = SortedArrays[d][ItemsCount]
         /\ \A l \in 1 .. ItemsCount : \A k \in 1 .. l : SortedArrays[d][k] <= SortedArrays[d][l]
<1>1. /\ dst[d].pc = "done"
      /\ man.results = [i \in 1 .. NodeCount |-> Result(i - 1)]
  BY AllRead
<1>2. PICK a : a = dst[d].array
  OBVIOUS
<1>3. SortedArrays[d] = Sorted(a) /\ output[d] \in Saved(OldOutputs[d], Sorted(a))
  BY <1>1, <1>2 DEF SortedArrays, ContentInv, Written
<1>4. Items(a) /\ Number(a) = ItemsCount
  <2>1. a \in [1 .. ItemsCount -> Nat]
    BY <1>1, <1>2, DestPlaces
  <2>2. ItemsCount \in Nat
    BY CountsAssumption
  <2> QED
    BY <2>1, <2>2, FirstNumbers DEF Items, Number
<1>5. SortedArrays[d] \in [1 .. ItemsCount -> Nat]
  BY <1>3, <1>4, SortedRanks
<1>6. PICK t : t = SortedArrays[d]
  OBVIOUS
<1>7. Len(t) = ItemsCount
  <2>1. DOMAIN t = 1 .. ItemsCount /\ ItemsCount \in Nat
    BY <1>5, <1>6, CountsAssumption
  <2> QED
    BY <2>1
<1>8. man.results[d + 1] = Result(d)
  <2>1. d + 1 \in 1 .. NodeCount /\ (d + 1) - 1 = d
    BY CountsAssumption DEF Nodes
  <2> QED
    BY <1>1, <2>1
<1>9. Result(d).min = t[1] /\ Result(d).max = t[ItemsCount]
  BY <1>2, <1>3, <1>6, <1>7 DEF Result
<1>10. ASSUME NEW l \in 1 .. ItemsCount, NEW k \in 1 .. l
       PROVE  SortedArrays[d][k] <= SortedArrays[d][l]
  BY <1>3, <1>4, SortedOrder
<1> QED
  BY <1>2, <1>3, <1>5, <1>6, <1>8, <1>9, <1>10

\* They have the items of the inputs.
LEMMA ArraysPermuted ==
  ASSUME VerdictInv, ServedInv, ContentInv, man.pc = "done"
  PROVE  /\ InputFiles \in [1 .. NodeCount -> [1 .. ItemsCount -> Nat]]
         /\ ArraysByNode \in [1 .. NodeCount -> [1 .. ItemsCount -> Nat]]
         /\ Permuted(Together(ArraysByNode), Together(InputFiles))
<1>1. \A c \in 1 .. NodeCount : c - 1 \in Nodes
  BY CountsAssumption DEF Nodes
<1>2. \A d \in Nodes : dst[d].pc = "done"
  BY AllRead
<1>3. /\ input \in Arrays /\ Received \in Arrays
      /\ Permuted(Together(Received), Together(input))
  BY <1>2, ReceivedPermuted, ReceivedInputs
<1>4. \A d \in Nodes : /\ SortedArrays[d] = Sorted(dst[d].array)
                       /\ SortedArrays[d] \in [1 .. ItemsCount -> Nat]
  BY ReportFacts
<1>5. InputFiles \in [1 .. NodeCount -> [1 .. ItemsCount -> Nat]]
  BY <1>1, <1>3 DEF InputFiles, Arrays
<1>6. ArraysByNode \in [1 .. NodeCount -> [1 .. ItemsCount -> Nat]]
  BY <1>1, <1>4 DEF ArraysByNode
<1>7. PICK a, s : a = Received /\ s = [d \in Nodes |-> Sorted(a[d])]
  OBVIOUS
<1>8. \A d \in Nodes : s[d] = SortedArrays[d]
  BY <1>4, <1>7 DEF Received
<1>9. Shifted(ArraysByNode, s)
  BY <1>1, <1>7, <1>8 DEF ArraysByNode, Shifted
<1>10. Shifted(InputFiles, input)
  BY <1>1, <1>3 DEF InputFiles, Shifted, Arrays
<1>11. /\ Permuted(Together(ArraysByNode), Together(s))
       /\ Permuted(Together(InputFiles), Together(input))
  BY <1>9, <1>10, TogetherShifted
<1>12. Permuted(Together(s), Together(a))
  BY <1>3, <1>7, ArraysSorted
<1>13. Permuted(Together(ArraysByNode), Together(a))
  BY <1>11, <1>12, PermutedOn
<1>14. Permuted(Together(ArraysByNode), Together(input))
  BY <1>3, <1>7, <1>13, PermutedOn
<1>15. Permuted(Together(input), Together(InputFiles))
  BY <1>11, PermutedBack
<1> QED
  BY <1>5, <1>6, <1>14, <1>15, PermutedOn

\* In a row they are the sorted inputs, if the bounds in the results are in order.
LEMMA ArraysInOrder ==
  ASSUME VerdictInv, ServedInv, ContentInv, man.pc = "done", SortOk
  PROVE  FlattenSeq(ArraysByNode) = Sorted(FlattenSeq(InputFiles))
<1>1. PICK n \in Nat \ {0}, m \in Nat \ {0} : n = ItemsCount /\ m = NodeCount
  BY CountsAssumption
<1>2. PICK a, e : a = ArraysByNode /\ e = InputFiles
  OBVIOUS
<1>3. /\ a \in [1 .. m -> [1 .. n -> Nat]] /\ e \in [1 .. m -> [1 .. n -> Nat]]
      /\ Permuted(Together(a), Together(e))
  BY <1>1, <1>2, ArraysPermuted
<1>4. PICK t, u : t = FlattenSeq(a) /\ u = FlattenSeq(e)
  OBVIOUS
<1>5. Flat(t, a, m, n) /\ Flat(u, e, m, n)
  BY <1>3, <1>4, FlattenFlat
<1>6. Permuted(t, u)
  <2>1. Permuted(Together(a), t) /\ Permuted(Together(e), u)
    BY <1>3, <1>5, FlatPermuted
  <2>2. Permuted(t, Together(a))
    BY <2>1, PermutedBack
  <2>3. Permuted(t, Together(e))
    BY <1>3, <2>2, PermutedOn
  <2> QED
    BY <2>1, <2>3, PermutedOn
<1>7. PICK l \in Nat : l = m * n
  OBVIOUS
<1>8. t \in [1 .. l -> Nat] /\ u \in [1 .. l -> Nat]
  BY <1>5, <1>7 DEF Flat
<1>9. Items(t) /\ Items(u)
  <2>1. IsFiniteSet(1 .. l)
    BY FirstNumbers
  <2> QED
    BY <1>8, <2>1 DEF Items
<1>10. Sorted(u) = Sorted(t)
  BY <1>6, <1>9, PermutedSame
<1>11. ASSUME NEW c \in 1 .. m
       PROVE  \A i \in 1 .. n : \A k \in 1 .. i : a[c][k] <= a[c][i]
  <2>1. PICK d \in Nodes : d = c - 1
    BY <1>1 DEF Nodes
  <2>2. a[c] = SortedArrays[d]
    BY <1>1, <1>2, <2>1 DEF ArraysByNode
  <2> QED
    BY <1>1, <2>2, ReportFacts
<1>12. ASSUME NEW c \in 2 .. m
       PROVE  a[c - 1][n] <= a[c][1]
  <2>1. PICK d \in Nodes, b \in Nodes :
          /\ d = c - 1 /\ b = (c - 1) - 1 /\ d + 1 = c /\ b + 1 = c - 1
          /\ c \in 1 .. m /\ c - 1 \in 1 .. m
    BY <1>1 DEF Nodes
  <2>2. a[c] = SortedArrays[d] /\ a[c - 1] = SortedArrays[b]
    BY <1>1, <1>2, <2>1 DEF ArraysByNode
  <2>3. man.results[c - 1].max < man.results[c].min
    BY <1>1 DEF SortOk
  <2>4. /\ man.results[d + 1].min = SortedArrays[d][1]
        /\ man.results[b + 1].max = SortedArrays[b][n]
    BY <1>1, ReportFacts
  <2>5. a[c - 1][n] < a[c][1]
    BY <2>1, <2>2, <2>3, <2>4
  <2>6. a[c - 1][n] \in Nat /\ a[c][1] \in Nat
    <3>1. n \in 1 .. n /\ 1 \in 1 .. n
      OBVIOUS
    <3> QED
      BY <1>3, <2>1, <3>1
  <2> QED
    BY <2>5, <2>6
<1>13. \A j \in 1 .. l : \A i \in 1 .. j : t[i] <= t[j]
  <2>1. \A j \in 1 .. m * n : \A i \in 1 .. j : t[i] <= t[j]
    BY <1>3, <1>5, <1>11, <1>12, FlatInOrder
  <2> QED
    BY <1>7, <2>1
<1>14. Sorted(t) = t
  BY <1>8, <1>13, SortedAlready
<1> QED
  BY <1>2, <1>4, <1>10, <1>14

\* The manager's lists are right in every state: each crc and each result is on its way
\* or has been read once, from whichever nodes they come first.
THEOREM VerdictInvariance == Steps => []VerdictInv
<1>1. Init => VerdictInv
  BY VerdictInit
<1>2. VerdictInv /\ ServedInv /\ ExInv /\ ContentInv /\ [Next]_vars => VerdictInv'
  BY VerdictStep
<1> QED
  BY <1>1, <1>2, ServedInvariance, ExchangeInvariance, ContentInvariance, PTL DEF Steps

\* VerdictIsSound, for every number of nodes and items: whatever the analysis gave to
\* the destinations and in whatever order the crcs and results come in, the results are
\* those of the sorted arrays, the crcs agree, and if the bounds are in order the arrays
\* are the sorted input. Each output file has its array in front or is as it was.
THEOREM VerdictSafe == Spec => []VerdictIsSound
<1>1. VerdictInv /\ ServedInv /\ ContentInv => VerdictIsSound
  <2> SUFFICES ASSUME VerdictInv, ServedInv, ContentInv, man.pc = "done"
               PROVE  /\ \A d \in Nodes :
                           /\ man.results[d + 1].min = Head(SortedArrays[d])
                           /\ man.results[d + 1].max = Last(SortedArrays[d])
                           /\ output[d] \in Saved(OldOutputs[d], SortedArrays[d])
                      /\ CrcOk
                      /\ SortOk => FlattenSeq(ArraysByNode) = Sorted(FlattenSeq(InputFiles))
    BY DEF VerdictIsSound, ArraysByNode, InputFiles
  <2>1. ASSUME NEW d \in Nodes
        PROVE  /\ man.results[d + 1].min = Head(SortedArrays[d])
               /\ man.results[d + 1].max = Last(SortedArrays[d])
               /\ output[d] \in Saved(OldOutputs[d], SortedArrays[d])
    <3>1. PICK t : t = SortedArrays[d]
      OBVIOUS
    <3>2. PICK n \in Nat \ {0} : n = ItemsCount
      BY CountsAssumption
    <3>3. /\ t \in [1 .. n -> Nat]
          /\ man.results[d + 1].min = t[1] /\ man.results[d + 1].max = t[n]
          /\ output[d] \in Saved(OldOutputs[d], SortedArrays[d])
      BY <3>1, <3>2, ReportFacts
    <3>4. Head(t) = t[1] /\ Last(t) = t[n]
      <4>1. t \in Seq(Nat) /\ Len(t) = n
        BY <3>3
      <4> QED
        BY <4>1 DEF Last
    <3> QED
      BY <3>1, <3>3, <3>4
  <2> QED
    BY <2>1, CrcsAgree, ArraysInOrder
<1> QED
  BY <1>1, VerdictInvariance, ServedInvariance, ContentInvariance, PTL DEF Spec, Steps

-----------------------------------------------------------------------------
(* File servers that end. *)

\* A destination with its mount gone does nothing that the others see, and the end of
\* its server is no step of the protocol.
LEMMA MountsStep ==
  ASSUME [MountsNext]_allVars
  PROVE  [Next]_vars
<1>1. ASSUME NEW d \in Nodes, DestGoesOn(d)
      PROVE  Next
  BY <1>1 DEF DestGoesOn, Next
<1>2. ASSUME NEW d \in Nodes, ServerEnds(d) \/ Orphan(d)
      PROVE  UNCHANGED vars
  BY <1>2 DEF ServerEnds, Orphan
<1>3. ASSUME NEW d \in Nodes,
             \/ DestCountsAgain(d) \/ DestAborts(d) \/ DestNotReplies(d)
             \/ DestSavesAll(d) \/ DestNotReports(d)
      PROVE  Orphan(d)
  BY <1>3 DEF DestCountsAgain, DestAborts, DestNotReplies, DestSavesAll, DestNotReports
<1>4. UNCHANGED allVars => UNCHANGED vars
  BY DEF allVars, vars
<1> QED
  BY <1>1, <1>2, <1>3, <1>4 DEF MountsNext, Next

\* To the nodes whose servers are there a destination whose server ended has merely
\* stopped: without regard to the orphans, what happens are steps of the protocol, and
\* every invariant of its steps holds.
THEOREM MountsImplementSteps == MountsSpec => Steps
<1>1. MountsInit => Init
  BY DEF MountsInit
<1>2. [MountsNext]_allVars => [Next]_vars
  BY MountsStep
<1> QED
  BY <1>1, <1>2, PTL DEF MountsSpec, Steps

\* LivingDestFull, for every number of nodes and items and all servers that may end: a
\* destination whose server is there leaves its loop with all its items, and each source
\* has its answer.
THEOREM LivingSafe == MountsSpec => []LivingDestFull
<1>1. ServedInv => LivingDestFull
  BY AllServed DEF DestsServed, LivingDestFull
<1> QED
  BY <1>1, MountsImplementSteps, ServedInvariance, PTL

\* If a source exits or the analysis fails, the ranges are never known.
LEMMA FailedUnranged ==
  ASSUME ExInv, Failed
  PROVE  ~ Ranged
<1>1. ASSUME NEW s \in Nodes, src[s].pc = "exited"
      PROVE  man.pc \in Collecting
  BY <1>1 DEF ExInv, Phase
<1> QED
  BY <1>1 DEF Failed, Ranged, Collecting

\* A destination whose server ended had not reported.
GoneInv == \A d \in Gone : d \in Nodes /\ dst[d].pc # "done"

\* It never will.
LEMMA GoneStep ==
  ASSUME GoneInv, ServedInv, [MountsNext]_allVars
  PROVE  GoneInv'
<1>1. CASE UNCHANGED <<dst, orphans>>
  BY <1>1 DEF GoneInv, Gone
<1>2. ASSUME NEW d \in Nodes, DestGoesOn(d)
      PROVE  GoneInv'
  <2>1. d \notin Gone /\ Gone' = Gone
    BY Zenon, <1>2 DEF DestGoesOn, Up, Gone
  <2>2. ASSUME NEW e \in Nodes, e # d
        PROVE  dst'[e] = dst[e]
    <3>1. DOMAIN dst = Nodes
      BY DEF ServedInv, TransferShape
    <3>2. DestStep(d)
      BY <1>2 DEF DestGoesOn
    <3> QED
      BY Zenon, <2>2, <3>1, <3>2 DEF DestStep, DestRead, DestWrite, DestSave, DestReport
  <2> QED
    BY <2>1, <2>2 DEF GoneInv
<1>3. ASSUME NEW d \in Nodes, ServerEnds(d)
      PROVE  GoneInv'
  <2>1. Gone' = Gone \cup {d} /\ dst[d].pc # "done" /\ dst' = dst
    BY <1>3 DEF ServerEnds, Gone, vars
  <2> QED
    BY <2>1 DEF GoneInv
<1>4. ASSUME NEW d \in Nodes,
             \/ DestCountsAgain(d) \/ DestAborts(d) \/ DestNotReplies(d)
             \/ DestSavesAll(d) \/ DestNotReports(d)
      PROVE  GoneInv'
  <2>1. dst' = dst
    BY <1>4 DEF DestCountsAgain, DestAborts, DestNotReplies, DestSavesAll,
       DestNotReports, Orphan, vars
  <2>2. Gone' = Gone
    BY <1>4 DEF DestCountsAgain, DestAborts, DestNotReplies, DestSavesAll,
       DestNotReports, Gone
  <2> QED
    BY <2>1, <2>2 DEF GoneInv
<1>5. ASSUME NEW s \in Nodes, SourceStep(s), UNCHANGED mountVars
      PROVE  UNCHANGED <<dst, orphans>>
  BY Zenon, <1>5 DEF SourceStep, SourceSort, SourceExit, SourceWriteCrc, SourceWriteHistogram,
     SourceAnswer, SourceReadRequest, SourceSend, SourceReceive, mountVars
<1>6. ASSUME ManagerStep, UNCHANGED mountVars
      PROVE  UNCHANGED <<dst, orphans>>
  BY Zenon, <1>6 DEF ManagerStep, ManagerReadCrc, ManagerReadHeader, ManagerReadArray,
     ManagerAnalyze, ManagerAsk, ManagerHear, ManagerFault, ManagerPartition,
     ManagerTell, ManagerReadResult, mountVars
<1>7. UNCHANGED allVars => UNCHANGED <<dst, orphans>>
  BY DEF allVars
<1> QED
  BY <1>1, <1>2, <1>3, <1>4, <1>5, <1>6, <1>7 DEF MountsNext

\* So none is gone when the manager comes to its verdict, and all have reported.
LEMMA NoneGone ==
  ASSUME GoneInv, VerdictInv, man.pc = "done", NEW d \in Nodes
  PROVE  dst[d].pc = "done" /\ Process(d) = dst[d] /\ File(d) = output[d]
<1>1. dst[d].pc = "done"
  BY AllRead
<1> QED
  BY <1>1 DEF GoneInv, Process, File, Up

\* In every state.
LEMMA GoneInvariance == MountsSpec => []GoneInv
<1>1. MountsInit => GoneInv
  BY DEF MountsInit, GoneInv, Gone
<1>2. GoneInv /\ ServedInv /\ [MountsNext]_allVars => GoneInv'
  BY GoneStep
<1> QED
  BY <1>1, <1>2, MountsImplementSteps, ServedInvariance, PTL DEF MountsSpec

\* NoPartialResult, for every number of nodes and items: behind a source that exits or
\* an analysis that fails a destination with its server leaves its output file as it
\* was, and there is no verdict, nor is there one if a destination is aborted.
THEOREM PartialSafe == MountsSpec => []NoPartialResult
<1>1. GoneInv /\ VerdictInv /\ ExInv /\ ServedInv /\ ContentInv => NoPartialResult
  <2> SUFFICES ASSUME GoneInv, VerdictInv, ExInv, ServedInv, ContentInv
               PROVE  NoPartialResult
    OBVIOUS
  <2>1. Failed => man.pc # "done" /\ \A d \in Nodes : output[d] = OldOutputs[d]
    BY FailedUnranged, NoneWritten DEF Ranged
  <2>2. ASSUME NEW d \in Nodes, Process(d).pc = "aborted"
        PROVE  man.pc # "done"
    BY <2>2, NoneGone
  <2> QED
    BY <2>1, <2>2 DEF NoPartialResult
<1> QED
  BY <1>1, GoneInvariance, MountsImplementSteps, VerdictInvariance, ExchangeInvariance,
     ServedInvariance, ContentInvariance, PTL

\* NoVerdictOnDamage, for every number of nodes and items and whatever an orphan saves:
\* when the manager comes to its verdict, each destination has sorted the share that the
\* manager asked for, its output file has this share in front or is as it was, and the
\* crcs agree.
THEOREM DamageSafe == MountsSpec => []NoVerdictOnDamage
<1>1. GoneInv /\ VerdictInv /\ ServedInv /\ ContentInv => NoVerdictOnDamage
  <2> SUFFICES ASSUME GoneInv, VerdictInv, ServedInv, ContentInv, man.pc = "done"
               PROVE  /\ \A d \in Nodes : /\ Sorted(Process(d).array) = Share(d)
                                          /\ File(d) \in Saved(OldOutputs[d], Share(d))
                      /\ CrcOk
    BY DEF NoVerdictOnDamage
  <2>1. ASSUME NEW d \in Nodes
        PROVE  /\ Sorted(Process(d).array) = Share(d)
               /\ File(d) \in Saved(OldOutputs[d], Share(d))
    <3>1. dst[d].pc = "done" /\ Process(d) = dst[d] /\ File(d) = output[d]
      BY NoneGone
    <3>2. output[d] \in Saved(OldOutputs[d], Sorted(dst[d].array))
      BY <3>1 DEF ContentInv, Written
    <3>3. Sorted(dst[d].array) = Sorted([p \in Given(man.cut, d) |-> Item(p)])
      BY <3>1, OutputsRight
    <3> QED
      BY <3>1, <3>2, <3>3 DEF Share, Item
  <2> QED
    BY <2>1, CrcsAgree
<1> QED
  BY <1>1, GoneInvariance, MountsImplementSteps, VerdictInvariance, ServedInvariance,
     ContentInvariance, PTL
=============================================================================
