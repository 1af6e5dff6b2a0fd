-------------------------- MODULE MergeSortProofs --------------------------
(***************************************************************************)
(* alloc_merge_sort returns every item of its array exactly once, and in   *)
(* order, and holds twice the items at most; its test and its crc tell the *)
(* array it returns from others: for arrays of every length, of any values.*)
(***************************************************************************)
EXTENDS SortChecks, DataLemmas

USE ItemAssumption, MaxLenAssumption

\* s holds the positions offset + 1 .. offset + len, in the order of values.
SortedPart(s, offset, len) ==
  /\ s \in Seq(Nat)
  /\ Len(s) = len
  /\ PositionsOf(s) = (offset + 1) .. (offset + len)
  /\ NonDecreasing(s)

\* No item of s has a greater value than one of t.
NotAbove(s, t) == \A p \in PositionsOf(s), q \in PositionsOf(t) : array[p] <= array[q]

WaitsForLeft(f) ==
  f.stage = "left" => f.left = <<>> /\ f.right = <<>> /\ f.result = <<>>

WaitsForRight(f) ==
  f.stage = "right" => /\ SortedPart(f.left, f.offset, Middle(f))
                       /\ f.right = <<>> /\ f.result = <<>>

Merges(f) ==
  f.stage = "merge" =>
    /\ PositionsOf(f.result) \cup PositionsOf(f.left) \cup PositionsOf(f.right)
         = (f.offset + 1) .. (f.offset + f.len)
    /\ Len(f.result) + Len(f.left) + Len(f.right) = f.len
    /\ NonDecreasing(f.result) /\ NonDecreasing(f.left) /\ NonDecreasing(f.right)
    /\ NotAbove(f.result, f.left) /\ NotAbove(f.result, f.right)

FrameOK(f) ==
  /\ f \in Frame
  /\ f.len >= 2
  /\ f.offset + f.len <= Len(array)
  /\ WaitsForLeft(f) /\ WaitsForRight(f) /\ Merges(f)

\* A call is for the half that the call below it waits for.
CalledBy(f, caller) ==
  /\ caller.stage \in {"left", "right"}
  /\ f.offset = HalfOffset(caller)
  /\ f.len = HalfLen(caller)

StackOK(calls) ==
  /\ calls \in Seq(Frame)
  /\ \A d \in 1..Len(calls) : FrameOK(calls[d])
  /\ \A d \in 1..(Len(calls) - 1) : CalledBy(calls[d + 1], calls[d])
  /\ calls # <<>> => calls[1].offset = 0 /\ calls[1].len = Len(array)

SortedOK == Done => SortedPart(sorted, 0, Len(array))

IInv ==
  /\ array \in Seq(BigArrayItem)
  /\ sorted \in Seq(Nat)
  /\ StackOK(stack)
  /\ SortedOK

-----------------------------------------------------------------------------
(* Sequences of positions.                                                 *)

\* A sorted sequence with a position of a greatest item appended stays sorted.
LEMMA AppendFacts ==
  ASSUME NEW s \in Seq(Nat), NEW p \in Nat, array \in Seq(BigArrayItem),
         NonDecreasing(s), \A q \in PositionsOf(s) : array[q] <= array[p],
         PositionsOf(s) \subseteq 1..Len(array), p \in 1..Len(array)
  PROVE  /\ Append(s, p) \in Seq(Nat)
         /\ Len(Append(s, p)) = Len(s) + 1
         /\ PositionsOf(Append(s, p)) = PositionsOf(s) \cup {p}
         /\ NonDecreasing(Append(s, p))
<1> DEFINE t == Append(s, p)
<1>1. /\ t \in Seq(Nat) /\ Len(t) = Len(s) + 1 /\ t[Len(s) + 1] = p
      /\ \A i \in 1..Len(s) : t[i] = s[i]
  OBVIOUS
<1> HIDE DEF t
<1>2. Len(s) \in Nat /\ Len(t) = Len(s) + 1
  BY <1>1
<1>3. PositionsOf(t) = PositionsOf(s) \cup {p}
  <2>1. 1..Len(t) = 1..Len(s) \cup {Len(s) + 1}
    BY <1>2
  <2>2. PICK I : I = 1..Len(s)
    OBVIOUS
  <2>3. {t[i] : i \in I \cup {Len(s) + 1}} = {s[i] : i \in I} \cup {p}
    BY <1>1, <2>2
  <2> QED  BY <2>1, <2>2, <2>3 DEF PositionsOf
<1>4. NonDecreasing(t)
  <2> SUFFICES ASSUME NEW i \in 1..Len(t), NEW j \in 1..Len(t), i < j
               PROVE  array[t[i]] <= array[t[j]]
    BY DEF NonDecreasing
  <2>1. CASE j = Len(s) + 1
    <3>1. i \in 1..Len(s) /\ t[i] = s[i] /\ t[j] = p
      BY <1>1, <1>2, <2>1
    <3>2. t[i] \in PositionsOf(s)
      BY <3>1 DEF PositionsOf
    <3> QED  BY <3>1, <3>2
  <2>2. CASE j # Len(s) + 1
    <3>1. i \in 1..Len(s) /\ j \in 1..Len(s)
      BY <1>2, <2>2
    <3> QED  BY <3>1, <1>1 DEF NonDecreasing
  <2> QED  BY <2>1, <2>2
<1> QED  BY <1>1, <1>3, <1>4 DEF t

\* The head of a sorted sequence is below the rest, and the rest is sorted.
LEMMA TailFacts ==
  ASSUME NEW s \in Seq(Nat), s # <<>>, NonDecreasing(s)
  PROVE  /\ Head(s) \in Nat
         /\ Tail(s) \in Seq(Nat)
         /\ Len(Tail(s)) = Len(s) - 1
         /\ PositionsOf(s) = PositionsOf(Tail(s)) \cup {Head(s)}
         /\ NonDecreasing(Tail(s))
         /\ \A q \in PositionsOf(Tail(s)) : array[Head(s)] <= array[q]
<1> DEFINE t == Tail(s)
<1>1. /\ t \in Seq(Nat) /\ Len(t) = Len(s) - 1 /\ Head(s) = s[1] /\ s[1] \in Nat
      /\ \A i \in 1..Len(t) : t[i] = s[i + 1]
      /\ Len(s) \in Nat \ {0}
  OBVIOUS
<1> HIDE DEF t
<1>2. PositionsOf(s) = PositionsOf(t) \cup {Head(s)}
  <2>1. PositionsOf(t) \cup {Head(s)} \subseteq PositionsOf(s)
    <3>1. ASSUME NEW i \in 1..Len(t)
          PROVE  t[i] \in PositionsOf(s)
      <4>1. i + 1 \in 1..Len(s) /\ t[i] = s[i + 1]
        BY <1>1
      <4> QED  BY <4>1 DEF PositionsOf
    <3>2. s[1] \in PositionsOf(s)
      <4>1. 1 \in 1..Len(s)
        BY <1>1
      <4> QED  BY <4>1 DEF PositionsOf
    <3> QED  BY <1>1, <3>1, <3>2 DEF PositionsOf
  <2>2. ASSUME NEW i \in 1..Len(s), i # 1
        PROVE  s[i] \in PositionsOf(t)
    <3>1. i - 1 \in 1..Len(t) /\ t[i - 1] = s[i]
      BY <1>1, <2>2
    <3> QED  BY <3>1 DEF PositionsOf
  <2> QED  BY <1>1, <2>1, <2>2 DEF PositionsOf
<1>3. NonDecreasing(t)
  <2> SUFFICES ASSUME NEW i \in 1..Len(t), NEW j \in 1..Len(t), i < j
               PROVE  array[t[i]] <= array[t[j]]
    BY DEF NonDecreasing
  <2>1. i + 1 \in 1..Len(s) /\ j + 1 \in 1..Len(s) /\ i + 1 < j + 1
    BY <1>1
  <2> QED  BY <1>1, <2>1 DEF NonDecreasing
<1>4. ASSUME NEW q \in PositionsOf(t)
      PROVE  array[Head(s)] <= array[q]
  <2>1. PICK i \in 1..Len(t) : q = t[i]
    BY DEF PositionsOf
  <2>2. i + 1 \in 1..Len(s) /\ 1 \in 1..Len(s) /\ 1 < i + 1
    BY <1>1
  <2> QED  BY <1>1, <2>1, <2>2 DEF NonDecreasing
<1> QED  BY <1>1, <1>2, <1>3, <1>4 DEF t

\* Two sequences joined hold the positions of both.
LEMMA ConcatPositions ==
  ASSUME NEW s \in Seq(Nat), NEW t \in Seq(Nat)
  PROVE  /\ s \o t \in Seq(Nat)
         /\ PositionsOf(s \o t) = PositionsOf(s) \cup PositionsOf(t)
<1> DEFINE u == s \o t
<1>1. /\ u \in Seq(Nat) /\ Len(u) = Len(s) + Len(t)
      /\ \A i \in 1..Len(s) : u[i] = s[i]
      /\ \A i \in 1..Len(u) : i > Len(s) => u[i] = t[i - Len(s)]
      /\ Len(s) \in Nat /\ Len(t) \in Nat
  OBVIOUS
<1> HIDE DEF u
<1>2. ASSUME NEW i \in 1..Len(u)
      PROVE  u[i] \in PositionsOf(s) \cup PositionsOf(t)
  <2>1. CASE i > Len(s)
    <3>1. i - Len(s) \in 1..Len(t) /\ u[i] = t[i - Len(s)]
      BY <1>1, <2>1
    <3> QED  BY <3>1 DEF PositionsOf
  <2>2. CASE ~(i > Len(s))
    <3>1. i \in 1..Len(s)
      BY <1>1, <2>2
    <3> QED  BY <1>1, <3>1 DEF PositionsOf
  <2> QED  BY <2>1, <2>2
<1>3. PositionsOf(s) \subseteq PositionsOf(u)
  BY <1>1 DEF PositionsOf
<1>4. ASSUME NEW k \in 1..Len(t)
      PROVE  t[k] \in PositionsOf(u)
  <2>1. Len(s) + k \in 1..Len(u) /\ Len(s) + k > Len(s) /\ (Len(s) + k) - Len(s) = k
    BY <1>1
  <2>2. u[Len(s) + k] = t[k]
    BY <1>1, <2>1
  <2> QED  BY <2>1, <2>2 DEF PositionsOf
<1>5. PositionsOf(u) = PositionsOf(s) \cup PositionsOf(t)
  BY <1>2, <1>3, <1>4 DEF PositionsOf
<1> QED  BY <1>1, <1>5 DEF u

\* Two sorted sequences, one below the other, join to a sorted one.
LEMMA ConcatFacts ==
  ASSUME NEW s \in Seq(Nat), NEW t \in Seq(Nat),
         NonDecreasing(s), NonDecreasing(t), NotAbove(s, t)
  PROVE  /\ s \o t \in Seq(Nat)
         /\ Len(s \o t) = Len(s) + Len(t)
         /\ PositionsOf(s \o t) = PositionsOf(s) \cup PositionsOf(t)
         /\ NonDecreasing(s \o t)
<1> DEFINE u == s \o t
<1>1. /\ u \in Seq(Nat) /\ Len(u) = Len(s) + Len(t)
      /\ \A i \in 1..Len(s) : u[i] = s[i]
      /\ \A i \in 1..Len(u) : i > Len(s) => u[i] = t[i - Len(s)]
      /\ Len(s) \in Nat /\ Len(t) \in Nat
  OBVIOUS
<1>2. PositionsOf(u) = PositionsOf(s) \cup PositionsOf(t)
  BY ConcatPositions
<1> HIDE DEF u
<1>3. ASSUME NEW i \in 1..Len(u), i > Len(s)
      PROVE  i - Len(s) \in 1..Len(t) /\ u[i] = t[i - Len(s)]
  BY <1>1, <1>3
<1>4. NonDecreasing(u)
  <2> SUFFICES ASSUME NEW i \in 1..Len(u), NEW j \in 1..Len(u), i < j
               PROVE  array[u[i]] <= array[u[j]]
    BY DEF NonDecreasing
  <2>1. CASE i > Len(s)
    <3>1. j > Len(s) /\ i - Len(s) < j - Len(s)
      BY <1>1, <2>1
    <3> QED  BY <1>3, <2>1, <3>1 DEF NonDecreasing
  <2>2. CASE ~(j > Len(s))
    <3>1. i \in 1..Len(s) /\ j \in 1..Len(s)
      BY <1>1, <2>2
    <3> QED  BY <1>1, <3>1 DEF NonDecreasing
  <2>3. CASE ~(i > Len(s)) /\ j > Len(s)
    <3>1. i \in 1..Len(s)
      BY <1>1, <2>3
    <3>2. u[i] \in PositionsOf(s) /\ u[j] \in PositionsOf(t)
      BY <1>1, <1>3, <2>3, <3>1 DEF PositionsOf
    <3> QED  BY <3>2 DEF NotAbove
  <2> QED  BY <2>1, <2>2, <2>3
<1> QED  BY <1>1, <1>2, <1>4 DEF u

\* A position of the array holds an item.
LEMMA PositionsInArray ==
  ASSUME array \in Seq(BigArrayItem), NEW p \in 1..Len(array)
  PROVE  p \in Nat /\ array[p] \in Nat
<1>1. Len(array) \in Nat /\ array[p] \in BigArrayItem
  OBVIOUS
<1>2. p \in Nat
  BY <1>1
<1> QED  BY <1>1, <1>2, ItemAssumption

\* What one round of the loop of merge does with its three arrays: r gets the
\* first item of s, which is not greater than the first one of o.
LEMMA TakeFacts ==
  ASSUME array \in Seq(BigArrayItem),
         NEW r \in Seq(Nat), NEW s \in Seq(Nat), NEW o \in Seq(Nat),
         s # <<>>, o # <<>>,
         NonDecreasing(r), NonDecreasing(s), NonDecreasing(o),
         NotAbove(r, s), NotAbove(r, o),
         PositionsOf(r) \subseteq 1..Len(array),
         PositionsOf(s) \subseteq 1..Len(array),
         PositionsOf(o) \subseteq 1..Len(array),
         array[Head(s)] <= array[Head(o)]
  PROVE  /\ Append(r, Head(s)) \in Seq(Nat) /\ Tail(s) \in Seq(Nat)
         /\ PositionsOf(Append(r, Head(s))) \cup PositionsOf(Tail(s))
              = PositionsOf(r) \cup PositionsOf(s)
         /\ Len(Append(r, Head(s))) + Len(Tail(s)) = Len(r) + Len(s)
         /\ NonDecreasing(Append(r, Head(s))) /\ NonDecreasing(Tail(s))
         /\ NotAbove(Append(r, Head(s)), Tail(s)) /\ NotAbove(Append(r, Head(s)), o)
<1> DEFINE p == Head(s)
           r2 == Append(r, p)
           s2 == Tail(s)
<1>1. /\ p \in Nat /\ s2 \in Seq(Nat) /\ Len(s2) = Len(s) - 1
      /\ PositionsOf(s) = PositionsOf(s2) \cup {p}
      /\ NonDecreasing(s2)
      /\ \A q \in PositionsOf(s2) : array[p] <= array[q]
  BY TailFacts
<1>2. \A q \in PositionsOf(r) : array[q] <= array[p]
  BY <1>1 DEF NotAbove
<1>3. p \in 1..Len(array)
  BY <1>1
<1>4. /\ r2 \in Seq(Nat) /\ Len(r2) = Len(r) + 1
      /\ PositionsOf(r2) = PositionsOf(r) \cup {p}
      /\ NonDecreasing(r2)
  BY <1>1, <1>2, <1>3, AppendFacts
<1>5. Head(o) \in PositionsOf(o) /\ \A q \in PositionsOf(o) : array[Head(o)] <= array[q]
  <2>1. /\ Head(o) \in Nat
        /\ PositionsOf(o) = PositionsOf(Tail(o)) \cup {Head(o)}
        /\ \A q \in PositionsOf(Tail(o)) : array[Head(o)] <= array[q]
    BY TailFacts
  <2>2. array[Head(o)] \in Nat
    BY <2>1, PositionsInArray
  <2> QED  BY <2>1, <2>2
<1> HIDE DEF p, r2, s2
<1>6. NotAbove(r2, s2)
  BY <1>1, <1>2, <1>4 DEF NotAbove
<1>7. NotAbove(r2, o)
  <2> SUFFICES ASSUME NEW q \in PositionsOf(o)
               PROVE  array[p] <= array[q]
    BY <1>4 DEF NotAbove
  <2>1. PICK a \in Nat, b \in Nat, c \in Nat :
          a = array[p] /\ b = array[Head(o)] /\ c = array[q]
    BY <1>3, <1>5, PositionsInArray
  <2>2. a <= b /\ b <= c
    BY <1>5, <2>1 DEF p
  <2>3. a <= c
    BY <2>2
  <2> QED  BY <2>1, <2>3
<1>8. Len(r2) + Len(s2) = Len(r) + Len(s)
  BY <1>1, <1>4
<1> QED  BY <1>1, <1>4, <1>6, <1>7, <1>8 DEF p, r2, s2

-----------------------------------------------------------------------------
(* Frames.                                                                 *)

\* A call of merge_sort has a part of the array and three arrays of its own.
LEMMA FrameType ==
  ASSUME NEW f \in Frame
  PROVE  /\ f.offset \in Nat /\ f.len \in Nat /\ f.stage \in Stages
         /\ f.left \in Seq(Nat) /\ f.right \in Seq(Nat) /\ f.result \in Seq(Nat)
BY DEF Frame

\* The two halves are shorter than the whole, not empty, and together it.
LEMMA HalfFacts ==
  ASSUME NEW f \in Frame, f.len >= 2
  PROVE  /\ Middle(f) \in Nat /\ Middle(f) >= 1 /\ Middle(f) < f.len
         /\ HalfOffset(f) \in Nat /\ HalfLen(f) \in Nat
         /\ HalfOffset(f) + HalfLen(f) <= f.offset + f.len
         /\ f.offset <= HalfOffset(f)
         /\ HalfLen(f) >= 1
<1>1. f.offset \in Nat /\ f.len \in Nat
  BY FrameType
<1>2. f.len \div 2 \in Nat /\ f.len \div 2 >= 1 /\ f.len \div 2 < f.len
  BY <1>1
<1>3. /\ Middle(f) \in Nat /\ Middle(f) >= 1 /\ Middle(f) < f.len
  BY <1>2 DEF Middle
<1> QED  BY <1>1, <1>3 DEF HalfOffset, HalfLen

\* A new call waits for its left half.
LEMMA CallFacts ==
  ASSUME NEW offset \in Nat, NEW len \in Nat, len >= 2,
         offset + len <= Len(array)
  PROVE  /\ FrameOK(Call(offset, len))
         /\ Call(offset, len).offset = offset
         /\ Call(offset, len).len = len
BY DEF FrameOK, Call, Frame, Stages, WaitsForLeft, WaitsForRight, Merges

\* A part of at most one item is sorted as it is copied.
LEMMA CopyFacts ==
  ASSUME array \in Seq(BigArrayItem), NEW offset \in Nat, NEW len \in {0, 1},
         offset + len <= Len(array)
  PROVE  SortedPart(AllocCopyArray(offset, len), offset, len)
<1> DEFINE s == [i \in 1..len |-> offset + i]
<1>1. s \in Seq(Nat) /\ Len(s) = len
  BY DEF AllocCopyArray
<1>2. PositionsOf(s) = (offset + 1) .. (offset + len)
  <2>1. CASE len = 0
    BY <1>1, <2>1 DEF PositionsOf
  <2>2. CASE len = 1
    <3>1. 1..Len(s) = {1} /\ s[1] = offset + 1
      BY <1>1, <2>2
    <3> HIDE DEF s
    <3>2. PositionsOf(s) = {offset + 1}
      BY <3>1 DEF PositionsOf
    <3> QED  BY <3>2, <2>2
  <2> QED  BY <2>1, <2>2
<1>3. NonDecreasing(s)
  BY <1>1 DEF NonDecreasing
<1> QED  BY <1>1, <1>2, <1>3 DEF SortedPart, AllocCopyArray

\* The array a call returns is what the call below it waits for.
LEMMA ReceiveFacts ==
  ASSUME NEW f, FrameOK(f), f.stage \in {"left", "right"},
         NEW s, SortedPart(s, HalfOffset(f), HalfLen(f)),
         array \in Seq(BigArrayItem)
  PROVE  /\ FrameOK(Receive(f, s))
         /\ Receive(f, s).offset = f.offset
         /\ Receive(f, s).len = f.len
<1> USE DEF FrameOK
<1>1. f \in Frame /\ s \in Seq(Nat)
  BY DEF SortedPart
<1>2. CASE f.stage = "left"
  <2> DEFINE g == [f EXCEPT !.left = s, !.stage = "right"]
  <2>1. /\ Receive(f, s) = g
        /\ g \in Frame /\ g.stage = "right" /\ g.offset = f.offset /\ g.len = f.len
        /\ g.left = s /\ g.right = <<>> /\ g.result = <<>>
    BY <1>1, <1>2 DEF Receive, Frame, Stages, WaitsForLeft
  <2>2. SortedPart(s, g.offset, Middle(g))
    BY <1>2, <2>1 DEF HalfOffset, HalfLen, Middle
  <2> HIDE DEF g
  <2> QED  BY <2>1, <2>2 DEF WaitsForLeft, WaitsForRight, Merges
<1>3. CASE f.stage = "right"
  <2> DEFINE g == [f EXCEPT !.right = s, !.stage = "merge"]
  <2>1. /\ Receive(f, s) = g
        /\ g \in Frame /\ g.stage = "merge" /\ g.offset = f.offset /\ g.len = f.len
        /\ g.left = f.left /\ g.right = s /\ g.result = <<>>
        /\ SortedPart(f.left, f.offset, Middle(f))
    BY <1>1, <1>3 DEF Receive, Frame, Stages, WaitsForRight
  <2>2. SortedPart(s, f.offset + Middle(f), f.len - Middle(f))
    BY <1>3 DEF HalfOffset, HalfLen
  <2>3. PositionsOf(<<>>) = {} /\ Len(<<>>) = 0 /\ NonDecreasing(<<>>)
    BY DEF PositionsOf, NonDecreasing
  <2>4. NotAbove(<<>>, f.left) /\ NotAbove(<<>>, s)
    BY <2>3 DEF NotAbove
  <2>5. (f.offset + 1) .. (f.offset + f.len)
          = ((f.offset + 1) .. (f.offset + Middle(f)))
            \cup ((f.offset + Middle(f) + 1) .. (f.offset + Middle(f) + (f.len - Middle(f))))
    <3> DEFINE o == f.offset
               n == f.len
               m == Middle(f)
    <3>1. o \in Nat /\ n \in Nat /\ m \in Nat /\ m < n
      BY HalfFacts, FrameType, <1>1
    <3> HIDE DEF o, n, m
    <3>2. (o + 1) .. (o + n) = ((o + 1) .. (o + m)) \cup ((o + m + 1) .. (o + m + (n - m)))
      BY <3>1
    <3> QED  BY <3>2 DEF o, n, m
  <2>6. Len(f.left) = Middle(f) /\ Len(s) = f.len - Middle(f) /\ 0 + Len(f.left) + Len(s) = f.len
    <3>1. Len(f.left) = Middle(f) /\ Len(s) = f.len - Middle(f)
      BY <2>1, <2>2 DEF SortedPart
    <3>2. Middle(f) \in Nat /\ f.len \in Nat
      BY HalfFacts, FrameType, <1>1
    <3> QED  BY <3>1, <3>2
  <2> HIDE DEF g
  <2>7. Merges(g)
    BY <2>1, <2>2, <2>3, <2>4, <2>5, <2>6 DEF Merges, SortedPart
  <2> QED  BY <2>1, <2>7 DEF WaitsForLeft, WaitsForRight
<1> QED  BY <1>2, <1>3

\* A merge with nothing left on one side returns its part of the array in order.
LEMMA MergedFacts ==
  ASSUME NEW f, FrameOK(f), f.stage = "merge", f.left = <<>> \/ f.right = <<>>
  PROVE  SortedPart(MergedWithRest(f), f.offset, f.len)
<1> USE DEF FrameOK
<1>1. /\ f.left \in Seq(Nat) /\ f.right \in Seq(Nat) /\ f.result \in Seq(Nat)
      /\ f.offset \in Nat /\ f.len \in Nat
  BY FrameType
<1>2. /\ PositionsOf(f.result) \cup PositionsOf(f.left) \cup PositionsOf(f.right)
           = (f.offset + 1) .. (f.offset + f.len)
      /\ Len(f.result) + Len(f.left) + Len(f.right) = f.len
      /\ NonDecreasing(f.result) /\ NonDecreasing(f.left) /\ NonDecreasing(f.right)
      /\ NotAbove(f.result, f.left) /\ NotAbove(f.result, f.right)
  BY DEF Merges
<1> DEFINE h == f.result \o f.left
<1>3. /\ h \in Seq(Nat)
      /\ Len(h) = Len(f.result) + Len(f.left)
      /\ PositionsOf(h) = PositionsOf(f.result) \cup PositionsOf(f.left)
      /\ NonDecreasing(h)
  BY <1>1, <1>2, ConcatFacts
<1>4. NotAbove(h, f.right)
  <2>1. CASE f.left = <<>>
    <3>1. PositionsOf(f.left) = {}
      BY <2>1 DEF PositionsOf
    <3> QED  BY <1>2, <1>3, <3>1 DEF NotAbove
  <2>2. CASE f.right = <<>>
    <3>1. PositionsOf(f.right) = {}
      BY <2>2 DEF PositionsOf
    <3> QED  BY <3>1 DEF NotAbove
  <2> QED  BY <2>1, <2>2
<1> HIDE DEF h
<1>5. /\ h \o f.right \in Seq(Nat)
      /\ Len(h \o f.right) = Len(h) + Len(f.right)
      /\ PositionsOf(h \o f.right) = PositionsOf(h) \cup PositionsOf(f.right)
      /\ NonDecreasing(h \o f.right)
  BY <1>1, <1>2, <1>3, <1>4, ConcatFacts
<1>6. MergedWithRest(f) = h \o f.right
  BY DEF MergedWithRest, h
<1>7. Len(h \o f.right) = f.len
  BY <1>2, <1>3, <1>5
<1>8. PositionsOf(h \o f.right) = (f.offset + 1) .. (f.offset + f.len)
  BY <1>2, <1>3, <1>5
<1> QED  BY <1>5, <1>6, <1>7, <1>8 DEF SortedPart

\* One round of the loop leaves a frame that merges in the same state.
LEMMA TakeLeftFacts ==
  ASSUME array \in Seq(BigArrayItem), NEW f, FrameOK(f), f.stage = "merge",
         f.left # <<>>, f.right # <<>>, LeftFirst(f)
  PROVE  LET g == [f EXCEPT !.result = Append(@, Head(f.left)), !.left = Tail(@)]
         IN  FrameOK(g) /\ g.offset = f.offset /\ g.len = f.len
<1> DEFINE r == Append(f.result, Head(f.left))
           s == Tail(f.left)
           g == [f EXCEPT !.result = Append(@, Head(f.left)), !.left = Tail(@)]
<1>1. /\ f \in Frame
      /\ f.left \in Seq(Nat) /\ f.right \in Seq(Nat) /\ f.result \in Seq(Nat)
      /\ f.offset \in Nat /\ f.len \in Nat
  BY FrameType DEF FrameOK
<1>2. /\ PositionsOf(f.result) \cup PositionsOf(f.left) \cup PositionsOf(f.right)
           = (f.offset + 1) .. (f.offset + f.len)
      /\ Len(f.result) + Len(f.left) + Len(f.right) = f.len
      /\ NonDecreasing(f.result) /\ NonDecreasing(f.left) /\ NonDecreasing(f.right)
      /\ NotAbove(f.result, f.left) /\ NotAbove(f.result, f.right)
  BY DEF FrameOK, Merges
<1>3. (f.offset + 1) .. (f.offset + f.len) \subseteq 1..Len(array)
  BY <1>1 DEF FrameOK
<1>4. /\ r \in Seq(Nat) /\ s \in Seq(Nat)
      /\ PositionsOf(r) \cup PositionsOf(s) = PositionsOf(f.result) \cup PositionsOf(f.left)
      /\ Len(r) + Len(s) = Len(f.result) + Len(f.left)
      /\ NonDecreasing(r) /\ NonDecreasing(s)
      /\ NotAbove(r, s) /\ NotAbove(r, f.right)
  BY <1>1, <1>2, <1>3, TakeFacts DEF LeftFirst
<1>5. /\ g \in Frame /\ g.stage = "merge" /\ g.offset = f.offset /\ g.len = f.len
      /\ g.result = r /\ g.left = s /\ g.right = f.right
  BY <1>1, <1>4 DEF Frame
<1> HIDE DEF r, s, g
<1>6. Merges(g)
  BY <1>2, <1>4, <1>5 DEF Merges
<1>7. FrameOK(g)
  BY <1>5, <1>6 DEF FrameOK, WaitsForLeft, WaitsForRight
<1> QED  BY <1>5, <1>7 DEF g

\* The branch that takes the first item of the right part.
LEMMA TakeRightFacts ==
  ASSUME array \in Seq(BigArrayItem), NEW f, FrameOK(f), f.stage = "merge",
         f.left # <<>>, f.right # <<>>, ~LeftFirst(f)
  PROVE  LET g == [f EXCEPT !.result = Append(@, Head(f.right)), !.right = Tail(@)]
         IN  FrameOK(g) /\ g.offset = f.offset /\ g.len = f.len
<1> DEFINE r == Append(f.result, Head(f.right))
           s == Tail(f.right)
           g == [f EXCEPT !.result = Append(@, Head(f.right)), !.right = Tail(@)]
<1>1. /\ f \in Frame
      /\ f.left \in Seq(Nat) /\ f.right \in Seq(Nat) /\ f.result \in Seq(Nat)
      /\ f.offset \in Nat /\ f.len \in Nat
  BY FrameType DEF FrameOK
<1>2. /\ PositionsOf(f.result) \cup PositionsOf(f.left) \cup PositionsOf(f.right)
           = (f.offset + 1) .. (f.offset + f.len)
      /\ Len(f.result) + Len(f.left) + Len(f.right) = f.len
      /\ NonDecreasing(f.result) /\ NonDecreasing(f.left) /\ NonDecreasing(f.right)
      /\ NotAbove(f.result, f.left) /\ NotAbove(f.result, f.right)
  BY DEF FrameOK, Merges
<1>3. (f.offset + 1) .. (f.offset + f.len) \subseteq 1..Len(array)
  BY <1>1 DEF FrameOK
<1>4. array[Head(f.right)] <= array[Head(f.left)]
  <2>1. Head(f.left) \in PositionsOf(f.left) /\ Head(f.right) \in PositionsOf(f.right)
    BY <1>1, <1>2, TailFacts
  <2>2. Head(f.left) \in 1..Len(array) /\ Head(f.right) \in 1..Len(array)
    BY <1>2, <1>3, <2>1
  <2>3. array[Head(f.left)] \in Nat /\ array[Head(f.right)] \in Nat
    BY <2>2, PositionsInArray
  <2> QED  BY <2>3 DEF LeftFirst
<1>5. /\ r \in Seq(Nat) /\ s \in Seq(Nat)
      /\ PositionsOf(r) \cup PositionsOf(s) = PositionsOf(f.result) \cup PositionsOf(f.right)
      /\ Len(r) + Len(s) = Len(f.result) + Len(f.right)
      /\ NonDecreasing(r) /\ NonDecreasing(s)
      /\ NotAbove(r, s) /\ NotAbove(r, f.left)
  BY <1>1, <1>2, <1>3, <1>4, TakeFacts
<1>6. /\ g \in Frame /\ g.stage = "merge" /\ g.offset = f.offset /\ g.len = f.len
      /\ g.result = r /\ g.right = s /\ g.left = f.left
  BY <1>1, <1>5 DEF Frame
<1> HIDE DEF r, s, g
<1>7. Len(r) + Len(f.left) + Len(s) = f.len
  <2>1. /\ Len(r) \in Nat /\ Len(s) \in Nat /\ f.len \in Nat
        /\ Len(f.result) \in Nat /\ Len(f.left) \in Nat /\ Len(f.right) \in Nat
    BY <1>1, <1>5
  <2>2. /\ Len(f.result) + Len(f.left) + Len(f.right) = f.len
        /\ Len(r) + Len(s) = Len(f.result) + Len(f.right)
    BY <1>2, <1>5
  <2> DEFINE lr == Len(r)
             ls == Len(s)
             lf == Len(f.left)
             le == Len(f.right)
             lt == Len(f.result)
             n == f.len
  <2> HIDE DEF lr, ls, lf, le, lt, n
  <2>3. /\ lr \in Nat /\ ls \in Nat /\ lf \in Nat /\ le \in Nat /\ lt \in Nat /\ n \in Nat
        /\ lr + ls = lt + le /\ lt + lf + le = n
    BY <2>1, <2>2 DEF lr, ls, lf, le, lt, n
  <2>4. lr + lf + ls = n
    BY <2>3
  <2> QED  BY <2>4 DEF lr, ls, lf, n
<1>8. Merges(g)
  BY <1>2, <1>5, <1>6, <1>7 DEF Merges
<1>9. FrameOK(g)
  BY <1>6, <1>8 DEF FrameOK, WaitsForLeft, WaitsForRight
<1> QED  BY <1>6, <1>9 DEF g

-----------------------------------------------------------------------------
(* The stack.                                                              *)

\* A frame of the stack may give way to one for the same part of the array, as
\* the last of a shorter stack or of the same one.
LEMMA SetFrame ==
  ASSUME NEW calls, StackOK(calls), NEW d \in 1..Len(calls),
         NEW f, FrameOK(f), f.offset = calls[d].offset, f.len = calls[d].len
  PROVE  StackOK(Append(SubSeq(calls, 1, d - 1), f))
<1> DEFINE t == Append(SubSeq(calls, 1, d - 1), f)
<1>1. calls \in Seq(Frame) /\ f \in Frame
  BY DEF StackOK, FrameOK
<1>2. /\ SubSeq(calls, 1, d - 1) \in Seq(Frame)
      /\ Len(SubSeq(calls, 1, d - 1)) = d - 1
      /\ \A k \in 1..(d - 1) : SubSeq(calls, 1, d - 1)[k] = calls[k]
  BY <1>1
<1>3. /\ t \in Seq(Frame) /\ Len(t) = d /\ t[d] = f
      /\ \A k \in 1..(d - 1) : t[k] = calls[k]
  BY <1>1, <1>2
<1> HIDE DEF t
<1>4. d \in Nat /\ d >= 1 /\ d <= Len(calls) /\ Len(calls) \in Nat
  BY <1>1
<1>5. \A k \in 1..Len(t) : FrameOK(t[k])
  <2> SUFFICES ASSUME NEW k \in 1..Len(t)
               PROVE  FrameOK(t[k])
    OBVIOUS
  <2>1. CASE k = d
    BY <1>3, <2>1
  <2>2. CASE k # d
    <3>1. k \in 1..(d - 1) /\ k \in 1..Len(calls)
      BY <1>3, <1>4, <2>2
    <3> QED  BY <1>3, <3>1 DEF StackOK
  <2> QED  BY <2>1, <2>2
<1>6. \A k \in 1..Len(t) : t[k].offset = calls[k].offset /\ t[k].len = calls[k].len
  <2> SUFFICES ASSUME NEW k \in 1..Len(t)
               PROVE  t[k].offset = calls[k].offset /\ t[k].len = calls[k].len
    OBVIOUS
  <2>1. CASE k = d
    BY <1>3, <2>1
  <2>2. CASE k # d
    <3>1. k \in 1..(d - 1)
      BY <1>3, <1>4, <2>2
    <3> QED  BY <1>3, <3>1
  <2> QED  BY <2>1, <2>2
<1>7. \A k \in 1..(Len(t) - 1) : CalledBy(t[k + 1], t[k])
  <2> SUFFICES ASSUME NEW k \in 1..(Len(t) - 1)
               PROVE  CalledBy(t[k + 1], t[k])
    OBVIOUS
  <2>1. /\ k \in 1..(d - 1) /\ k \in 1..(Len(calls) - 1) /\ k + 1 \in 1..Len(t)
    BY <1>3, <1>4
  <2>2. t[k] = calls[k] /\ CalledBy(calls[k + 1], calls[k])
    BY <1>3, <2>1 DEF StackOK
  <2>3. t[k + 1].offset = calls[k + 1].offset /\ t[k + 1].len = calls[k + 1].len
    BY <1>6, <2>1
  <2> QED  BY <2>2, <2>3 DEF CalledBy
<1>8. t[1].offset = 0 /\ t[1].len = Len(array)
  <2>1. 1 \in 1..Len(t) /\ calls # <<>>
    BY <1>1, <1>3, <1>4
  <2> QED  BY <1>6, <2>1 DEF StackOK
<1>9. StackOK(t)
  BY <1>3, <1>5, <1>7, <1>8 DEF StackOK
<1> QED  BY <1>9 DEF t

\* A call for a half that the top frame waits for may come on top.
LEMMA PushFrame ==
  ASSUME NEW calls, StackOK(calls), calls # <<>>,
         NEW f, FrameOK(f), CalledBy(f, calls[Len(calls)])
  PROVE  StackOK(Append(calls, f))
<1> DEFINE t == Append(calls, f)
           n == Len(calls)
<1>1. calls \in Seq(Frame) /\ f \in Frame
  BY DEF StackOK, FrameOK
<1>2. /\ t \in Seq(Frame) /\ Len(t) = n + 1 /\ t[n + 1] = f
      /\ \A k \in 1..n : t[k] = calls[k]
      /\ n \in Nat /\ n >= 1
  BY <1>1
<1>3. CalledBy(f, calls[n])
  OBVIOUS
<1>4. /\ \A k \in 1..n : FrameOK(calls[k])
      /\ \A k \in 1..(n - 1) : CalledBy(calls[k + 1], calls[k])
      /\ calls[1].offset = 0 /\ calls[1].len = Len(array)
  BY DEF StackOK
<1> HIDE DEF t, n
<1>5. \A k \in 1..Len(t) : FrameOK(t[k])
  <2> SUFFICES ASSUME NEW k \in 1..Len(t)
               PROVE  FrameOK(t[k])
    OBVIOUS
  <2>1. CASE k = n + 1
    BY <1>2, <2>1
  <2>2. CASE k # n + 1
    <3>1. k \in 1..n
      BY <1>2, <2>2
    <3> QED  BY <1>2, <1>4, <3>1
  <2> QED  BY <2>1, <2>2
<1>6. \A k \in 1..(Len(t) - 1) : CalledBy(t[k + 1], t[k])
  <2> SUFFICES ASSUME NEW k \in 1..(Len(t) - 1)
               PROVE  CalledBy(t[k + 1], t[k])
    OBVIOUS
  <2>1. k \in 1..n /\ t[k] = calls[k]
    BY <1>2
  <2>2. CASE k = n
    BY <1>2, <1>3, <2>1, <2>2
  <2>3. CASE k # n
    <3>1. k \in 1..(n - 1) /\ k + 1 \in 1..n
      BY <1>2, <2>1, <2>3
    <3> QED  BY <1>2, <1>4, <2>1, <3>1
  <2> QED  BY <2>2, <2>3
<1>7. t[1].offset = 0 /\ t[1].len = Len(array)
  <2>1. 1 \in 1..n
    BY <1>2
  <2> QED  BY <1>2, <1>4, <2>1
<1>8. StackOK(t)
  BY <1>2, <1>5, <1>6, <1>7 DEF StackOK
<1> QED  BY <1>8 DEF t

-----------------------------------------------------------------------------
\* The inductive invariant, with its stack written out for the last step.
LEMMA StackStep ==
  ASSUME NEW calls, StackOK(calls), stack' = calls, array' = array
  PROVE  StackOK(stack)'
<1>1. ASSUME NEW d \in 1..Len(calls)
      PROVE  FrameOK(stack[d])'
  <2>1. FrameOK(calls[d])
    BY DEF StackOK
  <2>2. (stack[d] \in Frame /\ stack[d].len >= 2 /\ stack[d].offset + stack[d].len <= Len(array))'
    BY <2>1 DEF FrameOK
  <2>3. WaitsForLeft(stack[d])'
    BY <2>1 DEF FrameOK, WaitsForLeft
  <2>4. WaitsForRight(stack[d])'
    BY <2>1 DEF FrameOK, WaitsForRight, SortedPart, PositionsOf, NonDecreasing, Middle
  <2>5. Merges(stack[d])'
    BY <2>1 DEF FrameOK, Merges, NotAbove, NonDecreasing
  <2> QED  BY <2>2, <2>3, <2>4, <2>5 DEF FrameOK
<1>2. ASSUME NEW d \in 1..(Len(calls) - 1)
      PROVE  CalledBy(stack[d + 1], stack[d])'
  BY DEF StackOK, CalledBy, HalfOffset, HalfLen, Middle
<1> QED  BY <1>1, <1>2 DEF StackOK

\* A sorted copy of the whole array is what the sort promises.
LEMMA SortedStep ==
  ASSUME NEW s, SortedPart(s, 0, Len(array)), sorted' = s, array' = array
  PROVE  SortedOK'
BY DEF SortedOK, SortedPart, NonDecreasing, PositionsOf

\* The first call has its part, the whole array.
LEMMA InitOK == Init => IInv
<1> SUFFICES ASSUME Init
             PROVE  IInv
  OBVIOUS
<1>1. array \in Seq(BigArrayItem) /\ Len(array) \in Nat
  BY DEF Init, Arrays
<1>2. CASE Len(array) <= 1
  <2>1. stack = <<>> /\ sorted = AllocCopyArray(0, Len(array))
    BY <1>2 DEF Init
  <2>2. Len(array) \in {0, 1} /\ 0 + Len(array) <= Len(array)
    BY <1>1, <1>2
  <2>3. SortedPart(sorted, 0, Len(array))
    BY <1>1, <2>1, <2>2, CopyFacts
  <2>4. StackOK(stack)
    BY <2>1 DEF StackOK
  <2> QED  BY <1>1, <2>3, <2>4 DEF IInv, SortedOK, SortedPart
<1>3. CASE ~(Len(array) <= 1)
  <2>1. stack = <<Call(0, Len(array))>> /\ sorted = NotYet
    BY <1>3 DEF Init
  <2> DEFINE f == Call(0, Len(array))
  <2>2. FrameOK(f) /\ f.offset = 0 /\ f.len = Len(array)
    BY <1>1, <1>3, CallFacts
  <2>3. f \in Frame
    BY <2>2 DEF FrameOK
  <2> HIDE DEF f
  <2>4. StackOK(<<f>>)
    BY <2>2, <2>3 DEF StackOK
  <2>5. StackOK(stack) /\ ~Done
    BY <2>1, <2>4 DEF f, Done
  <2> QED  BY <1>1, <2>1, <2>5 DEF IInv, SortedOK, NotYet
<1> QED  BY <1>2, <1>3

\* Every step keeps the invariant.
LEMMA NextOK == IInv /\ [Next]_vars => IInv'
<1> SUFFICES ASSUME IInv, [Next]_vars
             PROVE  IInv'
  OBVIOUS
<1> USE DEF IInv
<1>1. CASE UNCHANGED vars
  BY <1>1, StackStep, SortedStep DEF vars, SortedOK, Done
<1> SUFFICES ASSUME Next, stack # <<>>
             PROVE  IInv'
  BY <1>1 DEF Next, CallShort, CallLong, TakeLeft, TakeRight, Return, Merging
<1> DEFINE n == Len(stack)
<1>2. n \in Nat /\ n >= 1 /\ n \in 1..n
  BY DEF StackOK
<1>3. Top = stack[n] /\ FrameOK(Top) /\ Top \in Frame /\ Callers = SubSeq(stack, 1, n - 1)
  BY <1>2 DEF StackOK, FrameOK, Top, Callers
<1>4. ASSUME NEW f, FrameOK(f), f.offset = Top.offset, f.len = Top.len
      PROVE  StackOK(SetTop(f)) /\ SetTop(f) # <<>>
  <2>1. StackOK(SetTop(f))
    BY <1>2, <1>3, <1>4, SetFrame DEF SetTop
  <2>2. SetTop(f) # <<>>
    BY <1>2, <1>3, <1>4 DEF SetTop, StackOK, FrameOK
  <2> QED  BY <2>1, <2>2
<1>5. CASE CallShort
  <2> DEFINE s == AllocCopyArray(HalfOffset(Top), HalfLen(Top))
  <2>1. /\ HalfOffset(Top) \in Nat /\ HalfLen(Top) \in {0, 1}
        /\ HalfOffset(Top) + HalfLen(Top) <= Len(array)
    BY <1>3, <1>5, HalfFacts, FrameType DEF CallShort, FrameOK
  <2>2. SortedPart(s, HalfOffset(Top), HalfLen(Top))
    BY <2>1, CopyFacts
  <2>3. /\ FrameOK(Receive(Top, s))
        /\ Receive(Top, s).offset = Top.offset /\ Receive(Top, s).len = Top.len
    BY <1>3, <1>5, <2>2, ReceiveFacts DEF CallShort
  <2>4. StackOK(SetTop(Receive(Top, s))) /\ SetTop(Receive(Top, s)) # <<>>
    BY <1>4, <2>3
  <2>5. stack' = SetTop(Receive(Top, s)) /\ array' = array /\ sorted' = sorted
    BY <1>5 DEF CallShort
  <2>6. StackOK(stack)'
    BY <2>4, <2>5, StackStep
  <2>7. SortedOK'
    BY <2>4, <2>5 DEF SortedOK, Done
  <2> QED  BY <2>5, <2>6, <2>7
<1>6. CASE CallLong
  <2> DEFINE f == Call(HalfOffset(Top), HalfLen(Top))
  <2>1. /\ HalfOffset(Top) \in Nat /\ HalfLen(Top) \in Nat /\ HalfLen(Top) >= 2
        /\ HalfOffset(Top) + HalfLen(Top) <= Len(array)
    <3>1. HalfLen(Top) > 1
      BY <1>6 DEF CallLong
    <3>2. Top.offset + Top.len <= Len(array) /\ Top.len >= 2
      BY <1>3 DEF FrameOK
    <3> QED  BY <1>3, <3>1, <3>2, HalfFacts, FrameType
  <2>2. FrameOK(f) /\ CalledBy(f, Top)
    BY <1>6, <2>1, CallFacts DEF CalledBy, CallLong
  <2>3. stack' = Append(stack, f) /\ array' = array /\ sorted' = sorted
    BY <1>6 DEF CallLong
  <2> HIDE DEF f
  <2>4. StackOK(Append(stack, f))
    BY <1>3, <2>2, PushFrame
  <2>5. Append(stack, f) # <<>>
    <3>1. stack \in Seq(Frame) /\ f \in Frame
      BY <2>2 DEF StackOK, FrameOK
    <3> QED  BY <3>1
  <2>6. StackOK(stack)'
    BY <2>3, <2>4, StackStep
  <2>7. SortedOK'
    BY <2>3, <2>5 DEF SortedOK, Done
  <2> QED  BY <2>3, <2>6, <2>7
<1>7. CASE TakeLeft
  <2> DEFINE f == [Top EXCEPT !.result = Append(@, Head(Top.left)), !.left = Tail(@)]
  <2>1. FrameOK(f) /\ f.offset = Top.offset /\ f.len = Top.len
    BY <1>3, <1>7, TakeLeftFacts DEF TakeLeft, Merging
  <2>2. stack' = SetTop(f) /\ array' = array /\ sorted' = sorted
    BY <1>7 DEF TakeLeft
  <2> HIDE DEF f
  <2>3. StackOK(SetTop(f)) /\ SetTop(f) # <<>>
    BY <1>4, <2>1
  <2>4. StackOK(stack)'
    BY <2>2, <2>3, StackStep
  <2>5. SortedOK'
    BY <2>2, <2>3 DEF SortedOK, Done
  <2> QED  BY <2>2, <2>4, <2>5
<1>8. CASE TakeRight
  <2> DEFINE f == [Top EXCEPT !.result = Append(@, Head(Top.right)), !.right = Tail(@)]
  <2>1. FrameOK(f) /\ f.offset = Top.offset /\ f.len = Top.len
    BY <1>3, <1>8, TakeRightFacts DEF TakeRight, Merging
  <2>2. stack' = SetTop(f) /\ array' = array /\ sorted' = sorted
    BY <1>8 DEF TakeRight
  <2> HIDE DEF f
  <2>3. StackOK(SetTop(f)) /\ SetTop(f) # <<>>
    BY <1>4, <2>1
  <2>4. StackOK(stack)'
    BY <2>2, <2>3, StackStep
  <2>5. SortedOK'
    BY <2>2, <2>3 DEF SortedOK, Done
  <2> QED  BY <2>2, <2>4, <2>5
<1>9. CASE Return
  <2> DEFINE s == MergedWithRest(Top)
  <2>1. SortedPart(s, Top.offset, Top.len)
    BY <1>3, <1>9, MergedFacts DEF Return, Merging
  <2> HIDE DEF s
  <2>2. array' = array
    BY <1>9 DEF Return
  <2>3. CASE n = 1
    <3>1. stack' = <<>> /\ sorted' = s
      BY <1>9, <2>3 DEF Return, s
    <3>2. SortedPart(s, 0, Len(array))
      BY <1>3, <2>1, <2>3 DEF StackOK
    <3>3. StackOK(<<>>)
      BY DEF StackOK
    <3>4. StackOK(stack)'
      BY <2>2, <3>1, <3>3, StackStep
    <3>5. SortedOK'
      BY <2>2, <3>1, <3>2, SortedStep
    <3>6. sorted' \in Seq(Nat)
      BY <2>1, <3>1 DEF SortedPart
    <3> QED  BY <2>2, <3>4, <3>5, <3>6
  <2>4. CASE n # 1
    <3> DEFINE caller == stack[n - 1]
               f == Receive(caller, s)
    <3> HIDE DEF n
    <3>1. n - 1 \in 1..(n - 1) /\ n - 1 \in 1..n /\ (n - 1) + 1 = n
      BY <1>2, <2>4
    <3>2. FrameOK(caller) /\ CalledBy(Top, caller)
      BY <1>3, <3>1 DEF StackOK, n
    <3>3. FrameOK(f) /\ f.offset = caller.offset /\ f.len = caller.len
      BY <2>1, <3>2, ReceiveFacts DEF CalledBy
    <3>4. /\ stack' = Append(SubSeq(stack, 1, n - 2), f)
          /\ sorted' = sorted
      BY <1>9, <2>4 DEF Return, s, n
    <3> HIDE DEF f
    <3>5. n - 2 = (n - 1) - 1
      BY <1>2
    <3>6. StackOK(Append(SubSeq(stack, 1, n - 2), f))
      BY <3>1, <3>3, <3>5, SetFrame DEF n
    <3>7. Append(SubSeq(stack, 1, n - 2), f) # <<>>
      <4>1. SubSeq(stack, 1, n - 2) \in Seq(Frame)
        BY <1>2, <3>1, <3>5 DEF StackOK, n
      <4> QED  BY <3>3, <4>1 DEF FrameOK
    <3>8. StackOK(stack)'
      BY <2>2, <3>4, <3>6, StackStep
    <3>9. SortedOK'
      BY <3>4, <3>7 DEF SortedOK, Done
    <3> QED  BY <2>2, <3>4, <3>8, <3>9
  <2> QED  BY <2>3, <2>4
<1> QED  BY <1>5, <1>6, <1>7, <1>8, <1>9 DEF Next

-----------------------------------------------------------------------------
(* The inductive invariant of the recursion: every call has the part of    *)
(* the array that the call below it waits for, and what it has returned,   *)
(* merged or still to merge is in order.                                   *)
THEOREM SortInvariance == Spec => []IInv
<1>1. Init => IInv
  BY InitOK
<1>2. IInv /\ [Next]_vars => IInv'
  BY NextOK
<1> QED  BY <1>1, <1>2, PTL DEF Spec

(* alloc_merge_sort returns every item of its array once, and in order.    *)
THEOREM SortCorrect == Spec => []SortsEveryItemOnce
<1>1. IInv => SortsEveryItemOnce
  <2> SUFFICES ASSUME IInv, Done
               PROVE  /\ Len(sorted) = Len(array)
                      /\ PositionsOf(sorted) = 1..Len(array)
                      /\ NonDecreasing(sorted)
    BY DEF SortsEveryItemOnce
  <2>1. SortedPart(sorted, 0, Len(array)) /\ Len(array) \in Nat
    BY DEF IInv, SortedOK
  <2> QED  BY <2>1 DEF SortedPart
<1> QED  BY <1>1, SortInvariance, PTL

(* A merge neither loses an item of its part of the array nor takes one    *)
(* from elsewhere, in any round of any call.                               *)
THEOREM MergeKeeps == Spec => []MergeKeepsItems
<1>1. IInv => MergeKeepsItems
  <2> SUFFICES ASSUME IInv, NEW d \in 1..Len(stack), stack[d].stage = "merge"
               PROVE  PositionsOf(MergedWithRest(stack[d]))
                        = (stack[d].offset + 1) .. (stack[d].offset + stack[d].len)
    BY DEF MergeKeepsItems
  <2> DEFINE f == stack[d]
  <2>1. FrameOK(f) /\ f.stage = "merge"
    BY DEF IInv, StackOK
  <2> HIDE DEF f
  <2>2. f.left \in Seq(Nat) /\ f.right \in Seq(Nat) /\ f.result \in Seq(Nat)
    BY <2>1, FrameType DEF FrameOK
  <2>3. ASSUME NEW s \in Seq(Nat), NEW t \in Seq(Nat)
        PROVE  s \o t \in Seq(Nat) /\ PositionsOf(s \o t) = PositionsOf(s) \cup PositionsOf(t)
    BY ConcatPositions
  <2>4. PositionsOf(MergedWithRest(f))
          = PositionsOf(f.result) \cup PositionsOf(f.left) \cup PositionsOf(f.right)
    <3>1. f.result \o f.left \in Seq(Nat)
      BY <2>2
    <3>2. PositionsOf(f.result \o f.left) = PositionsOf(f.result) \cup PositionsOf(f.left)
      BY <2>2, <2>3
    <3>3. PositionsOf((f.result \o f.left) \o f.right)
            = PositionsOf(f.result \o f.left) \cup PositionsOf(f.right)
      BY <2>2, <2>3, <3>1
    <3> QED  BY <3>2, <3>3 DEF MergedWithRest
  <2> QED  BY <2>1, <2>4 DEF FrameOK, Merges, f
<1> QED  BY <1>1, SortInvariance, PTL


-----------------------------------------------------------------------------
(* Memory. *)

\* The items that a call holds: nothing, its left half, or both halves and the result.
Held(f) ==
  CASE f.stage = "left"  -> 0
    [] f.stage = "right" -> Middle(f)
    [] f.stage = "merge" -> 2 * f.len

\* A call that waits for its right half holds the items between its offset and that of the
\* half, one that waits for its left half none: the calls below the top one together hold
\* as many items as there are before its part.
MemoryOK ==
  IF stack = <<>> THEN allocated = Len(array)
  ELSE allocated = Top.offset + Held(Top)

\* What a call holds, and what more when it has received one of its halves.
LEMMA HeldFacts ==
  ASSUME NEW f, FrameOK(f)
  PROVE  /\ Held(f) \in Nat
         /\ f.stage = "merge" => Held(f) = f.len + Freed(f)
         /\ f.offset + Held(f) <= 2 * (f.offset + f.len)
         /\ \A s : f.stage \in {"left", "right"} =>
              (f.offset + Held(f)) + (HalfLen(f) + MergeAlloc(f))
                = Receive(f, s).offset + Held(Receive(f, s))
         /\ f.stage \in {"left", "right"} => HalfOffset(f) = f.offset + Held(f)
<1>1. f \in Frame /\ f.len >= 2
  BY DEF FrameOK
<1>2. /\ f.offset \in Nat /\ f.len \in Nat /\ f.stage \in Stages
      /\ Middle(f) \in Nat /\ Middle(f) < f.len
  BY <1>1, FrameType, HalfFacts
<1>3. CASE f.stage = "left"
  <2>1. Held(f) = 0 /\ HalfOffset(f) = f.offset /\ HalfLen(f) = Middle(f) /\ MergeAlloc(f) = 0
    BY <1>3 DEF Held, HalfOffset, HalfLen, MergeAlloc
  <2>2. ASSUME NEW s
        PROVE  Receive(f, s).offset = f.offset /\ Held(Receive(f, s)) = Middle(f)
    <3>1. PICK g : g = Receive(f, s)
      OBVIOUS
    <3>2. g.offset = f.offset /\ g.len = f.len /\ g.stage = "right"
      BY <1>1, <1>3, <3>1 DEF Receive, Frame
    <3> QED
      BY <3>1, <3>2 DEF Held, Middle
  <2> QED
    BY <1>2, <1>3, <2>1, <2>2
<1>4. CASE f.stage = "right"
  <2>1. /\ Held(f) = Middle(f) /\ HalfOffset(f) = f.offset + Middle(f)
        /\ HalfLen(f) = f.len - Middle(f) /\ MergeAlloc(f) = f.len
    BY <1>4 DEF Held, HalfOffset, HalfLen, MergeAlloc
  <2>2. ASSUME NEW s
        PROVE  Receive(f, s).offset = f.offset /\ Held(Receive(f, s)) = 2 * f.len
    <3>1. PICK g : g = Receive(f, s)
      OBVIOUS
    <3>2. g.offset = f.offset /\ g.len = f.len /\ g.stage = "merge"
      BY <1>1, <1>4, <3>1 DEF Receive, Frame
    <3> QED
      BY <3>1, <3>2 DEF Held
  <2> QED
    BY <1>2, <1>4, <2>1, <2>2
<1>5. CASE f.stage = "merge"
  <2>1. Held(f) = 2 * f.len /\ Freed(f) = f.len
    BY <1>5 DEF Held, Freed
  <2> QED
    BY <1>2, <1>5, <2>1
<1> QED
  BY <1>2, <1>3, <1>4, <1>5 DEF Stages

\* A frame that is put on a stack is its top one.
LEMMA OnTop ==
  ASSUME NEW S, NEW c \in Seq(S), NEW f \in S
  PROVE  /\ Append(c, f) # <<>> /\ Len(Append(c, f)) = Len(c) + 1
         /\ Append(c, f)[Len(c) + 1] = f
OBVIOUS

\* Every step takes and frees what changes hands.
LEMMA MemoryStep ==
  ASSUME IInv, MemoryOK, [Next]_vars
  PROVE  MemoryOK'
<1>1. CASE UNCHANGED vars
  BY <1>1 DEF vars, MemoryOK, Top
<1> SUFFICES ASSUME Next, stack # <<>>
             PROVE  MemoryOK'
  BY <1>1 DEF Next, CallShort, CallLong, TakeLeft, TakeRight, Return, Merging
<1>2. PICK n \in Nat \ {0} : n = Len(stack)
  BY DEF IInv, StackOK
<1>3. /\ Top = stack[n] /\ FrameOK(Top) /\ Top \in Frame /\ stack \in Seq(Frame)
      /\ Callers = SubSeq(stack, 1, n - 1)
      /\ Callers \in Seq(Frame) /\ Len(Callers) = n - 1
  BY <1>2 DEF IInv, StackOK, FrameOK, Top, Callers
<1>4. ASSUME NEW f, FrameOK(f), stack' = SetTop(f)
      PROVE  stack' # <<>> /\ Top' = f
  <2>1. f \in Frame
    BY <1>4 DEF FrameOK
  <2>2. stack' = Append(Callers, f)
    BY <1>4 DEF SetTop
  <2>3. PICK t : t = Append(Callers, f)
    OBVIOUS
  <2>4. t # <<>> /\ Len(t) = Len(Callers) + 1 /\ t[Len(Callers) + 1] = f
    BY <1>3, <2>1, <2>3, OnTop
  <2> QED
    BY <2>2, <2>3, <2>4 DEF Top
<1>5. allocated = Top.offset + Held(Top)
  BY DEF MemoryOK
<1>6. Top.offset \in Nat /\ Top.len \in Nat /\ Held(Top) \in Nat
  BY <1>3, FrameType, HeldFacts
<1>7. CASE CallShort
  <2> DEFINE s == AllocCopyArray(HalfOffset(Top), HalfLen(Top))
             f == Receive(Top, s)
  <2>1. /\ HalfOffset(Top) \in Nat /\ HalfLen(Top) \in {0, 1}
        /\ HalfOffset(Top) + HalfLen(Top) <= Len(array)
    <3>1. /\ HalfOffset(Top) \in Nat /\ HalfLen(Top) \in Nat
          /\ HalfOffset(Top) + HalfLen(Top) <= Top.offset + Top.len
      BY <1>3, HalfFacts DEF FrameOK
    <3>2. HalfLen(Top) <= 1 /\ Top.offset + Top.len <= Len(array) /\ Len(array) \in Nat
      BY <1>3, <1>7 DEF CallShort, FrameOK, IInv
    <3> QED
      BY <1>6, <3>1, <3>2
  <2>2. SortedPart(s, HalfOffset(Top), HalfLen(Top))
    BY <2>1, CopyFacts DEF IInv
  <2>3. Top.stage \in {"left", "right"}
    BY <1>7 DEF CallShort
  <2>4. FrameOK(f)
    BY <1>3, <2>2, <2>3, ReceiveFacts DEF IInv
  <2>5. stack' = SetTop(f) /\ allocated' = allocated + HalfLen(Top) + MergeAlloc(Top)
    BY <1>7 DEF CallShort
  <2>6. (Top.offset + Held(Top)) + (HalfLen(Top) + MergeAlloc(Top)) = f.offset + Held(f)
    BY <1>3, <2>3, HeldFacts
  <2> HIDE DEF f
  <2>7. stack' # <<>> /\ Top' = f
    BY <1>4, <2>4, <2>5
  <2>8. MergeAlloc(Top) \in Nat
    BY <1>6 DEF MergeAlloc
  <2>9. allocated' = f.offset + Held(f)
    BY <1>5, <1>6, <2>1, <2>5, <2>6, <2>8
  <2> QED
    BY <2>7, <2>9 DEF MemoryOK, Held, Middle
<1>8. CASE CallLong
  <2>1. PICK f : f = Call(HalfOffset(Top), HalfLen(Top))
    OBVIOUS
  <2>2. f.offset = HalfOffset(Top) /\ f.stage = "left"
    BY <2>1 DEF Call
  <2>3. stack' = Append(stack, f) /\ allocated' = allocated
    BY <1>8, <2>1 DEF CallLong
  <2>4. HalfOffset(Top) = Top.offset + Held(Top)
    BY <1>3, <1>8, HeldFacts DEF CallLong
  <2>5. f \in Frame
    <3>1. HalfOffset(Top) \in Nat /\ HalfLen(Top) \in Nat
      BY <1>3, HalfFacts DEF FrameOK
    <3> QED
      BY <2>1, <3>1 DEF Call, Frame, Stages
  <2>6. stack' # <<>> /\ Len(stack') = n + 1 /\ stack'[n + 1] = f
    BY <1>2, <1>3, <2>3, <2>5
  <2>7. Top' = f /\ Held(f) = 0
    BY <2>2, <2>6 DEF Top, Held
  <2>8. allocated' = f.offset + Held(f)
    BY <1>5, <1>6, <2>2, <2>3, <2>4, <2>7
  <2> QED
    BY <2>6, <2>7, <2>8 DEF MemoryOK, Held, Middle
<1>9. ASSUME NEW f, FrameOK(f), f.offset = Top.offset, f.len = Top.len,
             f.stage = Top.stage, stack' = SetTop(f), allocated' = allocated
      PROVE  MemoryOK'
  <2>1. stack' # <<>> /\ Top' = f
    BY <1>4, <1>9
  <2>2. Held(f) = Held(Top)
    BY <1>9 DEF Held, Middle
  <2> QED
    BY <1>5, <1>9, <2>1, <2>2 DEF MemoryOK, Held, Middle
<1>10. CASE TakeLeft
  <2>1. PICK f : f = [Top EXCEPT !.result = Append(@, Head(Top.left)), !.left = Tail(@)]
    OBVIOUS
  <2>2. FrameOK(f) /\ f.offset = Top.offset /\ f.len = Top.len
    BY <1>3, <1>10, <2>1, TakeLeftFacts DEF TakeLeft, Merging, IInv
  <2>3. f.stage = Top.stage
    BY <1>3, <2>1 DEF Frame
  <2> QED
    BY <1>9, <1>10, <2>1, <2>2, <2>3 DEF TakeLeft
<1>11. CASE TakeRight
  <2>1. PICK f : f = [Top EXCEPT !.result = Append(@, Head(Top.right)), !.right = Tail(@)]
    OBVIOUS
  <2>2. FrameOK(f) /\ f.offset = Top.offset /\ f.len = Top.len
    BY <1>3, <1>11, <2>1, TakeRightFacts DEF TakeRight, Merging, IInv
  <2>3. f.stage = Top.stage
    BY <1>3, <2>1 DEF Frame
  <2> QED
    BY <1>9, <1>11, <2>1, <2>2, <2>3 DEF TakeRight
<1>12. CASE Return
  <2>1. Held(Top) = Top.len + Freed(Top) /\ Freed(Top) \in Nat
    BY <1>3, <1>6, <1>12, HeldFacts DEF Return, Merging, Freed
  <2>2. array' = array
    BY <1>12 DEF Return
  <2>3. CASE n = 1
    <3>1. stack' = <<>> /\ allocated' = allocated - Freed(Top)
      BY <1>2, <1>12, <2>3 DEF Return
    <3>2. Top.offset = 0 /\ Top.len = Len(array)
      BY <1>2, <1>3, <2>3 DEF IInv, StackOK
    <3>3. allocated' = Len(array)
      BY <1>5, <1>6, <2>1, <3>1, <3>2
    <3> QED
      BY <2>2, <3>1, <3>3 DEF MemoryOK
  <2>4. CASE n # 1
    <3>1. PICK caller : caller = stack[n - 1]
      OBVIOUS
    <3>2. PICK f : f = Receive(caller, MergedWithRest(Top))
      OBVIOUS
    <3>3. /\ stack' = Append(SubSeq(stack, 1, n - 2), f)
          /\ allocated' = (allocated - Freed(Top)) + MergeAlloc(caller)
      BY <1>2, <1>12, <2>4, <3>1, <3>2 DEF Return
    <3>4. FrameOK(caller) /\ CalledBy(Top, caller)
      <4>1. n - 1 \in 1..n /\ n - 1 \in 1..(n - 1) /\ (n - 1) + 1 = n
        BY <1>2, <2>4
      <4> QED
        BY <1>2, <1>3, <3>1, <4>1 DEF IInv, StackOK
    <3>5. /\ caller.stage \in {"left", "right"}
          /\ Top.offset = HalfOffset(caller) /\ Top.len = HalfLen(caller)
      BY <3>4 DEF CalledBy
    <3>6. /\ HalfOffset(caller) = caller.offset + Held(caller)
          /\ (caller.offset + Held(caller)) + (HalfLen(caller) + MergeAlloc(caller))
               = f.offset + Held(f)
      BY <3>2, <3>4, <3>5, HeldFacts
    <3>7. MergeAlloc(caller) \in Nat /\ caller \in Frame
      BY <3>4, FrameType DEF MergeAlloc, FrameOK
    <3>8. allocated' = f.offset + Held(f)
      BY <1>5, <1>6, <2>1, <3>3, <3>5, <3>6, <3>7
    <3>9. f \in Frame
      <4>1. MergedWithRest(Top) \in Seq(Nat)
        BY <1>3, FrameType DEF MergedWithRest
      <4> QED
        BY <3>2, <3>7, <4>1 DEF Receive, Frame, Stages
    <3>10. stack' # <<>> /\ Top' = f
      <4>1. SubSeq(stack, 1, n - 2) \in Seq(Frame) /\ Len(SubSeq(stack, 1, n - 2)) = n - 2
        BY <1>2, <1>3, <2>4
      <4>2. PICK c : c = SubSeq(stack, 1, n - 2)
        OBVIOUS
      <4>3. c \in Seq(Frame) /\ Len(c) = n - 2
        BY <4>1, <4>2
      <4>4. PICK t : t = Append(c, f)
        OBVIOUS
      <4>5. t # <<>> /\ Len(t) = Len(c) + 1 /\ t[Len(c) + 1] = f
        BY <3>9, <4>3, <4>4, OnTop
      <4>6. Top' = f
        BY <3>3, <4>2, <4>4, <4>5 DEF Top
      <4> QED
        BY <3>3, <4>2, <4>4, <4>5, <4>6
    <3> QED
      BY <3>8, <3>10 DEF MemoryOK, Held, Middle
  <2> QED
    BY <2>3, <2>4
<1> QED
  BY <1>7, <1>8, <1>10, <1>11, <1>12 DEF Next

\* Only the copy of a short array is there before the first step.
LEMMA MemoryInit == Init => MemoryOK
<1> SUFFICES ASSUME Init PROVE MemoryOK
  OBVIOUS
<1>1. CASE Len(array) <= 1
  BY <1>1 DEF Init, MemoryOK
<1>2. CASE ~(Len(array) <= 1)
  <2>1. stack = <<Call(0, Len(array))>> /\ allocated = 0
    BY <1>2 DEF Init
  <2>2. Top = Call(0, Len(array)) /\ stack # <<>>
    BY <2>1 DEF Top
  <2> QED
    BY <2>1, <2>2 DEF MemoryOK, Held, Call
<1> QED
  BY <1>1, <1>2

\* MemoryIsBounded, for arrays of every length: only the result outlives the sort, and
\* while it runs it holds twice the items of the array at most.
THEOREM MemorySafe == Spec => []MemoryIsBounded
<1>1. Init => MemoryOK
  BY MemoryInit
<1>2. IInv /\ MemoryOK /\ [Next]_vars => MemoryOK'
  BY MemoryStep
<1>3. IInv /\ MemoryOK => MemoryIsBounded
  <2> SUFFICES ASSUME IInv, MemoryOK PROVE MemoryIsBounded
    OBVIOUS
  <2>1. Len(array) \in Nat
    BY DEF IInv
  <2>2. CASE stack = <<>>
    BY <2>1, <2>2 DEF MemoryOK, MemoryIsBounded, Done
  <2>3. CASE stack # <<>>
    <3>1. FrameOK(Top)
      BY <2>3 DEF IInv, StackOK, Top
    <3>2. /\ Top.offset \in Nat /\ Top.len \in Nat /\ Held(Top) \in Nat
          /\ Top.offset + Top.len <= Len(array)
          /\ Top.offset + Held(Top) <= 2 * (Top.offset + Top.len)
      BY <3>1, HeldFacts, FrameType DEF FrameOK
    <3>3. allocated <= 2 * Len(array)
      BY <2>1, <2>3, <3>2 DEF MemoryOK
    <3> QED
      BY <2>3, <3>3 DEF MemoryIsBounded, Done
  <2> QED
    BY <2>2, <2>3
<1> QED
  BY <1>1, <1>2, <1>3, SortInvariance, PTL DEF Spec

-----------------------------------------------------------------------------
(* The crc of an array. *)

\* No sum of a crc and a remainder is as large as the width of a number.
LEMMA NoOverflow ==
  ASSUME NEW a \in 0 .. CrcAtom - 1, NEW b \in Int
  PROVE  /\ ((a + (b % CrcAtom)) % Width) % CrcAtom = (a + b) % CrcAtom
         /\ (a + b) % CrcAtom \in 0 .. CrcAtom - 1
<1>1. PICK m \in Nat \ {0}, w \in Nat : m = CrcAtom /\ w = Width /\ 2 * m <= w
  BY CrcAssumption
<1>2. PICK v \in 0 .. m - 1 : v = b % m
  BY Division
<1>3. a \in 0 .. m - 1
  BY <1>1
<1>4. (a + v) % w = a + v
  <2>1. a + v = (w * 0) + (a + v) /\ a + v \in 0 .. w - 1 /\ w \in Nat \ {0}
    BY <1>1, <1>2, <1>3
  <2>2. PICK z \in 0 .. w - 1 : z = a + v
    BY <2>1
  <2>3. z % w = z
    BY <2>1, <2>2, Remainder
  <2> QED
    BY <2>2, <2>3
<1>5. a % m = a
  <2>1. a = (m * 0) + a
    BY <1>1, <1>3
  <2> QED
    BY <1>1, <1>3, <2>1, Remainder
<1>6. ((a % m) + (b % m)) % m = (a + b) % m
  <2>1. a \in Int
    BY <1>3
  <2> QED
    BY <2>1, RemainderOfSum
<1>7. (a + b) % m \in 0 .. m - 1
  <2>1. PICK z \in Int : z = a + b
    BY <1>3
  <2> QED
    BY <1>1, <2>1, Division
<1>8. (a + v) % m = (a + b) % m
  BY <1>2, <1>5, <1>6, Zenon
<1>9. ((a + v) % w) % m = (a + b) % m
  BY <1>4, <1>8, Zenon
<1>10. ((a + (b % m)) % w) % m = (a + b) % m
  <2>1. v = b % m
    BY <1>2
  <2> QED
    BY <1>9, <2>1, Zenon
<1>11. m = CrcAtom /\ w = Width
  BY <1>1
<1> QED
  BY <1>7, <1>10, <1>11, Zenon

\* array_crc is the sum of the items, modulo CRC_ATOM.
LEMMA CrcOfSum ==
  ASSUME NEW n \in Nat, NEW s \in [1 .. n -> Nat]
  PROVE  CrcOf(s) = SumFunctionOnSet(s, 1 .. n) % CrcAtom
<1> DEFINE M == CrcAtom
           D == 1 .. n
           V == 0 .. M - 1
           c == [T \in SUBSET D |-> Max(T)]
           step == [x \in D |-> [v \in V |-> ((v + (s[x] % M)) % Width) % M]]
           def(i) == [T \in SUBSET D |->
                        IF T = {} THEN 0
                        ELSE ((i[T \ {Max(T)}] + (s[Max(T)] % M)) % Width) % M]
           iter == CHOOSE i : i = def(i)
           r == [T \in SUBSET D |-> SumFunctionOnSet(s, T) % M]
<1>1. M \in Nat \ {0} /\ IsFiniteSet(D) /\ DOMAIN s = D
  BY CrcAssumption, FirstNumbers
<1>2. CrcOf(s) = iter[D]
  BY <1>1, Zenon DEF CrcOf, AddToCrc, FoldLeft, MapThenFoldSet
<1>3. \A T \in SUBSET D : T # {} => Max(T) \in T
  BY HighestPlace
<1>4. Summable(s, D)
  BY <1>1 DEF Summable
<1>5. ASSUME NEW T \in SUBSET D, T # {}
      PROVE  r[T] = ((r[T \ {Max(T)}] + (s[Max(T)] % M)) % Width) % M
  <2>1. PICK x \in T : x = Max(T)
    BY <1>3, <1>5
  <2>2. Summable(s, T)
    BY <1>4, FS_Subset DEF Summable
  <2>3. PICK a \in Int : a = SumFunctionOnSet(s, T \ {x})
    BY <2>2, SumRemove
  <2>4. SumFunctionOnSet(s, T) = s[x] + a
    BY <2>2, <2>3, SumRemove
  <2>5. PICK b \in Int : b = s[x]
    BY <1>4 DEF Summable
  <2>6. r[T] = (b + a) % M /\ r[T \ {x}] = a % M
    <3>1. T \ {x} \in SUBSET D
      OBVIOUS
    <3> QED
      BY <2>3, <2>4, <2>5, <3>1
  <2> HIDE DEF r
  <2>7. PICK e \in 0 .. M - 1 : e = a % M
    BY <1>1, Division
  <2>8. ((e + (b % M)) % Width) % M = (e + b) % M
    BY <2>7, NoOverflow
  <2> HIDE DEF M
  <2>9. (e + b) % M = (b + a) % M
    <3>1. /\ ((e % M) + (b % M)) % M = (e + b) % M
          /\ ((a % M) + (b % M)) % M = (a + b) % M
      BY <1>1, <2>7, RemainderOfSum
    <3>2. e % M = a % M
      BY <1>1, <2>7, RemainderTwice
    <3>3. a + b = b + a
      OBVIOUS
    <3> QED
      BY <3>1, <3>2, <3>3
  <2> QED
    BY <2>1, <2>5, <2>6, <2>7, <2>8, <2>9
<1>6. r[{}] = 0
  <2>1. r[{}] = 0 % M
    BY SumEmpty
  <2>2. 0 = (M * 0) + 0 /\ 0 \in 0 .. M - 1
    BY <1>1
  <2> QED
    BY <1>1, <2>1, <2>2, Remainder
<1>7. r = def(r)
  <2> HIDE DEF r, M
  <2>1. \A T \in SUBSET D :
          r[T] = IF T = {} THEN 0
                 ELSE ((r[T \ {Max(T)}] + (s[Max(T)] % M)) % Width) % M
    BY <1>5, <1>6
  <2>2. r = [T \in SUBSET D |-> r[T]]
    BY DEF r
  <2> QED
    BY <2>1, <2>2
<1>8. iter = def(iter)
  <2> HIDE DEF def, r
  <2> QED
    BY <1>7
<1>9. /\ \A T \in SUBSET D : T # {} => c[T] \in T /\ c[T] = Max(T)
      /\ \A x \in D, v \in V :
           step[x][v] \in V /\ step[x][v] = ((v + (s[x] % M)) % Width) % M
  <2>1. ASSUME NEW x \in D, NEW v \in V
        PROVE  step[x][v] \in V /\ step[x][v] = ((v + (s[x] % M)) % Width) % M
    <3>1. PICK b \in Int : b = s[x]
      BY <1>4 DEF Summable
    <3>2. ((v + (b % M)) % Width) % M \in V
      BY <3>1, NoOverflow
    <3> QED
      BY <3>1, <3>2
  <2> QED
    BY <1>3, <2>1
<1>10. Folding(D, V, 0, c, step)
  <2>1. 0 \in V
    BY <1>1
  <2> HIDE DEF D, c, step, V
  <2> QED
    BY <1>1, <1>9, <2>1 DEF Folding
<1>11. ASSUME NEW g, g = def(g)
       PROVE  IsFold(g, D, V, 0, c, step)
  <2>1. g[{}] = 0
    BY <1>11
  <2>2. ASSUME NEW T \in SUBSET D, T # {}, g[T \ {c[T]}] \in V
        PROVE  g[T] = step[c[T]][g[T \ {c[T]}]]
    <3>1. c[T] = Max(T) /\ c[T] \in D
      BY <1>9, <2>2
    <3>2. g[T] = ((g[T \ {Max(T)}] + (s[Max(T)] % M)) % Width) % M
      <4> HIDE DEF M
      <4> QED
        BY <1>11, <2>2
    <3> HIDE DEF c, step, M, V
    <3> QED
      BY <1>9, <2>2, <3>1, <3>2
  <2> HIDE DEF def, c, step, V
  <2> QED
    BY <2>1, <2>2 DEF IsFold
<1> HIDE DEF def, iter, c, step, D, V
<1>12. IsFold(r, D, V, 0, c, step) /\ IsFold(iter, D, V, 0, c, step)
  <2> HIDE DEF r
  <2> QED
    BY <1>7, <1>8, <1>11
<1>13. D \in SUBSET D
  OBVIOUS
<1>14. r[D] = iter[D]
  <2> HIDE DEF r
  <2> QED
    BY <1>10, <1>12, <1>13, FoldUnique
<1> QED
  BY <1>2, <1>13, <1>14 DEF D

-----------------------------------------------------------------------------
\* An array and what the sort made of it.
LEMMA SortedValues ==
  ASSUME IInv, Done
  PROVE  /\ Len(array) \in Nat /\ array \in [1..Len(array) -> Nat]
         /\ Len(sorted) = Len(array)
         /\ Values(sorted) \in [1..Len(array) -> Nat]
         /\ Permuted(Values(sorted), array)
         /\ \A j \in 1..Len(array) : \A i \in 1..j : Values(sorted)[i] <= Values(sorted)[j]
<1>1. PICK n \in Nat : n = Len(array)
  BY DEF IInv
<1>2. array \in [1..n -> Nat]
  <2>1. array \in [1..n -> BigArrayItem]
    BY <1>1 DEF IInv
  <2> QED
    BY <2>1, ItemAssumption
<1>3. /\ sorted \in Seq(Nat) /\ Len(sorted) = n /\ PositionsOf(sorted) = 1..n
      /\ NonDecreasing(sorted)
  <2>1. SortedPart(sorted, 0, n)
    BY <1>1 DEF IInv, SortedOK
  <2> QED
    BY <2>1 DEF SortedPart
<1>4. PICK p : p = sorted
  OBVIOUS
<1>5. \A i \in 1..n : p[i] \in 1..n
  BY <1>3, <1>4 DEF PositionsOf
<1>6. p \in [1..n -> 1..n] /\ \A k \in 1..n : \E i \in 1..n : p[i] = k
  <2>1. DOMAIN p = 1..n /\ p = [i \in 1..n |-> p[i]]
    BY <1>3, <1>4
  <2>2. p \in [1..n -> 1..n]
    BY <1>5, <2>1
  <2> QED
    BY <1>3, <1>4, <2>2 DEF PositionsOf
<1>7. p \in Bijection(1..n, 1..n)
  <2>1. PICK I : I = 1..n
    OBVIOUS
  <2>2. p \in Surjection(I, I)
    BY <1>6, <2>1 DEF Surjection
  <2>3. IsFiniteSet(I) /\ Cardinality(I) = Cardinality(I)
    BY <2>1, FirstNumbers
  <2>4. p \in Injection(I, I)
    BY <2>2, <2>3, FS_SurjSameCardinalityImpliesInj
  <2> QED
    BY <2>1, <2>2, <2>4 DEF Bijection
<1>8. PICK v : v = Values(sorted)
  OBVIOUS
<1>9. DOMAIN v = 1..n /\ \A i \in 1..n : v[i] = array[p[i]]
  BY <1>3, <1>4, <1>8 DEF Values
<1>10. v \in [1..n -> Nat]
  <2>1. v = [i \in 1..n |-> v[i]]
    BY <1>3, <1>8 DEF Values
  <2> QED
    BY <1>2, <1>5, <1>9, <2>1
<1>11. Permuted(v, array)
  BY <1>2, <1>7, <1>9 DEF Permuted
<1>12. ASSUME NEW j \in 1..n, NEW i \in 1..j
       PROVE  v[i] <= v[j]
  <2>1. i \in 1..n /\ v[i] \in Nat
    BY <1>10
  <2>2. CASE i = j
    BY <2>1, <2>2
  <2>3. CASE i # j
    BY <1>3, <1>4, <1>9, <2>1, <2>3 DEF NonDecreasing
  <2> QED
    BY <2>2, <2>3
<1> QED
  BY <1>1, <1>2, <1>3, <1>8, <1>10, <1>11, <1>12

\* Both have the same crc.
LEMMA SortedCrc ==
  ASSUME IInv, Done
  PROVE  CrcOf(Values(sorted)) = CrcOf(array)
<1>1. PICK n \in Nat : n = Len(array)
  BY SortedValues
<1>2. PICK v : v = Values(sorted)
  OBVIOUS
<1>3. v \in [1..n -> Nat] /\ array \in [1..n -> Nat] /\ Permuted(v, array)
  BY <1>1, <1>2, SortedValues
<1>4. Items(v) /\ DOMAIN v = 1..n /\ DOMAIN array = 1..n
  <2>1. IsFiniteSet(1..n)
    BY FirstNumbers
  <2> QED
    BY <1>3, <2>1 DEF Items
<1>5. SumFunctionOnSet(array, 1..n) = SumFunctionOnSet(v, 1..n)
  <2>1. SumFunctionOnSet(array, DOMAIN array) = SumFunctionOnSet(v, DOMAIN v)
    BY <1>3, <1>4, PermutedSum
  <2> QED
    BY <1>4, <2>1
<1>6. /\ CrcOf(v) = SumFunctionOnSet(v, 1..n) % CrcAtom
      /\ CrcOf(array) = SumFunctionOnSet(array, 1..n) % CrcAtom
  BY <1>3, CrcOfSum
<1> QED
  BY <1>2, <1>5, <1>6

-----------------------------------------------------------------------------
\* The crc of an array is made of those of its two parts.
LEMMA CrcOfParts ==
  ASSUME NEW n \in Nat, NEW s \in [1..n -> Nat], s \in Seq(Nat), NEW k \in 1..(n - 1)
  PROVE  (ArrayCrc(SubSeq(s, 1, k)) + ArrayCrc(SubSeq(s, k + 1, n))) % CrcAtom = CrcOf(s)
<1>1. PICK l \in Nat \ {0} : l = n - k
  OBVIOUS
<1>2. PICK u, v : u = SubSeq(s, 1, k) /\ v = SubSeq(s, k + 1, n)
  OBVIOUS
<1>3. /\ u \in [1..k -> Nat] /\ v \in [1..l -> Nat]
      /\ \A i \in 1..k : u[i] = s[i]
      /\ \A i \in 1..l : v[i] = s[k + i]
      /\ u # <<>> /\ v # <<>>
  <2>1. /\ u = [i \in 1..k |-> s[i]]
    BY <1>2
  <2>2. v = [i \in 1..l |-> s[k + i]]
    BY <1>1, <1>2
  <2>3. \A i \in 1..k : u[i] = s[i] /\ u[i] \in Nat
    BY <2>1
  <2>4. \A i \in 1..l : v[i] = s[k + i] /\ v[i] \in Nat
    <3>1. \A i \in 1..l : k + i \in 1..n
      BY <1>1
    <3> QED
      BY <2>2, <3>1
  <2>5. u \in [1..k -> Nat] /\ v \in [1..l -> Nat]
    BY <2>1, <2>2, <2>3, <2>4
  <2>6. u # <<>> /\ v # <<>>
    <3>1. 1 \in DOMAIN u /\ 1 \in DOMAIN v
      BY <2>1, <2>2
    <3> QED
      BY <3>1
  <2> QED
    BY <2>3, <2>4, <2>5, <2>6
<1>4. IsFiniteSet(1..k) /\ IsFiniteSet(1..l) /\ IsFiniteSet(1..n)
  BY FirstNumbers
<1>5. PICK A, B : A = 1..k /\ B = (k + 1)..n
  OBVIOUS
<1>6. A \cap B = {} /\ A \cup B = 1..n
  BY <1>5
<1>7. IsFiniteSet(A) /\ IsFiniteSet(B)
  BY <1>4, <1>6, FS_Subset
<1>8. Summable(s, A) /\ Summable(s, B) /\ Summable(u, A) /\ Summable(v, 1..l)
  <2>1. \A i \in A \cup B : s[i] \in Int
    BY <1>6
  <2>2. (\A i \in A : u[i] \in Int) /\ (\A i \in 1..l : v[i] \in Int)
    BY <1>3, <1>5
  <2> QED
    BY <1>4, <1>7, <2>1, <2>2 DEF Summable
<1>9. SumFunctionOnSet(s, A) \in Int /\ SumFunctionOnSet(u, A) = SumFunctionOnSet(s, A)
  <2>1. \A i \in A : u[i] = s[i]
    BY <1>3, <1>5
  <2> QED
    BY <1>8, <2>1, SumEqual
<1>10. SumFunctionOnSet(s, B) = SumFunctionOnSet(v, 1..l)
  <2>1. PICK b : b = [i \in 1..l |-> k + i]
    OBVIOUS
  <2>2. \A i \in 1..l : b[i] = k + i /\ b[i] \in B
    BY <1>1, <1>5, <2>1
  <2>3. b \in Bijection(1..l, B)
    <3>1. b \in [1..l -> B]
      BY <2>1, <2>2
    <3>2. \A i, j \in 1..l : b[i] = b[j] => i = j
      BY <2>2
    <3>3. ASSUME NEW j \in B PROVE \E i \in 1..l : b[i] = j
      <4>1. j - k \in 1..l /\ k + (j - k) = j
        BY <1>1, <1>5
      <4> QED
        BY <2>2, <4>1
    <3> QED
      BY <3>1, <3>2, <3>3, BijectionFacts
  <2>4. \A i \in 1..l : s[b[i]] = v[i]
    BY <1>3, <2>2
  <2> QED
    BY <1>8, <2>3, <2>4, SumBijection
<1>11. SumFunctionOnSet(s, B) \in Int
  BY <1>8, SumEqual
<1>12. SumFunctionOnSet(s, 1..n) = SumFunctionOnSet(s, A) + SumFunctionOnSet(s, B)
  BY <1>6, <1>8, SumUnion
<1>13. /\ ArrayCrc(u) = SumFunctionOnSet(u, 1..k) % CrcAtom
       /\ ArrayCrc(v) = SumFunctionOnSet(v, 1..l) % CrcAtom
       /\ CrcOf(s) = SumFunctionOnSet(s, 1..n) % CrcAtom
  <2>1. ArrayCrc(u) = CrcOf(u) /\ ArrayCrc(v) = CrcOf(v)
    BY <1>3 DEF ArrayCrc
  <2>2. CrcOf(u) = SumFunctionOnSet(u, 1..k) % CrcAtom
    <3>1. k \in Nat /\ u \in [1..k -> Nat]
      BY <1>3
    <3> QED
      BY <3>1, CrcOfSum
  <2>3. CrcOf(v) = SumFunctionOnSet(v, 1..l) % CrcAtom
    BY <1>3, CrcOfSum
  <2>4. CrcOf(s) = SumFunctionOnSet(s, 1..n) % CrcAtom
    BY CrcOfSum
  <2> QED
    BY <2>1, <2>2, <2>3, <2>4
<1>14. PICK x \in Int, y \in Int : x = SumFunctionOnSet(s, A) /\ y = SumFunctionOnSet(s, B)
  BY <1>9, <1>11
<1>15. ((x % CrcAtom) + (y % CrcAtom)) % CrcAtom = (x + y) % CrcAtom
  BY CrcAssumption, RemainderOfSum
<1>16. ArrayCrc(u) = x % CrcAtom /\ ArrayCrc(v) = y % CrcAtom /\ CrcOf(s) = (x + y) % CrcAtom
  BY <1>5, <1>9, <1>10, <1>12, <1>13, <1>14
<1> QED
  BY <1>2, <1>15, <1>16

\* Two arrays of n items that differ at place k only.
ReplacedAt(s, v, n, k) == \A i \in (1..n) \ {k} : s[i] = v[i]

\* One item replaced shows in the crc, unless it has the same remainder.
LEMMA OneReplaced ==
  ASSUME NEW n \in Nat, NEW s \in [1..n -> Nat], NEW v \in [1..n -> Nat], NEW k \in 1..n,
         ReplacedAt(s, v, n, k), CrcOf(s) = CrcOf(v)
  PROVE  s[k] % CrcAtom = v[k] % CrcAtom
<1>1. PICK I : I = 1..n /\ IsFiniteSet(I)
  BY FirstNumbers
<1>2. Summable(s, I) /\ Summable(v, I) /\ k \in I
  BY <1>1 DEF Summable
<1>3. Summable(v, I \ {k})
  BY <1>2, FS_RemoveElement DEF Summable
<1>4. PICK r \in Int : r = SumFunctionOnSet(v, I \ {k}) /\ SumFunctionOnSet(s, I \ {k}) = r
  <2>1. \A i \in I \ {k} : s[i] = v[i]
    BY <1>1 DEF ReplacedAt
  <2> QED
    BY <1>3, <2>1, SumEqual
<1>5. /\ SumFunctionOnSet(s, I) = s[k] + r
      /\ SumFunctionOnSet(v, I) = v[k] + r
  BY <1>2, <1>4, SumRemove
<1>6. (s[k] + r) % CrcAtom = (v[k] + r) % CrcAtom
  BY <1>1, <1>5, CrcOfSum
<1>7. PICK a \in Int, b \in Int : a = s[k] /\ b = v[k]
  BY <1>2 DEF Summable
<1> QED
  BY <1>6, <1>7, CrcAssumption, RemainderLess

-----------------------------------------------------------------------------
(* The test of run_sort. *)

\* The test runs when the sort has returned, and passes.
VerdictOK == verdict \in {NoVerdict, 1} /\ (verdict # NoVerdict => Done)

RunIInv == IInv /\ MemoryOK /\ VerdictOK

\* run_sort is a merge sort, and a test that leaves it alone.
LEMMA RunStep ==
  ASSUME RunIInv, [RunNext]_checkVars
  PROVE  RunIInv'
<1>1. [Next]_vars
  BY DEF RunNext, RunSort, checkVars, vars
<1>2. IInv' /\ MemoryOK'
  BY <1>1, NextOK, MemoryStep DEF RunIInv
<1>3. CASE Next /\ UNCHANGED verdict
  <2>1. ~Done
    BY <1>3 DEF Next, CallShort, CallLong, TakeLeft, TakeRight, Return, Merging, Done
  <2> QED
    BY <1>2, <1>3, <2>1 DEF RunIInv, VerdictOK
<1>4. CASE RunSort
  <2>1. /\ Done /\ verdict' = TestSortResult(array, Values(sorted))
        /\ UNCHANGED vars
    BY <1>4 DEF RunSort
  <2>2. Done'
    BY <2>1 DEF Done, vars
  <2>3. PICK v : v = Values(sorted)
    OBVIOUS
  <2>4. PICK n \in Nat : n = Len(array)
    BY <2>1, SortedValues DEF RunIInv
  <2>5. /\ v \in [1..n -> Nat] /\ CrcOf(array) = CrcOf(v)
        /\ \A j \in 1..n : \A i \in 1..j : v[i] <= v[j]
    BY <2>1, <2>3, <2>4, SortedValues, SortedCrc DEF RunIInv
  <2>6. Len(v) = n
    BY <2>5
  <2>7. \A i \in 2..n : v[i - 1] <= v[i]
    <3> SUFFICES ASSUME NEW i \in 2..n PROVE v[i - 1] <= v[i]
      OBVIOUS
    <3>1. i \in 1..n /\ i - 1 \in 1..i
      OBVIOUS
    <3> QED
      BY <2>5, <3>1
  <2>8. verdict' = 1
    BY <2>1, <2>3, <2>5, <2>6, <2>7 DEF TestSortResult, InOrder
  <2> QED
    BY <1>2, <2>2, <2>8 DEF RunIInv, VerdictOK
<1>5. CASE UNCHANGED checkVars
  BY <1>2, <1>5 DEF RunIInv, VerdictOK, Done, checkVars
<1> QED
  BY <1>3, <1>4, <1>5 DEF RunNext

\* The inductive invariant of run_sort: that of the sort, and its test passes.
THEOREM RunInvariance == RunSpec => []RunIInv
<1>1. RunInit => RunIInv
  BY InitOK, MemoryInit DEF RunInit, RunIInv, VerdictOK
<1>2. RunIInv /\ [RunNext]_checkVars => RunIInv'
  BY RunStep
<1> QED
  BY <1>1, <1>2, PTL DEF RunSpec

\* CrcAddsUp, for arrays of every length and every CRC_ATOM: wherever an array is cut,
\* the crcs of its parts add up to that of the sorted array.
THEOREM CrcSafe == RunSpec => []CrcAddsUp
<1>1. RunIInv => CrcAddsUp
  <2> SUFFICES ASSUME RunIInv, Done, NEW k \in 1..(Len(array) - 1)
               PROVE  (ArrayCrc(SubSeq(array, 1, k))
                         + ArrayCrc(SubSeq(array, k + 1, Len(array)))) % CrcAtom
                        = ArrayCrc(Values(sorted))
    BY DEF CrcAddsUp
  <2>1. PICK n \in Nat : n = Len(array)
    BY SortedValues DEF RunIInv
  <2>2. PICK v : v = Values(sorted)
    OBVIOUS
  <2>3. /\ v \in [1..n -> Nat] /\ array \in [1..n -> Nat] /\ CrcOf(v) = CrcOf(array)
    BY <2>1, <2>2, SortedValues, SortedCrc DEF RunIInv
  <2>4. array \in Seq(Nat) /\ k \in 1..(n - 1)
    BY <2>1, <2>3
  <2>5. (ArrayCrc(SubSeq(array, 1, k)) + ArrayCrc(SubSeq(array, k + 1, n))) % CrcAtom
          = CrcOf(array)
    BY <2>3, <2>4, CrcOfParts
  <2>6. ArrayCrc(v) = CrcOf(v)
    <3>1. 1 \in DOMAIN v
      BY <2>3, <2>4
    <3>2. v # <<>>
      BY <3>1
    <3> QED
      BY <3>2 DEF ArrayCrc
  <2> QED
    BY <2>1, <2>2, <2>3, <2>5, <2>6
<1> QED
  BY <1>1, RunInvariance, PTL

\* TestFindsDamage, for arrays of every length: the test accepts what the sort returns,
\* and no array that is out of order or has one item replaced, but for its remainder.
THEOREM TestSafe == RunSpec => []TestFindsDamage
<1>1. RunIInv => TestFindsDamage
  <2> SUFFICES ASSUME RunIInv
               PROVE  TestFindsDamage
    OBVIOUS
  <2>1. verdict # 0
    BY DEF RunIInv, VerdictOK, NoVerdict
  <2>2. ASSUME verdict = 1, NEW s \in [1..Len(array) -> BigArrayItem],
               TestSortResult(array, s) = 1
        PROVE  /\ \A i, j \in 1..Len(s) : i < j => s[i] <= s[j]
               /\ \A k \in 1..Len(s) :
                    (\A i \in (1..Len(s)) \ {k} : s[i] = Values(sorted)[i])
                      => s[k] % CrcAtom = Values(sorted)[k] % CrcAtom
    <3>1. Done
      BY <2>2 DEF RunIInv, VerdictOK, NoVerdict
    <3>2. PICK n \in Nat : n = Len(array)
      BY <3>1, SortedValues DEF RunIInv
    <3>3. PICK v : v = Values(sorted)
      OBVIOUS
    <3>4. v \in [1..n -> Nat] /\ CrcOf(v) = CrcOf(array)
      BY <3>1, <3>2, <3>3, SortedValues, SortedCrc DEF RunIInv
    <3>5. s \in [1..n -> Nat] /\ Len(s) = n
      <4>1. s \in [1..n -> BigArrayItem]
        BY <3>2
      <4>2. s \in [1..n -> Nat]
        BY <4>1, ItemAssumption
      <4> QED
        BY <4>2
    <3>6. n > 0 => (\A i \in 2..n : s[i - 1] <= s[i]) /\ CrcOf(array) = CrcOf(s)
      <4>1. n > 0 => s # <<>>
        <5>1. n > 0 => 1 \in DOMAIN s
          BY <3>5
        <5> QED
          BY <5>1
      <4> QED
        BY <2>2, <3>5, <4>1 DEF TestSortResult, InOrder
    <3>7. ASSUME NEW i \in 1..n, NEW j \in 1..n, i < j
          PROVE  s[i] <= s[j]
      <4>1. \A e \in 1..n : \A c \in 1..e : s[c] <= s[e]
        <5>1. \A e \in 2..n : s[e - 1] <= s[e]
          BY <3>6, <3>7
        <5> QED
          BY <3>5, <5>1, OrderFollows
      <4>2. i \in 1..j
        BY <3>7
      <4> QED
        BY <4>1, <4>2
    <3>8. ASSUME NEW k \in 1..n, \A i \in (1..n) \ {k} : s[i] = v[i]
          PROVE  s[k] % CrcAtom = v[k] % CrcAtom
      <4>1. CrcOf(s) = CrcOf(v)
        BY <3>4, <3>6, <3>8
      <4>2. ReplacedAt(s, v, n, k)
        BY <3>8 DEF ReplacedAt
      <4> QED
        BY <3>4, <3>5, <4>1, <4>2, OneReplaced
    <3> QED
      BY <3>3, <3>5, <3>7, <3>8
  <2> QED
    BY <2>1, <2>2 DEF TestFindsDamage
<1> QED
  BY <1>1, RunInvariance, PTL
=============================================================================
