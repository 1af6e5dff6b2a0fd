------------------------------ MODULE DataLemmas ------------------------------
(***************************************************************************)
(* Induction over numbers and finite sets, stated with sets in place of    *)
(* predicates, and what follows by it about the operators on data that the *)
(* specifications use.                                                     *)
(***************************************************************************)
EXTENDS SortedArray, FiniteSetTheorems, FunctionTheorems, SequenceTheorems,
        WellFoundedInduction, TLAPS

-----------------------------------------------------------------------------
(* Induction. *)

\* A set of natural numbers that is not empty has a least one.
LEMMA LeastNumber ==
  ASSUME NEW T \in SUBSET Nat, T # {}
  PROVE  \E x \in T : \A y \in T : x <= y
<1> DEFINE less == {p \in Nat \X Nat : p[1] < p[2]}
<1>1. IsWellFoundedOn(less, Nat)
  BY NatLessThanWellFounded DEF OpToRel
<1>2. ASSUME NEW x \in T, NEW y \in T, y < x
      PROVE  <<y, x>> \in less
  BY <1>2
<1> HIDE DEF less
<1>3. PICK x \in T : \A y \in T : <<y, x>> \notin less
  BY <1>1, WFMin
<1>4. ASSUME NEW y \in T PROVE x <= y
  <2>1. ~ (y < x)
    BY <1>2, <1>3
  <2> QED
    BY <2>1
<1> QED
  BY <1>4

\* A set that has 0, and with a number the next one, has them all.
LEMMA NumberInduction ==
  ASSUME NEW S, 0 \in S, \A n \in Nat : n \in S => n + 1 \in S
  PROVE  \A n \in Nat : n \in S
<1> DEFINE T == {n \in Nat : n \notin S}
<1>1. SUFFICES ASSUME T # {} PROVE FALSE
  OBVIOUS
<1>2. T \in SUBSET Nat
  OBVIOUS
<1> HIDE DEF T
<1>3. PICK x \in T : \A y \in T : x <= y
  BY <1>1, <1>2, LeastNumber
<1>4. x \in Nat /\ x \notin S /\ x # 0
  BY DEF T
<1>5. x - 1 \in Nat /\ x - 1 \notin T
  BY <1>3, <1>4, <1>2
<1>6. x - 1 \in S
  BY <1>5 DEF T
<1>7. (x - 1) + 1 = x
  BY <1>4
<1> QED
  BY <1>4, <1>5, <1>6, <1>7

\* A bounded set of natural numbers that is not empty has a greatest one.
LEMMA GreatestNumber ==
  ASSUME NEW S \in SUBSET Nat, S # {}, NEW b \in Nat, \A y \in S : y <= b
  PROVE  \E x \in S : \A y \in S : y <= x
<1> DEFINE T == {n \in Nat : \A y \in S : y <= n}
<1>1. T \in SUBSET Nat /\ b \in T
  OBVIOUS
<1> HIDE DEF T
<1>2. PICK x \in T : \A y \in T : x <= y
  BY <1>1, LeastNumber
<1>3. x \in Nat /\ \A y \in S : y <= x
  BY <1>1 DEF T
<1>4. SUFFICES ASSUME x \notin S PROVE FALSE
  BY <1>3
<1>5. x # 0
  <2>1. PICK y \in S : TRUE
    OBVIOUS
  <2>2. y \in Nat /\ y <= x /\ y # x
    BY <1>3, <1>4
  <2> QED
    BY <1>3, <2>2
<1>6. x - 1 \in Nat /\ \A y \in S : y <= x - 1
  BY <1>3, <1>4, <1>5
<1>7. x - 1 \in T
  BY <1>6 DEF T
<1> QED
  BY <1>2, <1>3, <1>7

\* What holds of the empty set, and of a part of U with one more element when it
\* holds of the part, holds of U.
LEMMA SetInduction ==
  ASSUME NEW U, IsFiniteSet(U), NEW F,
         {} \in F,
         \A T \in SUBSET U, x \in U : T \in F /\ x \notin T => T \cup {x} \in F
  PROVE  U \in F
<1> DEFINE N == {n \in Nat : \A T \in SUBSET U : Cardinality(T) = n => T \in F}
<1>1. \A T \in SUBSET U : IsFiniteSet(T) /\ Cardinality(T) \in Nat
  BY FS_Subset, FS_CardinalityType
<1>2. 0 \in N
  BY <1>1, FS_EmptySet
<1>3. ASSUME NEW n \in Nat, n \in N PROVE n + 1 \in N
  <2>1. ASSUME NEW T \in SUBSET U, Cardinality(T) = n + 1 PROVE T \in F
    <3> HIDE DEF N
    <3>1. T # {}
      <4>1. n + 1 # 0
        OBVIOUS
      <4> QED
        BY <2>1, <4>1, FS_EmptySet
    <3>2. PICK x \in T : TRUE
      BY <3>1
    <3>3. T \ {x} \in SUBSET U /\ Cardinality(T \ {x}) = n
      <4>1. Cardinality(T \ {x}) = Cardinality(T) - 1
        BY <1>1, FS_RemoveElement
      <4> QED
        BY <2>1, <4>1
    <3>4. T \ {x} \in F
      BY <1>3, <3>3 DEF N
    <3>5. (T \ {x}) \cup {x} = T
      OBVIOUS
    <3> QED
      BY <3>3, <3>4, <3>5
  <2> QED
    BY <2>1
<1> HIDE DEF N
<1>4. \A n \in Nat : n \in N
  BY <1>2, <1>3, NumberInduction
<1>5. Cardinality(U) \in N /\ U \in SUBSET U
  BY <1>1, <1>4
<1> QED
  BY <1>5 DEF N

\* Finitely many numbers have a bound.
LEMMA FiniteBound ==
  ASSUME NEW S \in SUBSET Nat, IsFiniteSet(S)
  PROVE  \E b \in Nat : \A y \in S : y <= b
<1> DEFINE F == {T \in SUBSET S : \E b \in Nat : \A y \in T : y <= b}
<1>1. {} \in F
  OBVIOUS
<1>2. ASSUME NEW T \in SUBSET S, NEW x \in S, T \in F, x \notin T
      PROVE  T \cup {x} \in F
  <2>1. PICK b \in Nat : \A y \in T : y <= b
    BY <1>2
  <2>2. PICK c \in Nat : b <= c /\ x <= c
    <3>1. b <= b + x /\ x <= b + x /\ b + x \in Nat
      OBVIOUS
    <3> QED
      BY <3>1
  <2>3. \A y \in T \cup {x} : y <= c
    BY <2>1, <2>2
  <2> QED
    BY <2>2, <2>3
<1> HIDE DEF F
<1>3. S \in F
  BY <1>1, <1>2, SetInduction
<1> QED
  BY <1>3 DEF F

-----------------------------------------------------------------------------
(* Recursive functions on the subsets of a finite set: a fold takes an element *)
(* of the set by c and goes on with the others, with values in V.              *)

Folding(S, V, base, c, step) ==
  /\ IsFiniteSet(S) /\ base \in V
  /\ \A T \in SUBSET S : T # {} => c[T] \in T
  /\ \A x \in S, v \in V : step[x][v] \in V

IsFold(iter, S, V, base, c, step) ==
  /\ iter[{}] = base
  /\ \A T \in SUBSET S : T # {} /\ iter[T \ {c[T]}] \in V =>
       iter[T] = step[c[T]][iter[T \ {c[T]}]]

\* There is such a function.
LEMMA FoldExists ==
  ASSUME NEW S, NEW V, NEW base, NEW c, NEW step, Folding(S, V, base, c, step)
  PROVE  \E iter \in [SUBSET S -> V] : IsFold(iter, S, V, base, c, step)
<1> USE DEF Folding
<1> DEFINE Sub(n) == {T \in SUBSET S : Cardinality(T) <= n}
           Ok(g, n) == \A T \in Sub(n) :
             g[T] = IF T = {} THEN base ELSE step[c[T]][g[T \ {c[T]}]]
           N == {n \in Nat : \E g \in [SUBSET S -> V] : Ok(g, n)}
<1>1. \A T \in SUBSET S : IsFiniteSet(T) /\ Cardinality(T) \in Nat
  BY FS_Subset, FS_CardinalityType
<1>2. \A T \in SUBSET S : T # {} =>
        Cardinality(T) # 0 /\ Cardinality(T \ {c[T]}) = Cardinality(T) - 1
  <2>1. ASSUME NEW T \in SUBSET S, T # {}
        PROVE  Cardinality(T) # 0 /\ Cardinality(T \ {c[T]}) = Cardinality(T) - 1
    <3>1. c[T] \in T
      BY <2>1
    <3>2. Cardinality(T \ {c[T]}) = Cardinality(T) - 1
      BY <1>1, <3>1, FS_RemoveElement
    <3>3. Cardinality(T) # 0
      BY <1>1, <2>1, FS_EmptySet
    <3> QED
      BY <3>2, <3>3
  <2> QED
    BY <2>1
<1>3. 0 \in N
  <2> DEFINE g == [T \in SUBSET S |-> base]
  <2>1. g \in [SUBSET S -> V]
    OBVIOUS
  <2>2. ASSUME NEW T \in Sub(0) PROVE T = {}
    <3>1. T \in SUBSET S /\ Cardinality(T) <= 0
      OBVIOUS
    <3>2. Cardinality(T) = 0
      BY <1>1, <3>1
    <3> QED
      BY <1>2, <3>1, <3>2
  <2>3. Ok(g, 0)
    BY <2>2
  <2> HIDE DEF Ok, g
  <2> QED
    BY <2>1, <2>3
<1>4. ASSUME NEW n \in Nat, n \in N PROVE n + 1 \in N
  <2>1. PICK g \in [SUBSET S -> V] : Ok(g, n)
    BY <1>4
  <2> DEFINE h == [T \in SUBSET S |->
                     IF T = {} THEN base ELSE step[c[T]][g[T \ {c[T]}]]]
  <2>2. h \in [SUBSET S -> V]
    <3>1. ASSUME NEW T \in SUBSET S, T # {} PROVE step[c[T]][g[T \ {c[T]}]] \in V
      <4>1. c[T] \in S /\ T \ {c[T]} \in SUBSET S
        BY <3>1
      <4>2. g[T \ {c[T]}] \in V
        BY <4>1
      <4> QED
        BY <4>1, <4>2
    <3> QED
      BY <3>1
  <2>3. \A T \in Sub(n) : h[T] = g[T]
    BY <2>1
  <2>4. ASSUME NEW T \in Sub(n + 1), T # {} PROVE T \ {c[T]} \in Sub(n)
    <3>1. T \in SUBSET S /\ Cardinality(T) <= n + 1 /\ Cardinality(T) \in Nat
      BY <1>1
    <3>2. Cardinality(T \ {c[T]}) = Cardinality(T) - 1
      BY <1>2, <2>4, <3>1
    <3> QED
      BY <3>1, <3>2
  <2>5. Ok(h, n + 1)
    <3>1. ASSUME NEW T \in Sub(n + 1)
          PROVE  h[T] = IF T = {} THEN base ELSE step[c[T]][h[T \ {c[T]}]]
      <4>1. T \in SUBSET S
        OBVIOUS
      <4>2. h[T] = IF T = {} THEN base ELSE step[c[T]][g[T \ {c[T]}]]
        BY <4>1
      <4>3. T # {} => h[T \ {c[T]}] = g[T \ {c[T]}]
        BY <2>3, <2>4
      <4> QED
        BY <4>2, <4>3
    <3> QED
      BY <3>1
  <2> HIDE DEF Ok, h
  <2>6. n + 1 \in Nat
    OBVIOUS
  <2> QED
    BY <2>2, <2>5, <2>6
<1> HIDE DEF N
<1>5. \A n \in Nat : n \in N
  BY <1>3, <1>4, NumberInduction
<1>6. Cardinality(S) \in N
  BY <1>1, <1>5
<1>7. PICK g \in [SUBSET S -> V] : Ok(g, Cardinality(S))
  BY <1>6 DEF N
<1>8. \A T \in SUBSET S : T \in Sub(Cardinality(S))
  BY FS_Subset
<1> QED
  BY <1>7, <1>8 DEF IsFold

\* And only one: a fold of a part is the fold of the whole there.
LEMMA FoldUnique ==
  ASSUME NEW S, NEW V, NEW base, NEW c, NEW step, NEW g, NEW h,
         Folding(S, V, base, c, step),
         IsFold(g, S, V, base, c, step), IsFold(h, S, V, base, c, step)
  PROVE  \A T \in SUBSET S : g[T] = h[T] /\ g[T] \in V
<1> USE DEF Folding
<1> DEFINE N == {n \in Nat : \A T \in SUBSET S :
                   Cardinality(T) = n => g[T] = h[T] /\ g[T] \in V}
<1>1. \A T \in SUBSET S : IsFiniteSet(T) /\ Cardinality(T) \in Nat
  BY FS_Subset, FS_CardinalityType
<1>2. 0 \in N
  BY <1>1, FS_EmptySet DEF IsFold
<1>3. ASSUME NEW n \in Nat, n \in N PROVE n + 1 \in N
  <2>1. ASSUME NEW T \in SUBSET S, Cardinality(T) = n + 1
        PROVE  g[T] = h[T] /\ g[T] \in V
    <3> DEFINE R == T \ {c[T]}
    <3>1. T # {}
      <4>1. n + 1 # 0
        OBVIOUS
      <4> HIDE DEF N
      <4> QED
        BY <2>1, <4>1, FS_EmptySet
    <3>2. Cardinality(R) = Cardinality(T) - 1 /\ R \in SUBSET S /\ c[T] \in S
      BY <1>1, <3>1, FS_RemoveElement
    <3>3. g[R] = h[R] /\ g[R] \in V
      BY <1>3, <2>1, <3>2
    <3>4. g[T] = step[c[T]][g[R]] /\ h[T] = step[c[T]][h[R]]
      BY <3>1, <3>3 DEF IsFold
    <3> QED
      BY <3>2, <3>3, <3>4
  <2>2. n + 1 \in Nat
    OBVIOUS
  <2> QED
    BY <2>1, <2>2
<1> HIDE DEF N
<1>4. \A n \in Nat : n \in N
  BY <1>2, <1>3, NumberInduction
<1> QED
  BY <1>1, <1>4 DEF N

\* A fold over the places 1 .. n in order, as the values that it goes through.
LEMMA FoldRun ==
  ASSUME NEW n \in Nat, NEW V, NEW base, NEW c, NEW step, NEW iter,
         \A T \in SUBSET (1 .. n) : c[T] = Max(T),
         Folding(1 .. n, V, base, c, step), IsFold(iter, 1 .. n, V, base, c, step)
  PROVE  \E run \in [0 .. n -> V] :
           /\ run[0] = base
           /\ \A i \in 1 .. n : run[i] = step[i][run[i - 1]]
           /\ run[n] = iter[1 .. n]
<1> DEFINE run == [i \in 0 .. n |-> iter[1 .. i]]
<1>1. \A T \in SUBSET (1 .. n) : iter[T] \in V
  BY FoldUnique
<1>2. ASSUME NEW i \in 0 .. n PROVE 1 .. i \in SUBSET (1 .. n)
  <2>1. \A j \in 1 .. i : j \in 1 .. n
    OBVIOUS
  <2> QED
    BY <2>1
<1>3. run \in [0 .. n -> V]
  BY <1>1, <1>2
<1>4. run[0] = base
  <2>1. 1 .. 0 = {} /\ 0 \in 0 .. n
    OBVIOUS
  <2> QED
    BY <2>1 DEF IsFold
<1>5. ASSUME NEW i \in 1 .. n
      PROVE  run[i] = step[i][run[i - 1]]
  <2>1. i \in 1 .. i /\ i \in 0 .. n /\ i - 1 \in 0 .. n
    OBVIOUS
  <2>2. c[1 .. i] = i
    <3>1. \A x \in 1 .. i : (\A y \in 1 .. i : x >= y) <=> x = i
      OBVIOUS
    <3>2. \E x \in 1 .. i : \A y \in 1 .. i : x >= y
      BY <2>1, <3>1
    <3>3. Max(1 .. i) = i
      BY <3>1, <3>2 DEF Max
    <3> QED
      BY <1>2, <2>1, <3>3
  <2>3. (1 .. i) \ {i} = 1 .. i - 1 /\ 1 .. i # {}
    BY <2>1
  <2>4. iter[1 .. i - 1] \in V
    BY <1>1, <1>2, <2>1
  <2>5. iter[1 .. i] = step[i][iter[1 .. i - 1]]
    BY <1>2, <2>1, <2>2, <2>3, <2>4 DEF IsFold
  <2> QED
    BY <2>1, <2>5
<1>6. run[n] = iter[1 .. n]
  OBVIOUS
<1> HIDE DEF run
<1> QED
  BY <1>3, <1>4, <1>5, <1>6

-----------------------------------------------------------------------------
(* Sums. *)

\* Finitely many integers.
Summable(f, S) == IsFiniteSet(S) /\ \A x \in S : f[x] \in Int

IsSum(g, f, S) ==
  /\ g \in [SUBSET S -> Int] /\ g[{}] = 0
  /\ \A T \in SUBSET S : T # {} => \E x \in T : g[T] = f[x] + g[T \ {x}]
  /\ \A T \in SUBSET S : SumFunctionOnSet(f, T) = g[T]

\* SumFunctionOnSet is a fold that takes the elements in some order.
LEMMA SumFold ==
  ASSUME NEW S, NEW f, Summable(f, S)
  PROVE  \E g : IsSum(g, f, S)
<1> USE DEF Summable
<1> DEFINE V == Int
           base == 0
           c == [T \in SUBSET S |-> CHOOSE x \in T : TRUE]
           step == [x \in S |-> [v \in V |-> f[x] + v]]
<1>1. \A T \in SUBSET S : T # {} => c[T] \in T
  OBVIOUS
<1>2. base \in V /\ \A x \in S, v \in V : step[x][v] \in V
  OBVIOUS
<1>3. \A x \in S, v \in V : step[x][v] = f[x] + v
  OBVIOUS
<1>4. \A T \in SUBSET S : T # {} => c[T] = CHOOSE x \in T : TRUE
  OBVIOUS
<1> HIDE DEF c, step, V, base
<1>5. PICK g \in [SUBSET S -> V] : IsFold(g, S, V, base, c, step)
  <2>1. Folding(S, V, base, c, step)
    BY <1>1, <1>2 DEF Folding
  <2> QED
    BY <2>1, FoldExists
<1>6. g[{}] = 0
  BY <1>5 DEF IsFold, base
<1>7. \A T \in SUBSET S : T # {} => \E x \in T : g[T] = f[x] + g[T \ {x}]
  <2>1. ASSUME NEW T \in SUBSET S, T # {}
        PROVE  c[T] \in T /\ g[T] = f[c[T]] + g[T \ {c[T]}]
    <3>1. c[T] \in T /\ T \ {c[T]} \in SUBSET S
      BY <1>1, <2>1
    <3>2. g[T \ {c[T]}] \in V
      BY <3>1
    <3>3. g[T] = step[c[T]][g[T \ {c[T]}]]
      BY <1>5, <2>1, <3>2 DEF IsFold
    <3> QED
      BY <1>3, <3>1, <3>2, <3>3
  <2> QED
    BY <2>1
<1>8. ASSUME NEW T \in SUBSET S PROVE SumFunctionOnSet(f, T) = g[T]
  <2> DEFINE def(i) == [U \in SUBSET T |->
                          IF U = {} THEN 0
                          ELSE f[CHOOSE x \in U : TRUE] + i[U \ {CHOOSE x \in U : TRUE}]]
             iter == CHOOSE i : i = def(i)
             r == [U \in SUBSET T |-> g[U]]
  <2>1. SumFunctionOnSet(f, T) = iter[T]
    BY Zenon DEF SumFunctionOnSet, FoldFunctionOnSet, MapThenFoldSet
  <2>2. r = def(r)
    <3>1. ASSUME NEW U \in SUBSET T
          PROVE  r[U] = IF U = {} THEN 0
                        ELSE f[CHOOSE x \in U : TRUE] + r[U \ {CHOOSE x \in U : TRUE}]
      <4>1. U \in SUBSET S /\ r[U] = g[U]
        OBVIOUS
      <4>2. CASE U = {}
        BY <1>6, <4>2
      <4>3. CASE U # {}
        <5>1. /\ c[U] \in U /\ c[U] \in S /\ U \ {c[U]} \in SUBSET T
              /\ U \ {c[U]} \in SUBSET S
          BY <1>1, <4>1, <4>3
        <5>2. g[U \ {c[U]}] \in V
          BY <5>1
        <5>3. g[U] = step[c[U]][g[U \ {c[U]}]]
          BY <1>5, <4>1, <4>3, <5>2 DEF IsFold
        <5>4. r[U] = f[c[U]] + r[U \ {c[U]}]
          BY <1>3, <4>1, <5>1, <5>2, <5>3
        <5> QED
          BY <1>4, <4>1, <4>3, <5>4
      <4> QED
        BY <4>2, <4>3
    <3> HIDE DEF r
    <3>2. r = [U \in SUBSET T |-> r[U]]
      BY DEF r
    <3> QED
      BY <3>1, <3>2
  <2>3. iter = def(iter)
    <3> HIDE DEF def, r
    <3> QED
      BY <2>2
  <2> HIDE DEF iter, r
  <2>4. IsFold(iter, T, V, base, c, step)
    <3>1. iter[{}] = base
      BY <2>3 DEF base
    <3>2. ASSUME NEW U \in SUBSET T, U # {}, iter[U \ {c[U]}] \in V
          PROVE  iter[U] = step[c[U]][iter[U \ {c[U]}]]
      <4>1. iter[U] = f[c[U]] + iter[U \ {c[U]}]
        BY <1>4, <2>3, <3>2
      <4>2. c[U] \in S
        BY <1>1, <3>2
      <4> QED
        BY <1>3, <3>2, <4>1, <4>2
    <3> QED
      BY <3>1, <3>2 DEF IsFold
  <2>5. IsFold(g, T, V, base, c, step)
    BY <1>5 DEF IsFold
  <2>6. Folding(T, V, base, c, step)
    BY <1>1, <1>2, FS_Subset DEF Folding
  <2>7. g[T] = iter[T]
    BY <2>4, <2>5, <2>6, FoldUnique
  <2> QED
    BY <2>1, <2>7
<1>9. g \in [SUBSET S -> Int]
  BY DEF V
<1> QED
  BY <1>6, <1>7, <1>8, <1>9 DEF IsSum

\* The sum over the empty set.
LEMMA SumEmpty ==
  ASSUME NEW f
  PROVE  SumFunctionOnSet(f, {}) = 0
<1>1. Summable(f, {}) /\ {} \in SUBSET {}
  BY FS_EmptySet DEF Summable
<1>2. PICK g : IsSum(g, f, {})
  BY <1>1, SumFold
<1> QED
  BY <1>1, <1>2 DEF IsSum

\* The sum over a set is that over the others plus any of its elements: it does not
\* depend on the order in which the fold takes them.
LEMMA SumRemove ==
  ASSUME NEW S, NEW f, Summable(f, S), NEW y \in S
  PROVE  /\ SumFunctionOnSet(f, S \ {y}) \in Int
         /\ SumFunctionOnSet(f, S) = f[y] + SumFunctionOnSet(f, S \ {y})
<1>1. PICK g : IsSum(g, f, S)
  BY SumFold
<1> USE DEF Summable, IsSum
<1>2. \A T \in SUBSET S : IsFiniteSet(T) /\ Cardinality(T) \in Nat
  BY FS_Subset, FS_CardinalityType
<1> DEFINE N == {n \in Nat : \A T \in SUBSET S :
                   Cardinality(T) = n => \A x \in T : g[T] = f[x] + g[T \ {x}]}
<1>3. 0 \in N
  BY <1>2, FS_EmptySet
<1>4. ASSUME NEW n \in Nat, n \in N PROVE n + 1 \in N
  <2>1. ASSUME NEW T \in SUBSET S, Cardinality(T) = n + 1, NEW x \in T
        PROVE  g[T] = f[x] + g[T \ {x}]
    <3> HIDE DEF N
    <3>1. PICK c \in T : g[T] = f[c] + g[T \ {c}]
      BY <1>1
    <3>2. CASE c = x
      BY <3>1, <3>2
    <3>3. CASE c # x
      <4>1. Cardinality(T \ {x}) = n /\ Cardinality(T \ {c}) = n
        <5>1. /\ Cardinality(T \ {x}) = Cardinality(T) - 1
              /\ Cardinality(T \ {c}) = Cardinality(T) - 1
          BY <1>2, FS_RemoveElement
        <5> QED
          BY <2>1, <5>1
      <4> DEFINE R == (T \ {x}) \ {c}
      <4>2. g[T \ {c}] = f[x] + g[(T \ {c}) \ {x}] /\ g[T \ {x}] = f[c] + g[R]
        BY <1>4, <3>3, <4>1 DEF N
      <4>3. (T \ {c}) \ {x} = R /\ R \in SUBSET S /\ x \in S /\ c \in S
        OBVIOUS
      <4> HIDE DEF R
      <4>4. f[x] \in Int /\ f[c] \in Int /\ g[R] \in Int
        BY <1>1, <4>3
      <4>5. g[T \ {c}] = f[x] + g[R]
        BY <4>2, <4>3
      <4> QED
        BY <3>1, <4>2, <4>4, <4>5
    <3> QED
      BY <3>2, <3>3
  <2>2. n + 1 \in Nat
    OBVIOUS
  <2> QED
    BY <2>1, <2>2
<1> HIDE DEF N
<1>5. \A n \in Nat : n \in N
  BY <1>3, <1>4, NumberInduction
<1>6. g[S] = f[y] + g[S \ {y}]
  BY <1>2, <1>5 DEF N
<1>7. S \in SUBSET S /\ S \ {y} \in SUBSET S
  OBVIOUS
<1> QED
  BY <1>1, <1>6, <1>7

\* The sum over a set with one more element.
LEMMA SumAdd ==
  ASSUME NEW S, NEW f, Summable(f, S), NEW y, y \notin S, f[y] \in Int
  PROVE  /\ SumFunctionOnSet(f, S) \in Int
         /\ SumFunctionOnSet(f, S \cup {y}) = f[y] + SumFunctionOnSet(f, S)
<1> DEFINE T == S \cup {y}
<1>1. Summable(f, T) /\ y \in T /\ T \ {y} = S
  BY FS_AddElement DEF Summable
<1> HIDE DEF T
<1>2. /\ SumFunctionOnSet(f, T \ {y}) \in Int
      /\ SumFunctionOnSet(f, T) = f[y] + SumFunctionOnSet(f, T \ {y})
  BY <1>1, SumRemove
<1> QED
  BY <1>1, <1>2 DEF T

\* Sums of integers are integers, and equal terms have equal sums.
LEMMA SumEqual ==
  ASSUME NEW S, NEW f, NEW g, Summable(f, S), \A x \in S : g[x] = f[x]
  PROVE  /\ SumFunctionOnSet(f, S) \in Int
         /\ SumFunctionOnSet(g, S) = SumFunctionOnSet(f, S)
<1> DEFINE F == {T \in SUBSET S : /\ SumFunctionOnSet(f, T) \in Int
                                  /\ SumFunctionOnSet(g, T) = SumFunctionOnSet(f, T)}
<1>1. {} \in F
  BY SumEmpty
<1>2. ASSUME NEW T \in SUBSET S, NEW x \in S, T \in F, x \notin T
      PROVE  T \cup {x} \in F
  <2>1. Summable(f, T) /\ Summable(g, T) /\ f[x] \in Int /\ g[x] \in Int
    BY FS_Subset DEF Summable
  <2>2. /\ SumFunctionOnSet(f, T \cup {x}) = f[x] + SumFunctionOnSet(f, T)
        /\ SumFunctionOnSet(g, T \cup {x}) = g[x] + SumFunctionOnSet(g, T)
    BY <1>2, <2>1, SumAdd
  <2> QED
    BY <1>2, <2>1, <2>2
<1> HIDE DEF F
<1>3. S \in F
  BY <1>1, <1>2, SetInduction DEF Summable
<1> QED
  BY <1>3 DEF F

\* The sum over two parts is the sum of their sums.
LEMMA SumUnion ==
  ASSUME NEW A, NEW B, NEW f, A \cap B = {}, Summable(f, A), Summable(f, B)
  PROVE  SumFunctionOnSet(f, A \cup B) = SumFunctionOnSet(f, A) + SumFunctionOnSet(f, B)
<1> DEFINE F == {T \in SUBSET B :
                   SumFunctionOnSet(f, A \cup T)
                     = SumFunctionOnSet(f, A) + SumFunctionOnSet(f, T)}
<1>1. SumFunctionOnSet(f, A) \in Int
  BY SumEqual
<1>2. {} \in F
  <2>1. A \cup {} = A
    OBVIOUS
  <2> QED
    BY <1>1, <2>1, SumEmpty
<1>3. ASSUME NEW T \in SUBSET B, NEW x \in B, T \in F, x \notin T
      PROVE  T \cup {x} \in F
  <2>1. /\ Summable(f, T) /\ Summable(f, A \cup T) /\ f[x] \in Int
        /\ x \notin A \cup T
    BY <1>3, FS_Subset, FS_Union DEF Summable
  <2>2. /\ SumFunctionOnSet(f, T) \in Int
        /\ SumFunctionOnSet(f, T \cup {x}) = f[x] + SumFunctionOnSet(f, T)
    BY <1>3, <2>1, SumAdd
  <2>3. SumFunctionOnSet(f, (A \cup T) \cup {x}) = f[x] + SumFunctionOnSet(f, A \cup T)
    BY <2>1, SumAdd
  <2>4. A \cup (T \cup {x}) = (A \cup T) \cup {x}
    OBVIOUS
  <2>5. SumFunctionOnSet(f, A \cup T) = SumFunctionOnSet(f, A) + SumFunctionOnSet(f, T)
    BY <1>3
  <2>6. SumFunctionOnSet(f, A \cup (T \cup {x})) = f[x] + SumFunctionOnSet(f, A \cup T)
    BY <2>3, <2>4
  <2>7. SumFunctionOnSet(f, A \cup (T \cup {x}))
          = SumFunctionOnSet(f, A) + SumFunctionOnSet(f, T \cup {x})
    BY <1>1, <2>1, <2>2, <2>5, <2>6
  <2> QED
    BY <1>3, <2>7
<1> HIDE DEF F
<1>4. B \in F
  BY <1>2, <1>3, SetInduction DEF Summable
<1> QED
  BY <1>4 DEF F

\* Terms that correspond one to one have equal sums.
LEMMA SumBijection ==
  ASSUME NEW S, NEW T, NEW b \in Bijection(S, T), NEW f, NEW g, Summable(f, S),
         \A x \in S : g[b[x]] = f[x]
  PROVE  SumFunctionOnSet(g, T) = SumFunctionOnSet(f, S)
<1> DEFINE Im(U) == {b[x] : x \in U}
           F == {U \in SUBSET S :
                   /\ Summable(g, Im(U))
                   /\ SumFunctionOnSet(g, Im(U)) = SumFunctionOnSet(f, U)}
<1>1. b \in [S -> T] /\ \A x, y \in S : b[x] = b[y] => x = y
  BY DEF Bijection, Injection, IsInjective
<1>2. Im(S) = T
  BY <1>1 DEF Bijection, Surjection
<1>3. {} \in F
  <2>1. Im({}) = {} /\ Summable(g, {})
    BY FS_EmptySet DEF Summable
  <2> QED
    BY <2>1, SumEmpty
<1>4. ASSUME NEW U \in SUBSET S, NEW x \in S, U \in F, x \notin U
      PROVE  U \cup {x} \in F
  <2> DEFINE I == Im(U)
  <2>1. /\ Im(U \cup {x}) = I \cup {b[x]} /\ b[x] \notin I
        /\ g[b[x]] = f[x] /\ f[x] \in Int
        /\ Summable(g, I) /\ SumFunctionOnSet(g, I) = SumFunctionOnSet(f, U)
    BY <1>1, <1>4 DEF Summable
  <2>2. Summable(f, U)
    BY FS_Subset DEF Summable
  <2> HIDE DEF I, Im
  <2>3. SumFunctionOnSet(g, I \cup {b[x]}) = g[b[x]] + SumFunctionOnSet(g, I)
    BY <2>1, SumAdd
  <2>4. SumFunctionOnSet(f, U \cup {x}) = f[x] + SumFunctionOnSet(f, U)
    BY <1>4, <2>1, <2>2, SumAdd
  <2>5. Summable(g, I \cup {b[x]})
    BY <2>1, FS_AddElement DEF Summable
  <2> QED
    BY <1>4, <2>1, <2>3, <2>4, <2>5
<1> HIDE DEF F, Im
<1>5. S \in F
  BY <1>3, <1>4, SetInduction DEF Summable
<1> QED
  BY <1>2, <1>5 DEF F

\* The sum over the classes of a partition, of the sums of the classes.
LEMMA SumParts ==
  ASSUME NEW W, NEW I, IsFiniteSet(I), NEW part \in [W -> I], NEW f, Summable(f, W)
  PROVE  SumFunctionOnSet([i \in I |-> SumFunctionOnSet(f, {w \in W : part[w] = i})], I)
           = SumFunctionOnSet(f, W)
<1> DEFINE Of(i) == {w \in W : part[w] = i}
           Upto(J) == {w \in W : part[w] \in J}
           sums == [i \in I |-> SumFunctionOnSet(f, Of(i))]
           F == {J \in SUBSET I : SumFunctionOnSet(sums, J) = SumFunctionOnSet(f, Upto(J))}
<1>1. \A i \in I : sums[i] = SumFunctionOnSet(f, Of(i))
  OBVIOUS
<1> HIDE DEF sums
<1>2. \A V \in SUBSET W : Summable(f, V)
  BY FS_Subset DEF Summable
<1>3. \A i \in I : sums[i] \in Int
  <2> SUFFICES ASSUME NEW i \in I PROVE sums[i] \in Int
    OBVIOUS
  <2>1. PICK V \in SUBSET W : V = Of(i)
    OBVIOUS
  <2>2. Summable(f, V)
    BY <1>2
  <2>3. SumFunctionOnSet(f, V) \in Int
    BY <2>2, SumEqual
  <2> QED
    BY <1>1, <2>1, <2>3
<1>4. \A J \in SUBSET I : Summable(sums, J)
  BY <1>3, FS_Subset DEF Summable
<1>5. {} \in F
  <2>1. Upto({}) = {}
    OBVIOUS
  <2> QED
    BY <2>1, SumEmpty
<1>6. ASSUME NEW J \in SUBSET I, NEW i \in I, J \in F, i \notin J
      PROVE  J \cup {i} \in F
  <2> DEFINE A == Upto(J)
             B == Of(i)
  <2>1. Upto(J \cup {i}) = A \cup B /\ A \cap B = {} /\ A \in SUBSET W /\ B \in SUBSET W
    BY <1>6
  <2>2. SumFunctionOnSet(sums, J) = SumFunctionOnSet(f, A) /\ sums[i] = SumFunctionOnSet(f, B)
    BY <1>1, <1>6
  <2> HIDE DEF A, B, Upto, Of
  <2>3. SumFunctionOnSet(f, A \cup B) = SumFunctionOnSet(f, A) + SumFunctionOnSet(f, B)
    BY <1>2, <2>1, SumUnion
  <2>4. SumFunctionOnSet(sums, J \cup {i}) = sums[i] + SumFunctionOnSet(sums, J)
    BY <1>3, <1>4, <1>6, SumAdd
  <2>5. SumFunctionOnSet(f, A) \in Int /\ SumFunctionOnSet(f, B) \in Int
    BY <1>2, <2>1, SumEqual
  <2>6. SumFunctionOnSet(sums, J \cup {i}) = SumFunctionOnSet(f, A \cup B)
    BY <2>2, <2>3, <2>4, <2>5
  <2> QED
    BY <2>1, <2>6
<1> HIDE DEF F
<1>7. I \in F
  BY <1>5, <1>6, SetInduction
<1>8. Upto(I) = W
  OBVIOUS
<1> QED
  BY <1>7, <1>8 DEF F, sums

-----------------------------------------------------------------------------
(* Remainders. *)

\* Division with a remainder.
LEMMA Division ==
  ASSUME NEW m \in Nat \ {0}, NEW a \in Int
  PROVE  (a % m) \in 0 .. m - 1 /\ a \div m \in Int /\ a = (m * (a \div m)) + (a % m)
OBVIOUS

\* Only one remainder is less than the divisor.
LEMMA Remainder ==
  ASSUME NEW m \in Nat \ {0}, NEW a \in Int, NEW r \in 0 .. m - 1, NEW q \in Int,
         a = (m * q) + r
  PROVE  a % m = r
OBVIOUS

\* The remainder of a sum is that of the sum of the remainders.
LEMMA RemainderOfSum ==
  ASSUME NEW m \in Nat \ {0}, NEW a \in Int, NEW b \in Int
  PROVE  /\ ((a % m) + (b % m)) % m = (a + b) % m
         /\ (a % m) \in Int /\ (a + b) % m \in Int
<1> DEFINE p == a \div m
           q == b \div m
           u == a % m
           v == b % m
           w == (u + v) \div m
           z == (u + v) % m
<1>1. p \in Int /\ u \in 0 .. m - 1 /\ a = (m * p) + u
  BY Division
<1>2. q \in Int /\ v \in 0 .. m - 1 /\ b = (m * q) + v
  BY Division
<1>3. u + v \in Int
  BY <1>1, <1>2
<1>4. w \in Int /\ z \in 0 .. m - 1 /\ u + v = (m * w) + z
  BY <1>3, Division
<1> HIDE DEF p, q, u, v, w, z
<1>5. PICK k \in Int : k = p + q + w
  BY <1>1, <1>2, <1>4
<1>6. m * k = (m * p) + (m * q) + (m * w)
  BY <1>1, <1>2, <1>4, <1>5
<1>7. a + b = (m * k) + z /\ a + b \in Int
  BY <1>1, <1>2, <1>4, <1>6
<1>8. (a + b) % m = z
  BY <1>4, <1>7, Remainder
<1>9. u \in Int /\ z \in Int
  BY <1>1, <1>4
<1> QED
  BY <1>8, <1>9 DEF z, u, v

\* A remainder is its own remainder.
LEMMA RemainderTwice ==
  ASSUME NEW m \in Nat \ {0}, NEW a \in Int
  PROVE  (a % m) % m = a % m /\ (a % m) \in Nat
<1>1. (a % m) \in 0 .. m - 1
  BY Division
<1>2. PICK r \in 0 .. m - 1 : r = a % m
  BY <1>1
<1>3. r = (m * 0) + r /\ r \in Int /\ 0 \in Int
  OBVIOUS
<1>4. r % m = r
  BY <1>3, Remainder
<1> QED
  BY <1>2, <1>4

\* Terms with equal remainders have sums with equal remainders.
LEMMA SumRemainder ==
  ASSUME NEW m \in Nat \ {0}, NEW S, NEW f, NEW g, Summable(f, S), Summable(g, S),
         \A x \in S : f[x] % m = g[x] % m
  PROVE  SumFunctionOnSet(f, S) % m = SumFunctionOnSet(g, S) % m
<1> DEFINE F == {T \in SUBSET S :
                   SumFunctionOnSet(f, T) % m = SumFunctionOnSet(g, T) % m}
<1>1. {} \in F
  BY SumEmpty
<1>2. ASSUME NEW T \in SUBSET S, NEW x \in S, T \in F, x \notin T
      PROVE  T \cup {x} \in F
  <2>1. Summable(f, T) /\ Summable(g, T) /\ f[x] \in Int /\ g[x] \in Int
    BY FS_Subset DEF Summable
  <2> DEFINE a == SumFunctionOnSet(f, T)
             b == SumFunctionOnSet(g, T)
  <2>2. a \in Int /\ b \in Int /\ a % m = b % m
    BY <1>2, <2>1, SumEqual
  <2>3. /\ SumFunctionOnSet(f, T \cup {x}) = f[x] + a
        /\ SumFunctionOnSet(g, T \cup {x}) = g[x] + b
    BY <1>2, <2>1, SumAdd
  <2> HIDE DEF a, b
  <2>4. /\ (f[x] + a) % m = ((f[x] % m) + (a % m)) % m
        /\ (g[x] + b) % m = ((g[x] % m) + (b % m)) % m
    BY <2>1, <2>2, RemainderOfSum
  <2>5. SumFunctionOnSet(f, T \cup {x}) % m = SumFunctionOnSet(g, T \cup {x}) % m
    BY <2>2, <2>3, <2>4
  <2> QED
    BY <2>5
<1> HIDE DEF F
<1>3. S \in F
  BY <1>1, <1>2, SetInduction DEF Summable
<1> QED
  BY <1>3 DEF F

-----------------------------------------------------------------------------
(* Sorted arrays. *)

\* Finitely many items, and how many.
Items(s) == IsFiniteSet(DOMAIN s) /\ s \in [DOMAIN s -> Nat]
Number(s) == Cardinality(DOMAIN s)

\* The first natural numbers are finitely many.
LEMMA FirstNumbers ==
  ASSUME NEW n \in Nat
  PROVE  IsFiniteSet(1 .. n) /\ Cardinality(1 .. n) = n
<1>1. IsFiniteSet(1 .. n) /\ Cardinality(1 .. n) = IF 1 > n THEN 0 ELSE n - 1 + 1
  BY FS_Interval
<1> QED
  BY <1>1

\* Their types.
LEMMA ItemTypes ==
  ASSUME NEW s, Items(s)
  PROVE  Number(s) \in Nat /\ \A k \in DOMAIN s : s[k] \in Nat
BY FS_CardinalityType DEF Items, Number

\* How many items are below x, and not above x.
LEMMA RankTypes ==
  ASSUME NEW s, Items(s), NEW x \in Nat
  PROVE  /\ IsFiniteSet(Below(s, x)) /\ IsFiniteSet(UpTo(s, x))
         /\ Cardinality(Below(s, x)) \in Nat /\ Cardinality(UpTo(s, x)) \in 0 .. Number(s)
<1>1. Below(s, x) \in SUBSET DOMAIN s /\ UpTo(s, x) \in SUBSET DOMAIN s
  BY DEF Below, UpTo
<1>2. /\ IsFiniteSet(Below(s, x)) /\ IsFiniteSet(UpTo(s, x))
      /\ Cardinality(UpTo(s, x)) <= Number(s)
  BY <1>1, FS_Subset DEF Items, Number
<1> QED
  BY <1>2, ItemTypes, FS_CardinalityType

\* The ranks of a smaller item come before those of a larger one.
LEMMA RanksApart ==
  ASSUME NEW s, Items(s), NEW x \in Nat, NEW y \in Nat, x < y
  PROVE  Cardinality(UpTo(s, x)) <= Cardinality(Below(s, y))
<1>1. UpTo(s, x) \subseteq Below(s, y)
  BY DEF UpTo, Below, Items
<1> QED
  BY <1>1, RankTypes, FS_Subset

\* Fewer than i items are below x, and i at least are not above it.
HasRank(s, i, x) == Cardinality(Below(s, x)) < i /\ i <= Cardinality(UpTo(s, x))

\* Only one number has a rank.
LEMMA RankUnique ==
  ASSUME NEW s, Items(s), NEW i \in Nat, NEW x \in Nat, NEW y \in Nat,
         HasRank(s, i, x), HasRank(s, i, y)
  PROVE  x = y
<1>1. ~ (x < y)
  BY RankTypes, RanksApart DEF HasRank
<1>2. ~ (y < x)
  BY RankTypes, RanksApart DEF HasRank
<1> QED
  BY <1>1, <1>2

\* Every rank is some item's.
LEMMA RankExists ==
  ASSUME NEW s, Items(s), NEW i \in 1 .. Number(s)
  PROVE  \E x \in ToSet(s) : x \in Nat /\ HasRank(s, i, x)
<1> DEFINE R == {x \in Nat : i <= Cardinality(UpTo(s, x))}
<1>1. Number(s) \in Nat /\ \A k \in DOMAIN s : s[k] \in Nat
  BY ItemTypes
<1>2. R # {}
  <2> DEFINE V == ToSet(s)
  <2>1. V \in SUBSET Nat /\ IsFiniteSet(V)
    <3>1. V = Range(s) /\ V \in SUBSET Nat
      BY <1>1 DEF ToSet, Range
    <3>2. s \in Surjection(DOMAIN s, V)
      BY <1>1, <3>1 DEF Surjection, Range, Items
    <3> QED
      BY <3>1, <3>2, FS_Surjection DEF Items
  <2>2. PICK b \in Nat : \A y \in V : y <= b
    <3> HIDE DEF V
    <3> QED
      BY <2>1, FiniteBound
  <2>3. UpTo(s, b) = DOMAIN s
    BY <1>1, <2>2 DEF UpTo, ToSet
  <2>4. b \in R
    BY <1>1, <2>3 DEF Number
  <2> QED
    BY <2>4
<1>3. PICK x \in R : \A y \in R : x <= y
  BY <1>2, LeastNumber
<1>4. x \in Nat /\ i <= Cardinality(UpTo(s, x))
  OBVIOUS
<1>5. Cardinality(Below(s, x)) < i
  <2>1. CASE x = 0
    <3>1. Below(s, x) = {}
      BY <1>1, <2>1 DEF Below
    <3> QED
      BY <3>1, FS_EmptySet
  <2>2. CASE x # 0
    <3>1. x - 1 \in Nat /\ x - 1 \notin R
      BY <1>3, <1>4, <2>2
    <3>2. Below(s, x) = UpTo(s, x - 1)
      BY <1>1, <1>4, <3>1 DEF Below, UpTo
    <3>3. ~ (i <= Cardinality(UpTo(s, x - 1)))
      BY <3>1
    <3>4. Cardinality(UpTo(s, x - 1)) \in Nat
      BY <3>1, RankTypes
    <3> QED
      BY <3>2, <3>3, <3>4
  <2> QED
    BY <2>1, <2>2
<1>6. x \in ToSet(s)
  <2> SUFFICES ASSUME x \notin ToSet(s) PROVE FALSE
    OBVIOUS
  <2>1. \A k \in DOMAIN s : s[k] # x
    BY <1>1 DEF ToSet
  <2>2. UpTo(s, x) = Below(s, x)
    BY <1>1, <1>4, <2>1 DEF UpTo, Below
  <2>3. Cardinality(Below(s, x)) \in Nat
    BY <1>4, RankTypes
  <2> QED
    BY <1>4, <1>5, <2>2, <2>3
<1> QED
  BY <1>4, <1>5, <1>6 DEF HasRank

\* Sorted puts every item in a place of its rank.
LEMMA SortedRanks ==
  ASSUME NEW s, Items(s)
  PROVE  /\ Sorted(s) \in [1 .. Number(s) -> Nat]
         /\ \A i \in 1 .. Number(s) :
              Sorted(s)[i] \in Nat /\ HasRank(s, i, Sorted(s)[i])
         /\ Items(Sorted(s)) /\ Number(Sorted(s)) = Number(s)
<1> DEFINE n == Number(s)
<1>1. ASSUME NEW i \in 1 .. n
      PROVE  Sorted(s)[i] \in Nat /\ HasRank(s, i, Sorted(s)[i])
  <2>1. Sorted(s)[i] = CHOOSE x \in ToSet(s) : HasRank(s, i, x)
    BY DEF Sorted, HasRank, Number
  <2>2. \E x \in ToSet(s) : HasRank(s, i, x)
    BY RankExists
  <2>3. ToSet(s) \in SUBSET Nat
    BY ItemTypes DEF ToSet
  <2> QED
    BY <2>1, <2>2, <2>3
<1>2. Sorted(s) = [i \in 1 .. n |-> Sorted(s)[i]]
  BY DEF Sorted, Number
<1> HIDE DEF n
<1>3. Sorted(s) \in [1 .. n -> Nat] /\ DOMAIN Sorted(s) = 1 .. n
  BY <1>1, <1>2
<1>4. n \in Nat
  BY ItemTypes DEF n
<1>5. Items(Sorted(s)) /\ Number(Sorted(s)) = n
  BY <1>3, <1>4, FirstNumbers DEF Items, Number
<1> QED
  BY <1>1, <1>3, <1>5 DEF n

\* The places of the sorted array with an item below x, or not above it, are the
\* first, as many as there are in the array.
LEMMA SortedPlaces ==
  ASSUME NEW s, Items(s), NEW x \in Nat
  PROVE  /\ UpTo(Sorted(s), x) = 1 .. Cardinality(UpTo(s, x))
         /\ Below(Sorted(s), x) = 1 .. Cardinality(Below(s, x))
<1> DEFINE n == Number(s)
<1>1. /\ n \in Nat /\ DOMAIN Sorted(s) = 1 .. n
      /\ \A i \in 1 .. n : Sorted(s)[i] \in Nat /\ HasRank(s, i, Sorted(s)[i])
  BY SortedRanks, ItemTypes
<1>2. /\ Cardinality(UpTo(s, x)) \in 0 .. n /\ Cardinality(Below(s, x)) \in Nat
      /\ Cardinality(Below(s, x)) <= Cardinality(UpTo(s, x))
  <2>1. Below(s, x) \subseteq UpTo(s, x)
    BY DEF Below, UpTo, Items
  <2> QED
    BY <2>1, RankTypes, FS_Subset
<1>3. ASSUME NEW i \in 1 .. n
      PROVE  /\ Sorted(s)[i] <= x <=> i <= Cardinality(UpTo(s, x))
             /\ Sorted(s)[i] < x <=> i <= Cardinality(Below(s, x))
  <2> DEFINE y == Sorted(s)[i]
  <2>1. y \in Nat /\ HasRank(s, i, y)
    BY <1>1
  <2> HIDE DEF y
  <2>2. Cardinality(UpTo(s, y)) \in Nat /\ Cardinality(Below(s, y)) \in Nat
    BY <2>1, RankTypes
  <2>3. CASE y < x
    <3>1. Cardinality(UpTo(s, y)) <= Cardinality(Below(s, x))
      BY <2>1, <2>3, RanksApart
    <3> QED
      BY <1>2, <2>1, <2>2, <2>3, <3>1 DEF HasRank, y
  <2>4. CASE y = x
    BY <1>2, <2>1, <2>2, <2>4 DEF HasRank, y
  <2>5. CASE x < y
    <3>1. Cardinality(UpTo(s, x)) <= Cardinality(Below(s, y))
      BY <2>1, <2>5, RanksApart
    <3> QED
      BY <1>2, <2>1, <2>2, <2>5, <3>1 DEF HasRank, y
  <2> QED
    BY <2>1, <2>3, <2>4, <2>5
<1> DEFINE u == Cardinality(UpTo(s, x))
           b == Cardinality(Below(s, x))
           t == Sorted(s)
<1>4. /\ u \in 0 .. n /\ b \in 0 .. n /\ DOMAIN t = 1 .. n
      /\ \A i \in 1 .. n : (t[i] <= x <=> i <= u) /\ (t[i] < x <=> i <= b)
  BY <1>1, <1>2, <1>3
<1>7. n \in Nat
  BY <1>1
<1> HIDE DEF u, b, t, n
<1>5. UpTo(t, x) = 1 .. u
  BY <1>7, <1>4 DEF UpTo
<1>6. Below(t, x) = 1 .. b
  BY <1>7, <1>4 DEF Below
<1> QED
  BY <1>5, <1>6 DEF u, b, t

\* A sorted array is in order.
LEMMA SortedOrder ==
  ASSUME NEW s, Items(s), NEW j \in 1 .. Number(s), NEW i \in 1 .. j
  PROVE  Sorted(s)[i] <= Sorted(s)[j]
<1>1. /\ Number(s) \in Nat /\ DOMAIN Sorted(s) = 1 .. Number(s)
      /\ Sorted(s)[j] \in Nat /\ i \in 1 .. Number(s)
  BY SortedRanks, ItemTypes
<1>2. PICK x \in Nat : x = Sorted(s)[j]
  BY <1>1
<1>3. j \in UpTo(Sorted(s), x)
  BY <1>1, <1>2 DEF UpTo
<1>4. UpTo(Sorted(s), x) = 1 .. Cardinality(UpTo(s, x)) /\ Cardinality(UpTo(s, x)) \in Nat
  <2>1. UpTo(Sorted(s), x) = 1 .. Cardinality(UpTo(s, x))
    BY SortedPlaces
  <2>2. Cardinality(UpTo(s, x)) \in 0 .. Number(s)
    BY RankTypes
  <2> QED
    BY <2>1, <2>2
<1>5. i \in UpTo(Sorted(s), x)
  BY <1>3, <1>4
<1> QED
  BY <1>2, <1>5 DEF UpTo

\* An array in order is not changed by sorting it.
LEMMA SortedAlready ==
  ASSUME NEW n \in Nat, NEW s \in [1 .. n -> Nat],
         \A j \in 1 .. n : \A i \in 1 .. j : s[i] <= s[j]
  PROVE  Sorted(s) = s
<1>1. /\ DOMAIN s = 1 .. n /\ \A i \in 1 .. n : s[i] \in Nat
      /\ Items(s) /\ Number(s) = n
  BY FirstNumbers DEF Items, Number
<1>2. ASSUME NEW i \in 1 .. n PROVE Sorted(s)[i] = s[i]
  <2>1. Below(s, s[i]) \subseteq 1 .. i - 1 /\ 1 .. i \subseteq UpTo(s, s[i])
    BY <1>1 DEF Below, UpTo
  <2>2. /\ IsFiniteSet(1 .. i - 1) /\ Cardinality(1 .. i - 1) = i - 1
        /\ Cardinality(1 .. i) = i
    <3>1. i - 1 \in Nat /\ i \in Nat
      OBVIOUS
    <3> QED
      BY <3>1, FirstNumbers
  <2>3. Cardinality(Below(s, s[i])) <= i - 1 /\ i <= Cardinality(UpTo(s, s[i]))
    <3>1. s[i] \in Nat
      BY <1>1
    <3>2. IsFiniteSet(UpTo(s, s[i]))
      BY <1>1, <3>1, RankTypes
    <3>3. /\ Cardinality(Below(s, s[i])) <= Cardinality(1 .. i - 1)
          /\ Cardinality(1 .. i) <= Cardinality(UpTo(s, s[i]))
      BY <2>1, <2>2, <3>2, FS_Subset
    <3> QED
      BY <2>2, <3>3
  <2>4. Cardinality(Below(s, s[i])) \in Nat
    <3>1. s[i] \in Nat
      BY <1>1
    <3> QED
      BY <1>1, <3>1, RankTypes
  <2>5. HasRank(s, i, s[i])
    BY <2>3, <2>4 DEF HasRank
  <2> QED
    BY <1>1, <2>5, SortedRanks, RankUnique
<1>3. Sorted(s) \in [1 .. n -> Nat]
  BY <1>1, SortedRanks
<1> QED
  BY <1>2, <1>3

\* The same items, in whatever order, are the same when sorted.
LEMMA SortedSame ==
  ASSUME NEW s, NEW t, Items(s), Items(t),
         NEW b \in Bijection(DOMAIN s, DOMAIN t), \A k \in DOMAIN s : t[b[k]] = s[k]
  PROVE  Sorted(t) = Sorted(s)
<1>1. /\ b \in [DOMAIN s -> DOMAIN t] /\ \A k, l \in DOMAIN s : b[k] = b[l] => k = l
      /\ \A l \in DOMAIN t : \E k \in DOMAIN s : b[k] = l
  BY DEF Bijection, Injection, Surjection, IsInjective
<1>2. ASSUME NEW x \in Nat
      PROVE  /\ Cardinality(Below(t, x)) = Cardinality(Below(s, x))
             /\ Cardinality(UpTo(t, x)) = Cardinality(UpTo(s, x))
  <2> DEFINE f == [k \in Below(s, x) |-> b[k]]
             g == [k \in UpTo(s, x) |-> b[k]]
  <2>1. f \in Bijection(Below(s, x), Below(t, x))
    <3>1. f \in [Below(s, x) -> Below(t, x)] /\ \A k, l \in Below(s, x) : f[k] = f[l] => k = l
      BY <1>1 DEF Below
    <3>2. \A l \in Below(t, x) : \E k \in Below(s, x) : f[k] = l
      BY <1>1 DEF Below
    <3> QED
      BY <3>1, <3>2 DEF Bijection, Injection, Surjection, IsInjective
  <2>2. g \in Bijection(UpTo(s, x), UpTo(t, x))
    <3>1. g \in [UpTo(s, x) -> UpTo(t, x)] /\ \A k, l \in UpTo(s, x) : g[k] = g[l] => k = l
      BY <1>1 DEF UpTo
    <3>2. \A l \in UpTo(t, x) : \E k \in UpTo(s, x) : g[k] = l
      BY <1>1 DEF UpTo
    <3> QED
      BY <3>1, <3>2 DEF Bijection, Injection, Surjection, IsInjective
  <2> HIDE DEF f, g
  <2>3. /\ ExistsBijection(Below(s, x), Below(t, x))
        /\ ExistsBijection(UpTo(s, x), UpTo(t, x))
    BY <2>1, <2>2 DEF ExistsBijection
  <2> QED
    BY <2>3, RankTypes, FS_Bijection
<1>3. Number(s) = Number(t)
  <2>1. ExistsBijection(DOMAIN s, DOMAIN t)
    BY DEF ExistsBijection
  <2> QED
    BY <2>1, FS_Bijection DEF Items, Number
<1>4. PICK n \in Nat : n = Number(s)
  BY ItemTypes
<1>5. PICK u \in [1 .. n -> Nat] : u = Sorted(s)
  BY <1>4, SortedRanks
<1>6. PICK v \in [1 .. n -> Nat] : v = Sorted(t)
  BY <1>3, <1>4, SortedRanks
<1>7. ASSUME NEW i \in 1 .. n PROVE u[i] = v[i]
  <2>1. u[i] \in Nat /\ HasRank(s, i, u[i])
    BY <1>4, <1>5, SortedRanks
  <2>2. v[i] \in Nat /\ HasRank(t, i, v[i])
    BY <1>3, <1>4, <1>6, SortedRanks
  <2>3. HasRank(t, i, u[i])
    BY <1>2, <2>1 DEF HasRank
  <2>4. i \in Nat
    OBVIOUS
  <2> QED
    BY <2>1, <2>2, <2>3, <2>4, RankUnique
<1>8. u = v
  BY <1>7
<1> QED
  BY <1>5, <1>6, <1>8

\* The sorted array has the items, each in one place.
LEMMA SortedPermutes ==
  ASSUME NEW s, Items(s)
  PROVE  \E b \in Bijection(1 .. Number(s), DOMAIN s) :
           \A k \in 1 .. Number(s) : s[b[k]] = Sorted(s)[k]
<1> DEFINE t == Sorted(s)
           At(a, x) == {k \in DOMAIN a : a[k] = x}
           B(x) == Bijection(At(t, x), At(s, x))
           g(x) == CHOOSE c \in B(x) : TRUE
           n == Number(s)
           b == [k \in 1 .. n |-> g(t[k])[k]]
<1>1. /\ Items(t) /\ DOMAIN t = 1 .. n
      /\ \A k \in 1 .. n : t[k] \in Nat
      /\ \A k \in DOMAIN s : s[k] \in Nat
  BY SortedRanks, ItemTypes
<1>2. ASSUME NEW x \in Nat, NEW a, Items(a)
      PROVE  /\ IsFiniteSet(At(a, x))
             /\ Cardinality(At(a, x)) = Cardinality(UpTo(a, x)) - Cardinality(Below(a, x))
  <2>1. \A k \in DOMAIN a : a[k] \in Nat
    BY <1>2, ItemTypes
  <2>2. /\ UpTo(a, x) \cap Below(a, x) = Below(a, x)
        /\ UpTo(a, x) \ Below(a, x) = At(a, x)
    BY <2>1 DEF UpTo, Below
  <2>3. IsFiniteSet(UpTo(a, x)) /\ IsFiniteSet(Below(a, x))
    BY <1>2, RankTypes
  <2> DEFINE U == UpTo(a, x)
             V == Below(a, x)
  <2> HIDE DEF U, V
  <2>4. /\ IsFiniteSet(U \ V)
        /\ Cardinality(U \ V) = Cardinality(U) - Cardinality(U \cap V)
    BY <2>3, FS_Difference DEF U, V
  <2> QED
    BY <2>2, <2>4 DEF U, V
<1>3. ASSUME NEW x \in Nat
      PROVE  g(x) \in B(x)
  <2>1. /\ Cardinality(UpTo(t, x)) = Cardinality(UpTo(s, x))
        /\ Cardinality(Below(t, x)) = Cardinality(Below(s, x))
    <3> DEFINE u == Cardinality(UpTo(s, x))
               v == Cardinality(Below(s, x))
    <3>1. UpTo(t, x) = 1 .. u /\ Below(t, x) = 1 .. v
      BY SortedPlaces
    <3>2. u \in Nat /\ v \in Nat
      BY RankTypes
    <3> HIDE DEF u, v
    <3>3. Cardinality(UpTo(t, x)) = u /\ Cardinality(Below(t, x)) = v
      BY <3>1, <3>2, FirstNumbers
    <3> QED
      BY <3>3 DEF u, v
  <2>2. /\ IsFiniteSet(At(t, x)) /\ IsFiniteSet(At(s, x))
        /\ Cardinality(At(t, x)) = Cardinality(At(s, x))
    BY <1>1, <1>2, <2>1
  <2> HIDE DEF At, t
  <2>3. ExistsBijection(At(t, x), At(s, x))
    BY <2>2, FS_SameCardinalityBij
  <2> QED
    BY <2>3 DEF ExistsBijection
<1>4. ASSUME NEW x \in Nat
      PROVE  /\ \A k \in At(t, x) : g(x)[k] \in At(s, x)
             /\ \A k, l \in At(t, x) : g(x)[k] = g(x)[l] => k = l
             /\ \A l \in At(s, x) : \E k \in At(t, x) : g(x)[k] = l
  <2>1. PICK c : c = g(x)
    OBVIOUS
  <2>2. c \in Bijection(At(t, x), At(s, x))
    BY <1>3, <2>1
  <2> HIDE DEF g, At, t
  <2>3. /\ \A k \in At(t, x) : c[k] \in At(s, x)
        /\ \A k, l \in At(t, x) : c[k] = c[l] => k = l
        /\ \A l \in At(s, x) : \E k \in At(t, x) : c[k] = l
    BY <2>2 DEF Bijection, Injection, Surjection, IsInjective
  <2> QED
    BY <2>1, <2>3
<1> HIDE DEF t, g, n
<1>5. ASSUME NEW k \in 1 .. n
      PROVE  b[k] = g(t[k])[k] /\ b[k] \in DOMAIN s /\ s[b[k]] = t[k]
  BY <1>1, <1>4
<1> HIDE DEF b
<1>6. ASSUME NEW k \in 1 .. n, NEW l \in 1 .. n, b[k] = b[l]
      PROVE  k = l
  <2>1. t[k] = t[l]
    BY <1>5, <1>6
  <2>2. g(t[k])[k] = g(t[k])[l] /\ l \in At(t, t[k]) /\ k \in At(t, t[k])
    BY <1>1, <1>5, <1>6, <2>1
  <2> QED
    BY <1>1, <1>4, <2>2
<1>7. ASSUME NEW l \in DOMAIN s
      PROVE  \E k \in 1 .. n : b[k] = l
  <2>1. l \in At(s, s[l])
    OBVIOUS
  <2>2. PICK k \in At(t, s[l]) : g(s[l])[k] = l
    BY <1>1, <1>4, <2>1
  <2>3. k \in 1 .. n /\ t[k] = s[l]
    BY <1>1
  <2> QED
    BY <1>5, <2>2, <2>3
<1>8. b \in [1 .. n -> DOMAIN s]
  BY <1>5 DEF b
<1>9. b \in Bijection(1 .. n, DOMAIN s)
  BY <1>6, <1>7, <1>8 DEF Bijection, Injection, Surjection, IsInjective
<1> QED
  BY <1>5, <1>9 DEF t, n

-----------------------------------------------------------------------------
(* Arrays with the same items. *)

\* The items of s are those of t, in other places.
Permuted(s, t) ==
  \E b \in Bijection(DOMAIN s, DOMAIN t) : \A k \in DOMAIN s : t[b[k]] = s[k]

\* What a bijection is.
LEMMA BijectionFacts ==
  ASSUME NEW S, NEW T, NEW b
  PROVE  b \in Bijection(S, T) <=>
           /\ b \in [S -> T]
           /\ \A k, l \in S : b[k] = b[l] => k = l
           /\ \A t \in T : \E k \in S : b[k] = t
BY DEF Bijection, Injection, Surjection, IsInjective

\* Whatever permutes s into t has an inverse that permutes t into s.
LEMMA PermutedBack ==
  ASSUME NEW s, NEW t, Permuted(s, t)
  PROVE  Permuted(t, s)
<1>1. PICK b \in Bijection(DOMAIN s, DOMAIN t) : \A k \in DOMAIN s : t[b[k]] = s[k]
  BY DEF Permuted
<1>2. /\ b \in [DOMAIN s -> DOMAIN t] /\ \A k, l \in DOMAIN s : b[k] = b[l] => k = l
      /\ \A l \in DOMAIN t : \E k \in DOMAIN s : b[k] = l
  BY <1>1, BijectionFacts
<1>3. PICK c : c = [l \in DOMAIN t |-> CHOOSE k \in DOMAIN s : b[k] = l]
  OBVIOUS
<1>4. \A l \in DOMAIN t : c[l] \in DOMAIN s /\ b[c[l]] = l
  BY <1>2, <1>3
<1>5. c \in [DOMAIN t -> DOMAIN s]
  BY <1>3, <1>4
<1>6. \A k \in DOMAIN s : c[b[k]] = k
  <2>1. ASSUME NEW k \in DOMAIN s PROVE c[b[k]] = k
    <3>1. b[k] \in DOMAIN t
      BY <1>2
    <3>2. c[b[k]] \in DOMAIN s /\ b[c[b[k]]] = b[k]
      BY <1>4, <3>1
    <3> QED
      BY <1>2, <3>2
  <2> QED
    BY <2>1
<1>7. c \in Bijection(DOMAIN t, DOMAIN s)
  <2>1. \A k, l \in DOMAIN t : c[k] = c[l] => k = l
    BY <1>4
  <2>2. \A k \in DOMAIN s : \E l \in DOMAIN t : c[l] = k
    BY <1>2, <1>6
  <2> QED
    BY <1>5, <2>1, <2>2, BijectionFacts
<1>8. \A l \in DOMAIN t : s[c[l]] = t[l]
  <2>1. ASSUME NEW l \in DOMAIN t PROVE s[c[l]] = t[l]
    <3>1. c[l] \in DOMAIN s /\ b[c[l]] = l
      BY <1>4
    <3>2. t[b[c[l]]] = s[c[l]]
      BY <1>1, <3>1
    <3> QED
      BY <3>1, <3>2
  <2> QED
    BY <2>1
<1> QED
  BY <1>7, <1>8 DEF Permuted

\* One permutation after the other is a permutation.
LEMMA PermutedOn ==
  ASSUME NEW s, NEW t, NEW u, Permuted(s, t), Permuted(t, u)
  PROVE  Permuted(s, u)
<1>1. PICK b \in Bijection(DOMAIN s, DOMAIN t) : \A k \in DOMAIN s : t[b[k]] = s[k]
  BY DEF Permuted
<1>2. PICK c \in Bijection(DOMAIN t, DOMAIN u) : \A k \in DOMAIN t : u[c[k]] = t[k]
  BY DEF Permuted
<1>3. /\ b \in [DOMAIN s -> DOMAIN t] /\ \A k, l \in DOMAIN s : b[k] = b[l] => k = l
      /\ \A l \in DOMAIN t : \E k \in DOMAIN s : b[k] = l
  BY <1>1, BijectionFacts
<1>4. /\ c \in [DOMAIN t -> DOMAIN u] /\ \A k, l \in DOMAIN t : c[k] = c[l] => k = l
      /\ \A l \in DOMAIN u : \E k \in DOMAIN t : c[k] = l
  BY <1>2, BijectionFacts
<1>5. PICK a : a = [k \in DOMAIN s |-> c[b[k]]]
  OBVIOUS
<1>6. \A k \in DOMAIN s : a[k] = c[b[k]] /\ a[k] \in DOMAIN u /\ u[a[k]] = s[k]
  BY <1>1, <1>2, <1>3, <1>4, <1>5
<1>7. a \in [DOMAIN s -> DOMAIN u]
  BY <1>5, <1>6
<1>8. \A k, l \in DOMAIN s : a[k] = a[l] => k = l
  BY <1>3, <1>4, <1>6
<1>9. \A l \in DOMAIN u : \E k \in DOMAIN s : a[k] = l
  BY <1>3, <1>4, <1>6
<1>10. a \in Bijection(DOMAIN s, DOMAIN u)
  BY <1>7, <1>8, <1>9, BijectionFacts
<1> QED
  BY <1>6, <1>10 DEF Permuted

\* An array is a permutation of itself sorted.
LEMMA PermutedSorted ==
  ASSUME NEW s, Items(s)
  PROVE  Permuted(Sorted(s), s)
<1>1. PICK t : t = Sorted(s)
  OBVIOUS
<1>2. DOMAIN t = 1 .. Number(s)
  BY <1>1, SortedRanks
<1>3. \E b \in Bijection(1 .. Number(s), DOMAIN s) :
        \A k \in 1 .. Number(s) : s[b[k]] = t[k]
  BY <1>1, SortedPermutes
<1>4. \E b \in Bijection(DOMAIN t, DOMAIN s) : \A k \in DOMAIN t : s[b[k]] = t[k]
  BY <1>2, <1>3, Zenon
<1> QED
  BY <1>1, <1>4 DEF Permuted

\* Permutations of each other are the same when sorted.
LEMMA PermutedSame ==
  ASSUME NEW s, NEW t, Items(s), Items(t), Permuted(s, t)
  PROVE  Sorted(t) = Sorted(s)
BY SortedSame DEF Permuted

\* They have the same sum.
LEMMA PermutedSum ==
  ASSUME NEW s, NEW t, Items(s), Permuted(s, t)
  PROVE  SumFunctionOnSet(t, DOMAIN t) = SumFunctionOnSet(s, DOMAIN s)
<1>1. Summable(s, DOMAIN s)
  BY ItemTypes DEF Summable, Items
<1>2. PICK b \in Bijection(DOMAIN s, DOMAIN t) : \A k \in DOMAIN s : t[b[k]] = s[k]
  BY DEF Permuted
<1> QED
  BY <1>1, <1>2, SumBijection

-----------------------------------------------------------------------------
(* Several arrays. *)

\* The places of all the arrays of a family, and what is there.
Places(a) == UNION {{c} \X DOMAIN a[c] : c \in DOMAIN a}
Together(a) == [q \in Places(a) |-> a[q[1]][q[2]]]

\* They are the places of each array.
LEMMA PlacesOf ==
  ASSUME NEW a
  PROVE  /\ \A c \in DOMAIN a : \A k \in DOMAIN a[c] :
              <<c, k>> \in Places(a) /\ Together(a)[<<c, k>>] = a[c][k]
         /\ \A q \in Places(a) :
              /\ q[1] \in DOMAIN a /\ q[2] \in DOMAIN a[q[1]] /\ q = <<q[1], q[2]>>
              /\ Together(a)[q] = a[q[1]][q[2]]
         /\ DOMAIN Together(a) = Places(a)
BY DEF Places, Together

\* They are finitely many items.
LEMMA TogetherItems ==
  ASSUME NEW a, IsFiniteSet(DOMAIN a), \A c \in DOMAIN a : Items(a[c])
  PROVE  Items(Together(a))
<1> DEFINE Of(T) == {q \in Places(a) : q[1] \in T}
           F == {T \in SUBSET DOMAIN a : IsFiniteSet(Of(T))}
<1>1. IsFiniteSet(Places(a))
  <2>1. {} \in F
    <3>1. Of({}) = {}
      OBVIOUS
    <3> QED
      BY <3>1, FS_EmptySet
  <2>2. ASSUME NEW T \in SUBSET DOMAIN a, NEW x \in DOMAIN a, T \in F, x \notin T
        PROVE  T \cup {x} \in F
    <3>1. Of(T \cup {x}) = Of(T) \cup Of({x})
      OBVIOUS
    <3>2. Of({x}) \subseteq {x} \X DOMAIN a[x]
      BY PlacesOf
    <3>3. IsFiniteSet(Of(T))
      BY <2>2
    <3> HIDE DEF Of
    <3>4. IsFiniteSet({x} \X DOMAIN a[x])
      BY FS_Singleton, FS_Product DEF Items
    <3>5. IsFiniteSet(Of({x}))
      BY <3>2, <3>4, FS_Subset
    <3>6. IsFiniteSet(Of(T \cup {x}))
      BY <3>1, <3>3, <3>5, FS_Union
    <3> QED
      BY <2>2, <3>6
  <2>3. Of(DOMAIN a) = Places(a)
    BY PlacesOf
  <2> HIDE DEF F
  <2>4. DOMAIN a \in F
    BY <2>1, <2>2, SetInduction
  <2> QED
    BY <2>3, <2>4 DEF F
<1>2. \A q \in Places(a) : Together(a)[q] \in Nat
  BY PlacesOf, ItemTypes
<1> QED
  BY <1>1, <1>2, PlacesOf DEF Items, Together

\* Arrays that are permutations of each other are so together.
LEMMA TogetherPermuted ==
  ASSUME NEW a, NEW e, DOMAIN e = DOMAIN a, \A c \in DOMAIN a : Permuted(a[c], e[c])
  PROVE  Permuted(Together(a), Together(e))
<1> DEFINE B(c) == {b \in Bijection(DOMAIN a[c], DOMAIN e[c]) :
                      \A k \in DOMAIN a[c] : e[c][b[k]] = a[c][k]}
<1>1. PICK g : g = [c \in DOMAIN a |-> CHOOSE b \in B(c) : TRUE]
  OBVIOUS
<1>2. ASSUME NEW c \in DOMAIN a
      PROVE  /\ g[c] \in [DOMAIN a[c] -> DOMAIN e[c]]
             /\ \A k, l \in DOMAIN a[c] : g[c][k] = g[c][l] => k = l
             /\ \A l \in DOMAIN e[c] : \E k \in DOMAIN a[c] : g[c][k] = l
             /\ \A k \in DOMAIN a[c] : e[c][g[c][k]] = a[c][k]
  <2>1. B(c) # {}
    BY DEF Permuted
  <2>2. g[c] \in B(c)
    BY <1>1, <2>1
  <2> QED
    BY <2>2, BijectionFacts
<1> HIDE DEF B
<1>3. PICK f : f = [q \in Places(a) |-> <<q[1], g[q[1]][q[2]]>>]
  OBVIOUS
<1>4. ASSUME NEW q \in Places(a)
      PROVE  /\ q[1] \in DOMAIN a /\ q[2] \in DOMAIN a[q[1]] /\ q = <<q[1], q[2]>>
             /\ f[q] = <<q[1], g[q[1]][q[2]]>>
             /\ f[q] \in Places(e) /\ Together(e)[f[q]] = Together(a)[q]
  <2>1. q[1] \in DOMAIN a /\ q[2] \in DOMAIN a[q[1]] /\ q = <<q[1], q[2]>>
    BY PlacesOf
  <2>2. f[q] = <<q[1], g[q[1]][q[2]]>>
    BY <1>3
  <2>3. g[q[1]][q[2]] \in DOMAIN e[q[1]]
    BY <1>2, <2>1
  <2>4. f[q] \in Places(e) /\ Together(e)[f[q]] = e[q[1]][g[q[1]][q[2]]]
    BY <2>1, <2>2, <2>3, PlacesOf
  <2>5. Together(a)[q] = a[q[1]][q[2]]
    BY PlacesOf
  <2> QED
    BY <1>2, <2>1, <2>2, <2>4, <2>5
<1>5. f \in [Places(a) -> Places(e)]
  BY <1>3, <1>4
<1>6. ASSUME NEW q \in Places(a), NEW r \in Places(a), f[q] = f[r]
      PROVE  q = r
  <2>1. q[1] = r[1] /\ g[q[1]][q[2]] = g[r[1]][r[2]]
    BY <1>4, <1>6
  <2>2. q[2] = r[2]
    BY <1>2, <1>4, <2>1
  <2> QED
    BY <1>4, <2>1, <2>2
<1>7. ASSUME NEW r \in Places(e)
      PROVE  \E q \in Places(a) : f[q] = r
  <2>1. r[1] \in DOMAIN a /\ r[2] \in DOMAIN e[r[1]] /\ r = <<r[1], r[2]>>
    BY PlacesOf
  <2>2. PICK k \in DOMAIN a[r[1]] : g[r[1]][k] = r[2]
    BY <1>2, <2>1
  <2>3. <<r[1], k>> \in Places(a) /\ f[<<r[1], k>>] = <<r[1], r[2]>>
    BY <1>3, <2>1, <2>2, PlacesOf
  <2> QED
    BY <2>1, <2>3
<1>8. f \in Bijection(Places(a), Places(e))
  BY <1>5, <1>6, <1>7, BijectionFacts
<1> QED
  BY <1>4, <1>8, PlacesOf DEF Permuted

\* The sum of all is the sum of the sums.
LEMMA TogetherSum ==
  ASSUME NEW a, IsFiniteSet(DOMAIN a), \A c \in DOMAIN a : Items(a[c])
  PROVE  SumFunctionOnSet(Together(a), Places(a))
           = SumFunctionOnSet([c \in DOMAIN a |-> SumFunctionOnSet(a[c], DOMAIN a[c])],
                              DOMAIN a)
<1>1. PICK part : part = [q \in Places(a) |-> q[1]]
  OBVIOUS
<1>2. part \in [Places(a) -> DOMAIN a] /\ \A q \in Places(a) : part[q] = q[1]
  BY <1>1, PlacesOf
<1>3. Summable(Together(a), Places(a))
  BY TogetherItems, PlacesOf, ItemTypes DEF Summable, Items
<1>4. ASSUME NEW c \in DOMAIN a
      PROVE  SumFunctionOnSet(Together(a), {q \in Places(a) : part[q] = c})
               = SumFunctionOnSet(a[c], DOMAIN a[c])
  <2>1. PICK Q : Q = {q \in Places(a) : part[q] = c}
    OBVIOUS
  <2>2. PICK b : b = [k \in DOMAIN a[c] |-> <<c, k>>]
    OBVIOUS
  <2>3. \A k \in DOMAIN a[c] : b[k] = <<c, k>> /\ b[k] \in Q /\ Together(a)[b[k]] = a[c][k]
    BY <1>2, <2>1, <2>2, PlacesOf
  <2>4. \A q \in Q : q[2] \in DOMAIN a[c] /\ b[q[2]] = q
    BY <1>2, <2>1, <2>2, PlacesOf
  <2>5. b \in Bijection(DOMAIN a[c], Q)
    <3>1. b \in [DOMAIN a[c] -> Q]
      BY <2>2, <2>3
    <3>2. \A k, l \in DOMAIN a[c] : b[k] = b[l] => k = l
      BY <2>3
    <3>3. \A q \in Q : \E k \in DOMAIN a[c] : b[k] = q
      BY <2>4
    <3> QED
      BY <3>1, <3>2, <3>3, BijectionFacts
  <2>6. Summable(a[c], DOMAIN a[c])
    <3>1. PICK w : w = a[c]
      OBVIOUS
    <3>2. Items(w)
      BY <3>1
    <3>3. \A k \in DOMAIN w : w[k] \in Nat
      BY <3>2, ItemTypes
    <3> QED
      BY <3>1, <3>2, <3>3 DEF Summable, Items
  <2>7. SumFunctionOnSet(Together(a), Q) = SumFunctionOnSet(a[c], DOMAIN a[c])
    BY <2>3, <2>5, <2>6, SumBijection
  <2> QED
    BY <2>1, <2>7
<1>5. SumFunctionOnSet([c \in DOMAIN a |->
                          SumFunctionOnSet(Together(a), {q \in Places(a) : part[q] = c})],
                       DOMAIN a)
        = SumFunctionOnSet(Together(a), Places(a))
  <2>1. PICK W, I, f : W = Places(a) /\ I = DOMAIN a /\ f = Together(a)
    OBVIOUS
  <2>2. IsFiniteSet(I) /\ part \in [W -> I] /\ Summable(f, W)
    BY <1>2, <1>3, <2>1
  <2>3. SumFunctionOnSet([c \in I |-> SumFunctionOnSet(f, {q \in W : part[q] = c})], I)
          = SumFunctionOnSet(f, W)
    BY <2>2, SumParts
  <2> QED
    BY <2>1, <2>3
<1>6. [c \in DOMAIN a |-> SumFunctionOnSet(Together(a), {q \in Places(a) : part[q] = c})]
        = [c \in DOMAIN a |-> SumFunctionOnSet(a[c], DOMAIN a[c])]
  BY <1>4
<1> QED
  BY <1>5, <1>6

-----------------------------------------------------------------------------
(* Arrays of one length behind each other. *)

\* The array at place c of those of length n ends before the one at place e begins.
LEMMA ArraysBehind ==
  ASSUME NEW n \in Nat, NEW e \in Nat \ {0}, NEW c \in 1 .. e
  PROVE  /\ (c - 1) * n \in Nat /\ e * n \in Nat
         /\ (c - 1) * n + n = c * n /\ c * n <= e * n
<1>1. PICK d \in Nat : d = e - c
  OBVIOUS
<1>2. PICK b \in Nat : b = c - 1
  OBVIOUS
<1>3. d * n \in Nat /\ b * n \in Nat /\ c * n \in Nat
  BY <1>1, <1>2
<1>4. e * n = c * n + d * n
  BY <1>1
<1>5. c * n = b * n + n
  BY <1>2
<1> QED
  BY <1>2, <1>3, <1>4, <1>5

\* The k-th item of the c-th array, when each has n.
Place(c, n, k) == (c - 1) * n + k

\* t has the items of the m arrays of a, of n items each, one array behind the other.
Flat(t, a, m, n) ==
  /\ t \in [1 .. m * n -> Nat]
  /\ \A c \in 1 .. m, k \in 1 .. n : t[Place(c, n, k)] = a[c][k]

\* One more array goes behind the others.
LEMMA FlatAppend ==
  ASSUME NEW n \in Nat, NEW m \in Nat \ {0}, NEW a, NEW t, Flat(t, a, m, n),
         a[m + 1] \in [1 .. n -> Nat]
  PROVE  Flat(t \o a[m + 1], a, m + 1, n)
<1>1. PICK u : u = a[m + 1]
  OBVIOUS
<1>2. PICK r : r = t \o u
  OBVIOUS
<1>3. PICK p \in Nat : p = m * n
  OBVIOUS
<1>4. (m + 1) * n = p + n /\ ((m + 1) - 1) * n = p
  BY <1>3
<1>5. /\ t \in [1 .. p -> Nat] /\ u \in [1 .. n -> Nat]
      /\ t \in Seq(Nat) /\ Len(t) = p /\ u \in Seq(Nat) /\ Len(u) = n
  <2>1. t \in [1 .. p -> Nat] /\ u \in [1 .. n -> Nat]
    BY <1>1, <1>3 DEF Flat
  <2> QED
    BY <2>1
<1>6. /\ r \in [1 .. p + n -> Nat]
      /\ \A j \in 1 .. p + n : r[j] = IF j <= p THEN t[j] ELSE u[j - p]
  <2>1. /\ r \in Seq(Nat) /\ Len(r) = p + n
        /\ \A j \in 1 .. p + n : r[j] = IF j <= p THEN t[j] ELSE u[j - p]
    <3>1. /\ t \o u \in Seq(Nat) /\ Len(t \o u) = Len(t) + Len(u)
          /\ \A j \in 1 .. Len(t) + Len(u) :
               (t \o u)[j] = IF j <= Len(t) THEN t[j] ELSE u[j - Len(t)]
      <4>1. t \in Seq(Nat) /\ u \in Seq(Nat)
        BY <1>5
      <4> QED
        BY <4>1, ConcatProperties
    <3> QED
      BY <1>2, <1>5, <3>1
  <2>2. r \in [1 .. Len(r) -> Nat]
    BY <2>1
  <2> QED
    BY <2>1, <2>2
<1>7. ASSUME NEW c \in 1 .. m + 1, NEW k \in 1 .. n
      PROVE  r[Place(c, n, k)] = a[c][k]
  <2>1. CASE c = m + 1
    <3>1. Place(c, n, k) = p + k
      BY <1>4, <2>1 DEF Place
    <3>2. p + k \in 1 .. p + n /\ ~ (p + k <= p) /\ p + k - p = k
      OBVIOUS
    <3> QED
      BY <1>1, <1>6, <2>1, <3>1, <3>2
  <2>2. CASE c \in 1 .. m
    <3>1. PICK j \in Nat : j = (c - 1) * n
      BY <2>2, ArraysBehind
    <3>2. j + n <= p
      BY <1>3, <2>2, <3>1, ArraysBehind
    <3>3. j + k \in 1 .. p + n /\ j + k <= p
      BY <3>2
    <3>4. Place(c, n, k) = j + k
      BY <3>1 DEF Place
    <3>5. t[j + k] = a[c][k]
      BY <2>2, <3>4 DEF Flat
    <3> QED
      BY <1>6, <3>3, <3>4, <3>5
  <2> QED
    BY <2>1, <2>2
<1> QED
  BY <1>1, <1>2, <1>4, <1>6, <1>7 DEF Flat

\* FlattenSeq is defined by recursion over the arrays.
IsFlatten(g, a, m) ==
  /\ DOMAIN g = 1 .. m
  /\ \A i \in 1 .. m : g[i] = IF i = 1 THEN a[i] ELSE g[i - 1] \o a[i]

LEMMA FlattenExists ==
  ASSUME NEW a
  PROVE  \A m \in Nat : \E g : IsFlatten(g, a, m)
<1> DEFINE N == {m \in Nat : \E g : IsFlatten(g, a, m)}
<1>1. 0 \in N
  <2>1. IsFlatten([i \in 1 .. 0 |-> a[i]], a, 0)
    BY DEF IsFlatten
  <2> QED
    BY <2>1
<1>2. ASSUME NEW m \in Nat, m \in N PROVE m + 1 \in N
  <2>1. PICK g : IsFlatten(g, a, m)
    BY <1>2
  <2>2. PICK h : h = [i \in 1 .. m + 1 |-> IF i <= m THEN g[i]
                       ELSE IF i = 1 THEN a[i] ELSE g[m] \o a[i]]
    OBVIOUS
  <2>3. ASSUME NEW i \in 1 .. m + 1
        PROVE  h[i] = IF i = 1 THEN a[i] ELSE h[i - 1] \o a[i]
    <3>1. CASE i \in 1 .. m
      <4>1. h[i] = g[i] /\ (i # 1 => h[i - 1] = g[i - 1])
        BY <2>2, <3>1
      <4> QED
        BY <2>1, <3>1, <4>1 DEF IsFlatten
    <3>2. CASE i = m + 1
      <4>1. h[i] = IF i = 1 THEN a[i] ELSE g[m] \o a[i]
        BY <2>2, <3>2
      <4>2. i # 1 => h[i - 1] = g[m]
        BY <2>2, <3>2
      <4> QED
        BY <4>1, <4>2
    <3> QED
      BY <3>1, <3>2
  <2>4. IsFlatten(h, a, m + 1)
    BY <2>2, <2>3 DEF IsFlatten
  <2> QED
    BY <2>4
<1> HIDE DEF N
<1>3. \A m \in Nat : m \in N
  BY <1>1, <1>2, NumberInduction
<1> QED
  BY <1>3 DEF N

\* So FlattenSeq puts the arrays behind each other.
LEMMA FlattenFlat ==
  ASSUME NEW n \in Nat, NEW m \in Nat \ {0}, NEW a \in [1 .. m -> [1 .. n -> Nat]]
  PROVE  Flat(FlattenSeq(a), a, m, n)
<1> DEFINE def(i) == [k \in 1 .. Len(a) |-> IF k = 1 THEN a[k] ELSE i[k - 1] \o a[k]]
           flatten == CHOOSE i : i = def(i)
<1>1. Len(a) = m
  OBVIOUS
<1>2. FlattenSeq(a) = flatten[m]
  <2>1. Len(a) # 0
    BY <1>1
  <2>2. FlattenSeq(a) = flatten[Len(a)]
    BY <2>1, Zenon DEF FlattenSeq
  <2> QED
    BY <1>1, <2>2
<1>3. flatten = def(flatten)
  <2>1. PICK g : IsFlatten(g, a, m)
    BY FlattenExists
  <2>2. PICK r : r = [i \in 1 .. m |-> g[i]]
    OBVIOUS
  <2>3. ASSUME NEW k \in 1 .. m
        PROVE  r[k] = IF k = 1 THEN a[k] ELSE r[k - 1] \o a[k]
    <3>1. r[k] = g[k] /\ (k # 1 => r[k - 1] = g[k - 1])
      BY <2>2
    <3> QED
      BY <2>1, <3>1 DEF IsFlatten
  <2>4. r = def(r)
    <3>1. r = [k \in 1 .. m |-> r[k]]
      BY <2>2
    <3> QED
      BY <1>1, <2>3, <3>1
  <2> HIDE DEF def
  <2> QED
    BY <2>4
<1>4. IsFlatten(flatten, a, m)
  <2> HIDE DEF flatten
  <2> QED
    BY <1>1, <1>3 DEF IsFlatten
<1> HIDE DEF flatten
<1> DEFINE N == {i \in Nat : i + 1 \in 1 .. m => Flat(flatten[i + 1], a, i + 1, n)}
<1>5. 0 \in N
  <2>1. flatten[1] = a[1] /\ a[1] \in [1 .. n -> Nat]
    <3>1. 1 \in 1 .. m
      OBVIOUS
    <3> QED
      BY <1>4, <3>1 DEF IsFlatten
  <2>2. Flat(a[1], a, 1, n)
    <3>1. 1 * n = n /\ \A c \in 1 .. 1 : c = 1 /\ (c - 1) * n = 0
      OBVIOUS
    <3>2. \A c \in 1 .. 1, k \in 1 .. n : Place(c, n, k) = k
      BY <3>1 DEF Place
    <3> QED
      BY <2>1, <3>1, <3>2 DEF Flat
  <2>3. 0 + 1 = 1
    OBVIOUS
  <2> QED
    BY <2>1, <2>2, <2>3
<1>6. ASSUME NEW i \in Nat, i \in N PROVE i + 1 \in N
  <2>1. ASSUME (i + 1) + 1 \in 1 .. m
        PROVE  Flat(flatten[(i + 1) + 1], a, (i + 1) + 1, n)
    <3>1. PICK j \in Nat \ {0} : j = i + 1
      OBVIOUS
    <3>2. j \in 1 .. m /\ j + 1 \in 1 .. m /\ j + 1 # 1 /\ (j + 1) - 1 = j
      BY <2>1, <3>1
    <3>3. Flat(flatten[j], a, j, n)
      BY <1>6, <3>1, <3>2
    <3>4. flatten[j + 1] = flatten[j] \o a[j + 1]
      BY <1>4, <3>2 DEF IsFlatten
    <3>5. a[j + 1] \in [1 .. n -> Nat]
      BY <3>2
    <3>6. Flat(flatten[j + 1], a, j + 1, n)
      BY <3>3, <3>4, <3>5, FlatAppend
    <3> QED
      BY <3>1, <3>6
  <2>2. i + 1 \in Nat
    OBVIOUS
  <2> QED
    BY <2>1, <2>2
<1> HIDE DEF N
<1>7. \A i \in Nat : i \in N
  BY <1>5, <1>6, NumberInduction
<1>8. m - 1 \in N /\ (m - 1) + 1 = m /\ m \in 1 .. m
  BY <1>7
<1>9. Flat(flatten[m], a, m, n)
  BY <1>8 DEF N
<1> QED
  BY <1>2, <1>9

\* Each place of an array of a is one of t.
LEMMA FlatPlace ==
  ASSUME NEW n \in Nat \ {0}, NEW m \in Nat \ {0}, NEW c \in 1 .. m, NEW k \in 1 .. n
  PROVE  Place(c, n, k) \in 1 .. m * n
<1>1. PICK p \in Nat, q \in Nat : p = (c - 1) * n /\ q = m * n
  BY ArraysBehind
<1>2. p + n <= q
  BY <1>1, ArraysBehind
<1> QED
  BY <1>1, <1>2 DEF Place

\* Each place of t is one of an array of a.
LEMMA FlatPlaceOf ==
  ASSUME NEW n \in Nat \ {0}, NEW m \in Nat \ {0}, NEW j \in 1 .. m * n
  PROVE  \E c \in 1 .. m, k \in 1 .. n : j = Place(c, n, k)
<1>1. PICK i \in Nat : i = j - 1
  OBVIOUS
<1>9. (i % n) \in 0 .. n - 1 /\ i \div n \in Int /\ i = (n * (i \div n)) + (i % n)
  BY Division
<1>10. PICK r \in 0 .. n - 1 : r = i % n
  BY <1>9
<1>11. PICK b \in Int : b = i \div n
  BY <1>9
<1>2. i = (n * b) + r
  BY <1>9, <1>10, <1>11
<1>3. PICK c \in Int : c = b + 1
  BY <1>2
<1>4. 0 < c
  <2> SUFFICES ASSUME b <= -1 PROVE FALSE
    BY <1>2, <1>3
  <2>1. PICK d \in Nat : d = -1 - b
    BY <1>2
  <2>2. n * b = -(n * d) - n /\ n * d \in Nat
    BY <1>2, <2>1
  <2> QED
    BY <1>1, <1>2, <2>2
<1>5. c <= m
  <2> SUFFICES ASSUME m < c PROVE FALSE
    BY <1>3
  <2>1. PICK d \in Nat : d = b - m
    BY <1>2, <1>3
  <2>2. n * b = m * n + n * d /\ n * d \in Nat /\ m * n \in Nat
    BY <1>2, <2>1
  <2>3. j <= m * n
    OBVIOUS
  <2> QED
    BY <1>1, <1>2, <2>2, <2>3
<1>6. PICK k \in 1 .. n : k = r + 1
  BY <1>2
<1>7. (c - 1) * n = n * b
  BY <1>2, <1>3
<1>8. j = Place(c, n, k)
  BY <1>1, <1>2, <1>6, <1>7 DEF Place
<1>12. c \in 1 .. m
  BY <1>4, <1>5
<1> QED
  BY <1>8, <1>12

\* Places in t are in the order of the arrays, and of the places in each.
LEMMA FlatPlaceOrder ==
  ASSUME NEW n \in Nat \ {0}, NEW m \in Nat \ {0},
         NEW c \in 1 .. m, NEW e \in 1 .. m, NEW k \in 1 .. n, NEW l \in 1 .. n,
         Place(c, n, k) <= Place(e, n, l)
  PROVE  c < e \/ (c = e /\ k <= l)
<1>1. PICK p \in Nat, q \in Nat : p = (c - 1) * n /\ q = (e - 1) * n
  BY ArraysBehind
<1>2. CASE e < c
  <2>1. PICK d \in Nat \ {0} : d = c - 1
    BY <1>2
  <2>2. e \in 1 .. d
    BY <1>2, <2>1
  <2>3. q + n <= p
    BY <1>1, <2>1, <2>2, ArraysBehind
  <2> QED
    BY <1>1, <2>3 DEF Place
<1>3. CASE e = c
  BY <1>1, <1>3 DEF Place
<1> QED
  BY <1>2, <1>3

\* t has the items of all the arrays.
LEMMA FlatPermuted ==
  ASSUME NEW n \in Nat \ {0}, NEW m \in Nat \ {0}, NEW a \in [1 .. m -> [1 .. n -> Nat]],
         NEW t, Flat(t, a, m, n)
  PROVE  Permuted(Together(a), t)
<1>1. \A q \in Places(a) : /\ q[1] \in 1 .. m /\ q[2] \in 1 .. n /\ q = <<q[1], q[2]>>
                            /\ Together(a)[q] = a[q[1]][q[2]]
  BY PlacesOf
<1>2. \A c \in 1 .. m, k \in 1 .. n : <<c, k>> \in Places(a)
  BY PlacesOf
<1>3. /\ \A c \in 1 .. m, k \in 1 .. n : Place(c, n, k) \in 1 .. m * n
      /\ \A j \in 1 .. m * n : \E c \in 1 .. m, k \in 1 .. n : j = Place(c, n, k)
  BY FlatPlace, FlatPlaceOf
<1>4. \A c, e \in 1 .. m, k, l \in 1 .. n : Place(c, n, k) = Place(e, n, l) => c = e /\ k = l
  <2>1. ASSUME NEW c \in 1 .. m, NEW e \in 1 .. m, NEW k \in 1 .. n, NEW l \in 1 .. n,
               Place(c, n, k) = Place(e, n, l)
        PROVE  c = e /\ k = l
    <3>1. Place(c, n, k) \in 1 .. m * n /\ Place(e, n, l) \in 1 .. m * n
      BY <1>3
    <3>2. Place(c, n, k) <= Place(e, n, l) /\ Place(e, n, l) <= Place(c, n, k)
      BY <2>1, <3>1
    <3>3. (c < e \/ (c = e /\ k <= l)) /\ (e < c \/ (e = c /\ l <= k))
      BY <3>2, FlatPlaceOrder
    <3> QED
      BY <3>3
  <2> QED
    BY <2>1
<1>5. /\ DOMAIN t = 1 .. m * n
      /\ \A c \in 1 .. m, k \in 1 .. n : t[Place(c, n, k)] = a[c][k]
  BY DEF Flat
<1>6. PICK b : b = [q \in Places(a) |-> Place(q[1], n, q[2])]
  OBVIOUS
<1>7. b \in Bijection(Places(a), DOMAIN t)
  <2>1. b \in [Places(a) -> DOMAIN t]
    BY <1>1, <1>3, <1>5, <1>6
  <2>2. ASSUME NEW q \in Places(a), NEW r \in Places(a), b[q] = b[r]
        PROVE  q = r
    <3>1. q[1] = r[1] /\ q[2] = r[2]
      BY <1>1, <1>4, <1>6, <2>2
    <3> QED
      BY <1>1, <3>1
  <2>3. ASSUME NEW j \in DOMAIN t
        PROVE  \E q \in Places(a) : b[q] = j
    <3>1. PICK c \in 1 .. m, k \in 1 .. n : j = Place(c, n, k)
      BY <1>3, <1>5
    <3>2. PICK q : q = <<c, k>>
      OBVIOUS
    <3>3. q \in Places(a) /\ q[1] = c /\ q[2] = k
      BY <1>2, <3>2
    <3> QED
      BY <1>6, <3>1, <3>3
  <2> QED
    BY <2>1, <2>2, <2>3, BijectionFacts
<1>8. \A q \in Places(a) : t[b[q]] = Together(a)[q]
  BY <1>1, <1>5, <1>6
<1> QED
  BY <1>7, <1>8, PlacesOf DEF Permuted

\* It is in order if each array is, and no array begins with an item below the last one
\* of the array before.
LEMMA FlatInOrder ==
  ASSUME NEW n \in Nat \ {0}, NEW m \in Nat \ {0}, NEW a \in [1 .. m -> [1 .. n -> Nat]],
         NEW t, Flat(t, a, m, n),
         \A c \in 1 .. m : \A l \in 1 .. n : \A k \in 1 .. l : a[c][k] <= a[c][l],
         \A e \in 2 .. m : a[e - 1][n] <= a[e][1]
  PROVE  \A j \in 1 .. m * n : \A i \in 1 .. j : t[i] <= t[j]
<1>1. \A c \in 1 .. m : \A k \in 1 .. n :
        /\ a[c][1] \in Nat /\ a[c][n] \in Nat
        /\ a[c][k] \in Nat /\ a[c][1] <= a[c][k] /\ a[c][k] <= a[c][n]
  OBVIOUS
<1> DEFINE N == {d \in Nat : \A c, e \in 1 .. m :
                   e = c + 1 + d => a[c][n] <= a[e][1]}
<1>2. 0 \in N
  <2>1. ASSUME NEW c \in 1 .. m, NEW e \in 1 .. m, e = c + 1 + 0
        PROVE  a[c][n] <= a[e][1]
    <3>1. e \in 2 .. m /\ e - 1 = c
      BY <2>1
    <3> QED
      BY <3>1
  <2> QED
    BY <2>1
<1>3. ASSUME NEW d \in Nat, d \in N PROVE d + 1 \in N
  <2>1. ASSUME NEW c \in 1 .. m, NEW e \in 1 .. m, e = c + 1 + (d + 1)
        PROVE  a[c][n] <= a[e][1]
    <3>1. PICK f \in 1 .. m : e - 1 = f /\ f = c + 1 + d /\ e \in 2 .. m
      BY <2>1
    <3>2. a[c][n] <= a[f][1]
      BY <1>3, <3>1
    <3>3. a[f][n] <= a[e][1]
      BY <3>1
    <3>7. a[c][n] \in Nat /\ a[f][1] \in Nat /\ a[f][n] \in Nat /\ a[e][1] \in Nat
      BY <1>1
    <3>4. PICK w \in Nat, x \in Nat, y \in Nat, z \in Nat :
            w = a[c][n] /\ x = a[f][1] /\ y = a[f][n] /\ z = a[e][1]
      BY <3>7
    <3>5. w <= x /\ x <= y /\ y <= z
      BY <1>1, <3>2, <3>3, <3>4
    <3>6. w <= z
      BY <3>5
    <3> QED
      BY <3>4, <3>6
  <2>2. d + 1 \in Nat
    OBVIOUS
  <2> QED
    BY <2>1, <2>2
<1> HIDE DEF N
<1>4. \A d \in Nat : d \in N
  BY <1>2, <1>3, NumberInduction
<1>5. ASSUME NEW c \in 1 .. m, NEW e \in 1 .. m, c < e
      PROVE  a[c][n] <= a[e][1]
  <2>1. PICK d \in Nat : d = e - (c + 1)
    BY <1>5
  <2>2. e = c + 1 + d /\ d \in N
    BY <1>4, <2>1
  <2> QED
    BY <2>2 DEF N
<1>6. ASSUME NEW j \in 1 .. m * n, NEW i \in 1 .. j
      PROVE  t[i] <= t[j]
  <2>1. i \in 1 .. m * n
    <3>1. PICK p \in Nat : p = m * n
      OBVIOUS
    <3> QED
      BY <3>1
  <2>2. PICK c \in 1 .. m, k \in 1 .. n : i = Place(c, n, k)
    BY <2>1, FlatPlaceOf
  <2>3. PICK e \in 1 .. m, l \in 1 .. n : j = Place(e, n, l)
    BY FlatPlaceOf
  <2>4. t[i] = a[c][k] /\ t[j] = a[e][l]
    BY <2>2, <2>3 DEF Flat
  <2>5. c < e \/ (c = e /\ k <= l)
    <3>1. Place(c, n, k) <= Place(e, n, l)
      BY <2>2, <2>3
    <3> QED
      BY <3>1, FlatPlaceOrder
  <2>6. CASE c < e
    <3>1. a[c][n] <= a[e][1]
      BY <1>5, <2>6
    <3>2. a[c][k] <= a[c][n] /\ a[e][1] <= a[e][l]
      BY <1>1
    <3>6. a[c][k] \in Nat /\ a[c][n] \in Nat /\ a[e][1] \in Nat /\ a[e][l] \in Nat
      BY <1>1
    <3>3. PICK w \in Nat, x \in Nat, y \in Nat, z \in Nat :
            w = a[c][k] /\ x = a[c][n] /\ y = a[e][1] /\ z = a[e][l]
      BY <3>6
    <3>4. w <= x /\ x <= y /\ y <= z
      BY <3>1, <3>2, <3>3
    <3>5. w <= z
      BY <3>4
    <3> QED
      BY <2>4, <3>3, <3>5
  <2>7. CASE c = e /\ k <= l
    <3>1. k \in 1 .. l
      BY <2>7
    <3> QED
      BY <2>4, <2>7, <3>1
  <2> QED
    BY <2>5, <2>6, <2>7
<1> QED
  BY <1>6

-----------------------------------------------------------------------------
(* Places, order and remainders. *)

\* Every part of an array has the item of the highest place as its last.
LEMMA HighestPlace ==
  ASSUME NEW n \in Nat, NEW T \in SUBSET (1 .. n), T # {}
  PROVE  Max(T) \in T
<1>1. \A y \in T : y \in Nat /\ y <= n
  OBVIOUS
<1>2. PICK x \in T : \A y \in T : y <= x
  BY <1>1, GreatestNumber
<1>3. \E m \in T : \A y \in T : m >= y
  BY <1>1, <1>2
<1> QED
  BY <1>3 DEF Max

\* The first of some places.
LEMMA LowestPlace ==
  ASSUME NEW T \in SUBSET Nat, T # {}
  PROVE  Min(T) \in T /\ \A y \in T : Min(T) <= y
<1>1. \E x \in T : \A y \in T : x <= y
  BY LeastNumber
<1> QED
  BY <1>1 DEF Min

\* Items in order are not below any before them.
LEMMA OrderFollows ==
  ASSUME NEW n \in Nat, NEW s \in [1..n -> Nat], \A i \in 2..n : s[i - 1] <= s[i]
  PROVE  \A j \in 1..n : \A i \in 1..j : s[i] <= s[j]
<1> DEFINE S == {m \in Nat : \A j \in 1..n : j <= m => \A i \in 1..j : s[i] <= s[j]}
<1>1. 0 \in S
  OBVIOUS
<1>2. ASSUME NEW m \in Nat, m \in S
      PROVE  m + 1 \in S
  <2> SUFFICES ASSUME NEW j \in 1..n, j <= m + 1, NEW i \in 1..j
               PROVE  s[i] <= s[j]
    OBVIOUS
  <2>1. CASE j <= m
    BY <1>2, <2>1
  <2>2. CASE j = m + 1 /\ i = j
    <3>1. s[j] \in Nat
      OBVIOUS
    <3> QED
      BY <2>2, <3>1
  <2>3. CASE j = m + 1 /\ i # j
    <3>1. /\ j - 1 \in 1..n /\ j - 1 <= m /\ i \in 1..(j - 1) /\ j \in 2..n /\ i \in 1..n
      BY <2>3
    <3>2. s[i] <= s[j - 1]
      BY <1>2, <3>1
    <3>3. s[j - 1] <= s[j]
      BY <3>1
    <3>4. s[i] \in Nat /\ s[j - 1] \in Nat /\ s[j] \in Nat
      BY <3>1
    <3> QED
      BY <3>2, <3>3, <3>4
  <2> QED
    BY <2>1, <2>2, <2>3
<1>3. n \in S
  <2> HIDE DEF S
  <2> QED
    BY <1>1, <1>2, NumberInduction
<1> QED
  BY <1>3

\* Numbers with the same remainder have it after the same is taken from both.
LEMMA RemainderLess ==
  ASSUME NEW m \in Nat \ {0}, NEW a \in Int, NEW b \in Int, NEW r \in Int,
         (a + r) % m = (b + r) % m
  PROVE  a % m = b % m
<1>1. PICK x \in Int, y \in Int, z \in Int : x = a + r /\ y = b + r /\ z = 0 - r
  OBVIOUS
<1>2. /\ ((x % m) + (z % m)) % m = (x + z) % m
      /\ ((y % m) + (z % m)) % m = (y + z) % m
  BY RemainderOfSum
<1>3. x + z = a /\ y + z = b
  BY <1>1
<1>4. x % m = y % m
  BY <1>1
<1> QED
  BY <1>2, <1>3, <1>4, Zenon

-----------------------------------------------------------------------------
(* Beginnings of sequences of names. *)

LEMMA FirstNames ==
  ASSUME NEW path \in Seq(STRING), NEW l \in 0 .. Len(path)
  PROVE  /\ SubSeq(path, 1, l) \in Seq(STRING)
         /\ Len(SubSeq(path, 1, l)) = l
         /\ \A i \in 1 .. l : SubSeq(path, 1, l)[i] = path[i]
<1>1. Len(path) \in Nat
  OBVIOUS
<1>2. 1 \in Int /\ l \in Int /\ \A i \in 1 .. l : path[i] \in STRING
  BY <1>1
<1>3. /\ SubSeq(path, 1, l) \in Seq(STRING)
      /\ Len(SubSeq(path, 1, l)) = IF 1 <= l THEN l - 1 + 1 ELSE 0
      /\ \A i \in 1 .. l - 1 + 1 : SubSeq(path, 1, l)[i] = path[1 + i - 1]
  BY <1>2, SubSeqProperties
<1> QED
  BY <1>1, <1>3

LEMMA PrefixIs ==
  ASSUME NEW p \in Seq(STRING), NEW q \in Seq(STRING)
  PROVE  IsPrefix(p, q) <=> Len(p) <= Len(q) /\ \A i \in 1 .. Len(p) : p[i] = q[i]
<1>1. PICK m \in Nat, n \in Nat : m = Len(p) /\ n = Len(q)
  OBVIOUS
<1>2. SUFFICES ASSUME m <= n
               PROVE  SubSeq(p, 1, m) = SubSeq(q, 1, m) <=> \A i \in 1 .. m : p[i] = q[i]
  BY <1>1 DEF IsPrefix
<1>3. PICK a \in Seq(STRING), b \in Seq(STRING) :
        a = SubSeq(p, 1, m) /\ b = SubSeq(q, 1, m)
  <2>1. m \in 0 .. Len(p) /\ m \in 0 .. Len(q)
    BY <1>1, <1>2
  <2> QED
    BY <2>1, FirstNames
<1>4. /\ Len(a) = m /\ Len(b) = m
      /\ \A i \in 1 .. m : a[i] = p[i] /\ b[i] = q[i]
  BY <1>1, <1>2, <1>3, FirstNames
<1>5. a = b <=> \A i \in 1 .. m : a[i] = b[i]
  BY <1>4
<1> QED
  BY <1>3, <1>4, <1>5

LEMMA PrefixOfItself ==
  ASSUME NEW path \in Seq(STRING)
  PROVE  IsPrefix(path, path)
BY PrefixIs

LEMMA PrefixTrans ==
  ASSUME NEW p \in Seq(STRING), NEW q \in Seq(STRING), NEW r \in Seq(STRING),
         IsPrefix(p, q), IsPrefix(q, r)
  PROVE  IsPrefix(p, r)
<1>1. PICK l \in Nat, m \in Nat, n \in Nat : l = Len(p) /\ m = Len(q) /\ n = Len(r)
  OBVIOUS
<1>2. l <= m /\ m <= n /\ (\A i \in 1 .. l : p[i] = q[i]) /\ (\A i \in 1 .. m : q[i] = r[i])
  BY <1>1, PrefixIs
<1>3. l <= n /\ \A i \in 1 .. l : p[i] = r[i]
  BY <1>1, <1>2
<1> QED
  BY <1>1, <1>3, PrefixIs

\* A strict beginning is shorter.
LEMMA PrefixShorter ==
  ASSUME NEW p \in Seq(STRING), NEW q \in Seq(STRING), IsPrefix(p, q)
  PROVE  Len(p) <= Len(q) /\ (Len(p) = Len(q) <=> p = q)
<1>1. PICK m \in Nat, n \in Nat : m = Len(p) /\ n = Len(q)
  OBVIOUS
<1>2. m <= n /\ \A i \in 1 .. m : p[i] = q[i]
  BY <1>1, PrefixIs
<1>3. ASSUME m = n PROVE p = q
  <2>1. Len(p) = Len(q) /\ \A i \in 1 .. Len(p) : p[i] = q[i]
    BY <1>1, <1>2, <1>3
  <2> QED
    BY <2>1
<1> QED
  BY <1>1, <1>2, <1>3

LEMMA BeginningFacts ==
  ASSUME NEW path \in Seq(STRING), NEW l \in 0 .. Len(path)
  PROVE  LET p == SubSeq(path, 1, l) IN
         /\ p \in Seq(STRING) /\ Len(p) = l /\ (p = <<>> <=> l = 0)
         /\ IsPrefix(p, path)
         /\ \A k \in 0 .. l : SubSeq(p, 1, k) = SubSeq(path, 1, k)
<1>1. PICK n \in Nat : n = Len(path)
  OBVIOUS
<1>2. PICK p \in Seq(STRING) : p = SubSeq(path, 1, l)
  BY FirstNames
<1>3. Len(p) = l /\ \A i \in 1 .. l : p[i] = path[i]
  BY <1>2, FirstNames
<1>4. p = <<>> <=> l = 0
  BY <1>3
<1>5. IsPrefix(p, path)
  BY <1>1, <1>3, PrefixIs
<1>6. ASSUME NEW k \in 0 .. l PROVE SubSeq(p, 1, k) = SubSeq(path, 1, k)
  <2>1. PICK a \in Seq(STRING), b \in Seq(STRING) :
          a = SubSeq(p, 1, k) /\ b = SubSeq(path, 1, k)
    <3>1. k \in 0 .. Len(p) /\ k \in 0 .. Len(path)
      BY <1>1, <1>3
    <3> QED
      BY <3>1, FirstNames
  <2>2. Len(a) = k /\ \A i \in 1 .. k : a[i] = p[i]
    BY <1>3, <2>1, FirstNames
  <2>3. Len(b) = k /\ \A i \in 1 .. k : b[i] = path[i]
    <3>1. k \in 0 .. Len(path)
      BY <1>1
    <3> QED
      BY <2>1, <3>1, FirstNames
  <2>4. \A i \in 1 .. k : a[i] = b[i]
    BY <1>3, <2>2, <2>3
  <2>5. a = b
    BY <2>2, <2>3, <2>4
  <2> QED
    BY <2>1, <2>5
<1> QED
  BY <1>2, <1>3, <1>4, <1>5, <1>6
=============================================================================
