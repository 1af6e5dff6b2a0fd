------------------------- MODULE HistAnalyzerProofs -------------------------
(***************************************************************************)
(* Proofs about the analysis of the histograms: the ranges cut the arrays  *)
(* without a gap into equal shares, the rounds of requests end with the    *)
(* complete one, the loop always finds a cursor and always moves forward.  *)
(***************************************************************************)
EXTENDS HistAnalyzer, DataLemmas

-----------------------------------------------------------------------------
(* Sums of n integers. *)

Numbers(f, n) == DOMAIN f = 0 .. n - 1 /\ \A i \in 0 .. n - 1 : f[i] \in Int

AtMost(f, g, c, n) == \A i \in 0 .. n - 1 : f[i] <= g[i] + c

LEMMA Indexes ==
  ASSUME NEW n \in Nat
  PROVE  IsFiniteSet(0 .. n - 1) /\ Cardinality(0 .. n - 1) = n
<1>1. 0 \in Int /\ n - 1 \in Int /\ (n - 1) - 0 + 1 = n /\ (0 > n - 1 => n = 0)
  OBVIOUS
<1>2. /\ IsFiniteSet(0 .. n - 1)
      /\ Cardinality(0 .. n - 1) = IF 0 > n - 1 THEN 0 ELSE (n - 1) - 0 + 1
  BY <1>1, FS_Interval
<1> QED
  BY <1>1, <1>2

LEMMA SumNumbers ==
  ASSUME NEW n \in Nat, NEW f, Numbers(f, n)
  PROVE  /\ Summable(f, 0 .. n - 1) /\ SumFunction(f) = SumFunctionOnSet(f, 0 .. n - 1)
         /\ SumFunction(f) \in Int
<1>1. Summable(f, 0 .. n - 1) /\ SumFunction(f) = SumFunctionOnSet(f, 0 .. n - 1)
  BY Indexes DEF Numbers, Summable, SumFunction
<1>2. SumFunctionOnSet(f, 0 .. n - 1) \in Int
  BY <1>1, SumEqual
<1> QED
  BY <1>1, <1>2

\* Terms that are at most those of another sum and a constant more.
LEMMA SumOnAtMost ==
  ASSUME NEW S, NEW f, NEW g, NEW c \in Int, Summable(f, S), Summable(g, S),
         \A x \in S : f[x] <= g[x] + c
  PROVE  SumFunctionOnSet(f, S) <= SumFunctionOnSet(g, S) + Cardinality(S) * c
<1> DEFINE F == {T \in SUBSET S :
                   SumFunctionOnSet(f, T) <= SumFunctionOnSet(g, T) + Cardinality(T) * c}
<1>1. IsFiniteSet(S) /\ \A x \in S : f[x] \in Int /\ g[x] \in Int
  BY DEF Summable
<1>2. {} \in F
  <2>1. Cardinality({}) = 0 /\ SumFunctionOnSet(f, {}) = 0 /\ SumFunctionOnSet(g, {}) = 0
    BY FS_EmptySet, SumEmpty
  <2>2. 0 * c = 0
    OBVIOUS
  <2> QED
    BY <2>1, <2>2
<1>3. ASSUME NEW T \in SUBSET S, NEW x \in S, T \in F, x \notin T
      PROVE  T \cup {x} \in F
  <2>1. IsFiniteSet(T) /\ Cardinality(T) \in Nat /\ Cardinality(T \cup {x}) = Cardinality(T) + 1
    BY <1>1, <1>3, FS_Subset, FS_CardinalityType, FS_AddElement
  <2>2. /\ SumFunctionOnSet(f, T) \in Int
        /\ SumFunctionOnSet(f, T \cup {x}) = f[x] + SumFunctionOnSet(f, T)
    <3>1. Summable(f, T) /\ f[x] \in Int
      BY <1>1, <2>1 DEF Summable
    <3> QED
      BY <1>3, <3>1, SumAdd
  <2>3. /\ SumFunctionOnSet(g, T) \in Int
        /\ SumFunctionOnSet(g, T \cup {x}) = g[x] + SumFunctionOnSet(g, T)
    <3>1. Summable(g, T) /\ g[x] \in Int
      BY <1>1, <2>1 DEF Summable
    <3> QED
      BY <1>3, <3>1, SumAdd
  <2>4. SumFunctionOnSet(f, T) <= SumFunctionOnSet(g, T) + Cardinality(T) * c
    BY <1>3
  <2>5. PICK a \in Int, b \in Int, k \in Nat, p \in Int, q \in Int :
          /\ a = SumFunctionOnSet(f, T) /\ b = SumFunctionOnSet(g, T) /\ k = Cardinality(T)
          /\ p = f[x] /\ q = g[x]
    BY <1>1, <2>1, <2>2, <2>3
  <2>6. p <= q + c
    BY <2>5
  <2>7. a <= b + k * c
    BY <2>4, <2>5
  <2>8. (k + 1) * c = k * c + c /\ k * c \in Int
    OBVIOUS
  <2>9. p + a <= (q + b) + (k + 1) * c
    BY <2>6, <2>7, <2>8
  <2> HIDE DEF F
  <2>10. SumFunctionOnSet(f, T \cup {x})
          <= SumFunctionOnSet(g, T \cup {x}) + Cardinality(T \cup {x}) * c
    BY <2>1, <2>2, <2>3, <2>5, <2>9
  <2> QED
    BY <2>10 DEF F
<1> HIDE DEF F
<1>4. S \in F
  BY <1>1, <1>2, <1>3, SetInduction
<1> QED
  BY <1>4 DEF F

LEMMA SumAtMost ==
  ASSUME NEW n \in Nat, NEW f, NEW g, NEW c \in Int, Numbers(f, n), Numbers(g, n),
         AtMost(f, g, c, n)
  PROVE  SumFunction(f) <= SumFunction(g) + n * c
<1>1. Summable(f, 0 .. n - 1) /\ SumFunction(f) = SumFunctionOnSet(f, 0 .. n - 1)
  BY SumNumbers
<1>2. Summable(g, 0 .. n - 1) /\ SumFunction(g) = SumFunctionOnSet(g, 0 .. n - 1)
  BY SumNumbers
<1>3. \A x \in 0 .. n - 1 : f[x] <= g[x] + c
  BY DEF AtMost
<1>4. SumFunctionOnSet(f, 0 .. n - 1)
       <= SumFunctionOnSet(g, 0 .. n - 1) + Cardinality(0 .. n - 1) * c
  BY <1>1, <1>2, <1>3, SumOnAtMost
<1> QED
  BY <1>1, <1>2, <1>4, Indexes

\* The same, with one term that is c less.
LEMMA SumOnOneMore ==
  ASSUME NEW S, NEW f, NEW g, NEW c \in Int, Summable(f, S), Summable(g, S),
         \A x \in S : f[x] <= g[x], NEW y \in S, f[y] + c <= g[y]
  PROVE  SumFunctionOnSet(f, S) + c <= SumFunctionOnSet(g, S)
<1>1. IsFiniteSet(S \ {y}) /\ \A x \in S : f[x] \in Int /\ g[x] \in Int
  BY FS_Subset DEF Summable
<1>2. Summable(f, S \ {y}) /\ Summable(g, S \ {y})
  BY <1>1 DEF Summable
<1>3. \A x \in S \ {y} : f[x] <= g[x] + 0
  BY <1>1
<1>4. SumFunctionOnSet(f, S \ {y})
       <= SumFunctionOnSet(g, S \ {y}) + Cardinality(S \ {y}) * 0
  BY <1>2, <1>3, SumOnAtMost
<1>5. PICK k \in Nat : k = Cardinality(S \ {y})
  BY <1>1, FS_CardinalityType
<1>6. k * 0 = 0
  OBVIOUS
<1>7. /\ SumFunctionOnSet(f, S \ {y}) \in Int
      /\ SumFunctionOnSet(f, S) = f[y] + SumFunctionOnSet(f, S \ {y})
  BY SumRemove
<1>8. /\ SumFunctionOnSet(g, S \ {y}) \in Int
      /\ SumFunctionOnSet(g, S) = g[y] + SumFunctionOnSet(g, S \ {y})
  BY SumRemove
<1>9. PICK a \in Int, b \in Int, p \in Int, q \in Int :
        /\ a = SumFunctionOnSet(f, S \ {y}) /\ b = SumFunctionOnSet(g, S \ {y})
        /\ p = f[y] /\ q = g[y]
  BY <1>1, <1>7, <1>8
<1>10. a <= b + 0
  BY <1>4, <1>5, <1>6, <1>9
<1>11. (p + a) + c <= q + b
  BY <1>9, <1>10
<1> QED
  BY <1>7, <1>8, <1>9, <1>11

LEMMA SumOneMore ==
  ASSUME NEW n \in Nat, NEW f, NEW g, NEW c \in Int, Numbers(f, n), Numbers(g, n),
         AtMost(f, g, 0, n), NEW y \in 0 .. n - 1, f[y] + c <= g[y]
  PROVE  SumFunction(f) + c <= SumFunction(g)
<1>1. Summable(f, 0 .. n - 1) /\ SumFunction(f) = SumFunctionOnSet(f, 0 .. n - 1)
  BY SumNumbers
<1>2. Summable(g, 0 .. n - 1) /\ SumFunction(g) = SumFunctionOnSet(g, 0 .. n - 1)
  BY SumNumbers
<1>3. \A x \in 0 .. n - 1 : f[x] <= g[x]
  BY DEF AtMost, Numbers
<1> QED
  BY <1>1, <1>2, <1>3, SumOnOneMore

LEMMA SumTwoMore ==
  ASSUME NEW n \in Nat, NEW f, NEW g, NEW c \in Int, Numbers(f, n), Numbers(g, n),
         AtMost(f, g, 0, n), NEW y \in 0 .. n - 1, NEW z \in 0 .. n - 1, y # z,
         f[y] + c <= g[y], f[z] + c <= g[z]
  PROVE  (SumFunction(f) + c) + c <= SumFunction(g)
<1> DEFINE S == 0 .. n - 1
<1>1. Summable(f, S) /\ SumFunction(f) = SumFunctionOnSet(f, S)
  BY SumNumbers
<1>2. Summable(g, S) /\ SumFunction(g) = SumFunctionOnSet(g, S)
  BY SumNumbers
<1>3. \A x \in S : f[x] <= g[x] /\ f[x] \in Int /\ g[x] \in Int
  BY DEF AtMost, Numbers
<1> HIDE DEF S
<1>4. Summable(f, S \ {y}) /\ Summable(g, S \ {y}) /\ z \in S \ {y} /\ y \in S
  <2>1. IsFiniteSet(S \ {y})
    BY <1>1, FS_Subset DEF Summable
  <2> QED
    BY <1>3, <2>1 DEF Summable, S
<1>5. SumFunctionOnSet(f, S \ {y}) + c <= SumFunctionOnSet(g, S \ {y})
  BY <1>3, <1>4, SumOnOneMore
<1>7. /\ SumFunctionOnSet(f, S \ {y}) \in Int
      /\ SumFunctionOnSet(f, S) = f[y] + SumFunctionOnSet(f, S \ {y})
  BY <1>1, <1>4, SumRemove
<1>8. /\ SumFunctionOnSet(g, S \ {y}) \in Int
      /\ SumFunctionOnSet(g, S) = g[y] + SumFunctionOnSet(g, S \ {y})
  BY <1>2, <1>4, SumRemove
<1>9. PICK a \in Int, b \in Int, p \in Int, q \in Int :
        /\ a = SumFunctionOnSet(f, S \ {y}) /\ b = SumFunctionOnSet(g, S \ {y})
        /\ p = f[y] /\ q = g[y]
  BY <1>3, <1>4, <1>7, <1>8
<1>10. a + c <= b /\ p + c <= q
  BY <1>5, <1>9
<1>11. ((p + a) + c) + c <= q + b
  BY <1>9, <1>10
<1> QED
  BY <1>1, <1>2, <1>7, <1>8, <1>9, <1>11

\* Sums that differ in one term.
LEMMA SumChanged ==
  ASSUME NEW n \in Nat, NEW f, NEW g, Numbers(f, n), Numbers(g, n),
         NEW y \in 0 .. n - 1, \A i \in (0 .. n - 1) \ {y} : g[i] = f[i],
         NEW c \in Int, g[y] = f[y] + c
  PROVE  SumFunction(g) = SumFunction(f) + c
<1> DEFINE S == 0 .. n - 1
<1>1. Summable(f, S) /\ SumFunction(f) = SumFunctionOnSet(f, S)
  BY SumNumbers
<1>2. Summable(g, S) /\ SumFunction(g) = SumFunctionOnSet(g, S)
  BY SumNumbers
<1>3. /\ SumFunctionOnSet(f, S \ {y}) \in Int
      /\ SumFunctionOnSet(f, S) = f[y] + SumFunctionOnSet(f, S \ {y})
  BY <1>1, SumRemove
<1>4. SumFunctionOnSet(g, S) = g[y] + SumFunctionOnSet(g, S \ {y})
  BY <1>2, SumRemove
<1>5. SumFunctionOnSet(g, S \ {y}) = SumFunctionOnSet(f, S \ {y})
  <2>1. Summable(f, S \ {y})
    BY <1>1, FS_Subset DEF Summable
  <2> QED
    BY <2>1, SumEqual
<1>6. f[y] \in Int
  BY DEF Numbers
<1> HIDE DEF S
<1>7. PICK a \in Int, p \in Int : a = SumFunctionOnSet(f, S \ {y}) /\ p = f[y]
  BY <1>3, <1>6
<1>8. (p + c) + a = (p + a) + c
  OBVIOUS
<1> QED
  BY <1>1, <1>2, <1>3, <1>4, <1>5, <1>7, <1>8

\* The sum of differences.
LEMMA SumMinus ==
  ASSUME NEW n \in Nat, NEW f, NEW g, NEW h, Numbers(f, n), Numbers(g, n), Numbers(h, n),
         \A i \in 0 .. n - 1 : h[i] = f[i] - g[i]
  PROVE  SumFunction(h) = SumFunction(f) - SumFunction(g)
<1> DEFINE S == 0 .. n - 1
           F == {T \in SUBSET S : SumFunctionOnSet(h, T)
                   = SumFunctionOnSet(f, T) - SumFunctionOnSet(g, T)}
<1>1. /\ SumFunction(f) = SumFunctionOnSet(f, S)
      /\ SumFunction(g) = SumFunctionOnSet(g, S)
      /\ SumFunction(h) = SumFunctionOnSet(h, S)
  BY SumNumbers
<1>2. IsFiniteSet(S) /\ \A x \in S : f[x] \in Int /\ g[x] \in Int /\ h[x] = f[x] - g[x]
  BY Indexes DEF Numbers
<1> HIDE DEF S
<1>3. {} \in F
  BY SumEmpty
<1>4. ASSUME NEW T \in SUBSET S, NEW x \in S, T \in F, x \notin T
      PROVE  T \cup {x} \in F
  <2>1. Summable(f, T) /\ Summable(g, T) /\ Summable(h, T)
        /\ f[x] \in Int /\ g[x] \in Int /\ h[x] \in Int
    BY <1>2, FS_Subset DEF Summable
  <2>2. /\ SumFunctionOnSet(f, T) \in Int
        /\ SumFunctionOnSet(f, T \cup {x}) = f[x] + SumFunctionOnSet(f, T)
    BY <1>4, <2>1, SumAdd
  <2>3. /\ SumFunctionOnSet(g, T) \in Int
        /\ SumFunctionOnSet(g, T \cup {x}) = g[x] + SumFunctionOnSet(g, T)
    BY <1>4, <2>1, SumAdd
  <2>4. /\ SumFunctionOnSet(h, T) \in Int
        /\ SumFunctionOnSet(h, T \cup {x}) = h[x] + SumFunctionOnSet(h, T)
    BY <1>4, <2>1, SumAdd
  <2>5. SumFunctionOnSet(h, T) = SumFunctionOnSet(f, T) - SumFunctionOnSet(g, T)
    BY <1>4
  <2>6. h[x] = f[x] - g[x]
    BY <1>2
  <2>7. PICK a \in Int, b \in Int, p \in Int, q \in Int :
          /\ a = SumFunctionOnSet(f, T) /\ b = SumFunctionOnSet(g, T)
          /\ p = f[x] /\ q = g[x]
    BY <2>1, <2>2, <2>3
  <2>8. (p - q) + (a - b) = (p + a) - (q + b)
    OBVIOUS
  <2> HIDE DEF F
  <2>9. SumFunctionOnSet(h, T \cup {x})
          = SumFunctionOnSet(f, T \cup {x}) - SumFunctionOnSet(g, T \cup {x})
    BY <2>2, <2>3, <2>4, <2>5, <2>6, <2>7, <2>8
  <2> QED
    BY <2>9 DEF F
<1> HIDE DEF F
<1>5. S \in F
  BY <1>2, <1>3, <1>4, SetInduction
<1> QED
  BY <1>1, <1>5 DEF F

\* The sum of equal terms.
LEMMA SumConstant ==
  ASSUME NEW n \in Nat, NEW f, NEW c \in Int, DOMAIN f = 0 .. n - 1,
         \A i \in 0 .. n - 1 : f[i] = c
  PROVE  SumFunction(f) = n * c
<1> DEFINE S == 0 .. n - 1
           F == {T \in SUBSET S : SumFunctionOnSet(f, T) = Cardinality(T) * c}
<1>1. IsFiniteSet(S) /\ Cardinality(S) = n /\ SumFunction(f) = SumFunctionOnSet(f, S)
  BY Indexes DEF SumFunction
<1>2. \A x \in S : f[x] = c
  OBVIOUS
<1> HIDE DEF S
<1>3. {} \in F
  <2>1. Cardinality({}) = 0 /\ SumFunctionOnSet(f, {}) = 0 /\ 0 * c = 0
    BY FS_EmptySet, SumEmpty
  <2> QED
    BY <2>1
<1>4. ASSUME NEW T \in SUBSET S, NEW x \in S, T \in F, x \notin T
      PROVE  T \cup {x} \in F
  <2>1. IsFiniteSet(T) /\ Cardinality(T) \in Nat /\ Cardinality(T \cup {x}) = Cardinality(T) + 1
    BY <1>1, <1>4, FS_Subset, FS_CardinalityType, FS_AddElement
  <2>2. SumFunctionOnSet(f, T \cup {x}) = f[x] + SumFunctionOnSet(f, T)
    <3>1. Summable(f, T) /\ f[x] \in Int
      BY <1>2, <2>1 DEF Summable
    <3> QED
      BY <1>4, <3>1, SumAdd
  <2>3. PICK k \in Nat : k = Cardinality(T)
    BY <2>1
  <2>4. (k + 1) * c = c + k * c
    OBVIOUS
  <2>5. SumFunctionOnSet(f, T) = k * c /\ f[x] = c
    BY <1>2, <1>4, <2>3
  <2> HIDE DEF F
  <2>6. SumFunctionOnSet(f, T \cup {x}) = Cardinality(T \cup {x}) * c
    BY <2>1, <2>2, <2>3, <2>4, <2>5
  <2> QED
    BY <2>6 DEF F
<1> HIDE DEF F
<1>5. S \in F
  BY <1>1, <1>3, <1>4, SetInduction
<1> QED
  BY <1>1, <1>5 DEF F

-----------------------------------------------------------------------------
(* Multiples of the step. *)

Aligned(p) == p % Step = 0

\* The next multiple of the step, p itself if it is one.
Up(p) == p + ((0 - p) % Step)

LEMMA StepType == Step \in Nat /\ Step \in Nat \ {0} /\ Step >= 2
BY AnalyzerAssumption

LEMMA AlignedTimes ==
  ASSUME NEW p \in Int
  PROVE  Aligned(p) <=> \E k \in Int : p = Step * k
<1>1. ASSUME Aligned(p) PROVE \E k \in Int : p = Step * k
  <2>1. p \div Step \in Int /\ p = (Step * (p \div Step)) + (p % Step)
    BY StepType, Division
  <2>2. PICK k \in Int : k = p \div Step
    BY <2>1
  <2>3. Step * k \in Int
    BY StepType
  <2>4. p = Step * k
    BY <1>1, <2>1, <2>2, <2>3 DEF Aligned
  <2> QED
    BY <2>4
<1>2. ASSUME NEW k \in Int, p = Step * k PROVE Aligned(p)
  <2>1. 0 \in 0 .. Step - 1
    BY StepType
  <2>2. p = (Step * k) + 0
    BY <1>2
  <2> QED
    BY <2>1, <2>2, StepType, Remainder DEF Aligned
<1> QED
  BY <1>1, <1>2

\* Sums and differences of multiples are multiples, and differ by a step at least.
LEMMA AlignedPair ==
  ASSUME NEW p \in Int, NEW q \in Int, Aligned(p), Aligned(q)
  PROVE  Aligned(p + q) /\ Aligned(p - q) /\ (p < q => p + Step <= q)
<1>1. PICK k \in Int : p = Step * k
  BY AlignedTimes
<1>2. PICK l \in Int : q = Step * l
  BY AlignedTimes
<1>3. p + q = Step * (k + l) /\ p - q = Step * (k - l)
  BY <1>1, <1>2, StepType
<1>4. Aligned(p + q) /\ Aligned(p - q)
  <2>1. p + q \in Int /\ p - q \in Int /\ k + l \in Int /\ k - l \in Int
    OBVIOUS
  <2> QED
    BY <1>3, <2>1, AlignedTimes
<1>5. ASSUME p < q PROVE p + Step <= q
  <2>1. k < l
    <3> SUFFICES ASSUME l <= k PROVE FALSE
      OBVIOUS
    <3>1. PICK d \in Nat : k = l + d
      BY k - l \in Nat
    <3>2. Step * k = Step * l + Step * d /\ Step * d \in Nat /\ Step * l \in Int
      BY <3>1, StepType
    <3> QED
      BY <1>1, <1>2, <1>5, <3>2
  <2>2. PICK d \in Nat : l = k + 1 + d
    BY <2>1, l - k - 1 \in Nat
  <2>3. Step * l = Step * k + Step + Step * d /\ Step * d \in Nat /\ Step * k \in Int
    BY <2>2, StepType
  <2> QED
    BY <1>1, <1>2, <2>3, StepType
<1> QED
  BY <1>4, <1>5

LEMMA AlignedBasic ==
  /\ Aligned(0) /\ Aligned(Step)
  /\ \A k \in Int : Aligned(k * Step) /\ k * Step \in Int /\ (k + 1) * Step = k * Step + Step
  /\ \A k \in Nat : k * Step \in Nat
<1>1. ASSUME NEW k \in Int
      PROVE  Aligned(k * Step) /\ k * Step \in Int /\ (k + 1) * Step = k * Step + Step
  <2>1. k * Step \in Int /\ k * Step = Step * k /\ (k + 1) * Step = k * Step + Step
    BY StepType
  <2> QED
    BY <2>1, AlignedTimes
<1>2. 0 = Step * 0 /\ Step = Step * 1
  BY StepType
<1>3. \A k \in Nat : k * Step \in Nat
  BY StepType
<1>4. Aligned(0) /\ Aligned(Step)
  BY <1>2, StepType, AlignedTimes
<1> QED
  BY <1>1, <1>3, <1>4

\* Blocks are in the order of their numbers.
LEMMA BlockOrder ==
  ASSUME NEW k \in Int, NEW l \in Int
  PROVE  /\ k < l => k * Step + Step <= l * Step
         /\ k <= l => k * Step <= l * Step
         /\ k * Step <= l * Step => k <= l
<1>1. ASSUME NEW a \in Int, NEW b \in Int, a < b PROVE a * Step + Step <= b * Step
  <2>1. PICK d \in Nat : b = a + 1 + d
    BY <1>1, b - a - 1 \in Nat
  <2>2. b * Step = a * Step + Step + d * Step /\ d * Step \in Nat /\ a * Step \in Int
    BY <2>1, StepType
  <2> QED
    BY <2>2, StepType
<1>2. k * Step \in Int /\ l * Step \in Int
  BY StepType
<1>3. k < l => k * Step + Step <= l * Step
  BY <1>1
<1>4. k <= l => k * Step <= l * Step
  <2>1. k = l => k * Step = l * Step
    OBVIOUS
  <2> QED
    BY <1>2, <1>3, <2>1, StepType
<1>5. l < k => l * Step + Step <= k * Step
  BY <1>1
<1> QED
  BY <1>2, <1>3, <1>4, <1>5, StepType

LEMMA UpFacts ==
  ASSUME NEW p \in Int
  PROVE  /\ Up(p) \in Int /\ p <= Up(p) /\ Up(p) <= p + (Step - 1)
         /\ Aligned(p) => Up(p) = p
         /\ ~ Aligned(p) => Up(p + 1) = Up(p)
<1>1. PICK q \in Int : q = (0 - p) \div Step
  BY StepType, Division
<1>2. PICK r \in 0 .. Step - 1 : r = (0 - p) % Step
  BY StepType, Division
<1>3. 0 - p = (Step * q) + r
  BY <1>1, <1>2, StepType, Division
<1>4. Up(p) = p + r
  BY <1>2 DEF Up
<1>5. Up(p) \in Int /\ p <= Up(p) /\ Up(p) <= p + (Step - 1)
  BY <1>4, StepType
<1>6. ASSUME Aligned(p) PROVE Up(p) = p
  <2>1. PICK k \in Int : p = Step * k
    BY <1>6, AlignedTimes
  <2>2. PICK j \in Int : j = 0 - k
    OBVIOUS
  <2>3. 0 - p = (Step * j) + 0 /\ 0 - p \in Int
    BY <2>1, <2>2, StepType
  <2>4. 0 \in 0 .. Step - 1
    BY StepType
  <2>5. (0 - p) % Step = 0
    BY <2>3, <2>4, StepType, Remainder
  <2>6. r = 0
    BY <1>2, <2>5
  <2> QED
    BY <1>4, <2>6
<1>7. ASSUME ~ Aligned(p) PROVE Up(p + 1) = Up(p)
  <2>1. r # 0
    <3> SUFFICES ASSUME r = 0 PROVE FALSE
      OBVIOUS
    <3>1. PICK j \in Int : j = 0 - q
      OBVIOUS
    <3>2. p = Step * j
      BY <1>3, <3>1, StepType
    <3> QED
      BY <1>7, <3>2, AlignedTimes
  <2>2. PICK t \in 0 .. Step - 1 : t = r - 1
    BY <2>1, StepType
  <2>3. PICK z \in Int : z = 0 - (p + 1)
    OBVIOUS
  <2>4. Step * q \in Int
    BY StepType
  <2>5. z = (Step * q) + t
    BY <1>3, <2>2, <2>3, <2>4
  <2>6. z % Step = t
    BY <2>5, StepType, Remainder
  <2>7. Up(p + 1) = (p + 1) + t
    BY <2>3, <2>6 DEF Up
  <2> QED
    BY <1>4, <2>2, <2>7
<1> QED
  BY <1>5, <1>6, <1>7

\* The sum of multiples.
LEMMA SumAligned ==
  ASSUME NEW n \in Nat, NEW f, Numbers(f, n), \A i \in 0 .. n - 1 : Aligned(f[i])
  PROVE  Aligned(SumFunction(f))
<1> DEFINE g == [i \in 0 .. n - 1 |-> 0]
<1>1. \A i \in 0 .. n - 1 : g[i] = 0
  OBVIOUS
<1>2. DOMAIN g = 0 .. n - 1
  OBVIOUS
<1> HIDE DEF g
<1>3. Numbers(g, n)
  BY <1>1, <1>2 DEF Numbers
<1>4. SumFunction(g) = n * 0
  BY <1>1, <1>2, SumConstant
<1>5. SumFunctionOnSet(g, 0 .. n - 1) = 0
  <2>1. n * 0 = 0
    OBVIOUS
  <2> QED
    BY <1>3, <1>4, <2>1, SumNumbers
<1>6. /\ Summable(f, 0 .. n - 1) /\ SumFunction(f) = SumFunctionOnSet(f, 0 .. n - 1)
      /\ Summable(g, 0 .. n - 1)
  BY <1>3, SumNumbers
<1>7. \A x \in 0 .. n - 1 : f[x] % Step = g[x] % Step
  <2>1. 0 % Step = 0
    BY AlignedBasic DEF Aligned
  <2> QED
    BY <1>1, <2>1 DEF Aligned
<1>8. SumFunctionOnSet(f, 0 .. n - 1) % Step = SumFunctionOnSet(g, 0 .. n - 1) % Step
  BY <1>6, <1>7, StepType, SumRemainder
<1>9. 0 % Step = 0
  BY AlignedBasic DEF Aligned
<1> QED
  BY <1>5, <1>6, <1>8, <1>9 DEF Aligned

-----------------------------------------------------------------------------
(* A worker: n sources of m items each. *)

Frame(n, m) == n \in Nat \ {0} /\ m \in Nat \ {0} /\ Aligned(m) /\ n * Step <= m

\* Where the coarse item at the cursor begins.
Start(w) == w.end_hist * Step

Blocks(m) == m \div Step

CoarseHist(h, m) ==
  /\ DOMAIN h = 0 .. Blocks(m) - 1
  /\ \A k \in 0 .. Blocks(m) - 1 :
       /\ h[k].item_index = k * Step
       /\ h[k].last_item_index = k * Step + Step - 1
       /\ h[k].item \in Nat

\* A detailed histogram of s items begins at the coarse cursor and is a step for
\* every source long, if the array does not end before.
DetailOf(w, s, n, m) ==
  /\ s \in Nat \ {0} /\ DOMAIN w.detail = 0 .. s - 1
  /\ \A k \in 0 .. s - 1 : w.detail[k].item_index = Start(w) + k /\ w.detail[k].item \in Nat
  /\ Aligned(s) /\ Start(w) + s <= m
  /\ s = n * Step \/ Start(w) + s = m
  /\ w.end_detail \in 0 .. s - 1
  /\ w.begin_detail \in 0 .. w.end_detail
  /\ w.complete => w.end_detail = s - 1

\* The range begins at a coarse item up to the cursor, or in a detail before it.
Before(w) == w.begin_hist \in 0 .. w.end_hist /\ w.begin_offset \in 0 .. w.begin_hist * Step

IsWorker(w) ==
  w = [hist |-> w.hist, detail |-> w.detail, begin_offset |-> w.begin_offset,
       begin_hist |-> w.begin_hist, end_hist |-> w.end_hist,
       begin_detail |-> w.begin_detail, end_detail |-> w.end_detail,
       complete |-> w.complete]

WorkerOK(w, n, m) ==
  /\ IsWorker(w)
  /\ CoarseHist(w.hist, m)
  /\ w.end_hist \in 0 .. Blocks(m) - 1
  /\ w.complete \in BOOLEAN
  /\ w.detail = None => ~ w.complete /\ Before(w)
  /\ w.detail # None => DetailOf(w, Size(w.detail), n, m)

\* A detailed histogram that was kept for the next destination, and one that was
\* asked for the destination at hand.
Kept(w) == w.detail # None =>
  /\ w.begin_hist = -1 /\ w.begin_offset = 0
  /\ Start(w) + w.begin_detail = 0 => w.end_detail = 0

Fresh(w) == w.detail # None /\ w.begin_detail = 0 /\ Before(w)

LEMMA MinimumIs ==
  ASSUME NEW T, NEW x \in T, x \in Int, \A y \in T : y \in Int /\ x <= y
  PROVE  Min(T) = x
<1>1. \A y \in T : x =< y
  OBVIOUS
<1>2. Min(T) \in T /\ \A y \in T : Min(T) =< y
  BY <1>1, Zenon DEF Min
<1>3. PICK y \in T : y = Min(T)
  BY <1>2
<1>4. y =< x /\ x <= y /\ y \in Int
  BY <1>2, <1>3
<1> QED
  BY <1>3, <1>4

LEMMA BlocksOf ==
  ASSUME NEW n, NEW m, Frame(n, m)
  PROVE  Blocks(m) \in Nat \ {0} /\ Blocks(m) * Step = m
<1>1. m \in Nat \ {0} /\ m \div Step \in Int /\ m = (Step * (m \div Step)) + (m % Step)
  BY StepType, Division DEF Frame
<1>2. PICK b \in Int : b = m \div Step
  BY <1>1
<1>3. m = Step * b
  BY <1>1, <1>2, StepType DEF Frame, Aligned
<1>4. b * Step = m
  BY <1>3, StepType
<1>5. b > 0
  <2> SUFFICES ASSUME b <= 0 PROVE FALSE
    BY <1>2
  <2>1. b * Step <= 0 * Step /\ 0 * Step = 0
    BY <1>2, BlockOrder, StepType
  <2> QED
    BY <1>1, <1>4, <2>1
<1> QED
  BY <1>2, <1>4, <1>5 DEF Blocks

\* The places of a worker.
LEMMA WorkerPlaces ==
  ASSUME NEW n, NEW m, Frame(n, m), NEW w, WorkerOK(w, n, m)
  PROVE  /\ Start(w) \in Nat /\ Aligned(Start(w)) /\ Start(w) + Step <= m
         /\ w.hist[w.end_hist].item_index = Start(w)
         /\ w.end_hist \in Nat /\ Size(w.hist) = Blocks(m)
<1>1. Blocks(m) \in Nat \ {0} /\ Blocks(m) * Step = m
  BY BlocksOf
<1>2. w.end_hist \in Nat /\ w.end_hist < Blocks(m) /\ w.end_hist \in 0 .. Blocks(m) - 1
  BY <1>1 DEF WorkerOK
<1>3. Start(w) + Step <= m
  BY <1>1, <1>2, BlockOrder DEF Start
<1>4. Start(w) \in Nat /\ Aligned(Start(w))
  BY <1>2, AlignedBasic DEF Start
<1>5. w.hist[w.end_hist].item_index = Start(w)
  BY <1>2 DEF WorkerOK, CoarseHist, Start
<1>6. Size(w.hist) = Blocks(m)
  BY <1>1, Indexes DEF WorkerOK, CoarseHist, Size
<1> QED
  BY <1>2, <1>3, <1>4, <1>5, <1>6

LEMMA CoarseAt ==
  ASSUME NEW h, NEW m, CoarseHist(h, m), NEW k \in 0 .. Blocks(m) - 1
  PROVE  h[k].item_index = k * Step
BY Zenon DEF CoarseHist

LEMMA CoarseRange ==
  ASSUME NEW n, NEW m, Frame(n, m), NEW w, WorkerOK(w, n, m), w.detail = None
  PROVE  /\ RangeBegin(w) = IF w.begin_offset > 0 THEN w.begin_offset
                            ELSE w.begin_hist * Step
         /\ RangeBegin(w) \in 0 .. Start(w)
         /\ RangeEnd(w) = Start(w)
<1>1. Start(w) \in Nat /\ w.hist[w.end_hist].item_index = Start(w) /\ w.end_hist \in Nat
  BY WorkerPlaces
<1>2. Before(w) /\ w.begin_hist \in Nat /\ w.begin_hist <= w.end_hist
  BY <1>1 DEF WorkerOK, Before
<1>3. w.hist[w.begin_hist].item_index = w.begin_hist * Step
  <2>1. w.begin_hist \in 0 .. Blocks(m) - 1
    BY <1>1, <1>2, BlocksOf DEF WorkerOK
  <2>2. CoarseHist(w.hist, m)
    BY DEF WorkerOK
  <2> QED
    BY <2>1, <2>2, CoarseAt
<1>4. w.begin_hist * Step \in Nat /\ w.begin_hist * Step <= Start(w)
  <2>1. PICK b \in Nat, e \in Nat : b = w.begin_hist /\ e = w.end_hist /\ b <= e
    BY <1>1, <1>2
  <2>2. b * Step \in Nat
    BY AlignedBasic
  <2>3. b * Step <= e * Step
    BY <2>1, BlockOrder
  <2> QED
    BY <2>1, <2>2, <2>3 DEF Start
<1>5. w.begin_offset \in Nat /\ w.begin_offset <= w.begin_hist * Step
  BY <1>2, <1>4 DEF Before
<1>6. RangeBegin(w) = Min((IF w.begin_offset > 0 THEN {w.begin_offset} ELSE {})
                            \cup {w.begin_hist * Step})
  BY <1>3 DEF RangeBegin
<1>7. CASE w.begin_offset > 0
  <2>1. Min({w.begin_offset} \cup {w.begin_hist * Step}) = w.begin_offset
    <3>1. \A y \in {w.begin_offset} \cup {w.begin_hist * Step} :
            y \in Int /\ w.begin_offset <= y
      BY <1>4, <1>5
    <3> QED
      BY <1>5, <3>1, MinimumIs
  <2> QED
    BY <1>1, <1>4, <1>5, <1>6, <1>7, <2>1 DEF RangeEnd
<1>8. CASE ~ (w.begin_offset > 0)
  <2>1. Min({} \cup {w.begin_hist * Step}) = w.begin_hist * Step
    <3>1. \A y \in {} \cup {w.begin_hist * Step} :
            y \in Int /\ w.begin_hist * Step <= y
      BY <1>4
    <3> QED
      BY <1>4, <3>1, MinimumIs
  <2> QED
    BY <1>1, <1>4, <1>5, <1>6, <1>8, <2>1 DEF RangeEnd
<1> QED
  BY <1>7, <1>8

\* The places of a detailed histogram.
LEMMA DetailPlaces ==
  ASSUME NEW n, NEW m, Frame(n, m), NEW w, WorkerOK(w, n, m), w.detail # None
  PROVE  /\ Size(w.detail) \in Nat \ {0}
         /\ w.end_detail \in Nat /\ w.end_detail < Size(w.detail)
         /\ w.begin_detail \in Nat /\ w.begin_detail <= w.end_detail
         /\ w.complete => w.end_detail + 1 = Size(w.detail)
         /\ Aligned(Size(w.detail)) /\ Start(w) + Size(w.detail) <= m
         /\ Size(w.detail) = n * Step \/ Start(w) + Size(w.detail) = m
         /\ w.detail[w.end_detail].item_index = Start(w) + w.end_detail
         /\ w.detail[w.end_detail].item \in Nat
         /\ w.detail[w.begin_detail].item_index = Start(w) + w.begin_detail
         /\ RangeEnd(w) = Start(w) + w.end_detail + (IF w.complete THEN 1 ELSE 0)
         /\ w.complete => RangeEnd(w) = Start(w) + Size(w.detail)
<1>1. Start(w) \in Nat
  BY WorkerPlaces
<1>2. PICK s : s = Size(w.detail)
  OBVIOUS
<1>3. DetailOf(w, s, n, m)
  BY <1>2 DEF WorkerOK
<1>4. /\ s \in Nat \ {0} /\ Aligned(s) /\ Start(w) + s <= m
      /\ s = n * Step \/ Start(w) + s = m
      /\ w.end_detail \in 0 .. s - 1 /\ w.begin_detail \in 0 .. w.end_detail
      /\ w.complete => w.end_detail = s - 1
  BY <1>3 DEF DetailOf
<1>5. /\ w.end_detail \in Nat /\ w.end_detail < s
      /\ w.begin_detail \in Nat /\ w.begin_detail <= w.end_detail
      /\ w.begin_detail \in 0 .. s - 1
      /\ w.complete => w.end_detail + 1 = s
  BY <1>4
<1>6. /\ w.detail[w.end_detail].item_index = Start(w) + w.end_detail
      /\ w.detail[w.end_detail].item \in Nat
      /\ w.detail[w.begin_detail].item_index = Start(w) + w.begin_detail
  BY <1>3, <1>4, <1>5 DEF DetailOf
<1>7. RangeEnd(w) = Start(w) + w.end_detail + (IF w.complete THEN 1 ELSE 0)
  BY <1>6 DEF RangeEnd
<1>8. w.complete => RangeEnd(w) = Start(w) + s
  BY <1>1, <1>4, <1>5, <1>7
<1> QED
  BY <1>2, <1>4, <1>5, <1>6, <1>7, <1>8

LEMMA KeptRange ==
  ASSUME NEW n, NEW m, Frame(n, m), NEW w, WorkerOK(w, n, m), w.detail # None, Kept(w)
  PROVE  RangeBegin(w) = Start(w) + w.begin_detail
<1>1. /\ Start(w) \in Nat /\ w.begin_detail \in Nat
      /\ w.detail[w.begin_detail].item_index = Start(w) + w.begin_detail
  BY WorkerPlaces, DetailPlaces
<1>2. w.begin_hist = -1 /\ w.begin_offset = 0
  BY DEF Kept
<1>3. RangeBegin(w) = Min(({Start(w) + w.begin_detail} \cup {}) \cup {})
  BY <1>1, <1>2 DEF RangeBegin
<1>4. Min({Start(w) + w.begin_detail}) = Start(w) + w.begin_detail
  <2>1. \A y \in {Start(w) + w.begin_detail} : y \in Int /\ Start(w) + w.begin_detail <= y
    BY <1>1
  <2> QED
    BY <1>1, <2>1, MinimumIs
<1>5. ({Start(w) + w.begin_detail} \cup {}) \cup {} = {Start(w) + w.begin_detail}
  OBVIOUS
<1> QED
  BY <1>3, <1>4, <1>5

LEMMA FreshRange ==
  ASSUME NEW n, NEW m, Frame(n, m), NEW w, WorkerOK(w, n, m), Fresh(w)
  PROVE  /\ RangeBegin(w) = IF w.begin_offset > 0 THEN w.begin_offset
                            ELSE w.begin_hist * Step
         /\ RangeBegin(w) \in 0 .. Start(w)
<1>1. /\ Start(w) \in Nat /\ w.begin_detail = 0 /\ w.end_hist \in Nat
      /\ w.detail[w.begin_detail].item_index = Start(w)
  BY WorkerPlaces, DetailPlaces DEF Fresh
<1>2. Before(w) /\ w.begin_hist \in Nat /\ w.begin_hist <= w.end_hist /\ w.begin_hist # -1
  BY <1>1 DEF Before, Fresh
<1>3. w.hist[w.begin_hist].item_index = w.begin_hist * Step
  <2>1. w.begin_hist \in 0 .. Blocks(m) - 1
    BY <1>1, <1>2, BlocksOf DEF WorkerOK
  <2>2. CoarseHist(w.hist, m)
    BY DEF WorkerOK
  <2> QED
    BY <2>1, <2>2, CoarseAt
<1>4. w.begin_hist * Step \in Nat /\ w.begin_hist * Step <= Start(w)
  <2>1. PICK b \in Nat, e \in Nat : b = w.begin_hist /\ e = w.end_hist /\ b <= e
    BY <1>1, <1>2
  <2>2. b * Step \in Nat
    BY AlignedBasic
  <2>3. b * Step <= e * Step
    BY <2>1, BlockOrder
  <2> QED
    BY <2>1, <2>2, <2>3 DEF Start
<1>5. w.begin_offset \in Nat /\ w.begin_offset <= w.begin_hist * Step
  BY <1>2, <1>4 DEF Before
<1>6. RangeBegin(w) = Min(({Start(w)} \cup (IF w.begin_offset > 0 THEN {w.begin_offset} ELSE {}))
                            \cup {w.begin_hist * Step})
  BY <1>1, <1>2, <1>3 DEF RangeBegin, Fresh
<1>7. CASE w.begin_offset > 0
  <2>1. Min(({Start(w)} \cup {w.begin_offset}) \cup {w.begin_hist * Step}) = w.begin_offset
    <3>1. \A y \in ({Start(w)} \cup {w.begin_offset}) \cup {w.begin_hist * Step} :
            y \in Int /\ w.begin_offset <= y
      BY <1>1, <1>4, <1>5
    <3> QED
      BY <1>5, <3>1, MinimumIs
  <2> QED
    BY <1>1, <1>4, <1>5, <1>6, <1>7, <2>1
<1>8. CASE ~ (w.begin_offset > 0)
  <2>1. Min(({Start(w)} \cup {}) \cup {w.begin_hist * Step}) = w.begin_hist * Step
    <3>1. \A y \in ({Start(w)} \cup {}) \cup {w.begin_hist * Step} :
            y \in Int /\ w.begin_hist * Step <= y
      BY <1>1, <1>4
    <3> QED
      BY <1>4, <3>1, MinimumIs
  <2> QED
    BY <1>1, <1>4, <1>5, <1>6, <1>8, <2>1
<1> QED
  BY <1>7, <1>8

-----------------------------------------------------------------------------
(* What the operations on a worker keep and change. *)

\* The range begins in a detailed histogram, not at the first item of the array.
KeptPast(w) == w.detail # None =>
  w.begin_hist = -1 /\ w.begin_offset = 0 /\ Start(w) + w.begin_detail # 0

\* c is w, perhaps without its detailed histogram; one that c still has is needed.
RemovedFrom(w, c, n, m) ==
  /\ WorkerOK(c, n, m) /\ KeptPast(c)
  /\ RangeBegin(c) = RangeBegin(w) /\ RangeEnd(c) = RangeEnd(w) /\ c.complete = w.complete
  /\ c.detail # None => c = w /\ (c.complete \/ ~ Aligned(RangeEnd(c)))

LEMMA CheckRemoves ==
  ASSUME NEW n, NEW m, Frame(n, m), NEW w, WorkerOK(w, n, m), Kept(w)
  PROVE  RemovedFrom(w, CheckRemove(w), n, m)
<1>1. CASE w.detail = None
  BY <1>1 DEF CheckRemove, RemovedFrom, KeptPast
<1>2. CASE w.detail # None
  <2> DEFINE current == w.detail[w.end_detail].item_index
             later == {k \in w.end_hist .. Size(w.hist) - 1 : w.hist[k].item_index >= current}
             index == IF later = {} THEN 0 ELSE Min(later)
  <2>1. CheckRemove(w) = IF w.hist[index].item_index # current THEN w
                         ELSE [w EXCEPT !.begin_offset = w.detail[w.begin_detail].item_index,
                                        !.begin_hist = index, !.end_hist = index,
                                        !.detail = None]
    BY <1>2, Zenon DEF CheckRemove
  <2>2. /\ Start(w) \in Nat /\ Aligned(Start(w)) /\ w.end_hist \in Nat
        /\ Size(w.hist) = Blocks(m) /\ w.end_hist < Blocks(m)
        /\ Blocks(m) \in Nat \ {0} /\ Blocks(m) * Step = m
    BY WorkerPlaces, BlocksOf DEF WorkerOK
  <2>3. /\ w.end_detail \in Nat /\ w.end_detail < Size(w.detail)
        /\ w.begin_detail \in Nat /\ w.begin_detail <= w.end_detail
        /\ Size(w.detail) \in Nat /\ Start(w) + Size(w.detail) <= m
        /\ current = Start(w) + w.end_detail
        /\ w.detail[w.begin_detail].item_index = Start(w) + w.begin_detail
        /\ RangeEnd(w) = current + (IF w.complete THEN 1 ELSE 0)
        /\ w.complete => w.end_detail + 1 = Size(w.detail)
        /\ Aligned(Size(w.detail))
    BY <1>2, DetailPlaces
  <2>4. current \in Nat /\ current < m /\ m \in Nat
    BY <2>2, <2>3 DEF Frame
  <2>5. \A k \in later : k \in Nat /\ w.end_hist <= k /\ k < Blocks(m)
                          /\ w.hist[k].item_index = k * Step /\ current <= k * Step
    <3>1. ASSUME NEW k \in w.end_hist .. Blocks(m) - 1
          PROVE  k \in Nat /\ w.hist[k].item_index = k * Step /\ k * Step \in Nat
      BY <2>2, AlignedBasic DEF WorkerOK, CoarseHist
    <3> QED
      BY <2>2, <2>4, <3>1
  <2> HIDE DEF current, later, index
  <2>6. later # {} => index \in later /\ \A k \in later : index <= k
    <3> SUFFICES ASSUME later # {} PROVE index \in later /\ \A k \in later : index <= k
      OBVIOUS
    <3>1. later \in SUBSET Nat
      BY <2>5
    <3>2. PICK k \in later : \A l \in later : k <= l
      BY <3>1, LeastNumber
    <3>3. Min(later) = k
      <4>1. k \in Int /\ \A y \in later : y \in Int /\ k <= y
        BY <3>1, <3>2
      <4> QED
        BY <4>1, MinimumIs
    <3> QED
      BY <3>2, <3>3 DEF index
  <2>7. index \in 0 .. Blocks(m) - 1 /\ w.hist[index].item_index = index * Step
        /\ index * Step \in Nat /\ index \in Nat
    <3>1. index \in 0 .. Blocks(m) - 1
      <4>1. CASE later = {}
        BY <2>2, <4>1 DEF index
      <4>2. CASE later # {}
        BY <2>2, <2>5, <2>6, <4>2
      <4> QED
        BY <4>1, <4>2
    <3> QED
      BY <2>2, <3>1, AlignedBasic DEF WorkerOK, CoarseHist
  <2>8. Aligned(current) => index * Step = current
    <3> SUFFICES ASSUME Aligned(current) PROVE index * Step = current
      OBVIOUS
    <3>1. PICK k \in Int : current = Step * k
      BY <2>4, AlignedTimes
    <3>2. k * Step = current
      BY <3>1, StepType
    <3>3. w.end_hist <= k
      BY <2>2, <2>3, <3>2, BlockOrder DEF Start
    <3>4. k < Blocks(m)
      <4> SUFFICES ASSUME Blocks(m) <= k PROVE FALSE
        BY <2>2
      <4>1. Blocks(m) * Step <= k * Step
        BY <2>2, BlockOrder
      <4> QED
        BY <2>2, <2>4, <3>2, <4>1
    <3>5. k \in later
      <4>1. k \in w.end_hist .. Blocks(m) - 1 /\ k \in 0 .. Blocks(m) - 1
        BY <2>2, <3>3, <3>4
      <4>2. w.hist[k].item_index = k * Step
        BY <4>1 DEF WorkerOK, CoarseHist
      <4> QED
        BY <2>2, <2>4, <3>2, <4>1, <4>2 DEF later
    <3>6. index <= k /\ current <= index * Step
      BY <2>5, <2>6, <3>5
    <3>7. k <= index
      BY <2>7, <3>2, <3>6, BlockOrder
    <3> QED
      BY <2>7, <3>2, <3>6, <3>7
  <2>9. CASE index * Step = current
    <3>1. PICK offset : offset = w.detail[w.begin_detail].item_index
      OBVIOUS
    <3> DEFINE c == [hist |-> w.hist, detail |-> None, begin_offset |-> offset,
                     begin_hist |-> index, end_hist |-> index,
                     begin_detail |-> w.begin_detail, end_detail |-> w.end_detail,
                     complete |-> w.complete]
    <3>2. CheckRemove(w) = c
      <4>1. IsWorker(w)
        BY DEF WorkerOK
      <4>2. CheckRemove(w) = [w EXCEPT !.begin_offset = offset, !.begin_hist = index,
                                       !.end_hist = index, !.detail = None]
        BY <2>1, <2>7, <2>9, <3>1
      <4> QED
        BY <4>1, <4>2 DEF IsWorker
    <3>3. /\ IsWorker(c) /\ c.hist = w.hist /\ c.detail = None /\ c.begin_hist = index
          /\ c.end_hist = index /\ c.complete = w.complete
          /\ c.begin_offset = Start(w) + w.begin_detail
      BY <2>3, <3>1 DEF IsWorker
    <3> HIDE DEF c
    <3>4. ~ w.complete
      <4> SUFFICES ASSUME w.complete PROVE FALSE
        OBVIOUS
      <4>5. Aligned(Start(w) + Size(w.detail))
        BY <2>2, <2>3, AlignedPair
      <4>1. Start(w) + Size(w.detail) = current + 1 /\ Aligned(Start(w) + Size(w.detail))
        BY <2>2, <2>3, <4>5
      <4>2. Aligned(current)
        BY <2>7, <2>9, AlignedBasic
      <4>3. Aligned(current + 1) /\ current + 1 \in Int /\ current < current + 1
        BY <2>4, <4>1
      <4>4. current + Step <= current + 1
        BY <2>4, <4>2, <4>3, AlignedPair
      <4> QED
        BY <2>4, <4>4, StepType
    <3>5. Before(c)
      BY <2>2, <2>3, <2>4, <2>7, <2>9, <3>3 DEF Before
    <3>6. WorkerOK(c, n, m)
      BY <2>7, <3>3, <3>4, <3>5 DEF WorkerOK
    <3>7. /\ RangeBegin(c) = IF c.begin_offset > 0 THEN c.begin_offset ELSE c.begin_hist * Step
          /\ RangeEnd(c) = Start(c)
      BY <3>3, <3>6, CoarseRange
    <3>8. RangeEnd(c) = RangeEnd(w)
      BY <2>3, <2>4, <2>9, <3>3, <3>4, <3>7 DEF Start
    <3>9. RangeBegin(w) = Start(w) + w.begin_detail
      BY <1>2, KeptRange
    <3>10. RangeBegin(c) = RangeBegin(w)
      <4>1. CASE Start(w) + w.begin_detail > 0
        BY <3>3, <3>7, <3>9, <4>1
      <4>2. CASE Start(w) + w.begin_detail = 0
        <5>1. w.end_detail = 0
          BY <1>2, <4>2 DEF Kept
        <5>2. current = 0
          BY <2>2, <2>3, <4>2, <5>1
        <5> QED
          BY <2>9, <3>3, <3>7, <3>9, <4>2, <5>2
      <4> QED
        BY <2>2, <2>3, <4>1, <4>2
    <3> QED
      BY <3>2, <3>3, <3>6, <3>8, <3>10 DEF RemovedFrom, KeptPast
  <2>10. CASE index * Step # current
    <3>1. CheckRemove(w) = w
      BY <2>1, <2>7, <2>10
    <3>2. ~ Aligned(current)
      BY <2>8, <2>10
    <3>3. w.complete \/ ~ Aligned(RangeEnd(w))
      <4>1. ~ w.complete => RangeEnd(w) = current
        BY <2>3, <2>4
      <4> QED
        BY <3>2, <4>1
    <3>4. Start(w) + w.begin_detail # 0
      <4> SUFFICES ASSUME Start(w) + w.begin_detail = 0 PROVE FALSE
        OBVIOUS
      <4>1. w.end_detail = 0
        BY <1>2 DEF Kept
      <4>2. current = 0
        BY <2>2, <2>3, <4>1
      <4> QED
        BY <3>2, <4>2, AlignedBasic
    <3>5. KeptPast(w)
      BY <1>2, <3>4 DEF Kept, KeptPast
    <3> QED
      BY <3>1, <3>3, <3>5 DEF RemovedFrom
  <2> QED
    BY <2>9, <2>10
<1> QED
  BY <1>1, <1>2

\* The cursor moves over a block, or over an item of a detailed histogram.
MovedFrom(c, v, n, m) ==
  /\ WorkerOK(v, n, m) /\ ~ c.complete
  /\ v.detail = c.detail /\ RangeBegin(v) = RangeBegin(c)
  /\ c.detail = None => RangeEnd(v) = RangeEnd(c) + Step /\ LengthCurrent(v) = Step
  /\ c.detail # None => RangeEnd(v) = RangeEnd(c) + 1 /\ Start(v) = Start(c)
  /\ KeptPast(c) => Kept(v)
  /\ Fresh(c) => Fresh(v)

LEMMA NextMoves ==
  ASSUME NEW n, NEW m, Frame(n, m), NEW c, WorkerOK(c, n, m), ValueAtCursor(c) # {},
         ~ (SetNext(c).detail = None /\ PastCoarse(SetNext(c)))
  PROVE  MovedFrom(c, SetNext(c), n, m)
<1>1. IsWorker(c) /\ c.end_hist \in Nat /\ Size(c.hist) = Blocks(m) /\ Blocks(m) \in Nat
      /\ Start(c) \in Nat
  BY WorkerPlaces, BlocksOf DEF WorkerOK
<1>2. ~ c.complete /\ c.complete \in BOOLEAN
  BY DEF ValueAtCursor, WorkerOK
<1>3. CASE c.detail = None
  <2> DEFINE v == [c EXCEPT !.end_hist = @ + 1]
  <2>1. SetNext(c) = v
    BY <1>3 DEF SetNext
  <2>2. /\ IsWorker(v) /\ v.hist = c.hist /\ v.detail = c.detail /\ v.complete = c.complete
        /\ v.begin_hist = c.begin_hist /\ v.begin_offset = c.begin_offset
        /\ v.begin_detail = c.begin_detail /\ v.end_hist = c.end_hist + 1
    BY <1>1 DEF IsWorker
  <2> HIDE DEF v
  <2>3. v.end_hist < Blocks(m) /\ v.end_hist \in 0 .. Blocks(m) - 1
    BY <1>1, <1>3, <2>1, <2>2 DEF PastCoarse
  <2>4. Before(v)
    <3>1. Before(c)
      BY <1>3 DEF WorkerOK
    <3> QED
      BY <1>1, <2>2, <3>1 DEF Before
  <2>5. WorkerOK(v, n, m)
    BY <1>2, <1>3, <2>2, <2>3, <2>4 DEF WorkerOK
  <2>6. RangeBegin(v) = RangeBegin(c)
    BY <1>3, <2>2 DEF RangeBegin
  <2>7. RangeEnd(v) = RangeEnd(c) + Step
    <3>1. RangeEnd(v) = Start(v) /\ RangeEnd(c) = Start(c)
      BY <1>3, <2>2, <2>5, CoarseRange
    <3> QED
      BY <1>1, <2>2, <3>1, AlignedBasic DEF Start
  <2>8. LengthCurrent(v) = Step
    <3>1. /\ v.hist[v.end_hist].item_index = v.end_hist * Step
          /\ v.hist[v.end_hist].last_item_index = v.end_hist * Step + Step - 1
      BY <2>3, <2>5 DEF WorkerOK, CoarseHist
    <3>2. v.end_hist * Step \in Int
      BY <2>3, AlignedBasic
    <3> QED
      BY <1>3, <2>2, <3>1, <3>2, StepType DEF LengthCurrent
  <2> QED
    BY <1>2, <1>3, <2>1, <2>2, <2>5, <2>6, <2>7, <2>8 DEF MovedFrom, Kept, Fresh
<1>4. CASE c.detail # None
  <2>1. /\ c.end_detail \in Nat /\ c.end_detail < Size(c.detail) /\ Size(c.detail) \in Nat
        /\ RangeEnd(c) = Start(c) + c.end_detail
    BY <1>1, <1>2, <1>4, DetailPlaces
  <2>2. ASSUME NEW v, IsWorker(v), v.hist = c.hist, v.detail = c.detail,
               v.begin_hist = c.begin_hist, v.begin_offset = c.begin_offset,
               v.begin_detail = c.begin_detail, v.end_hist = c.end_hist,
               v.complete \in BOOLEAN, v.end_detail \in Nat,
               v.end_detail + (IF v.complete THEN 1 ELSE 0) = c.end_detail + 1,
               v.end_detail < Size(c.detail),
               v.complete => v.end_detail + 1 = Size(c.detail)
        PROVE  MovedFrom(c, v, n, m)
    <3>1. Start(v) = Start(c)
      BY <2>2 DEF Start
    <3>2. DetailOf(v, Size(v.detail), n, m)
      <4>1. DetailOf(c, Size(c.detail), n, m)
        BY <1>4 DEF WorkerOK
      <4>2. c.end_detail <= v.end_detail
        BY <2>1, <2>2
      <4>3. v.end_detail \in 0 .. Size(v.detail) - 1 /\ v.begin_detail \in 0 .. v.end_detail
            /\ (v.complete => v.end_detail = Size(v.detail) - 1)
        BY <2>1, <2>2, <4>1, <4>2 DEF DetailOf
      <4> QED
        BY <2>2, <3>1, <4>1, <4>3 DEF DetailOf
    <3>3. WorkerOK(v, n, m)
      BY <1>4, <2>2, <3>2 DEF WorkerOK
    <3>4. RangeBegin(v) = RangeBegin(c)
      BY <1>4, <2>2 DEF RangeBegin
    <3>5. RangeEnd(v) = RangeEnd(c) + 1
      <4>1. RangeEnd(v) = Start(v) + v.end_detail + (IF v.complete THEN 1 ELSE 0)
        BY <1>4, <2>2, <3>3, DetailPlaces
      <4> QED
        BY <1>1, <2>1, <2>2, <3>1, <4>1
    <3>6. KeptPast(c) => Kept(v)
      BY <1>4, <2>2, <3>1 DEF KeptPast, Kept
    <3>7. Fresh(c) => Fresh(v)
      BY <1>4, <2>2 DEF Fresh, Before
    <3> QED
      BY <1>2, <1>4, <2>2, <3>1, <3>3, <3>4, <3>5, <3>6, <3>7 DEF MovedFrom
  <2>3. CASE c.end_detail + 1 = Size(c.detail)
    <3> DEFINE v == [hist |-> c.hist, detail |-> c.detail,
                     begin_offset |-> c.begin_offset, begin_hist |-> c.begin_hist,
                     end_hist |-> c.end_hist, begin_detail |-> c.begin_detail,
                     end_detail |-> c.end_detail, complete |-> TRUE]
    <3>1. SetNext(c) = v
      <4>1. SetNext(c) = [c EXCEPT !.complete = TRUE]
        BY <1>4, <2>3 DEF SetNext
      <4> QED
        BY <1>1, <4>1 DEF IsWorker
    <3>2. /\ IsWorker(v) /\ v.hist = c.hist /\ v.detail = c.detail
          /\ v.begin_hist = c.begin_hist /\ v.begin_offset = c.begin_offset
          /\ v.begin_detail = c.begin_detail /\ v.end_hist = c.end_hist
          /\ v.complete = TRUE /\ v.end_detail = c.end_detail
      BY <1>1 DEF IsWorker
    <3> HIDE DEF v
    <3> QED
      BY <2>1, <2>2, <2>3, <3>1, <3>2
  <2>4. CASE c.end_detail + 1 # Size(c.detail)
    <3> DEFINE v == [c EXCEPT !.end_detail = @ + 1]
    <3>1. SetNext(c) = v
      BY <1>2, <1>4, <2>4 DEF SetNext
    <3>2. /\ IsWorker(v) /\ v.hist = c.hist /\ v.detail = c.detail
          /\ v.begin_hist = c.begin_hist /\ v.begin_offset = c.begin_offset
          /\ v.begin_detail = c.begin_detail /\ v.end_hist = c.end_hist
          /\ v.complete = FALSE /\ v.end_detail = c.end_detail + 1
      BY <1>1, <1>2 DEF IsWorker
    <3> HIDE DEF v
    <3>3. v.end_detail \in Nat /\ v.end_detail < Size(c.detail)
      BY <2>1, <2>4, <3>2
    <3>6. ~ v.complete /\ v.complete \in BOOLEAN
      BY <3>2, Zenon
    <3>4. v.end_detail + (IF v.complete THEN 1 ELSE 0) = c.end_detail + 1
      BY <2>1, <3>2, <3>6
    <3>5. MovedFrom(c, v, n, m)
      BY <2>2, <3>2, <3>3, <3>4, <3>6
    <3> QED
      BY <3>1, <3>5
  <2> QED
    BY <2>3, <2>4
<1> QED
  BY <1>3, <1>4

\* The next destination's range begins at the cursor.
LEMMA InitMoves ==
  ASSUME NEW n, NEW m, Frame(n, m), NEW w, WorkerOK(w, n, m), w.detail # None,
         NEW v, v = InitHistogram(w)
  PROVE  /\ WorkerOK(v, n, m) /\ v.detail # None /\ Kept(v)
         /\ Start(v) = Start(w) /\ v.complete = w.complete
         /\ RangeEnd(v) = RangeEnd(w)
         /\ RangeBegin(v) = RangeEnd(w) - (IF w.complete THEN 1 ELSE 0)
         /\ RangeEnd(w) \in Nat
         /\ w.complete => Aligned(RangeEnd(w))
<1>1. /\ w.end_detail \in Nat /\ Start(w) \in Nat /\ Aligned(Start(w))
      /\ RangeEnd(w) = Start(w) + w.end_detail + (IF w.complete THEN 1 ELSE 0)
  BY WorkerPlaces, DetailPlaces
<1> DEFINE u == [hist |-> w.hist, detail |-> w.detail, begin_offset |-> 0,
                 begin_hist |-> -1, end_hist |-> w.end_hist,
                 begin_detail |-> w.end_detail, end_detail |-> w.end_detail,
                 complete |-> w.complete]
<1>2. v = u
  <2>1. v = [w EXCEPT !.begin_offset = 0, !.begin_hist = -1, !.begin_detail = w.end_detail]
    BY DEF InitHistogram
  <2>2. IsWorker(w)
    BY DEF WorkerOK
  <2> QED
    BY <2>1, <2>2 DEF IsWorker
<1>3. /\ IsWorker(v) /\ v.hist = w.hist /\ v.detail = w.detail /\ v.begin_offset = 0
      /\ v.begin_hist = -1 /\ v.end_hist = w.end_hist /\ v.begin_detail = w.end_detail
      /\ v.end_detail = w.end_detail /\ v.complete = w.complete
  BY <1>2 DEF IsWorker
<1> HIDE DEF u
<1>4. Start(v) = Start(w)
  BY <1>3 DEF Start
<1>5. WorkerOK(v, n, m)
  <2>1. DetailOf(w, Size(w.detail), n, m)
    BY DEF WorkerOK
  <2>2. v.begin_detail \in 0 .. v.end_detail
    BY <1>1, <1>3
  <2>3. DetailOf(v, Size(v.detail), n, m)
    BY <1>3, <1>4, <2>1, <2>2 DEF DetailOf
  <2> QED
    BY <1>3, <2>3 DEF WorkerOK
<1>6. Kept(v)
  BY <1>1, <1>3, <1>4 DEF Kept
<1>7. RangeEnd(v) = RangeEnd(w)
  BY <1>3 DEF RangeEnd
<1>8. RangeBegin(v) = Start(w) + w.end_detail
  BY <1>3, <1>4, <1>5, <1>6, KeptRange
<1>9. RangeBegin(v) = RangeEnd(w) - (IF w.complete THEN 1 ELSE 0) /\ RangeEnd(w) \in Nat
  BY <1>1, <1>8
<1>10. w.complete => Aligned(RangeEnd(w))
  <2>1. /\ Size(w.detail) \in Nat /\ Aligned(Size(w.detail))
        /\ w.complete => RangeEnd(w) = Start(w) + Size(w.detail)
    BY DetailPlaces
  <2>2. Aligned(Start(w) + Size(w.detail))
    BY <1>1, <2>1, AlignedPair
  <2> QED
    BY <2>1, <2>2
<1> QED
  BY <1>3, <1>4, <1>5, <1>6, <1>7, <1>9, <1>10

\* h has the s items from offset on.
IsDetails(h, offset, s) ==
  /\ DOMAIN h = 0 .. s - 1 /\ Size(h) = s /\ h # None
  /\ \A k \in 0 .. s - 1 : h[k].item_index = offset + k /\ h[k].item \in Nat

LEMMA HistogramPlaces ==
  ASSUME NEW m \in Nat, NEW a \in [0 .. m - 1 -> Nat], NEW offset \in Nat,
         NEW s \in Nat \ {0}, offset + s <= m, NEW h, h = HistogramOf(a, offset, s, 1)
  PROVE  IsDetails(h, offset, s)
<1>1. (s + 1 - 1) \div 1 = s
  OBVIOUS
<1>2. h = [k \in 0 .. s - 1 |-> [item_index |-> offset + k * 1,
                                 last_item_index |-> offset + k * 1 + 1 - 1,
                                 item |-> a[offset + k * 1]]]
  BY <1>1 DEF HistogramOf
<1>3. DOMAIN h = 0 .. s - 1
  BY <1>2
<1>4. Size(h) = s
  BY <1>3, Indexes DEF Size
<1>5. ASSUME NEW k \in 0 .. s - 1
      PROVE  h[k].item_index = offset + k /\ h[k].item \in Nat
  <2>1. PICK x \in 0 .. m - 1 : x = offset + k * 1 /\ x = offset + k
    OBVIOUS
  <2>2. h[k] = [item_index |-> x, last_item_index |-> x + 1 - 1, item |-> a[x]]
    BY <1>2, <2>1
  <2>3. h[k].item_index = x /\ h[k].item = a[x]
    BY <2>2
  <2> QED
    BY <2>1, <2>3
<1>6. h # None
  <2>1. 0 \in DOMAIN h /\ 0 \notin DOMAIN None
    BY <1>3 DEF None
  <2> QED
    BY <2>1
<1> QED
  BY <1>3, <1>4, <1>5, <1>6 DEF IsDetails

\* A worker that only has its coarse histogram gets a detailed one.
LEMMA DetailedSets ==
  ASSUME NEW n, NEW m, Frame(n, m), NEW w, WorkerOK(w, n, m), w.detail = None,
         NEW a \in [0 .. m - 1 -> Nat], NEW s \in Nat \ {0},
         s = n * Step \/ Start(w) + s = m, s <= n * Step, Start(w) + s <= m,
         NEW v, v = SetDetailed(w, HistogramOf(a, Start(w), s, 1))
  PROVE  /\ WorkerOK(v, n, m) /\ Fresh(v) /\ Start(v) = Start(w) /\ ~ v.complete
         /\ RangeBegin(v) = RangeBegin(w) /\ RangeEnd(v) = RangeEnd(w)
<1>1. /\ Start(w) \in Nat /\ Aligned(Start(w)) /\ m \in Nat /\ Aligned(m)
      /\ Before(w) /\ ~ w.complete
  BY WorkerPlaces DEF WorkerOK, Frame
<1>2. PICK h : h = HistogramOf(a, Start(w), s, 1)
  OBVIOUS
<1>3. /\ DOMAIN h = 0 .. s - 1 /\ Size(h) = s /\ h # None
      /\ \A k \in 0 .. s - 1 : h[k].item_index = Start(w) + k /\ h[k].item \in Nat
  <2>2. PICK offset \in Nat : offset = Start(w)
    BY <1>1
  <2>3. h = HistogramOf(a, offset, s, 1) /\ offset + s <= m
    BY <1>2, <2>2
  <2>4. m \in Nat /\ a \in [0 .. m - 1 -> Nat]
    BY <1>1
  <2>5. IsDetails(h, offset, s)
    BY <2>3, <2>4, HistogramPlaces
  <2> QED
    BY <2>2, <2>5 DEF IsDetails
<1>4. v = [w EXCEPT !.detail = h, !.begin_detail = 0, !.end_detail = 0]
  BY <1>2, <1>3 DEF SetDetailed
<1>5. /\ IsWorker(v) /\ v.hist = w.hist /\ v.detail = h /\ v.begin_offset = w.begin_offset
      /\ v.begin_hist = w.begin_hist /\ v.end_hist = w.end_hist /\ v.begin_detail = 0
      /\ v.end_detail = 0 /\ v.complete = w.complete
  <2>1. IsWorker(w)
    BY DEF WorkerOK
  <2>2. v = [hist |-> w.hist, detail |-> h, begin_offset |-> w.begin_offset,
             begin_hist |-> w.begin_hist, end_hist |-> w.end_hist,
             begin_detail |-> 0, end_detail |-> 0, complete |-> w.complete]
    BY <1>4, <2>1 DEF IsWorker
  <2> QED
    BY <2>2 DEF IsWorker
<1>6. Start(v) = Start(w) /\ ~ v.complete
  BY <1>1, <1>5 DEF Start
<1>7. Aligned(s)
  <2>1. CASE s = n * Step
    BY <2>1, AlignedBasic DEF Frame
  <2>2. CASE Start(w) + s = m
    <3>1. PICK p \in Int : p = Start(w) /\ Aligned(p)
      BY <1>1
    <3>2. Aligned(m - p)
      BY <1>1, <3>1, AlignedPair
    <3>3. s = m - p
      BY <1>1, <2>2, <3>1
    <3> QED
      BY <3>2, <3>3
  <2> QED
    BY <2>1, <2>2
<1>8. DetailOf(v, s, n, m)
  <2>1. 0 \in 0 .. s - 1 /\ 0 \in 0 .. 0
    OBVIOUS
  <2> QED
    BY <1>3, <1>5, <1>6, <1>7, <2>1 DEF DetailOf
<1>9. WorkerOK(v, n, m)
  BY <1>3, <1>5, <1>8 DEF WorkerOK
<1>10. Fresh(v)
  BY <1>1, <1>3, <1>5 DEF Fresh, Before
<1>11. RangeBegin(v) = RangeBegin(w)
  BY <1>5, <1>9, <1>10, CoarseRange, FreshRange
<1>12. RangeEnd(v) = RangeEnd(w)
  <2>1. RangeEnd(v) = Start(v) + v.end_detail + (IF v.complete THEN 1 ELSE 0)
    BY <1>3, <1>5, <1>9, DetailPlaces
  <2>2. RangeEnd(w) = Start(w)
    BY CoarseRange
  <2> QED
    BY <1>1, <1>5, <1>6, <2>1, <2>2
<1> QED
  BY <1>6, <1>9, <1>10, <1>11, <1>12

LEMMA NewWorkerOK ==
  ASSUME NEW n, NEW m, Frame(n, m), NEW a \in [0 .. m - 1 -> Nat], NEW w, w = NewWorker(a)
  PROVE  WorkerOK(w, n, m) /\ w.detail = None /\ RangeBegin(w) = 0 /\ RangeEnd(w) = 0
<1>1. m \in Nat \ {0} /\ Blocks(m) \in Nat \ {0} /\ Blocks(m) * Step = m
  BY BlocksOf DEF Frame
<1>2. (m + Step - 1) \div Step = Blocks(m)
  <2>1. PICK x \in Nat : x = m + Step - 1
    BY <1>1, StepType
  <2>2. PICK q \in Int : q = x \div Step
    BY <2>1, StepType, Division
  <2>3. PICK r \in 0 .. Step - 1 : r = x % Step
    BY <2>1, StepType, Division
  <2>4. x = (Step * q) + r
    <3>1. x = (Step * (x \div Step)) + (x % Step)
      BY StepType, Division
    <3> QED
      BY <2>2, <2>3, <3>1
  <2>5. PICK b \in Nat : b = Blocks(m)
    BY <1>1
  <2>6. Step * q = q * Step /\ q * Step \in Int /\ b * Step \in Int
    BY StepType
  <2>7. x = q * Step + r /\ x = b * Step + Step - 1
    BY <1>1, <2>1, <2>4, <2>5, <2>6
  <2>8. q < b => q * Step + Step <= b * Step
    BY BlockOrder
  <2>9. b < q => b * Step + Step <= q * Step
    BY BlockOrder
  <2>10. q = b
    BY <2>6, <2>7, <2>8, <2>9, StepType
  <2> QED
    BY <2>1, <2>2, <2>5, <2>10
<1>3. Cardinality(DOMAIN a) = m
  BY <1>1, Indexes
<1>4. PICK h : h = HistogramOf(a, 0, m, Step)
  OBVIOUS
<1>5. h = [k \in 0 .. Blocks(m) - 1 |->
             [item_index |-> 0 + k * Step, last_item_index |-> 0 + k * Step + Step - 1,
              item |-> a[0 + k * Step]]]
  BY <1>2, <1>4 DEF HistogramOf
<1>6. CoarseHist(h, m)
  <2>1. ASSUME NEW k \in 0 .. Blocks(m) - 1
        PROVE  /\ h[k].item_index = k * Step
               /\ h[k].last_item_index = k * Step + Step - 1
               /\ h[k].item \in Nat
    <3>1. k \in Nat /\ k < Blocks(m)
      BY <1>1
    <3>2. k * Step \in Nat /\ k * Step + Step <= m /\ 0 + k * Step = k * Step
      <4>1. PICK b \in Int : b = Blocks(m)
        BY <1>1
      <4>2. k < b => k * Step + Step <= b * Step
        BY BlockOrder
      <4>3. k * Step \in Nat
        BY <3>1, AlignedBasic
      <4> QED
        BY <1>1, <3>1, <4>1, <4>2, <4>3
    <3>3. k * Step \in 0 .. m - 1
      BY <1>1, <3>2, StepType
    <3> QED
      BY <1>5, <3>2, <3>3
  <2>2. DOMAIN h = 0 .. Blocks(m) - 1
    BY <1>5
  <2> QED
    BY <2>1, <2>2 DEF CoarseHist
<1>7. w = [hist |-> h, detail |-> None, begin_offset |-> 0, begin_hist |-> 0, end_hist |-> 0,
           begin_detail |-> 0, end_detail |-> 0, complete |-> FALSE]
  BY <1>3, <1>4 DEF NewWorker
<1>8. /\ IsWorker(w) /\ w.hist = h /\ w.detail = None /\ w.begin_offset = 0
      /\ w.begin_hist = 0 /\ w.end_hist = 0
  BY <1>7 DEF IsWorker
<1>9. ~ w.complete /\ w.complete \in BOOLEAN
  BY <1>7
<1>10. Before(w)
  <2>1. 0 * Step = 0
    BY StepType
  <2> QED
    BY <1>8, <2>1 DEF Before
<1>11. WorkerOK(w, n, m)
  BY <1>1, <1>6, <1>8, <1>9, <1>10 DEF WorkerOK
<1>12. RangeBegin(w) = 0 /\ RangeEnd(w) = 0
  <2>1. Start(w) = 0 /\ 0 * Step = 0
    BY <1>8, StepType DEF Start
  <2> QED
    BY <1>8, <1>11, <2>1, CoarseRange
<1> QED
  BY <1>8, <1>11, <1>12

-----------------------------------------------------------------------------
(* All the workers: ws[i] is the one of source i. *)

Sources(ws, n, m) ==
  /\ DOMAIN ws = 0 .. n - 1
  /\ \A i \in 0 .. n - 1 : WorkerOK(ws[i], n, m) /\ (Kept(ws[i]) \/ Fresh(ws[i]))

Begins(ws) == [i \in DOMAIN ws |-> RangeBegin(ws[i])]
Ends(ws) == [i \in DOMAIN ws |-> RangeEnd(ws[i])]
Ups(ws) == [i \in DOMAIN ws |-> Up(RangeEnd(ws[i]))]
Starts(ws) == [i \in DOMAIN ws |-> Start(ws[i])]

\* The items of the destination's ranges.
Share(ws) == SumFunction(Ends(ws)) - SumFunction(Begins(ws))

LEMMA RangeFacts ==
  ASSUME NEW n, NEW m, Frame(n, m), NEW w, WorkerOK(w, n, m), Kept(w) \/ Fresh(w)
  PROVE  /\ RangeBegin(w) \in Nat /\ RangeEnd(w) \in Nat /\ RangeBegin(w) <= RangeEnd(w)
         /\ Start(w) \in Nat /\ Start(w) <= RangeEnd(w) /\ RangeEnd(w) <= m
<1>1. Start(w) \in Nat /\ Start(w) + Step <= m /\ m \in Nat /\ Step \in Nat
  BY WorkerPlaces, StepType DEF Frame
<1>2. CASE w.detail = None
  BY <1>1, <1>2, CoarseRange
<1>3. CASE w.detail # None
  <2>1. /\ w.end_detail \in Nat /\ w.end_detail < Size(w.detail) /\ Size(w.detail) \in Nat
        /\ w.begin_detail \in Nat /\ w.begin_detail <= w.end_detail
        /\ Start(w) + Size(w.detail) <= m
        /\ RangeEnd(w) = Start(w) + w.end_detail + (IF w.complete THEN 1 ELSE 0)
    BY <1>3, DetailPlaces
  <2>2. Start(w) + w.end_detail <= RangeEnd(w) /\ RangeEnd(w) \in Nat /\ RangeEnd(w) <= m
    BY <1>1, <2>1
  <2>3. CASE Kept(w)
    BY <1>1, <1>3, <2>1, <2>2, <2>3, KeptRange
  <2>4. CASE Fresh(w)
    BY <1>1, <2>1, <2>2, <2>4, FreshRange
  <2> QED
    BY <2>3, <2>4
<1> QED
  BY <1>2, <1>3

LEMMA Totals ==
  ASSUME NEW n, NEW m, Frame(n, m), NEW ws, Sources(ws, n, m)
  PROVE  /\ Numbers(Begins(ws), n) /\ Numbers(Ends(ws), n)
         /\ Numbers(Ups(ws), n) /\ Numbers(Starts(ws), n)
         /\ SumFunction(Begins(ws)) \in Int /\ SumFunction(Ends(ws)) \in Int
         /\ SumFunction(Ups(ws)) \in Int /\ SumFunction(Starts(ws)) \in Int
         /\ AtMost(Starts(ws), Ends(ws), 0, n)
         /\ SumFunction(Starts(ws)) <= SumFunction(Ends(ws))
         /\ SumFunction(Begins(ws)) <= SumFunction(Ends(ws))
         /\ SumFunction(Ends(ws)) <= SumFunction(Ups(ws))
         /\ SumFunction(Ups(ws)) <= SumFunction(Ends(ws)) + n * (Step - 1)
<1>1. n \in Nat /\ m \in Nat /\ Step - 1 \in Int
  BY StepType DEF Frame
<1>2. ASSUME NEW i \in 0 .. n - 1
      PROVE  /\ Begins(ws)[i] = RangeBegin(ws[i]) /\ Ends(ws)[i] = RangeEnd(ws[i])
             /\ Ups(ws)[i] = Up(RangeEnd(ws[i])) /\ Starts(ws)[i] = Start(ws[i])
             /\ Begins(ws)[i] \in Int /\ Ends(ws)[i] \in Int
             /\ Ups(ws)[i] \in Int /\ Starts(ws)[i] \in Int
             /\ Starts(ws)[i] <= Ends(ws)[i] + 0 /\ Begins(ws)[i] <= Ends(ws)[i] + 0
             /\ Ends(ws)[i] <= Ups(ws)[i] + 0 /\ Ups(ws)[i] <= Ends(ws)[i] + (Step - 1)
  <2>1. /\ Begins(ws)[i] = RangeBegin(ws[i]) /\ Ends(ws)[i] = RangeEnd(ws[i])
        /\ Ups(ws)[i] = Up(RangeEnd(ws[i])) /\ Starts(ws)[i] = Start(ws[i])
    BY DEF Sources, Begins, Ends, Ups, Starts
  <2>2. WorkerOK(ws[i], n, m) /\ (Kept(ws[i]) \/ Fresh(ws[i]))
    BY DEF Sources
  <2>3. PICK b \in Nat, e \in Nat, s \in Nat :
          b = RangeBegin(ws[i]) /\ e = RangeEnd(ws[i]) /\ s = Start(ws[i])
          /\ b <= e /\ s <= e
    BY <2>2, RangeFacts
  <2>4. Up(e) \in Int /\ e <= Up(e) /\ Up(e) <= e + (Step - 1)
    BY <2>3, UpFacts
  <2> QED
    BY <1>1, <2>1, <2>3, <2>4
<1>3. Numbers(Begins(ws), n) /\ Numbers(Ends(ws), n) /\ Numbers(Ups(ws), n)
      /\ Numbers(Starts(ws), n)
  BY <1>2 DEF Numbers, Begins, Ends, Ups, Starts, Sources
<1>4. /\ AtMost(Starts(ws), Ends(ws), 0, n) /\ AtMost(Begins(ws), Ends(ws), 0, n)
      /\ AtMost(Ends(ws), Ups(ws), 0, n) /\ AtMost(Ups(ws), Ends(ws), Step - 1, n)
  BY <1>2 DEF AtMost
<1>5. PICK b \in Int, e \in Int, u \in Int, s \in Int :
        /\ b = SumFunction(Begins(ws)) /\ e = SumFunction(Ends(ws))
        /\ u = SumFunction(Ups(ws)) /\ s = SumFunction(Starts(ws))
  BY <1>1, <1>3, SumNumbers
<1>6. s <= e + n * 0 /\ b <= e + n * 0 /\ e <= u + n * 0 /\ u <= e + n * (Step - 1)
  BY <1>1, <1>3, <1>4, <1>5, SumAtMost
<1>7. n * 0 = 0
  BY <1>1
<1> QED
  BY <1>3, <1>4, <1>5, <1>6, <1>7

\* What the items of the ranges are counted by.
LEMMA ShareOf ==
  ASSUME NEW n, NEW m, Frame(n, m), NEW ws, Sources(ws, n, m),
         NEW f, DOMAIN f = 0 .. n - 1,
         \A i \in 0 .. n - 1 : f[i] = RangeEnd(ws[i]) - RangeBegin(ws[i])
  PROVE  SumFunction(f) = Share(ws) /\ Share(ws) \in Nat
<1>1. n \in Nat /\ Numbers(Begins(ws), n) /\ Numbers(Ends(ws), n)
  BY Totals DEF Frame
<1>2. \A i \in 0 .. n - 1 : f[i] = Ends(ws)[i] - Begins(ws)[i]
  BY DEF Sources, Begins, Ends
<1>3. Numbers(f, n)
  BY <1>1, <1>2 DEF Numbers
<1>4. SumFunction(f) = SumFunction(Ends(ws)) - SumFunction(Begins(ws))
  BY <1>1, <1>2, <1>3, SumMinus
<1>5. Share(ws) \in Nat
  BY Totals DEF Share
<1> QED
  BY <1>4, <1>5 DEF Share

\* vs is ws after an iteration that moved the cursor of source k.
Forward(ws, vs, k, n, m) ==
  /\ DOMAIN vs = 0 .. n - 1 /\ k \in 0 .. n - 1
  /\ \A i \in 0 .. n - 1 :
       /\ WorkerOK(vs[i], n, m)
       /\ RangeBegin(vs[i]) = RangeBegin(ws[i])
       /\ ws[i].complete => vs[i].complete
       /\ vs[i].detail # None => ws[i].detail # None /\ Start(vs[i]) = Start(ws[i])
       /\ i # k => RangeEnd(vs[i]) = RangeEnd(ws[i])
  /\ RangeEnd(vs[k]) = RangeEnd(ws[k]) + (IF vs[k].detail = None THEN Step ELSE 1)

LEMMA ForwardTotals ==
  ASSUME NEW n, NEW m, Frame(n, m), NEW ws, Sources(ws, n, m),
         NEW vs, NEW k, Forward(ws, vs, k, n, m), Sources(vs, n, m)
  PROVE  /\ Begins(vs) = Begins(ws)
         /\ SumFunction(Ends(vs))
              = SumFunction(Ends(ws)) + (IF vs[k].detail = None THEN Step ELSE 1)
         /\ (\A i \in 0 .. n - 1 : vs[i].detail # None) =>
              Starts(vs) = Starts(ws) /\ \A i \in 0 .. n - 1 : ws[i].detail # None
<1>1. n \in Nat /\ Numbers(Ends(ws), n) /\ Numbers(Ends(vs), n) /\ k \in 0 .. n - 1
      /\ DOMAIN ws = 0 .. n - 1 /\ DOMAIN vs = 0 .. n - 1
  BY Totals DEF Frame, Forward, Sources
<1>2. Begins(vs) = Begins(ws)
  BY <1>1 DEF Begins, Forward
<1>3. PICK c \in Int : c = IF vs[k].detail = None THEN Step ELSE 1
  BY StepType
<1>4. SumFunction(Ends(vs)) = SumFunction(Ends(ws)) + c
  <2>1. \A i \in (0 .. n - 1) \ {k} : Ends(vs)[i] = Ends(ws)[i]
    BY <1>1 DEF Ends, Forward
  <2>2. Ends(vs)[k] = Ends(ws)[k] + c
    BY <1>1, <1>3 DEF Ends, Forward
  <2> QED
    BY <1>1, <2>1, <2>2, SumChanged
<1>5. ASSUME \A i \in 0 .. n - 1 : vs[i].detail # None
      PROVE  Starts(vs) = Starts(ws) /\ \A i \in 0 .. n - 1 : ws[i].detail # None
  BY <1>1, <1>5 DEF Starts, Forward
<1> QED
  BY <1>2, <1>3, <1>4, <1>5

-----------------------------------------------------------------------------
(* A destination's share, d, before and after its round of requests. *)

\* As long as no details were asked the share cannot fill up, not even when the
\* details that were kept are used up to the next coarse item.
Gathering(ws, count, d, n, m) ==
  /\ \A i \in 0 .. n - 1 : Kept(ws[i])
  /\ count <= Share(ws)
  /\ SumFunction(Ups(ws)) - SumFunction(Begins(ws)) < m
  /\ (\A i \in 0 .. n - 1 : ws[i].detail # None) =>
       /\ SumFunction(Ups(ws)) <= d * m + n * (Step - 1)
       /\ d * m <= SumFunction(Starts(ws)) + n * Step

\* The details that were asked reach to the end of the share, or of an array.
Finishing(ws, count, d, n, m) ==
  /\ \A i \in 0 .. n - 1 : Fresh(ws[i])
  /\ count = Share(ws) /\ count <= m
  /\ SumFunction(Begins(ws)) + m <= SumFunction(Starts(ws)) + n * Step

LEMMA GatherForward ==
  ASSUME NEW n, NEW m, Frame(n, m), NEW d \in Nat,
         NEW ws, Sources(ws, n, m), NEW count, Gathering(ws, count, d, n, m),
         NEW vs, NEW k, Forward(ws, vs, k, n, m), \A i \in 0 .. n - 1 : Kept(vs[i]),
         vs[k].detail # None => ~ Aligned(RangeEnd(ws[k])),
         vs[k].detail = None => Share(vs) + n * Step < m
  PROVE  Sources(vs, n, m) /\ Gathering(vs, Share(vs), d, n, m)
<1>1. Sources(vs, n, m)
  BY DEF Sources, Forward
<1>2. /\ Begins(vs) = Begins(ws)
      /\ (\A i \in 0 .. n - 1 : vs[i].detail # None) =>
           Starts(vs) = Starts(ws) /\ \A i \in 0 .. n - 1 : ws[i].detail # None
  BY <1>1, ForwardTotals
<1>3. PICK b \in Int, e \in Int, u \in Int, x \in Nat, y \in Int :
        /\ b = SumFunction(Begins(vs)) /\ e = SumFunction(Ends(vs))
        /\ u = SumFunction(Ups(vs)) /\ x = n * Step /\ y = n * (Step - 1)
        /\ e <= u /\ u <= e + y
  <2>1. n * Step \in Nat /\ n * (Step - 1) \in Int
    BY StepType DEF Frame
  <2> QED
    BY <1>1, <2>1, Totals
<1>4. Share(vs) = e - b
  BY <1>3 DEF Share
<1>5. y <= x /\ m \in Nat
  BY <1>3, StepType DEF Frame
<1>6. k \in 0 .. n - 1 /\ DOMAIN ws = 0 .. n - 1 /\ DOMAIN vs = 0 .. n - 1
  BY DEF Forward, Sources
<1>7. vs[k].detail # None => Ups(vs) = Ups(ws)
  <2> SUFFICES ASSUME vs[k].detail # None PROVE Ups(vs) = Ups(ws)
    OBVIOUS
  <2>1. PICK p \in Int : p = RangeEnd(ws[k])
    BY <1>6, RangeFacts DEF Sources
  <2>2. Up(p + 1) = Up(p)
    BY <2>1, UpFacts
  <2>3. RangeEnd(vs[k]) = p + 1
    BY <2>1 DEF Forward
  <2>4. \A i \in 0 .. n - 1 : Up(RangeEnd(vs[i])) = Up(RangeEnd(ws[i]))
    BY <2>1, <2>2, <2>3 DEF Forward
  <2> QED
    BY <1>6, <2>4 DEF Ups
<1>8. SumFunction(Ups(vs)) - SumFunction(Begins(vs)) < m
  <2>1. CASE vs[k].detail = None
    BY <1>3, <1>4, <1>5, <2>1
  <2>2. CASE vs[k].detail # None
    BY <1>2, <1>7, <2>2 DEF Gathering
  <2> QED
    BY <2>1, <2>2
<1>9. (\A i \in 0 .. n - 1 : vs[i].detail # None) =>
        /\ SumFunction(Ups(vs)) <= d * m + n * (Step - 1)
        /\ d * m <= SumFunction(Starts(vs)) + n * Step
  BY <1>2, <1>6, <1>7 DEF Gathering
<1>10. Share(vs) <= Share(vs)
  BY <1>3, <1>4
<1> QED
  BY <1>1, <1>8, <1>9, <1>10 DEF Gathering

LEMMA FinishForward ==
  ASSUME NEW n, NEW m, Frame(n, m), NEW d \in Nat,
         NEW ws, Sources(ws, n, m), NEW count, Finishing(ws, count, d, n, m), count < m,
         NEW vs, NEW k, Forward(ws, vs, k, n, m), \A i \in 0 .. n - 1 : Fresh(vs[i])
  PROVE  Sources(vs, n, m) /\ Finishing(vs, Share(vs), d, n, m)
<1>1. Sources(vs, n, m)
  BY DEF Sources, Forward
<1>2. k \in 0 .. n - 1 /\ \A i \in 0 .. n - 1 : vs[i].detail # None
  BY DEF Forward, Fresh
<1>3. /\ Begins(vs) = Begins(ws) /\ Starts(vs) = Starts(ws)
      /\ SumFunction(Ends(vs)) = SumFunction(Ends(ws)) + 1
  BY <1>1, <1>2, ForwardTotals
<1>4. PICK b \in Int, e \in Int : b = SumFunction(Begins(ws)) /\ e = SumFunction(Ends(ws))
  BY Totals
<1>5. Share(vs) = (e + 1) - b /\ count = e - b
  BY <1>3, <1>4 DEF Share, Finishing
<1>6. Share(vs) <= m
  BY <1>4, <1>5 DEF Frame
<1> QED
  BY <1>1, <1>3, <1>6 DEF Finishing

LEMMA AlignedProduct ==
  ASSUME NEW n, NEW m, Frame(n, m), NEW d \in Nat
  PROVE  Aligned(d * m) /\ d * m \in Nat /\ (d + 1) * m = d * m + m
<1>1. m \in Nat /\ Aligned(m)
  BY DEF Frame
<1>2. PICK k \in Int : m = Step * k
  BY <1>1, AlignedTimes
<1>3. d * m = Step * (d * k) /\ d * k \in Int /\ d * m \in Nat
  BY <1>1, <1>2, StepType
<1>4. Aligned(d * m)
  BY <1>3, AlignedTimes
<1> QED
  BY <1>1, <1>3, <1>4

\* us are the workers of vs with the details that they were answered.
Answered(us, vs, n, m) ==
  /\ DOMAIN us = 0 .. n - 1
  /\ \A i \in 0 .. n - 1 :
       /\ WorkerOK(us[i], n, m) /\ Fresh(us[i]) /\ Start(us[i]) = Start(vs[i])
       /\ RangeBegin(us[i]) = RangeBegin(vs[i]) /\ RangeEnd(us[i]) = RangeEnd(vs[i])

AllCoarse(vs, n) == \A i \in 0 .. n - 1 : vs[i].detail = None

\* The round of requests: vs is ws after the last move, us has the details.
LEMMA AskTotals ==
  ASSUME NEW n, NEW m, Frame(n, m), NEW d \in Nat,
         NEW ws, Sources(ws, n, m), NEW count, Gathering(ws, count, d, n, m),
         SumFunction(Begins(ws)) = d * m,
         NEW vs, NEW k, Forward(ws, vs, k, n, m),
         AllCoarse(vs, n), m <= Share(vs) + n * Step,
         NEW us, Answered(us, vs, n, m)
  PROVE  /\ Sources(us, n, m) /\ Finishing(us, Share(vs), d, n, m)
         /\ Begins(us) = Begins(ws)
<1>0. /\ DOMAIN us = 0 .. n - 1 /\ \A i \in 0 .. n - 1 : vs[i].detail = None
      /\ \A i \in 0 .. n - 1 :
           /\ WorkerOK(us[i], n, m) /\ Fresh(us[i]) /\ Start(us[i]) = Start(vs[i])
           /\ RangeBegin(us[i]) = RangeBegin(vs[i]) /\ RangeEnd(us[i]) = RangeEnd(vs[i])
  BY DEF Answered, AllCoarse
<1>1. Sources(vs, n, m) /\ Sources(us, n, m)
  BY <1>0 DEF Sources, Forward, Kept
<1>2. /\ k \in 0 .. n - 1 /\ n \in Nat /\ m \in Nat /\ Aligned(m)
      /\ DOMAIN vs = 0 .. n - 1 /\ DOMAIN ws = 0 .. n - 1 /\ Step \in Int
  BY StepType DEF Forward, Sources, Frame
<1>3. /\ Begins(vs) = Begins(ws)
      /\ SumFunction(Ends(vs)) = SumFunction(Ends(ws)) + Step
  BY <1>0, <1>1, <1>2, ForwardTotals
<1>4. Begins(us) = Begins(vs) /\ Ends(us) = Ends(vs)
  BY <1>0, <1>2 DEF Begins, Ends
<1>5. ASSUME NEW i \in 0 .. n - 1
      PROVE  Aligned(RangeEnd(ws[i])) /\ RangeEnd(vs[i]) = Start(vs[i])
  <2>1. WorkerOK(vs[i], n, m) /\ vs[i].detail = None
    BY <1>0 DEF Forward
  <2>2. RangeEnd(vs[i]) = Start(vs[i]) /\ Start(vs[i]) \in Nat /\ Aligned(Start(vs[i]))
    BY <2>1, CoarseRange, WorkerPlaces
  <2>3. CASE i # k
    BY <2>2, <2>3 DEF Forward
  <2>4. CASE i = k
    <3>1. PICK p \in Int : p = RangeEnd(ws[i])
      BY RangeFacts DEF Sources
    <3>2. RangeEnd(vs[i]) = p + Step
      BY <1>0, <1>2, <2>4, <3>1 DEF Forward
    <3>3. PICK q \in Int : q = p + Step /\ Aligned(q)
      BY <1>2, <2>2, <3>2
    <3>4. Aligned(q - Step)
      BY <1>2, <3>3, AlignedBasic, AlignedPair
    <3>5. q - Step = p
      BY <1>2, <3>3
    <3> QED
      BY <2>2, <3>1, <3>4, <3>5
  <2> QED
    BY <2>3, <2>4
<1>6. Starts(us) = Ends(us)
  BY <1>0, <1>2, <1>5 DEF Starts, Ends
<1>7. PICK b \in Int, e \in Int, u \in Int :
        /\ b = SumFunction(Begins(ws)) /\ e = SumFunction(Ends(ws))
        /\ u = SumFunction(Ups(ws)) /\ e <= u
  BY Totals
<1>8. Aligned(e)
  <2>1. Numbers(Ends(ws), n) /\ \A i \in 0 .. n - 1 : Aligned(Ends(ws)[i])
    BY <1>2, <1>5, Totals DEF Ends
  <2> QED
    BY <1>2, <1>7, <2>1, SumAligned
<1>9. Aligned(b)
  BY <1>7, AlignedProduct
<1>10. (e - b) + Step <= m
  <2>1. Aligned(e - b)
    BY <1>8, <1>9, AlignedPair
  <2>2. e - b < m
    BY <1>2, <1>7 DEF Gathering
  <2> QED
    BY <1>2, <2>1, <2>2, AlignedPair
<1>11. Share(vs) = (e + Step) - b /\ Share(us) = Share(vs)
  BY <1>3, <1>4, <1>7 DEF Share
<1>12. Share(vs) <= m
  BY <1>2, <1>10, <1>11
<1>13. SumFunction(Begins(us)) + m <= SumFunction(Starts(us)) + n * Step
  <2>1. SumFunction(Begins(us)) = b /\ SumFunction(Starts(us)) = e + Step
    BY <1>3, <1>4, <1>6, <1>7
  <2>2. n * Step \in Int
    BY <1>2
  <2> QED
    BY <1>2, <1>11, <2>1, <2>2
<1>14. Finishing(us, Share(vs), d, n, m)
  BY <1>0, <1>11, <1>12, <1>13 DEF Finishing
<1> QED
  BY <1>1, <1>3, <1>4, <1>14

\* vs are the workers of ws for the next destination.
Renewed(vs, ws, n) ==
  DOMAIN vs = 0 .. n - 1 /\ \A i \in 0 .. n - 1 : vs[i] = InitHistogram(ws[i])

\* The next destination: the details are kept, and as little is left of them as
\* the share was full.
LEMMA SaveTotals ==
  ASSUME NEW n, NEW m, Frame(n, m), NEW d \in Nat,
         NEW ws, Sources(ws, n, m), NEW count, Finishing(ws, count, d, n, m), m <= count,
         SumFunction(Begins(ws)) = d * m,
         NEW vs, Renewed(vs, ws, n)
  PROVE  /\ Sources(vs, n, m) /\ Gathering(vs, 0, d + 1, n, m)
         /\ Ends(vs) = Ends(ws)
         /\ (\A i \in 0 .. n - 1 : ~ vs[i].complete) =>
              /\ \A i \in 0 .. n - 1 : RangeBegin(vs[i]) = RangeEnd(ws[i])
              /\ SumFunction(Begins(vs)) = (d + 1) * m
<1>0. DOMAIN vs = 0 .. n - 1 /\ \A i \in 0 .. n - 1 : vs[i] = InitHistogram(ws[i])
  BY DEF Renewed
<1>1. n \in Nat \ {0} /\ m \in Nat /\ n * Step <= m /\ Step \in Nat /\ 2 <= Step
      /\ DOMAIN ws = 0 .. n - 1 /\ DOMAIN vs = 0 .. n - 1
  BY <1>0, StepType DEF Frame, Sources
<1>2. ASSUME NEW i \in 0 .. n - 1
      PROVE  /\ WorkerOK(vs[i], n, m) /\ vs[i].detail # None /\ Kept(vs[i])
             /\ Start(vs[i]) = Start(ws[i]) /\ vs[i].complete = ws[i].complete
             /\ RangeEnd(vs[i]) = RangeEnd(ws[i])
             /\ RangeBegin(vs[i]) = RangeEnd(ws[i]) - (IF ws[i].complete THEN 1 ELSE 0)
             /\ RangeEnd(ws[i]) \in Nat
             /\ ws[i].complete => Aligned(RangeEnd(ws[i]))
  <2>1. WorkerOK(ws[i], n, m) /\ ws[i].detail # None /\ vs[i] = InitHistogram(ws[i])
    BY <1>0 DEF Sources, Finishing, Fresh
  <2> QED
    BY <2>1, InitMoves
<1>3. Sources(vs, n, m)
  BY <1>1, <1>2 DEF Sources
<1>4. Ends(vs) = Ends(ws) /\ Starts(vs) = Starts(ws)
  BY <1>1, <1>2 DEF Ends, Starts
<1>5. PICK D \in Nat, NS \in Int, NT \in Int :
        /\ D = d * m /\ (d + 1) * m = D + m
        /\ NS = n * Step /\ NT = n * (Step - 1) /\ NT < NS
  <2>1. n * (Step - 1) = n * Step - n /\ n * Step \in Int
    BY <1>1
  <2>2. d * m \in Nat /\ (d + 1) * m = d * m + m
    BY AlignedProduct
  <2> QED
    BY <1>1, <2>1, <2>2
<1>6. PICK b \in Int, e \in Int, u \in Int, s \in Int :
        /\ b = SumFunction(Begins(vs)) /\ e = SumFunction(Ends(vs))
        /\ u = SumFunction(Ups(vs)) /\ s = SumFunction(Starts(vs))
        /\ b <= e /\ u <= e + NT
  BY <1>3, <1>5, Totals
<1>7. e = D + m
  <2>1. count = e - D /\ count <= m /\ count \in Int
    BY <1>1, <1>4, <1>5, <1>6 DEF Finishing, Share
  <2> QED
    BY <1>1, <2>1
<1>8. D + m <= s + NS
  BY <1>4, <1>5, <1>6 DEF Finishing
<1>9. u - b < m
  <2>1. AtMost(Ups(vs), Begins(vs), Step - 1, n)
    <3>1. ASSUME NEW i \in 0 .. n - 1
          PROVE  Ups(vs)[i] <= Begins(vs)[i] + (Step - 1)
      <4>1. PICK p \in Nat : p = RangeEnd(ws[i])
        BY <1>2
      <4>2. Up(p) \in Int /\ Up(p) <= p + (Step - 1) /\ (Aligned(p) => Up(p) = p)
        BY <4>1, UpFacts
      <4>3. /\ Ups(vs)[i] = Up(p)
            /\ Begins(vs)[i] = p - (IF ws[i].complete THEN 1 ELSE 0)
            /\ ws[i].complete => Aligned(p)
        BY <1>1, <1>2, <4>1 DEF Ups, Begins
      <4> QED
        BY <1>1, <4>2, <4>3
    <3> QED
      BY <3>1 DEF AtMost
  <2>2. Numbers(Ups(vs), n) /\ Numbers(Begins(vs), n) /\ n \in Nat /\ Step - 1 \in Int
    BY <1>1, <1>3, Totals
  <2>3. SumFunction(Ups(vs)) <= SumFunction(Begins(vs)) + n * (Step - 1)
    BY <2>1, <2>2, SumAtMost
  <2> QED
    BY <1>1, <1>5, <1>6, <2>3
<1>10. Gathering(vs, 0, d + 1, n, m)
  <2>1. Share(vs) = e - b /\ 0 <= Share(vs)
    BY <1>6 DEF Share
  <2>2. \A i \in 0 .. n - 1 : Kept(vs[i])
    BY <1>2
  <2>3. SumFunction(Ups(vs)) - SumFunction(Begins(vs)) < m
    BY <1>6, <1>9
  <2>4. SumFunction(Ups(vs)) <= (d + 1) * m + n * (Step - 1)
    BY <1>5, <1>6, <1>7
  <2>5. (d + 1) * m <= SumFunction(Starts(vs)) + n * Step
    BY <1>5, <1>6, <1>8
  <2> QED
    BY <2>1, <2>2, <2>3, <2>4, <2>5 DEF Gathering
<1>11. ASSUME \A i \in 0 .. n - 1 : ~ vs[i].complete
       PROVE  /\ \A i \in 0 .. n - 1 : RangeBegin(vs[i]) = RangeEnd(ws[i])
              /\ SumFunction(Begins(vs)) = (d + 1) * m
  <2>1. \A i \in 0 .. n - 1 : RangeBegin(vs[i]) = RangeEnd(ws[i])
    BY <1>2, <1>11
  <2>2. Begins(vs) = Ends(ws)
    BY <1>1, <2>1 DEF Begins, Ends
  <2> QED
    BY <1>4, <1>5, <1>6, <1>7, <2>1, <2>2
<1> QED
  BY <1>3, <1>4, <1>10, <1>11

UsedUp(ws, n) == \A i \in 0 .. n - 1 : ws[i].detail # None /\ ws[i].complete

\* As long as a share is not complete not all details are used up.
LEMMA NotAllComplete ==
  ASSUME NEW n, NEW m, Frame(n, m), NEW d \in 0 .. n - 1,
         NEW ws, Sources(ws, n, m),
         UsedUp(ws, n), NEW count,
         \/ Gathering(ws, count, d, n, m)
         \/ Finishing(ws, count, d, n, m) /\ count < m /\ SumFunction(Begins(ws)) = d * m
  PROVE  FALSE
<1>1. n \in Nat \ {0} /\ m \in Nat /\ n * Step <= m /\ Step \in Nat /\ 2 <= Step
      /\ DOMAIN ws = 0 .. n - 1 /\ d \in Nat /\ d + 1 <= n
  BY StepType DEF Frame, Sources
<1>2. ASSUME NEW i \in 0 .. n - 1
      PROVE  /\ Ends(ws)[i] = RangeEnd(ws[i]) /\ Starts(ws)[i] = Start(ws[i])
             /\ Start(ws[i]) \in Nat /\ RangeEnd(ws[i]) \in Nat
             /\ Aligned(RangeEnd(ws[i]))
             /\ Ends(ws)[i] = Starts(ws)[i] + n * Step \/ Ends(ws)[i] = m
  <2>1. WorkerOK(ws[i], n, m) /\ ws[i].detail # None /\ ws[i].complete
    BY DEF Sources, UsedUp
  <2>2. /\ Size(ws[i].detail) \in Nat /\ Aligned(Size(ws[i].detail))
        /\ Size(ws[i].detail) = n * Step \/ Start(ws[i]) + Size(ws[i].detail) = m
        /\ RangeEnd(ws[i]) = Start(ws[i]) + Size(ws[i].detail)
    BY <2>1, DetailPlaces
  <2>3. Start(ws[i]) \in Nat /\ Aligned(Start(ws[i]))
    BY <2>1, WorkerPlaces
  <2>4. Aligned(Start(ws[i]) + Size(ws[i].detail))
    BY <2>2, <2>3, AlignedPair
  <2>5. Ends(ws)[i] = RangeEnd(ws[i]) /\ Starts(ws)[i] = Start(ws[i])
    BY <1>1 DEF Ends, Starts
  <2> QED
    BY <2>2, <2>3, <2>4, <2>5
<1>3. PICK D \in Nat, NS \in Nat, NT \in Int, NM \in Nat :
        /\ D = d * m /\ NS = n * Step /\ NT = n * (Step - 1) /\ NT < NS
        /\ NM = n * m /\ D + m <= NM
  <2>1. n * (Step - 1) = n * Step - n /\ n * Step \in Nat
    BY <1>1
  <2>2. d + 1 \in 1 .. n /\ (d + 1) - 1 = d
    BY <1>1
  <2>3. PICK c \in 1 .. n : c = d + 1
    BY <2>2
  <2>4. (c - 1) * m \in Nat /\ n * m \in Nat /\ (c - 1) * m + m = c * m /\ c * m <= n * m
    BY <1>1, ArraysBehind
  <2>5. c - 1 = d
    BY <2>2, <2>3
  <2>6. d * m \in Nat /\ d * m + m <= n * m
    BY <1>1, <2>4, <2>5
  <2> QED
    BY <1>1, <2>1, <2>4, <2>6
<1>4. /\ Numbers(Starts(ws), n) /\ Numbers(Ends(ws), n) /\ AtMost(Starts(ws), Ends(ws), 0, n)
      /\ DOMAIN Ends(ws) = 0 .. n - 1
  BY <1>1, Totals DEF Ends
<1>5. PICK b \in Int, e \in Int, u \in Int, s \in Int :
        /\ b = SumFunction(Begins(ws)) /\ e = SumFunction(Ends(ws))
        /\ u = SumFunction(Ups(ws)) /\ s = SumFunction(Starts(ws))
  BY Totals
<1> DEFINE Full(i) == Ends(ws)[i] = Starts(ws)[i] + n * Step
<1>6. ASSUME NEW y \in 0 .. n - 1, Full(y)
      PROVE  s + NS <= e
  <2>1. Starts(ws)[y] + NS <= Ends(ws)[y] /\ NS \in Int /\ n \in Nat
    BY <1>1, <1>2, <1>3, <1>6
  <2> QED
    BY <1>4, <1>5, <2>1, SumOneMore
<1>7. CASE Finishing(ws, count, d, n, m) /\ count < m /\ SumFunction(Begins(ws)) = d * m
  <2>1. count = e - b /\ b = D /\ b + m <= s + NS
    BY <1>3, <1>5, <1>7 DEF Finishing, Share
  <2>2. ASSUME NEW y \in 0 .. n - 1, Full(y) PROVE FALSE
    BY <1>1, <1>3, <1>6, <1>7, <2>1, <2>2
  <2>3. \A i \in 0 .. n - 1 : Ends(ws)[i] = m
    BY <1>2, <2>2
  <2>4. e = NM
    BY <1>1, <1>3, <1>4, <1>5, <2>3, SumConstant
  <2> QED
    BY <1>1, <1>3, <1>7, <2>1, <2>4
<1>8. CASE Gathering(ws, count, d, n, m)
  <2>1. Ups(ws) = Ends(ws)
    <3>1. \A i \in 0 .. n - 1 : Up(RangeEnd(ws[i])) = RangeEnd(ws[i])
      BY <1>2, UpFacts
    <3> QED
      BY <1>1, <3>1 DEF Ups, Ends
  <2>2. e <= D + NT /\ D <= s + NS
    BY <1>3, <1>5, <1>8, <2>1 DEF Gathering, UsedUp
  <2>3. ASSUME NEW y \in 0 .. n - 1, NEW z \in 0 .. n - 1, y # z, Full(y), Full(z)
        PROVE  FALSE
    <3>1. /\ Starts(ws)[y] + NS <= Ends(ws)[y] /\ Starts(ws)[z] + NS <= Ends(ws)[z]
          /\ NS \in Int /\ n \in Nat
      BY <1>1, <1>2, <1>3, <2>3
    <3>2. (s + NS) + NS <= e
      BY <1>4, <1>5, <2>3, <3>1, SumTwoMore
    <3> QED
      BY <1>3, <2>2, <3>2
  <2>4. PICK y \in 0 .. n - 1 : \A z \in 0 .. n - 1 : z # y => Ends(ws)[z] = m
    <3>1. CASE \E y \in 0 .. n - 1 : Full(y)
      <4>1. PICK y \in 0 .. n - 1 : Full(y)
        BY <3>1
      <4>2. \A z \in 0 .. n - 1 : z # y => ~ Full(z)
        BY <2>3, <4>1
      <4> QED
        BY <1>2, <4>2
    <3>2. CASE \A y \in 0 .. n - 1 : ~ Full(y)
      <4>1. 0 \in 0 .. n - 1
        BY <1>1
      <4> QED
        BY <1>2, <3>2, <4>1
    <3> QED
      BY <3>1, <3>2
  <2>5. NS <= Ends(ws)[y] /\ NS <= m
    <3>1. NS <= m
      BY <1>1, <1>3
    <3>2. Ends(ws)[y] = Starts(ws)[y] + NS \/ Ends(ws)[y] = m
      BY <1>2, <1>3
    <3>3. Starts(ws)[y] \in Nat
      BY <1>2
    <3> QED
      BY <1>1, <3>1, <3>2, <3>3
  <2>6. PICK f : f = [i \in 0 .. n - 1 |-> m]
    OBVIOUS
  <2>7. PICK g : g = [i \in 0 .. n - 1 |-> IF i = y THEN NS ELSE m]
    OBVIOUS
  <2>8. Numbers(f, n) /\ Numbers(g, n)
    BY <1>1, <2>6, <2>7 DEF Numbers
  <2>9. SumFunction(f) = NM
    BY <1>1, <1>3, <2>6, SumConstant
  <2>10. SumFunction(g) = NM + (NS - m)
    <3>1. PICK c \in Int : c = NS - m
      BY <1>1
    <3>2. g[y] = f[y] + c /\ \A i \in (0 .. n - 1) \ {y} : g[i] = f[i]
      BY <1>1, <2>6, <2>7, <3>1
    <3>3. n \in Nat
      BY <1>1
    <3>4. SumFunction(g) = SumFunction(f) + c
      BY <2>8, <3>2, <3>3, SumChanged
    <3> QED
      BY <2>9, <3>1, <3>4
  <2>11. AtMost(g, Ends(ws), 0, n)
    <3>1. ASSUME NEW i \in 0 .. n - 1 PROVE g[i] <= Ends(ws)[i] + 0
      <4>1. CASE i = y
        BY <1>2, <2>5, <2>7, <4>1
      <4>2. CASE i # y
        BY <1>1, <2>4, <2>7, <4>2
      <4> QED
        BY <4>1, <4>2
    <3> QED
      BY <3>1 DEF AtMost
  <2>12. SumFunction(g) <= e + n * 0
    BY <1>1, <1>4, <1>5, <2>8, <2>11, SumAtMost
  <2>13. NM + (NS - m) <= e
    <3>1. n * 0 = 0
      BY <1>1
    <3> QED
      BY <2>10, <2>12, <3>1
  <2> QED
    BY <1>1, <1>3, <2>2, <2>13
<1> QED
  BY <1>7, <1>8

-----------------------------------------------------------------------------
(* The inductive invariant. *)

Rounds == Seq([dest : Nat, complete : BOOLEAN])

Ranges(n) == [0 .. n - 1 -> [first : Int, last : Int]]

\* The destination at hand has not asked for details.
NoAskYet == allow_remove \/ asked = <<>>

\* One round for a destination at most, the complete one for the last of the n.
OnceAsked(asks, d, n) ==
  \A k \in 1 .. Len(asks) :
    /\ asks[k].dest <= d
    /\ asks[k].complete <=> asks[k].dest + 1 >= n
    /\ \A l \in 1 .. Len(asks) : k < l => asks[k].dest < asks[l].dest

\* The ranges of destination d begin where the ones before end.
Continues(ws, res, d, n, m) ==
  /\ \A i \in 0 .. n - 1 : RangeBegin(ws[i]) = IF d = 0 THEN 0 ELSE res[d][i].last + 1
  /\ SumFunction(Begins(ws)) = d * m

Controls ==
  /\ dest \in 0 .. NodeCount - 1
  /\ range_count \in Int /\ last_requested \in BOOLEAN /\ allow_remove \in BOOLEAN
  /\ asked \in Rounds
  /\ result \in Seq(Ranges(NodeCount)) /\ Len(result) = dest

RoundsInv ==
  /\ OnceAsked(asked, dest, NodeCount)
  /\ NoAskYet => \A k \in 1 .. Len(asked) : asked[k].dest < dest
  /\ ~ NoAskYet => asked[Len(asked)].dest = dest

\* A worker whose details are used up has the item at its cursor counted twice: its
\* range is not the next one, but no such destination is ever saved.
WorkersInv ==
  /\ Sources(workers, NodeCount, ItemsCount)
  /\ asked = <<>> => \A i \in 0 .. NodeCount - 1 : workers[i].detail = None
  /\ NoAskYet => /\ ~ last_requested
                 /\ Gathering(workers, range_count, dest, NodeCount, ItemsCount)
  /\ ~ NoAskYet => Finishing(workers, range_count, dest, NodeCount, ItemsCount)
  /\ ~ (NoAskYet /\ \E i \in 0 .. NodeCount - 1 : workers[i].complete) =>
       Continues(workers, result, dest, NodeCount, ItemsCount)

AnalysisInv ==
  /\ array \in Inputs
  /\ RangesContiguous
  /\ AsksWhenLast
  /\ status = "run" => Controls /\ RoundsInv /\ WorkersInv

-----------------------------------------------------------------------------
(* An iteration of the inner loop. *)

LEMMA FrameOf ==
  ASSUME array \in Inputs
  PROVE  /\ Frame(NodeCount, ItemsCount) /\ Nodes = 0 .. NodeCount - 1
         /\ DOMAIN array = 0 .. NodeCount - 1
         /\ \A i \in 0 .. NodeCount - 1 : array[i] \in [0 .. ItemsCount - 1 -> Nat]
<1>1. PICK n, m : n = NodeCount /\ m = ItemsCount
  OBVIOUS
<1>2. /\ n \in Nat \ {0} /\ m \in Nat \ {0} /\ m % Step = 0 /\ n * Step <= m
      /\ array \in [0 .. n - 1 -> [0 .. m - 1 -> Nat]]
  BY <1>1, AnalyzerAssumption DEF NodeCount, ItemsCount, Nodes
<1> QED
  BY <1>1, <1>2 DEF Frame, Aligned, Nodes

LEMMA CursorValue ==
  ASSUME NEW n, NEW m, Frame(n, m), NEW w, WorkerOK(w, n, m)
  PROVE  /\ ValueAtCursor(w) \in SUBSET Nat
         /\ \A x, y \in ValueAtCursor(w) : x = y
         /\ ValueAtCursor(w) = {} => w.detail # None /\ w.complete
<1>1. CASE w.detail = None
  <2>1. ~ w.complete /\ w.end_hist \in 0 .. Blocks(m) - 1 /\ Blocks(m) \in Nat
        /\ Size(w.hist) = Blocks(m)
    BY <1>1, BlocksOf, WorkerPlaces DEF WorkerOK
  <2>2. w.end_hist < Size(w.hist)
    BY <2>1
  <2>3. ValueAtCursor(w) = {w.hist[w.end_hist].item}
    BY <1>1, <2>1, <2>2 DEF ValueAtCursor
  <2>4. w.hist[w.end_hist].item \in Nat
    BY <2>1 DEF WorkerOK, CoarseHist
  <2> QED
    BY <2>3, <2>4
<1>2. CASE w.detail # None
  <2>1. w.end_detail < Size(w.detail) /\ w.detail[w.end_detail].item \in Nat
    BY <1>2, DetailPlaces
  <2>2. ValueAtCursor(w) = IF ~ w.complete THEN {w.detail[w.end_detail].item} ELSE {}
    BY <1>2, <2>1 DEF ValueAtCursor
  <2> QED
    BY <1>2, <2>1, <2>2
<1> QED
  BY <1>1, <1>2

\* There is a least item at the cursors, so the loop has a source to go on with.
LEMMA SmallestFound ==
  ASSUME array \in Inputs, NEW ws,
         \A i \in 0 .. NodeCount - 1 : WorkerOK(ws[i], NodeCount, ItemsCount),
         Candidates(ws) # {}
  PROVE  Smallest(ws) \in 0 .. NodeCount - 1 /\ ValueAtCursor(ws[Smallest(ws)]) # {}
<1>1. PICK n, m : n = NodeCount /\ m = ItemsCount
  OBVIOUS
<1>2. Frame(n, m) /\ n \in Nat /\ Nodes = 0 .. n - 1
  BY <1>1, FrameOf DEF Frame
<1>3. \A i \in 0 .. n - 1 : /\ ValueAtCursor(ws[i]) \in SUBSET Nat
                            /\ \A x, y \in ValueAtCursor(ws[i]) : x = y
  BY <1>1, <1>2, CursorValue
<1>4. Candidates(ws) = {i \in 0 .. n - 1 : ValueAtCursor(ws[i]) # {}}
  BY <1>2 DEF Candidates
<1> DEFINE T == {x \in Nat : \E i \in Candidates(ws) : x \in ValueAtCursor(ws[i])}
           C == {i \in Candidates(ws) :
                   \A j \in Candidates(ws) :
                     \A x \in ValueAtCursor(ws[i]), y \in ValueAtCursor(ws[j]) : x <= y}
<1>5. T \in SUBSET Nat /\ T # {}
  <2>1. PICK i \in Candidates(ws) : TRUE
    OBVIOUS
  <2>2. PICK x : x \in ValueAtCursor(ws[i])
    BY <1>4, <2>1
  <2>3. x \in T
    BY <1>3, <1>4, <2>1, <2>2
  <2> QED
    BY <2>3
<1>6. \A j \in Candidates(ws) : \A y \in ValueAtCursor(ws[j]) : y \in T
  BY <1>3, <1>4
<1>7. \A x \in T : \E i \in Candidates(ws) : x \in ValueAtCursor(ws[i])
  OBVIOUS
<1> HIDE DEF T
<1>8. PICK x \in T : \A y \in T : x <= y
  BY <1>5, LeastNumber
<1>9. PICK i \in Candidates(ws) : x \in ValueAtCursor(ws[i])
  BY <1>7, <1>8
<1>10. i \in C
  <2>1. ASSUME NEW j \in Candidates(ws), NEW v \in ValueAtCursor(ws[i]),
               NEW y \in ValueAtCursor(ws[j])
        PROVE  v <= y
    <3>1. v = x
      BY <1>3, <1>4, <1>9
    <3>2. y \in T
      BY <1>6
    <3> QED
      BY <1>8, <3>1, <3>2
  <2> QED
    BY <2>1
<1>11. C \in SUBSET (0 .. n - 1) /\ C \in SUBSET Candidates(ws)
  BY <1>4
<1>12. Smallest(ws) = Max(C)
  BY DEF Smallest
<1> HIDE DEF C
<1>13. PICK k \in C : \A j \in C : j <= k
  <2>1. C \in SUBSET Nat /\ C # {} /\ \A j \in C : j <= n
    BY <1>2, <1>10, <1>11
  <2> QED
    BY <1>2, <2>1, GreatestNumber
<1>14. Max(C) \in C
  <2>1. \A j \in C : k >= j
    BY <1>2, <1>11, <1>13
  <2> QED
    BY <2>1 DEF Max
<1> QED
  BY <1>1, <1>4, <1>11, <1>12, <1>14

LEMMA CheckedFacts ==
  ASSUME array \in Inputs, Controls, WorkersInv
  PROVE  /\ DOMAIN Checked = 0 .. NodeCount - 1
         /\ NoAskYet => \A i \in 0 .. NodeCount - 1 :
                          RemovedFrom(workers[i], Checked[i], NodeCount, ItemsCount)
         /\ ~ NoAskYet => Checked = workers
         /\ \A i \in 0 .. NodeCount - 1 : WorkerOK(Checked[i], NodeCount, ItemsCount)
<1>1. PICK n, m : n = NodeCount /\ m = ItemsCount
  OBVIOUS
<1>2. Frame(n, m) /\ Nodes = 0 .. n - 1 /\ Sources(workers, n, m)
  BY <1>1, FrameOf DEF WorkersInv
<1>3. CASE NoAskYet
  <2>1. ~ last_requested /\ \A i \in 0 .. n - 1 : Kept(workers[i])
    BY <1>1, <1>3 DEF WorkersInv, Gathering
  <2>2. CASE allow_remove
    <3>1. Checked = [i \in Nodes |-> CheckRemove(workers[i])]
      BY <2>1, <2>2 DEF Checked
    <3>2. \A i \in 0 .. n - 1 : RemovedFrom(workers[i], CheckRemove(workers[i]), n, m)
      BY <1>2, <2>1, CheckRemoves DEF Sources
    <3> QED
      BY <1>1, <1>2, <1>3, <3>1, <3>2 DEF RemovedFrom
  <2>3. CASE ~ allow_remove
    <3>1. Checked = workers
      BY <2>3 DEF Checked
    <3>2. \A i \in 0 .. n - 1 : workers[i].detail = None
      BY <1>1, <1>3, <2>3 DEF WorkersInv, NoAskYet
    <3>3. \A i \in 0 .. n - 1 : RemovedFrom(workers[i], workers[i], n, m)
      BY <1>2, <3>2 DEF RemovedFrom, KeptPast, Sources
    <3> QED
      BY <1>1, <1>2, <1>3, <3>1, <3>3 DEF RemovedFrom, Sources
  <2> QED
    BY <2>2, <2>3
<1>4. CASE ~ NoAskYet
  <2>1. Checked = workers
    BY <1>4 DEF NoAskYet, Checked
  <2> QED
    BY <1>1, <1>2, <1>4, <2>1 DEF Sources
<1> QED
  BY <1>3, <1>4

\* What an iteration does to the workers, before and after the round of requests.
Iterated(k) ==
  /\ Forward(workers, Moved, k, NodeCount, ItemsCount)
  /\ Sources(Moved, NodeCount, ItemsCount)
  /\ NoAskYet => /\ \A i \in 0 .. NodeCount - 1 : Kept(Moved[i])
                 /\ Moved[k].detail # None => ~ Aligned(RangeEnd(workers[k]))
  /\ ~ NoAskYet => \A i \in 0 .. NodeCount - 1 : Fresh(Moved[i])
  /\ Moved[k].detail = None => LengthCurrent(Moved[k]) = Step
  /\ SizeAllProcessed(Moved) = Share(Moved) /\ Share(Moved) \in Nat

LEMMA Iteration ==
  ASSUME array \in Inputs, Controls, WorkersInv, Candidates(Checked) # {}, ~ Overreads
  PROVE  Iterated(Smallest(Checked))
<1>1. PICK n, m, k : n = NodeCount /\ m = ItemsCount /\ k = Smallest(Checked)
  OBVIOUS
<1>2. Frame(n, m) /\ Nodes = 0 .. n - 1 /\ Sources(workers, n, m)
  BY <1>1, FrameOf DEF WorkersInv
<1>3. /\ DOMAIN Checked = 0 .. n - 1
      /\ NoAskYet => \A i \in 0 .. n - 1 : RemovedFrom(workers[i], Checked[i], n, m)
      /\ ~ NoAskYet => Checked = workers
      /\ \A i \in 0 .. n - 1 : WorkerOK(Checked[i], n, m)
  BY <1>1, CheckedFacts
<1>4. k \in 0 .. n - 1 /\ ValueAtCursor(Checked[k]) # {}
  BY <1>1, <1>3, SmallestFound
<1>5. /\ DOMAIN Moved = 0 .. n - 1 /\ Moved[k] = SetNext(Checked[k])
      /\ \A i \in 0 .. n - 1 : i # k => Moved[i] = Checked[i]
  BY <1>1, <1>3, <1>4 DEF Moved
<1>6. MovedFrom(Checked[k], Moved[k], n, m)
  <2>1. ~ (Moved[k].detail = None /\ PastCoarse(Moved[k]))
    BY <1>2, <1>4 DEF Overreads
  <2> QED
    BY <1>2, <1>3, <1>4, <1>5, <2>1, NextMoves
<1>7. ASSUME NEW i \in 0 .. n - 1
      PROVE  /\ WorkerOK(Moved[i], n, m) /\ Moved[i].detail = Checked[i].detail
             /\ RangeBegin(Moved[i]) = RangeBegin(Checked[i])
             /\ Checked[i].complete => Moved[i].complete
             /\ Moved[i].detail # None => Start(Moved[i]) = Start(Checked[i])
             /\ KeptPast(Checked[i]) => Kept(Moved[i])
             /\ Fresh(Checked[i]) => Fresh(Moved[i])
  <2>1. CASE i = k
    BY <1>6, <2>1 DEF MovedFrom
  <2>2. CASE i # k
    BY <1>3, <1>5, <2>2 DEF KeptPast, Kept
  <2> QED
    BY <2>1, <2>2
<1>8. RangeEnd(Moved[k]) = RangeEnd(Checked[k]) + (IF Moved[k].detail = None THEN Step ELSE 1)
  BY <1>6 DEF MovedFrom
<1>9. ASSUME NoAskYet
      PROVE  /\ Forward(workers, Moved, k, n, m) /\ \A i \in 0 .. n - 1 : Kept(Moved[i])
             /\ Moved[k].detail # None => ~ Aligned(RangeEnd(workers[k]))
  <2>1. ASSUME NEW i \in 0 .. n - 1
        PROVE  /\ KeptPast(Checked[i]) /\ RangeBegin(Checked[i]) = RangeBegin(workers[i])
               /\ RangeEnd(Checked[i]) = RangeEnd(workers[i])
               /\ Checked[i].complete = workers[i].complete
               /\ Checked[i].detail # None =>
                    Checked[i] = workers[i]
                      /\ (Checked[i].complete \/ ~ Aligned(RangeEnd(Checked[i])))
    BY <1>3, <1>9 DEF RemovedFrom
  <2>2. \A i \in 0 .. n - 1 : Kept(Moved[i])
    BY <1>7, <2>1
  <2>3. Moved[k].detail # None => ~ Aligned(RangeEnd(workers[k]))
    <3>1. ~ Checked[k].complete
      BY <1>6 DEF MovedFrom
    <3> QED
      BY <1>4, <1>7, <2>1, <3>1
  <2>4. ASSUME NEW i \in 0 .. n - 1
        PROVE  /\ WorkerOK(Moved[i], n, m)
               /\ RangeBegin(Moved[i]) = RangeBegin(workers[i])
               /\ workers[i].complete => Moved[i].complete
               /\ Moved[i].detail # None =>
                    workers[i].detail # None /\ Start(Moved[i]) = Start(workers[i])
               /\ i # k => RangeEnd(Moved[i]) = RangeEnd(workers[i])
    BY <1>5, <1>7, <2>1
  <2>5. RangeEnd(Moved[k]) = RangeEnd(workers[k])
                               + (IF Moved[k].detail = None THEN Step ELSE 1)
    BY <1>4, <1>8, <2>1
  <2> QED
    BY <1>4, <1>5, <2>2, <2>3, <2>4, <2>5 DEF Forward
<1>10. ASSUME ~ NoAskYet
       PROVE  Forward(workers, Moved, k, n, m) /\ \A i \in 0 .. n - 1 : Fresh(Moved[i])
  <2>1. Checked = workers /\ \A i \in 0 .. n - 1 : Fresh(workers[i])
    BY <1>1, <1>3, <1>10 DEF WorkersInv, Finishing
  <2>2. \A i \in 0 .. n - 1 : i # k => RangeEnd(Moved[i]) = RangeEnd(workers[i])
    BY <1>5, <2>1
  <2> QED
    BY <1>4, <1>5, <1>7, <1>8, <2>1, <2>2 DEF Forward
<1>11. Sources(Moved, n, m)
  BY <1>5, <1>7, <1>9, <1>10 DEF Sources
<1>12. SizeAllProcessed(Moved) = Share(Moved) /\ Share(Moved) \in Nat
  <2>1. PICK f : f = [i \in Nodes |-> RangeEnd(Moved[i]) - RangeBegin(Moved[i])]
    OBVIOUS
  <2>2. SizeAllProcessed(Moved) = SumFunction(f)
    BY <2>1 DEF SizeAllProcessed
  <2>3. /\ DOMAIN f = 0 .. n - 1
        /\ \A i \in 0 .. n - 1 : f[i] = RangeEnd(Moved[i]) - RangeBegin(Moved[i])
    BY <1>2, <2>1
  <2>4. SumFunction(f) = Share(Moved) /\ Share(Moved) \in Nat
    BY <1>2, <1>11, <2>3, ShareOf
  <2> QED
    BY <2>2, <2>4
<1>13. Moved[k].detail = None => LengthCurrent(Moved[k]) = Step
  BY <1>6 DEF MovedFrom
<1> QED
  BY <1>1, <1>9, <1>10, <1>11, <1>12, <1>13 DEF Iterated

-----------------------------------------------------------------------------
(* The steps keep the invariant. *)

LEMMA SameArray ==
  ASSUME array' = array
  PROVE  Nodes' = Nodes /\ NodeCount' = NodeCount /\ ItemsCount' = ItemsCount
BY DEF Nodes, NodeCount, ItemsCount

LEMMA SameResult ==
  ASSUME AnalysisInv, array' = array, result' = result
  PROVE  array' \in Inputs /\ RangesContiguous'
<1>1. Nodes' = Nodes /\ ItemsCount' = ItemsCount
  BY SameArray
<1>2. RangesContiguous
  BY DEF AnalysisInv
<1> QED
  BY <1>1, <1>2 DEF AnalysisInv, RangesContiguous

\* An analysis that went wrong has not ended normally.
LEMMA NotDone ==
  ASSUME status' # "done"
  PROVE  AsksWhenLast'
BY DEF AsksWhenLast

LEMMA InitAnalysis == Init => AnalysisInv
<1> SUFFICES ASSUME Init PROVE AnalysisInv
  OBVIOUS
<1>1. PICK n, m : n = NodeCount /\ m = ItemsCount
  OBVIOUS
<1>2. /\ Frame(n, m) /\ Nodes = 0 .. n - 1 /\ n \in Nat \ {0} /\ m \in Nat /\ n * Step <= m
      /\ \A i \in 0 .. n - 1 : array[i] \in [0 .. m - 1 -> Nat]
  BY <1>1, FrameOf DEF Init, Frame
<1>3. \A i \in 0 .. n - 1 : workers[i] = NewWorker(array[i]) /\ DOMAIN workers = 0 .. n - 1
  BY <1>2 DEF Init
<1>4. ASSUME NEW i \in 0 .. n - 1
      PROVE  /\ WorkerOK(workers[i], n, m) /\ workers[i].detail = None
             /\ RangeBegin(workers[i]) = 0 /\ RangeEnd(workers[i]) = 0
  <2>1. array[i] \in [0 .. m - 1 -> Nat] /\ workers[i] = NewWorker(array[i])
    BY <1>2, <1>3
  <2> QED
    BY <1>2, <2>1, NewWorkerOK
<1>5. DOMAIN workers = 0 .. n - 1
  BY <1>2 DEF Init
<1>6. Sources(workers, n, m)
  BY <1>4, <1>5 DEF Sources, Kept
<1>7. SumFunction(Begins(workers)) = 0 /\ SumFunction(Ends(workers)) = 0
      /\ SumFunction(Ups(workers)) = 0
  <2>1. Up(0) = 0
    BY AlignedBasic, UpFacts
  <2>2. /\ DOMAIN Begins(workers) = 0 .. n - 1 /\ DOMAIN Ends(workers) = 0 .. n - 1
        /\ DOMAIN Ups(workers) = 0 .. n - 1
        /\ \A i \in 0 .. n - 1 : Begins(workers)[i] = 0 /\ Ends(workers)[i] = 0
                                 /\ Ups(workers)[i] = 0
    BY <1>4, <1>5, <2>1 DEF Begins, Ends, Ups
  <2>3. n \in Nat /\ n * 0 = 0
    BY <1>2
  <2>4. SumFunction(Begins(workers)) = n * 0
    BY <2>2, <2>3, SumConstant
  <2>5. SumFunction(Ends(workers)) = n * 0
    BY <2>2, <2>3, SumConstant
  <2>6. SumFunction(Ups(workers)) = n * 0
    BY <2>2, <2>3, SumConstant
  <2> QED
    BY <2>3, <2>4, <2>5, <2>6
<1>8. dest = 0 /\ range_count = 0 /\ asked = <<>> /\ result = <<>> /\ array \in Inputs
      /\ 0 \in 0 .. n - 1
  BY <1>2 DEF Init
<1>9. ~ last_requested /\ ~ allow_remove /\ last_requested \in BOOLEAN /\ allow_remove \in BOOLEAN
      /\ status # "done"
  BY DEF Init
<1>10. Controls
  BY <1>1, <1>8, <1>9 DEF Controls, Rounds
<1>11. RoundsInv
  <2>1. Len(asked) = 0 /\ 1 .. 0 = {}
    BY <1>8
  <2> QED
    BY <1>8, <2>1 DEF RoundsInv, OnceAsked, NoAskYet
<1>12. Gathering(workers, 0, 0, n, m)
  <2>1. Share(workers) = 0
    BY <1>7 DEF Share
  <2>2. ~ (\A i \in 0 .. n - 1 : workers[i].detail # None)
    BY <1>4, <1>8
  <2>3. 0 < m
    BY <1>2, StepType DEF Frame
  <2> QED
    BY <1>4, <1>7, <2>1, <2>2, <2>3 DEF Gathering, Kept
<1>13. Continues(workers, result, 0, n, m)
  <2>1. 0 * m = 0
    BY <1>2
  <2> QED
    BY <1>4, <1>7, <2>1 DEF Continues
<1>14. WorkersInv
  BY <1>1, <1>4, <1>6, <1>8, <1>9, <1>12, <1>13 DEF WorkersInv, NoAskYet
<1>15. RangesContiguous
  BY <1>8 DEF RangesContiguous
<1>16. AsksWhenLast
  BY <1>9 DEF AsksWhenLast
<1> QED
  BY <1>8, <1>10, <1>11, <1>14, <1>15, <1>16 DEF AnalysisInv

LEMMA AdvanceInv ==
  ASSUME AnalysisInv, Advance
  PROVE  AnalysisInv'
<1>1. PICK n, m, k : n = NodeCount /\ m = ItemsCount /\ k = Smallest(Checked)
  OBVIOUS
<1>2. /\ array \in Inputs /\ Controls /\ RoundsInv /\ WorkersInv
      /\ array' = array /\ status' = "run" /\ status = "run"
  BY DEF AnalysisInv, Advance, InLoop
<1>3. /\ range_count < m /\ Candidates(Checked) # {} /\ ~ Overreads /\ ~ Asks
      /\ workers' = Moved /\ range_count' = SizeAllProcessed(Moved)
      /\ dest' = dest /\ last_requested' = last_requested /\ allow_remove' = allow_remove
      /\ asked' = asked /\ result' = result
  BY <1>1 DEF Advance, InLoop
<1>4. NodeCount' = n /\ ItemsCount' = m
  BY <1>1, <1>2, SameArray
<1>5. Frame(n, m) /\ dest \in Nat /\ Sources(workers, n, m)
  BY <1>1, <1>2, FrameOf DEF Controls, WorkersInv
<1>6. Iterated(k)
  BY <1>1, <1>2, <1>3, Iteration
<1>7. Forward(workers, Moved, k, n, m) /\ Sources(Moved, n, m)
      /\ range_count' = Share(Moved) /\ Share(Moved) \in Nat
  BY <1>1, <1>3, <1>6 DEF Iterated
<1>8. NoAskYet' <=> NoAskYet
  BY <1>3 DEF NoAskYet
<1>9. Controls'
  BY <1>1, <1>2, <1>3, <1>4, <1>7 DEF Controls
<1>10. RoundsInv'
  BY <1>1, <1>2, <1>3, <1>4, <1>8 DEF RoundsInv
<1>11. NoAskYet => Gathering(Moved, Share(Moved), dest, n, m)
  <2> SUFFICES ASSUME NoAskYet PROVE Gathering(Moved, Share(Moved), dest, n, m)
    OBVIOUS
  <2>1. Gathering(workers, range_count, dest, n, m)
    BY <1>1, <1>2 DEF WorkersInv
  <2>2. /\ \A i \in 0 .. n - 1 : Kept(Moved[i])
        /\ Moved[k].detail # None => ~ Aligned(RangeEnd(workers[k]))
    BY <1>1, <1>6 DEF Iterated
  <2>3. Moved[k].detail = None => Share(Moved) + n * Step < m
    <3> SUFFICES ASSUME Moved[k].detail = None PROVE Share(Moved) + n * Step < m
      OBVIOUS
    <3>1. LengthCurrent(Moved[k]) = Step /\ SizeAllProcessed(Moved) = Share(Moved)
      BY <1>6 DEF Iterated
    <3>2. ~ (Share(Moved) + n * Step >= m)
      BY <1>1, <1>3, <3>1 DEF Asks
    <3>3. n * Step \in Int /\ m \in Int
      BY <1>5, StepType DEF Frame
    <3> QED
      BY <1>7, <3>2, <3>3
  <2> QED
    BY <1>5, <1>7, <2>1, <2>2, <2>3, GatherForward
<1>12. ~ NoAskYet => Finishing(Moved, Share(Moved), dest, n, m)
  <2> SUFFICES ASSUME ~ NoAskYet PROVE Finishing(Moved, Share(Moved), dest, n, m)
    OBVIOUS
  <2>1. Finishing(workers, range_count, dest, n, m)
    BY <1>1, <1>2 DEF WorkersInv
  <2>2. \A i \in 0 .. n - 1 : Fresh(Moved[i])
    BY <1>1, <1>6 DEF Iterated
  <2> QED
    BY <1>3, <1>5, <1>7, <2>1, <2>2, FinishForward
<1>13. asked = <<>> => \A i \in 0 .. n - 1 : Moved[i].detail = None
  BY <1>1, <1>2, <1>7 DEF WorkersInv, Forward
<1>14. ~ (NoAskYet /\ \E i \in 0 .. n - 1 : Moved[i].complete) =>
         Continues(Moved, result, dest, n, m)
  <2>1. Begins(Moved) = Begins(workers)
    BY <1>5, <1>7, ForwardTotals
  <2>2. \A i \in 0 .. n - 1 : /\ RangeBegin(Moved[i]) = RangeBegin(workers[i])
                              /\ workers[i].complete => Moved[i].complete
    BY <1>7 DEF Forward
  <2>3. ~ (NoAskYet /\ \E i \in 0 .. n - 1 : workers[i].complete) =>
          Continues(workers, result, dest, n, m)
    BY <1>1, <1>2 DEF WorkersInv
  <2> QED
    BY <2>1, <2>2, <2>3 DEF Continues
<1>15. NoAskYet => ~ last_requested
  BY <1>2 DEF WorkersInv
<1>16. WorkersInv'
  BY <1>3, <1>4, <1>7, <1>8, <1>11, <1>12, <1>13, <1>14, <1>15 DEF WorkersInv
<1>17. array' \in Inputs /\ RangesContiguous' /\ AsksWhenLast'
  BY <1>2, <1>3, SameResult, NotDone
<1> QED
  BY <1>9, <1>10, <1>16, <1>17 DEF AnalysisInv

LEMMA MinimumOfTwo ==
  ASSUME NEW a \in Int, NEW b \in Int
  PROVE  Min({a, b}) = IF a <= b THEN a ELSE b
<1>1. CASE a <= b
  <2>1. \A y \in {a, b} : y \in Int /\ a <= y
    BY <1>1
  <2>2. Min({a, b}) = a
    BY <2>1, MinimumIs
  <2> QED
    BY <1>1, <2>2
<1>2. CASE ~ (a <= b)
  <2>1. \A y \in {a, b} : y \in Int /\ b <= y
    BY <1>2
  <2>2. Min({a, b}) = b
    BY <2>1, MinimumIs
  <2> QED
    BY <1>2, <2>2
<1> QED
  BY <1>1, <1>2

\* The details asked from the cursor on: a step for every source, or up to the end.
LEMMA DetailedIs ==
  ASSUME array \in Inputs, NEW ws, NEW i, WorkerOK(ws[i], NodeCount, ItemsCount)
  PROVE  \E s \in Nat \ {0} :
           /\ s = NodeCount * Step \/ Start(ws[i]) + s = ItemsCount
           /\ s <= NodeCount * Step /\ Start(ws[i]) + s <= ItemsCount
           /\ Detailed(ws, i, Step) = HistogramOf(array[i], Start(ws[i]), s, 1)
<1>1. PICK n, m : n = NodeCount /\ m = ItemsCount
  OBVIOUS
<1>2. Frame(n, m) /\ n \in Nat \ {0} /\ m \in Nat /\ Step \in Nat \ {0}
  BY <1>1, FrameOf, StepType DEF Frame
<1>3. PICK p \in Nat : p = Start(ws[i]) /\ p + Step <= m
                       /\ ws[i].hist[ws[i].end_hist].item_index = p
  BY <1>1, <1>2, WorkerPlaces
<1>4. PICK ns \in Nat \ {0} : ns = n * Step /\ ns = Step * n
  <2>1. 1 <= n /\ n \in Int
    BY <1>2
  <2>2. 1 * Step <= n * Step /\ 1 * Step = Step
    BY <1>2, <2>1, BlockOrder
  <2>3. n * Step = Step * n /\ n * Step \in Int
    BY <1>2
  <2> QED
    BY <1>2, <2>2, <2>3
<1>5. PICK last \in Int : last = IF p + ns <= m THEN p + ns ELSE m
  BY <1>2
<1>6. Min({p + ns, m}) = last
  BY <1>2, <1>5, MinimumOfTwo
<1>7. Detailed(ws, i, Step) = DetailedHistogram(array[i], p, last)
  BY <1>1, <1>3, <1>4, <1>6 DEF Detailed
<1>8. Min({p, m - 1}) = p
  <2>1. m - 1 \in Int /\ p <= m - 1
    BY <1>2, <1>3
  <2> QED
    BY <2>1, MinimumOfTwo
<1>9. PICK s \in Nat \ {0} : s = last - p
  BY <1>2, <1>3, <1>4, <1>5
<1>10. Min({last - p, m - p}) = s
  <2>1. last - p \in Int /\ m - p \in Int /\ last - p <= m - p
    BY <1>2, <1>5
  <2> QED
    BY <1>9, <2>1, MinimumOfTwo
<1>11. Detailed(ws, i, Step) = HistogramOf(array[i], p, s, 1)
  BY <1>1, <1>7, <1>8, <1>10 DEF DetailedHistogram
<1>12. (s = ns \/ p + s = m) /\ s <= ns /\ p + s <= m
  BY <1>2, <1>5, <1>9
<1> QED
  BY <1>1, <1>3, <1>4, <1>11, <1>12

\* One round more, the first of its destination.
Unasked(asks, d) == \A k \in 1 .. Len(asks) : asks[k].dest < d

\* more are the rounds of asks and the one of destination d.
AsksFor(more, asks, d, n) ==
  \E r \in [dest : Nat, complete : BOOLEAN] :
    r.dest = d /\ (r.complete <=> d + 1 >= n) /\ more = Append(asks, r)

LEMMA OnceMore ==
  ASSUME NEW d \in Nat, NEW n \in Nat, NEW asks \in Rounds, OnceAsked(asks, d, n),
         Unasked(asks, d),
         NEW more, AsksFor(more, asks, d, n)
  PROVE  /\ more \in Rounds /\ OnceAsked(more, d, n) /\ more # <<>>
         /\ more[Len(more)].dest = d
<1>1. PICK r \in [dest : Nat, complete : BOOLEAN] :
        r.dest = d /\ (r.complete <=> d + 1 >= n) /\ more = Append(asks, r)
  BY DEF AsksFor
<1>2. r.dest = d /\ (r.complete <=> d + 1 >= n)
  BY <1>1
<1>3. PICK j \in Nat : j = Len(asks)
  BY DEF Rounds
<1>4. /\ more \in Rounds /\ Len(more) = j + 1 /\ more[j + 1] = r
      /\ \A k \in 1 .. j : more[k] = asks[k]
  BY <1>1, <1>3, AppendProperties DEF Rounds
<1>5. more # <<>>
  BY <1>3, <1>4
<1>6. ASSUME NEW k \in 1 .. j PROVE asks[k] \in [dest : Nat, complete : BOOLEAN]
  BY <1>3, ElementOfSeq DEF Rounds
<1>7. ASSUME NEW k \in 1 .. j + 1
      PROVE  /\ more[k].dest <= d
             /\ more[k].complete <=> more[k].dest + 1 >= n
             /\ \A l \in 1 .. j + 1 : k < l => more[k].dest < more[l].dest
  <2>1. CASE k = j + 1
    BY <1>2, <1>3, <1>4, <2>1
  <2>2. CASE k # j + 1
    <3>1. k \in 1 .. j
      BY <1>3, <2>2
    <3>2. more[k].dest \in Nat /\ more[k].dest < d /\ (more[k].complete <=> more[k].dest + 1 >= n)
      BY <1>3, <1>4, <1>6, <3>1 DEF OnceAsked, Unasked
    <3>3. ASSUME NEW l \in 1 .. j + 1, k < l
          PROVE  more[k].dest < more[l].dest
      <4>1. CASE l = j + 1
        BY <1>2, <1>4, <3>2, <4>1
      <4>2. CASE l # j + 1
        <5>1. l \in 1 .. j
          BY <1>3, <4>2
        <5> QED
          BY <1>3, <1>4, <3>1, <3>3, <5>1 DEF OnceAsked
      <4> QED
        BY <4>1, <4>2
    <3>4. more[k].dest <= d
      <4>1. PICK x \in Nat : x = more[k].dest /\ x < d
        BY <3>2
      <4>2. x <= d
        BY <4>1
      <4> QED
        BY <4>1, <4>2
    <3> QED
      BY <3>2, <3>3, <3>4, Zenon
  <2> QED
    BY <2>1, <2>2
<1> QED
  BY <1>2, <1>4, <1>5, <1>7 DEF OnceAsked

\* After a round every worker has a detailed histogram, from the same place on.
LEMMA AskedWorkers ==
  ASSUME AnalysisInv, AskDetails, status' = "run"
  PROVE  /\ NoAskYet /\ ~ (\E i \in 0 .. NodeCount - 1 : workers[i].complete)
         /\ ~ NoAskYet' /\ allow_remove' \in BOOLEAN
         /\ Sources(workers', NodeCount, ItemsCount)
         /\ Finishing(workers', Share(Moved), dest, NodeCount, ItemsCount)
         /\ Begins(workers') = Begins(workers)
         /\ \A i \in 0 .. NodeCount - 1 :
              /\ RangeBegin(workers'[i]) = RangeBegin(workers[i])
              /\ RangeEnd(workers'[i]) = RangeEnd(Moved[i])
<1>1. PICK n, m, k : n = NodeCount /\ m = ItemsCount /\ k = Smallest(Checked)
  OBVIOUS
<1>2. array \in Inputs /\ Controls /\ RoundsInv /\ WorkersInv /\ status = "run"
  BY DEF AnalysisInv, AskDetails, InLoop
<1>3. Candidates(Checked) # {} /\ ~ Overreads /\ Asks
  BY DEF AskDetails
<1>4. Frame(n, m) /\ Nodes = 0 .. n - 1 /\ dest \in Nat /\ Sources(workers, n, m)
      /\ \A i \in 0 .. n - 1 : array[i] \in [0 .. m - 1 -> Nat]
  BY <1>1, <1>2, FrameOf DEF Controls, WorkersInv
<1>5. Iterated(k)
  BY <1>1, <1>2, <1>3, Iteration
<1>6. Forward(workers, Moved, k, n, m) /\ k \in 0 .. n - 1
  BY <1>1, <1>5 DEF Iterated, Forward
<1>7. Moved[k].detail = None /\ LengthCurrent(Moved[k]) = Step
  BY <1>1, <1>3, <1>5 DEF Asks, Iterated
<1>8. m <= Share(Moved) + n * Step
  <2>1. SizeAllProcessed(Moved) + NodeCount * LengthCurrent(Moved[k]) >= ItemsCount
    BY <1>1, <1>3 DEF Asks
  <2>2. Share(Moved) + n * Step >= m
    BY <1>1, <1>5, <1>7, <2>1 DEF Iterated
  <2>3. Share(Moved) \in Int /\ n * Step \in Int /\ m \in Int
    BY <1>4, <1>5, StepType DEF Iterated, Frame
  <2> QED
    BY <2>2, <2>3
<1>9. NoAskYet
  <2>1. ~ NoAskYet => Fresh(Moved[k])
    BY <1>1, <1>5, <1>6 DEF Iterated
  <2> QED
    BY <1>7, <2>1 DEF Fresh
<1>10. /\ \A i \in 0 .. n - 1 : Moved[i].detail = None
       /\ workers' = [i \in Nodes |-> SetDetailed(Moved[i], Detailed(Moved, i, Step))]
       /\ allow_remove' = FALSE
       /\ asked' = Append(asked, [dest |-> dest, complete |-> LastRequest])
  BY <1>1, <1>2, <1>4, <1>7 DEF AskDetails
<1>11. ASSUME NEW i \in 0 .. n - 1
       PROVE  /\ WorkerOK(workers'[i], n, m) /\ Fresh(workers'[i])
              /\ Start(workers'[i]) = Start(Moved[i])
              /\ RangeBegin(workers'[i]) = RangeBegin(Moved[i])
              /\ RangeEnd(workers'[i]) = RangeEnd(Moved[i])
  <2>1. WorkerOK(Moved[i], n, m) /\ Moved[i].detail = None
    BY <1>6, <1>10 DEF Forward
  <2>2. PICK s \in Nat \ {0} :
          /\ s = n * Step \/ Start(Moved[i]) + s = m
          /\ s <= n * Step /\ Start(Moved[i]) + s <= m
          /\ Detailed(Moved, i, Step) = HistogramOf(array[i], Start(Moved[i]), s, 1)
    BY <1>1, <1>2, <2>1, DetailedIs
  <2>3. workers'[i] = SetDetailed(Moved[i], HistogramOf(array[i], Start(Moved[i]), s, 1))
    BY <1>4, <1>10, <2>2
  <2>4. array[i] \in [0 .. m - 1 -> Nat]
    BY <1>4
  <2> QED
    BY <1>4, <2>1, <2>2, <2>3, <2>4, DetailedSets
<1>12. ~ (\E i \in 0 .. n - 1 : workers[i].complete)
  <2>1. \A i \in 0 .. n - 1 : ~ Moved[i].complete
    BY <1>6, <1>10 DEF Forward, WorkerOK
  <2> QED
    BY <1>6, <2>1 DEF Forward
<1>13. Gathering(workers, range_count, dest, n, m) /\ Continues(workers, result, dest, n, m)
  BY <1>1, <1>2, <1>9, <1>12 DEF WorkersInv
<1>14. PICK us, vs : us = workers' /\ vs = Moved
  OBVIOUS
<1>15. SumFunction(Begins(workers)) = dest * m
  BY <1>13 DEF Continues
<1>16. /\ Sources(workers', n, m) /\ Finishing(workers', Share(Moved), dest, n, m)
       /\ Begins(workers') = Begins(workers)
  <2>1. DOMAIN us = 0 .. n - 1
    BY <1>4, <1>10, <1>14
  <2>2. Answered(us, vs, n, m)
    BY <1>11, <1>14, <2>1 DEF Answered
  <2>3. Forward(workers, vs, k, n, m) /\ AllCoarse(vs, n) /\ m <= Share(vs) + n * Step
    BY <1>6, <1>8, <1>10, <1>14 DEF AllCoarse
  <2>4. Frame(n, m) /\ dest \in Nat /\ Sources(workers, n, m)
        /\ Gathering(workers, range_count, dest, n, m)
    BY <1>4, <1>13
  <2>5. /\ Sources(us, n, m) /\ Finishing(us, Share(vs), dest, n, m)
        /\ Begins(us) = Begins(workers)
    BY <1>15, <2>2, <2>3, <2>4, AskTotals
  <2> QED
    BY <1>14, <2>5
<1>17. ~ allow_remove' /\ allow_remove' \in BOOLEAN
  BY <1>10, Zenon
<1>18. ~ NoAskYet'
  <2>1. asked' # <<>>
    <3>1. asked \in Seq([dest : Nat, complete : BOOLEAN])
      BY <1>2 DEF Controls, Rounds
    <3> QED
      BY <1>10, <3>1
  <2> QED
    BY <1>17, <2>1 DEF NoAskYet
<1>19. \A i \in 0 .. n - 1 : RangeBegin(workers'[i]) = RangeBegin(workers[i])
  BY <1>6, <1>11 DEF Forward
<1> QED
  BY <1>1, <1>9, <1>11, <1>12, <1>16, <1>17, <1>18, <1>19

LEMMA AskInv ==
  ASSUME AnalysisInv, AskDetails
  PROVE  AnalysisInv'
<1>1. PICK n, m : n = NodeCount /\ m = ItemsCount
  OBVIOUS
<1>2. /\ array' = array /\ result' = result /\ dest' = dest /\ status = "run"
      /\ array \in Inputs /\ Controls /\ RoundsInv /\ WorkersInv
      /\ status' \in {"run", "overread", "assert_failed"}
  BY DEF AskDetails, AnalysisInv, InLoop
<1>3. array' \in Inputs /\ RangesContiguous' /\ AsksWhenLast'
  <2>1. status' # "done"
    BY <1>2
  <2> QED
    BY <1>2, <2>1, SameResult, NotDone
<1>4. CASE status' # "run"
  BY <1>3, <1>4 DEF AnalysisInv
<1>5. CASE status' = "run"
  <2>1. /\ NoAskYet /\ ~ (\E i \in 0 .. n - 1 : workers[i].complete)
        /\ ~ NoAskYet' /\ allow_remove' \in BOOLEAN
        /\ Sources(workers', n, m) /\ Finishing(workers', Share(Moved), dest, n, m)
        /\ Begins(workers') = Begins(workers)
        /\ \A i \in 0 .. n - 1 : RangeBegin(workers'[i]) = RangeBegin(workers[i])
    BY <1>1, <1>5, AskedWorkers
  <2>2. NodeCount' = n /\ ItemsCount' = m
    BY <1>1, <1>2, SameArray
  <2>3. PICK last \in BOOLEAN : last = LastRequest /\ (last <=> dest + 1 >= n)
    <3>1. PICK x : x = (dest + 1 >= n)
      OBVIOUS
    <3>2. x <=> dest + 1 >= n
      BY <3>1
    <3>4. x \in BOOLEAN
      BY <3>1
    <3>3. x = LastRequest
      BY <1>1, <3>1, Zenon DEF LastRequest
    <3> QED
      BY <3>2, <3>3, <3>4, Zenon
  <2>4. /\ asked' = Append(asked, [dest |-> dest, complete |-> last])
        /\ last_requested' = last
        /\ range_count' = SizeAllProcessed(Moved)
    BY <2>3, Zenon DEF AskDetails
  <2>5. range_count' = Share(Moved) /\ range_count' \in Int
    <3>1. Iterated(Smallest(Checked))
      BY <1>2, Iteration DEF AskDetails
    <3> QED
      BY <2>4, <3>1 DEF Iterated
  <2>6. /\ asked' \in Rounds /\ OnceAsked(asked', dest, n) /\ asked' # <<>>
        /\ asked'[Len(asked')].dest = dest
    <3>1. dest \in Nat /\ n \in Nat
      BY <1>1, <1>2, FrameOf DEF Controls, Frame
    <3>2. /\ asked \in Rounds /\ OnceAsked(asked, dest, n)
          /\ Unasked(asked, dest)
      BY <1>1, <1>2, <2>1 DEF Controls, RoundsInv, Unasked
    <3>3. PICK more : more = asked'
      OBVIOUS
    <3>4. PICK r : r = [dest |-> dest, complete |-> last]
      OBVIOUS
    <3>5. r \in [dest : Nat, complete : BOOLEAN] /\ r.dest = dest
      BY <2>3, <3>1, <3>4
    <3>6. r.complete <=> dest + 1 >= n
      <4>1. r.complete = last
        BY <3>4, Zenon
      <4> QED
        BY <2>3, <4>1, Zenon
    <3>7. more = Append(asked, r)
      BY <2>4, <3>3, <3>4, Zenon
    <3>9. AsksFor(more, asked, dest, n)
      BY <3>5, <3>6, <3>7, Zenon DEF AsksFor
    <3>8. /\ more \in Rounds /\ OnceAsked(more, dest, n) /\ more # <<>>
          /\ more[Len(more)].dest = dest
      BY <3>1, <3>2, <3>9, OnceMore
    <3> QED
      BY <3>3, <3>8
  <2>7. last_requested' \in BOOLEAN
    BY <2>3, <2>4, Zenon
  <2>8. Controls'
    BY <1>1, <1>2, <2>1, <2>2, <2>5, <2>6, <2>7 DEF Controls
  <2>9. RoundsInv'
    BY <1>1, <1>2, <2>1, <2>2, <2>6 DEF RoundsInv
  <2>10. Continues(workers', result, dest, n, m)
    <3>1. Continues(workers, result, dest, n, m)
      BY <1>1, <1>2, <2>1 DEF WorkersInv
    <3> QED
      BY <2>1, <3>1 DEF Continues
  <2>11. WorkersInv'
    BY <1>2, <2>1, <2>2, <2>5, <2>6, <2>10 DEF WorkersInv
  <2> QED
    BY <1>3, <2>8, <2>9, <2>11 DEF AnalysisInv
<1> QED
  BY <1>4, <1>5


\* The rounds of an analysis that ends: the last one is complete, no other is.
LEMMA RoundsEnd ==
  ASSUME NEW asks \in Rounds, NEW d \in Nat, NEW n \in Nat, d + 1 = n,
         OnceAsked(asks, d, n), asks # <<>>, asks[Len(asks)].dest = d
  PROVE  /\ \E k \in DOMAIN asks : asks[k].complete
         /\ \A k, l \in DOMAIN asks : k < l => asks[k].dest < asks[l].dest
         /\ \A k \in DOMAIN asks : asks[k].complete <=> k = Len(asks)
<1>1. PICK j \in Nat : j = Len(asks) /\ DOMAIN asks = 1 .. j
  BY DEF Rounds
<1>2. j # 0
  BY <1>1, EmptySeq DEF Rounds
<1>3. j \in 1 .. j
  BY <1>2
<1>4. ASSUME NEW k \in 1 .. j PROVE asks[k] \in [dest : Nat, complete : BOOLEAN]
  BY <1>1, ElementOfSeq DEF Rounds
<1>5. asks[j].complete
  BY <1>1, <1>3 DEF OnceAsked
<1>6. \A k, l \in 1 .. j : k < l => asks[k].dest < asks[l].dest
  BY <1>1 DEF OnceAsked
<1>7. ASSUME NEW k \in 1 .. j, k # j PROVE ~ asks[k].complete
  <2>1. asks[k].dest < d
    <3>1. k < j
      BY <1>7
    <3> QED
      BY <1>1, <1>3, <1>6, <3>1
  <2>2. PICK x \in Nat : x = asks[k].dest
    BY <1>4
  <2>3. ~ (x + 1 >= n)
    BY <2>1, <2>2
  <2>4. asks[k].complete <=> x + 1 >= n
    BY <1>1, <2>2 DEF OnceAsked
  <2> QED
    BY <2>3, <2>4, Zenon
<1>8. ASSUME NEW k \in 1 .. j PROVE asks[k].complete <=> k = j
  BY <1>5, <1>7, Zenon
<1> QED
  BY <1>1, <1>3, <1>5, <1>6, <1>8

\* A range of a source is saved as it stands.
SavedOf(ws, n) ==
  [i \in 0 .. n - 1 |-> [first |-> RangeBegin(ws[i]), last |-> RangeEnd(ws[i]) - 1]]

LEMMA SavedRanges ==
  ASSUME NEW n, NEW m, Frame(n, m), NEW ws, Sources(ws, n, m)
  PROVE  /\ SavedOf(ws, n) \in Ranges(n)
         /\ \A i \in 0 .. n - 1 :
              /\ SavedOf(ws, n)[i].first = RangeBegin(ws[i])
              /\ SavedOf(ws, n)[i].last + 1 = RangeEnd(ws[i])
              /\ SavedOf(ws, n)[i].last >= SavedOf(ws, n)[i].first - 1
         /\ SumFunction([i \in 0 .. n - 1 |->
              SavedOf(ws, n)[i].last - SavedOf(ws, n)[i].first + 1]) = Share(ws)
<1>1. PICK r : r = SavedOf(ws, n)
  OBVIOUS
<1>2. ASSUME NEW i \in 0 .. n - 1
      PROVE  /\ r[i] \in [first : Int, last : Int]
             /\ r[i].first = RangeBegin(ws[i]) /\ r[i].last + 1 = RangeEnd(ws[i])
             /\ r[i].last >= r[i].first - 1
             /\ r[i].last - r[i].first + 1 = RangeEnd(ws[i]) - RangeBegin(ws[i])
  <2>1. PICK b \in Int, e \in Int : b = RangeBegin(ws[i]) /\ e = RangeEnd(ws[i]) /\ b <= e
    BY RangeFacts DEF Sources
  <2>2. r[i] = [first |-> b, last |-> e - 1]
    BY <1>1, <2>1 DEF SavedOf
  <2>3. r[i].first = b /\ r[i].last = e - 1
    BY <2>2
  <2> QED
    BY <2>1, <2>2, <2>3
<1>3. r \in Ranges(n)
  BY <1>1, <1>2 DEF SavedOf, Ranges
<1>4. PICK f : f = [i \in 0 .. n - 1 |-> r[i].last - r[i].first + 1]
  OBVIOUS
<1>5. DOMAIN f = 0 .. n - 1 /\ \A i \in 0 .. n - 1 : f[i] = RangeEnd(ws[i]) - RangeBegin(ws[i])
  BY <1>2, <1>4
<1>6. SumFunction(f) = Share(ws)
  BY <1>5, ShareOf
<1> QED
  BY <1>1, <1>2, <1>3, <1>4, <1>6

\* The share that is saved: its details were asked, and it is exactly full.
LEMMA SavedShare ==
  ASSUME AnalysisInv, Save
  PROVE  /\ ~ NoAskYet /\ Share(workers) = ItemsCount
         /\ Finishing(workers, range_count, dest, NodeCount, ItemsCount)
         /\ ItemsCount <= range_count
         /\ Continues(workers, result, dest, NodeCount, ItemsCount)
<1>1. PICK n, m : n = NodeCount /\ m = ItemsCount
  OBVIOUS
<1>2. array \in Inputs /\ Controls /\ WorkersInv /\ range_count >= m
  BY <1>1 DEF AnalysisInv, Save
<1>3. Frame(n, m) /\ Sources(workers, n, m) /\ range_count \in Int /\ m \in Nat
  BY <1>1, <1>2, FrameOf DEF Controls, WorkersInv, Frame
<1>4. m <= range_count
  BY <1>2, <1>3
<1>5. PICK b \in Int, e \in Int, u \in Int :
        /\ b = SumFunction(Begins(workers)) /\ e = SumFunction(Ends(workers))
        /\ u = SumFunction(Ups(workers)) /\ e <= u /\ Share(workers) = e - b
  BY <1>3, Totals DEF Share
<1>6. ~ NoAskYet
  <2> SUFFICES ASSUME NoAskYet PROVE FALSE
    OBVIOUS
  <2>1. range_count <= e - b /\ u - b < m
    BY <1>1, <1>2, <1>5 DEF WorkersInv, Gathering
  <2> QED
    BY <1>3, <1>4, <1>5, <2>1
<1>7. /\ Finishing(workers, range_count, dest, n, m)
      /\ Continues(workers, result, dest, n, m)
  BY <1>1, <1>2, <1>6 DEF WorkersInv
<1>8. Share(workers) = m
  BY <1>3, <1>4, <1>7 DEF Finishing
<1> QED
  BY <1>1, <1>4, <1>6, <1>7, <1>8

\* The saved ranges begin where those before end, and are the destination's share.
LEMMA SavedContiguous ==
  ASSUME AnalysisInv, Save
  PROVE  /\ result' \in Seq(Ranges(NodeCount)) /\ Len(result') = dest + 1
         /\ \A i \in 0 .. NodeCount - 1 : result'[dest + 1][i].last + 1 = RangeEnd(workers[i])
         /\ RangesContiguous'
<1>1. PICK n, m, r : n = NodeCount /\ m = ItemsCount /\ r = SavedOf(workers, n)
  OBVIOUS
<1>2. array \in Inputs /\ Controls /\ WorkersInv /\ RangesContiguous /\ array' = array
  BY DEF AnalysisInv, Save
<1>3. Frame(n, m) /\ Nodes = 0 .. n - 1 /\ Sources(workers, n, m) /\ dest \in Nat
      /\ result \in Seq(Ranges(n)) /\ Len(result) = dest
  BY <1>1, <1>2, FrameOf DEF Controls, WorkersInv
<1>4. Share(workers) = m /\ Continues(workers, result, dest, n, m)
  BY <1>1, SavedShare
<1>5. /\ r \in Ranges(n)
      /\ \A i \in 0 .. n - 1 : /\ r[i].first = RangeBegin(workers[i])
                               /\ r[i].last + 1 = RangeEnd(workers[i])
                               /\ r[i].last >= r[i].first - 1
      /\ SumFunction([i \in 0 .. n - 1 |-> r[i].last - r[i].first + 1]) = m
  BY <1>1, <1>3, <1>4, SavedRanges
<1>6. PICK res : res = result'
  OBVIOUS
<1>7. res = Append(result, r)
  BY <1>1, <1>3, <1>6 DEF Save, SavedOf
<1>8. /\ res \in Seq(Ranges(n)) /\ Len(res) = dest + 1 /\ res[dest + 1] = r
      /\ \A d \in 1 .. dest : res[d] = result[d]
  BY <1>3, <1>5, <1>7, AppendProperties
<1>9. DOMAIN result = 1 .. dest /\ DOMAIN res = 1 .. dest + 1
  BY <1>3, <1>8
<1>10. ASSUME NEW d \in 1 .. dest + 1, NEW i \in 0 .. n - 1
       PROVE  /\ res[d][i].first = IF d = 1 THEN 0 ELSE res[d - 1][i].last + 1
              /\ res[d][i].last >= res[d][i].first - 1
  <2>1. CASE d = dest + 1
    <3>1. r[i].first = IF dest = 0 THEN 0 ELSE result[dest][i].last + 1
      BY <1>4, <1>5 DEF Continues
    <3>2. dest # 0 => res[d - 1] = result[dest]
      BY <1>3, <1>8, <2>1
    <3>3. d = 1 <=> dest = 0
      BY <1>3, <2>1
    <3>4. res[d] = r
      BY <1>8, <2>1
    <3>5. r[i].first = IF d = 1 THEN 0 ELSE res[d - 1][i].last + 1
      BY <3>1, <3>2, <3>3
    <3> QED
      BY <1>5, <3>4, <3>5
  <2>2. CASE d # dest + 1
    <3>1. d \in 1 .. dest
      BY <1>3, <2>2
    <3>2. d # 1 => d - 1 \in 1 .. dest
      BY <1>3, <3>1
    <3>3. res[d] = result[d] /\ (d # 1 => res[d - 1] = result[d - 1])
      BY <1>8, <3>1, <3>2
    <3>4. /\ result[d][i].first = IF d = 1 THEN 0 ELSE result[d - 1][i].last + 1
          /\ result[d][i].last >= result[d][i].first - 1
      BY <1>2, <1>3, <1>9, <3>1 DEF RangesContiguous
    <3> QED
      BY <3>3, <3>4
  <2> QED
    BY <2>1, <2>2
<1>11. ASSUME NEW d \in 1 .. dest + 1
       PROVE  SumFunction([i \in 0 .. n - 1 |-> res[d][i].last - res[d][i].first + 1]) = m
  <2>1. CASE d = dest + 1
    BY <1>5, <1>8, <2>1
  <2>2. CASE d # dest + 1
    <3>1. d \in 1 .. dest
      BY <1>3, <2>2
    <3>2. SumFunction([i \in 0 .. n - 1 |-> result[d][i].last - result[d][i].first + 1]) = m
      BY <1>1, <1>2, <1>3, <1>9, <3>1 DEF RangesContiguous
    <3> QED
      BY <1>8, <3>1, <3>2
  <2> QED
    BY <2>1, <2>2
<1>12. Nodes' = 0 .. n - 1 /\ ItemsCount' = m
  BY <1>1, <1>2, <1>3, SameArray
<1>13. RangesContiguous'
  BY <1>6, <1>9, <1>10, <1>11, <1>12 DEF RangesContiguous
<1>14. \A i \in 0 .. n - 1 : res[dest + 1][i].last + 1 = RangeEnd(workers[i])
  BY <1>5, <1>8
<1> QED
  BY <1>1, <1>6, <1>8, <1>13, <1>14

\* The next destination starts with the workers of the last one.
LEMMA SavedWorkers ==
  ASSUME AnalysisInv, Save, dest + 1 < NodeCount
  PROVE  /\ Sources(workers', NodeCount, ItemsCount)
         /\ Gathering(workers', 0, dest + 1, NodeCount, ItemsCount)
         /\ Ends(workers') = Ends(workers)
         /\ ~ (\E i \in 0 .. NodeCount - 1 : workers'[i].complete) =>
              Continues(workers', result', dest + 1, NodeCount, ItemsCount)
<1>1. PICK n, m : n = NodeCount /\ m = ItemsCount
  OBVIOUS
<1>2. array \in Inputs /\ Controls /\ WorkersInv
  BY DEF AnalysisInv, Save
<1>3. Frame(n, m) /\ Nodes = 0 .. n - 1 /\ Sources(workers, n, m) /\ dest \in Nat
  BY <1>1, <1>2, FrameOf DEF Controls, WorkersInv
<1>4. /\ Finishing(workers, range_count, dest, n, m) /\ m <= range_count
      /\ SumFunction(Begins(workers)) = dest * m
  BY <1>1, SavedShare DEF Continues
<1>5. PICK vs, res : vs = workers' /\ res = result'
  OBVIOUS
<1>6. Renewed(vs, workers, n)
  BY <1>1, <1>3, <1>5 DEF Save, Renewed
<1>7. /\ Sources(vs, n, m) /\ Gathering(vs, 0, dest + 1, n, m)
      /\ Ends(vs) = Ends(workers)
      /\ (\A i \in 0 .. n - 1 : ~ vs[i].complete) =>
           /\ \A i \in 0 .. n - 1 : RangeBegin(vs[i]) = RangeEnd(workers[i])
           /\ SumFunction(Begins(vs)) = (dest + 1) * m
  BY <1>3, <1>4, <1>6, SaveTotals
<1>8. \A i \in 0 .. n - 1 : res[dest + 1][i].last + 1 = RangeEnd(workers[i])
  BY <1>1, <1>5, SavedContiguous
<1>9. ASSUME ~ (\E i \in 0 .. n - 1 : vs[i].complete)
      PROVE  Continues(vs, res, dest + 1, n, m)
  <2>1. \A i \in 0 .. n - 1 : RangeBegin(vs[i]) = res[dest + 1][i].last + 1
    BY <1>7, <1>8, <1>9
  <2>2. SumFunction(Begins(vs)) = (dest + 1) * m
    BY <1>7, <1>9
  <2>3. dest + 1 # 0
    BY <1>3
  <2> QED
    BY <2>1, <2>2, <2>3 DEF Continues
<1> QED
  BY <1>1, <1>5, <1>7, <1>9

LEMMA SaveInv ==
  ASSUME AnalysisInv, Save
  PROVE  AnalysisInv'
<1>1. PICK n, m : n = NodeCount /\ m = ItemsCount
  OBVIOUS
<1>2. /\ array \in Inputs /\ Controls /\ RoundsInv /\ WorkersInv
      /\ array' = array /\ asked' = asked /\ dest' = dest + 1 /\ range_count' = 0
      /\ status = "run"
  BY DEF AnalysisInv, Save
<1>3. /\ NodeCount' = n /\ ItemsCount' = m /\ n \in Nat /\ m \in Nat /\ dest \in 0 .. n - 1
      /\ asked \in Rounds
  BY <1>1, <1>2, SameArray, FrameOf DEF Controls, Frame
<1>4. allow_remove' /\ allow_remove' \in BOOLEAN
  <2>1. allow_remove' = TRUE
    BY DEF Save
  <2> QED
    BY <2>1, Zenon
<1>5. ~ last_requested' /\ last_requested' \in BOOLEAN
  <2>1. last_requested' = FALSE
    BY DEF Save
  <2> QED
    BY <2>1, Zenon
<1>6. ~ NoAskYet
  BY SavedShare
<1>7. /\ asked # <<>> /\ OnceAsked(asked, dest, n) /\ asked[Len(asked)].dest = dest
  BY <1>1, <1>2, <1>6 DEF RoundsInv, NoAskYet
<1>8. /\ result' \in Seq(Ranges(n)) /\ Len(result') = dest + 1 /\ RangesContiguous'
  BY <1>1, SavedContiguous
<1>9. array' \in Inputs
  BY <1>2
<1>10. CASE dest + 1 < n
  <2>1. status' = "run"
    BY <1>1, <1>2, <1>10 DEF Save
  <2>2. AsksWhenLast'
    BY <2>1, NotDone
  <2>3. /\ Sources(workers', n, m) /\ Gathering(workers', 0, dest + 1, n, m)
        /\ ~ (\E i \in 0 .. n - 1 : workers'[i].complete) =>
             Continues(workers', result', dest + 1, n, m)
    BY <1>1, <1>10, SavedWorkers
  <2>4. dest + 1 \in 0 .. n - 1
    BY <1>3, <1>10
  <2>5. Controls'
    BY <1>2, <1>3, <1>4, <1>5, <1>8, <2>4 DEF Controls
  <2>6. NoAskYet'
    BY <1>4 DEF NoAskYet
  <2>7. OnceAsked(asked, dest + 1, n) /\ \A k \in 1 .. Len(asked) : asked[k].dest < dest + 1
    <3>1. ASSUME NEW k \in 1 .. Len(asked)
          PROVE  asked[k].dest <= dest + 1 /\ asked[k].dest < dest + 1
      <4>1. asked[k] \in [dest : Nat, complete : BOOLEAN]
        BY <1>3, ElementOfSeq DEF Rounds
      <4>2. PICK x \in Nat : x = asked[k].dest /\ x <= dest
        BY <1>7, <4>1 DEF OnceAsked
      <4>3. x <= dest + 1 /\ x < dest + 1
        BY <1>3, <4>2
      <4> QED
        BY <4>2, <4>3
    <3> QED
      BY <1>7, <3>1 DEF OnceAsked
  <2>8. RoundsInv'
    BY <1>2, <1>3, <2>6, <2>7 DEF RoundsInv
  <2>9. WorkersInv'
    BY <1>2, <1>3, <1>5, <1>7, <2>3, <2>6 DEF WorkersInv
  <2> QED
    BY <1>8, <1>9, <2>2, <2>5, <2>8, <2>9 DEF AnalysisInv
<1>11. CASE ~ (dest + 1 < n)
  <2>1. status' = "done"
    BY <1>1, <1>11 DEF Save
  <2>2. dest + 1 = n /\ dest \in Nat
    BY <1>3, <1>11
  <2>3. AsksWhenLast'
    BY <1>2, <1>3, <1>7, <2>2, RoundsEnd DEF AsksWhenLast
  <2> QED
    BY <1>8, <1>9, <2>1, <2>3 DEF AnalysisInv
<1> QED
  BY <1>10, <1>11

\* A step that ends the analysis where a histogram ends, and one of a stopped one.
LEMMA OverreadInv ==
  ASSUME AnalysisInv, Overread
  PROVE  AnalysisInv'
<1>1. array' = array /\ result' = result /\ status' = "overread"
  BY DEF Overread
<1>2. array' \in Inputs /\ RangesContiguous' /\ AsksWhenLast'
  BY <1>1, SameResult, NotDone
<1> QED
  BY <1>1, <1>2 DEF AnalysisInv

LEMMA SameInv ==
  ASSUME AnalysisInv, UNCHANGED vars
  PROVE  AnalysisInv'
<1>1. /\ NodeCount' = NodeCount /\ ItemsCount' = ItemsCount /\ array' = array
      /\ workers' = workers /\ dest' = dest /\ range_count' = range_count
      /\ last_requested' = last_requested /\ allow_remove' = allow_remove
      /\ asked' = asked /\ result' = result /\ status' = status
  BY SameArray DEF vars
<1>2. array' \in Inputs /\ RangesContiguous'
  BY <1>1, SameResult
<1>3. AsksWhenLast'
  BY <1>1 DEF AnalysisInv, AsksWhenLast
<1>4. NoAskYet' <=> NoAskYet
  BY <1>1 DEF NoAskYet
<1>5. Controls' <=> Controls
  BY <1>1 DEF Controls
<1>6. RoundsInv' <=> RoundsInv
  BY <1>1, <1>4 DEF RoundsInv
<1>7. WorkersInv' <=> WorkersInv
  BY <1>1, <1>4 DEF WorkersInv
<1> QED
  BY <1>1, <1>2, <1>3, <1>5, <1>6, <1>7 DEF AnalysisInv

LEMMA NextInv == AnalysisInv /\ [Next]_vars => AnalysisInv'
<1> SUFFICES ASSUME AnalysisInv, [Next]_vars PROVE AnalysisInv'
  OBVIOUS
<1>1. CASE Overread
  BY <1>1, OverreadInv
<1>2. CASE Advance
  BY <1>2, AdvanceInv
<1>3. CASE AskDetails
  BY <1>3, AskInv
<1>4. CASE Save
  BY <1>4, SaveInv
<1>5. CASE Stopped
  BY <1>5, SameInv DEF Stopped
<1>6. CASE UNCHANGED vars
  BY <1>6, SameInv
<1> QED
  BY <1>1, <1>2, <1>3, <1>4, <1>5, <1>6 DEF Next

-----------------------------------------------------------------------------
(* What the analysis promises. *)

\* The invariant holds in every state: the places of the workers' cursors in
\* their histograms, the counts of the shares and the rounds of requests.
THEOREM AnalysisInvariance == Spec => []AnalysisInv
<1>1. Init => AnalysisInv
  BY InitAnalysis
<1>2. AnalysisInv /\ [Next]_vars => AnalysisInv'
  BY NextInv
<1> QED
  BY <1>1, <1>2, PTL DEF Spec

\* The ranges saved by alloc_range_request_analize_histograms cut every source's
\* array from its first item on without a gap or an overlap, and every
\* destination gets exactly as many items as a source has.
THEOREM ContiguousSafe == Spec => []RangesContiguous
<1>1. AnalysisInv => RangesContiguous
  BY DEF AnalysisInv
<1> QED
  BY <1>1, AnalysisInvariance, PTL

\* The sources hear of the last round, and of no round after it, when the
\* analysis ends normally.
THEOREM AsksSafe == Spec => []AsksWhenLast
<1>1. AnalysisInv => AsksWhenLast
  BY DEF AnalysisInv
<1> QED
  BY <1>1, AnalysisInvariance, PTL

LEMMA SomeCursor == AnalysisInv => CursorFound
<1> SUFFICES ASSUME AnalysisInv, InLoop, Candidates(Checked) = {} PROVE FALSE
  BY DEF CursorFound
<1>1. PICK n, m : n = NodeCount /\ m = ItemsCount
  OBVIOUS
<1>2. array \in Inputs /\ Controls /\ WorkersInv /\ range_count < m
  BY <1>1 DEF AnalysisInv, InLoop
<1>3. Frame(n, m) /\ Nodes = 0 .. n - 1 /\ Sources(workers, n, m) /\ dest \in 0 .. n - 1
  BY <1>1, <1>2, FrameOf DEF Controls, WorkersInv
<1>4. /\ NoAskYet => \A i \in 0 .. n - 1 : RemovedFrom(workers[i], Checked[i], n, m)
      /\ ~ NoAskYet => Checked = workers
      /\ \A i \in 0 .. n - 1 : WorkerOK(Checked[i], n, m)
  BY <1>1, <1>2, CheckedFacts
<1>5. ASSUME NEW i \in 0 .. n - 1
      PROVE  workers[i].detail # None /\ workers[i].complete
  <2>1. ValueAtCursor(Checked[i]) = {}
    BY <1>3 DEF Candidates
  <2>2. Checked[i].detail # None /\ Checked[i].complete
    BY <1>3, <1>4, <2>1, CursorValue
  <2>3. CASE NoAskYet
    BY <1>4, <2>2, <2>3 DEF RemovedFrom
  <2>4. CASE ~ NoAskYet
    BY <1>4, <2>2, <2>4
  <2> QED
    BY <2>3, <2>4
<1>6. UsedUp(workers, n)
  BY <1>5 DEF UsedUp
<1>7. CASE NoAskYet
  <2>1. Gathering(workers, range_count, dest, n, m)
    BY <1>1, <1>2, <1>7 DEF WorkersInv
  <2> QED
    BY <1>3, <1>6, <2>1, NotAllComplete
<1>8. CASE ~ NoAskYet
  <2>1. /\ Finishing(workers, range_count, dest, n, m)
        /\ SumFunction(Begins(workers)) = dest * m
    BY <1>1, <1>2, <1>8 DEF WorkersInv, Continues
  <2> QED
    BY <1>2, <1>3, <1>6, <2>1, NotAllComplete
<1> QED
  BY <1>7, <1>8

\* assert( -1 != source_index_of_histogram ) never fails: as long as a share is
\* not complete, some source has an item at its cursor.
THEOREM CursorSafe == Spec => []CursorFound
BY AnalysisInvariance, SomeCursor, PTL

\* The progress is what the workers' cursors add up to, and the destinations.
LEMMA ProgressIs ==
  ASSUME array \in Inputs, Sources(workers, NodeCount, ItemsCount)
  PROVE  /\ Progress = dest + SumFunction(Ends(workers))
         /\ SumFunction(Ends(workers)) \in Int
<1>1. Nodes = DOMAIN workers
  BY FrameOf DEF Sources
<1>2. SumFunction(Ends(workers)) \in Int
  BY FrameOf, Totals
<1> QED
  BY <1>1, <1>2 DEF Progress, Ends

LEMMA StepForward ==
  ASSUME AnalysisInv, Next, status' = "run"
  PROVE  Progress' > Progress \/ UNCHANGED vars
<1>1. PICK n, m : n = NodeCount /\ m = ItemsCount
  OBVIOUS
<1>2. CASE Stopped
  BY <1>2 DEF Stopped
<1>3. CASE Overread
  BY <1>3 DEF Overread
<1>4. ASSUME ~ Stopped, ~ Overread
      PROVE  Progress' > Progress
  <2>1. array \in Inputs /\ Controls /\ WorkersInv /\ array' = array
    BY <1>4 DEF AnalysisInv, Next, Advance, AskDetails, Save, InLoop
  <2>2. Frame(n, m) /\ Nodes = 0 .. n - 1 /\ dest \in Nat /\ Sources(workers, n, m)
    BY <1>1, <2>1, FrameOf DEF Controls, WorkersInv
  <2>3. PICK e \in Int : e = SumFunction(Ends(workers)) /\ Progress = dest + e
    BY <1>1, <2>1, <2>2, ProgressIs
  <2>4. WorkersInv' /\ NodeCount' = n /\ ItemsCount' = m /\ Nodes' = Nodes
    BY <1>1, <2>1, NextInv, SameArray DEF AnalysisInv
  <2>5. Sources(workers', n, m)
    BY <2>4 DEF WorkersInv
  <2>6. PICK f \in Int : f = SumFunction(Ends(workers')) /\ Progress' = dest' + f
    <3>1. DOMAIN workers' = Nodes'
      BY <2>2, <2>4, <2>5 DEF Sources
    <3>2. SumFunction(Ends(workers')) \in Int
      BY <2>2, <2>5, Totals
    <3> QED
      BY <3>1, <3>2 DEF Progress, Ends
  <2>7. CASE Advance \/ AskDetails
    <3>1. PICK k : k = Smallest(Checked)
      OBVIOUS
    <3>2. Forward(workers, Moved, k, n, m) /\ Sources(Moved, n, m)
      BY <1>1, <2>1, <2>7, <3>1, Iteration DEF Iterated, Advance, AskDetails
    <3>3. PICK c \in Nat \ {0} : SumFunction(Ends(Moved)) = SumFunction(Ends(workers)) + c
      <4>1. SumFunction(Ends(Moved))
              = SumFunction(Ends(workers)) + (IF Moved[k].detail = None THEN Step ELSE 1)
        BY <2>2, <3>2, ForwardTotals
      <4> QED
        BY <4>1, StepType
    <3>4. Ends(workers') = Ends(Moved)
      <4>1. CASE Advance
        BY <4>1 DEF Advance
      <4>2. CASE AskDetails
        <5>1. \A i \in 0 .. n - 1 : RangeEnd(workers'[i]) = RangeEnd(Moved[i])
          BY <1>1, <4>2, AskedWorkers
        <5>2. DOMAIN workers' = 0 .. n - 1 /\ DOMAIN Moved = 0 .. n - 1
          BY <2>5, <3>2 DEF Sources
        <5> QED
          BY <5>1, <5>2 DEF Ends
      <4> QED
        BY <2>7, <4>1, <4>2
    <3>5. dest' = dest
      BY <2>7 DEF Advance, AskDetails
    <3> QED
      BY <2>2, <2>3, <2>6, <3>3, <3>4, <3>5
  <2>8. CASE Save
    <3>1. dest' = dest + 1 /\ dest + 1 < n
      BY <1>1, <2>8 DEF Save
    <3>2. Ends(workers') = Ends(workers)
      BY <1>1, <2>8, <3>1, SavedWorkers
    <3> QED
      BY <2>2, <2>3, <2>6, <3>1, <3>2
  <2> QED
    BY <1>4, <2>7, <2>8 DEF Next
<1> QED
  BY <1>2, <1>3, <1>4

\* Every iteration of the loops of alloc_range_request_analize_histograms that goes
\* on moves a cursor over an item or serves a destination, and nothing moves one
\* back: as no cursor passes the items of its array (RangeFacts), the analysis stops.
THEOREM ForwardSafe == Spec => AlwaysForward
<1>1. AnalysisInv /\ [Next]_vars => [status' = "run" => Progress' > Progress]_vars
  BY StepForward
<1> QED
  BY <1>1, AnalysisInvariance, PTL DEF Spec, AlwaysForward

-----------------------------------------------------------------------------
(* What the distributed sort takes from the analysis. *)

\* An analysis that ends normally has given every item of every source to a
\* destination. With RangesContiguous its ranges are one of the partitions that
\* DistrSort chooses from (Cuts).
EveryItemCut ==
  status = "done" =>
    /\ Len(result) = NodeCount
    /\ \A i \in Nodes : result[NodeCount][i].last = ItemsCount - 1

\* When the shares of all destinations are full the cursors are at the ends.
LEMMA EndsReached ==
  ASSUME NEW n, NEW m, Frame(n, m), NEW ws, Sources(ws, n, m),
         SumFunction(Ends(ws)) = n * m, NEW y \in 0 .. n - 1
  PROVE  RangeEnd(ws[y]) = m
<1>1. n \in Nat /\ m \in Nat
  BY DEF Frame
<1>2. PICK f, g : f = Ends(ws) /\ g = [i \in 0 .. n - 1 |-> m]
  OBVIOUS
<1>3. ASSUME NEW i \in 0 .. n - 1 PROVE f[i] = RangeEnd(ws[i]) /\ f[i] \in Nat /\ f[i] <= m
  <2>1. f[i] = RangeEnd(ws[i])
    BY <1>2 DEF Ends, Sources
  <2> QED
    BY <2>1, RangeFacts DEF Sources
<1>4. Numbers(f, n) /\ Numbers(g, n)
  BY <1>1, <1>2, Totals DEF Numbers
<1>5. AtMost(f, g, 0, n)
  <2>1. ASSUME NEW i \in 0 .. n - 1 PROVE f[i] <= g[i] + 0
    BY <1>1, <1>2, <1>3
  <2> QED
    BY <2>1 DEF AtMost
<1>6. PICK total \in Int : total = n * m /\ SumFunction(f) = total /\ SumFunction(g) = total
  <2>1. SumFunction(g) = n * m
    BY <1>1, <1>2, SumConstant
  <2> QED
    BY <1>1, <1>2, <2>1
<1>7. ASSUME RangeEnd(ws[y]) # m PROVE FALSE
  <2>1. f[y] + 1 <= g[y]
    BY <1>1, <1>2, <1>3, <1>7
  <2>2. SumFunction(f) + 1 <= SumFunction(g)
    BY <1>1, <1>4, <1>5, <2>1, SumOneMore
  <2> QED
    BY <1>6, <2>2
<1> QED
  BY <1>7

LEMMA SaveCuts ==
  ASSUME AnalysisInv, Save
  PROVE  EveryItemCut'
<1> SUFFICES ASSUME status' = "done" PROVE EveryItemCut'
  BY DEF EveryItemCut
<1>1. PICK n, m : n = NodeCount /\ m = ItemsCount
  OBVIOUS
<1>2. array \in Inputs /\ Controls /\ WorkersInv /\ array' = array /\ ~ (dest + 1 < n)
  BY <1>1 DEF AnalysisInv, Save
<1>3. Frame(n, m) /\ Nodes = 0 .. n - 1 /\ Sources(workers, n, m) /\ dest \in 0 .. n - 1
  BY <1>1, <1>2, FrameOf DEF Controls, WorkersInv
<1>4. n \in Nat /\ m \in Nat /\ dest \in Nat /\ n = dest + 1
  BY <1>2, <1>3 DEF Frame
<1>5. SumFunction(Ends(workers)) = n * m
  <2>1. Share(workers) = m /\ SumFunction(Begins(workers)) = dest * m
    BY <1>1, SavedShare DEF Continues
  <2>2. PICK e \in Int, b \in Int : e = SumFunction(Ends(workers)) /\ b = dest * m /\ m = e - b
    BY <1>3, <1>4, <2>1, Totals DEF Share
  <2>3. n * m = b + m
    BY <1>3, <1>4, <2>2, AlignedProduct
  <2> QED
    BY <1>4, <2>2, <2>3
<1>6. /\ Len(result') = n
      /\ \A i \in 0 .. n - 1 : result'[n][i].last + 1 = RangeEnd(workers[i])
      /\ result' \in Seq(Ranges(n))
  BY <1>1, <1>4, SavedContiguous
<1>7. ASSUME NEW i \in 0 .. n - 1 PROVE result'[n][i].last = m - 1
  <2>1. result'[n] \in Ranges(n)
    <3>1. n \in 1 .. Len(result')
      BY <1>4, <1>6
    <3> QED
      BY <1>6, <3>1, ElementOfSeq
  <2>2. PICK last \in Int : last = result'[n][i].last
    BY <2>1 DEF Ranges
  <2>3. last + 1 = m
    BY <1>3, <1>5, <1>6, <2>2, EndsReached
  <2> QED
    BY <1>4, <2>2, <2>3
<1>8. Nodes' = 0 .. n - 1 /\ NodeCount' = n /\ ItemsCount' = m
  BY <1>1, <1>2, <1>3, SameArray
<1> QED
  BY <1>6, <1>7, <1>8 DEF EveryItemCut

\* When alloc_range_request_analize_histograms returns its result, every item of
\* every source is in the range of one destination: the requests that the manager then
\* sends to a source cover its whole array.
THEOREM CutSafe == Spec => []EveryItemCut
<1>1. Init => EveryItemCut
  BY DEF Init, EveryItemCut
<1>2. AnalysisInv /\ EveryItemCut /\ [Next]_vars => EveryItemCut'
  <2> SUFFICES ASSUME AnalysisInv, EveryItemCut, [Next]_vars PROVE EveryItemCut'
    OBVIOUS
  <2>1. CASE Save
    BY <2>1, SaveCuts
  <2>2. CASE Overread \/ Advance \/ AskDetails
    <3>1. status' # "done"
      BY <2>2 DEF Overread, Advance, AskDetails, InLoop
    <3> QED
      BY <3>1 DEF EveryItemCut
  <2>3. CASE UNCHANGED vars
    BY <2>3, SameArray DEF vars, EveryItemCut
  <2> QED
    BY <2>1, <2>2, <2>3 DEF Next, Stopped
<1> QED
  BY <1>1, <1>2, AnalysisInvariance, PTL DEF Spec
=============================================================================
