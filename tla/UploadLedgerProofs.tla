------------------------- MODULE UploadLedgerProofs -------------------------
(***************************************************************************)
(* Theorems about the upload ledger, for every number of sessions, limit,  *)
(* clock and key.  The global budget is exact, deliveries and files follow *)
(* their sessions; the recorded usage is exact, an upload is charged once  *)
(* and refunded at most once; and, when the transaction reads the day it   *)
(* runs on and no charge is below one byte, the quotas are kept, the       *)
(* maintenance tick never fails and the ledger that a stopped process      *)
(* leaves passes every check of startup.                                   *)
(***************************************************************************)
EXTENDS UploadLedger, FiniteSetTheorems, WellFoundedInduction, TLAPS

-----------------------------------------------------------------------------
(* Sums of a function over a finite set (SumFunctionOnSet). *)

\* The order of the naturals, as a relation.
Less == {p \in Nat \X Nat : p[1] < p[2]}

\* Every non-empty set of naturals has a least element.
LEMMA LeastNatural ==
  ASSUME NEW T \in SUBSET Nat, T # {}
  PROVE  \E x \in T : \A y \in T : x <= y
<1>1. IsWellFoundedOn(Less, Nat)
  BY NatLessThanWellFounded, Zenon DEF OpToRel, Less
<1>2. PICK x \in T : \A y \in T : ~ (<<y, x>> \in Less)
  BY <1>1, WFMin, Zenon
<1>3. ASSUME NEW y \in T
      PROVE  x <= y
  <2>1. y \in Nat /\ x \in Nat
    OBVIOUS
  <2>2. <<y, x>> \in Nat \X Nat
    BY <2>1
  <2>3. ~ (y < x)
    BY <1>2, <2>2 DEF Less
  <2>4. QED
    BY <2>1, <2>3
<1>4. QED
  BY <1>3

Chosen(T) == CHOOSE x \in T : TRUE

FoldStep(f, it, T) ==
  IF T = {} THEN 0 ELSE f[Chosen(T)] + it[T \ {Chosen(T)}]

UpTo(S, n) == {T \in SUBSET S : Cardinality(T) <= n}

\* Removing the chosen element of a finite non-empty set lowers its cardinality by one.
LEMMA ChosenRemoved ==
  ASSUME NEW S, IsFiniteSet(S), NEW T \in SUBSET S, T # {}
  PROVE  /\ Chosen(T) \in T
         /\ T \ {Chosen(T)} \in SUBSET S
         /\ Cardinality(T) \in Nat
         /\ Cardinality(T) > 0
         /\ Cardinality(T \ {Chosen(T)}) = Cardinality(T) - 1
<1>1. Chosen(T) \in T
  BY DEF Chosen
<1>2. IsFiniteSet(T)
  BY FS_Subset
<1>3. Cardinality(T) \in Nat /\ Cardinality(T) # 0
  BY <1>2, FS_CardinalityType, FS_EmptySet
<1>4. Cardinality(T \ {Chosen(T)}) = Cardinality(T) - 1
  BY <1>1, <1>2, FS_RemoveElement
<1>5. QED
  BY <1>1, <1>3, <1>4

\* The fold's iterator exists on the subsets of at most n elements, for every n.
LEMMA PartialFoldExists ==
  ASSUME NEW S, IsFiniteSet(S), NEW f \in [S -> Int], NEW n \in Nat
  PROVE  \E h \in [UpTo(S, n) -> Int] :
            \A T \in UpTo(S, n) : h[T] = FoldStep(f, h, T)
<1> DEFINE Good(k) == \E h \in [UpTo(S, k) -> Int] :
                         \A T \in UpTo(S, k) : h[T] = FoldStep(f, h, T)
           Bad == {k \in Nat : ~ Good(k)}
<1>1. SUFFICES ASSUME Bad # {} PROVE FALSE
  OBVIOUS
<1>2. PICK m \in Bad : \A k \in Bad : m <= k
  BY <1>1, LeastNatural, Bad \in SUBSET Nat
<1>3. m \in Nat /\ ~ Good(m)
  OBVIOUS
<1> HIDE DEF Bad
<1>4. CASE m = 0
  <2> DEFINE h == [T \in UpTo(S, 0) |-> 0]
  <2>1. h \in [UpTo(S, 0) -> Int]
    OBVIOUS
  <2>2. \A T \in UpTo(S, 0) : T = {}
    <3> SUFFICES ASSUME NEW T \in UpTo(S, 0), T # {} PROVE FALSE
      OBVIOUS
    <3>1. T \in SUBSET S /\ Cardinality(T) <= 0
      BY DEF UpTo
    <3>2. T \in SUBSET S
      BY <3>1
    <3>3. Cardinality(T) \in Nat /\ Cardinality(T) > 0
      BY <3>2, ChosenRemoved
    <3>4. QED
      BY <3>1, <3>3
  <2>3. \A T \in UpTo(S, 0) : h[T] = FoldStep(f, h, T)
    BY <2>2 DEF FoldStep
  <2>4. Good(0)
    BY <2>1, <2>3
  <2>5. QED
    BY <1>3, <1>4, <2>4
<1>5. CASE m # 0
  <2>1. m - 1 \in Nat /\ m - 1 \notin Bad
    BY <1>2, <1>3, <1>5
  <2>2. Good(m - 1)
    BY <2>1 DEF Bad
  <2>3. PICK g \in [UpTo(S, m - 1) -> Int] :
               \A T \in UpTo(S, m - 1) : g[T] = FoldStep(f, g, T)
    BY <2>2
  <2> DEFINE h == [T \in UpTo(S, m) |-> FoldStep(f, g, T)]
  <2>4. \A T \in UpTo(S, m) : T # {} =>
           T \ {Chosen(T)} \in UpTo(S, m - 1)
    BY ChosenRemoved, <1>3 DEF UpTo
  <2>5. \A T \in UpTo(S, m) : FoldStep(f, g, T) \in Int
    <3> TAKE T \in UpTo(S, m)
    <3>1. CASE T = {}
      BY <3>1 DEF FoldStep
    <3>2. CASE T # {}
      <4>1. g[T \ {Chosen(T)}] \in Int
        BY <2>4, <3>2
      <4>2. f[Chosen(T)] \in Int
        BY <3>2 DEF Chosen, UpTo
      <4>3. QED
        BY <4>1, <4>2, <3>2 DEF FoldStep
    <3>3. QED
      BY <3>1, <3>2
  <2>6. h \in [UpTo(S, m) -> Int]
    BY <2>5
  <2>7. \A T \in UpTo(S, m - 1) : T \in UpTo(S, m) /\ h[T] = g[T]
    <3>1. \A T \in UpTo(S, m - 1) : T \in UpTo(S, m)
      <4> TAKE T \in UpTo(S, m - 1)
      <4>1. T \in SUBSET S /\ Cardinality(T) <= m - 1
        BY DEF UpTo
      <4>2. Cardinality(T) \in Nat
        BY <4>1, FS_Subset, FS_CardinalityType
      <4>3. QED
        BY <4>1, <4>2, <1>3 DEF UpTo
    <3>2. QED
      BY <3>1, <2>3
  <2>8. \A T \in UpTo(S, m) : h[T] = FoldStep(f, h, T)
    BY <2>4, <2>7 DEF FoldStep
  <2> HIDE DEF h
  <2>9. Good(m)
    BY <2>6, <2>8
  <2>10. QED
    BY <1>3, <2>9
<1>6. QED
  BY <1>4, <1>5

IsFold(f, S, it) ==
  /\ it \in [SUBSET S -> Int]
  /\ \A T \in SUBSET S : it[T] = FoldStep(f, it, T)

\* The sum is the value at S of an iterator that unfolds one chosen element at a time.
LEMMA FoldExists ==
  ASSUME NEW S, IsFiniteSet(S), NEW f \in [S -> Int]
  PROVE  \E it : IsFold(f, S, it) /\ SumFunctionOnSet(f, S) = it[S]
<1> DEFINE Body(it) == [T \in SUBSET S |-> FoldStep(f, it, T)]
           n == Cardinality(S)
<1>1. n \in Nat
  BY FS_CardinalityType
<1>2. UpTo(S, n) = SUBSET S
  <2>1. \A T \in SUBSET S : Cardinality(T) <= n
    BY FS_Subset
  <2>2. QED
    BY <2>1 DEF UpTo
<1>3. \E h : h = Body(h)
  <2>1. PICK h \in [SUBSET S -> Int] :
               \A T \in SUBSET S : h[T] = FoldStep(f, h, T)
    <3>1. \E h \in [UpTo(S, n) -> Int] :
             \A T \in UpTo(S, n) : h[T] = FoldStep(f, h, T)
      BY <1>1, PartialFoldExists
    <3>2. QED
      BY <3>1, <1>2, Zenon
  <2>2. h = [T \in SUBSET S |-> h[T]]
    OBVIOUS
  <2>3. h = Body(h)
    BY <2>1, <2>2
  <2>4. QED
    BY <2>3
<1> DEFINE it == CHOOSE g : g = Body(g)
<1>4. it = Body(it)
  BY <1>3
<1>5. \A T \in SUBSET S : it[T] = FoldStep(f, it, T)
  BY <1>4
<1>6. SumFunctionOnSet(f, S) = it[S]
  BY DEF SumFunctionOnSet, FoldFunctionOnSet, MapThenFoldSet, FoldStep, Chosen
<1>7. it \in [SUBSET S -> Int]
  <2> DEFINE Bad == {k \in Nat : \E T \in SUBSET S : Cardinality(T) = k /\ it[T] \notin Int}
  <2> HIDE DEF it
  <2>1. CASE Bad # {}
    <3>1. PICK k \in Bad : \A j \in Bad : k <= j
      BY <2>1, LeastNatural, Bad \in SUBSET Nat
    <3>2. PICK T \in SUBSET S : Cardinality(T) = k /\ it[T] \notin Int
      BY <3>1
    <3>3. T # {}
      <4>1. it[T] = FoldStep(f, it, T) /\ it[T] \notin Int
        BY <1>5, <3>2
      <4>2. QED
        BY <4>1 DEF FoldStep
    <3>4. it[T] = f[Chosen(T)] + it[T \ {Chosen(T)}]
      BY <1>5, <3>3 DEF FoldStep
    <3>5. Cardinality(T \ {Chosen(T)}) = k - 1 /\ k - 1 \in Nat /\ T \ {Chosen(T)} \in SUBSET S
      BY ChosenRemoved, <3>2, <3>3
    <3>6. k - 1 \notin Bad
      BY <3>1, <3>5
    <3>7. it[T \ {Chosen(T)}] \in Int
      BY <3>5, <3>6
    <3>8. f[Chosen(T)] \in Int
      BY ChosenRemoved, <3>3
    <3>9. QED
      BY <3>2, <3>4, <3>7, <3>8
  <2>2. CASE Bad = {}
    <3>1. \A T \in SUBSET S : Cardinality(T) \in Nat
      BY FS_Subset, FS_CardinalityType
    <3>2. \A T \in SUBSET S : it[T] \in Int
      BY <3>1, <2>2
    <3>3. QED
      BY <3>2, <1>4
  <2>3. QED
    BY <2>1, <2>2
<1>8. QED
  BY <1>5, <1>6, <1>7 DEF IsFold

-----------------------------------------------------------------------------
\* Induction on the subsets of a finite set, as a fact about sets: a family that
\* holds {} and holds T whenever it holds T without its chosen element, holds all.
LEMMA SubsetInduction ==
  ASSUME NEW S, IsFiniteSet(S), NEW F \in SUBSET (SUBSET S),
         {} \in F,
         \A T \in SUBSET S : T # {} /\ T \ {Chosen(T)} \in F => T \in F
  PROVE  F = SUBSET S
<1> DEFINE Bad == {k \in Nat : \E T \in SUBSET S : Cardinality(T) = k /\ T \notin F}
<1>1. CASE Bad # {}
  <2>1. PICK k \in Bad : \A j \in Bad : k <= j
    BY <1>1, LeastNatural, Bad \in SUBSET Nat
  <2>2. PICK T \in SUBSET S : Cardinality(T) = k /\ T \notin F
    BY <2>1
  <2>3. T # {}
    BY <2>2
  <2>4. /\ Cardinality(T \ {Chosen(T)}) = k - 1
        /\ k - 1 \in Nat
        /\ T \ {Chosen(T)} \in SUBSET S
    <3> HIDE DEF Bad
    <3>1. QED
      BY ChosenRemoved, <2>2, <2>3
  <2>5. k - 1 \notin Bad
    BY <2>1, <2>4
  <2>6. T \ {Chosen(T)} \in F
    BY <2>4, <2>5
  <2>7. QED
    BY <2>2, <2>3, <2>6
<1>2. CASE Bad = {}
  <2>1. \A T \in SUBSET S : Cardinality(T) \in Nat
    BY FS_Subset, FS_CardinalityType
  <2>2. \A T \in SUBSET S : T \in F
    BY <2>1, <1>2
  <2>3. QED
    BY <2>2
<1>3. QED
  BY <1>1, <1>2

\* The sum of integers is an integer.
LEMMA SumType ==
  ASSUME NEW S, IsFiniteSet(S), NEW f \in [S -> Int]
  PROVE  SumFunctionOnSet(f, S) \in Int
<1>1. PICK it : IsFold(f, S, it) /\ SumFunctionOnSet(f, S) = it[S]
  BY FoldExists
<1>2. QED
  BY <1>1 DEF IsFold

\* The sum of naturals is a natural no less than any of them.
LEMMA SumNat ==
  ASSUME NEW S, IsFiniteSet(S), NEW f \in [S -> Nat]
  PROVE  /\ SumFunctionOnSet(f, S) \in Nat
         /\ \A s \in S : f[s] <= SumFunctionOnSet(f, S)
<1>1. f \in [S -> Int]
  OBVIOUS
<1>2. PICK it : IsFold(f, S, it) /\ SumFunctionOnSet(f, S) = it[S]
  BY <1>1, FoldExists
<1> DEFINE F == {T \in SUBSET S : it[T] \in Nat /\ \A s \in T : f[s] <= it[T]}
<1>3. {} \in F
  <2>1. it[{}] = 0
    BY <1>2 DEF IsFold, FoldStep
  <2>2. QED
    BY <2>1
<1>4. ASSUME NEW T \in SUBSET S, T # {}, T \ {Chosen(T)} \in F
      PROVE  T \in F
  <2>1. it[T] = f[Chosen(T)] + it[T \ {Chosen(T)}]
    BY <1>2, <1>4 DEF IsFold, FoldStep
  <2>2. Chosen(T) \in S
    BY <1>4 DEF Chosen
  <2>3. f[Chosen(T)] \in Nat /\ it[T \ {Chosen(T)}] \in Nat
    BY <1>4, <2>2
  <2>4. ASSUME NEW s \in T PROVE f[s] <= it[T]
    <3>1. CASE s = Chosen(T)
      BY <3>1, <2>1, <2>3
    <3>2. CASE s # Chosen(T)
      <4>1. f[s] <= it[T \ {Chosen(T)}] /\ f[s] \in Nat
        BY <1>4, <3>2
      <4>2. QED
        BY <4>1, <2>1, <2>3
    <3>3. QED
      BY <3>1, <3>2
  <2>5. it[T] \in Nat
    BY <2>1, <2>3
  <2>6. QED
    BY <2>4, <2>5
<1>5. F = SUBSET S
  <2> HIDE DEF F
  <2>1. F \in SUBSET (SUBSET S)
    BY DEF F
  <2>2. QED
    BY <1>3, <1>4, <2>1, SubsetInduction
<1>6. QED
  BY <1>2, <1>5

\* The sum of a pointwise sum is the sum of the sums.
LEMMA SumAdd ==
  ASSUME NEW S, IsFiniteSet(S), NEW f \in [S -> Int], NEW g \in [S -> Int],
         NEW h \in [S -> Int], \A s \in S : h[s] = f[s] + g[s]
  PROVE  SumFunctionOnSet(h, S) = SumFunctionOnSet(f, S) + SumFunctionOnSet(g, S)
<1>1. PICK fi : IsFold(f, S, fi) /\ SumFunctionOnSet(f, S) = fi[S]
  BY FoldExists
<1>2. PICK gi : IsFold(g, S, gi) /\ SumFunctionOnSet(g, S) = gi[S]
  BY FoldExists
<1>3. PICK hi : IsFold(h, S, hi) /\ SumFunctionOnSet(h, S) = hi[S]
  BY FoldExists
<1> DEFINE F == {T \in SUBSET S : hi[T] = fi[T] + gi[T]}
<1>4. {} \in F
  <2>1. fi[{}] = 0 /\ gi[{}] = 0 /\ hi[{}] = 0
    BY <1>1, <1>2, <1>3 DEF IsFold, FoldStep
  <2>2. QED
    BY <2>1
<1>5. ASSUME NEW T \in SUBSET S, T # {}, T \ {Chosen(T)} \in F
      PROVE  T \in F
  <2> DEFINE c == Chosen(T)
  <2>1. /\ fi[T] = f[c] + fi[T \ {c}]
        /\ gi[T] = g[c] + gi[T \ {c}]
        /\ hi[T] = h[c] + hi[T \ {c}]
    BY <1>1, <1>2, <1>3, <1>5 DEF IsFold, FoldStep
  <2>2. c \in S
    BY <1>5 DEF Chosen
  <2> HIDE DEF c
  <2>3. f[c] \in Int /\ g[c] \in Int /\ h[c] = f[c] + g[c]
    BY <2>2
  <2>4. fi[T \ {c}] \in Int /\ gi[T \ {c}] \in Int
    BY <1>1, <1>2 DEF IsFold
  <2>5. hi[T \ {c}] = fi[T \ {c}] + gi[T \ {c}]
    BY <1>5 DEF c
  <2>6. hi[T] = fi[T] + gi[T]
    BY <2>1, <2>3, <2>4, <2>5
  <2>7. QED
    BY <2>6
<1>6. F = SUBSET S
  <2> HIDE DEF F
  <2>1. F \in SUBSET (SUBSET S)
    BY DEF F
  <2>2. QED
    BY <1>4, <1>5, <2>1, SubsetInduction
<1>7. S \in F
  BY <1>6
<1>8. QED
  BY <1>1, <1>2, <1>3, <1>7

\* The sum of a function that is 0 everywhere but at s is its value at s.
LEMMA SumSingle ==
  ASSUME NEW S, IsFiniteSet(S), NEW f \in [S -> Int], NEW s \in S,
         \A t \in S : t # s => f[t] = 0
  PROVE  SumFunctionOnSet(f, S) = f[s]
<1>1. PICK it : IsFold(f, S, it) /\ SumFunctionOnSet(f, S) = it[S]
  BY FoldExists
<1> DEFINE F == {T \in SUBSET S : it[T] = IF s \in T THEN f[s] ELSE 0}
<1>2. {} \in F
  BY <1>1 DEF IsFold, FoldStep
<1>3. ASSUME NEW T \in SUBSET S, T # {}, T \ {Chosen(T)} \in F
      PROVE  T \in F
  <2>1. it[T] = f[Chosen(T)] + it[T \ {Chosen(T)}]
    BY <1>1, <1>3 DEF IsFold, FoldStep
  <2>2. Chosen(T) \in T
    BY <1>3 DEF Chosen
  <2>3. f[Chosen(T)] \in Int /\ f[s] \in Int
    BY <2>2
  <2>4. it[T \ {Chosen(T)}] = IF s \in T \ {Chosen(T)} THEN f[s] ELSE 0
    BY <1>3
  <2>5. CASE s = Chosen(T)
    BY <2>1, <2>2, <2>3, <2>4, <2>5
  <2>6. CASE s # Chosen(T)
    <3>1. f[Chosen(T)] = 0
      BY <2>2, <2>6
    <3>2. QED
      BY <2>1, <2>3, <2>4, <2>6, <3>1
  <2>7. QED
    BY <2>5, <2>6
<1>4. F = SUBSET S
  <2> HIDE DEF F
  <2>1. F \in SUBSET (SUBSET S)
    BY DEF F
  <2>2. QED
    BY <1>2, <1>3, <2>1, SubsetInduction
<1>5. S \in F
  BY <1>4
<1>6. QED
  BY <1>1, <1>5

\* A sum whose addends change only at s changes by what the addend at s does.
LEMMA SumUpdate ==
  ASSUME NEW S, IsFiniteSet(S), NEW f \in [S -> Int], NEW g \in [S -> Int],
         NEW s \in S, \A t \in S : t # s => g[t] = f[t]
  PROVE  SumFunctionOnSet(g, S) = SumFunctionOnSet(f, S) + (g[s] - f[s])
<1> DEFINE d == [t \in S |-> g[t] - f[t]]
<1>1. d \in [S -> Int] /\ d[s] = g[s] - f[s]
  OBVIOUS
<1>2. \A t \in S : t # s => d[t] = 0
  OBVIOUS
<1>3. \A t \in S : g[t] = f[t] + d[t]
  OBVIOUS
<1> HIDE DEF d
<1>4. SumFunctionOnSet(d, S) = d[s]
  BY <1>1, <1>2, SumSingle
<1>5. SumFunctionOnSet(g, S) = SumFunctionOnSet(f, S) + SumFunctionOnSet(d, S)
  BY <1>1, <1>3, SumAdd
<1>6. QED
  BY <1>1, <1>4, <1>5

\* The sum of zeros is zero.
LEMMA SumZero ==
  ASSUME NEW S, IsFiniteSet(S), NEW f \in [S -> Int], \A s \in S : f[s] = 0
  PROVE  SumFunctionOnSet(f, S) = 0
<1>1. CASE S = {}
  <2>1. PICK it : IsFold(f, S, it) /\ SumFunctionOnSet(f, S) = it[S]
    BY FoldExists
  <2>2. QED
    BY <1>1, <2>1 DEF IsFold, FoldStep
<1>2. CASE S # {}
  BY <1>2, SumSingle
<1>3. QED
  BY <1>1, <1>2

\* A sum of smaller addends is smaller.
LEMMA SumMonotone ==
  ASSUME NEW S, IsFiniteSet(S), NEW f \in [S -> Int], NEW g \in [S -> Int],
         \A s \in S : f[s] <= g[s]
  PROVE  SumFunctionOnSet(f, S) <= SumFunctionOnSet(g, S)
<1> DEFINE h == [s \in S |-> g[s] - f[s]]
<1>1. h \in [S -> Nat] /\ h \in [S -> Int]
  OBVIOUS
<1>2. SumFunctionOnSet(h, S) \in Nat
  BY <1>1, SumNat
<1>3. \A s \in S : g[s] = f[s] + h[s]
  OBVIOUS
<1> HIDE DEF h
<1>4. SumFunctionOnSet(g, S) = SumFunctionOnSet(f, S) + SumFunctionOnSet(h, S)
  BY <1>1, <1>3, SumAdd
<1>5. QED
  BY <1>2, <1>4, SumType

\* f is what each member of S is worth, o its owner, h[i] what i owns and g[i] its worth;
\* what nobody in I owns is worth nothing.
Shares(S, I, o, f, h, g) ==
  /\ f \in [S -> Int] /\ g \in [I -> Int]
  /\ \A s \in S : o[s] \in I \/ f[s] = 0
  /\ \A i \in I : /\ h[i] \in [S -> Int] /\ g[i] = SumFunctionOnSet(h[i], S)
                  /\ \A s \in S : h[i][s] = IF o[s] = i THEN f[s] ELSE 0

\* Adding up owner by owner gives what all the members are worth.
LEMMA SumByOwner ==
  ASSUME NEW S, IsFiniteSet(S), NEW I, IsFiniteSet(I), NEW o, NEW f, NEW h, NEW g,
         Shares(S, I, o, f, h, g)
  PROVE  SumFunctionOnSet(g, I) = SumFunctionOnSet(f, S)
<1> USE DEF Shares
<1> DEFINE Part(T, i) == [s \in S |-> IF s \in T /\ o[s] = i THEN f[s] ELSE 0]
           Inner(T) == [i \in I |-> SumFunctionOnSet(Part(T, i), S)]
           Whole(T) == [s \in S |-> IF s \in T /\ o[s] \in I THEN f[s] ELSE 0]
           F == {T \in SUBSET S : SumFunctionOnSet(Inner(T), I)
                                    = SumFunctionOnSet(Whole(T), S)}
<1>0. ASSUME NEW T \in SUBSET S
      PROVE  /\ \A i \in I : Part(T, i) \in [S -> Int]
             /\ Whole(T) \in [S -> Int]
  OBVIOUS
<1>1. ASSUME NEW T \in SUBSET S PROVE Inner(T) \in [I -> Int]
  <2>1. \A i \in I : SumFunctionOnSet(Part(T, i), S) \in Int
    <3> SUFFICES ASSUME NEW i \in I PROVE SumFunctionOnSet(Part(T, i), S) \in Int
      OBVIOUS
    <3>1. Part(T, i) \in [S -> Int]
      BY <1>0
    <3> HIDE DEF Part
    <3>2. QED
      BY <3>1, SumType
  <2> HIDE DEF Part
  <2>2. QED
    BY <2>1
<1>2. {} \in F
  <2>1. ASSUME NEW i \in I PROVE Inner({})[i] = 0
    <3>1. Part({}, i) \in [S -> Int] /\ \A s \in S : Part({}, i)[s] = 0
      OBVIOUS
    <3> HIDE DEF Part
    <3>2. SumFunctionOnSet(Part({}, i), S) = 0
      BY <3>1, SumZero
    <3>3. QED
      BY <3>2
  <2>2. Inner({}) \in [I -> Int]
    <3>1. {} \in SUBSET S
      OBVIOUS
    <3> HIDE DEF Inner
    <3>2. QED
      BY <1>1, <3>1
  <2>3. Whole({}) \in [S -> Int] /\ \A s \in S : Whole({})[s] = 0
    OBVIOUS
  <2> HIDE DEF Inner, Whole
  <2>4. SumFunctionOnSet(Inner({}), I) = 0
    BY <2>1, <2>2, SumZero
  <2>5. SumFunctionOnSet(Whole({}), S) = 0
    BY <2>3, SumZero
  <2>6. QED
    BY <2>4, <2>5
<1>3. ASSUME NEW T \in SUBSET S, T # {}, T \ {Chosen(T)} \in F PROVE T \in F
  <2> DEFINE c == Chosen(T)
             U == T \ {c}
  <2>1. c \in T /\ c \in S /\ U \in SUBSET S /\ c \notin U /\ T \in SUBSET S
    BY <1>3, ChosenRemoved
  <2>2. SumFunctionOnSet(Inner(U), I) = SumFunctionOnSet(Whole(U), S)
    BY <1>3
  <2> HIDE DEF c
  <2>3. ASSUME NEW i \in I
        PROVE  SumFunctionOnSet(Part(T, i), S)
                 = SumFunctionOnSet(Part(U, i), S) + (IF o[c] = i THEN f[c] ELSE 0)
    <3>1. /\ Part(T, i) \in [S -> Int] /\ Part(U, i) \in [S -> Int]
          /\ \A s \in S : s # c => Part(T, i)[s] = Part(U, i)[s]
          /\ Part(T, i)[c] - Part(U, i)[c] = IF o[c] = i THEN f[c] ELSE 0
      BY <2>1
    <3> HIDE DEF Part, U
    <3>2. QED
      BY <2>1, <3>1, SumUpdate
  <2>4. SumFunctionOnSet(Whole(T), S)
          = SumFunctionOnSet(Whole(U), S) + (IF o[c] \in I THEN f[c] ELSE 0)
    <3>1. /\ Whole(T) \in [S -> Int] /\ Whole(U) \in [S -> Int]
          /\ \A s \in S : s # c => Whole(T)[s] = Whole(U)[s]
          /\ Whole(T)[c] - Whole(U)[c] = IF o[c] \in I THEN f[c] ELSE 0
      BY <2>1
    <3> HIDE DEF Whole, U
    <3>2. QED
      BY <2>1, <3>1, SumUpdate
  <2>5. /\ Inner(T) \in [I -> Int] /\ Inner(U) \in [I -> Int]
        /\ SumFunctionOnSet(Whole(U), S) \in Int
    <3>1. Inner(T) \in [I -> Int] /\ Inner(U) \in [I -> Int] /\ Whole(U) \in [S -> Int]
      <4> HIDE DEF Inner, Whole, U
      <4>1. QED
        BY <1>0, <1>1, <2>1
    <3> HIDE DEF Inner, Whole, U
    <3>2. QED
      BY <3>1, SumType
  <2>6. \A i \in I : Inner(T)[i] = Inner(U)[i] + (IF o[c] = i THEN f[c] ELSE 0)
    <3> HIDE DEF Part, U
    <3>1. QED
      BY <2>3
  <2> HIDE DEF Inner, Whole, U
  <2>7. f[c] \in Int
    BY <2>1
  <2>8. CASE o[c] \in I
    <3>1. \A i \in I : i # o[c] => Inner(T)[i] = Inner(U)[i]
      BY <2>5, <2>6
    <3>2. Inner(T)[o[c]] - Inner(U)[o[c]] = f[c]
      BY <2>5, <2>6, <2>7, <2>8
    <3>3. SumFunctionOnSet(Inner(T), I)
            = SumFunctionOnSet(Inner(U), I) + (Inner(T)[o[c]] - Inner(U)[o[c]])
      BY <2>5, <2>8, <3>1, SumUpdate
    <3>4. SumFunctionOnSet(Inner(T), I) = SumFunctionOnSet(Whole(T), S)
      BY <2>2, <2>4, <2>8, <3>2, <3>3
    <3>5. QED
      BY <3>4
  <2>9. CASE o[c] \notin I
    <3>1. \A i \in I : Inner(T)[i] = Inner(U)[i]
      BY <2>5, <2>6, <2>9
    <3>2. Inner(T) = Inner(U)
      BY <2>5, <3>1
    <3>3. SumFunctionOnSet(Inner(T), I) = SumFunctionOnSet(Whole(T), S)
      BY <2>2, <2>4, <2>5, <2>9, <3>2
    <3>4. QED
      BY <3>3
  <2>10. QED
    BY <2>8, <2>9
<1>4. S \in F
  <2>1. F \in SUBSET (SUBSET S)
    OBVIOUS
  <2> HIDE DEF F
  <2>2. F = SUBSET S
    BY <1>2, <1>3, <2>1, SubsetInduction
  <2>3. QED
    BY <2>2
<1>5. Inner(S) = g
  <2>1. ASSUME NEW i \in I PROVE Inner(S)[i] = g[i]
    <3>1. Part(S, i) = h[i]
      OBVIOUS
    <3> HIDE DEF Part
    <3>2. QED
      BY <3>1
  <2>2. Inner(S) \in [I -> Int]
    <3> HIDE DEF Inner
    <3>1. QED
      BY <1>1
  <2> HIDE DEF Inner
  <2>3. QED
    BY <2>1, <2>2
<1>6. Whole(S) = f
  OBVIOUS
<1>7. QED
  BY <1>4, <1>5, <1>6

\* A member of a finite set is worth no more than the whole of it.
LEMMA SumCovers ==
  ASSUME NEW S, IsFiniteSet(S), NEW f \in [S -> Nat], NEW s \in S
  PROVE  f[s] <= SumFunctionOnSet(f, S)
<1> DEFINE g == [x \in S |-> IF x = s THEN f[s] ELSE 0]
<1>1. g \in [S -> Int] /\ f \in [S -> Int] /\ g[s] = f[s]
      /\ (\A x \in S : x # s => g[x] = 0) /\ \A x \in S : g[x] <= f[x]
  OBVIOUS
<1> HIDE DEF g
<1>2. SumFunctionOnSet(g, S) = g[s]
  BY <1>1, SumSingle
<1>3. SumFunctionOnSet(g, S) <= SumFunctionOnSet(f, S)
  BY <1>1, SumMonotone
<1>4. QED
  BY <1>1, <1>2, <1>3

-----------------------------------------------------------------------------
(* Types. *)

\* The day of any instant of the model is a day of the model.
LEMMA DayOfType ==
  ASSUME NEW t \in 0 .. MaxClock
  PROVE  DayOf(t) \in Day
BY TimesAreNumbers DEF DayOf, Day

\* The first day is a day of the model.
LEMMA FirstDay == 0 \in Day
BY TimesAreNumbers DEF Day

\* Rows stay rows when a session dies.
LEMMA DeadRowType ==
  ASSUME NEW r \in Row
  PROVE  Expired(r) \in Row /\ Refunded(r) \in Row
BY DEF Expired, Refunded, Row, NoBytes, State, Terminal

\* Rows stay rows when one of them gets another state, reservation or lease.
LEMMA RowUpdateType ==
  ASSUME NEW r \in [Session -> Row], NEW s \in Session, NEW v \in State,
         NEW n \in Nat, NEW m \in Nat
  PROVE  /\ [r EXCEPT ![s].state = v] \in [Session -> Row]
         /\ [r EXCEPT ![s].lease = m] \in [Session -> Row]
         /\ [r EXCEPT ![s].state = v, ![s].reserved = n] \in [Session -> Row]
         /\ [r EXCEPT ![s].state = v, ![s].lease = m] \in [Session -> Row]
         /\ [r EXCEPT ![s].reserved = n, ![s].lease = m] \in [Session -> Row]
<1>1. [r EXCEPT ![s].state = v] \in [Session -> Row]
  BY DEF Row
<1>2. [r EXCEPT ![s].lease = m] \in [Session -> Row]
  BY DEF Row
<1>3. [r EXCEPT ![s].state = v, ![s].reserved = n] \in [Session -> Row]
  BY DEF Row
<1>4. [r EXCEPT ![s].state = v, ![s].lease = m] \in [Session -> Row]
  BY DEF Row
<1>5. [r EXCEPT ![s].reserved = n, ![s].lease = m] \in [Session -> Row]
  BY DEF Row
<1>6. QED
  BY <1>1, <1>2, <1>3, <1>4, <1>5

\* A row stays a row when its upload is settled.
LEMMA SettledRowType ==
  ASSUME NEW r \in Row, NEW n \in Nat, NEW d \in Day
  PROVE  [r EXCEPT !.state = "uploaded", !.reserved = 0, !.actual = n, !.chargedOn = d,
                   !.lease = 0] \in Row
BY DEF Row, State

\* The states the ledger writes are states.
LEMMA StateNames ==
  {"reserved", "receiving", "uploaded", "probing", "queued", "expired", "rejected"}
    \subseteq State
BY DEF State, Reserving, Terminal

\* The sums over the uploads table are natural numbers.
LEMMA TotalsType ==
  ASSUME NEW r \in [Session -> Row]
  PROVE  /\ AllReserved(r) \in Nat
         /\ \A i : Reserved(r, i) \in Nat
<1>1. [s \in Session |-> IF Active(r, s) THEN r[s].reserved ELSE 0] \in [Session -> Nat]
  BY DEF Row
<1>2. ASSUME NEW i
      PROVE  [s \in Session |-> IF Active(r, s) /\ r[s].identity = i THEN r[s].reserved ELSE 0]
               \in [Session -> Nat]
  BY DEF Row
<1>3. AllReserved(r) \in Nat
  BY <1>1, SessionsAreNumbered, SumNat DEF AllReserved, Total
<1>4. ASSUME NEW i PROVE Reserved(r, i) \in Nat
  BY <1>2, SessionsAreNumbered, SumNat DEF Reserved, Total
<1>5. QED
  BY <1>3, <1>4

\* So are the bytes that expiring abandoned sessions frees.
LEMMA FreedType ==
  ASSUME TypeOK, NEW A
  PROVE  Freed(A) \in Nat
<1>1. [s \in Session |-> IF s \in A THEN row[s].reserved ELSE 0] \in [Session -> Nat]
  BY DEF TypeOK, Row
<1>2. QED
  BY <1>1, SessionsAreNumbered, SumNat DEF Freed, Total

\* A refund whose every UPDATE succeeds leaves no negative usage.
LEMMA RefundType ==
  ASSUME TypeOK, NEW R \in SUBSET Session, NEW day,
         \A s \in R : row[s].actual # NoBytes /\ day[s] \in Day,
         Refundable(R, day)
  PROVE  UsedAfterRefund(R, day) \in [Identity -> [Day -> Nat]]
<1> SUFFICES ASSUME NEW i \in Identity, NEW d \in Day
             PROVE  used[i][d] - Bill(Billed(R, day, i, d)) \in Nat
  BY DEF UsedAfterRefund
<1>1. used[i][d] \in Nat
  BY DEF TypeOK
<1>2. [s \in Session |-> IF s \in Billed(R, day, i, d) THEN row[s].actual ELSE 0]
        \in [Session -> Nat]
  BY DEF TypeOK, Row, Billed
<1>3. Bill(Billed(R, day, i, d)) \in Nat
  BY <1>2, SessionsAreNumbered, SumNat DEF Bill, Total
<1>4. CASE Billed(R, day, i, d) = {}
  <2>1. [s \in Session |-> IF s \in Billed(R, day, i, d) THEN row[s].actual ELSE 0]
          \in [Session -> Int]
    BY <1>2
  <2>2. Bill(Billed(R, day, i, d)) = 0
    BY <1>4, <2>1, SessionsAreNumbered, SumZero DEF Bill, Total
  <2>3. QED
    BY <1>1, <2>2
<1>5. CASE Billed(R, day, i, d) # {}
  <2>1. PICK s \in R : row[s].identity = i /\ day[s] = d
    BY <1>5 DEF Billed
  <2>2. used[i][d] >= Bill(Billed(R, day, i, d))
    BY <2>1 DEF Refundable
  <2>3. QED
    BY <1>1, <1>3, <2>2
<1>6. QED
  BY <1>4, <1>5

\* Merging the identities of an address keeps the types of the tables.
LEMMA MergeType ==
  ASSUME TypeOK, NEW a \in Ip, Resolved(a) \in Identity
  PROVE  /\ MergedRow(Found(a), Resolved(a)) \in [Session -> Row]
         /\ MergedUsed(Found(a), Resolved(a)) \in [Identity -> [Day -> Nat]]
         /\ MergedUsageRows(Found(a), Resolved(a)) \in SUBSET (Identity \X Day)
         /\ MergedOwner(Found(a), Resolved(a), a)
              \in [Key -> [Ip -> Identity \cup {NoIdentity}]]
<1> DEFINE F == Found(a)
           i == Resolved(a)
<1> HIDE DEF F, i
<1>0. i \in Identity
  BY DEF i
<1>1. MergedRow(F, i) \in [Session -> Row]
  BY <1>0 DEF MergedRow, TypeOK, Row
<1>2. MergedUsed(F, i) \in [Identity -> [Day -> Nat]]
  <2> SUFFICES ASSUME NEW d \in Day
               PROVE  SumFunctionOnSet([f \in Identity |-> IF f \in F THEN used[f][d] ELSE 0],
                                       Identity) \in Nat
    BY DEF MergedUsed, TypeOK
  <2>1. [f \in Identity |-> IF f \in F THEN used[f][d] ELSE 0] \in [Identity -> Nat]
    BY DEF TypeOK
  <2>2. QED
    BY <2>1, IdentitiesAreNumbered, SumNat
<1>3. MergedUsageRows(F, i) \in SUBSET (Identity \X Day)
  BY <1>0 DEF MergedUsageRows, TypeOK
<1>4. MergedOwner(F, i, a) \in [Key -> [Ip -> Identity \cup {NoIdentity}]]
  BY <1>0 DEF MergedOwner, TypeOK
<1>5. QED
  BY <1>1, <1>2, <1>3, <1>4 DEF F, i

-----------------------------------------------------------------------------
(* The shape of a row: what TypeOK alone does not say and every step needs. *)

\* A session that exists belongs to an identity; one that no longer receives
\* reserves nothing.
Shape ==
  \A s \in Session : /\ row[s].state # "absent" => row[s].identity \in Identity
                     /\ row[s].state \notin Reserving => row[s].reserved = 0

-----------------------------------------------------------------------------
(* Type correctness.                                                       *)

\* A reading of the clock is an instant and falls on a day of the model.
LEMMA ReadingType ==
  ASSUME TypeOK, NEW t \in Readings
  PROVE  t \in Nat /\ DayOf(t) \in Day
<1>1. t \in 0 .. MaxClock
  BY TimesAreNumbers DEF TypeOK, Readings
<1>2. QED
  BY <1>1, DayOfType

\* The variables the recovery of settlements and the expiry of sessions write.
LEMMA RecoverType ==
  ASSUME TypeOK, NEW R \in SUBSET Session, NEW A \in SUBSET Session,
         Refundable(Charged(R), IntentDay), RecoverAndExpire(R, A)
  PROVE  /\ row' \in [Session -> Row]
         /\ used' \in [Identity -> [Day -> Nat]]
         /\ usageRows' \in SUBSET (Identity \X Day)
         /\ settlement' \in [Session -> Intent]
         /\ cleanup' \in SUBSET Session
<1>1. row' \in [Session -> Row]
  <2>1. row \in [Session -> Row]
    BY DEF TypeOK
  <2>2. \A s \in Session : Expired(row[s]) \in Row /\ Refunded(row[s]) \in Row
    BY <2>1, DeadRowType
  <2>3. QED
    BY <2>1, <2>2 DEF RecoverAndExpire, RowsAfter
<1>2. used' \in [Identity -> [Day -> Nat]]
  <2>1. Charged(R) \in SUBSET Session
    BY DEF Charged
  <2>2. \A s \in Charged(R) : row[s].actual # NoBytes /\ IntentDay[s] \in Day
    BY DEF Charged, IntentDay, TypeOK, Intent
  <2>3. QED
    BY <2>1, <2>2, RefundType DEF RecoverAndExpire
<1>3. usageRows' \in SUBSET (Identity \X Day)
  BY DEF RecoverAndExpire, RowsAfterRefund, TypeOK
<1>4. settlement' \in [Session -> Intent]
  BY FirstDay DEF RecoverAndExpire, TypeOK, NoIntent, Intent
<1>5. cleanup' \in SUBSET Session
  BY DEF RecoverAndExpire, Enqueue, TypeOK
<1>6. QED
  BY <1>1, <1>2, <1>3, <1>4, <1>5

\* TypeOK holds in the initial state.
LEMMA TypeInit == Init => TypeOK
BY FirstDay, TimesAreNumbers
   DEF Init, TypeOK, NoRow, Row, State, NoIntent, Intent, NoReceipt, Receipt, NoIdentity

\* A session's steps up to the end of its upload keep the types.
LEMMA TypeSessionStep ==
  ASSUME TypeOK, NEW s \in Session, SessionStep(s)
  PROVE  TypeOK'
<1>1. ASSUME NEW a \in Ip, NEW n \in 1 .. MaxFileBytes, NEW t \in Readings,
             Reserve(s, a, n, t)
      PROVE  TypeOK'
  <2> DEFINE i == Resolved(a)
             merged == MergedRow(Found(a), i)
             new == [state |-> "reserved", identity |-> i, reserved |-> n,
                     actual |-> NoBytes, chargedOn |-> 0, expires |-> t + CapabilityTtl,
                     lease |-> 0]
  <2>1. i \in Identity
    BY <1>1 DEF Reserve
  <2>2. new \in Row
    BY <2>1, ReadingType, LimitsAreNumbers, TimesAreNumbers, FirstDay
       DEF Row, State, Reserving
  <2>3. /\ merged \in [Session -> Row]
        /\ MergedUsed(Found(a), i) \in [Identity -> [Day -> Nat]]
        /\ MergedUsageRows(Found(a), i) \in SUBSET (Identity \X Day)
        /\ MergedOwner(Found(a), i, a) \in [Key -> [Ip -> Identity \cup {NoIdentity}]]
    BY <2>1, MergeType
  <2>4. row' = [merged EXCEPT ![s] = new]
    BY <1>1 DEF Reserve
  <2>5. row' \in [Session -> Row]
    <3> HIDE DEF merged, new
    <3>1. QED
      BY <2>2, <2>3, <2>4
  <2>6. globalReserved' \in Nat
    BY <1>1, LimitsAreNumbers DEF Reserve, TypeOK
  <2>7. /\ used' \in [Identity -> [Day -> Nat]]
        /\ usageRows' \in SUBSET (Identity \X Day)
        /\ hashOwner' \in [Key -> [Ip -> Identity \cup {NoIdentity}]]
    BY <1>1, <2>3 DEF Reserve
  <2>8. lastIdentity' \in Identity \cup {NoIdentity} /\ files' \in SUBSET Session
    BY <1>1, <2>1 DEF Reserve, TypeOK
  <2>9. QED
    BY <1>1, <2>5, <2>6, <2>7, <2>8 DEF Reserve, TypeOK, clockVars, processVars, workerVars
<1>2. ASSUME NEW t \in Readings, ClaimReceivingLease(s, t) \/ RenewReceivingLease(s, t)
      PROVE  TypeOK'
  <2>1. LeaseUntil(s, t) \in Nat
    BY ReadingType, TimesAreNumbers DEF LeaseUntil, Smaller, TypeOK, Row
  <2>2. row' \in [Session -> Row]
    <3>1. row \in [Session -> Row] /\ "receiving" \in State
      BY StateNames DEF TypeOK
    <3>2. \/ row' = [row EXCEPT ![s].state = "receiving", ![s].lease = LeaseUntil(s, t)]
          \/ row' = [row EXCEPT ![s].lease = LeaseUntil(s, t)]
      BY <1>2 DEF ClaimReceivingLease, RenewReceivingLease
    <3>3. /\ [row EXCEPT ![s].state = "receiving", ![s].lease = LeaseUntil(s, t)]
               \in [Session -> Row]
          /\ [row EXCEPT ![s].lease = LeaseUntil(s, t)] \in [Session -> Row]
      BY <2>1, <3>1, RowUpdateType
    <3>4. QED
      BY <3>2, <3>3
  <2>3. QED
    BY <1>2, <2>2 DEF ClaimReceivingLease, RenewReceivingLease, OnlyRowChanges, TypeOK,
                      clockVars, processVars, aliasVars, accountVars, workerVars
<1>3. ASSUME NEW n \in 1 .. MaxFileBytes, NEW t \in Readings, ExpandReceiving(s, n, t)
      PROVE  TypeOK'
  <2>1. row' \in [Session -> Row]
    <3>1. row \in [Session -> Row] /\ n \in Nat /\ now + LeaseDuration \in Nat
      BY LimitsAreNumbers, TimesAreNumbers DEF TypeOK
    <3>2. row' = [row EXCEPT ![s].reserved = n, ![s].lease = now + LeaseDuration]
      BY <1>3 DEF ExpandReceiving
    <3>3. QED
      BY <3>1, <3>2, RowUpdateType, StateNames
  <2>2. globalReserved' \in Nat
    BY <1>3, LimitsAreNumbers DEF ExpandReceiving, TypeOK, Row
  <2>3. QED
    BY <1>3, <2>1, <2>2 DEF ExpandReceiving, TypeOK,
                            clockVars, processVars, aliasVars, workerVars
<1>4. ASSUME NEW target \in {"receiving", "probing", "queued"}, Advance(s, target)
      PROVE  TypeOK'
  <2>1. row' \in [Session -> Row]
    <3>1. row \in [Session -> Row] /\ target \in State
      BY StateNames DEF TypeOK
    <3>2. row' = [row EXCEPT ![s].state = target]
      BY <1>4 DEF Advance
    <3>3. QED
      BY <3>1, <3>2, RowUpdateType
  <2>2. QED
    BY <1>4, <2>1 DEF Advance, OnlyRowChanges, TypeOK,
                      clockVars, processVars, aliasVars, accountVars, workerVars
<1>5. ASSUME Reject(s)
      PROVE  TypeOK'
  <2>1. row' \in [Session -> Row]
    <3>1. row \in [Session -> Row] /\ "rejected" \in State
      BY StateNames DEF TypeOK
    <3>2. row' = [row EXCEPT ![s].state = "rejected", ![s].reserved = 0]
      BY <1>5 DEF Reject
    <3>3. QED
      BY <3>1, <3>2, RowUpdateType
  <2>2. globalReserved' \in Nat
    BY <1>5 DEF Reject, TypeOK, Row
  <2>3. QED
    BY <1>5, <2>1, <2>2 DEF Reject, Enqueue, TypeOK,
                            clockVars, processVars, aliasVars, workerVars
<1>6. ASSUME Expire(s)
      PROVE  TypeOK'
  <2>1. row' \in [Session -> Row]
    BY <1>6, DeadRowType DEF Expire, TypeOK
  <2>2. globalReserved' \in Nat
    BY <1>6 DEF Expire, TypeOK, Row
  <2>3. QED
    BY <1>6, <2>1, <2>2 DEF Expire, Enqueue, TypeOK,
                            clockVars, processVars, aliasVars, workerVars
<1>7. QED
  BY <1>1, <1>2, <1>3, <1>4, <1>5, <1>6 DEF SessionStep

\* Settling an upload, delivering its answer and giving it up keep the types.
LEMMA TypeSettlementStep ==
  ASSUME TypeOK, Shape, NEW s \in Session, SettlementStep(s)
  PROVE  TypeOK'
<1>1. ASSUME NEW n \in 0 .. MaxFileBytes, NEW t \in Readings, Settle(s, n, t)
      PROVE  TypeOK'
  <2> DEFINE d == DayOf(t)
             i == row[s].identity
             new == [row[s] EXCEPT !.state = "uploaded", !.reserved = 0, !.actual = n,
                                   !.chargedOn = d, !.lease = 0]
  <2>1. d \in Day /\ n \in Nat /\ now \in Nat
    BY ReadingType, LimitsAreNumbers, TimesAreNumbers DEF TypeOK
  <2> HIDE DEF d
  <2>2. row[s] \in Row /\ i \in Identity
    BY <1>1 DEF TypeOK, Settle, Shape
  <2>3. row' \in [Session -> Row]
    <3>1. new \in Row
      BY <2>1, <2>2, SettledRowType
    <3>2. row' = [row EXCEPT ![s] = new]
      BY <1>1 DEF Settle, d
    <3> HIDE DEF new
    <3>3. QED
      BY <3>1, <3>2 DEF TypeOK
  <2>4. used' \in [Identity -> [Day -> Nat]]
    <3>1. used' = [used EXCEPT ![i][d] = used[i][d] + n]
      BY <1>1 DEF Settle, d
    <3>2. QED
      BY <2>1, <2>2, <3>1 DEF TypeOK
  <2>5. usageRows' \in SUBSET (Identity \X Day)
    BY <1>1, <2>1, <2>2 DEF Settle, d, TypeOK
  <2>6. settlement' \in [Session -> Intent]
    <3>1. [pending |-> TRUE, day |-> d, bytes |-> n, createdAt |-> now, possible |-> FALSE,
           attempt |-> NoAttempt] \in Intent
      BY <2>1 DEF Intent
    <3>2. settlement' = [settlement EXCEPT ![s] =
            [pending |-> TRUE, day |-> d, bytes |-> n, createdAt |-> now,
             possible |-> FALSE, attempt |-> NoAttempt]]
      BY <1>1 DEF Settle, d
    <3>3. QED
      BY <3>1, <3>2 DEF TypeOK
  <2>7. receipt' \in [Session -> Receipt]
    <3>1. [held |-> TRUE, identity |-> i, day |-> d, bytes |-> n] \in Receipt
      BY <2>1, <2>2 DEF Receipt
    <3>2. receipt' = [receipt EXCEPT ![s] =
            [held |-> TRUE, identity |-> i, day |-> d, bytes |-> n]]
      BY <1>1 DEF Settle, d
    <3>3. QED
      BY <3>1, <3>2 DEF TypeOK
  <2>8. globalReserved' \in Nat
    BY <1>1 DEF Settle, TypeOK, Row
  <2>9. QED
    BY <1>1, <2>3, <2>4, <2>5, <2>6, <2>7, <2>8
       DEF Settle, TypeOK, clockVars, processVars, aliasVars
<1>2. ASSUME DropReceipt(s)
      PROVE  TypeOK'
  <2>1. receipt' \in [Session -> Receipt]
    BY <1>2, FirstDay DEF DropReceipt, TypeOK, NoReceipt, Receipt
  <2>2. QED
    BY <1>2, <2>1 DEF DropReceipt, TypeOK, clockVars, processVars, aliasVars, accountVars
<1>3. ASSUME CompensateLateSettlement(s)
      PROVE  TypeOK'
  <2> DEFINE bill == [r \in {s} |-> receipt[s].day]
  <2>1. row' \in [Session -> Row]
    <3>1. Refunded(row[s]) \in Row
      BY DeadRowType DEF TypeOK
    <3>2. QED
      BY <1>3, <3>1 DEF CompensateLateSettlement, TypeOK
  <2>2. used' \in [Identity -> [Day -> Nat]]
    <3>1. Charged({s}) \in SUBSET Session
      BY DEF Charged
    <3>2. \A r \in Charged({s}) : row[r].actual # NoBytes /\ bill[r] \in Day
      BY DEF Charged, TypeOK, Receipt
    <3>3. Refundable(Charged({s}), bill) /\ used' = UsedAfterRefund(Charged({s}), bill)
      BY <1>3 DEF CompensateLateSettlement
    <3> HIDE DEF bill
    <3>4. QED
      BY <3>1, <3>2, <3>3, RefundType
  <2>3. usageRows' \in SUBSET (Identity \X Day)
    BY <1>3 DEF CompensateLateSettlement, RowsAfterRefund, TypeOK
  <2>4. settlement' \in [Session -> Intent]
    BY <1>3, FirstDay DEF CompensateLateSettlement, TypeOK, NoIntent, Intent
  <2>5. receipt' \in [Session -> Receipt]
    BY <1>3, FirstDay DEF CompensateLateSettlement, TypeOK, NoReceipt, Receipt
  <2>6. cleanup' \in SUBSET Session
    BY <1>3 DEF CompensateLateSettlement, TypeOK
  <2>7. QED
    BY <1>3, <2>1, <2>2, <2>3, <2>4, <2>5, <2>6
       DEF CompensateLateSettlement, TypeOK, clockVars, processVars, aliasVars
<1>4. ASSUME NEW a \in Attempt, BeginDeliveryAttempt(s, a)
      PROVE  TypeOK'
  <2>1. settlement' \in [Session -> Intent]
    BY <1>4 DEF BeginDeliveryAttempt, TypeOK, Intent
  <2>2. QED
    BY <1>4, <2>1 DEF BeginDeliveryAttempt, TypeOK, clockVars, processVars, aliasVars,
                      accountVars, workerVars
<1>5. ASSUME NEW a \in Attempt, MarkDeliveryPossible(s, a)
      PROVE  TypeOK'
  <2>1. settlement' \in [Session -> Intent]
    BY <1>5 DEF MarkDeliveryPossible, TypeOK, Intent
  <2>2. acker' \in SUBSET Session
    BY <1>5 DEF MarkDeliveryPossible, TypeOK
  <2>3. QED
    BY <1>5, <2>1, <2>2 DEF MarkDeliveryPossible, TypeOK, clockVars, processVars,
                            aliasVars, accountVars
<1>6. ASSUME NEW a \in Attempt, AbortDeliveryAttempt(s, a)
      PROVE  TypeOK'
  <2>1. Refundable(Charged({s}), IntentDay) /\ RecoverAndExpire({s}, {})
    BY <1>6 DEF AbortDeliveryAttempt
  <2>2. QED
    BY <1>6, <2>1, RecoverType DEF AbortDeliveryAttempt, TypeOK, clockVars, processVars,
                                   aliasVars, workerVars
<1>7. ASSUME AcknowledgeSettlement(s)
      PROVE  TypeOK'
  <2>1. settlement' \in [Session -> Intent]
    BY <1>7, FirstDay DEF AcknowledgeSettlement, TypeOK, NoIntent, Intent
  <2>2. acker' \in SUBSET Session
    BY <1>7 DEF AcknowledgeSettlement, TypeOK
  <2>3. QED
    BY <1>7, <2>1, <2>2 DEF AcknowledgeSettlement, TypeOK, clockVars, processVars,
                            aliasVars, accountVars
<1>8. QED
  BY <1>1, <1>2, <1>3, <1>4, <1>5, <1>6, <1>7 DEF SettlementStep

\* Maintenance keeps the types.
LEMMA TypeMaintenanceStep ==
  ASSUME TypeOK, MaintenanceStep
  PROVE  TypeOK'
<1>1. ASSUME NEW t \in Readings, NEW X \in SUBSET Session, Reconcile(t, X)
      PROVE  TypeOK'
  <2> DEFINE A == Abandoned(t) \ X
             R == Unmarked(Batch(t))
  <2>1. A \in SUBSET Session /\ R \in SUBSET Session
    BY DEF Abandoned, Unmarked, Batch
  <2>2. /\ RecoverAndExpire(R, A)
        /\ Refundable(Charged(R), IntentDay)
        /\ Freed(A) <= globalReserved /\ globalReserved' = globalReserved - Freed(A)
    BY <1>1 DEF Reconcile, Recoverable
  <2>3. globalReserved' \in Nat
    BY <2>2, FreedType DEF TypeOK
  <2> HIDE DEF A, R
  <2>4. QED
    BY <1>1, <2>1, <2>2, <2>3, RecoverType
       DEF Reconcile, TypeOK, clockVars, processVars, aliasVars, workerVars
<1>2. ASSUME NEW s \in Session, CleanUp(s)
      PROVE  TypeOK'
  BY <1>2 DEF CleanUp, TypeOK, clockVars, processVars, aliasVars, accountVars, workerVars
<1>3. QED
  BY <1>1, <1>2 DEF MaintenanceStep

\* Crashes and restarts keep the types.
LEMMA TypeProcessStep ==
  ASSUME TypeOK, ProcessStep
  PROVE  TypeOK'
<1>1. ASSUME Stop, crashes < MaxCrashes, cleanup' \in SUBSET Session,
             files' \in SUBSET Session
      PROVE  TypeOK'
  <2>1. receipt' \in [Session -> Receipt]
    BY <1>1, FirstDay DEF Stop, NoReceipt, Receipt
  <2>2. crashes' \in 0 .. MaxCrashes
    BY <1>1, TimesAreNumbers DEF Stop, TypeOK
  <2>3. QED
    BY <1>1, <2>1, <2>2 DEF Stop, TypeOK, aliasVars, accountVars
<1>2. ASSUME Crash
      PROVE  TypeOK'
  BY <1>1, <1>2 DEF Crash, TypeOK
<1>3. ASSUME NEW s \in Session, CrashAfterUnlink(s)
      PROVE  TypeOK'
  BY <1>1, <1>3 DEF CrashAfterUnlink, TypeOK
<1>4. ASSUME NEW ks \in SUBSET Key, OpenLedger(ks)
      PROVE  TypeOK'
  <2> DEFINE A == Abandoned(now)
             R == Unmarked(Pending)
  <2>1. A \in SUBSET Session /\ R \in SUBSET Session
    BY DEF Abandoned, Unmarked, Pending
  <2>2. Refundable(Charged(R), IntentDay) /\ RecoverAndExpire(R, A)
    BY <1>4 DEF OpenLedger, CanOpen, Recoverable
  <2> HIDE DEF A, R
  <2>3. /\ row' \in [Session -> Row]
        /\ used' \in [Identity -> [Day -> Nat]]
        /\ usageRows' \in SUBSET (Identity \X Day)
        /\ settlement' \in [Session -> Intent]
        /\ cleanup' \in SUBSET Session
    BY <2>1, <2>2, RecoverType
  <2>4. globalReserved' \in Nat
    BY <1>4, <2>3, TotalsType DEF OpenLedger
  <2>5. QED
    BY <1>4, <2>3, <2>4 DEF OpenLedger, TypeOK, clockVars, aliasVars, workerVars
<1>5. ASSUME FinishOpen
      PROVE  TypeOK'
  BY <1>5 DEF FinishOpen, TypeOK, clockVars, aliasVars, accountVars, workerVars
<1>6. QED
  BY <1>2, <1>3, <1>4, <1>5 DEF ProcessStep

\* Every step keeps the types.
LEMMA TypeStep ==
  ASSUME TypeOK, Shape, [Next]_vars
  PROVE  TypeOK'
<1>1. ASSUME Tick
      PROVE  TypeOK'
  <2>1. now' \in 0 .. MaxClock
    BY <1>1, TimesAreNumbers DEF Tick, TypeOK
  <2>2. QED
    BY <1>1, <2>1 DEF Tick, TypeOK, processVars, aliasVars, accountVars, workerVars
<1>2. ASSUME UNCHANGED vars
      PROVE  TypeOK'
  BY <1>2 DEF vars, TypeOK
<1>3. QED
  BY <1>1, <1>2, TypeSessionStep, TypeSettlementStep, TypeMaintenanceStep, TypeProcessStep
     DEF Next

-----------------------------------------------------------------------------
(* The shape of a row is kept.                                             *)

\* The recovery of settlements and the expiry of sessions kill existing sessions.
LEMMA RecoverShape ==
  ASSUME TypeOK, Shape, NEW R \in SUBSET Session, NEW A \in SUBSET Session,
         \A s \in R \cup A : row[s].state # "absent", RecoverAndExpire(R, A)
  PROVE  Shape'
<1> SUFFICES ASSUME NEW s \in Session
             PROVE  /\ row'[s].state # "absent" => row'[s].identity \in Identity
                    /\ row'[s].state \notin Reserving => row'[s].reserved = 0
  BY DEF Shape
<1>1. row[s] \in Row
  BY DEF TypeOK
<1>2. row'[s] = IF s \in R THEN Refunded(row[s])
                ELSE IF s \in A THEN Expired(row[s]) ELSE row[s]
  BY DEF RecoverAndExpire, RowsAfter
<1>3. /\ Expired(row[s]).identity = row[s].identity /\ Expired(row[s]).reserved = 0
      /\ Refunded(row[s]).identity = row[s].identity /\ Refunded(row[s]).reserved = 0
  BY <1>1 DEF Expired, Refunded, Row
<1>4. CASE s \in R \cup A
  BY <1>2, <1>3, <1>4 DEF Shape
<1>5. CASE s \notin R \cup A
  BY <1>2, <1>5 DEF Shape
<1>6. QED
  BY <1>4, <1>5

\* What recovery and expiry work on exists.
LEMMA RecoveredExist ==
  ASSUME NEW B \in SUBSET Session, Recoverable(B), NEW t
  PROVE  \A s \in Unmarked(B) \cup Abandoned(t) : row[s].state # "absent"
BY DEF Recoverable, Consistent, Unmarked, Abandoned

-----------------------------------------------------------------------------
(* The budget is exact.  BudgetExact is not inductive by itself: a step     *)
(* that subtracts a session's reservation must know the row, and a settled  *)
(* or dead row must hold nothing, which is what Shape adds.                 *)

\* What a session contributes to the reserved bytes.
Held(r, s) == IF Active(r, s) THEN r[s].reserved ELSE 0

\* The inductive invariant behind BudgetExact.
LedgerInvariant == TypeOK /\ Shape /\ BudgetExact

\* When only one session changes what it holds, the total changes by as much.
LEMMA OneHeld ==
  ASSUME TypeOK, TypeOK', NEW s \in Session,
         \A x \in Session : x # s => /\ row'[x].state = row[x].state
                                     /\ row'[x].reserved = row[x].reserved
  PROVE  AllReserved(row') = AllReserved(row) + (Held(row', s) - Held(row, s))
<1> DEFINE f == [x \in Session |-> IF Active(row, x) THEN row[x].reserved ELSE 0]
           g == [x \in Session |-> IF Active(row', x) THEN row'[x].reserved ELSE 0]
<1>1. f \in [Session -> Int] /\ g \in [Session -> Int]
  BY DEF TypeOK, Row
<1>2. \A x \in Session : x # s => g[x] = f[x]
  BY DEF Active
<1>3. f[s] = Held(row, s) /\ g[s] = Held(row', s)
  BY DEF Held
<1>4. AllReserved(row) = SumFunctionOnSet(f, Session)
      /\ AllReserved(row') = SumFunctionOnSet(g, Session)
  BY DEF AllReserved, Total
<1> HIDE DEF f, g
<1>5. QED
  BY <1>1, <1>2, <1>3, <1>4, SumUpdate, SessionsAreNumbered

\* A step that touches neither the rows nor the budget keeps the invariant.
LEMMA RowsUntouched ==
  ASSUME LedgerInvariant, TypeOK', UNCHANGED <<row, globalReserved>>
  PROVE  LedgerInvariant'
BY DEF LedgerInvariant, Shape, BudgetExact, AllReserved, Total, Active

\* A step that changes one session's row keeps the invariant when it moves the
\* budget by what that session holds more or less.
LEMMA OneRowStep ==
  ASSUME LedgerInvariant, TypeOK', NEW s \in Session,
         \A x \in Session : x # s => row'[x] = row[x],
         row'[s].state # "absent" => row'[s].identity \in Identity,
         row'[s].state \notin Reserving => row'[s].reserved = 0,
         globalReserved' = globalReserved + (Held(row', s) - Held(row, s))
  PROVE  LedgerInvariant'
<1>1. Shape'
  BY DEF LedgerInvariant, Shape
<1>2. AllReserved(row') = AllReserved(row) + (Held(row', s) - Held(row, s))
  BY OneHeld DEF LedgerInvariant
<1>3. BudgetExact'
  BY <1>2 DEF LedgerInvariant, BudgetExact
<1>4. QED
  BY <1>1, <1>3 DEF LedgerInvariant

\* Recovery and expiry lower the total by what the expired sessions held.
LEMMA RecoverBudget ==
  ASSUME LedgerInvariant, TypeOK', NEW R \in SUBSET Session, NEW A \in SUBSET Session,
         \A s \in R : ~Active(row, s), \A s \in A : Active(row, s),
         RecoverAndExpire(R, A)
  PROVE  AllReserved(row') = AllReserved(row) - Freed(A)
<1> DEFINE f == [x \in Session |-> IF Active(row, x) THEN row[x].reserved ELSE 0]
           g == [x \in Session |-> IF Active(row', x) THEN row'[x].reserved ELSE 0]
           h == [x \in Session |-> IF x \in A THEN row[x].reserved ELSE 0]
<1>1. f \in [Session -> Int] /\ g \in [Session -> Int] /\ h \in [Session -> Int]
  BY DEF LedgerInvariant, TypeOK, Row
<1>2. ASSUME NEW x \in Session
      PROVE  f[x] = g[x] + h[x]
  <2>1. row[x] \in Row /\ row[x].reserved \in Nat
    BY DEF LedgerInvariant, TypeOK, Row
  <2>2. row'[x] = IF x \in R THEN Refunded(row[x])
                  ELSE IF x \in A THEN Expired(row[x]) ELSE row[x]
    BY DEF RecoverAndExpire, RowsAfter
  <2>3. Refunded(row[x]).state = "expired" /\ Expired(row[x]).state = "expired"
    BY <2>1 DEF Refunded, Expired, Row
  <2>4. CASE x \in R
    BY <2>1, <2>2, <2>3, <2>4 DEF Active, Reserving
  <2>5. CASE x \in A \ R
    BY <2>1, <2>2, <2>3, <2>5 DEF Active, Reserving
  <2>6. CASE x \notin R \cup A
    BY <2>1, <2>2, <2>6 DEF Active
  <2>7. QED
    BY <2>4, <2>5, <2>6
<1>3. /\ AllReserved(row) = SumFunctionOnSet(f, Session)
      /\ AllReserved(row') = SumFunctionOnSet(g, Session)
      /\ Freed(A) = SumFunctionOnSet(h, Session)
  BY DEF AllReserved, Freed, Total
<1> HIDE DEF f, g, h
<1>4. SumFunctionOnSet(f, Session)
        = SumFunctionOnSet(g, Session) + SumFunctionOnSet(h, Session)
  <2>1. \A x \in Session : f[x] = g[x] + h[x]
    BY <1>2
  <2>2. IsFiniteSet(Session)
    BY SessionsAreNumbered
  <2>3. QED
    BY <1>1, <2>1, <2>2, SumAdd
<1>5. SumFunctionOnSet(g, Session) \in Int /\ SumFunctionOnSet(h, Session) \in Int
  BY <1>1, SumType, SessionsAreNumbered
<1>6. QED
  BY <1>3, <1>4, <1>5

\* The steps of a session up to its upload keep the invariant.
LEMMA BudgetSessionStep ==
  ASSUME LedgerInvariant, TypeOK', NEW s \in Session, SessionStep(s)
  PROVE  LedgerInvariant'
<1>0. row \in [Session -> Row] /\ globalReserved \in Nat /\ TypeOK /\ Shape
  BY DEF LedgerInvariant, TypeOK
<1>1. ASSUME NEW a \in Ip, NEW n \in 1 .. MaxFileBytes, NEW t \in Readings,
             Reserve(s, a, n, t)
      PROVE  LedgerInvariant'
  <2> DEFINE i == Resolved(a)
             merged == MergedRow(Found(a), i)
  <2>1. i \in Identity /\ row[s].state = "absent" /\ globalReserved' = globalReserved + n
    BY <1>1 DEF Reserve, NextSession
  <2>2. merged \in [Session -> Row]
    BY <1>0, <2>1, MergeType
  <2>3. row' = [merged EXCEPT ![s] =
                  [state |-> "reserved", identity |-> i, reserved |-> n, actual |-> NoBytes,
                   chargedOn |-> 0, expires |-> t + CapabilityTtl, lease |-> 0]]
    BY <1>1 DEF Reserve
  <2>4. ASSUME NEW x \in Session
        PROVE  /\ merged[x].state = row[x].state /\ merged[x].reserved = row[x].reserved
               /\ merged[x].identity \in {row[x].identity, i}
    <3>1. row[x] \in Row
      BY <1>0
    <3>2. QED
      BY <3>1 DEF MergedRow, Row
  <2> HIDE DEF merged, i
  <2>5. /\ row'[s].state = "reserved" /\ row'[s].reserved = n /\ row'[s].identity = i
        /\ \A x \in Session : x # s => row'[x] = merged[x]
    BY <2>2, <2>3
  <2>6. Shape'
    BY <1>0, <2>1, <2>4, <2>5 DEF Shape, Reserving
  <2>7. Held(row, s) = 0 /\ Held(row', s) = n
    BY <2>1, <2>5 DEF Held, Active, Reserving
  <2>8. AllReserved(row') = AllReserved(row) + (Held(row', s) - Held(row, s))
    BY <1>0, <2>4, <2>5, OneHeld
  <2>9. BudgetExact'
    BY <1>0, <2>1, <2>7, <2>8, LimitsAreNumbers DEF LedgerInvariant, BudgetExact
  <2>10. QED
    BY <2>6, <2>9 DEF LedgerInvariant
<1>2. ASSUME NEW t \in Readings, ClaimReceivingLease(s, t) \/ RenewReceivingLease(s, t)
      PROVE  LedgerInvariant'
  <2>1. /\ \A x \in Session : x # s => row'[x] = row[x]
        /\ row[s].state \in Reserving /\ row'[s].state \in Reserving
        /\ row'[s].reserved = row[s].reserved /\ row'[s].identity = row[s].identity
    BY <1>0, <1>2 DEF ClaimReceivingLease, RenewReceivingLease, Row, Reserving
  <2>2. row[s].reserved \in Nat /\ globalReserved' = globalReserved
    BY <1>0, <1>2 DEF ClaimReceivingLease, RenewReceivingLease, OnlyRowChanges,
                      accountVars, Row
  <2>3. QED
    BY <1>0, <2>1, <2>2, OneRowStep DEF Shape, Held, Active, Reserving
<1>3. ASSUME NEW n \in 1 .. MaxFileBytes, NEW t \in Readings, ExpandReceiving(s, n, t)
      PROVE  LedgerInvariant'
  <2>1. /\ \A x \in Session : x # s => row'[x] = row[x]
        /\ row[s].state \in Reserving /\ row'[s].state \in Reserving
        /\ row'[s].reserved = n /\ row'[s].identity = row[s].identity
    BY <1>0, <1>3 DEF ExpandReceiving, Row, Reserving
  <2>2. /\ row[s].reserved \in Nat
        /\ globalReserved' = globalReserved + (n - row[s].reserved)
    BY <1>0, <1>3 DEF ExpandReceiving, Row
  <2>3. QED
    BY <1>0, <2>1, <2>2, OneRowStep DEF Shape, Held, Active, Reserving
<1>4. ASSUME NEW target \in {"receiving", "probing", "queued"}, Advance(s, target)
      PROVE  LedgerInvariant'
  <2>1. /\ \A x \in Session : x # s => row'[x] = row[x]
        /\ row[s].state \in Reserving <=> target \in Reserving
        /\ row[s].state # "absent" /\ row'[s].state = target
        /\ row'[s].reserved = row[s].reserved /\ row'[s].identity = row[s].identity
    BY <1>0, <1>4 DEF Advance, Row, Reserving
  <2>2. row[s].reserved \in Nat /\ globalReserved' = globalReserved
    BY <1>0, <1>4 DEF Advance, OnlyRowChanges, accountVars, Row
  <2>3. QED
    BY <1>0, <2>1, <2>2, OneRowStep DEF Shape, Held, Active
<1>5. ASSUME Reject(s)
      PROVE  LedgerInvariant'
  <2>1. /\ \A x \in Session : x # s => row'[x] = row[x]
        /\ row[s].state # "absent" /\ row'[s].state = "rejected"
        /\ row'[s].reserved = 0 /\ row'[s].identity = row[s].identity
    BY <1>0, <1>5 DEF Reject, Row
  <2>2. row[s].reserved \in Nat /\ globalReserved' = globalReserved - row[s].reserved
    BY <1>0, <1>5 DEF Reject, Row
  <2>3. QED
    BY <1>0, <2>1, <2>2, OneRowStep DEF Shape, Held, Active, Reserving
<1>6. ASSUME Expire(s)
      PROVE  LedgerInvariant'
  <2>1. row[s] \in Row
    BY <1>0
  <2>2. /\ \A x \in Session : x # s => row'[x] = row[x]
        /\ row[s].state # "absent" /\ row'[s].state = "expired"
        /\ row'[s].reserved = 0 /\ row'[s].identity = row[s].identity
    BY <1>0, <1>6, <2>1 DEF Expire, MayExpire, Expired, Row
  <2>3. row[s].reserved \in Nat /\ globalReserved' = globalReserved - row[s].reserved
    BY <1>6, <2>1 DEF Expire, Row
  <2>4. QED
    BY <1>0, <2>2, <2>3, OneRowStep DEF Shape, Held, Active, Reserving
<1>7. QED
  BY <1>1, <1>2, <1>3, <1>4, <1>5, <1>6 DEF SessionStep

\* A refunded session held nothing before and holds nothing after.
LEMMA RefundKeepsInvariant ==
  ASSUME LedgerInvariant, TypeOK', NEW s \in Session,
         row[s].state \in {"uploaded", "expired"},
         \A x \in Session : row'[x] = IF x = s THEN Refunded(row[x]) ELSE row[x],
         globalReserved' = globalReserved
  PROVE  LedgerInvariant'
<1>1. row[s] \in Row /\ globalReserved \in Nat /\ Shape
  BY DEF LedgerInvariant, TypeOK
<1>2. /\ row'[s].state = "expired" /\ row'[s].reserved = 0
      /\ row'[s].identity = row[s].identity
  BY <1>1 DEF Refunded, Expired, Row
<1>3. Held(row, s) = 0 /\ Held(row', s) = 0
  BY <1>2 DEF Held, Active, Reserving
<1>4. row'[s].identity \in Identity
  BY <1>1, <1>2 DEF Shape
<1>5. QED
  BY <1>1, <1>2, <1>3, <1>4, OneRowStep

\* The steps of a settlement keep the invariant.
LEMMA BudgetSettlementStep ==
  ASSUME LedgerInvariant, TypeOK', NEW s \in Session, SettlementStep(s)
  PROVE  LedgerInvariant'
<1>0. row \in [Session -> Row] /\ globalReserved \in Nat /\ Shape
  BY DEF LedgerInvariant, TypeOK
<1>1. ASSUME NEW n \in 0 .. MaxFileBytes, NEW t \in Readings, Settle(s, n, t)
      PROVE  LedgerInvariant'
  <2> DEFINE new == [row[s] EXCEPT !.state = "uploaded", !.reserved = 0, !.actual = n,
                                   !.chargedOn = DayOf(t), !.lease = 0]
  <2>1. row[s] \in Row /\ row[s].state = "receiving" /\ row' = [row EXCEPT ![s] = new]
    BY <1>0, <1>1 DEF Settle
  <2>2. /\ new.state = "uploaded" /\ new.reserved = 0
        /\ new.identity = row[s].identity
    BY <2>1 DEF Row
  <2> HIDE DEF new
  <2>3. row'[s] = new /\ \A x \in Session : x # s => row'[x] = row[x]
    BY <1>0, <2>1
  <2>4. row[s].reserved \in Nat /\ globalReserved' = globalReserved - row[s].reserved
    BY <1>1, <2>1 DEF Settle, Row
  <2>5. Held(row, s) = row[s].reserved /\ Held(row', s) = 0
    BY <2>1, <2>2, <2>3 DEF Held, Active, Reserving
  <2>6. row'[s].identity \in Identity
    BY <1>0, <2>1, <2>2, <2>3 DEF Shape
  <2>7. QED
    BY <1>0, <2>2, <2>3, <2>4, <2>5, <2>6, OneRowStep
<1>2. ASSUME CompensateLateSettlement(s)
      PROVE  LedgerInvariant'
  <2>1. row' = [row EXCEPT ![s] = Refunded(row[s])] /\ globalReserved' = globalReserved
    BY <1>2 DEF CompensateLateSettlement
  <2>2. row[s].state \in {"uploaded", "expired"}
    BY <1>2 DEF CompensateLateSettlement
  <2>3. QED
    BY <1>0, <2>1, <2>2, RefundKeepsInvariant
<1>3. ASSUME NEW a \in Attempt, AbortDeliveryAttempt(s, a)
      PROVE  LedgerInvariant'
  <2>1. row' = RowsAfter({s}, {}) /\ globalReserved' = globalReserved
    BY <1>3 DEF AbortDeliveryAttempt, RecoverAndExpire
  <2>2. row[s].state \in {"uploaded", "expired"}
    BY <1>3 DEF AbortDeliveryAttempt, Consistent
  <2>3. \A x \in Session : row'[x] = IF x = s THEN Refunded(row[x]) ELSE row[x]
    BY <2>1 DEF RowsAfter
  <2>4. QED
    BY <2>1, <2>2, <2>3, RefundKeepsInvariant
<1>4. CASE \/ DropReceipt(s) \/ AcknowledgeSettlement(s)
           \/ \E a \in Attempt : BeginDeliveryAttempt(s, a) \/ MarkDeliveryPossible(s, a)
  BY <1>4, RowsUntouched DEF DropReceipt, AcknowledgeSettlement, BeginDeliveryAttempt,
                             MarkDeliveryPossible, accountVars
<1>5. QED
  BY <1>1, <1>2, <1>3, <1>4 DEF SettlementStep

\* Recovery keeps the invariant, whatever batch it works on.
LEMMA RecoverKeepsInvariant ==
  ASSUME LedgerInvariant, TypeOK', NEW B \in SUBSET Session, NEW t, NEW X,
         Recoverable(B), RecoverAndExpire(Unmarked(B), Abandoned(t) \ X),
         \/ globalReserved' = globalReserved - Freed(Abandoned(t) \ X)
         \/ globalReserved' = AllReserved(row')
  PROVE  LedgerInvariant'
<1> DEFINE R == Unmarked(B)
           A == Abandoned(t) \ X
<1>1. R \in SUBSET Session /\ A \in SUBSET Session
  BY DEF Unmarked, Abandoned
<1>2. \A s \in R : ~Active(row, s)
  BY DEF Unmarked, Recoverable, Consistent, Active, Reserving
<1>3. \A s \in A : Active(row, s)
  BY DEF Abandoned, Active, Reserving
<1>4. \A s \in R \cup A : row[s].state # "absent"
  BY RecoveredExist
<1> HIDE DEF R, A
<1>5. RecoverAndExpire(R, A)
  BY DEF R, A
<1>6. Shape'
  BY <1>1, <1>4, <1>5, RecoverShape DEF LedgerInvariant
<1>7. AllReserved(row') = AllReserved(row) - Freed(A)
  BY <1>1, <1>2, <1>3, <1>5, RecoverBudget
<1>8. BudgetExact'
  BY <1>7 DEF LedgerInvariant, BudgetExact, A
<1>9. QED
  BY <1>6, <1>8 DEF LedgerInvariant

\* Every step keeps the invariant.
LEMMA BudgetStep ==
  ASSUME LedgerInvariant, [Next]_vars
  PROVE  LedgerInvariant'
<1>0. TypeOK'
  BY TypeStep DEF LedgerInvariant
<1>1. ASSUME NEW t \in Readings, NEW X \in SUBSET Session, Reconcile(t, X)
      PROVE  LedgerInvariant'
  <2>1. Batch(t) \in SUBSET Session
    BY DEF Batch
  <2>2. QED
    BY <1>0, <1>1, <2>1, RecoverKeepsInvariant DEF Reconcile
<1>2. ASSUME NEW ks \in SUBSET Key, OpenLedger(ks)
      PROVE  LedgerInvariant'
  <2>1. Pending \in SUBSET Session /\ Abandoned(now) = Abandoned(now) \ {}
    BY DEF Pending
  <2>2. QED
    BY <1>0, <1>2, <2>1, RecoverKeepsInvariant DEF OpenLedger, CanOpen
<1>3. CASE \/ \E s \in Session : CleanUp(s) \/ CrashAfterUnlink(s)
           \/ Crash \/ FinishOpen \/ Tick \/ UNCHANGED vars
  BY <1>0, <1>3, RowsUntouched
     DEF CleanUp, CrashAfterUnlink, Crash, Stop, FinishOpen, Tick, vars, accountVars
<1>4. QED
  BY <1>0, <1>1, <1>2, <1>3, BudgetSessionStep, BudgetSettlementStep
     DEF Next, MaintenanceStep, ProcessStep

\* An empty ledger has reserved nothing.
LEMMA BudgetInit == Init => LedgerInvariant
<1> SUFFICES ASSUME Init PROVE LedgerInvariant
  OBVIOUS
<1>1. TypeOK
  BY TypeInit
<1>2. \A s \in Session : row[s] = NoRow /\ ~Active(row, s)
  BY DEF Init, NoRow, Active, Reserving
<1>3. Shape
  BY <1>2 DEF Shape, NoRow
<1>4. BudgetExact
  <2> DEFINE f == [x \in Session |-> IF Active(row, x) THEN row[x].reserved ELSE 0]
  <2>1. f \in [Session -> Int] /\ \A s \in Session : f[s] = 0
    BY <1>2
  <2> HIDE DEF f
  <2>2. IsFiniteSet(Session)
    BY SessionsAreNumbered
  <2>3. SumFunctionOnSet(f, Session) = 0
    BY <2>1, <2>2, SumZero
  <2>4. QED
    BY <2>3 DEF BudgetExact, AllReserved, Total, Init, f
<1>5. QED
  BY <1>1, <1>3, <1>4 DEF LedgerInvariant

\* The invariant holds in every reachable state.
THEOREM LedgerInvariantHolds == Spec => []LedgerInvariant
BY BudgetInit, BudgetStep, PTL DEF Spec

\* Every reachable state is well typed: above all, no counter of the database
\* (reserved bytes, used bytes) is ever taken below zero by a release or a refund.
THEOREM TypeCorrect == Spec => []TypeOK
<1>1. LedgerInvariant => TypeOK
  BY DEF LedgerInvariant
<1>2. QED
  BY <1>1, LedgerInvariantHolds, PTL

\* global_budget.reserved_bytes always equals the bytes reserved by the sessions
\* that may still receive, for any number of sessions, crashes and restarts.
THEOREM BudgetIsExact == Spec => []BudgetExact
<1>1. LedgerInvariant => BudgetExact
  BY DEF LedgerInvariant
<1>2. QED
  BY <1>1, LedgerInvariantHolds, PTL

-----------------------------------------------------------------------------
(* Settlement, cleanup and crashes: the charge of an upload whose answer may *)
(* have been delivered is kept, and the cleanup deletes the files of dead  *)
(* sessions, all of them and no others.                                    *)

\* Of one session: its pending intent agrees with its row; its file exists and is
\* not queued for deletion while it lives, and is queued once it is dead.
Kept(s) ==
  /\ settlement[s].pending => Consistent(s, settlement[s].possible)
  /\ row[s].state = "absent" => s \notin files /\ s \notin cleanup
  /\ row[s].state \notin Terminal \cup {"absent"} => s \in files /\ s \notin cleanup
  /\ row[s].state \in Terminal /\ s \in files => s \in cleanup

\* The inductive invariant behind MarkedIsKept, LiveFileKept and DeadFileQueued.
\* An intent that expiry left behind must still be known to be unmarked, and an
\* absent session must be known to have no old job: neither property says so.
DeliveryInvariant == LedgerInvariant /\ \A s \in Session : Kept(s)

\* The invariant implies the three properties.
LEMMA DeliveryImplies ==
  ASSUME DeliveryInvariant
  PROVE  MarkedIsKept /\ LiveFileKept /\ DeadFileQueued
BY DEF DeliveryInvariant, Kept, Consistent, Marked, MarkedIsKept, LiveFileKept,
       DeadFileQueued

\* What x keeps when nothing of it changes.
SameSession(x) ==
  /\ row'[x].state = row[x].state /\ row'[x].actual = row[x].actual
  /\ settlement'[x] = settlement[x]
  /\ (x \in files') = (x \in files) /\ (x \in cleanup') = (x \in cleanup)

\* A session nothing happens to stays as it should be.
LEMMA SameIsKept ==
  ASSUME NEW x \in Session, Kept(x), SameSession(x)
  PROVE  Kept(x)'
BY DEF Kept, SameSession, Consistent

\* A step that concerns no session.
LEMMA NoSessionKept ==
  ASSUME DeliveryInvariant, \A x \in Session : SameSession(x)
  PROVE  \A x \in Session : Kept(x)'
<1>1. ASSUME NEW x \in Session PROVE Kept(x)'
  <2>1. Kept(x) /\ SameSession(x)
    BY DEF DeliveryInvariant
  <2>2. QED
    BY <2>1, SameIsKept
<1>2. QED
  BY <1>1

\* A step that concerns one session.
LEMMA OneSessionKept ==
  ASSUME DeliveryInvariant, NEW s \in Session,
         \A x \in Session : x # s => SameSession(x),
         Kept(s)'
  PROVE  \A x \in Session : Kept(x)'
BY SameIsKept DEF DeliveryInvariant

\* A session's steps up to the end of its upload.
LEMMA KeptSessionStep ==
  ASSUME DeliveryInvariant, NEW s \in Session, SessionStep(s)
  PROVE  \A x \in Session : Kept(x)'
<1>0. /\ row \in [Session -> Row] /\ settlement \in [Session -> Intent]
      /\ row[s] \in Row /\ Kept(s) /\ TypeOK
  BY DEF DeliveryInvariant, LedgerInvariant, TypeOK
<1>1. ASSUME NEW a \in Ip, NEW n \in 1 .. MaxFileBytes, NEW t \in Readings,
             Reserve(s, a, n, t)
      PROVE  \A x \in Session : Kept(x)'
  <2> DEFINE i == Resolved(a)
             merged == MergedRow(Found(a), i)
  <2>1. /\ i \in Identity /\ row[s].state = "absent" /\ files' = files \cup {s}
        /\ cleanup' = cleanup /\ settlement' = settlement
    BY <1>1 DEF Reserve, NextSession
  <2>2. merged \in [Session -> Row]
    BY <1>0, <2>1, MergeType
  <2>3. row' = [merged EXCEPT ![s] =
                  [state |-> "reserved", identity |-> i, reserved |-> n, actual |-> NoBytes,
                   chargedOn |-> 0, expires |-> t + CapabilityTtl, lease |-> 0]]
    BY <1>1 DEF Reserve
  <2>4. ASSUME NEW x \in Session
        PROVE  merged[x].state = row[x].state /\ merged[x].actual = row[x].actual
    <3>1. row[x] \in Row
      BY <1>0
    <3>2. QED
      BY <3>1 DEF MergedRow, Row
  <2> HIDE DEF merged, i
  <2>5. row'[s].state = "reserved" /\ \A x \in Session : x # s => row'[x] = merged[x]
    BY <2>2, <2>3
  <2>6. \A x \in Session : x # s => SameSession(x)
    BY <2>1, <2>4, <2>5 DEF SameSession
  <2>7. Kept(s)'
    BY <1>0, <2>1, <2>5 DEF Kept, Consistent, Terminal
  <2>8. QED
    BY <2>6, <2>7, OneSessionKept
<1>2. ASSUME row[s].state \notin Terminal \cup {"absent"}, OnlyRowChanges,
             row' = [row EXCEPT ![s] = row'[s]],
             row'[s].state \notin Terminal \cup {"absent"},
             row'[s].actual = row[s].actual,
             settlement[s].pending => row'[s].state = row[s].state
      PROVE  \A x \in Session : Kept(x)'
  <2>1. \A x \in Session : x # s => SameSession(x)
    BY <1>0, <1>2 DEF SameSession, OnlyRowChanges
  <2>2. Kept(s)'
    BY <1>0, <1>2 DEF Kept, Consistent, OnlyRowChanges
  <2>3. QED
    BY <2>1, <2>2, OneSessionKept
<1>3. ASSUME NEW t \in Readings, ClaimReceivingLease(s, t) \/ RenewReceivingLease(s, t)
      PROVE  \A x \in Session : Kept(x)'
  <2>1. /\ row' = [row EXCEPT ![s] = row'[s]] /\ OnlyRowChanges
        /\ row[s].state \in Reserving /\ row'[s].state = "receiving"
        /\ row'[s].actual = row[s].actual
    BY <1>0, <1>3 DEF ClaimReceivingLease, RenewReceivingLease, Row, Reserving
  <2>2. ~settlement[s].pending
    BY <1>0, <2>1 DEF Kept, Consistent, Reserving
  <2>3. QED
    BY <1>2, <2>1, <2>2 DEF Reserving, Terminal
<1>4. ASSUME NEW n \in 1 .. MaxFileBytes, NEW t \in Readings, ExpandReceiving(s, n, t)
      PROVE  \A x \in Session : Kept(x)'
  <2>1. /\ row'[s].state = row[s].state /\ row'[s].actual = row[s].actual
        /\ \A x \in Session : x # s => row'[x] = row[x]
    BY <1>0, <1>4 DEF ExpandReceiving, Row
  <2>2. \A x \in Session : SameSession(x)
    BY <1>4, <2>1 DEF ExpandReceiving, SameSession
  <2>3. QED
    BY <2>2, NoSessionKept
<1>5. ASSUME NEW target \in {"receiving", "probing", "queued"}, Advance(s, target)
      PROVE  \A x \in Session : Kept(x)'
  <2>1. /\ row' = [row EXCEPT ![s] = row'[s]] /\ OnlyRowChanges
        /\ row'[s].state = target /\ row'[s].actual = row[s].actual
    BY <1>0, <1>5 DEF Advance, Row
  <2>2. row[s].state \in {"reserved", "uploaded", "probing"}
    BY <1>5 DEF Advance
  <2>3. ~settlement[s].pending
    BY <1>0, <1>5, <2>2 DEF Advance, MayLeaveUpload, Kept, Consistent
  <2>4. QED
    BY <1>2, <2>1, <2>2, <2>3 DEF Terminal
<1>6. ASSUME Reject(s)
      PROVE  \A x \in Session : Kept(x)'
  <2>1. /\ row'[s].state = "rejected" /\ cleanup' = cleanup \cup {s} /\ files' = files
        /\ settlement' = settlement /\ \A x \in Session : x # s => row'[x] = row[x]
    BY <1>0, <1>6 DEF Reject, Enqueue, Row
  <2>2. ~settlement[s].pending
    BY <1>0, <1>6 DEF Reject, MayLeaveUpload, Kept, Consistent, Terminal
  <2>3. Kept(s)'
    BY <2>1, <2>2 DEF Kept, Terminal
  <2>4. QED
    BY <2>1, <2>3, OneSessionKept DEF SameSession
<1>7. ASSUME Expire(s)
      PROVE  \A x \in Session : Kept(x)'
  <2>1. /\ cleanup' = cleanup \cup {s} /\ files' = files /\ settlement' = settlement
        /\ row'[s] = Expired(row[s]) /\ \A x \in Session : x # s => row'[x] = row[x]
    BY <1>0, <1>7 DEF Expire, Enqueue
  <2>2. row'[s].state = "expired" /\ row'[s].actual = row[s].actual
    BY <1>0, <2>1 DEF Expired, Row
  <2>3. settlement[s].pending =>
          ~settlement[s].possible /\ row[s].actual = settlement[s].bytes
    BY <1>0, <1>7 DEF Expire, MayExpire, Marked, Kept, Consistent, Terminal
  <2>4. Kept(s)'
    BY <2>1, <2>2, <2>3 DEF Kept, Consistent, Terminal
  <2>5. QED
    BY <2>1, <2>4, OneSessionKept DEF SameSession
<1>8. QED
  BY <1>1, <1>3, <1>4, <1>5, <1>6, <1>7 DEF SessionStep

\* The steps of a settlement.
LEMMA KeptSettlementStep ==
  ASSUME DeliveryInvariant, NEW s \in Session, SettlementStep(s)
  PROVE  \A x \in Session : Kept(x)'
<1>0. /\ row \in [Session -> Row] /\ settlement \in [Session -> Intent]
      /\ row[s] \in Row /\ Kept(s)
  BY DEF DeliveryInvariant, LedgerInvariant, TypeOK
<1>1. ASSUME NEW n \in 0 .. MaxFileBytes, NEW t \in Readings, Settle(s, n, t)
      PROVE  \A x \in Session : Kept(x)'
  <2> DEFINE new == [row[s] EXCEPT !.state = "uploaded", !.reserved = 0, !.actual = n,
                                   !.chargedOn = DayOf(t), !.lease = 0]
             intent == [pending |-> TRUE, day |-> DayOf(t), bytes |-> n, createdAt |-> now,
                        possible |-> FALSE, attempt |-> NoAttempt]
  <2>1. /\ row' = [row EXCEPT ![s] = new] /\ settlement' = [settlement EXCEPT ![s] = intent]
        /\ s \in files /\ row[s].state = "receiving" /\ UNCHANGED <<files, cleanup>>
    BY <1>1 DEF Settle
  <2>2. new.state = "uploaded" /\ new.actual = n
    BY <1>0 DEF Row
  <2>3. intent.bytes = n
    OBVIOUS
  <2> HIDE DEF new, intent
  <2>4. row'[s] = new /\ settlement'[s] = intent
    BY <1>0, <2>1
  <2>5. Kept(s)'
    BY <1>0, <2>1, <2>2, <2>3, <2>4 DEF Kept, Consistent, Terminal
  <2>6. \A x \in Session : x # s => SameSession(x)
    BY <1>0, <2>1 DEF SameSession
  <2>7. QED
    BY <2>5, <2>6, OneSessionKept
<1>2. ASSUME CompensateLateSettlement(s)
      PROVE  \A x \in Session : Kept(x)'
  <2>1. /\ row' = [row EXCEPT ![s] = Refunded(row[s])] /\ files' = files
        /\ settlement' = [settlement EXCEPT ![s] = NoIntent]
        /\ cleanup' = IF row[s].state = "uploaded" THEN cleanup \cup {s} ELSE cleanup
        /\ row[s].state \in {"uploaded", "expired"}
    BY <1>2 DEF CompensateLateSettlement
  <2>2. Refunded(row[s]).state = "expired"
    BY <1>0 DEF Refunded, Expired, Row
  <2>3. row'[s].state = "expired" /\ ~settlement'[s].pending
    BY <1>0, <2>1, <2>2 DEF NoIntent
  <2>4. Kept(s)'
    BY <1>0, <2>1, <2>3 DEF Kept, Terminal
  <2>5. \A x \in Session : x # s => SameSession(x)
    BY <1>0, <2>1 DEF SameSession
  <2>6. QED
    BY <2>4, <2>5, OneSessionKept
<1>3. ASSUME NEW a \in Attempt, AbortDeliveryAttempt(s, a)
      PROVE  \A x \in Session : Kept(x)'
  <2>1. /\ row' = RowsAfter({s}, {}) /\ files' = files /\ cleanup' = cleanup \cup {s}
        /\ settlement' = [x \in Session |-> IF x \in {s} THEN NoIntent ELSE settlement[x]]
        /\ row[s].state \in {"uploaded", "expired"}
    BY <1>3 DEF AbortDeliveryAttempt, RecoverAndExpire, Enqueue, Consistent
  <2>2. row'[s] = Refunded(row[s]) /\ \A x \in Session : x # s => row'[x] = row[x]
    BY <2>1 DEF RowsAfter
  <2>3. row'[s].state = "expired" /\ ~settlement'[s].pending
    BY <1>0, <2>1, <2>2 DEF Refunded, Expired, Row, NoIntent
  <2>4. Kept(s)'
    BY <1>0, <2>1, <2>3 DEF Kept, Terminal
  <2>5. \A x \in Session : x # s => SameSession(x)
    BY <2>1, <2>2 DEF SameSession
  <2>6. QED
    BY <2>4, <2>5, OneSessionKept
<1>4. ASSUME DropReceipt(s)
      PROVE  \A x \in Session : Kept(x)'
  <2>1. \A x \in Session : SameSession(x)
    BY <1>4 DEF DropReceipt, SameSession
  <2>2. QED
    BY <2>1, NoSessionKept
<1>5. ASSUME UNCHANGED <<row, files, cleanup>>,
             \A x \in Session : x # s => settlement'[x] = settlement[x],
             settlement'[s].pending =>
               /\ settlement[s].pending /\ settlement'[s].bytes = settlement[s].bytes
               /\ settlement'[s].possible =>
                    settlement[s].possible \/ row[s].state = "uploaded"
      PROVE  \A x \in Session : Kept(x)'
  <2>1. \A x \in Session : x # s => SameSession(x)
    BY <1>5 DEF SameSession
  <2>2. Kept(s)'
    BY <1>0, <1>5 DEF Kept, Consistent
  <2>3. QED
    BY <2>1, <2>2, OneSessionKept
<1>6. ASSUME NEW a \in Attempt, BeginDeliveryAttempt(s, a)
      PROVE  \A x \in Session : Kept(x)'
  <2>1. /\ UNCHANGED <<row, files, cleanup>>
        /\ \A x \in Session : x # s => settlement'[x] = settlement[x]
        /\ settlement[s].pending /\ settlement'[s].bytes = settlement[s].bytes
        /\ settlement'[s].possible = settlement[s].possible
    BY <1>0, <1>6 DEF BeginDeliveryAttempt, Intent
  <2>2. QED
    BY <1>5, <2>1
<1>7. ASSUME NEW a \in Attempt, MarkDeliveryPossible(s, a)
      PROVE  \A x \in Session : Kept(x)'
  <2>1. /\ UNCHANGED <<row, files, cleanup>>
        /\ \A x \in Session : x # s => settlement'[x] = settlement[x]
        /\ settlement[s].pending /\ settlement'[s].bytes = settlement[s].bytes
        /\ row[s].state = "uploaded"
    BY <1>0, <1>7 DEF MarkDeliveryPossible, Deliverable, Intent
  <2>2. QED
    BY <1>5, <2>1
<1>8. ASSUME AcknowledgeSettlement(s)
      PROVE  \A x \in Session : Kept(x)'
  <2>1. /\ UNCHANGED <<row, files, cleanup>>
        /\ \A x \in Session : x # s => settlement'[x] = settlement[x]
        /\ ~settlement'[s].pending
    BY <1>0, <1>8 DEF AcknowledgeSettlement, NoIntent
  <2>2. QED
    BY <1>5, <2>1
<1>9. QED
  BY <1>1, <1>2, <1>3, <1>4, <1>6, <1>7, <1>8 DEF SettlementStep

\* Recovery and expiry, in service and when the ledger is opened.
LEMMA KeptRecovery ==
  ASSUME DeliveryInvariant, NEW B \in SUBSET Session, NEW t, NEW X,
         Recoverable(B), RecoverAndExpire(Unmarked(B), Abandoned(t) \ X),
         files' = files
  PROVE  \A x \in Session : Kept(x)'
<1> DEFINE R == Unmarked(B)
           A == Abandoned(t) \ X
<1> SUFFICES ASSUME NEW x \in Session PROVE Kept(x)'
  OBVIOUS
<1>0. row[x] \in Row /\ Kept(x)
  BY DEF DeliveryInvariant, LedgerInvariant, TypeOK
<1>1. R \in SUBSET Session /\ A \in SUBSET Session
  BY DEF Unmarked, Abandoned
<1>2. x \in A => row[x].state \in Reserving
  BY DEF Abandoned, Reserving
<1>3. x \in R \cup A => row[x].state # "absent"
  BY RecoveredExist
<1>4. /\ row'[x] = IF x \in R THEN Refunded(row[x])
                   ELSE IF x \in A THEN Expired(row[x]) ELSE row[x]
      /\ settlement'[x] = IF x \in R THEN NoIntent ELSE settlement[x]
      /\ cleanup' = cleanup \cup R \cup A
  BY <1>1 DEF RecoverAndExpire, RowsAfter, Enqueue
<1> HIDE DEF R, A
<1>5. Refunded(row[x]).state = "expired" /\ Expired(row[x]).state = "expired"
  BY <1>0 DEF Refunded, Expired, Row
<1>6. CASE x \in R
  <2>1. row'[x].state = "expired" /\ ~settlement'[x].pending /\ x \in cleanup'
    BY <1>4, <1>5, <1>6 DEF NoIntent
  <2>2. QED
    BY <2>1 DEF Kept, Terminal
<1>7. CASE x \in A \ R
  <2>1. row'[x].state = "expired" /\ settlement'[x] = settlement[x] /\ x \in cleanup'
    BY <1>4, <1>5, <1>7
  <2>2. ~settlement[x].pending
    BY <1>0, <1>2, <1>7 DEF Kept, Consistent, Reserving
  <2>3. QED
    BY <2>1, <2>2 DEF Kept, Terminal
<1>8. CASE x \notin R \cup A
  <2>1. SameSession(x)
    BY <1>4, <1>8 DEF SameSession
  <2>2. QED
    BY <1>0, <2>1, SameIsKept
<1>9. QED
  BY <1>6, <1>7, <1>8

\* Deleting a file takes one that is queued; its job may survive a crash.
LEMMA KeptDeletion ==
  ASSUME DeliveryInvariant, NEW s \in Session, s \in cleanup, UNCHANGED <<row, settlement>>,
         files' = files \ {s}, cleanup' \in {cleanup, cleanup \ {s}}
  PROVE  \A x \in Session : Kept(x)'
<1>1. Kept(s)'
  BY DEF DeliveryInvariant, Kept, Consistent
<1>2. \A x \in Session : x # s => SameSession(x)
  BY DEF SameSession
<1>3. QED
  BY <1>1, <1>2, OneSessionKept

\* Every step keeps the invariant.
LEMMA DeliveryStep ==
  ASSUME DeliveryInvariant, [Next]_vars
  PROVE  DeliveryInvariant'
<1>0. LedgerInvariant'
  BY BudgetStep DEF DeliveryInvariant
<1>1. ASSUME NEW t \in Readings, NEW X \in SUBSET Session, Reconcile(t, X)
      PROVE  \A x \in Session : Kept(x)'
  <2>1. Batch(t) \in SUBSET Session
    BY DEF Batch
  <2>2. QED
    BY <1>1, <2>1, KeptRecovery DEF Reconcile
<1>2. ASSUME NEW ks \in SUBSET Key, OpenLedger(ks)
      PROVE  \A x \in Session : Kept(x)'
  <2>1. Pending \in SUBSET Session /\ Abandoned(now) = Abandoned(now) \ {}
    BY DEF Pending
  <2>2. QED
    BY <1>2, <2>1, KeptRecovery DEF OpenLedger, CanOpen
<1>3. ASSUME NEW s \in Session, CleanUp(s) \/ CrashAfterUnlink(s)
      PROVE  \A x \in Session : Kept(x)'
  <2>1. /\ s \in cleanup /\ UNCHANGED <<row, settlement>> /\ files' = files \ {s}
        /\ cleanup' \in {cleanup, cleanup \ {s}}
    BY <1>3 DEF CleanUp, CrashAfterUnlink, Stop
  <2>2. QED
    BY <2>1, KeptDeletion
<1>4. ASSUME Crash \/ FinishOpen \/ Tick \/ UNCHANGED vars
      PROVE  \A x \in Session : Kept(x)'
  <2>1. UNCHANGED <<row, settlement, files, cleanup>>
    BY <1>4 DEF Crash, Stop, FinishOpen, Tick, vars
  <2>2. \A x \in Session : SameSession(x)
    BY <2>1 DEF SameSession
  <2>3. QED
    BY <2>2, NoSessionKept
<1>5. ASSUME NEW s \in Session, SessionStep(s) \/ SettlementStep(s)
      PROVE  \A x \in Session : Kept(x)'
  BY <1>5, KeptSessionStep, KeptSettlementStep
<1>6. \A x \in Session : Kept(x)'
  <2>1. CASE MaintenanceStep
    BY <1>1, <1>3, <2>1 DEF MaintenanceStep
  <2>2. CASE ProcessStep
    BY <1>2, <1>3, <1>4, <2>2 DEF ProcessStep
  <2>3. QED
    BY <1>4, <1>5, <2>1, <2>2 DEF Next
<1>7. QED
  BY <1>0, <1>6 DEF DeliveryInvariant

\* An empty ledger has no intent, no file and no job.
LEMMA DeliveryInit == Init => DeliveryInvariant
<1> SUFFICES ASSUME Init PROVE DeliveryInvariant
  OBVIOUS
<1>1. LedgerInvariant
  BY BudgetInit
<1>2. ASSUME NEW s \in Session PROVE Kept(s)
  BY DEF Init, Kept, NoRow, NoIntent, Terminal
<1>3. QED
  BY <1>1, <1>2 DEF DeliveryInvariant

\* The invariant holds in every reachable state.
THEOREM DeliveryInvariantHolds == Spec => []DeliveryInvariant
BY DeliveryInit, DeliveryStep, PTL DEF Spec

\* Once a delivery is marked possible, neither expiry nor recovery nor the worker's
\* late compensation touches the row or its charge while the intent is pending.
THEOREM MarkedSettlementsAreKept == Spec => []MarkedIsKept
BY DeliveryInvariantHolds, DeliveryImplies, PTL

\* A session that is alive has its file, and no cleanup job names it.
THEOREM LiveFilesAreKept == Spec => []LiveFileKept
BY DeliveryInvariantHolds, DeliveryImplies, PTL

\* The file of a dead session always has a cleanup job, through every crash.
THEOREM DeadFilesAreQueued == Spec => []DeadFileQueued
BY DeliveryInvariantHolds, DeliveryImplies, PTL

\* Both together, which is what the deferred deletion of upload files has to keep.
THEOREM SessionsAndFilesAgree == Spec => []FilesFollowSessions
BY LiveFilesAreKept, DeadFilesAreQueued, PTL DEF FilesFollowSessions

-----------------------------------------------------------------------------
(* The dates of an intent and of the receipt its worker holds.             *)

\* Of one session: it is charged after it was received, on the day its intent and its
\* worker's receipt name; a receipt is of a settlement nobody has tried to deliver.
Dated(s) ==
  /\ row[s].state \in Reserving \cup {"absent"} => row[s].actual = NoBytes
  /\ settlement[s].pending /\ row[s].actual # NoBytes => settlement[s].day = row[s].chargedOn
  /\ receipt[s].held /\ row[s].actual # NoBytes =>
       /\ receipt[s].day = row[s].chargedOn
       /\ settlement[s].pending /\ settlement[s].attempt = NoAttempt /\ ~settlement[s].possible

\* A session that keeps its charge moves on, its intent and receipt stay or go.
Follows(s) ==
  \/ row'[s].actual = NoBytes
  \/ /\ row'[s].actual = row[s].actual /\ row'[s].chargedOn = row[s].chargedOn
     /\ row'[s].state \in Reserving \cup {"absent"} => row[s].state \in Reserving \cup {"absent"}
     /\ settlement'[s].pending => settlement[s].pending /\ settlement'[s].day = settlement[s].day
     /\ receipt'[s].held => /\ receipt[s].held /\ receipt'[s].day = receipt[s].day
                            /\ settlement'[s] = settlement[s]

\* That keeps the dates.
LEMMA FollowsIsDated ==
  ASSUME NEW s \in Session, Dated(s), Follows(s)
  PROVE  Dated(s)'
BY DEF Dated, Follows

\* What recovery and expiry make of a row.
LEMMA DeadRow ==
  ASSUME NEW r \in Row
  PROVE  /\ Refunded(r).actual = NoBytes /\ Refunded(r).state = "expired"
         /\ Refunded(r).reserved = 0 /\ Refunded(r).identity = r.identity
         /\ Expired(r).actual = r.actual /\ Expired(r).chargedOn = r.chargedOn
         /\ Expired(r).state = "expired" /\ Expired(r).identity = r.identity
         /\ Expired(r).reserved = 0
BY DEF Refunded, Expired, Row

\* The steps of a session up to its upload.
LEMMA FollowsSessionStep ==
  ASSUME DeliveryInvariant, \A x \in Session : Dated(x), NEW s \in Session, SessionStep(s)
  PROVE  \A x \in Session : Follows(x)
<1>0. /\ row \in [Session -> Row] /\ row[s] \in Row /\ TypeOK
  BY DEF DeliveryInvariant, LedgerInvariant, TypeOK
<1> SUFFICES ASSUME NEW x \in Session PROVE Follows(x)
  OBVIOUS
<1>1. ASSUME NEW a \in Ip, NEW n \in 1 .. MaxFileBytes, NEW t \in Readings,
             Reserve(s, a, n, t)
      PROVE  Follows(x)
  <2> DEFINE i == Resolved(a)
             merged == MergedRow(Found(a), i)
             new == [state |-> "reserved", identity |-> i, reserved |-> n, actual |-> NoBytes,
                     chargedOn |-> 0, expires |-> t + CapabilityTtl, lease |-> 0]
  <2>1. /\ i \in Identity /\ settlement' = settlement /\ receipt' = receipt
        /\ row' = [merged EXCEPT ![s] = new]
    BY <1>1 DEF Reserve, workerVars
  <2>2. merged \in [Session -> Row]
    BY <1>0, <2>1, MergeType
  <2>3. /\ merged[x].state = row[x].state /\ merged[x].actual = row[x].actual
        /\ merged[x].chargedOn = row[x].chargedOn
    <3>1. row[x] \in Row
      BY <1>0
    <3>2. QED
      BY <3>1 DEF MergedRow, Row
  <2>4. new.actual = NoBytes
    OBVIOUS
  <2> HIDE DEF merged, i, new
  <2>5. row'[x] = IF x = s THEN new ELSE merged[x]
    BY <2>1, <2>2
  <2>6. QED
    BY <2>1, <2>3, <2>4, <2>5 DEF Follows
<1>2. ASSUME NEW t \in Readings, ClaimReceivingLease(s, t) \/ RenewReceivingLease(s, t)
      PROVE  Follows(x)
  BY <1>0, <1>2 DEF ClaimReceivingLease, RenewReceivingLease, OnlyRowChanges, workerVars,
                    Row, Reserving, Follows
<1>3. ASSUME NEW n \in 1 .. MaxFileBytes, NEW t \in Readings, ExpandReceiving(s, n, t)
      PROVE  Follows(x)
  BY <1>0, <1>3 DEF ExpandReceiving, workerVars, Row, Follows
<1>4. ASSUME NEW target \in {"receiving", "probing", "queued"}, Advance(s, target)
      PROVE  Follows(x)
  BY <1>0, <1>4 DEF Advance, OnlyRowChanges, workerVars, Row, Reserving, Follows
<1>5. ASSUME Reject(s)
      PROVE  Follows(x)
  BY <1>0, <1>5 DEF Reject, workerVars, Row, Reserving, Follows
<1>6. ASSUME Expire(s)
      PROVE  Follows(x)
  <2>1. /\ Expired(row[s]).state = "expired" /\ Expired(row[s]).actual = row[s].actual
        /\ Expired(row[s]).chargedOn = row[s].chargedOn
    BY <1>0, DeadRow
  <2>2. row'[x] = IF x = s THEN Expired(row[s]) ELSE row[x]
    BY <1>0, <1>6 DEF Expire
  <2>3. QED
    BY <1>6, <2>1, <2>2 DEF Expire, workerVars, Reserving, Follows
<1>7. QED
  BY <1>1, <1>2, <1>3, <1>4, <1>5, <1>6 DEF SessionStep

\* Recovery and expiry take the charge away or leave it.
LEMMA FollowsRecovery ==
  ASSUME TypeOK, NEW R \in SUBSET Session, NEW A \in SUBSET Session, RecoverAndExpire(R, A),
         receipt' = receipt
  PROVE  \A x \in Session : Follows(x)
<1> SUFFICES ASSUME NEW x \in Session PROVE Follows(x)
  OBVIOUS
<1>1. row[x] \in Row
  BY DEF TypeOK
<1>2. /\ row'[x] = IF x \in R THEN Refunded(row[x])
                   ELSE IF x \in A THEN Expired(row[x]) ELSE row[x]
      /\ x \notin R => settlement'[x] = settlement[x]
  BY DEF RecoverAndExpire, RowsAfter
<1>3. QED
  BY <1>1, <1>2, DeadRow DEF Follows, Reserving

\* The steps of a settlement after the upload has been settled.
LEMMA FollowsSettlementStep ==
  ASSUME DeliveryInvariant, \A x \in Session : Dated(x), NEW s \in Session,
         \/ DropReceipt(s)
         \/ CompensateLateSettlement(s)
         \/ \E a \in Attempt : \/ BeginDeliveryAttempt(s, a)
                               \/ MarkDeliveryPossible(s, a)
                               \/ AbortDeliveryAttempt(s, a)
         \/ AcknowledgeSettlement(s)
  PROVE  \A x \in Session : Follows(x)
<1>0. /\ row \in [Session -> Row] /\ row[s] \in Row /\ TypeOK /\ Dated(s) /\ Kept(s)
      /\ settlement \in [Session -> Intent] /\ receipt \in [Session -> Receipt]
  BY DEF DeliveryInvariant, LedgerInvariant, TypeOK
<1> SUFFICES ASSUME NEW x \in Session PROVE Follows(x)
  OBVIOUS
<1>1. ASSUME DropReceipt(s) PROVE Follows(x)
  BY <1>0, <1>1 DEF DropReceipt, NoReceipt, Follows
<1>2. ASSUME CompensateLateSettlement(s) PROVE Follows(x)
  <2>1. Refunded(row[s]).actual = NoBytes
    BY <1>0, DeadRow
  <2>2. /\ row'[x] = IF x = s THEN Refunded(row[s]) ELSE row[x]
        /\ x # s => settlement'[x] = settlement[x] /\ receipt'[x] = receipt[x]
    BY <1>0, <1>2 DEF CompensateLateSettlement
  <2>3. QED
    BY <2>1, <2>2 DEF Follows
<1>3. ASSUME NEW a \in Attempt, BeginDeliveryAttempt(s, a) PROVE Follows(x)
  <2>1. /\ row' = row /\ receipt' = receipt /\ ~receipt[s].held
        /\ x # s => settlement'[x] = settlement[x]
        /\ settlement'[s].pending = settlement[s].pending
        /\ settlement'[s].day = settlement[s].day
    BY <1>0, <1>3 DEF BeginDeliveryAttempt, HandedOver, workerVars, Intent
  <2>2. QED
    BY <2>1 DEF Follows
<1>4. ASSUME NEW a \in Attempt, MarkDeliveryPossible(s, a) PROVE Follows(x)
  <2>1. /\ row' = row /\ receipt' = receipt /\ settlement[s].attempt # NoAttempt
        /\ x # s => settlement'[x] = settlement[x]
        /\ settlement'[s].pending = settlement[s].pending
        /\ settlement'[s].day = settlement[s].day
    BY <1>0, <1>4, AttemptsAreNamed DEF MarkDeliveryPossible, Intent
  <2>2. QED
    BY <1>0, <2>1 DEF Follows, Dated
<1>5. ASSUME NEW a \in Attempt, AbortDeliveryAttempt(s, a) PROVE Follows(x)
  BY <1>0, <1>5, FollowsRecovery DEF AbortDeliveryAttempt, workerVars
<1>6. ASSUME AcknowledgeSettlement(s) PROVE Follows(x)
  <2>1. /\ row' = row /\ receipt' = receipt /\ settlement[s].possible
        /\ x # s => settlement'[x] = settlement[x]
        /\ ~settlement'[s].pending
    BY <1>0, <1>6 DEF AcknowledgeSettlement, Marked, NoIntent
  <2>2. QED
    BY <1>0, <2>1 DEF Follows, Dated
<1>7. QED
  BY <1>1, <1>2, <1>3, <1>4, <1>5, <1>6

\* The settlement of an upload dates it.
LEMMA DatedSettle ==
  ASSUME DeliveryInvariant, \A x \in Session : Dated(x), NEW s \in Session,
         NEW n \in 0 .. MaxFileBytes, NEW t \in Readings, Settle(s, n, t)
  PROVE  \A x \in Session : Dated(x)'
<1> DEFINE new == [row[s] EXCEPT !.state = "uploaded", !.reserved = 0, !.actual = n,
                                 !.chargedOn = DayOf(t), !.lease = 0]
           intent == [pending |-> TRUE, day |-> DayOf(t), bytes |-> n, createdAt |-> now,
                      possible |-> FALSE, attempt |-> NoAttempt]
           held == [held |-> TRUE, identity |-> row[s].identity, day |-> DayOf(t), bytes |-> n]
<1>1. /\ row \in [Session -> Row] /\ row[s] \in Row /\ settlement \in [Session -> Intent]
      /\ receipt \in [Session -> Receipt] /\ \A x \in Session : Dated(x)
  BY DEF DeliveryInvariant, LedgerInvariant, TypeOK
<1>2. /\ row' = [row EXCEPT ![s] = new] /\ settlement' = [settlement EXCEPT ![s] = intent]
      /\ receipt' = [receipt EXCEPT ![s] = held]
  BY DEF Settle
<1>3. /\ new.state = "uploaded" /\ new.chargedOn = DayOf(t)
      /\ intent.day = DayOf(t) /\ intent.pending /\ ~intent.possible
      /\ intent.attempt = NoAttempt /\ held.day = DayOf(t)
  BY <1>1 DEF Row
<1> HIDE DEF new, intent, held
<1>4. \A x \in Session : x # s => Follows(x)
  BY <1>1, <1>2 DEF Follows
<1>5. Dated(s)'
  BY <1>1, <1>2, <1>3 DEF Dated, Reserving
<1>6. QED
  BY <1>1, <1>4, <1>5, FollowsIsDated

-----------------------------------------------------------------------------
(* The usage of an identity on a day is what its sessions were charged on it. *)

\* What the sessions of identity i were charged on day d.
Charges(r, i, d) ==
  [s \in Session |-> IF r[s].identity = i /\ r[s].chargedOn = d /\ r[s].actual # NoBytes
                     THEN r[s].actual ELSE 0]

LEMMA ChargesType ==
  ASSUME NEW r \in [Session -> Row], NEW i, NEW d
  PROVE  Charges(r, i, d) \in [Session -> Nat] /\ Charges(r, i, d) \in [Session -> Int]
BY DEF Charges, Row, NoBytes

\* ChargesExact in these terms.
LEMMA ChargesAdded ==
  ChargesExact <=> \A i \in Identity, d \in Day : used[i][d] = Total(Charges(row, i, d))
BY DEF ChargesExact, Charges

\* The same after a step.
LEMMA ChargesAddedNext ==
  ChargesExact' <=> \A i \in Identity, d \in Day : used'[i][d] = Total(Charges(row', i, d))
BY DEF ChargesExact, Charges, Total

\* A step that charges and refunds nobody.
LEMMA ChargesSame ==
  ASSUME ChargesExact, used' = used,
         \A x \in Session : /\ row'[x].identity = row[x].identity
                            /\ row'[x].chargedOn = row[x].chargedOn
                            /\ row'[x].actual = row[x].actual
  PROVE  ChargesExact'
<1>1. \A i, d : Charges(row', i, d) = Charges(row, i, d)
  BY DEF Charges
<1>2. QED
  BY <1>1, ChargesAdded, ChargesAddedNext

\* A refund takes from each identity and day what the refunded sessions were charged.
LEMMA ChargesRefunded ==
  ASSUME TypeOK, row' \in [Session -> Row], ChargesExact, NEW R \in SUBSET Session, NEW day,
         \A x \in Charged(R) : day[x] = row[x].chargedOn,
         \A x \in R : row'[x].actual = NoBytes,
         \A x \in Session \ R : /\ row'[x].identity = row[x].identity
                                /\ row'[x].chargedOn = row[x].chargedOn
                                /\ row'[x].actual = row[x].actual,
         used' = UsedAfterRefund(Charged(R), day)
  PROVE  ChargesExact'
<1>1. ASSUME NEW i \in Identity, NEW d \in Day
      PROVE  used'[i][d] = Total(Charges(row', i, d))
  <2> DEFINE f == Charges(row, i, d)
             g == Charges(row', i, d)
             b == [s \in Session |-> IF s \in Billed(Charged(R), day, i, d)
                                     THEN row[s].actual ELSE 0]
  <2>1. f \in [Session -> Int] /\ g \in [Session -> Int]
    BY ChargesType DEF TypeOK
  <2>2. b \in [Session -> Int]
    BY DEF TypeOK, Row, NoBytes
  <2>3. ASSUME NEW s \in Session PROVE f[s] = g[s] + b[s]
    <3>1. row[s] \in Row /\ row[s].actual \in Nat \cup {NoBytes}
      BY DEF TypeOK, Row
    <3>2. CASE s \in R
      BY <3>1, <3>2 DEF Charges, Billed, Charged, NoBytes
    <3>3. CASE s \notin R
      BY <3>1, <3>3 DEF Charges, Billed, Charged, NoBytes
    <3>4. QED
      BY <3>2, <3>3
  <2>4. used'[i][d] = used[i][d] - Bill(Billed(Charged(R), day, i, d))
    BY DEF UsedAfterRefund
  <2>5. Bill(Billed(Charged(R), day, i, d)) = SumFunctionOnSet(b, Session)
    BY DEF Bill, Total
  <2>6. used[i][d] = SumFunctionOnSet(f, Session)
    BY ChargesAdded DEF Total
  <2> HIDE DEF f, g, b
  <2>7. SumFunctionOnSet(f, Session) = SumFunctionOnSet(g, Session) + SumFunctionOnSet(b, Session)
    <3>1. IsFiniteSet(Session) /\ \A s \in Session : f[s] = g[s] + b[s]
      BY <2>3, SessionsAreNumbered
    <3>2. QED
      BY <2>1, <2>2, <3>1, SumAdd
  <2>8. /\ SumFunctionOnSet(f, Session) \in Int /\ SumFunctionOnSet(g, Session) \in Int
        /\ SumFunctionOnSet(b, Session) \in Int
    BY <2>1, <2>2, SessionsAreNumbered, SumType
  <2>9. used'[i][d] = SumFunctionOnSet(g, Session)
    BY <2>4, <2>5, <2>6, <2>7, <2>8
  <2>10. QED
    BY <2>9 DEF Total, g
<1>2. QED
  BY <1>1, ChargesAddedNext

\* A settlement charges its identity on its day.
LEMMA ChargesSettled ==
  ASSUME TypeOK, row' \in [Session -> Row], ChargesExact, NEW s \in Session, Dated(s),
         NEW n \in 0 .. MaxFileBytes, NEW t \in Readings, Settle(s, n, t)
  PROVE  ChargesExact'
<1> DEFINE new == [row[s] EXCEPT !.state = "uploaded", !.reserved = 0, !.actual = n,
                                 !.chargedOn = DayOf(t), !.lease = 0]
<1>1. /\ row[s].actual = NoBytes /\ row[s] \in Row /\ row \in [Session -> Row]
      /\ used \in [Identity -> [Day -> Nat]] /\ n \in Nat
  BY LimitsAreNumbers DEF Settle, Dated, Reserving, TypeOK
<1>2. new.actual = n /\ new.chargedOn = DayOf(t) /\ new.identity = row[s].identity
  BY <1>1 DEF Row
<1>3. row' = [row EXCEPT ![s] = new] /\ used' = [used EXCEPT ![row[s].identity][DayOf(t)] = @ + n]
  BY DEF Settle
<1> HIDE DEF new
<1>4. row'[s] = new /\ \A x \in Session : x # s => row'[x] = row[x]
  BY <1>1, <1>3
<1>5. ASSUME NEW i \in Identity, NEW d \in Day
      PROVE  used'[i][d] = Total(Charges(row', i, d))
  <2> DEFINE f == Charges(row, i, d)
             g == Charges(row', i, d)
             more == IF i = row[s].identity /\ d = DayOf(t) THEN n ELSE 0
  <2>1. f \in [Session -> Int] /\ g \in [Session -> Int]
    BY <1>1, ChargesType
  <2>2. \A x \in Session : x # s => g[x] = f[x]
    BY <1>4 DEF Charges
  <2>3. f[s] = 0 /\ g[s] = more
    BY <1>1, <1>2, <1>4 DEF Charges, NoBytes
  <2>4. used'[i][d] = used[i][d] + more
    BY <1>1, <1>3
  <2>5. used[i][d] = SumFunctionOnSet(f, Session)
    BY ChargesAdded DEF Total
  <2> HIDE DEF f, g, more
  <2>6. SumFunctionOnSet(g, Session) = SumFunctionOnSet(f, Session) + (g[s] - f[s])
    BY <2>1, <2>2, SessionsAreNumbered, SumUpdate
  <2>7. g[s] - f[s] = more
    BY <2>1, <2>3
  <2>8. QED
    BY <2>4, <2>5, <2>6, <2>7 DEF Total, g
<1>6. QED
  BY <1>5, ChargesAddedNext

-----------------------------------------------------------------------------
(* A reservation merges the identities that an address is known by.        *)

\* The identities an address is known by are identities, and it is one of them that
\* survives when there is any.
LEMMA FoundType ==
  ASSUME TypeOK, NEW a \in Ip
  PROVE  /\ Found(a) \in SUBSET Identity
         /\ Found(a) # {} => Resolved(a) \in Found(a)
<1>1. Found(a) \in SUBSET Identity
  BY DEF Found, TypeOK
<1>2. Found(a) \in SUBSET Nat
  BY <1>1, IdentitiesAreNumbered
<1>3. ASSUME Found(a) # {} PROVE Resolved(a) \in Found(a)
  <2>1. \E i \in Found(a) : \A j \in Found(a) : i <= j
    BY <1>2, <1>3, LeastNatural
  <2>2. QED
    BY <1>3, <2>1 DEF Resolved
<1>4. QED
  BY <1>1, <1>3

\* What a reservation does to the rows: those of the merged identities move to the one
\* that survives, and the new session is charged nothing.
LEMMA ReservedRows ==
  ASSUME TypeOK, NEW s \in Session, NEW a \in Ip, NEW n \in 1 .. MaxFileBytes, NEW t \in Readings,
         Reserve(s, a, n, t)
  PROVE  /\ row'[s].state = "reserved" /\ row'[s].actual = NoBytes
         /\ row'[s].identity = Resolved(a) /\ row'[s].reserved = n
         /\ \A x \in Session : x # s =>
              /\ row'[x].identity = IF row[x].identity \in Found(a) THEN Resolved(a)
                                    ELSE row[x].identity
              /\ row'[x].chargedOn = row[x].chargedOn /\ row'[x].actual = row[x].actual
              /\ row'[x].state = row[x].state /\ row'[x].reserved = row[x].reserved
<1> DEFINE i == Resolved(a)
           merged == MergedRow(Found(a), i)
           new == [state |-> "reserved", identity |-> i, reserved |-> n, actual |-> NoBytes,
                   chargedOn |-> 0, expires |-> t + CapabilityTtl, lease |-> 0]
<1>1. i \in Identity /\ row' = [merged EXCEPT ![s] = new]
  BY DEF Reserve
<1>2. merged \in [Session -> Row]
  BY <1>1, MergeType
<1>3. ASSUME NEW x \in Session
      PROVE  /\ merged[x].identity = IF row[x].identity \in Found(a) THEN i ELSE row[x].identity
             /\ merged[x].chargedOn = row[x].chargedOn /\ merged[x].actual = row[x].actual
             /\ merged[x].state = row[x].state /\ merged[x].reserved = row[x].reserved
  <2>1. row[x] \in Row
    BY DEF TypeOK
  <2>2. QED
    BY <2>1 DEF MergedRow, Row
<1>4. /\ new.state = "reserved" /\ new.actual = NoBytes /\ new.identity = i /\ new.reserved = n
  OBVIOUS
<1> HIDE DEF merged, new, i
<1>5. row'[s] = new /\ \A x \in Session : x # s => row'[x] = merged[x]
  BY <1>1, <1>2
<1>6. QED
  BY <1>3, <1>4, <1>5 DEF i

\* A merge of identities adds up what they were charged.
LEMMA ChargesMerged ==
  ASSUME TypeOK, row' \in [Session -> Row], ChargesExact, NEW s \in Session, Dated(s),
         NEW a \in Ip, NEW n \in 1 .. MaxFileBytes, NEW t \in Readings, Reserve(s, a, n, t)
  PROVE  ChargesExact'
<1> DEFINE F == Found(a)
           k == Resolved(a)
<1>1. /\ F \in SUBSET Identity /\ (F # {} => k \in F) /\ k \in Identity
      /\ row[s].actual = NoBytes /\ row \in [Session -> Row]
      /\ used \in [Identity -> [Day -> Nat]] /\ used' = MergedUsed(F, k)
  BY FoundType DEF Reserve, NextSession, Dated, TypeOK
<1>2. /\ row'[s].actual = NoBytes
      /\ \A x \in Session : x # s =>
           /\ row'[x].identity = IF row[x].identity \in F THEN k ELSE row[x].identity
           /\ row'[x].chargedOn = row[x].chargedOn /\ row'[x].actual = row[x].actual
  BY ReservedRows
<1> HIDE DEF F, k
<1>3. ASSUME NEW i \in Identity, NEW d \in Day
      PROVE  used'[i][d] = Total(Charges(row', i, d))
  <2>1. CASE i = k /\ F # {}
    <3> DEFINE amount == [x \in Session |-> IF /\ row[x].identity \in F /\ row[x].chargedOn = d
                                               /\ row[x].actual # NoBytes
                                            THEN row[x].actual ELSE 0]
               o == [x \in Session |-> row[x].identity]
               owned == [f \in Identity |-> [x \in Session |-> IF o[x] = f THEN amount[x] ELSE 0]]
               g == [f \in Identity |-> IF f \in F THEN used[f][d] ELSE 0]
    <3>1. amount \in [Session -> Int]
      BY <1>1 DEF Row, NoBytes
    <3>2. Charges(row', i, d) = amount
      BY <1>1, <1>2, <2>1 DEF Charges
    <3>3. \A x \in Session : o[x] \in Identity \/ amount[x] = 0
      BY <1>1
    <3>4. g \in [Identity -> Int]
      BY <1>1
    <3>5. used'[i][d] = SumFunctionOnSet(g, Identity)
      BY <1>1, <2>1 DEF MergedUsed
    <3>6. ASSUME NEW f \in Identity
          PROVE  /\ owned[f] \in [Session -> Int] /\ g[f] = SumFunctionOnSet(owned[f], Session)
                 /\ \A x \in Session : owned[f][x] = IF o[x] = f THEN amount[x] ELSE 0
      <4>1. /\ owned[f] \in [Session -> Int]
            /\ \A x \in Session : owned[f][x] = IF o[x] = f THEN amount[x] ELSE 0
        <5> HIDE DEF amount
        <5>1. QED
          BY <3>1
      <4>2. CASE f \in F
        <5>1. Charges(row, f, d) = owned[f]
          BY <4>2 DEF Charges
        <5>2. g[f] = used[f][d]
          BY <4>2
        <5> HIDE DEF g, owned
        <5>3. QED
          BY <4>1, <5>1, <5>2, ChargesAdded DEF Total
      <4>3. CASE f \notin F
        <5>1. (\A x \in Session : owned[f][x] = 0) /\ g[f] = 0
          BY <4>3
        <5>2. IsFiniteSet(Session)
          BY SessionsAreNumbered
        <5> HIDE DEF owned, g, o
        <5>3. SumFunctionOnSet(owned[f], Session) = 0
          BY <4>1, <5>1, <5>2, SumZero
        <5>4. QED
          BY <4>1, <5>1, <5>3
      <4>4. QED
        BY <4>2, <4>3
    <3> HIDE DEF amount, o, owned, g
    <3>7. SumFunctionOnSet(g, Identity) = SumFunctionOnSet(amount, Session)
      <4>1. IsFiniteSet(Session) /\ IsFiniteSet(Identity)
        BY SessionsAreNumbered, IdentitiesAreNumbered
      <4>2. Shares(Session, Identity, o, amount, owned, g)
        BY <3>1, <3>3, <3>4, <3>6 DEF Shares
      <4>3. QED
        BY <4>1, <4>2, SumByOwner
    <3>8. QED
      BY <3>2, <3>5, <3>7 DEF Total
  <2>2. CASE i \in F /\ i # k
    <3>1. used'[i][d] = 0
      BY <1>1, <2>2 DEF MergedUsed
    <3>2. \A x \in Session : Charges(row', i, d)[x] = 0
      BY <1>1, <1>2, <2>2 DEF Charges
    <3>3. Charges(row', i, d) \in [Session -> Int]
      BY ChargesType
    <3>4. Total(Charges(row', i, d)) = 0
      BY <3>2, <3>3, SessionsAreNumbered, SumZero DEF Total
    <3>5. QED
      BY <3>1, <3>4
  <2>3. CASE i \notin F /\ (i # k \/ F = {})
    <3>1. used'[i][d] = used[i][d]
      BY <1>1, <2>3 DEF MergedUsed
    <3>2. Charges(row', i, d) = Charges(row, i, d)
      BY <1>1, <1>2, <2>3 DEF Charges
    <3>3. QED
      BY <3>1, <3>2, ChargesAdded
  <2>4. QED
    BY <1>1, <2>1, <2>2, <2>3
<1>4. QED
  BY <1>3, ChargesAddedNext

-----------------------------------------------------------------------------
(* The usage is exact after every step.                                    *)

\* The inductive invariant behind ChargesExact: a refund takes the day from the intent
\* or the receipt, so both must be known to name the day of the charge.
ChargeInvariant == DeliveryInvariant /\ (\A s \in Session : Dated(s)) /\ ChargesExact

\* Recovery and expiry refund what was charged, where it was charged.
LEMMA ChargesRecovered ==
  ASSUME ChargeInvariant, row' \in [Session -> Row],
         NEW R \in SUBSET Session, \A x \in R : settlement[x].pending,
         NEW A \in SUBSET Session, RecoverAndExpire(R, A)
  PROVE  ChargesExact'
<1>1. TypeOK /\ ChargesExact /\ \A x \in Session : row[x] \in Row /\ Dated(x)
  BY DEF ChargeInvariant, DeliveryInvariant, LedgerInvariant, TypeOK
<1>2. \A x \in Charged(R) : IntentDay[x] = row[x].chargedOn
  BY <1>1 DEF Charged, IntentDay, Dated
<1>3. /\ used' = UsedAfterRefund(Charged(R), IntentDay)
      /\ \A x \in Session : row'[x] = IF x \in R THEN Refunded(row[x])
                                      ELSE IF x \in A THEN Expired(row[x]) ELSE row[x]
  BY DEF RecoverAndExpire, RowsAfter
<1>4. /\ \A x \in R : row'[x].actual = NoBytes
      /\ \A x \in Session \ R : /\ row'[x].identity = row[x].identity
                                /\ row'[x].chargedOn = row[x].chargedOn
                                /\ row'[x].actual = row[x].actual
  BY <1>1, <1>3, DeadRow
<1>5. QED
  BY <1>1, <1>2, <1>3, <1>4, ChargesRefunded

\* So does the worker, which takes the day from its receipt.
LEMMA ChargesCompensated ==
  ASSUME ChargeInvariant, row' \in [Session -> Row], NEW s \in Session,
         CompensateLateSettlement(s)
  PROVE  ChargesExact'
<1> DEFINE day == [r \in {s} |-> receipt[s].day]
           R == {s}
<1>1. TypeOK /\ ChargesExact /\ \A x \in Session : row[x] \in Row /\ Dated(x)
  BY DEF ChargeInvariant, DeliveryInvariant, LedgerInvariant, TypeOK
<1>2. /\ receipt[s].held /\ used' = UsedAfterRefund(Charged(R), day)
      /\ row' = [row EXCEPT ![s] = Refunded(row[s])]
  BY DEF CompensateLateSettlement
<1>3. \A x \in Charged(R) : day[x] = row[x].chargedOn
  BY <1>1, <1>2 DEF Charged, Dated
<1>4. /\ \A x \in R : row'[x].actual = NoBytes
      /\ \A x \in Session \ R : /\ row'[x].identity = row[x].identity
                                  /\ row'[x].chargedOn = row[x].chargedOn
                                  /\ row'[x].actual = row[x].actual
  BY <1>1, <1>2, DeadRow DEF TypeOK
<1>5. R \in SUBSET Session
  OBVIOUS
<1> HIDE DEF day, R
<1>6. QED
  BY <1>1, <1>2, <1>3, <1>4, <1>5, ChargesRefunded

\* A session's steps up to the end of its upload.
LEMMA ChargeSessionStep ==
  ASSUME ChargeInvariant, row' \in [Session -> Row], NEW s \in Session, SessionStep(s)
  PROVE  ChargesExact'
<1>0. /\ row \in [Session -> Row] /\ row[s] \in Row /\ TypeOK /\ ChargesExact /\ Dated(s)
  BY DEF ChargeInvariant, DeliveryInvariant, LedgerInvariant, TypeOK
<1>1. ASSUME NEW a \in Ip, NEW n \in 1 .. MaxFileBytes, NEW t \in Readings,
             Reserve(s, a, n, t)
      PROVE  ChargesExact'
  BY <1>0, <1>1, ChargesMerged
<1>2. ASSUME NEW t \in Readings, ClaimReceivingLease(s, t) \/ RenewReceivingLease(s, t)
      PROVE  ChargesExact'
  BY <1>0, <1>2, ChargesSame
     DEF ClaimReceivingLease, RenewReceivingLease, OnlyRowChanges, accountVars, Row
<1>3. ASSUME NEW n \in 1 .. MaxFileBytes, NEW t \in Readings, ExpandReceiving(s, n, t)
      PROVE  ChargesExact'
  BY <1>0, <1>3, ChargesSame DEF ExpandReceiving, Row
<1>4. ASSUME NEW target \in {"receiving", "probing", "queued"}, Advance(s, target)
      PROVE  ChargesExact'
  BY <1>0, <1>4, ChargesSame DEF Advance, OnlyRowChanges, accountVars, Row
<1>5. ASSUME Reject(s)
      PROVE  ChargesExact'
  BY <1>0, <1>5, ChargesSame DEF Reject, Row
<1>6. ASSUME Expire(s)
      PROVE  ChargesExact'
  <2>1. /\ used' = used /\ row' = [row EXCEPT ![s] = Expired(row[s])]
    BY <1>6 DEF Expire
  <2>2. \A x \in Session : /\ row'[x].identity = row[x].identity
                           /\ row'[x].chargedOn = row[x].chargedOn
                           /\ row'[x].actual = row[x].actual
    BY <1>0, <2>1, DeadRow
  <2>3. QED
    BY <1>0, <2>1, <2>2, ChargesSame
<1>7. QED
  BY <1>1, <1>2, <1>3, <1>4, <1>5, <1>6 DEF SessionStep

\* The steps of a settlement.
LEMMA ChargeSettlementStep ==
  ASSUME ChargeInvariant, row' \in [Session -> Row], NEW s \in Session, SettlementStep(s)
  PROVE  ChargesExact'
<1>0. TypeOK /\ ChargesExact /\ Dated(s)
  BY DEF ChargeInvariant, DeliveryInvariant, LedgerInvariant
<1>1. ASSUME NEW n \in 0 .. MaxFileBytes, NEW t \in Readings, Settle(s, n, t)
      PROVE  ChargesExact'
  BY <1>0, <1>1, ChargesSettled
<1>2. ASSUME CompensateLateSettlement(s) PROVE ChargesExact'
  BY <1>2, ChargesCompensated
<1>3. ASSUME NEW a \in Attempt, AbortDeliveryAttempt(s, a)
      PROVE  ChargesExact'
  <2>1. settlement[s].pending /\ RecoverAndExpire({s}, {})
    BY <1>3 DEF AbortDeliveryAttempt
  <2>2. QED
    BY <2>1, ChargesRecovered
<1>4. ASSUME used' = used, row' = row PROVE ChargesExact'
  BY <1>0, <1>4, ChargesSame
<1>5. QED
  BY <1>1, <1>2, <1>3, <1>4 DEF SettlementStep, DropReceipt, BeginDeliveryAttempt,
                                MarkDeliveryPossible, AcknowledgeSettlement, accountVars

\* Every step keeps the invariant.
LEMMA ChargeStep ==
  ASSUME ChargeInvariant, [Next]_vars
  PROVE  ChargeInvariant'
<1>1. DeliveryInvariant' /\ row' \in [Session -> Row]
  <2>1. DeliveryInvariant'
    BY DeliveryStep DEF ChargeInvariant
  <2>2. QED
    BY <2>1 DEF DeliveryInvariant, LedgerInvariant, TypeOK
<1>2. DeliveryInvariant /\ TypeOK /\ ChargesExact /\ \A x \in Session : Dated(x)
  BY DEF ChargeInvariant, DeliveryInvariant, LedgerInvariant
<1>3. ASSUME \A x \in Session : Follows(x) PROVE \A x \in Session : Dated(x)'
  BY <1>2, <1>3, FollowsIsDated
<1>4. ASSUME NEW s \in Session, SessionStep(s)
      PROVE  (\A x \in Session : Dated(x)') /\ ChargesExact'
  BY <1>1, <1>2, <1>3, <1>4, FollowsSessionStep, ChargeSessionStep
<1>5. ASSUME NEW s \in Session, SettlementStep(s)
      PROVE  (\A x \in Session : Dated(x)') /\ ChargesExact'
  <2>1. ASSUME NEW n \in 0 .. MaxFileBytes, NEW t \in Readings, Settle(s, n, t)
        PROVE  \A x \in Session : Dated(x)'
    BY <1>2, <2>1, DatedSettle
  <2>2. ASSUME ~\E n \in 0 .. MaxFileBytes, t \in Readings : Settle(s, n, t)
        PROVE  \A x \in Session : Dated(x)'
    <3>1. \A x \in Session : Follows(x)
      BY <1>2, <1>5, <2>2, FollowsSettlementStep DEF SettlementStep
    <3>2. QED
      BY <1>3, <3>1
  <2>3. QED
    BY <1>1, <1>5, <2>1, <2>2, ChargeSettlementStep
<1>6. ASSUME NEW R \in SUBSET Session, \A x \in R : settlement[x].pending,
             NEW A \in SUBSET Session, RecoverAndExpire(R, A), receipt' = receipt
      PROVE  (\A x \in Session : Dated(x)') /\ ChargesExact'
  BY <1>1, <1>2, <1>3, <1>6, FollowsRecovery, ChargesRecovered
<1>7. ASSUME NEW t \in Readings, NEW X \in SUBSET Session, Reconcile(t, X)
      PROVE  (\A x \in Session : Dated(x)') /\ ChargesExact'
  <2>1. /\ Unmarked(Batch(t)) \in SUBSET Session /\ Abandoned(t) \ X \in SUBSET Session
        /\ \A x \in Unmarked(Batch(t)) : settlement[x].pending
    BY DEF Unmarked, Batch, Abandoned
  <2>2. RecoverAndExpire(Unmarked(Batch(t)), Abandoned(t) \ X) /\ receipt' = receipt
    BY <1>7 DEF Reconcile, workerVars
  <2>3. QED
    BY <1>6, <2>1, <2>2
<1>8. ASSUME NEW ks \in SUBSET Key, OpenLedger(ks)
      PROVE  (\A x \in Session : Dated(x)') /\ ChargesExact'
  <2>1. /\ Unmarked(Pending) \in SUBSET Session /\ Abandoned(now) \in SUBSET Session
        /\ \A x \in Unmarked(Pending) : settlement[x].pending
    BY DEF Unmarked, Pending, Abandoned
  <2>2. RecoverAndExpire(Unmarked(Pending), Abandoned(now)) /\ receipt' = receipt
    BY <1>8 DEF OpenLedger, workerVars
  <2>3. QED
    BY <1>6, <2>1, <2>2
<1>9. ASSUME used' = used, row' = row, settlement' = settlement,
             receipt' \in {receipt, [s \in Session |-> NoReceipt]}
      PROVE  (\A x \in Session : Dated(x)') /\ ChargesExact'
  <2>1. \A x \in Session : Follows(x)
    BY <1>9 DEF Follows, NoReceipt
  <2>2. QED
    BY <1>2, <1>3, <1>9, <2>1, ChargesSame
<1>10. ASSUME \/ \E s \in Session : CleanUp(s) \/ CrashAfterUnlink(s)
              \/ Crash \/ FinishOpen \/ Tick \/ UNCHANGED vars
       PROVE  (\A x \in Session : Dated(x)') /\ ChargesExact'
  <2>1. /\ used' = used /\ row' = row /\ settlement' = settlement
        /\ receipt' \in {receipt, [s \in Session |-> NoReceipt]}
    BY <1>10 DEF CleanUp, CrashAfterUnlink, Crash, Stop, FinishOpen, Tick, vars, accountVars,
                 workerVars
  <2>2. QED
    BY <1>9, <2>1
<1>11. (\A x \in Session : Dated(x)') /\ ChargesExact'
  <2>1. CASE MaintenanceStep
    BY <1>7, <1>10, <2>1 DEF MaintenanceStep
  <2>2. CASE ProcessStep
    BY <1>8, <1>10, <2>2 DEF ProcessStep
  <2>3. QED
    BY <1>4, <1>5, <1>10, <2>1, <2>2 DEF Next
<1>12. QED
  BY <1>1, <1>11 DEF ChargeInvariant

\* An empty ledger has charged nobody.
LEMMA ChargeInit == Init => ChargeInvariant
<1> SUFFICES ASSUME Init PROVE ChargeInvariant
  OBVIOUS
<1>1. DeliveryInvariant
  BY DeliveryInit
<1>2. \A s \in Session : Dated(s)
  BY DEF Init, Dated, NoRow, NoIntent, NoReceipt
<1>3. ASSUME NEW i \in Identity, NEW d \in Day PROVE used[i][d] = Total(Charges(row, i, d))
  <2>1. \A s \in Session : Charges(row, i, d)[s] = 0
    BY DEF Init, Charges, NoRow
  <2>2. Charges(row, i, d) \in [Session -> Int]
    BY <1>1, ChargesType DEF DeliveryInvariant, LedgerInvariant, TypeOK
  <2>3. Total(Charges(row, i, d)) = 0
    BY <2>1, <2>2, SessionsAreNumbered, SumZero DEF Total
  <2>4. QED
    BY <2>3 DEF Init
<1>4. QED
  BY <1>1, <1>2, <1>3, ChargesAdded DEF ChargeInvariant

\* The invariant holds in every reachable state.
THEOREM ChargeInvariantHolds == Spec => []ChargeInvariant
BY ChargeInit, ChargeStep, PTL DEF Spec

\* Through merges of identities, midnights, refunds by four different callers and
\* crashes, the daily usage is what the uploads were charged and not refunded.
THEOREM ChargesAreExact == Spec => []ChargesExact
<1>1. ChargeInvariant => ChargesExact
  BY DEF ChargeInvariant
<1>2. QED
  BY <1>1, ChargeInvariantHolds, PTL

-----------------------------------------------------------------------------
(* An intent is resolved once, and an acknowledged upload stays charged.   *)

\* Session x keeps its charge when it has one that no intent covers any more.
KeepsFinal(x) ==
  row[x].actual # NoBytes /\ ~settlement[x].pending =>
    /\ row'[x].actual = row[x].actual
    /\ row'[x].chargedOn = row[x].chargedOn

\* The intent of session x, if it goes, goes the one way or the other.
ResolvesOnce(x) ==
  settlement[x].pending /\ ~settlement'[x].pending =>
    \/ /\ row'[x].actual = NoBytes /\ row'[x].state = "expired"
       /\ Marked(x) => \E a \in Attempt : AbortDeliveryAttempt(x, a)
    \/ Marked(x) /\ row'[x].actual = settlement[x].bytes

\* A session's steps up to the end of its upload touch no charge and no intent.
LEMMA OutcomeSessionStep ==
  ASSUME ChargeInvariant, NEW s \in Session, SessionStep(s)
  PROVE  \A x \in Session : KeepsFinal(x) /\ ResolvesOnce(x)
<1>0. /\ row \in [Session -> Row] /\ TypeOK /\ Dated(s)
      /\ \A x \in Session : row[x] \in Row
  BY DEF ChargeInvariant, DeliveryInvariant, LedgerInvariant, TypeOK
<1>1. settlement' = settlement
  BY DEF SessionStep, Reserve, ClaimReceivingLease, RenewReceivingLease, OnlyRowChanges,
         ExpandReceiving, Advance, Reject, Expire
<1>2. ASSUME NEW x \in Session, row[x].actual # NoBytes
      PROVE  row'[x].actual = row[x].actual /\ row'[x].chargedOn = row[x].chargedOn
  <2>1. ASSUME NEW a \in Ip, NEW n \in 1 .. MaxFileBytes, NEW t \in Readings,
               Reserve(s, a, n, t)
        PROVE  row'[x].actual = row[x].actual /\ row'[x].chargedOn = row[x].chargedOn
    <3>1. x # s
      BY <1>0, <1>2, <2>1 DEF Reserve, NextSession, Dated
    <3>2. QED
      BY <1>0, <2>1, <3>1, ReservedRows
  <2>2. CASE \E t \in Readings : ClaimReceivingLease(s, t) \/ RenewReceivingLease(s, t)
    BY <1>0, <2>2 DEF ClaimReceivingLease, RenewReceivingLease, Row
  <2>3. CASE \E n \in 1 .. MaxFileBytes, t \in Readings : ExpandReceiving(s, n, t)
    BY <1>0, <2>3 DEF ExpandReceiving, Row
  <2>4. CASE \E target \in {"receiving", "probing", "queued"} : Advance(s, target)
    BY <1>0, <2>4 DEF Advance, Row
  <2>5. CASE Reject(s)
    BY <1>0, <2>5 DEF Reject, Row
  <2>6. CASE Expire(s)
    <3>1. row' = [row EXCEPT ![s] = Expired(row[s])]
      BY <2>6 DEF Expire
    <3>2. QED
      BY <1>0, <3>1, DeadRow
  <2>7. QED
    BY <2>1, <2>2, <2>3, <2>4, <2>5, <2>6 DEF SessionStep
<1>3. QED
  BY <1>1, <1>2 DEF KeepsFinal, ResolvesOnce

\* Recovery and expiry take charges away together with their intents, and expiry alone
\* takes away neither.
LEMMA OutcomeRecovery ==
  ASSUME TypeOK, NEW R \in SUBSET Session, \A x \in R : settlement[x].pending,
         NEW A \in SUBSET Session, RecoverAndExpire(R, A)
  PROVE  \A x \in Session :
           /\ KeepsFinal(x)
           /\ settlement[x].pending /\ ~settlement'[x].pending =>
                x \in R /\ row'[x].actual = NoBytes /\ row'[x].state = "expired"
<1> SUFFICES ASSUME NEW x \in Session
             PROVE  /\ KeepsFinal(x)
                    /\ settlement[x].pending /\ ~settlement'[x].pending =>
                         x \in R /\ row'[x].actual = NoBytes /\ row'[x].state = "expired"
  OBVIOUS
<1>1. row[x] \in Row
  BY DEF TypeOK
<1>2. /\ row'[x] = IF x \in R THEN Refunded(row[x])
                   ELSE IF x \in A THEN Expired(row[x]) ELSE row[x]
      /\ x \notin R => settlement'[x] = settlement[x]
  BY DEF RecoverAndExpire, RowsAfter
<1>3. QED
  BY <1>1, <1>2, DeadRow DEF KeepsFinal

\* The steps of a settlement.
LEMMA OutcomeSettlementStep ==
  ASSUME ChargeInvariant, NEW s \in Session, SettlementStep(s)
  PROVE  \A x \in Session : KeepsFinal(x) /\ ResolvesOnce(x)
<1>0. /\ row \in [Session -> Row] /\ settlement \in [Session -> Intent] /\ TypeOK
      /\ row[s] \in Row /\ Dated(s) /\ Kept(s)
  BY DEF ChargeInvariant, DeliveryInvariant, LedgerInvariant, TypeOK
<1>1. ASSUME NEW n \in 0 .. MaxFileBytes, NEW t \in Readings, Settle(s, n, t)
      PROVE  \A x \in Session : KeepsFinal(x) /\ ResolvesOnce(x)
  <2>1. /\ row[s].actual = NoBytes /\ settlement'[s].pending
        /\ \A x \in Session : x # s => row'[x] = row[x] /\ settlement'[x] = settlement[x]
    BY <1>0, <1>1 DEF Settle, Dated, Reserving
  <2>2. QED
    BY <2>1 DEF KeepsFinal, ResolvesOnce
<1>2. ASSUME CompensateLateSettlement(s)
      PROVE  \A x \in Session : KeepsFinal(x) /\ ResolvesOnce(x)
  <2>1. /\ row' = [row EXCEPT ![s] = Refunded(row[s])] /\ receipt[s].held
        /\ settlement' = [settlement EXCEPT ![s] = NoIntent] /\ ~Marked(s)
    BY <1>2 DEF CompensateLateSettlement
  <2>2. /\ row'[s].actual = NoBytes /\ row'[s].state = "expired"
        /\ \A x \in Session : x # s => row'[x] = row[x] /\ settlement'[x] = settlement[x]
    BY <1>0, <2>1, DeadRow
  <2>3. row[s].actual # NoBytes => settlement[s].pending
    BY <1>0, <2>1 DEF Dated
  <2>4. QED
    BY <2>1, <2>2, <2>3 DEF KeepsFinal, ResolvesOnce
<1>3. ASSUME NEW a \in Attempt, AbortDeliveryAttempt(s, a)
      PROVE  \A x \in Session : KeepsFinal(x) /\ ResolvesOnce(x)
  <2> DEFINE R == {s}
  <2>1. R \in SUBSET Session /\ {} \in SUBSET Session /\ RecoverAndExpire(R, {})
        /\ \A x \in R : settlement[x].pending
    BY <1>3 DEF AbortDeliveryAttempt
  <2>2. \A x \in R : x = s
    OBVIOUS
  <2> HIDE DEF R
  <2>3. QED
    BY <1>0, <1>3, <2>1, <2>2, OutcomeRecovery DEF ResolvesOnce
<1>4. ASSUME AcknowledgeSettlement(s)
      PROVE  \A x \in Session : KeepsFinal(x) /\ ResolvesOnce(x)
  <2>1. /\ row' = row /\ Marked(s)
        /\ \A x \in Session : x # s => settlement'[x] = settlement[x]
    BY <1>0, <1>4 DEF AcknowledgeSettlement
  <2>2. row[s].actual = settlement[s].bytes
    BY <1>0, <2>1 DEF Kept, Marked, Consistent
  <2>3. QED
    BY <2>1, <2>2 DEF KeepsFinal, ResolvesOnce
<1>5. ASSUME NEW a \in Attempt,
             DropReceipt(s) \/ BeginDeliveryAttempt(s, a) \/ MarkDeliveryPossible(s, a)
      PROVE  \A x \in Session : KeepsFinal(x) /\ ResolvesOnce(x)
  <2>1. row' = row /\ \A x \in Session : settlement'[x].pending = settlement[x].pending
    BY <1>0, <1>5 DEF DropReceipt, BeginDeliveryAttempt, MarkDeliveryPossible, Intent
  <2>2. QED
    BY <2>1 DEF KeepsFinal, ResolvesOnce
<1>6. CASE DropReceipt(s)
  <2>1. row' = row /\ settlement' = settlement
    BY <1>6 DEF DropReceipt
  <2>2. QED
    BY <2>1 DEF KeepsFinal, ResolvesOnce
<1>7. QED
  BY <1>1, <1>2, <1>3, <1>4, <1>5, <1>6 DEF SettlementStep

\* Every step.
LEMMA OutcomeStep ==
  ASSUME ChargeInvariant, [Next]_vars
  PROVE  \A x \in Session : KeepsFinal(x) /\ ResolvesOnce(x)
<1>0. TypeOK
  BY DEF ChargeInvariant, DeliveryInvariant, LedgerInvariant
<1>1. ASSUME NEW B \in SUBSET Session, \A x \in B : settlement[x].pending,
             NEW A \in SUBSET Session, RecoverAndExpire(Unmarked(B), A)
      PROVE  \A x \in Session : KeepsFinal(x) /\ ResolvesOnce(x)
  <2> DEFINE R == Unmarked(B)
  <2>1. /\ R \in SUBSET Session /\ \A x \in R : settlement[x].pending /\ ~Marked(x)
        /\ RecoverAndExpire(R, A)
    BY <1>1 DEF Unmarked, Marked
  <2> HIDE DEF R
  <2>2. QED
    BY <1>0, <2>1, OutcomeRecovery DEF ResolvesOnce
<1>2. ASSUME NEW t \in Readings, NEW X \in SUBSET Session, Reconcile(t, X)
      PROVE  \A x \in Session : KeepsFinal(x) /\ ResolvesOnce(x)
  <2>1. /\ Batch(t) \in SUBSET Session /\ \A x \in Batch(t) : settlement[x].pending
        /\ Abandoned(t) \ X \in SUBSET Session
        /\ RecoverAndExpire(Unmarked(Batch(t)), Abandoned(t) \ X)
    BY <1>2 DEF Batch, Abandoned, Reconcile
  <2>2. QED
    BY <1>1, <2>1
<1>3. ASSUME NEW ks \in SUBSET Key, OpenLedger(ks)
      PROVE  \A x \in Session : KeepsFinal(x) /\ ResolvesOnce(x)
  <2>1. /\ Pending \in SUBSET Session /\ \A x \in Pending : settlement[x].pending
        /\ Abandoned(now) \in SUBSET Session
        /\ RecoverAndExpire(Unmarked(Pending), Abandoned(now))
    BY <1>3 DEF Pending, Abandoned, OpenLedger
  <2>2. QED
    BY <1>1, <2>1
<1>4. ASSUME \/ \E s \in Session : CleanUp(s) \/ CrashAfterUnlink(s)
             \/ Crash \/ FinishOpen \/ Tick \/ UNCHANGED vars
      PROVE  \A x \in Session : KeepsFinal(x) /\ ResolvesOnce(x)
  <2>1. row' = row /\ settlement' = settlement
    BY <1>4 DEF CleanUp, CrashAfterUnlink, Crash, Stop, FinishOpen, Tick, vars
  <2>2. QED
    BY <2>1 DEF KeepsFinal, ResolvesOnce
<1>5. CASE MaintenanceStep
  BY <1>2, <1>4, <1>5 DEF MaintenanceStep
<1>6. CASE ProcessStep
  BY <1>3, <1>4, <1>6 DEF ProcessStep
<1>7. CASE \E s \in Session : SessionStep(s) \/ SettlementStep(s)
  BY <1>7, OutcomeSessionStep, OutcomeSettlementStep
<1>8. QED
  BY <1>4, <1>5, <1>6, <1>7 DEF Next

\* A settlement leaves the outbox refunded, or delivered and charged, and a marked one
\* is refunded by the abort of the attempt that marked it and by nobody else.
THEOREM IntentsAreResolvedOnce == Spec => IntentIsResolvedOnce
<1>1. ASSUME ChargeInvariant, [Next]_vars PROVE \A s \in Session : ResolvesOnce(s)
  BY <1>1, OutcomeStep
<1>2. QED
  BY <1>1, ChargeInvariantHolds, PTL DEF Spec, IntentIsResolvedOnce, ResolvesOnce

\* No late compensation, abort, recovery or expiry refunds an acknowledged upload.
THEOREM AcknowledgedUploadsAreFinal == Spec => AcknowledgedIsFinal
<1>1. ASSUME ChargeInvariant, [Next]_vars PROVE \A s \in Session : KeepsFinal(s)
  BY <1>1, OutcomeStep
<1>2. QED
  BY <1>1, ChargeInvariantHolds, PTL DEF Spec, AcknowledgedIsFinal, KeepsFinal

-----------------------------------------------------------------------------
(* What every step does to the accounts, in four kinds.                    *)

\* No session starts, moves or grows; one that is charged stays as it is or is refunded.
Shrinks ==
  \A x \in Session :
    /\ Active(row', x) => /\ Active(row, x) /\ row'[x].identity = row[x].identity
                          /\ row'[x].reserved = row[x].reserved
    /\ row'[x].actual # NoBytes => /\ row'[x].actual = row[x].actual
                                   /\ row'[x].identity = row[x].identity
                                   /\ row'[x].chargedOn = row[x].chargedOn

\* The sessions R are refunded where they were charged.
Refunds(R, day) ==
  /\ \A x \in Charged(R) : day[x] = row[x].chargedOn
  /\ used' = UsedAfterRefund(Charged(R), day)
  /\ usageRows' = RowsAfterRefund(Charged(R), day)

\* Nobody is charged or refunded; time may pass.
Idles == /\ Shrinks /\ UNCHANGED <<used, usageRows, hashOwner>>
         /\ \/ now' = now
            \/ now' = now + 1 /\ UNCHANGED <<row, settlement, keys>>

\* Sessions are refunded, others may end.
Repays == /\ Shrinks /\ UNCHANGED <<now, hashOwner>>
          /\ \E R \in SUBSET Session : \E day : Refunds(R, day)

\* What recovery and expiry are to the accounts.
LEMMA RecoveryRepays ==
  ASSUME ChargeInvariant, NEW R \in SUBSET Session, \A x \in R : settlement[x].pending,
         NEW A \in SUBSET Session, RecoverAndExpire(R, A)
  PROVE  Shrinks /\ Refunds(R, IntentDay)
<1>1. \A x \in Session : row[x] \in Row /\ Dated(x)
  BY DEF ChargeInvariant, DeliveryInvariant, LedgerInvariant, TypeOK
<1>2. \A x \in Session : row'[x] = IF x \in R THEN Refunded(row[x])
                                   ELSE IF x \in A THEN Expired(row[x]) ELSE row[x]
  BY DEF RecoverAndExpire, RowsAfter
<1>3. Shrinks
  BY <1>1, <1>2, DeadRow DEF Shrinks, Active, Reserving
<1>4. \A x \in Charged(R) : IntentDay[x] = row[x].chargedOn
  BY <1>1 DEF Charged, IntentDay, Dated
<1>5. QED
  BY <1>3, <1>4 DEF Refunds, RecoverAndExpire

\* The steps of a session other than opening and expanding it.
LEMMA SessionIdles ==
  ASSUME ChargeInvariant, NEW s \in Session,
         \/ \E t \in Readings : ClaimReceivingLease(s, t) \/ RenewReceivingLease(s, t)
         \/ \E target \in {"receiving", "probing", "queued"} : Advance(s, target)
         \/ Reject(s)
         \/ Expire(s)
  PROVE  Idles
<1>0. row \in [Session -> Row] /\ row[s] \in Row
  BY DEF ChargeInvariant, DeliveryInvariant, LedgerInvariant, TypeOK
<1>1. CASE \E t \in Readings : ClaimReceivingLease(s, t) \/ RenewReceivingLease(s, t)
  BY <1>0, <1>1 DEF ClaimReceivingLease, RenewReceivingLease, OnlyRowChanges, accountVars,
                    clockVars, aliasVars, Row, Active, Reserving, Idles, Shrinks
<1>2. CASE \E target \in {"receiving", "probing", "queued"} : Advance(s, target)
  BY <1>0, <1>2 DEF Advance, OnlyRowChanges, accountVars, clockVars, aliasVars, Row, Active,
                    Reserving, Idles, Shrinks
<1>3. CASE Reject(s)
  BY <1>0, <1>3 DEF Reject, clockVars, aliasVars, Row, Active, Reserving, Idles, Shrinks
<1>4. CASE Expire(s)
  <2>1. row' = [row EXCEPT ![s] = Expired(row[s])] /\ UNCHANGED <<used, usageRows, hashOwner, now>>
    BY <1>4 DEF Expire, clockVars, aliasVars
  <2>2. Shrinks
    BY <1>0, <2>1, DeadRow DEF Active, Reserving, Shrinks
  <2>3. QED
    BY <2>1, <2>2 DEF Idles
<1>5. QED
  BY <1>1, <1>2, <1>3, <1>4

\* The steps of a settlement other than making it.
LEMMA SettlementRepays ==
  ASSUME ChargeInvariant, NEW s \in Session, SettlementStep(s)
  PROVE  \/ \E n \in 0 .. MaxFileBytes, t \in Readings : Settle(s, n, t)
         \/ Idles \/ Repays
<1>0. row \in [Session -> Row] /\ row[s] \in Row /\ Dated(s)
  BY DEF ChargeInvariant, DeliveryInvariant, LedgerInvariant, TypeOK
<1>1. CASE CompensateLateSettlement(s)
  <2> DEFINE R == {s}
             day == [r \in {s} |-> receipt[s].day]
  <2>1. /\ row' = [row EXCEPT ![s] = Refunded(row[s])] /\ receipt[s].held
        /\ used' = UsedAfterRefund(Charged(R), day)
        /\ usageRows' = RowsAfterRefund(Charged(R), day) /\ UNCHANGED <<now, hashOwner>>
    BY <1>1 DEF CompensateLateSettlement, clockVars, aliasVars
  <2>2. Shrinks
    BY <1>0, <2>1, DeadRow DEF Shrinks, Active, Reserving
  <2>3. \A x \in Charged(R) : day[x] = row[x].chargedOn
    BY <1>0, <2>1 DEF Charged, Dated
  <2>4. R \in SUBSET Session
    OBVIOUS
  <2> HIDE DEF R, day
  <2>5. QED
    BY <2>1, <2>2, <2>3, <2>4 DEF Repays, Refunds
<1>2. ASSUME NEW a \in Attempt, AbortDeliveryAttempt(s, a) PROVE Repays
  <2> DEFINE R == {s}
  <2>1. /\ R \in SUBSET Session /\ {} \in SUBSET Session /\ \A x \in R : settlement[x].pending
        /\ RecoverAndExpire(R, {}) /\ UNCHANGED <<now, hashOwner>>
    BY <1>2 DEF AbortDeliveryAttempt, clockVars, aliasVars
  <2> HIDE DEF R
  <2>2. QED
    BY <2>1, RecoveryRepays DEF Repays
<1>3. ASSUME UNCHANGED <<row, used, usageRows, now, hashOwner>> PROVE Idles
  BY <1>3 DEF Idles, Shrinks, Active
<1>4. CASE DropReceipt(s) \/ AcknowledgeSettlement(s)
            \/ \E a \in Attempt : BeginDeliveryAttempt(s, a) \/ MarkDeliveryPossible(s, a)
  BY <1>3, <1>4 DEF DropReceipt, AcknowledgeSettlement, BeginDeliveryAttempt,
                    MarkDeliveryPossible, clockVars, aliasVars, accountVars
<1>5. QED
  BY <1>1, <1>2, <1>4 DEF SettlementStep, Repays

\* To the accounts every step is one of five.
LEMMA StepKinds ==
  ASSUME ChargeInvariant, [Next]_vars
  PROVE  \/ \E s \in Session, a \in Ip, n \in 1 .. MaxFileBytes, t \in Readings :
              Reserve(s, a, n, t)
         \/ \E s \in Session, n \in 1 .. MaxFileBytes, t \in Readings : ExpandReceiving(s, n, t)
         \/ \E s \in Session, n \in 0 .. MaxFileBytes, t \in Readings : Settle(s, n, t)
         \/ Idles
         \/ Repays
<1>1. CASE \E s \in Session : SessionStep(s)
  BY <1>1, SessionIdles DEF SessionStep
<1>2. CASE \E s \in Session : SettlementStep(s)
  BY <1>2, SettlementRepays
<1>3. ASSUME NEW t \in Readings, NEW X \in SUBSET Session, Reconcile(t, X)
      PROVE  Repays
  <2> DEFINE R == Unmarked(Batch(t))
             A == Abandoned(t) \ X
  <2>1. /\ R \in SUBSET Session /\ A \in SUBSET Session /\ \A x \in R : settlement[x].pending
        /\ RecoverAndExpire(R, A) /\ UNCHANGED <<now, hashOwner>>
    BY <1>3 DEF Unmarked, Batch, Abandoned, Reconcile, clockVars, aliasVars
  <2> HIDE DEF R, A
  <2>2. QED
    BY <2>1, RecoveryRepays DEF Repays
<1>4. ASSUME NEW ks \in SUBSET Key, OpenLedger(ks)
      PROVE  Repays
  <2> DEFINE R == Unmarked(Pending)
             A == Abandoned(now)
  <2>1. /\ R \in SUBSET Session /\ A \in SUBSET Session /\ \A x \in R : settlement[x].pending
        /\ RecoverAndExpire(R, A) /\ UNCHANGED <<now, hashOwner>>
    BY <1>4 DEF Unmarked, Pending, Abandoned, OpenLedger, clockVars, aliasVars
  <2> HIDE DEF R, A
  <2>2. QED
    BY <2>1, RecoveryRepays DEF Repays
<1>5. ASSUME UNCHANGED <<row, used, usageRows, hashOwner>>,
             now' = now \/ (now' = now + 1 /\ UNCHANGED <<settlement, keys>>)
      PROVE  Idles
  BY <1>5 DEF Idles, Shrinks, Active
<1>6. ASSUME \/ \E s \in Session : CleanUp(s) \/ CrashAfterUnlink(s)
             \/ Crash \/ FinishOpen \/ Tick \/ UNCHANGED vars
      PROVE  Idles
  BY <1>5, <1>6 DEF CleanUp, CrashAfterUnlink, Crash, Stop, FinishOpen, Tick, vars, clockVars,
                    aliasVars, accountVars, processVars
<1>7. CASE MaintenanceStep
  BY <1>3, <1>6, <1>7 DEF MaintenanceStep
<1>8. CASE ProcessStep
  BY <1>4, <1>6, <1>8 DEF ProcessStep
<1>9. QED
  BY <1>1, <1>2, <1>6, <1>7, <1>8 DEF Next

-----------------------------------------------------------------------------
(* Recovery never underflows.                                              *)

\* A charge is of at least one byte and has its row in daily_usage.
Booked(s) == row[s].actual # NoBytes =>
               row[s].actual >= 1 /\ <<row[s].identity, row[s].chargedOn>> \in usageRows

\* The sum a charge is a part of is not smaller than the charge.
LEMMA ChargeCovered ==
  ASSUME TypeOK, ChargesExact, NEW s \in Session, row[s].actual # NoBytes,
         row[s].identity \in Identity
  PROVE  /\ used[row[s].identity][row[s].chargedOn] \in Nat
         /\ row[s].actual <= used[row[s].identity][row[s].chargedOn]
<1> DEFINE i == row[s].identity
           d == row[s].chargedOn
           f == Charges(row, i, d)
<1>1. row \in [Session -> Row] /\ row[s] \in Row /\ d \in Day /\ used[i][d] \in Nat
  BY DEF TypeOK, Row
<1>2. f \in [Session -> Nat] /\ f[s] = row[s].actual
  BY <1>1, ChargesType DEF Charges
<1>3. used[i][d] = SumFunctionOnSet(f, Session)
  BY <1>1, ChargesAdded DEF Total
<1>4. IsFiniteSet(Session)
  BY SessionsAreNumbered
<1> HIDE DEF f
<1>5. QED
  BY <1>1, <1>2, <1>3, <1>4, SumCovers

\* So a refund keeps the row of daily_usage that another charge stands in.
LEMMA RefundKeepsBooks ==
  ASSUME TypeOK', ChargesExact', ChargeInvariant, NEW s \in Session, Booked(s), Repays,
         row'[s].identity \in Identity
  PROVE  Booked(s)'
<1>1. CASE row'[s].actual = NoBytes
  BY <1>1 DEF Booked
<1>2. CASE row'[s].actual # NoBytes
  <2> DEFINE p == <<row[s].identity, row[s].chargedOn>>
  <2>1. /\ row'[s].actual = row[s].actual /\ row'[s].identity = row[s].identity
        /\ row'[s].chargedOn = row[s].chargedOn
    BY <1>2 DEF Repays, Shrinks
  <2>2. row[s].actual >= 1 /\ p \in usageRows
    BY <1>2, <2>1 DEF Booked
  <2>3. PICK R, day : Refunds(R, day)
    BY DEF Repays
  <2>4. row[s].actual <= used'[p[1]][p[2]] /\ used'[p[1]][p[2]] \in Nat
    <3>1. /\ row'[s].actual <= used'[row'[s].identity][row'[s].chargedOn]
          /\ used'[row'[s].identity][row'[s].chargedOn] \in Nat
      <4> DEFINE i == row'[s].identity
                 d == row'[s].chargedOn
                 f == Charges(row', i, d)
      <4>1. row' \in [Session -> Row] /\ row'[s] \in Row /\ d \in Day /\ used'[i][d] \in Nat
        BY DEF TypeOK, Row
      <4>2. f \in [Session -> Nat] /\ f[s] = row'[s].actual
        BY <1>2, <4>1, ChargesType DEF Charges
      <4>3. used'[i][d] = SumFunctionOnSet(f, Session)
        BY <4>1, ChargesAddedNext DEF Total
      <4>4. IsFiniteSet(Session)
        BY SessionsAreNumbered
      <4> HIDE DEF f
      <4>5. QED
        BY <4>1, <4>2, <4>3, <4>4, SumCovers
    <3>2. QED
      BY <2>1, <3>1
  <2>5. row[s].actual \in Int
    BY <1>2, <2>1 DEF ChargeInvariant, DeliveryInvariant, LedgerInvariant, TypeOK, Row, NoBytes
  <2>6. used'[p[1]][p[2]] # 0
    BY <2>2, <2>4, <2>5
  <2>7. used' = UsedAfterRefund(Charged(R), day) /\ usageRows' = RowsAfterRefund(Charged(R), day)
    BY <2>3 DEF Refunds
  <2> HIDE DEF p
  <2>8. UsedAfterRefund(Charged(R), day)[p[1]][p[2]] # 0
    BY <2>6, <2>7
  <2>9. p \in usageRows'
    BY <2>2, <2>7, <2>8 DEF RowsAfterRefund
  <2>10. QED
    BY <2>1, <2>2, <2>9 DEF Booked, p
<1>3. QED
  BY <1>1, <1>2

\* Every step books what it charges.
LEMMA BookedStep ==
  ASSUME MinUploadBytes >= 1, ChargeInvariant, ChargeInvariant',
         \A x \in Session : Booked(x), [Next]_vars
  PROVE  \A x \in Session : Booked(x)'
<1> SUFFICES ASSUME NEW x \in Session PROVE Booked(x)'
  OBVIOUS
<1>0. /\ TypeOK /\ row \in [Session -> Row] /\ Dated(x) /\ Booked(x) /\ ChargesExact' /\ TypeOK'
      /\ row[x] \in Row /\ Shape'
  BY DEF ChargeInvariant, DeliveryInvariant, LedgerInvariant, TypeOK
<1>1. ASSUME NEW s \in Session, NEW a \in Ip, NEW n \in 1 .. MaxFileBytes, NEW t \in Readings,
             Reserve(s, a, n, t)
      PROVE  Booked(x)'
  <2> DEFINE F == Found(a)
             k == Resolved(a)
  <2>1. usageRows' = MergedUsageRows(F, k)
    BY <1>1 DEF Reserve
  <2>2. x = s => row'[x].actual = NoBytes
    BY <1>1, <1>0, ReservedRows
  <2>3. x # s => /\ row'[x].identity = IF row[x].identity \in F THEN k ELSE row[x].identity
                 /\ row'[x].chargedOn = row[x].chargedOn /\ row'[x].actual = row[x].actual
    BY <1>1, <1>0, ReservedRows
  <2>4. row[x].chargedOn \in Day
    BY <1>0 DEF Row
  <2> HIDE DEF F, k
  <2>5. QED
    BY <1>0, <2>1, <2>2, <2>3, <2>4 DEF Booked, MergedUsageRows
<1>2. ASSUME NEW s \in Session, NEW n \in 1 .. MaxFileBytes, NEW t \in Readings,
             ExpandReceiving(s, n, t)
      PROVE  Booked(x)'
  BY <1>0, <1>2 DEF ExpandReceiving, Booked, Row
<1>3. ASSUME NEW s \in Session, NEW n \in 0 .. MaxFileBytes, NEW t \in Readings,
             Settle(s, n, t)
      PROVE  Booked(x)'
  <2> DEFINE new == [row[s] EXCEPT !.state = "uploaded", !.reserved = 0, !.actual = n,
                                   !.chargedOn = DayOf(t), !.lease = 0]
  <2>1. new.actual = n /\ new.chargedOn = DayOf(t) /\ new.identity = row[s].identity
    BY <1>0 DEF Row, TypeOK
  <2>2. /\ row' = [row EXCEPT ![s] = new]
        /\ usageRows' = usageRows \cup {<<row[s].identity, DayOf(t)>>}
        /\ n >= MinUploadBytes
    BY <1>3 DEF Settle
  <2>3. n >= 1
    BY <2>2, LimitsAreNumbers
  <2> HIDE DEF new
  <2>4. QED
    BY <1>0, <2>1, <2>2, <2>3 DEF Booked
<1>4. CASE Idles
  BY <1>0, <1>4 DEF Idles, Shrinks, Booked
<1>5. CASE Repays
  <2>1. row'[x].actual # NoBytes => row'[x].identity \in Identity
    BY <1>0 DEF Shape, ChargeInvariant, Dated
  <2>2. QED
    BY <1>0, <1>5, <2>1, RefundKeepsBooks DEF Booked
<1>6. QED
  BY <1>1, <1>2, <1>3, <1>4, <1>5, StepKinds

\* What is booked can be refunded, session by session: the row lasts until its turn.
LEMMA BookedRefundable ==
  ASSUME ChargeInvariant, \A x \in Session : Booked(x),
         NEW R \in SUBSET Session, NEW day,
         \A x \in R : row[x].actual # NoBytes /\ day[x] = row[x].chargedOn
  PROVE  Refundable(R, day)
<1>0. /\ TypeOK /\ ChargesExact /\ IsFiniteSet(Session) /\ row \in [Session -> Row]
      /\ \A x \in Session : row[x] \in Row /\ Dated(x)
  BY SessionsAreNumbered DEF ChargeInvariant, DeliveryInvariant, LedgerInvariant, TypeOK
<1> SUFFICES ASSUME NEW s \in R
             PROVE  LET i == row[s].identity
                        bills == Billed(R, day, i, day[s])
                        before == {r \in bills : Earlier(r, s)}
                    IN /\ <<i, day[s]>> \in usageRows
                       /\ before # {} => used[i][day[s]] > Bill(before)
                       /\ used[i][day[s]] >= Bill(bills)
  BY DEF Refundable
<1> DEFINE i == row[s].identity
           d == row[s].chargedOn
           bills == Billed(R, day, i, day[s])
           before == {r \in bills : Earlier(r, s)}
           f == Charges(row, i, d)
           cost(B) == [x \in Session |-> IF x \in B THEN row[x].actual ELSE 0]
<1>1. s \in Session /\ day[s] = d /\ row[s].actual # NoBytes /\ row[s].actual >= 1
      /\ <<i, d>> \in usageRows
  BY DEF Booked
<1>2. i \in Identity /\ d \in Day
  BY <1>0, <1>1 DEF ChargeInvariant, DeliveryInvariant, LedgerInvariant, Shape, Dated, Row
<1>3. used[i][d] = SumFunctionOnSet(f, Session) /\ used[i][d] \in Nat
  BY <1>0, <1>2, ChargesAdded DEF Total, TypeOK
<1>4. \A x \in bills : x \in Session /\ row[x].identity = i /\ row[x].chargedOn = d
                       /\ row[x].actual # NoBytes
  BY <1>1 DEF Billed
<1>5. s \notin before
  BY <1>0, <1>1, SessionsAreNumbered DEF Earlier, TypeOK, Intent
<1>6. f \in [Session -> Nat] /\ f \in [Session -> Int]
  BY <1>0, ChargesType
<1>7. ASSUME NEW B \in SUBSET bills
      PROVE  cost(B) \in [Session -> Int] /\ \A x \in Session : cost(B)[x] <= f[x]
  <2>1. ASSUME NEW x \in Session
        PROVE  cost(B)[x] \in Int /\ cost(B)[x] <= f[x]
    <3>1. CASE x \in B
      BY <1>0, <1>4, <3>1 DEF Charges, Row, NoBytes
    <3>2. CASE x \notin B
      BY <1>6, <3>2
    <3>3. QED
      BY <3>1, <3>2
  <2>2. QED
    BY <2>1
<1>8. ASSUME NEW B \in SUBSET bills
      PROVE  Bill(B) = SumFunctionOnSet(cost(B), Session)
  BY DEF Bill, Total
<1>9. f[s] = row[s].actual
  BY <1>1 DEF Charges
<1>10. used[i][d] >= Bill(bills)
  <2>1. cost(bills) \in [Session -> Int] /\ \A x \in Session : cost(bills)[x] <= f[x]
    BY <1>7
  <2>2. Bill(bills) = SumFunctionOnSet(cost(bills), Session)
    BY <1>8
  <2> HIDE DEF cost, f, bills
  <2>3. SumFunctionOnSet(cost(bills), Session) <= SumFunctionOnSet(f, Session)
    BY <1>0, <1>6, <2>1, SumMonotone
  <2>4. SumFunctionOnSet(cost(bills), Session) \in Int
    BY <1>0, <2>1, SumType
  <2>5. QED
    BY <1>3, <2>2, <2>3, <2>4
<1>11. used[i][d] > Bill(before)
  <2> DEFINE g == [cost(before) EXCEPT ![s] = row[s].actual]
  <2>0. before \in SUBSET bills
    OBVIOUS
  <2>1. /\ cost(before) \in [Session -> Int] /\ cost(before)[s] = 0
        /\ \A x \in Session : cost(before)[x] <= f[x]
    BY <1>1, <1>5, <1>7, <2>0
  <2>2. Bill(before) = SumFunctionOnSet(cost(before), Session)
    BY <1>8, <2>0
  <2>3. row[s].actual \in Int
    BY <1>0, <1>1 DEF Row, NoBytes
  <2> HIDE DEF cost, f, bills, before
  <2>4. /\ g \in [Session -> Int] /\ g[s] = row[s].actual
        /\ \A x \in Session : x # s => g[x] = cost(before)[x]
    BY <1>1, <2>1, <2>3
  <2>5. \A x \in Session : g[x] <= f[x]
    BY <1>6, <1>9, <2>1, <2>3, <2>4
  <2> HIDE DEF g
  <2>6. SumFunctionOnSet(g, Session)
          = SumFunctionOnSet(cost(before), Session) + (g[s] - cost(before)[s])
    BY <1>0, <1>1, <2>1, <2>4, SumUpdate
  <2>7. SumFunctionOnSet(g, Session) <= SumFunctionOnSet(f, Session)
    BY <1>0, <1>6, <2>4, <2>5, SumMonotone
  <2>8. SumFunctionOnSet(cost(before), Session) \in Int
    BY <1>0, <2>1, SumType
  <2>9. QED
    BY <1>1, <1>3, <2>1, <2>2, <2>3, <2>4, <2>6, <2>7, <2>8
<1>12. QED
  BY <1>1, <1>10, <1>11

\* A pass can free what the abandoned sessions reserved.
LEMMA FreedCovered ==
  ASSUME LedgerInvariant, NEW t
  PROVE  Freed(Abandoned(t)) <= globalReserved
<1> DEFINE f == [x \in Session |-> IF x \in Abandoned(t) THEN row[x].reserved ELSE 0]
           g == [x \in Session |-> IF Active(row, x) THEN row[x].reserved ELSE 0]
<1>1. f \in [Session -> Int] /\ g \in [Session -> Int] /\ \A x \in Session : f[x] <= g[x]
  BY DEF LedgerInvariant, TypeOK, Row, Abandoned, Active, Reserving
<1>2. Freed(Abandoned(t)) = SumFunctionOnSet(f, Session)
  BY DEF Freed, Total
<1>3. globalReserved = SumFunctionOnSet(g, Session)
  BY DEF LedgerInvariant, BudgetExact, AllReserved, Total
<1> HIDE DEF f, g
<1>4. SumFunctionOnSet(f, Session) <= SumFunctionOnSet(g, Session)
  BY <1>1, SessionsAreNumbered, SumMonotone
<1>5. QED
  BY <1>2, <1>3, <1>4

\* The recovery of any pending settlements succeeds.
LEMMA PendingRecoverable ==
  ASSUME ChargeInvariant, \A x \in Session : Booked(x),
         NEW B \in SUBSET Session, \A x \in B : settlement[x].pending
  PROVE  Recoverable(B)
<1>0. \A x \in Session : Dated(x) /\ Kept(x)
  BY DEF ChargeInvariant, DeliveryInvariant
<1>1. \A x \in B : Consistent(x, settlement[x].possible)
  BY <1>0 DEF Kept
<1> DEFINE R == Charged(Unmarked(B))
<1>2. R \in SUBSET Session /\ \A x \in R : row[x].actual # NoBytes
                                           /\ IntentDay[x] = row[x].chargedOn
  BY <1>0 DEF Charged, Unmarked, IntentDay, Dated
<1> HIDE DEF R
<1>3. Refundable(R, IntentDay)
  BY <1>2, BookedRefundable
<1>4. QED
  BY <1>1, <1>3 DEF Recoverable, R

\* The inductive invariant behind RecoveryNeverFails: what the accounts are, and that
\* every charge is booked in a row of its own identity and day.
BooksInvariant == ChargeInvariant /\ \A x \in Session : Booked(x)

\* In every reachable state the maintenance pass succeeds on whatever it finds: the
\* server stops when it does not.  A zero-byte upload would be booked in a row that a
\* refund may delete before its turn, so uploads are of a byte at least.
THEOREM RecoveryDoesNotFail ==
  ASSUME MinUploadBytes >= 1
  PROVE  Spec => []RecoveryNeverFails
<1>1. Init => BooksInvariant
  BY ChargeInit DEF BooksInvariant, Booked, Init, NoRow
<1>2. BooksInvariant /\ [Next]_vars => BooksInvariant'
  BY ChargeStep, BookedStep DEF BooksInvariant
<1>3. BooksInvariant => RecoveryNeverFails
  <2> SUFFICES ASSUME BooksInvariant, NEW t \in Readings
               PROVE  Recoverable(Batch(t)) /\ Freed(Abandoned(t)) <= globalReserved
    BY DEF RecoveryNeverFails
  <2>1. Batch(t) \in SUBSET Session /\ \A x \in Batch(t) : settlement[x].pending
    BY DEF Batch
  <2>2. Recoverable(Batch(t))
    BY <2>1, PendingRecoverable DEF BooksInvariant
  <2>3. QED
    BY <2>2, FreedCovered DEF BooksInvariant, ChargeInvariant, DeliveryInvariant
<1>4. QED
  BY <1>1, <1>2, <1>3, PTL DEF Spec

-----------------------------------------------------------------------------
(* No identity is charged on a day to come: what a new day forgets is the  *)
(* usage of the old one, never a reservation.                              *)

\* Nothing is charged on a day to come.
Past(s) == row[s].actual # NoBytes => row[s].chargedOn <= DayOf(now)

\* Days come in the order of their instants.
LEMMA DayMonotone ==
  ASSUME NEW t \in Nat, NEW u \in Nat, t <= u
  PROVE  DayOf(t) <= DayOf(u) /\ DayOf(t) \in Nat /\ DayOf(u) \in Nat
BY TimesAreNumbers DEF DayOf

\* So the usage of a day to come is nothing.
LEMMA FutureFree ==
  ASSUME TypeOK, ChargesExact, \A x \in Session : Past(x),
         NEW i \in Identity, NEW d \in Day, d > DayOf(now)
  PROVE  used[i][d] = 0
<1> DEFINE f == Charges(row, i, d)
<1>1. f \in [Session -> Int]
  BY ChargesType DEF TypeOK
<1>2. ASSUME NEW x \in Session PROVE f[x] = 0
  <2>1. DayOf(now) \in Int /\ row[x].chargedOn \in Int /\ d \in Int
    BY DayMonotone DEF TypeOK, Row, Day
  <2>2. ~(row[x].actual # NoBytes /\ row[x].chargedOn = d)
    BY <2>1 DEF Past
  <2>3. QED
    BY <2>2 DEF Charges
<1>3. used[i][d] = SumFunctionOnSet(f, Session)
  BY ChargesAdded DEF Total
<1> HIDE DEF f
<1>4. QED
  BY <1>1, <1>2, <1>3, SessionsAreNumbered, SumZero

\* Every step charges today or earlier, and time goes on.
LEMMA PastStep ==
  ASSUME ChargeInvariant, ChargeInvariant', \A x \in Session : Past(x), [Next]_vars
  PROVE  \A x \in Session : Past(x)'
<1> SUFFICES ASSUME NEW x \in Session PROVE Past(x)'
  OBVIOUS
<1>0. /\ TypeOK /\ row \in [Session -> Row] /\ row[x] \in Row /\ Dated(x) /\ Past(x)
      /\ now \in Nat /\ row[x].chargedOn \in Int
  <2>1. TypeOK /\ row \in [Session -> Row] /\ now \in Nat
    BY DEF ChargeInvariant, DeliveryInvariant, LedgerInvariant, TypeOK
  <2>2. row[x].chargedOn \in Int
    BY <2>1 DEF Row, Day
  <2>3. QED
    BY <2>1, <2>2 DEF ChargeInvariant
<1>1. ASSUME NEW s \in Session, NEW a \in Ip, NEW n \in 1 .. MaxFileBytes, NEW t \in Readings,
             Reserve(s, a, n, t)
      PROVE  Past(x)'
  <2>1. now' = now
    BY <1>1 DEF Reserve, clockVars
  <2>2. x = s => row'[x].actual = NoBytes
    BY <1>0, <1>1, ReservedRows
  <2>3. x # s => row'[x].chargedOn = row[x].chargedOn /\ row'[x].actual = row[x].actual
    BY <1>0, <1>1, ReservedRows
  <2>4. QED
    BY <1>0, <2>1, <2>2, <2>3 DEF Past, DayOf
<1>2. ASSUME NEW s \in Session, NEW n \in 1 .. MaxFileBytes, NEW t \in Readings,
             ExpandReceiving(s, n, t)
      PROVE  Past(x)'
  BY <1>0, <1>2 DEF ExpandReceiving, clockVars, Past, Row, DayOf
<1>3. ASSUME NEW s \in Session, NEW n \in 0 .. MaxFileBytes, NEW t \in Readings,
             Settle(s, n, t)
      PROVE  Past(x)'
  <2> DEFINE new == [row[s] EXCEPT !.state = "uploaded", !.reserved = 0, !.actual = n,
                                   !.chargedOn = DayOf(t), !.lease = 0]
  <2>1. new.chargedOn = DayOf(t)
    BY <1>0 DEF Row, TypeOK
  <2>2. row' = [row EXCEPT ![s] = new] /\ now' = now
    BY <1>3 DEF Settle, clockVars
  <2>3. DayOf(t) <= DayOf(now)
    BY <1>0, DayMonotone DEF Readings
  <2> HIDE DEF new
  <2>4. row'[x].chargedOn = DayOf(t) \/ row'[x] = row[x]
    BY <1>0, <2>1, <2>2
  <2>5. DayOf(now') = DayOf(now)
    BY <2>2
  <2>6. QED
    BY <1>0, <2>3, <2>4, <2>5 DEF Past, DayOf
<1>4. ASSUME Shrinks, now' \in {now, now + 1} PROVE Past(x)'
  <2>1. now' \in Nat /\ now <= now'
    BY <1>0, <1>4
  <2>2. DayOf(now) <= DayOf(now') /\ DayOf(now) \in Nat /\ DayOf(now') \in Nat
    BY <1>0, <2>1, DayMonotone
  <2>3. row'[x].actual # NoBytes => /\ row[x].actual # NoBytes
                                    /\ row'[x].chargedOn = row[x].chargedOn
    BY <1>4 DEF Shrinks
  <2>4. row'[x].actual # NoBytes => row'[x].chargedOn <= DayOf(now')
    BY <1>0, <2>2, <2>3 DEF Past
  <2>5. QED
    BY <2>4 DEF Past, DayOf
<1>5. CASE Idles \/ Repays
  BY <1>4, <1>5 DEF Idles, Repays
<1>6. QED
  BY <1>1, <1>2, <1>3, <1>5, StepKinds

\* When no session of i starts or grows, i reserves no more.
LEMMA ReservedShrinks ==
  ASSUME NEW q \in [Session -> Row], NEW r \in [Session -> Row], NEW i,
         \A x \in Session : Active(q, x) /\ q[x].identity = i =>
           Active(r, x) /\ r[x].identity = i /\ q[x].reserved <= r[x].reserved
  PROVE  /\ Reserved(q, i) <= Reserved(r, i)
         /\ Cardinality(ActiveSessions(q, i)) <= Cardinality(ActiveSessions(r, i))
<1> DEFINE f == [x \in Session |-> IF Active(q, x) /\ q[x].identity = i THEN q[x].reserved ELSE 0]
           g == [x \in Session |-> IF Active(r, x) /\ r[x].identity = i THEN r[x].reserved ELSE 0]
<1>1. f \in [Session -> Int] /\ g \in [Session -> Int] /\ \A x \in Session : f[x] <= g[x]
  BY DEF Row
<1>2. Reserved(q, i) = SumFunctionOnSet(f, Session) /\ Reserved(r, i) = SumFunctionOnSet(g, Session)
  BY DEF Reserved, Total
<1> HIDE DEF f, g
<1>3. SumFunctionOnSet(f, Session) <= SumFunctionOnSet(g, Session)
  BY <1>1, SessionsAreNumbered, SumMonotone
<1>4. /\ ActiveSessions(q, i) \in SUBSET ActiveSessions(r, i)
      /\ ActiveSessions(r, i) \in SUBSET Session
  BY DEF ActiveSessions
<1>5. IsFiniteSet(ActiveSessions(r, i))
  BY <1>4, SessionsAreNumbered, FS_Subset
<1>6. Cardinality(ActiveSessions(q, i)) <= Cardinality(ActiveSessions(r, i))
  BY <1>4, <1>5, FS_Subset
<1>7. QED
  BY <1>2, <1>3, <1>6

\* When no session at all starts or grows, neither does the total.
LEMMA AllReservedShrinks ==
  ASSUME NEW q \in [Session -> Row], NEW r \in [Session -> Row],
         \A x \in Session : Active(q, x) => Active(r, x) /\ q[x].reserved <= r[x].reserved
  PROVE  AllReserved(q) <= AllReserved(r)
<1> DEFINE f == [x \in Session |-> IF Active(q, x) THEN q[x].reserved ELSE 0]
           g == [x \in Session |-> IF Active(r, x) THEN r[x].reserved ELSE 0]
<1>1. f \in [Session -> Int] /\ g \in [Session -> Int] /\ \A x \in Session : f[x] <= g[x]
  BY DEF Row
<1>2. AllReserved(q) = SumFunctionOnSet(f, Session) /\ AllReserved(r) = SumFunctionOnSet(g, Session)
  BY DEF AllReserved, Total
<1> HIDE DEF f, g
<1>3. QED
  BY <1>1, <1>2, SessionsAreNumbered, SumMonotone

\* When one session of i reserves another amount, i reserves so much more.
LEMMA ReservedUpdate ==
  ASSUME NEW q \in [Session -> Row], NEW r \in [Session -> Row], NEW i, NEW s \in Session,
         \A x \in Session : x # s => /\ q[x].state = r[x].state /\ q[x].identity = r[x].identity
                                     /\ q[x].reserved = r[x].reserved,
         q[s].identity = i, Active(r, s) => r[s].identity = i
  PROVE  Reserved(q, i) = Reserved(r, i) + (Held(q, s) - Held(r, s))
<1> DEFINE f == [x \in Session |-> IF Active(q, x) /\ q[x].identity = i THEN q[x].reserved ELSE 0]
           g == [x \in Session |-> IF Active(r, x) /\ r[x].identity = i THEN r[x].reserved ELSE 0]
<1>1. f \in [Session -> Int] /\ g \in [Session -> Int]
  BY DEF Row
<1>2. \A x \in Session : x # s => f[x] = g[x]
  BY DEF Active
<1>3. f[s] = Held(q, s) /\ g[s] = Held(r, s)
  BY DEF Held
<1>4. Reserved(q, i) = SumFunctionOnSet(f, Session) /\ Reserved(r, i) = SumFunctionOnSet(g, Session)
  BY DEF Reserved, Total
<1> HIDE DEF f, g
<1>5. QED
  BY <1>1, <1>2, <1>3, <1>4, SessionsAreNumbered, SumUpdate

\* A step that charges nobody leaves no usage larger.
LEMMA UsedShrinks ==
  ASSUME ChargeInvariant, ChargeInvariant', Shrinks, NEW i \in Identity, NEW d \in Day
  PROVE  used'[i][d] <= used[i][d]
<1> DEFINE f == Charges(row', i, d)
           g == Charges(row, i, d)
<1>0. row \in [Session -> Row] /\ row' \in [Session -> Row] /\ ChargesExact /\ ChargesExact'
  BY DEF ChargeInvariant, DeliveryInvariant, LedgerInvariant, TypeOK
<1>1. f \in [Session -> Nat] /\ g \in [Session -> Nat]
  BY <1>0, ChargesType
<1>2. f \in [Session -> Int] /\ g \in [Session -> Int]
  BY <1>0, ChargesType
<1>3. \A x \in Session : f[x] = 0 \/ f[x] = g[x]
  BY DEF Shrinks, Charges
<1>4. used'[i][d] = SumFunctionOnSet(f, Session) /\ used[i][d] = SumFunctionOnSet(g, Session)
  BY <1>0, ChargesAdded, ChargesAddedNext DEF Total
<1> HIDE DEF f, g
<1>5. \A x \in Session : f[x] <= g[x]
  BY <1>1, <1>3
<1>6. QED
  BY <1>2, <1>4, <1>5, SessionsAreNumbered, SumMonotone

\* LimitsHonoured after a step.
LEMMA LimitsNext ==
  LimitsHonoured' <=>
    /\ AllReserved(row') <= MaxGlobalReserved
    /\ \A i \in Identity :
         /\ used'[i][DayOf(now')] + Reserved(row', i) <= DailyQuota
         /\ Cardinality(ActiveSessions(row', i)) <= MaxActiveSessions
BY DEF LimitsHonoured, AllReserved, Reserved, Total, ActiveSessions, Active, DayOf

\* Such a step leaves no usage of today larger, into a new day too.
LEMMA TodayShrinks ==
  ASSUME ChargeInvariant, ChargeInvariant', \A x \in Session : Past(x), Shrinks,
         now' = now \/ (now' = now + 1 /\ used' = used), NEW i \in Identity
  PROVE  /\ used[i][DayOf(now)] \in Nat /\ used'[i][DayOf(now')] \in Nat
         /\ used'[i][DayOf(now')] <= used[i][DayOf(now)]
<1>0. TypeOK /\ TypeOK' /\ ChargesExact
  BY DEF ChargeInvariant, DeliveryInvariant, LedgerInvariant
<1>1. /\ DayOf(now) \in Day /\ DayOf(now') \in Day
      /\ used[i][DayOf(now)] \in Nat /\ used'[i][DayOf(now')] \in Nat
  <2>1. DayOf(now) \in Day /\ DayOf(now') \in Day
    BY <1>0, DayOfType DEF TypeOK
  <2>2. QED
    BY <1>0, <2>1 DEF TypeOK
<1>2. used'[i][DayOf(now')] <= used[i][DayOf(now)]
  <2>1. CASE DayOf(now') = DayOf(now)
    BY <1>1, <2>1, UsedShrinks
  <2>2. CASE DayOf(now') # DayOf(now)
    <3>1. now' = now + 1 /\ used' = used
      BY <2>2
    <3>2. DayOf(now') > DayOf(now)
      <4>1. now \in Nat /\ now' \in Nat /\ now <= now'
        BY <1>0, <3>1 DEF TypeOK
      <4>2. DayOf(now) <= DayOf(now') /\ DayOf(now) \in Nat /\ DayOf(now') \in Nat
        BY <4>1, DayMonotone
      <4>3. QED
        BY <2>2, <4>2
    <3>3. used[i][DayOf(now')] = 0
      BY <1>0, <1>1, <3>2, FutureFree
    <3>4. QED
      BY <1>1, <3>1, <3>3
  <2>3. QED
    BY <2>1, <2>2
<1>3. QED
  BY <1>1, <1>2

\* A step that charges nobody keeps the limits, into a new day too.
LEMMA LimitsShrink ==
  ASSUME ChargeInvariant, ChargeInvariant', \A x \in Session : Past(x), LimitsHonoured,
         Shrinks, now' = now \/ (now' = now + 1 /\ used' = used)
  PROVE  LimitsHonoured'
<1>0. /\ TypeOK /\ TypeOK' /\ row \in [Session -> Row] /\ row' \in [Session -> Row]
      /\ ChargesExact
      /\ \A x \in Session : row[x].reserved \in Nat
  BY DEF ChargeInvariant, DeliveryInvariant, LedgerInvariant, TypeOK, Row
<1>1. AllReserved(row') <= MaxGlobalReserved
  <2>1. AllReserved(row') <= AllReserved(row)
    BY <1>0, AllReservedShrinks DEF Shrinks
  <2>2. AllReserved(row) \in Nat /\ AllReserved(row') \in Nat
    BY <1>0, TotalsType
  <2>3. QED
    BY <2>1, <2>2, LimitsAreNumbers DEF LimitsHonoured
<1>2. ASSUME NEW i \in Identity
      PROVE  /\ used'[i][DayOf(now')] + Reserved(row', i) <= DailyQuota
             /\ Cardinality(ActiveSessions(row', i)) <= MaxActiveSessions
  <2>1. /\ Reserved(row', i) <= Reserved(row, i)
        /\ Cardinality(ActiveSessions(row', i)) <= Cardinality(ActiveSessions(row, i))
    BY <1>0, ReservedShrinks DEF Shrinks
  <2>2. Reserved(row, i) \in Nat /\ Reserved(row', i) \in Nat
    BY <1>0, TotalsType
  <2>3. /\ used[i][DayOf(now)] + Reserved(row, i) <= DailyQuota
        /\ Cardinality(ActiveSessions(row, i)) <= MaxActiveSessions
    BY DEF LimitsHonoured
  <2>4. Cardinality(ActiveSessions(row, i)) \in Nat /\ Cardinality(ActiveSessions(row', i)) \in Nat
    <3>1. ActiveSessions(row, i) \in SUBSET Session /\ ActiveSessions(row', i) \in SUBSET Session
      BY DEF ActiveSessions
    <3>2. IsFiniteSet(ActiveSessions(row, i)) /\ IsFiniteSet(ActiveSessions(row', i))
      BY <3>1, SessionsAreNumbered, FS_Subset
    <3>3. QED
      BY <3>2, FS_CardinalityType
  <2>5. /\ used[i][DayOf(now)] \in Nat /\ used'[i][DayOf(now')] \in Nat
        /\ used'[i][DayOf(now')] <= used[i][DayOf(now)]
    BY TodayShrinks
  <2>6. QED
    BY <2>1, <2>2, <2>3, <2>4, <2>5, LimitsAreNumbers
<1>3. QED
  BY <1>1, <1>2, LimitsNext

-----------------------------------------------------------------------------
(* The limits are honoured.                                                *)

\* Every transaction that can commit now read the day it commits on.
OnTheDay == \A t \in Readings : DayOf(t) = DayOf(now)

\* A reservation fits the limits of the identity that survives and of the service.
LEMMA LimitsReserve ==
  ASSUME OnTheDay, ChargeInvariant, ChargeInvariant', LimitsHonoured,
         NEW s \in Session, NEW a \in Ip, NEW n \in 1 .. MaxFileBytes, NEW t \in Readings,
         Reserve(s, a, n, t)
  PROVE  LimitsHonoured'
<1> DEFINE F == Found(a)
           k == Resolved(a)
           merged == MergedRow(F, k)
<1>0. /\ TypeOK /\ TypeOK' /\ row \in [Session -> Row] /\ row' \in [Session -> Row]
      /\ BudgetExact' /\ n \in Nat /\ now \in Nat
      /\ DayOf(t) = DayOf(now)
  BY LimitsAreNumbers DEF ChargeInvariant, DeliveryInvariant, LedgerInvariant, TypeOK, OnTheDay
<1>1. /\ k \in Identity /\ F \in SUBSET Identity /\ (F # {} => k \in F) /\ now' = now
      /\ Admissible(MergedUsed(F, k), merged, k, t, n)
      /\ used' = MergedUsed(F, k) /\ globalReserved' = globalReserved + n
      /\ row[s].state = "absent"
  BY <1>0, FoundType DEF Reserve, NextSession, clockVars
<1>2. merged \in [Session -> Row]
  BY <1>0, <1>1, MergeType
<1>3. \A x \in Session : /\ merged[x].state = row[x].state /\ merged[x].reserved = row[x].reserved
                         /\ merged[x].identity = IF row[x].identity \in F THEN k
                                                 ELSE row[x].identity
  <2>1. \A x \in Session : row[x] \in Row
    BY <1>0
  <2>2. QED
    BY <1>0, <2>1 DEF MergedRow, Row
<1>4. /\ row'[s].state = "reserved" /\ row'[s].identity = k /\ row'[s].reserved = n
      /\ \A x \in Session : x # s =>
           /\ row'[x].identity = IF row[x].identity \in F THEN k ELSE row[x].identity
           /\ row'[x].state = row[x].state /\ row'[x].reserved = row[x].reserved
  BY <1>0, ReservedRows
<1>5. AllReserved(row') <= MaxGlobalReserved
  BY <1>1 DEF ChargeInvariant, DeliveryInvariant, LedgerInvariant, BudgetExact, Admissible,
              FitsBudget, AllReserved, Total, Active
<1>6. DayOf(now) \in Day /\ DayOf(now') = DayOf(now)
  BY <1>0, <1>1, DayOfType DEF TypeOK
<1> HIDE DEF F, merged, k
<1>7. /\ used'[k][DayOf(now')] + Reserved(row', k) <= DailyQuota
      /\ Cardinality(ActiveSessions(row', k)) <= MaxActiveSessions
  <2>1. /\ Cardinality(ActiveSessions(merged, k)) < MaxActiveSessions
        /\ used'[k][DayOf(now)] + Reserved(merged, k) + n <= DailyQuota
    BY <1>0, <1>1 DEF Admissible, FitsQuota
  <2>2. Reserved(row', k) = Reserved(merged, k) + n
    <3>1. Held(row', s) = n /\ Held(merged, s) = 0 /\ ~Active(merged, s)
      BY <1>1, <1>3, <1>4 DEF Held, Active, Reserving
    <3>2. Reserved(row', k) = Reserved(merged, k) + (Held(row', s) - Held(merged, s))
      BY <1>0, <1>2, <1>3, <1>4, <3>1, ReservedUpdate
    <3>3. QED
      BY <1>0, <3>1, <3>2
  <2>3. ActiveSessions(row', k) = ActiveSessions(merged, k) \cup {s}
    BY <1>3, <1>4 DEF ActiveSessions, Active, Reserving
  <2>4. ActiveSessions(merged, k) \in SUBSET Session
    BY DEF ActiveSessions
  <2>5. IsFiniteSet(ActiveSessions(merged, k))
    BY <2>4, SessionsAreNumbered, FS_Subset
  <2>6. Cardinality(ActiveSessions(merged, k)) \in Nat
    BY <2>5, FS_CardinalityType
  <2>7. Cardinality(ActiveSessions(row', k)) <= Cardinality(ActiveSessions(merged, k)) + 1
    <3> DEFINE M == ActiveSessions(merged, k)
    <3>1. IsFiniteSet(M) /\ Cardinality(M) \in Nat
      BY <2>5, <2>6
    <3> HIDE DEF M
    <3>2. Cardinality(M \cup {s}) = IF s \in M THEN Cardinality(M) ELSE Cardinality(M) + 1
      BY <3>1, FS_AddElement
    <3>3. Cardinality(M \cup {s}) <= Cardinality(M) + 1
      BY <3>1, <3>2
    <3>4. QED
      BY <2>3, <3>3 DEF M
  <2>8. Cardinality(ActiveSessions(row', k)) \in Nat
    BY <2>3, <2>5, FS_AddElement, FS_CardinalityType
  <2>9. Reserved(merged, k) \in Nat /\ used'[k][DayOf(now)] \in Nat
    BY <1>0, <1>1, <1>2, <1>6, TotalsType DEF TypeOK
  <2>10. QED
    BY <1>0, <1>6, <2>1, <2>2, <2>6, <2>7, <2>8, <2>9, LimitsAreNumbers
<1>8. ASSUME NEW i \in Identity, i # k
      PROVE  /\ used'[i][DayOf(now')] + Reserved(row', i) <= DailyQuota
             /\ Cardinality(ActiveSessions(row', i)) <= MaxActiveSessions
  <2>1. /\ Reserved(row', i) <= Reserved(row, i)
        /\ Cardinality(ActiveSessions(row', i)) <= Cardinality(ActiveSessions(row, i))
    <3>1. ASSUME NEW x \in Session, Active(row', x), row'[x].identity = i
          PROVE  Active(row, x) /\ row[x].identity = i /\ row'[x].reserved <= row[x].reserved
      <4>1. x # s
        BY <1>4, <1>8, <3>1
      <4>2. row[x].reserved \in Nat
        BY <1>0 DEF Row
      <4>3. QED
        BY <1>4, <1>8, <3>1, <4>1, <4>2 DEF Active
    <3>2. QED
      BY <1>0, <3>1, ReservedShrinks
  <2>2. used'[i][DayOf(now)] = 0 \/ used'[i][DayOf(now)] = used[i][DayOf(now)]
    BY <1>1, <1>6, <1>8 DEF MergedUsed
  <2>3. Reserved(row', i) \in Nat /\ Reserved(row, i) \in Nat /\ used[i][DayOf(now)] \in Nat
    BY <1>0, <1>6, TotalsType DEF TypeOK
  <2>4. Cardinality(ActiveSessions(row, i)) \in Nat /\ Cardinality(ActiveSessions(row', i)) \in Nat
    <3>1. ActiveSessions(row, i) \in SUBSET Session /\ ActiveSessions(row', i) \in SUBSET Session
      BY DEF ActiveSessions
    <3>2. IsFiniteSet(ActiveSessions(row, i)) /\ IsFiniteSet(ActiveSessions(row', i))
      BY <3>1, SessionsAreNumbered, FS_Subset
    <3>3. QED
      BY <3>2, FS_CardinalityType
  <2>5. /\ used[i][DayOf(now)] + Reserved(row, i) <= DailyQuota
        /\ Cardinality(ActiveSessions(row, i)) <= MaxActiveSessions
    BY DEF LimitsHonoured
  <2>6. QED
    BY <1>6, <2>1, <2>2, <2>3, <2>4, <2>5, LimitsAreNumbers
<1>9. QED
  BY <1>5, <1>7, <1>8, LimitsNext

\* A step of one active session that changes what it reserves, or ends it, and what its
\* identity was charged, within the quota; the others are left alone.
LEMMA LimitsOneSession ==
  ASSUME ChargeInvariant, ChargeInvariant', LimitsHonoured, NEW s \in Session,
         row[s].state \in Reserving, row'[s].identity = row[s].identity,
         row'[s].state \in {row[s].state, "uploaded"},
         \A x \in Session : x # s => row'[x] = row[x],
         AllReserved(row') <= MaxGlobalReserved, now' = now,
         \A i \in Identity : i # row[s].identity => used'[i] = used[i],
         used'[row[s].identity][DayOf(now)] + Reserved(row, row[s].identity)
           + (Held(row', s) - Held(row, s)) <= DailyQuota
  PROVE  LimitsHonoured'
<1>0. /\ TypeOK /\ TypeOK' /\ row \in [Session -> Row] /\ row' \in [Session -> Row]
      /\ row[s].identity \in Identity
  BY DEF ChargeInvariant, DeliveryInvariant, LedgerInvariant, TypeOK, Shape, Reserving
<1>1. DayOf(now) \in Day /\ DayOf(now') = DayOf(now)
  BY <1>0, DayOfType DEF TypeOK
<1>2. ASSUME NEW i \in Identity
      PROVE  /\ used'[i][DayOf(now')] + Reserved(row', i) <= DailyQuota
             /\ Cardinality(ActiveSessions(row', i)) <= MaxActiveSessions
  <2>1. ActiveSessions(row', i) \in SUBSET ActiveSessions(row, i)
        /\ ActiveSessions(row, i) \in SUBSET Session
    BY DEF ActiveSessions, Active, Reserving
  <2>2. IsFiniteSet(ActiveSessions(row, i))
    BY <2>1, SessionsAreNumbered, FS_Subset
  <2>3. /\ Cardinality(ActiveSessions(row', i)) <= Cardinality(ActiveSessions(row, i))
        /\ IsFiniteSet(ActiveSessions(row', i))
    BY <2>1, <2>2, FS_Subset
  <2>4. /\ Cardinality(ActiveSessions(row', i)) \in Nat
        /\ Cardinality(ActiveSessions(row, i)) \in Nat
    BY <2>2, <2>3, FS_CardinalityType
  <2>5. /\ used[i][DayOf(now)] + Reserved(row, i) <= DailyQuota
        /\ Cardinality(ActiveSessions(row, i)) <= MaxActiveSessions
    BY DEF LimitsHonoured
  <2>6. Reserved(row, i) \in Nat /\ Reserved(row', i) \in Nat
        /\ used[i][DayOf(now)] \in Nat /\ used'[i][DayOf(now)] \in Nat
    BY <1>0, <1>1, TotalsType DEF TypeOK
  <2>7. CASE i = row[s].identity
    <3>1. Reserved(row', i) = Reserved(row, i) + (Held(row', s) - Held(row, s))
      BY <1>0, <2>7, ReservedUpdate
    <3>2. Held(row', s) \in Nat /\ Held(row, s) \in Nat
      BY <1>0 DEF Held, Row
    <3>3. QED
      BY <1>1, <2>3, <2>4, <2>5, <2>6, <2>7, <3>1, <3>2, LimitsAreNumbers
  <2>8. CASE i # row[s].identity
    <3>1. ASSUME NEW x \in Session, Active(row', x), row'[x].identity = i
          PROVE  Active(row, x) /\ row[x].identity = i /\ row'[x].reserved <= row[x].reserved
      <4>1. x # s
        BY <2>8, <3>1
      <4>2. row[x].reserved \in Nat
        BY <1>0 DEF Row
      <4>3. QED
        BY <3>1, <4>1, <4>2 DEF Active
    <3>2. Reserved(row', i) <= Reserved(row, i)
      BY <1>0, <3>1, ReservedShrinks
    <3>3. used'[i] = used[i]
      BY <2>8
    <3>4. QED
      BY <1>1, <2>3, <2>4, <2>5, <2>6, <3>2, <3>3, LimitsAreNumbers
  <2>9. QED
    BY <2>7, <2>8
<1>3. QED
  BY <1>2, LimitsNext

\* A larger reservation fits too.
LEMMA LimitsExpand ==
  ASSUME OnTheDay, ChargeInvariant, ChargeInvariant', LimitsHonoured,
         NEW s \in Session, NEW n \in 1 .. MaxFileBytes, NEW t \in Readings,
         ExpandReceiving(s, n, t)
  PROVE  LimitsHonoured'
<1>0. /\ TypeOK /\ row \in [Session -> Row] /\ row[s] \in Row /\ n \in Nat
      /\ DayOf(t) = DayOf(now) /\ row[s].reserved \in Nat /\ BudgetExact'
  BY LimitsAreNumbers DEF ChargeInvariant, DeliveryInvariant, LedgerInvariant, TypeOK, Row, OnTheDay
<1> DEFINE delta == n - row[s].reserved
           new == [row[s] EXCEPT !.reserved = n, !.lease = now + LeaseDuration]
<1>1. /\ row[s].state = "receiving" /\ now' = now /\ used' = used
      /\ row' = [row EXCEPT ![s] = new]
      /\ used[row[s].identity][DayOf(t)] + Reserved(row, row[s].identity) + delta <= DailyQuota
      /\ globalReserved' = globalReserved + delta
      /\ globalReserved + delta <= MaxGlobalReserved
  BY <1>0 DEF ExpandReceiving, FitsQuota, FitsBudget, clockVars
<1>2. new.state = row[s].state /\ new.identity = row[s].identity /\ new.reserved = n
  BY <1>0 DEF Row
<1> HIDE DEF new
<1>3. row'[s] = new /\ \A x \in Session : x # s => row'[x] = row[x]
  BY <1>0, <1>1
<1>4. Held(row', s) = n /\ Held(row, s) = row[s].reserved
  BY <1>1, <1>2, <1>3 DEF Held, Active, Reserving
<1>5. AllReserved(row') <= MaxGlobalReserved
  BY <1>0, <1>1 DEF BudgetExact, AllReserved, Total, Active
<1>6. QED
  BY <1>0, <1>1, <1>2, <1>3, <1>4, <1>5, LimitsOneSession DEF Reserving

\* A settlement charges no more than was reserved for it.
LEMMA LimitsSettle ==
  ASSUME OnTheDay, ChargeInvariant, ChargeInvariant', LimitsHonoured,
         NEW s \in Session, NEW n \in 0 .. MaxFileBytes, NEW t \in Readings, Settle(s, n, t)
  PROVE  LimitsHonoured'
<1>0. /\ TypeOK /\ row \in [Session -> Row] /\ row[s] \in Row /\ n \in Nat
      /\ DayOf(t) = DayOf(now)
      /\ row[s].reserved \in Nat /\ BudgetExact /\ BudgetExact' /\ row' \in [Session -> Row]
      /\ row[s].state = "receiving" /\ row[s].identity \in Identity
  <2>1. /\ TypeOK /\ Shape /\ row \in [Session -> Row] /\ row[s] \in Row /\ BudgetExact
        /\ BudgetExact' /\ row' \in [Session -> Row] /\ now \in Nat
    BY DEF ChargeInvariant, DeliveryInvariant, LedgerInvariant, TypeOK
  <2>2. row[s].state = "receiving" /\ row[s].identity \in Identity /\ row[s].reserved \in Nat
    BY <2>1 DEF Shape, Settle, Row
  <2>3. n \in Nat /\ DayOf(t) = DayOf(now)
    BY <2>1, LimitsAreNumbers DEF OnTheDay
  <2>4. QED
    BY <2>1, <2>2, <2>3
<1> DEFINE i == row[s].identity
           new == [row[s] EXCEPT !.state = "uploaded", !.reserved = 0, !.actual = n,
                                 !.chargedOn = DayOf(t), !.lease = 0]
<1>1. /\ now' = now /\ used' = [used EXCEPT ![i][DayOf(t)] = @ + n]
      /\ row' = [row EXCEPT ![s] = new]
      /\ used[i][DayOf(t)] + Reserved(row, i) + (n - row[s].reserved) <= DailyQuota
      /\ globalReserved' = globalReserved - row[s].reserved
  BY <1>0 DEF Settle, FitsQuota, clockVars
<1>2. new.state = "uploaded" /\ new.identity = i /\ new.reserved = 0
  BY <1>0 DEF Row
<1> HIDE DEF new
<1>3. row'[s] = new /\ \A x \in Session : x # s => row'[x] = row[x]
  BY <1>0, <1>1
<1>4. Held(row', s) = 0 /\ Held(row, s) = row[s].reserved
  BY <1>0, <1>2, <1>3 DEF Held, Active, Reserving
<1>5. AllReserved(row') <= MaxGlobalReserved
  <2>1. AllReserved(row') = globalReserved' /\ globalReserved = AllReserved(row)
    BY <1>0 DEF BudgetExact, AllReserved, Total, Active
  <2>2. AllReserved(row) \in Nat /\ AllReserved(row) <= MaxGlobalReserved
    BY <1>0, TotalsType DEF LimitsHonoured
  <2>3. QED
    BY <1>0, <1>1, <2>1, <2>2, LimitsAreNumbers
<1>6. DayOf(now) \in Day /\ used \in [Identity -> [Day -> Nat]]
  BY <1>0, DayOfType DEF TypeOK
<1>7. /\ used'[i][DayOf(now)] = used[i][DayOf(now)] + n
      /\ \A j \in Identity : j # i => used'[j] = used[j]
  BY <1>0, <1>1, <1>6
<1>8. Reserved(row, i) \in Nat /\ used[i][DayOf(now)] \in Nat
  BY <1>0, <1>6, TotalsType
<1>9. used'[i][DayOf(now)] + Reserved(row, i) + (Held(row', s) - Held(row, s)) <= DailyQuota
  BY <1>0, <1>1, <1>4, <1>7, <1>8, LimitsAreNumbers
<1>10. QED
  BY <1>0, <1>1, <1>2, <1>3, <1>5, <1>7, <1>9, LimitsOneSession DEF Reserving

\* Every step keeps the limits.
LEMMA LimitsStep ==
  ASSUME OnTheDay, ChargeInvariant, ChargeInvariant', \A x \in Session : Past(x),
         LimitsHonoured, [Next]_vars
  PROVE  LimitsHonoured'
<1>1. CASE Idles
  <2>1. Shrinks /\ (now' = now \/ (now' = now + 1 /\ used' = used))
    BY <1>1 DEF Idles
  <2>2. QED
    BY <2>1, LimitsShrink
<1>2. CASE Repays
  <2>1. Shrinks /\ now' = now
    BY <1>2 DEF Repays
  <2>2. QED
    BY <2>1, LimitsShrink
<1>3. QED
  BY <1>1, <1>2, StepKinds, LimitsReserve, LimitsExpand, LimitsSettle

\* The inductive invariant behind LimitsHonoured: that no usage is charged in advance
\* is what a new day needs.
LimitsInvariant == ChargeInvariant /\ (\A x \in Session : Past(x)) /\ LimitsHonoured

\* It holds of the empty ledger.
LEMMA LimitsInit == Init => LimitsInvariant
<1> SUFFICES ASSUME Init PROVE LimitsInvariant
  OBVIOUS
<1>1. ChargeInvariant /\ \A x \in Session : Past(x)
  BY ChargeInit DEF Init, Past, NoRow
<1>2. AllReserved(row) = 0
  BY <1>1 DEF ChargeInvariant, DeliveryInvariant, LedgerInvariant, BudgetExact, Init
<1>3. ASSUME NEW i \in Identity
      PROVE  /\ used[i][DayOf(now)] + Reserved(row, i) <= DailyQuota
             /\ Cardinality(ActiveSessions(row, i)) <= MaxActiveSessions
  <2>1. DayOf(now) \in Day
    BY <1>1, DayOfType DEF ChargeInvariant, DeliveryInvariant, LedgerInvariant, TypeOK
  <2>2. used[i][DayOf(now)] = 0
    BY <2>1 DEF Init
  <2>3. ActiveSessions(row, i) = {}
    BY DEF Init, ActiveSessions, Active, NoRow, Reserving
  <2>4. Reserved(row, i) = 0
    <3> DEFINE f == [x \in Session |-> IF Active(row, x) /\ row[x].identity = i
                                       THEN row[x].reserved ELSE 0]
    <3>1. f \in [Session -> Int] /\ \A x \in Session : f[x] = 0
      BY DEF Init, Active, NoRow, Reserving
    <3>2. Reserved(row, i) = SumFunctionOnSet(f, Session)
      BY DEF Reserved, Total
    <3> HIDE DEF f
    <3>3. QED
      BY <3>1, <3>2, SessionsAreNumbered, SumZero
  <2>5. Cardinality(ActiveSessions(row, i)) = 0
    BY <2>3, FS_EmptySet
  <2>6. QED
    BY <2>2, <2>4, <2>5, LimitsAreNumbers
<1>4. LimitsHonoured
  BY <1>2, <1>3, LimitsAreNumbers DEF LimitsHonoured
<1>5. QED
  BY <1>1, <1>4 DEF LimitsInvariant

\* It follows when the clock that a transaction reads before it waits for the write
\* lock is the clock it commits at.
LEMMA NoLagIsOnTheDay ==
  ASSUME ClockLag = 0
  PROVE  Spec => []OnTheDay
<1>1. ChargeInvariant => OnTheDay
  <2>1. ChargeInvariant => now \in Nat
    BY DEF ChargeInvariant, DeliveryInvariant, LedgerInvariant, TypeOK
  <2>2. now \in Nat => \A t \in Readings : t = now
    BY DEF Readings
  <2>3. QED
    BY <2>1, <2>2 DEF OnTheDay
<1>2. QED
  BY ChargeInvariantHolds, <1>1, PTL

\* No sequence of reservations, expansions, settlements and refunds passes the quota of
\* the day, the sessions of an identity or the budget of the service, also after merges,
\* as long as no transaction commits on another day than the one it read before it
\* waited for the write lock.
THEOREM LimitsAreHonoured == Spec /\ []OnTheDay => []LimitsHonoured
<1>1. LimitsInvariant /\ OnTheDay /\ [Next]_vars => LimitsInvariant'
  BY ChargeStep, PastStep, LimitsStep DEF LimitsInvariant
<1>2. LimitsInvariant => LimitsHonoured
  BY DEF LimitsInvariant
<1>3. QED
  BY LimitsInit, <1>1, <1>2, PTL DEF Spec

-----------------------------------------------------------------------------
(* What a stopped process leaves passes the checks of startup.             *)

\* No active session reserves more than a file may have.
Small == \A x \in Session : Active(row, x) => row[x].reserved <= MaxFileBytes

\* The process knows an address of every identity that has sessions or usage of today.
Owned == /\ keys # {}
         /\ \A i \in Identity :
              ActiveSessions(row, i) # {} \/ used[i][DayOf(now)] > 0
                => \E k \in keys, a \in Ip : hashOwner[k][a] = i

\* Owned after a step.
LEMMA OwnedNext ==
  Owned' <=> /\ keys' # {}
             /\ \A i \in Identity :
                  ActiveSessions(row', i) # {} \/ used'[i][DayOf(now')] > 0
                    => \E k \in keys', a \in Ip : hashOwner'[k][a] = i
BY DEF Owned, ActiveSessions, Active, DayOf

\* The reservations that are made and enlarged are of at most a file.
LEMMA SmallStep ==
  ASSUME ChargeInvariant, Small, [Next]_vars
  PROVE  Small'
<1> SUFFICES ASSUME NEW x \in Session, Active(row', x) PROVE row'[x].reserved <= MaxFileBytes
  BY DEF Small, Active
<1>0. /\ TypeOK /\ row \in [Session -> Row] /\ row[x] \in Row
      /\ Active(row, x) => row[x].reserved <= MaxFileBytes
  BY DEF ChargeInvariant, DeliveryInvariant, LedgerInvariant, TypeOK, Small
<1>1. ASSUME NEW s \in Session, NEW a \in Ip, NEW n \in 1 .. MaxFileBytes, NEW t \in Readings,
             Reserve(s, a, n, t)
      PROVE  row'[x].reserved <= MaxFileBytes
  <2>1. n <= MaxFileBytes
    BY LimitsAreNumbers
  <2>2. /\ x = s => row'[x].reserved = n
        /\ x # s => row'[x].state = row[x].state /\ row'[x].reserved = row[x].reserved
    BY <1>0, <1>1, ReservedRows
  <2>3. QED
    BY <1>0, <2>1, <2>2 DEF Active
<1>2. ASSUME NEW s \in Session, NEW n \in 1 .. MaxFileBytes, NEW t \in Readings,
             ExpandReceiving(s, n, t)
      PROVE  row'[x].reserved <= MaxFileBytes
  BY <1>0, <1>2 DEF ExpandReceiving, Active, Row
<1>3. ASSUME NEW s \in Session, NEW n \in 0 .. MaxFileBytes, NEW t \in Readings,
             Settle(s, n, t)
      PROVE  row'[x].reserved <= MaxFileBytes
  <2> DEFINE new == [row[s] EXCEPT !.state = "uploaded", !.reserved = 0, !.actual = n,
                                   !.chargedOn = DayOf(t), !.lease = 0]
  <2>1. row' = [row EXCEPT ![s] = new] /\ new.state = "uploaded"
    BY <1>0, <1>3 DEF Settle, Row, TypeOK
  <2> HIDE DEF new
  <2>2. row'[x] = row[x]
    BY <1>0, <2>1 DEF Active, Reserving
  <2>3. QED
    BY <1>0, <2>2 DEF Active
<1>4. CASE Idles \/ Repays
  BY <1>0, <1>4 DEF Idles, Repays, Shrinks
<1>5. QED
  BY <1>1, <1>2, <1>3, <1>4, StepKinds

\* The secrets of the process change when it opens the ledger.
LEMMA KeysKept ==
  ASSUME [Next]_vars
  PROVE  keys' = keys \/ \E ks \in SUBSET Key : OpenLedger(ks)
<1>1. ASSUME NEW s \in Session, SessionStep(s)
      PROVE  keys' = keys
  <2>1. ASSUME NEW a \in Ip, NEW n \in 1 .. MaxFileBytes, NEW t \in Readings, Reserve(s, a, n, t)
        PROVE  keys' = keys
    BY <2>1 DEF Reserve, processVars
  <2>2. ASSUME NEW n \in 1 .. MaxFileBytes, NEW t \in Readings, ExpandReceiving(s, n, t)
        PROVE  keys' = keys
    BY <2>2 DEF ExpandReceiving, processVars
  <2>3. ASSUME NEW t \in Readings, ClaimReceivingLease(s, t) \/ RenewReceivingLease(s, t)
        PROVE  keys' = keys
    BY <2>3 DEF ClaimReceivingLease, RenewReceivingLease, OnlyRowChanges, processVars
  <2>4. ASSUME NEW target \in {"receiving", "probing", "queued"}, Advance(s, target)
        PROVE  keys' = keys
    BY <2>4 DEF Advance, OnlyRowChanges, processVars
  <2>5. ASSUME Reject(s) \/ Expire(s)
        PROVE  keys' = keys
    BY <2>5 DEF Reject, Expire, processVars
  <2>6. QED
    BY <1>1, <2>1, <2>2, <2>3, <2>4, <2>5 DEF SessionStep
<1>2. ASSUME NEW s \in Session, SettlementStep(s)
      PROVE  keys' = keys
  <2>1. ASSUME NEW n \in 0 .. MaxFileBytes, NEW t \in Readings, Settle(s, n, t)
        PROVE  keys' = keys
    BY <2>1 DEF Settle, processVars
  <2>2. ASSUME NEW a \in Attempt, \/ BeginDeliveryAttempt(s, a)
                                 \/ MarkDeliveryPossible(s, a)
                                 \/ AbortDeliveryAttempt(s, a)
        PROVE  keys' = keys
    BY <2>2 DEF BeginDeliveryAttempt, MarkDeliveryPossible, AbortDeliveryAttempt, processVars
  <2>3. ASSUME \/ DropReceipt(s)
               \/ CompensateLateSettlement(s)
               \/ AcknowledgeSettlement(s)
        PROVE  keys' = keys
    BY <2>3 DEF DropReceipt, CompensateLateSettlement, AcknowledgeSettlement, processVars
  <2>4. QED
    BY <1>2, <2>1, <2>2, <2>3 DEF SettlementStep
<1>3. CASE MaintenanceStep
  BY <1>3 DEF MaintenanceStep, Reconcile, CleanUp, processVars
<1>4. CASE ProcessStep
  BY <1>4 DEF ProcessStep, Crash, CrashAfterUnlink, Stop, FinishOpen
<1>5. CASE Tick \/ UNCHANGED vars
  BY <1>5 DEF Tick, vars, processVars
<1>6. QED
  BY <1>1, <1>2, <1>3, <1>4, <1>5 DEF Next

\* A reservation is made under an identity that gets the hash of the address.
LEMMA OwnedReserve ==
  ASSUME ChargeInvariant, ChargeInvariant', Owned, NEW s \in Session, NEW a \in Ip,
         NEW n \in 1 .. MaxFileBytes, NEW t \in Readings, Reserve(s, a, n, t)
  PROVE  Owned'
<1> DEFINE F == Found(a)
           r == Resolved(a)
<1>0. /\ TypeOK /\ keys \in SUBSET Key /\ DayOf(now) \in Day
  BY DayOfType DEF ChargeInvariant, DeliveryInvariant, LedgerInvariant, TypeOK
<1>1. /\ r \in Identity /\ F \in SUBSET Identity /\ now' = now /\ keys' = keys
      /\ F = {hashOwner[k][a] : k \in keys} \ {NoIdentity}
      /\ used' = MergedUsed(F, r) /\ hashOwner' = MergedOwner(F, r, a)
  BY <1>0, FoundType DEF Reserve, clockVars, processVars, Found
<1>2. /\ row'[s].identity = r
      /\ \A x \in Session : x # s =>
           /\ row'[x].identity = IF row[x].identity \in F THEN r ELSE row[x].identity
           /\ row'[x].state = row[x].state
  BY <1>0, ReservedRows
<1> HIDE DEF F, r
<1>3. ASSUME NEW k \in keys, NEW b \in Ip
      PROVE  hashOwner'[k][b] = IF hashOwner[k][b] \in F \/ b = a THEN r ELSE hashOwner[k][b]
  BY <1>0, <1>1 DEF MergedOwner
<1>4. ASSUME NEW i \in Identity, ActiveSessions(row', i) # {} \/ used'[i][DayOf(now')] > 0
      PROVE  \E k \in keys', b \in Ip : hashOwner'[k][b] = i
  <2>1. CASE i = r
    <3>1. PICK k \in keys : TRUE
      BY DEF Owned
    <3>2. hashOwner'[k][a] = r
      BY <1>3
    <3>3. QED
      BY <1>1, <2>1, <3>2
  <2>2. CASE i # r
    <3>1. i \notin F /\ (ActiveSessions(row, i) # {} \/ used[i][DayOf(now)] > 0)
      <4>1. CASE ActiveSessions(row', i) # {}
        <5>1. PICK x \in Session : Active(row', x) /\ row'[x].identity = i
          BY <4>1 DEF ActiveSessions
        <5>2. x # s /\ row[x].identity = i /\ i \notin F /\ Active(row, x)
          BY <1>2, <2>2, <5>1 DEF Active
        <5>3. QED
          BY <5>2 DEF ActiveSessions
      <4>2. CASE used'[i][DayOf(now')] > 0
        <5>1. used'[i][DayOf(now)] > 0
          BY <1>1, <4>2
        <5>2. QED
          BY <1>0, <1>1, <2>2, <5>1 DEF MergedUsed
      <4>3. QED
        BY <1>4, <4>1, <4>2
    <3>2. PICK k \in keys, b \in Ip : hashOwner[k][b] = i
      BY <3>1 DEF Owned
    <3>3. i # NoIdentity
      BY IdentitiesAreNumbered DEF NoIdentity
    <3>4. b # a
      BY <1>1, <3>1, <3>2, <3>3
    <3>5. hashOwner'[k][b] = i
      BY <1>3, <3>1, <3>2, <3>4
    <3>6. QED
      BY <1>1, <3>5
  <2>3. QED
    BY <2>1, <2>2
<1>5. QED
  BY <1>1, <1>4, OwnedNext DEF Owned

\* A settlement charges an identity that has a session.
LEMMA OwnedSettle ==
  ASSUME ChargeInvariant, Owned, NEW s \in Session,
         NEW n \in 0 .. MaxFileBytes, NEW t \in Readings, Settle(s, n, t)
  PROVE  Owned'
<1> DEFINE j == row[s].identity
           new == [row[s] EXCEPT !.state = "uploaded", !.reserved = 0, !.actual = n,
                                 !.chargedOn = DayOf(t), !.lease = 0]
<1>0. /\ TypeOK /\ row \in [Session -> Row] /\ row[s] \in Row /\ DayOf(now) \in Day
      /\ used \in [Identity -> [Day -> Nat]]
  BY DayOfType DEF ChargeInvariant, DeliveryInvariant, LedgerInvariant, TypeOK
<1>1. /\ now' = now /\ keys' = keys /\ hashOwner' = hashOwner /\ row[s].state = "receiving"
      /\ used' = [used EXCEPT ![j][DayOf(t)] = @ + n] /\ row' = [row EXCEPT ![s] = new]
  BY DEF Settle, clockVars, processVars, aliasVars
<1>2. new.state = "uploaded"
  BY <1>0 DEF Row
<1> HIDE DEF new
<1>3. row'[s] = new /\ \A x \in Session : x # s => row'[x] = row[x]
  BY <1>0, <1>1
<1>4. ASSUME NEW i \in Identity, ActiveSessions(row', i) # {} \/ used'[i][DayOf(now')] > 0
      PROVE  ActiveSessions(row, i) # {} \/ used[i][DayOf(now)] > 0
  <2>1. CASE i = j
    BY <1>1, <2>1 DEF ActiveSessions, Active, Reserving
  <2>2. CASE i # j
    <3>1. used'[i] = used[i] /\ DayOf(now') = DayOf(now)
      BY <1>0, <1>1, <2>2
    <3>2. ActiveSessions(row', i) \subseteq ActiveSessions(row, i)
      BY <1>2, <1>3 DEF ActiveSessions, Active, Reserving
    <3>3. QED
      BY <1>4, <3>1, <3>2
  <2>3. QED
    BY <2>1, <2>2
<1>5. QED
  BY <1>1, <1>4, OwnedNext DEF Owned

\* Every step.
LEMMA OwnedStep ==
  ASSUME ChargeInvariant, ChargeInvariant', \A x \in Session : Past(x), Owned, [Next]_vars
  PROVE  Owned'
<1>0. TypeOK /\ TypeOK' /\ row \in [Session -> Row]
  BY DEF ChargeInvariant, DeliveryInvariant, LedgerInvariant, TypeOK
<1>1. ASSUME NEW ks \in SUBSET Key, OpenLedger(ks)
      PROVE  Owned'
  <2>1. /\ keys' = ks /\ ks # {} /\ now' = now /\ hashOwner' = hashOwner
        /\ StartupInvariants(row', used', ks)
    BY <1>1 DEF OpenLedger, CanOpen, RecoverAndExpire, clockVars, aliasVars
  <2>2. QED
    BY <2>1, OwnedNext DEF StartupInvariants
<1>2. ASSUME keys' = keys, hashOwner' = hashOwner, Shrinks,
             now' = now \/ (now' = now + 1 /\ used' = used)
      PROVE  Owned'
  <2>1. ASSUME NEW i \in Identity
        PROVE  /\ used[i][DayOf(now)] \in Nat /\ used'[i][DayOf(now')] \in Nat
               /\ used'[i][DayOf(now')] <= used[i][DayOf(now)]
               /\ ActiveSessions(row', i) \subseteq ActiveSessions(row, i)
    <3>1. ActiveSessions(row', i) \subseteq ActiveSessions(row, i)
      BY <1>2 DEF Shrinks, ActiveSessions
    <3>2. QED
      BY <1>2, <3>1, TodayShrinks
  <2>2. ASSUME NEW i \in Identity, ActiveSessions(row', i) # {} \/ used'[i][DayOf(now')] > 0
        PROVE  \E k \in keys', a \in Ip : hashOwner'[k][a] = i
    <3>1. ActiveSessions(row, i) # {} \/ used[i][DayOf(now)] > 0
      BY <2>1, <2>2
    <3>2. QED
      BY <1>2, <3>1 DEF Owned
  <2>3. QED
    BY <1>2, <2>2, OwnedNext DEF Owned
<1>3. ASSUME NEW s \in Session, NEW n \in 1 .. MaxFileBytes, NEW t \in Readings,
             ExpandReceiving(s, n, t)
      PROVE  Owned'
  <2>1. /\ keys' = keys /\ hashOwner' = hashOwner /\ now' = now /\ used' = used
        /\ \A x \in Session : row'[x].state = row[x].state /\ row'[x].identity = row[x].identity
    BY <1>0, <1>3 DEF ExpandReceiving, clockVars, processVars, aliasVars, Row
  <2>2. QED
    BY <2>1, OwnedNext DEF Owned, ActiveSessions, Active
<1>4. CASE Idles \/ Repays
  <2>1. /\ hashOwner' = hashOwner /\ Shrinks
        /\ now' = now \/ (now' = now + 1 /\ used' = used)
    BY <1>4 DEF Idles, Repays
  <2>2. QED
    BY <1>1, <1>2, <2>1, KeysKept
<1>5. QED
  BY <1>3, <1>4, StepKinds, OwnedReserve, OwnedSettle

\* A refund never adds to a usage.
LEMMA RefundLowers ==
  ASSUME TypeOK, NEW R \in SUBSET Session, \A x \in R : row[x].actual # NoBytes, NEW day,
         NEW i \in Identity, NEW d \in Day
  PROVE  UsedAfterRefund(R, day)[i][d] <= used[i][d]
<1> DEFINE f == [x \in Session |-> IF x \in Billed(R, day, i, d) THEN row[x].actual ELSE 0]
<1>1. f \in [Session -> Nat]
  BY DEF TypeOK, Row, Billed
<1>2. Bill(Billed(R, day, i, d)) = SumFunctionOnSet(f, Session)
  BY DEF Bill, Total
<1> HIDE DEF f
<1>3. SumFunctionOnSet(f, Session) \in Nat
  BY <1>1, SessionsAreNumbered, SumNat
<1>4. UsedAfterRefund(R, day)[i][d] = used[i][d] - Bill(Billed(R, day, i, d))
  BY DEF UsedAfterRefund
<1>5. used[i][d] \in Nat
  BY DEF TypeOK
<1>6. QED
  BY <1>2, <1>3, <1>4, <1>5

\* The inductive invariant behind StartupAccepts: the accounts, the limits, and that
\* the process has the secrets its own ledger needs.
StartInvariant == LimitsInvariant /\ BooksInvariant /\ Small /\ Owned

\* It makes every check of startup succeed.
LEMMA StartupSucceeds ==
  ASSUME StartInvariant
  PROVE  StartupAccepts
<1> DEFINE R == Unmarked(Pending)
           A == Abandoned(now)
           r == RowsAfter(R, A)
           u == UsedAfterRefund(Charged(R), IntentDay)
<1>0. /\ ChargeInvariant /\ LedgerInvariant /\ TypeOK /\ Owned /\ Small /\ LimitsHonoured
      /\ row \in [Session -> Row] /\ DayOf(now) \in Day
      /\ \A x \in Session : Kept(x) /\ Dated(x) /\ row[x] \in Row /\ Booked(x)
  BY DayOfType DEF StartInvariant, LimitsInvariant, BooksInvariant, ChargeInvariant,
                   DeliveryInvariant, LedgerInvariant, TypeOK
<1>1. /\ Pending \in SUBSET Session /\ \A x \in Pending : settlement[x].pending
      /\ R \in SUBSET Session /\ Charged(R) \in SUBSET Session
      /\ \A x \in Charged(R) : row[x].actual # NoBytes
  BY DEF Pending, Unmarked, Charged
<1>2. Recoverable(Pending)
  BY <1>0, <1>1, PendingRecoverable
<1>3. Freed(A) <= globalReserved
  BY <1>0, FreedCovered
<1>4. /\ r \in [Session -> Row]
      /\ \A x \in Session : Active(r, x) => Active(row, x) /\ r[x] = row[x]
  <2>1. ASSUME NEW x \in Session
        PROVE  r[x] \in Row /\ (Active(r, x) => Active(row, x) /\ r[x] = row[x])
    <3>1. r[x] = IF x \in R THEN Refunded(row[x]) ELSE IF x \in A THEN Expired(row[x]) ELSE row[x]
      BY DEF RowsAfter
    <3>2. /\ Refunded(row[x]).state = "expired" /\ Expired(row[x]).state = "expired"
          /\ Refunded(row[x]) \in Row /\ Expired(row[x]) \in Row
      BY <1>0, DeadRow, DeadRowType
    <3> HIDE DEF r, R, A
    <3>3. QED
      BY <1>0, <3>1, <3>2 DEF Active, Reserving
  <2>2. DOMAIN r = Session /\ r = [x \in Session |-> r[x]]
    BY DEF RowsAfter
  <2> HIDE DEF r
  <2>3. QED
    BY <2>1, <2>2
<1>5. u \in [Identity -> [Day -> Nat]]
  <2>1. Refundable(Charged(R), IntentDay)
    BY <1>2 DEF Recoverable
  <2>2. \A x \in Charged(R) : row[x].actual # NoBytes /\ IntentDay[x] \in Day
    BY <1>0, <1>1 DEF IntentDay, TypeOK, Intent
  <2> HIDE DEF R
  <2>3. QED
    BY <1>0, <1>1, <2>1, <2>2, RefundType
<1>6. ASSUME NEW i \in Identity
      PROVE  u[i][DayOf(now)] <= used[i][DayOf(now)]
  <2> HIDE DEF R
  <2>1. QED
    BY <1>0, <1>1, RefundLowers
<1> HIDE DEF R, A, r, u
<1>7. AllReserved(r) <= MaxGlobalReserved
  <2>1. \A x \in Session : row[x].reserved \in Nat
    BY <1>0 DEF Row
  <2>2. AllReserved(r) <= AllReserved(row)
    BY <1>0, <1>4, <2>1, AllReservedShrinks
  <2>3. AllReserved(r) \in Nat /\ AllReserved(row) \in Nat /\ AllReserved(row) <= MaxGlobalReserved
    BY <1>0, <1>4, TotalsType DEF LimitsHonoured
  <2>4. QED
    BY <2>2, <2>3, LimitsAreNumbers
<1>8. ASSUME NEW x \in Session, Active(r, x)
      PROVE  r[x].reserved <= MaxFileBytes /\ x \in files
  BY <1>0, <1>4, <1>8 DEF Small, Kept, Active, Reserving, Terminal
<1>9. ASSUME NEW i \in Identity
      PROVE  /\ u[i][DayOf(now)] + Reserved(r, i) <= DailyQuota
             /\ Cardinality(ActiveSessions(r, i)) <= MaxActiveSessions
             /\ ActiveSessions(r, i) # {} \/ u[i][DayOf(now)] > 0
                  => \E k \in keys, a \in Ip : hashOwner[k][a] = i
  <2>0. \A x \in Session : row[x].reserved \in Nat
    BY <1>0 DEF Row
  <2>1. /\ Reserved(r, i) <= Reserved(row, i)
        /\ Cardinality(ActiveSessions(r, i)) <= Cardinality(ActiveSessions(row, i))
    BY <1>0, <1>4, <2>0, ReservedShrinks
  <2>2. ActiveSessions(r, i) \in SUBSET ActiveSessions(row, i)
        /\ ActiveSessions(row, i) \in SUBSET Session
    BY <1>4 DEF ActiveSessions
  <2>3. IsFiniteSet(ActiveSessions(row, i)) /\ IsFiniteSet(ActiveSessions(r, i))
    BY <2>2, SessionsAreNumbered, FS_Subset
  <2>4. Cardinality(ActiveSessions(row, i)) \in Nat /\ Cardinality(ActiveSessions(r, i)) \in Nat
    BY <2>3, FS_CardinalityType
  <2>5. Reserved(row, i) \in Nat /\ Reserved(r, i) \in Nat
    BY <1>0, <1>4, TotalsType
  <2>6. used[i][DayOf(now)] \in Nat /\ u[i][DayOf(now)] \in Nat
    BY <1>0, <1>5 DEF TypeOK
  <2>7. /\ used[i][DayOf(now)] + Reserved(row, i) <= DailyQuota
        /\ Cardinality(ActiveSessions(row, i)) <= MaxActiveSessions
    BY <1>0 DEF LimitsHonoured
  <2>8. /\ u[i][DayOf(now)] + Reserved(r, i) <= DailyQuota
        /\ Cardinality(ActiveSessions(r, i)) <= MaxActiveSessions
    BY <1>6, <2>1, <2>4, <2>5, <2>6, <2>7, LimitsAreNumbers
  <2>9. ActiveSessions(r, i) # {} \/ u[i][DayOf(now)] > 0
          => ActiveSessions(row, i) # {} \/ used[i][DayOf(now)] > 0
    BY <1>6, <2>2, <2>6
  <2>10. QED
    BY <1>0, <2>8, <2>9 DEF Owned
<1>10. StartupInvariants(r, u, keys)
  BY <1>7, <1>8, <1>9 DEF StartupInvariants
<1>11. QED
  BY <1>2, <1>3, <1>10 DEF StartupAccepts, CanOpen, R, A, r, u

\* Whenever the process stops, the ledger it leaves can be opened with its secrets,
\* unless more settlements are pending than one startup recovers.
THEOREM StartupIsAccepted ==
  ASSUME MinUploadBytes >= 1
  PROVE  Spec /\ []OnTheDay => []StartupAccepts
<1>1. Init => StartInvariant
  <2> SUFFICES ASSUME Init PROVE StartInvariant
    OBVIOUS
  <2>1. LimitsInvariant /\ BooksInvariant
    BY LimitsInit, ChargeInit DEF BooksInvariant, Booked, Init, NoRow
  <2>2. DayOf(now) \in Day
    BY <2>1, DayOfType DEF LimitsInvariant, ChargeInvariant, DeliveryInvariant, LedgerInvariant,
                           TypeOK
  <2>3. \A x \in Session : ~Active(row, x)
    BY DEF Init, Active, NoRow, Reserving
  <2>4. Small /\ \A i \in Identity : ActiveSessions(row, i) = {}
    BY <2>3 DEF Small, ActiveSessions
  <2>5. keys # {} /\ \A i \in Identity : used[i][DayOf(now)] = 0
    BY <2>2 DEF Init
  <2>6. Owned
    BY <2>4, <2>5 DEF Owned
  <2>7. QED
    BY <2>1, <2>4, <2>6 DEF StartInvariant
<1>2. StartInvariant /\ OnTheDay /\ [Next]_vars => StartInvariant'
  <2> SUFFICES ASSUME StartInvariant, OnTheDay, [Next]_vars PROVE StartInvariant'
    OBVIOUS
  <2>1. /\ ChargeInvariant /\ LimitsHonoured /\ Small /\ Owned
        /\ \A x \in Session : Past(x) /\ Booked(x)
    BY DEF StartInvariant, LimitsInvariant, BooksInvariant
  <2>2. ChargeInvariant'
    BY <2>1, ChargeStep
  <2>3. (\A x \in Session : Past(x)') /\ (\A x \in Session : Booked(x)') /\ LimitsHonoured'
    BY <2>1, <2>2, PastStep, BookedStep, LimitsStep
  <2>4. Small' /\ Owned'
    BY <2>1, <2>2, SmallStep, OwnedStep
  <2>5. QED
    BY <2>2, <2>3, <2>4 DEF StartInvariant, LimitsInvariant, BooksInvariant
<1>3. StartInvariant => StartupAccepts
  BY StartupSucceeds
<1>4. QED
  BY <1>1, <1>2, <1>3, PTL DEF Spec
=============================================================================
