------------------------------ MODULE SumLemmas ------------------------------
(***************************************************************************)
(* What the proofs about the ledger and about voice time need to know of a *)
(* sum over members or handlers.  FoldFunction is a recursive function on  *)
(* sets; the lemmas go by a smallest set that would be an exception.       *)
(***************************************************************************)
EXTENDS Integers, Functions, FiniteSetTheorems, TLAPS

SumOf(f) == FoldFunction(+, 0, f)

Pick(s) == CHOOSE x \in s : TRUE

(* The equation the partial sums of f over subsets satisfy. *)
SumsStep(f, g) ==
    [s \in SUBSET DOMAIN f |->
        IF s = {} THEN 0 ELSE f[Pick(s)] + g[s \ {Pick(s)}]]

PartialSums(f) == CHOOSE g : g = SumsStep(f, g)

LEMMA SumIsPartialSum ==
    ASSUME NEW f
    PROVE  SumOf(f) = PartialSums(f)[DOMAIN f]
BY DEF SumOf, FoldFunction, FoldFunctionOnSet, MapThenFoldSet, PartialSums, SumsStep, Pick

LEMMA PickIn ==
    ASSUME NEW s, s # {}
    PROVE  Pick(s) \in s
BY DEF Pick

(* Induction over the subsets of a finite set, in the order of the fold: a  *)
(* set of exceptions that closes under taking Pick away is empty.           *)
LEMMA NoExceptions ==
    ASSUME NEW S, IsFiniteSet(S), NEW B \in SUBSET SUBSET S,
           \A s \in B : s # {} /\ s \ {Pick(s)} \in B
    PROVE  B = {}
<1> SUFFICES ASSUME B # {}
             PROVE  FALSE
    OBVIOUS
<1>1. IsWellFoundedOn(StrictSubsetOrdering(S), SUBSET S)
  BY FS_StrictSubsetOrderingWellFounded, FS_FiniteSubsetsOfFinite
<1>2. PICK s \in B : \A r \in B : ~(<<r, s>> \in StrictSubsetOrdering(S))
  BY <1>1, WFMin
<1>3. s \ {Pick(s)} \in B /\ s \ {Pick(s)} \subseteq s /\ s \ {Pick(s)} # s
  BY PickIn
<1> QED
  BY <1>2, <1>3 DEF StrictSubsetOrdering

-----------------------------------------------------------------------------
(* The subsets of S with at most n elements, and partial sums for them. *)
Small(S, n) == {s \in SUBSET S : Cardinality(s) <= n}

SumsUpTo(f, D, g) ==
    \A s \in D : g[s] = IF s = {} THEN 0 ELSE f[Pick(s)] + g[s \ {Pick(s)}]

LEMMA EmptySum ==
    ASSUME NEW f, NEW S, NEW g, SumsUpTo(f, SUBSET S, g)
    PROVE  g[{}] = 0
<1>1. {} \in SUBSET S
  OBVIOUS
<1> QED
  BY <1>1, Zenon DEF SumsUpTo

LEMMA SmallMinusPick ==
    ASSUME NEW S, IsFiniteSet(S), NEW n \in Nat, NEW s \in Small(S, n), s # {}
    PROVE  n # 0 /\ s \ {Pick(s)} \in Small(S, n - 1) /\ Pick(s) \in S
<1>1. IsFiniteSet(s) /\ s \subseteq S /\ Cardinality(s) <= n
  BY FS_Subset DEF Small
<1>2. Cardinality(s) \in Nat /\ Cardinality(s) # 0
  BY <1>1, FS_CardinalityType, FS_EmptySet
<1>3. Cardinality(s \ {Pick(s)}) = Cardinality(s) - 1
  BY <1>1, FS_RemoveElement, PickIn
<1> QED
  BY <1>1, <1>2, <1>3, PickIn DEF Small

(* They exist for every n: those for n extend those for n - 1. *)
LEMMA SmallSumsExist ==
    ASSUME NEW S, IsFiniteSet(S), NEW f \in [S -> Int], NEW n \in Nat
    PROVE  \E g \in [Small(S, n) -> Int] : SumsUpTo(f, Small(S, n), g)
<1> DEFINE Exists(m) == \E g \in [Small(S, m) -> Int] : SumsUpTo(f, Small(S, m), g)
           Bad == {m \in Nat : ~Exists(m)}
<1> SUFFICES ASSUME Bad # {}
             PROVE  FALSE
    OBVIOUS
<1>1. PICK m \in Bad : \A k \in Bad : ~(k < m)
  <2>1. PICK m \in Bad : \A k \in Bad : ~(<<k, m>> \in OpToRel(<, Nat))
    BY WFMin, NatLessThanWellFounded
  <2> QED
    BY <2>1 DEF OpToRel
<1>2. \E g : m # 0 => g \in [Small(S, m - 1) -> Int] /\ SumsUpTo(f, Small(S, m - 1), g)
  <2>1. CASE m = 0
    BY <2>1
  <2>2. CASE m # 0
    <3>1. m - 1 \in Nat /\ m - 1 < m
      BY <2>2
    <3>2. Exists(m - 1)
      BY <3>1, <1>1
    <3> QED
      BY <3>2
  <2> QED
    BY <2>1, <2>2
<1>3. PICK g : m # 0 => g \in [Small(S, m - 1) -> Int] /\ SumsUpTo(f, Small(S, m - 1), g)
  BY <1>2
<1> DEFINE h == [s \in Small(S, m) |->
                    IF s = {} THEN 0 ELSE f[Pick(s)] + g[s \ {Pick(s)}]]
<1> HIDE DEF Exists, Bad
<1>4. m \in Nat /\ ~Exists(m)
  BY <1>1 DEF Bad
<1>5. ASSUME NEW s \in Small(S, m)
      PROVE  h[s] \in Int /\ h[s] = IF s = {} THEN 0 ELSE f[Pick(s)] + h[s \ {Pick(s)}]
  <2>1. CASE s = {}
    BY <2>1
  <2>2. CASE s # {}
    <3> DEFINE r == s \ {Pick(s)}
    <3>1. m # 0 /\ r \in Small(S, m - 1) /\ Pick(s) \in S
      BY <2>2, <1>4, SmallMinusPick
    <3>2. g[r] \in Int /\ h[s] = f[Pick(s)] + g[r] /\ f[Pick(s)] \in Int
      BY <3>1, <2>2, <1>3
    <3>3. r \in Small(S, m)
      <4>1. IsFiniteSet(r) /\ r \in SUBSET S /\ Cardinality(r) <= m - 1
        BY <3>1, FS_Subset DEF Small
      <4>2. Cardinality(r) \in Nat
        BY <4>1, FS_CardinalityType
      <4> QED
        BY <4>1, <4>2, <1>4 DEF Small
    <3>4. h[r] = g[r]
      BY <3>1, <3>3, <1>3 DEF SumsUpTo
    <3> QED
      BY <3>2, <3>4, <2>2
  <2> QED
    BY <2>1, <2>2
<1>6. h \in [Small(S, m) -> Int] /\ SumsUpTo(f, Small(S, m), h)
  BY <1>5 DEF SumsUpTo
<1> QED
  BY <1>4, <1>6 DEF Exists

(* So PartialSums satisfies its equation, and sums integers to integers. *)
LEMMA PartialSumsUnfold ==
    ASSUME NEW S, IsFiniteSet(S), NEW f \in [S -> Int]
    PROVE  /\ PartialSums(f) \in [SUBSET S -> Int]
           /\ SumsUpTo(f, SUBSET S, PartialSums(f))
<1>1. Small(S, Cardinality(S)) = SUBSET S /\ Cardinality(S) \in Nat
  BY FS_Subset, FS_CardinalityType DEF Small
<1>2. PICK g \in [SUBSET S -> Int] : SumsUpTo(f, SUBSET S, g)
  <2>1. \A n \in Nat : \E g \in [Small(S, n) -> Int] : SumsUpTo(f, Small(S, n), g)
    BY SmallSumsExist
  <2>2. \E g \in [Small(S, Cardinality(S)) -> Int] : SumsUpTo(f, Small(S, Cardinality(S)), g)
    BY <2>1, <1>1
  <2> QED
    BY <2>2, <1>1
<1>3. g = SumsStep(f, g)
  BY <1>2 DEF SumsUpTo, SumsStep
<1> DEFINE P == PartialSums(f)
<1>4. P = SumsStep(f, P)
  BY <1>3 DEF PartialSums
<1> HIDE DEF P
<1>5. P = [s \in SUBSET S |-> P[s]] /\ SumsUpTo(f, SUBSET S, P)
  BY <1>4 DEF SumsStep, SumsUpTo
<1> DEFINE B == {s \in SUBSET S : P[s] \notin Int}
<1>6. ASSUME NEW s \in B
      PROVE  s # {} /\ s \ {Pick(s)} \in B
  <2>1. s # {}
    <3>1. P[{}] = 0
      BY <1>5, EmptySum
    <3>2. P[s] \notin Int
      OBVIOUS
    <3>3. s = {} => P[s] = 0
      BY <3>1, Zenon
    <3> QED
      BY <3>2, <3>3
  <2>2. P[s] = f[Pick(s)] + P[s \ {Pick(s)}] /\ f[Pick(s)] \in Int
    BY <2>1, <1>5, PickIn DEF SumsUpTo
  <2> QED
    BY <2>1, <2>2
<1>7. B = {}
  <2> HIDE DEF B
  <2>1. B \in SUBSET SUBSET S
    BY DEF B
  <2> QED
    BY <2>1, <1>6, NoExceptions
<1> QED
  BY <1>5, <1>7 DEF P

(* The sum of integers is an integer, ... *)
LEMMA SumInt ==
    ASSUME NEW S, IsFiniteSet(S), NEW f \in [S -> Int]
    PROVE  SumOf(f) \in Int
<1>1. PartialSums(f) \in [SUBSET S -> Int]
  BY PartialSumsUnfold
<1>2. PartialSums(f)[S] \in Int
  BY <1>1
<1> QED
  BY <1>2, SumIsPartialSum

(* ... that of naturals a natural. *)
LEMMA SumNat ==
    ASSUME NEW S, IsFiniteSet(S), NEW f \in [S -> Nat]
    PROVE  SumOf(f) \in Nat
<1> DEFINE P == PartialSums(f)
           B == {s \in SUBSET S : ~(P[s] >= 0)}
<1>1. f \in [S -> Int]
  OBVIOUS
<1>2. P \in [SUBSET S -> Int] /\ SumsUpTo(f, SUBSET S, P)
  BY <1>1, PartialSumsUnfold
<1> HIDE DEF P
<1>3. ASSUME NEW s \in B
      PROVE  s # {} /\ s \ {Pick(s)} \in B
  <2>1. s # {}
    <3>1. P[{}] = 0
      BY <1>2, EmptySum
    <3> QED
      BY <3>1
  <2>2. P[s] = f[Pick(s)] + P[s \ {Pick(s)}] /\ f[Pick(s)] \in Nat
        /\ P[s \ {Pick(s)}] \in Int
    BY <2>1, <1>2, PickIn DEF SumsUpTo
  <2> QED
    BY <2>1, <2>2
<1>4. B = {}
  <2> HIDE DEF B
  <2>1. B \in SUBSET SUBSET S
    BY DEF B
  <2> QED
    BY <2>1, <1>3, NoExceptions
<1> QED
  BY <1>1, <1>2, <1>4, SumIsPartialSum DEF P

(* Changing one summand changes the sum by as much. *)
LEMMA SumUpdate ==
    ASSUME NEW S, IsFiniteSet(S), NEW f \in [S -> Int], NEW i \in S, NEW v \in Int
    PROVE  SumOf([f EXCEPT ![i] = v]) = SumOf(f) - f[i] + v
<1> DEFINE h == [f EXCEPT ![i] = v]
           P == PartialSums(f)
           Q == PartialSums(h)
           Moved(s) == IF i \in s THEN P[s] - f[i] + v ELSE P[s]
           B == {s \in SUBSET S : Q[s] # Moved(s)}
<1>1. h \in [S -> Int] /\ h[i] = v /\ \A j \in S : j # i => h[j] = f[j]
  OBVIOUS
<1>2. P \in [SUBSET S -> Int] /\ SumsUpTo(f, SUBSET S, P)
  BY PartialSumsUnfold
<1>3. Q \in [SUBSET S -> Int] /\ SumsUpTo(h, SUBSET S, Q)
  BY <1>1, PartialSumsUnfold
<1> HIDE DEF P, Q, h
<1>4. ASSUME NEW s \in B
      PROVE  s # {} /\ s \ {Pick(s)} \in B
  <2>1. s # {}
    <3>1. P[{}] = 0 /\ Q[{}] = 0
      BY <1>2, <1>3, EmptySum
    <3> QED
      BY <3>1
  <2> DEFINE r == s \ {Pick(s)}
  <2>2. r \in SUBSET S /\ Pick(s) \in S /\ Pick(s) \in s
    BY <2>1, PickIn
  <2>3. P[s] = f[Pick(s)] + P[r] /\ Q[s] = h[Pick(s)] + Q[r]
    BY <2>1, <1>2, <1>3 DEF SumsUpTo
  <2>4. P[r] \in Int /\ Q[r] \in Int /\ f[Pick(s)] \in Int /\ h[Pick(s)] \in Int /\ f[i] \in Int
    BY <2>2, <1>1, <1>2, <1>3
  <2>5. ASSUME Q[r] = Moved(r)
        PROVE  Q[s] = Moved(s)
    <3>1. CASE Pick(s) = i
      BY <3>1, <2>5, <2>2, <2>3, <2>4, <1>1
    <3>2. CASE Pick(s) # i
      BY <3>2, <2>5, <2>2, <2>3, <2>4, <1>1
    <3> QED
      BY <3>1, <3>2
  <2> QED
    BY <2>1, <2>2, <2>5
<1>5. B = {}
  <2> HIDE DEF B
  <2>1. B \in SUBSET SUBSET S
    BY DEF B
  <2> QED
    BY <2>1, <1>4, NoExceptions
<1>6. Q[S] = Moved(S)
  BY <1>5
<1> QED
  BY <1>1, <1>6, SumIsPartialSum DEF P, Q, h

LEMMA SumChange ==
    ASSUME NEW S, IsFiniteSet(S), NEW f \in [S -> Int], NEW g \in [S -> Int],
           NEW i \in S, \A j \in S : j # i => g[j] = f[j]
    PROVE  SumOf(g) = SumOf(f) + (g[i] - f[i])
<1>1. PICK v \in Int : v = g[i]
  OBVIOUS
<1>2. g = [f EXCEPT ![i] = v]
  BY <1>1
<1>3. SumOf([f EXCEPT ![i] = v]) = SumOf(f) - f[i] + v
  BY SumUpdate
<1>4. SumOf(g) = SumOf(f) - f[i] + v
  BY <1>2, <1>3, Zenon
<1>5. f[i] \in Int /\ SumOf(f) \in Int
  BY SumInt
<1> QED
  BY <1>1, <1>4, <1>5

(* A sum with one summand that is not zero. *)
LEMMA SumZero ==
    ASSUME NEW S, IsFiniteSet(S)
    PROVE  SumOf([i \in S |-> 0]) = 0
<1> DEFINE f == [i \in S |-> 0]
           P == PartialSums(f)
           B == {s \in SUBSET S : P[s] # 0}
<1>1. f \in [S -> Int] /\ \A i \in S : f[i] = 0
  OBVIOUS
<1>2. P \in [SUBSET S -> Int] /\ SumsUpTo(f, SUBSET S, P)
  BY <1>1, PartialSumsUnfold
<1> HIDE DEF P, f
<1>3. ASSUME NEW s \in B
      PROVE  s # {} /\ s \ {Pick(s)} \in B
  <2>1. s # {}
    <3>1. P[{}] = 0
      BY <1>2, EmptySum
    <3> QED
      BY <3>1, Zenon
  <2>2. Pick(s) \in S /\ s \ {Pick(s)} \in SUBSET S
    BY <2>1, PickIn
  <2>3. P[s] = f[Pick(s)] + P[s \ {Pick(s)}] /\ f[Pick(s)] = 0
    BY <2>1, <2>2, <1>1, <1>2 DEF SumsUpTo
  <2> QED
    BY <2>1, <2>2, <2>3, <1>2
<1>4. B = {}
  <2> HIDE DEF B
  <2>1. B \in SUBSET SUBSET S
    BY DEF B
  <2> QED
    BY <2>1, <1>3, NoExceptions
<1>5. P[S] = 0
  BY <1>4
<1> QED
  BY <1>1, <1>5, SumIsPartialSum DEF P, f

LEMMA SumSingle ==
    ASSUME NEW S, IsFiniteSet(S), NEW f \in [S -> Int], NEW i \in S,
           \A j \in S : j # i => f[j] = 0
    PROVE  SumOf(f) = f[i]
<1> DEFINE zero == [j \in S |-> 0]
<1>1. zero \in [S -> Int] /\ \A j \in S : zero[j] = 0
  OBVIOUS
<1>2. SumOf(zero) = 0
  BY SumZero
<1> HIDE DEF zero
<1>3. SumOf(f) = SumOf(zero) + (f[i] - zero[i])
  BY <1>1, SumChange
<1> QED
  BY <1>1, <1>2, <1>3
=============================================================================
