------------------------------ MODULE FiniteSums ------------------------------
(* What the proofs need of sums over a finite set: the sum is a natural       *)
(* number, it is zero when every term is, and changing one term changes it by *)
(* as much.  Sums are those of MapThenSumSet, a fold that takes the elements  *)
(* in the order of a CHOOSE; its recursion is shown to have a solution by     *)
(* induction on the number of elements, written as a least counterexample.    *)
EXTENDS FiniteSetsExt, FiniteSetTheorems, WellFoundedInduction, TLAPS

\* The element that the fold takes first.
Pick(s) == CHOOSE x \in s : TRUE

\* The sum of f[x] over the elements of S.
SumOf(f, S) == MapThenSumSet(LAMBDA x : f[x], S)

\* The sums of f over the subsets of S, as the fold computes them.
Partial(f, S) ==
  CHOOSE sum : sum = [s \in SUBSET S |->
                        IF s = {} THEN 0 ELSE f[Pick(s)] + sum[s \ {Pick(s)}]]

\* The fold's value at S is that of the recursion.
LEMMA SumIsPartial ==
  ASSUME NEW f, NEW S
  PROVE  SumOf(f, S) = Partial(f, S)[S]
BY DEF SumOf, Partial, Pick, MapThenSumSet, MapThenFoldSet

\* Induction over the subsets of a finite set: a set of counterexamples has a minimal one.
LEMMA Minimal ==
  ASSUME NEW S, IsFiniteSet(S), NEW T \in SUBSET (SUBSET S), T # {}
  PROVE  \E s \in T : \A t \in T : t \subseteq s => t = s
<1>1. IsWellFoundedOn(StrictSubsetOrdering(S), SUBSET S)
  BY FS_StrictSubsetOrderingWellFounded, FS_FiniteSubsetsOfFinite
<1>2. PICK s \in T : \A t \in T : ~ (<<t, s>> \in StrictSubsetOrdering(S))
  BY <1>1, WFMin
<1> QED BY <1>2 DEF StrictSubsetOrdering

\* Induction over the naturals: a set of counterexamples has a least one.
LEMMA Least ==
  ASSUME NEW T \in SUBSET Nat, T # {}
  PROVE  \E n \in T : \A m \in T : ~ (m < n)
<1>1. PICK n \in T : \A m \in T : ~ (<<m, n>> \in OpToRel(<, Nat))
  BY NatLessThanWellFounded, WFMin
<1> QED BY <1>1 DEF OpToRel

\* One step of the recursion, the sums of smaller sets given by g.
Step(f, g, s) == IF s = {} THEN 0 ELSE f[Pick(s)] + g[s \ {Pick(s)}]

\* The subsets of at most n elements.
UpTo(S, n) == {s \in SUBSET S : Cardinality(s) <= n}

\* The fold takes an element of the set.
LEMMA PickIn == ASSUME NEW s, s # {} PROVE Pick(s) \in s
BY DEF Pick

\* What is left after taking one element is smaller.
LEMMA Below ==
  ASSUME NEW S, IsFiniteSet(S), NEW n \in Nat, NEW s \in UpTo(S, n + 1), s # {}
  PROVE  s \ {Pick(s)} \in UpTo(S, n)
<1>1. Pick(s) \in s
  BY PickIn
<1>2. IsFiniteSet(s) /\ s \in SUBSET S /\ Cardinality(s) <= n + 1
  BY FS_Subset DEF UpTo
<1>3. Cardinality(s \ {Pick(s)}) = Cardinality(s) - 1 /\ Cardinality(s) \in Nat
  BY <1>1, <1>2, FS_RemoveElement, FS_CardinalityType
<1> QED BY <1>2, <1>3 DEF UpTo

\* The recursion has a solution on the subsets of at most n elements.
LEMMA Defined ==
  ASSUME NEW f, NEW S, IsFiniteSet(S), NEW n \in Nat
  PROVE  \E g : g = [s \in UpTo(S, n) |-> Step(f, g, s)]
<1> DEFINE Bad == {k \in Nat : ~ \E g : g = [s \in UpTo(S, k) |-> Step(f, g, s)]}
<1> SUFFICES Bad = {}
  OBVIOUS
<1> SUFFICES ASSUME Bad # {} PROVE FALSE
  OBVIOUS
<1>1. PICK k \in Bad : \A m \in Bad : ~ (m < k)
  <2> HIDE DEF Bad
  <2>1. Bad \in SUBSET Nat
    BY DEF Bad
  <2> QED BY <2>1, Least
<1>2. CASE k = 0
  <2> DEFINE g == [s \in UpTo(S, 0) |-> 0]
  <2>1. ASSUME NEW s \in UpTo(S, 0) PROVE s = {}
    <3>1. IsFiniteSet(s) /\ Cardinality(s) <= 0
      BY FS_Subset DEF UpTo
    <3> QED BY <3>1, FS_EmptySet, FS_CardinalityType
  <2>2. g = [s \in UpTo(S, 0) |-> Step(f, g, s)]
    BY <2>1 DEF Step
  <2> HIDE DEF g
  <2> QED BY <1>1, <1>2, <2>2
<1>3. CASE k # 0
  <2> DEFINE n1 == k - 1
  <2>1. n1 \in Nat /\ n1 < k /\ n1 + 1 = k /\ k \in Nat
    BY <1>3
  <2>2. n1 \notin Bad
    BY <1>1, <2>1
  <2>3. PICK g : g = [s \in UpTo(S, n1) |-> Step(f, g, s)]
    BY <2>1, <2>2
  <2> DEFINE h == [s \in UpTo(S, k) |-> Step(f, g, s)]
  <2>4. ASSUME NEW s \in UpTo(S, k) PROVE Step(f, g, s) = Step(f, h, s)
    <3>1. CASE s = {}
      BY <3>1 DEF Step
    <3>2. CASE s # {}
      <4> DEFINE t == s \ {Pick(s)}
      <4>1. t \in UpTo(S, n1)
        BY <2>1, <3>2, Below
      <4>2. t \in UpTo(S, k)
        BY <2>1, <4>1, FS_Subset, FS_CardinalityType DEF UpTo
      <4>3. g[t] = Step(f, g, t)
        BY <2>3, <4>1
      <4>4. h[t] = Step(f, g, t)
        BY <4>2
      <4> QED BY <3>2, <4>3, <4>4 DEF Step
    <3> QED BY <3>1, <3>2
  <2>5. h = [s \in UpTo(S, k) |-> Step(f, h, s)]
    BY <2>4
  <2> HIDE DEF h
  <2> QED BY <1>1, <2>5
<1> QED BY <1>2, <1>3

\* On a finite set the CHOOSE of the recursion is a solution of it.
LEMMA PartialStep ==
  ASSUME NEW f, NEW S, IsFiniteSet(S), NEW s \in SUBSET S
  PROVE  Partial(f, S)[s] = Step(f, Partial(f, S), s)
<1> DEFINE n == Cardinality(S)
<1>1. n \in Nat
  BY FS_CardinalityType
<1>2. UpTo(S, n) = SUBSET S
  BY FS_Subset DEF UpTo
<1>3. \E g : g = [u \in SUBSET S |-> Step(f, g, u)]
  <2> HIDE DEF n
  <2>1. \E g : g = [u \in UpTo(S, n) |-> Step(f, g, u)]
    BY <1>1, Defined
  <2> QED BY <1>2, <2>1
<1>4. Partial(f, S) = CHOOSE g : g = [u \in SUBSET S |-> Step(f, g, u)]
  BY DEF Partial, Step
<1>5. Partial(f, S) = [u \in SUBSET S |-> Step(f, Partial(f, S), u)]
  BY <1>3, <1>4
<1> QED BY <1>5

\* The two cases of the recursion.
LEMMA PartialEmpty ==
  ASSUME NEW f, NEW S, IsFiniteSet(S)
  PROVE  Partial(f, S)[{}] = 0
BY PartialStep DEF Step

\* The second case, with what the induction needs to know of the smaller set.
LEMMA PartialPick ==
  ASSUME NEW f, NEW S, IsFiniteSet(S), NEW s \in SUBSET S, s # {}
  PROVE  /\ Pick(s) \in s /\ s \ {Pick(s)} \in SUBSET S
         /\ s \ {Pick(s)} \subseteq s /\ s \ {Pick(s)} # s
         /\ Partial(f, S)[s] = f[Pick(s)] + Partial(f, S)[s \ {Pick(s)}]
<1>1. Pick(s) \in s
  BY PickIn
<1>2. Partial(f, S)[s] = Step(f, Partial(f, S), s)
  BY PartialStep
<1> QED BY <1>1, <1>2 DEF Step

\* Partial sums of naturals are naturals.
LEMMA PartialType ==
  ASSUME NEW S, IsFiniteSet(S), NEW f \in [S -> Nat], NEW s \in SUBSET S
  PROVE  Partial(f, S)[s] \in Nat
<1> DEFINE Bad == {u \in SUBSET S : Partial(f, S)[u] \notin Nat}
<1> SUFFICES ASSUME Bad # {} PROVE FALSE
  OBVIOUS
<1>1. PICK u \in Bad : \A v \in Bad : v \subseteq u => v = u
  <2> HIDE DEF Bad
  <2>1. Bad \in SUBSET (SUBSET S)
    BY DEF Bad
  <2> QED BY <2>1, Minimal
<1>2. u # {}
  <2>1. Partial(f, S)[{}] = 0
    BY PartialEmpty
  <2> QED BY <1>1, <2>1
<1> DEFINE v == u \ {Pick(u)}
<1>3. /\ Pick(u) \in u /\ v \in SUBSET S /\ v \subseteq u /\ v # u
      /\ Partial(f, S)[u] = f[Pick(u)] + Partial(f, S)[v]
  BY <1>1, <1>2, PartialPick
<1>4. v \notin Bad
  BY <1>1, <1>3
<1> QED BY <1>1, <1>3, <1>4

\* A change of one term changes the sums of the sets that have it.
LEMMA PartialChange ==
  ASSUME NEW S, IsFiniteSet(S), NEW f \in [S -> Nat], NEW g \in [S -> Nat], NEW t \in S,
         \A x \in S \ {t} : g[x] = f[x], NEW s \in SUBSET S
  PROVE  Partial(g, S)[s] = Partial(f, S)[s] + (IF t \in s THEN g[t] - f[t] ELSE 0)
<1> DEFINE Same(u) ==
      Partial(g, S)[u] = Partial(f, S)[u] + (IF t \in u THEN g[t] - f[t] ELSE 0)
<1> DEFINE Bad == {u \in SUBSET S : ~ Same(u)}
<1> SUFFICES ASSUME Bad # {} PROVE FALSE
  OBVIOUS
<1>1. PICK u \in Bad : \A v \in Bad : v \subseteq u => v = u
  <2> HIDE DEF Bad
  <2>1. Bad \in SUBSET (SUBSET S)
    BY DEF Bad
  <2> QED BY <2>1, Minimal
<1>2. u # {}
  <2>1. Partial(f, S)[{}] = 0 /\ Partial(g, S)[{}] = 0
    BY PartialEmpty
  <2>2. Same({})
    BY <2>1
  <2> QED BY <1>1, <2>2
<1> DEFINE x == Pick(u)
           v == u \ {Pick(u)}
<1>3. /\ x \in u /\ v \in SUBSET S /\ v \subseteq u /\ v # u
      /\ Partial(f, S)[u] = f[x] + Partial(f, S)[v]
      /\ Partial(g, S)[u] = g[x] + Partial(g, S)[v]
  <2>1. u \in SUBSET S
    BY <1>1
  <2> HIDE DEF Bad
  <2>2. Partial(f, S)[u] = f[x] + Partial(f, S)[v]
    BY <1>2, <2>1, PartialPick
  <2>3. Partial(g, S)[u] = g[x] + Partial(g, S)[v]
    BY <1>2, <2>1, PartialPick
  <2> QED BY <1>2, <2>1, <2>2, <2>3, PickIn
<1>4. Same(v)
  BY <1>1, <1>3
<1>5. /\ f[x] \in Nat /\ g[x] \in Nat /\ f[t] \in Nat /\ g[t] \in Nat
      /\ Partial(f, S)[v] \in Nat /\ Partial(g, S)[v] \in Nat
  BY <1>1, <1>3, PartialType
<1>6. CASE x = t
  <2>1. t \in u /\ t \notin v
    BY <1>3, <1>6
  <2>2. Same(u)
    BY <1>3, <1>4, <1>5, <1>6, <2>1
  <2> QED BY <1>1, <2>2
<1>7. CASE x # t
  <2>1. (t \in u <=> t \in v) /\ g[x] = f[x]
    BY <1>1, <1>3, <1>7
  <2>2. Same(u)
    BY <1>3, <1>4, <1>5, <2>1
  <2> QED BY <1>1, <2>2
<1> QED BY <1>6, <1>7

\* A sum without a term is zero, and so is a sum of zeros.
LEMMA SumOfZeros ==
  ASSUME NEW S, IsFiniteSet(S), NEW f \in [S -> Nat], \A x \in S : f[x] = 0
  PROVE  SumOf(f, S) = 0
<1> DEFINE Bad == {u \in SUBSET S : Partial(f, S)[u] # 0}
<1>1. Bad = {}
  <2> SUFFICES ASSUME Bad # {} PROVE FALSE
    OBVIOUS
  <2>1. PICK u \in Bad : \A v \in Bad : v \subseteq u => v = u
    <3> HIDE DEF Bad
    <3>1. Bad \in SUBSET (SUBSET S)
      BY DEF Bad
    <3> QED BY <3>1, Minimal
  <2>2. u # {}
    <3>1. Partial(f, S)[{}] = 0
      BY PartialEmpty
    <3> QED BY <2>1, <3>1
  <2> DEFINE v == u \ {Pick(u)}
  <2>3. /\ Pick(u) \in u /\ v \in SUBSET S /\ v \subseteq u /\ v # u
        /\ Partial(f, S)[u] = f[Pick(u)] + Partial(f, S)[v]
    BY <2>1, <2>2, PartialPick
  <2>4. Partial(f, S)[v] = 0
    BY <2>1, <2>3
  <2> QED BY <2>1, <2>3, <2>4
<1> QED BY <1>1, SumIsPartial

\* A sum of naturals is a natural.
LEMMA SumOfNaturals ==
  ASSUME NEW S, IsFiniteSet(S), NEW f \in [S -> Nat]
  PROVE  SumOf(f, S) \in Nat
BY PartialType, SumIsPartial

\* A sum changes by as much as its only changed term.
LEMMA SumOfChanged ==
  ASSUME NEW S, IsFiniteSet(S), NEW f \in [S -> Nat], NEW g \in [S -> Nat], NEW t \in S,
         \A x \in S \ {t} : g[x] = f[x]
  PROVE  SumOf(g, S) = SumOf(f, S) + (g[t] - f[t])
<1>1. Partial(g, S)[S] = Partial(f, S)[S] + (g[t] - f[t])
  BY PartialChange
<1> QED BY <1>1, SumIsPartial
==============================================================================
