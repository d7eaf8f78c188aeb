------------------------- MODULE DistributedProofs --------------------------
(***************************************************************************)
(* Proofs about the distributed part: that the shares of a segment         *)
(* sequence make up the whole, that its arrival stripes release each       *)
(* arrival on one node, and that the controller of Distributed             *)
(* merges a whole job or none, for every number of agents and peers, every *)
(* workload and every way the peers fail.                                  *)
(***************************************************************************)
EXTENDS Distributed, ArrivalStripes, FiniteSetTheorems, TLAPS

-----------------------------------------------------------------------------
(* Induction over the natural numbers, by a set without a least            *)
(* counterexample, and sums over finite sets.                              *)

\* The order of the natural numbers, as a relation.
Less == {ss \in Nat \X Nat : ss[1] < ss[2]}

\* A set that holds 0 and the successor of each of its numbers holds them all.
LEMMA NatSet ==
  ASSUME NEW T, 0 \in T, \A n \in Nat : n \in T => n + 1 \in T
  PROVE  \A n \in Nat : n \in T
<1> DEFINE F == {n \in Nat : n \notin T}
<1>1. IsWellFoundedOn(Less, Nat)
  BY NatLessThanWellFounded DEF OpToRel, Less
<1>2. ASSUME F # {} PROVE FALSE
  <2>1. PICK m \in F : \A y \in F : <<y, m>> \notin Less
    <3>1. F \subseteq Nat
      OBVIOUS
    <3> HIDE DEF F
    <3> QED
      BY <1>1, <1>2, <3>1, WFMin
  <2>2. m \in Nat /\ m - 1 \in Nat
    OBVIOUS
  <2>3. <<m - 1, m>> \in Less
    BY <2>2 DEF Less
  <2>4. m - 1 \in T
    BY <2>1, <2>2, <2>3
  <2> QED
    BY <2>2, <2>4
<1> QED
  BY <1>2

\* What a sum picks from a set, and what it makes of the sums of smaller sets.
Pick(s) == CHOOSE x \in s : TRUE
SumRule(g, f, s) == g[s] = IF s = {} THEN 0 ELSE f[Pick(s)] + g[s \ {Pick(s)}]
SumsUp(g, f, S) == \A s \in SUBSET S : SumRule(g, f, s)
AnyOrder(g, f, S) ==
  g[{}] = 0 /\ \A s \in SUBSET S : g[s] \in Int /\ \A x \in s : g[s] = f[x] + g[s \ {x}]

\* The sum of a function's values over a set.
Total(f, S) == MapThenSumSet(LAMBDA i : f[i], S)

\* A set without one of its elements.
LEMMA OneLess ==
  ASSUME NEW S, IsFiniteSet(S), NEW s \in SUBSET S
  PROVE  /\ IsFiniteSet(s) /\ Cardinality(s) \in Nat /\ (s = {} <=> Cardinality(s) = 0)
         /\ s # {} => Pick(s) \in s
         /\ \A x \in s : s \ {x} \in SUBSET S /\ Cardinality(s \ {x}) = Cardinality(s) - 1
BY FS_Subset, FS_EmptySet, FS_RemoveElement, FS_CardinalityType DEF Pick

\* There is a function that gives every subset its sum.
LEMMA SumExists ==
  ASSUME NEW S, IsFiniteSet(S), NEW f \in [S -> Int]
  PROVE  \E g \in [SUBSET S -> Int] : SumsUp(g, f, S)
<1> DEFINE T == {n \in Nat : \E g \in [SUBSET S -> Int] :
                   \A s \in SUBSET S : Cardinality(s) <= n => SumRule(g, f, s)}
<1>1. 0 \in T
  <2> DEFINE g == [s \in SUBSET S |-> 0]
  <2>1. g \in [SUBSET S -> Int]
    OBVIOUS
  <2>2. \A s \in SUBSET S : Cardinality(s) <= 0 => SumRule(g, f, s)
    BY OneLess DEF SumRule
  <2> QED
    BY <2>1, <2>2
<1>2. ASSUME NEW n \in Nat, n \in T PROVE n + 1 \in T
  <2>1. PICK g \in [SUBSET S -> Int] : \A s \in SUBSET S : Cardinality(s) <= n => SumRule(g, f, s)
    BY <1>2
  <2> DEFINE h == [s \in SUBSET S |-> IF Cardinality(s) <= n THEN g[s]
                                      ELSE f[Pick(s)] + g[s \ {Pick(s)}]]
  <2>2. h \in [SUBSET S -> Int]
    <3>1. ASSUME NEW s \in SUBSET S, ~(Cardinality(s) <= n)
          PROVE  f[Pick(s)] + g[s \ {Pick(s)}] \in Int
      <4>1. Pick(s) \in S /\ s \ {Pick(s)} \in SUBSET S
        BY <3>1, OneLess
      <4> QED
        BY <4>1
    <3> QED
      BY <3>1
  <2>3. ASSUME NEW s \in SUBSET S, Cardinality(s) <= n + 1
        PROVE  SumRule(h, f, s)
    <3>0. Cardinality(s) \in Nat
      BY OneLess
    <3>1. CASE s = {}
      <4>1. Cardinality(s) <= n
        BY <3>1, OneLess
      <4> QED
        BY <3>1, <4>1, <2>1 DEF SumRule
    <3>2. CASE s # {}
      <4>1. /\ Pick(s) \in s /\ s \ {Pick(s)} \in SUBSET S
            /\ Cardinality(s \ {Pick(s)}) = Cardinality(s) - 1
        BY <3>2, OneLess
      <4>2. h[s \ {Pick(s)}] = g[s \ {Pick(s)}]
        BY <4>1, <3>0, <2>3
      <4>3. h[s] = f[Pick(s)] + g[s \ {Pick(s)}]
        BY <3>2, <2>1 DEF SumRule
      <4> HIDE DEF h
      <4> QED
        BY <3>2, <4>2, <4>3 DEF SumRule
    <3> QED
      BY <3>1, <3>2
  <2> HIDE DEF h
  <2> QED
    BY <2>2, <2>3
<1>3. Cardinality(S) \in T
  <2>1. Cardinality(S) \in Nat
    BY FS_CardinalityType
  <2> HIDE DEF T
  <2> QED
    BY <1>1, <1>2, <2>1, NatSet
<1>4. \A s \in SUBSET S : Cardinality(s) <= Cardinality(S)
  BY FS_Subset
<1> QED
  BY <1>3, <1>4 DEF SumsUp

\* So the sum over a set is its element plus the sum of the rest, whichever
\* element is taken.
LEMMA SumAnyOrder ==
  ASSUME NEW S, IsFiniteSet(S), NEW f \in [S -> Int],
         NEW g, SumsUp(g, f, S)
  PROVE  AnyOrder(g, f, S)
<1>0. \A s \in SUBSET S : SumRule(g, f, s)
  BY DEF SumsUp
<1> DEFINE Any(s) == g[s] \in Int /\ \A x \in s : g[s] = f[x] + g[s \ {x}]
           T == {n \in Nat : \A s \in SUBSET S : Cardinality(s) <= n => Any(s)}
<1>1. 0 \in T
  <2>1. \A s \in SUBSET S : Cardinality(s) <= 0 => s = {}
    BY OneLess
  <2>2. {} \in SUBSET S /\ g[{}] = 0
    BY <1>0 DEF SumRule
  <2>3. Any({})
    BY <2>2
  <2> HIDE DEF Any
  <2> QED
    BY <2>1, <2>2, <2>3
<1>2. ASSUME NEW n \in Nat, n \in T PROVE n + 1 \in T
  <2> SUFFICES ASSUME NEW s \in SUBSET S, Cardinality(s) = n + 1
               PROVE  Any(s)
    <3>1. \A s \in SUBSET S : Cardinality(s) \in Nat
      BY OneLess
    <3> HIDE DEF Any
    <3> QED
      BY <1>2, <3>1
  <2>1. /\ s # {} /\ Pick(s) \in s
        /\ \A x \in s : s \ {x} \in SUBSET S /\ Cardinality(s \ {x}) = n
    BY OneLess
  <2>2. g[s] = f[Pick(s)] + g[s \ {Pick(s)}]
    BY <1>0, <2>1 DEF SumRule
  <2>3. \A x \in s : Any(s \ {x})
    <3> HIDE DEF Any
    <3> QED
      BY <1>2, <2>1
  <2>4. \A x \in s : f[x] \in Int /\ g[s \ {x}] \in Int
    BY <2>3
  <2>5. ASSUME NEW x \in s, x # Pick(s) PROVE g[s] = f[x] + g[s \ {x}]
    <3> DEFINE r == (s \ {Pick(s)}) \ {x}
    <3>1. g[s \ {Pick(s)}] = f[x] + g[r]
      BY <2>1, <2>3, <2>5
    <3>2. g[s \ {x}] = f[Pick(s)] + g[(s \ {x}) \ {Pick(s)}]
      BY <2>1, <2>3, <2>5
    <3>3. (s \ {x}) \ {Pick(s)} = r
      OBVIOUS
    <3>4. g[r] \in Int
      <4>1. s \ {Pick(s)} \in SUBSET S /\ x \in s \ {Pick(s)} /\ Cardinality(s \ {Pick(s)}) = n
        BY <2>1, <2>5
      <4>2. r \in SUBSET S /\ Cardinality(r) = n - 1
        BY <4>1, OneLess
      <4>3. Any(r)
        <5> HIDE DEF Any, r
        <5> QED
          BY <1>2, <4>2
      <4> QED
        BY <4>3
    <3> HIDE DEF r
    <3>5. f[x] \in Int /\ f[Pick(s)] \in Int
      BY <2>1, <2>4
    <3>6. g[s] = f[Pick(s)] + (f[x] + g[r])
      BY <2>2, <3>1
    <3>7. g[s \ {x}] = f[Pick(s)] + g[r]
      BY <3>2, <3>3
    <3> QED
      BY <3>4, <3>5, <3>6, <3>7
  <2>6. g[s] \in Int
    BY <2>1, <2>2, <2>4
  <2> QED
    BY <2>2, <2>5, <2>6
<1> HIDE DEF T, Any
<1>3. \A n \in Nat : n \in T
  BY <1>1, <1>2, NatSet
<1>4. \A s \in SUBSET S : Any(s)
  <2>1. \A s \in SUBSET S : Cardinality(s) \in Nat
    BY OneLess
  <2> QED
    BY <1>3, <2>1 DEF T
<1>5. g[{}] = 0
  BY <1>0 DEF SumRule
<1> QED
  BY <1>4, <1>5 DEF Any, AnyOrder

\* MapThenSumSet follows the rule, so it is the sum in any order.
LEMMA SumOf ==
  ASSUME NEW S, IsFiniteSet(S), NEW f \in [S -> Int]
  PROVE  \E g : Total(f, S) = g[S] /\ AnyOrder(g, f, S)
<1> DEFINE Rec(g) == g = [s \in SUBSET S |-> IF s = {} THEN 0
                                          ELSE f[Pick(s)] + g[s \ {Pick(s)}]]
           sum == CHOOSE g : Rec(g)
<1>1. Total(f, S) = sum[S]
  BY DEF Total, MapThenSumSet, MapThenFoldSet, Pick
<1>2. PICK h \in [SUBSET S -> Int] : SumsUp(h, f, S)
  BY SumExists
<1>3. Rec(h)
  BY <1>2 DEF SumsUp, SumRule
<1>4. Rec(sum)
  BY <1>3
<1>5. SumsUp(sum, f, S)
  BY <1>4 DEF SumsUp, SumRule
<1> HIDE DEF sum
<1>6. AnyOrder(sum, f, S)
  BY <1>5, SumAnyOrder
<1> QED
  BY <1>1, <1>6

\* A sum of differences is the difference of the ends.
LEMMA TelescopeAny ==
  ASSUME NEW n \in Nat, NEW h \in [0..n -> Int], NEW f \in [1..n -> Int], NEW g,
         AnyOrder(g, f, 1..n), \A i \in 1..n : f[i] = h[i] - h[i - 1]
  PROVE  g[1..n] = h[n] - h[0]
<1>3. g[{}] = 0 /\ \A s \in SUBSET (1..n) : \A x \in s : g[s] = f[x] + g[s \ {x}]
  BY DEF AnyOrder
<1> DEFINE T == {k \in Nat : k <= n => g[1..k] = h[k] - h[0]}
<1>4. 0 \in T
  <2>1. 1..0 = {} /\ {} \in SUBSET (1..n)
    OBVIOUS
  <2> QED
    BY <1>3, <2>1
<1>5. ASSUME NEW k \in Nat, k \in T PROVE k + 1 \in T
  <2> SUFFICES ASSUME k + 1 <= n PROVE g[1..(k + 1)] = h[k + 1] - h[0]
    OBVIOUS
  <2>1. 1..(k + 1) \in SUBSET (1..n) /\ k + 1 \in 1..(k + 1)
    OBVIOUS
  <2>11. (1..(k + 1)) \ {k + 1} = 1..k
    <3>1. \A x \in Int : x \in (1..(k + 1)) \ {k + 1} <=> x \in 1..k
      OBVIOUS
    <3>2. (1..(k + 1)) \ {k + 1} \subseteq Int /\ 1..k \subseteq Int
      OBVIOUS
    <3> QED
      BY <3>1, <3>2
  <2>2. g[1..(k + 1)] = f[k + 1] + g[(1..(k + 1)) \ {k + 1}]
    BY <1>3, <2>1
  <2>3. f[k + 1] = h[k + 1] - h[k] /\ g[1..k] = h[k] - h[0]
    BY <1>5
  <2>4. h[k] \in Int /\ h[k + 1] \in Int /\ h[0] \in Int
    OBVIOUS
  <2>5. g[1..(k + 1)] = f[k + 1] + g[1..k]
    BY <2>11, <2>2
  <2> QED
    BY <2>3, <2>4, <2>5
<1> HIDE DEF T
<1>6. n \in T
  BY <1>4, <1>5, NatSet
<1> QED
  BY <1>6 DEF T

\* So it is of MapThenSumSet.
LEMMA Telescope ==
  ASSUME NEW n \in Nat, NEW h \in [0..n -> Int], NEW f \in [1..n -> Int],
         \A i \in 1..n : f[i] = h[i] - h[i - 1]
  PROVE  Total(f, 1..n) = h[n] - h[0]
<1>1. IsFiniteSet(1..n)
  BY FS_Interval
<1>2. PICK g : Total(f, 1..n) = g[1..n] /\ AnyOrder(g, f, 1..n)
  BY <1>1, SumOf
<1> QED
  BY <1>2, TelescopeAny

-----------------------------------------------------------------------------
(* Sums of functions, and subsets.                                         *)

\* A sum that gains what each element adds, in any order.
Grows(g, f, S) ==
  g[{}] = 0 /\ \A A \in SUBSET S : g[A] \in Int /\ \A x \in S \ A : g[A \cup {x}] = f[x] + g[A]

\* SumFunction is such a sum.
LEMMA FunctionSum ==
  ASSUME NEW S, IsFiniteSet(S), NEW f \in [S -> Int]
  PROVE  \E g : SumFunction(f) = g[S] /\ Grows(g, f, S)
<1>1. SumFunction(f) = Total(f, S)
  BY DEF SumFunction, SumFunctionOnSet, FoldFunctionOnSet, Total, MapThenSumSet
<1>2. PICK g : Total(f, S) = g[S] /\ AnyOrder(g, f, S)
  BY SumOf
<1>3. ASSUME NEW A \in SUBSET S, NEW x \in S \ A
      PROVE  g[A \cup {x}] = f[x] + g[A]
  <2>1. A \cup {x} \in SUBSET S /\ (A \cup {x}) \ {x} = A /\ x \in A \cup {x}
    OBVIOUS
  <2> QED
    BY <1>2, <2>1 DEF AnyOrder
<1>4. Grows(g, f, S)
  BY <1>2, <1>3 DEF Grows, AnyOrder
<1> QED
  BY <1>1, <1>2, <1>4

\* A family of sets that holds the empty set, and with a subset of S the one
\* that has one element more, holds S.
LEMMA SubsetSteps ==
  ASSUME NEW S, IsFiniteSet(S), NEW T, {} \in T,
         \A A \in SUBSET S : A \in T => \A x \in S \ A : A \cup {x} \in T
  PROVE  S \in T
<1> DEFINE N == {n \in Nat : \A A \in SUBSET S : Cardinality(A) = n => A \in T}
<1>1. 0 \in N
  BY OneLess
<1>2. ASSUME NEW n \in Nat, n \in N PROVE n + 1 \in N
  <2> SUFFICES ASSUME NEW A \in SUBSET S, Cardinality(A) = n + 1 PROVE A \in T
    OBVIOUS
  <2>1. A # {}
    BY OneLess
  <2>2. Pick(A) \in A /\ A \ {Pick(A)} \in SUBSET S
    BY <2>1, OneLess
  <2>3. Cardinality(A \ {Pick(A)}) = n
    BY <2>2, OneLess
  <2>4. A \ {Pick(A)} \in T
    BY <1>2, <2>2, <2>3
  <2>5. A = (A \ {Pick(A)}) \cup {Pick(A)} /\ Pick(A) \in S \ (A \ {Pick(A)})
    BY <2>2
  <2> QED
    BY <2>2, <2>4, <2>5
<1>3. Cardinality(S) \in N
  <2>1. Cardinality(S) \in Nat
    BY FS_CardinalityType
  <2> HIDE DEF N
  <2> QED
    BY <1>1, <1>2, <2>1, NatSet
<1> QED
  BY <1>3

\* The sum of a sum of two functions.
LEMMA SumsAdd ==
  ASSUME NEW S, IsFiniteSet(S), NEW f \in [S -> Int], NEW e \in [S -> Int],
         NEW h \in [S -> Int], \A x \in S : h[x] = f[x] + e[x]
  PROVE  SumFunction(h) = SumFunction(f) + SumFunction(e)
<1>1. PICK gf : SumFunction(f) = gf[S] /\ Grows(gf, f, S)
  BY FunctionSum
<1>2. PICK ge : SumFunction(e) = ge[S] /\ Grows(ge, e, S)
  BY FunctionSum
<1>3. PICK gh : SumFunction(h) = gh[S] /\ Grows(gh, h, S)
  BY FunctionSum
<1> DEFINE T == {A \in SUBSET S : gh[A] = gf[A] + ge[A]}
<1>4. {} \in T
  BY <1>1, <1>2, <1>3 DEF Grows
<1>5. ASSUME NEW A \in SUBSET S, A \in T, NEW x \in S \ A PROVE A \cup {x} \in T
  <2> HIDE DEF T
  <2>1. gf[A \cup {x}] = f[x] + gf[A] /\ gf[A] \in Int
    BY <1>1 DEF Grows
  <2>2. ge[A \cup {x}] = e[x] + ge[A] /\ ge[A] \in Int
    BY <1>2 DEF Grows
  <2>3. gh[A \cup {x}] = h[x] + gh[A] /\ gh[A] \in Int
    BY <1>3 DEF Grows
  <2>4. h[x] = f[x] + e[x] /\ f[x] \in Int /\ e[x] \in Int
    OBVIOUS
  <2>5. gh[A] = gf[A] + ge[A]
    BY <1>5 DEF T
  <2>6. gh[A \cup {x}] = gf[A \cup {x}] + ge[A \cup {x}]
    BY <2>1, <2>2, <2>3, <2>4, <2>5
  <2> QED
    BY <2>6 DEF T
<1>6. S \in T
  <2> HIDE DEF T
  <2> QED
    BY <1>4, <1>5, SubsetSteps
<1> QED
  BY <1>1, <1>2, <1>3, <1>6

\* The sum of a set's characteristic function is its size.
LEMMA SumOfOnes ==
  ASSUME NEW S, IsFiniteSet(S), NEW f \in [S -> Int], NEW B \in SUBSET S,
         \A x \in S : f[x] = IF x \in B THEN 1 ELSE 0
  PROVE  SumFunction(f) = Cardinality(B)
<1>1. PICK g : SumFunction(f) = g[S] /\ Grows(g, f, S)
  BY FunctionSum
<1> DEFINE T == {A \in SUBSET S : g[A] = Cardinality(A \cap B)}
<1>2. {} \in T
  <2>1. {} \cap B = {}
    OBVIOUS
  <2> QED
    BY <1>1, <2>1, FS_EmptySet DEF Grows
<1>3. ASSUME NEW A \in SUBSET S, A \in T, NEW x \in S \ A PROVE A \cup {x} \in T
  <2>1. g[A \cup {x}] = f[x] + g[A] /\ g[A] \in Int
    BY <1>1 DEF Grows
  <2>2. IsFiniteSet(A \cap B)
    BY FS_Subset
  <2>3. CASE x \in B
    <3>1. (A \cup {x}) \cap B = (A \cap B) \cup {x} /\ x \notin A \cap B
      BY <2>3
    <3>2. Cardinality((A \cup {x}) \cap B) = Cardinality(A \cap B) + 1
      BY <2>2, <3>1, FS_AddElement
    <3> QED
      BY <1>3, <2>1, <2>3, <3>2
  <2>4. CASE x \notin B
    <3>1. (A \cup {x}) \cap B = A \cap B
      BY <2>4
    <3> QED
      BY <1>3, <2>1, <2>4, <3>1
  <2> QED
    BY <2>3, <2>4
<1>4. S \in T
  <2> HIDE DEF T
  <2> QED
    BY <1>2, <1>3, SubsetSteps
<1>5. S \cap B = B
  OBVIOUS
<1> QED
  BY <1>1, <1>4, <1>5

\* The sum of a function that is 0 but at one place.
LEMMA SumOfOne ==
  ASSUME NEW S, IsFiniteSet(S), NEW f \in [S -> Int], NEW a \in S,
         \A x \in S : x # a => f[x] = 0
  PROVE  SumFunction(f) = f[a]
<1>1. PICK g : SumFunction(f) = g[S] /\ Grows(g, f, S)
  BY FunctionSum
<1> DEFINE T == {A \in SUBSET S : g[A] = IF a \in A THEN f[a] ELSE 0}
<1>2. {} \in T
  BY <1>1 DEF Grows
<1>3. ASSUME NEW A \in SUBSET S, A \in T, NEW x \in S \ A PROVE A \cup {x} \in T
  <2> HIDE DEF T
  <2>1. g[A \cup {x}] = f[x] + g[A] /\ g[A] \in Int
    BY <1>1 DEF Grows
  <2> QED
    BY <1>3, <2>1 DEF T
<1>4. S \in T
  <2> HIDE DEF T
  <2> QED
    BY <1>2, <1>3, SubsetSteps
<1> QED
  BY <1>1, <1>4

\* A sum of natural numbers is one, and no less than any of them.
LEMMA SumOfNats ==
  ASSUME NEW S, IsFiniteSet(S), NEW f \in [S -> Nat]
  PROVE  SumFunction(f) \in Nat /\ \A x \in S : f[x] <= SumFunction(f)
<1>1. PICK g : SumFunction(f) = g[S] /\ Grows(g, f, S)
  BY FunctionSum
<1> DEFINE T == {A \in SUBSET S : g[A] \in Nat /\ \A y \in A : f[y] <= g[A]}
<1>2. {} \in T
  BY <1>1 DEF Grows
<1>3. ASSUME NEW A \in SUBSET S, A \in T, NEW x \in S \ A PROVE A \cup {x} \in T
  <2>1. g[A \cup {x}] = f[x] + g[A] /\ g[A] \in Nat /\ f[x] \in Nat
    BY <1>1, <1>3 DEF Grows
  <2>2. \A y \in A : f[y] <= g[A] /\ f[y] \in Nat
    BY <1>3
  <2> QED
    BY <2>1, <2>2
<1>4. S \in T
  <2> HIDE DEF T
  <2> QED
    BY <1>2, <1>3, SubsetSteps
<1> QED
  BY <1>1, <1>4

\* A sum of integers is one.
LEMMA SumIsInt ==
  ASSUME NEW S, IsFiniteSet(S), NEW f \in [S -> Int]
  PROVE  SumFunction(f) \in Int
<1>1. PICK g : SumFunction(f) = g[S] /\ Grows(g, f, S)
  BY FunctionSum
<1>2. S \in SUBSET S
  OBVIOUS
<1> QED
  BY <1>1, <1>2 DEF Grows

\* A sum that is raised in the places of a set is raised by the set's size.
LEMMA SumRaised ==
  ASSUME NEW S, IsFiniteSet(S), NEW f \in [S -> Int], NEW h \in [S -> Int], NEW B \in SUBSET S,
         \A x \in S : h[x] = f[x] + IF x \in B THEN 1 ELSE 0
  PROVE  SumFunction(h) = SumFunction(f) + Cardinality(B)
<1> DEFINE e == [x \in S |-> IF x \in B THEN 1 ELSE 0]
<1>1. e \in [S -> Int] /\ \A x \in S : e[x] = IF x \in B THEN 1 ELSE 0
  OBVIOUS
<1>2. \A x \in S : h[x] = f[x] + e[x]
  OBVIOUS
<1> HIDE DEF e
<1>3. SumFunction(e) = Cardinality(B)
  BY <1>1, SumOfOnes
<1>4. SumFunction(h) = SumFunction(f) + SumFunction(e)
  BY <1>1, <1>2, SumsAdd
<1> QED
  BY <1>3, <1>4

\* A column of a table.
Column(f, S, b) == [s \in S |-> f[s][b]]

\* A table with the sums of its rows and of its columns.
SummedTable(f, S, B, rows, cols) ==
  /\ IsFiniteSet(S) /\ IsFiniteSet(B) /\ f \in [S -> [B -> Int]]
  /\ rows \in [S -> Int] /\ \A s \in S : rows[s] = SumFunction(f[s])
  /\ cols \in [B -> Int] /\ \A b \in B : cols[b] = SumFunction(Column(f, S, b))

\* Its rows and its columns add up to the same.
LEMMA SumsExchange ==
  ASSUME NEW f, NEW S, NEW B, NEW rows, NEW cols, SummedTable(f, S, B, rows, cols)
  PROVE  SumFunction(rows) = SumFunction(cols)
<1> USE DEF SummedTable
<1> DEFINE Col(b) == Column(f, S, b)
           Is(g, b) == SumFunction(Col(b)) = g[S] /\ Grows(g, Col(b), S)
           G(b) == CHOOSE g : Is(g, b)
<1>1. PICK r : SumFunction(rows) = r[S] /\ Grows(r, rows, S)
  BY FunctionSum
<1>2. ASSUME NEW b \in B PROVE Is(G(b), b)
  <2>1. Col(b) \in [S -> Int]
    BY DEF Column
  <2> HIDE DEF Col
  <2>2. \E g : Is(g, b)
    BY <2>1, FunctionSum
  <2> QED
    BY <2>2
<1> DEFINE Upto(A) == [b \in B |-> G(b)[A]]
<1>3. ASSUME NEW A \in SUBSET S PROVE Upto(A) \in [B -> Int]
  <2> HIDE DEF G, Col
  <2> QED
    BY <1>2 DEF Grows
<1> DEFINE T == {A \in SUBSET S : r[A] = SumFunction(Upto(A))}
<1>4. {} \in T
  <2>1. r[{}] = 0
    BY <1>1 DEF Grows
  <2>2. Upto({}) \in [B -> Int]
    BY <1>3
  <2>3. \A b \in B : Upto({})[b] = 0
    <3> HIDE DEF G, Col
    <3> QED
      BY <1>2 DEF Grows
  <2>4. {} \in SUBSET B /\ Cardinality({}) = 0 /\ \A b \in B : Upto({})[b] = IF b \in {} THEN 1 ELSE 0
    <3> HIDE DEF Upto
    <3> QED
      BY <2>3, FS_EmptySet
  <2> HIDE DEF Upto
  <2>5. SumFunction(Upto({})) = 0
    BY <2>2, <2>4, SumOfOnes
  <2> QED
    BY <2>1, <2>5
<1>5. ASSUME NEW A \in SUBSET S, A \in T, NEW x \in S \ A PROVE A \cup {x} \in T
  <2>0. A \cup {x} \in SUBSET S /\ f[x] \in [B -> Int]
    OBVIOUS
  <2>1. Upto(A) \in [B -> Int] /\ Upto(A \cup {x}) \in [B -> Int]
    BY <1>3, <2>0
  <2>2. ASSUME NEW b \in B PROVE Upto(A \cup {x})[b] = Upto(A)[b] + f[x][b]
    <3>1. Grows(G(b), Col(b), S)
      BY <1>2
    <3>2. Col(b)[x] = f[x][b] /\ f[x][b] \in Int
      BY DEF Column
    <3> HIDE DEF G, Col
    <3>3. G(b)[A \cup {x}] = f[x][b] + G(b)[A] /\ G(b)[A] \in Int
      BY <3>1, <3>2 DEF Grows
    <3> QED
      BY <3>2, <3>3
  <2> HIDE DEF Upto
  <2>3. SumFunction(Upto(A \cup {x})) = SumFunction(Upto(A)) + SumFunction(f[x])
    <3> DEFINE p == Upto(A) q == Upto(A \cup {x}) e == f[x]
    <3>1. p \in [B -> Int] /\ q \in [B -> Int] /\ e \in [B -> Int]
      BY <2>0, <2>1
    <3>2. \A b \in B : q[b] = p[b] + e[b]
      BY <2>2
    <3> HIDE DEF T, p, q, e
    <3>3. SumFunction(q) = SumFunction(p) + SumFunction(e)
      BY <3>1, <3>2, SumsAdd
    <3> QED
      BY <3>3 DEF p, q, e
  <2>4. r[A \cup {x}] = rows[x] + r[A] /\ r[A] \in Int /\ rows[x] \in Int
    BY <1>1 DEF Grows
  <2>5. r[A] = SumFunction(Upto(A)) /\ rows[x] = SumFunction(f[x])
    BY <1>5
  <2>6. r[A \cup {x}] = SumFunction(Upto(A \cup {x}))
    BY <2>3, <2>4, <2>5
  <2> QED
    BY <2>0, <2>6
<1>6. S \in T
  <2> HIDE DEF T
  <2> QED
    BY <1>4, <1>5, SubsetSteps
<1>7. Upto(S) = cols
  <2>1. \A b \in B : G(b)[S] = cols[b]
    BY <1>2
  <2> HIDE DEF G
  <2> QED
    BY <2>1
<1> QED
  BY <1>1, <1>6, <1>7

\* A finite set has subsets of every size up to its own.
LEMMA SubsetOfSize ==
  ASSUME NEW S, IsFiniteSet(S), NEW n \in Nat, n <= Cardinality(S)
  PROVE  \E x \in SUBSET S : Cardinality(x) = n
<1> DEFINE T == {k \in Nat : k <= Cardinality(S) => \E x \in SUBSET S : Cardinality(x) = k}
<1>0. Cardinality(S) \in Nat
  BY FS_CardinalityType
<1>1. 0 \in T
  BY FS_EmptySet
<1>2. ASSUME NEW k \in Nat, k \in T PROVE k + 1 \in T
  <2> SUFFICES ASSUME k + 1 <= Cardinality(S) PROVE \E x \in SUBSET S : Cardinality(x) = k + 1
    OBVIOUS
  <2>1. PICK x \in SUBSET S : Cardinality(x) = k
    BY <1>0, <1>2
  <2>2. IsFiniteSet(x) /\ x # S
    BY <1>0, <2>1, FS_Subset
  <2>3. PICK e \in S : e \notin x
    BY <2>2
  <2>4. x \cup {e} \in SUBSET S /\ Cardinality(x \cup {e}) = k + 1
    BY <2>1, <2>2, <2>3, FS_AddElement
  <2> QED
    BY <2>4
<1>3. n \in T
  <2> HIDE DEF T
  <2> QED
    BY <1>1, <1>2, NatSet
<1> QED
  BY <1>3

-----------------------------------------------------------------------------
(* Segment sequences.                                                      *)

\* What rounding down means.
LEMMA DivBounds ==
  ASSUME NEW a \in Int, NEW d \in Nat \ {0}
  PROVE  a \div d \in Int /\ d * (a \div d) <= a /\ a < d * (a \div d) + d
OBVIOUS

\* It keeps the order.
LEMMA DivKeepsOrder ==
  ASSUME NEW a \in Nat, NEW b \in Nat, NEW d \in Nat \ {0}, a <= b
  PROVE  a \div d \in Nat /\ b \div d \in Nat /\ a \div d <= b \div d
<1>1. a \div d \in Nat /\ b \div d \in Nat
  OBVIOUS
<1> DEFINE q == a \div d
           r == b \div d
<1>2. ASSUME q > r PROVE FALSE
  <2>1. q \in Nat /\ r \in Nat /\ d * q <= a /\ b < d * r + d
    BY <1>1, DivBounds
  <2> HIDE DEF q, r
  <2>2. d * q >= d * (r + 1) /\ d * (r + 1) = d * r + d
    BY <2>1, <1>2
  <2> QED
    BY <2>1, <2>2
<1> QED
  BY <1>1, <1>2

\* A whole number of wholes.
LEMMA DivExact ==
  ASSUME NEW n \in Int, NEW d \in Nat \ {0}
  PROVE  (n * d) \div d = n
<1> DEFINE q == (n * d) \div d
<1>1. q \in Int /\ d * q <= n * d /\ n * d < d * q + d
  BY DivBounds
<1> HIDE DEF q
<1>2. ~(q > n)
  BY <1>1
<1>3. ~(q + 1 <= n)
  BY <1>1
<1>4. q = n
  BY <1>1, <1>2, <1>3
<1> QED
  BY <1>4 DEF q

\* A sequence of m segments, as the proofs use it: its boundaries are rationals
\* with a positive denominator, the first 0 and the last 1.
Splits(seq, m) ==
  /\ m \in Nat \ {0} /\ seq \in [1..(m + 1) -> Nat \X (Nat \ {0})]
  /\ seq[1][1] = 0 /\ seq[m + 1][1] = seq[m + 1][2]
  /\ Segs(seq) = 1..m

\* A share is within one of the exact part.
LEMMA ShareIsClose ==
  ASSUME NEW n \in Nat, NEW a1 \in Nat, NEW a2 \in Nat \ {0}, NEW b1 \in Nat, NEW b2 \in Nat \ {0}
  PROVE  /\ Scale(n, <<a1, a2>>, <<b1, b2>>) \in Int
         /\ Scale(n, <<a1, a2>>, <<b1, b2>>) * (b2 * a2) < n * (b1 * a2 - a1 * b2) + b2 * a2
         /\ n * (b1 * a2 - a1 * b2) < (Scale(n, <<a1, a2>>, <<b1, b2>>) + 1) * (b2 * a2)
<1> DEFINE x == (n * b1) \div b2
           y == (n * a1) \div a2
<1>1. Scale(n, <<a1, a2>>, <<b1, b2>>) = x - y
  BY DEF Scale
<1>2. /\ x \in Int /\ b2 * x <= n * b1 /\ n * b1 < b2 * x + b2
      /\ y \in Int /\ a2 * y <= n * a1 /\ n * a1 < a2 * y + a2
  BY DivBounds
<1> HIDE DEF x, y
<1>3. /\ a2 * (b2 * x) <= a2 * (n * b1) /\ a2 * (n * b1) < a2 * (b2 * x + b2)
      /\ b2 * (a2 * y) <= b2 * (n * a1) /\ b2 * (n * a1) < b2 * (a2 * y + a2)
  BY <1>2
<1>4. /\ (x - y) * (b2 * a2) = a2 * (b2 * x) - b2 * (a2 * y)
      /\ (x - y + 1) * (b2 * a2) = a2 * (b2 * x) - b2 * (a2 * y) + b2 * a2
      /\ n * (b1 * a2 - a1 * b2) = a2 * (n * b1) - b2 * (n * a1)
      /\ a2 * (b2 * x + b2) = a2 * (b2 * x) + b2 * a2
      /\ b2 * (a2 * y + a2) = b2 * (a2 * y) + b2 * a2
  BY <1>2
<1> QED
  BY <1>1, <1>2, <1>3, <1>4

\* The sum of the shares of n.
ShareSum(n, seq) == MapThenSumSet(LAMBDA i : Share(n, seq, i), Segs(seq))

\* It is a sum in any order.
LEMMA SharesAreSum ==
  ASSUME NEW seq, NEW m \in Nat, NEW n, NEW f \in [1..m -> Int], Segs(seq) = 1..m,
         \A i \in 1..m : f[i] = Share(n, seq, i)
  PROVE  \E g : ShareSum(n, seq) = g[1..m] /\ AnyOrder(g, f, 1..m)
<1> DEFINE S == 1..m
           Rec(g) == g = [s \in SUBSET S |-> IF s = {} THEN 0
                            ELSE Share(n, seq, Pick(s)) + g[s \ {Pick(s)}]]
           sum == CHOOSE g : Rec(g)
<1>0. IsFiniteSet(S) /\ f \in [S -> Int] /\ \A i \in S : f[i] = Share(n, seq, i)
  BY FS_Interval
<1>1. ShareSum(n, seq) = sum[S]
  BY DEF ShareSum, MapThenSumSet, MapThenFoldSet, Pick
<1> HIDE DEF S
<1>2. PICK h \in [SUBSET S -> Int] : SumsUp(h, f, S)
  BY <1>0, SumExists
<1>3. \A s \in SUBSET S : s # {} => Share(n, seq, Pick(s)) = f[Pick(s)]
  BY <1>0 DEF Pick
<1>4. Rec(h)
  BY <1>2, <1>3 DEF SumsUp, SumRule
<1>5. Rec(sum)
  BY <1>4
<1>6. SumsUp(sum, f, S)
  BY <1>3, <1>5 DEF SumsUp, SumRule
<1> HIDE DEF sum
<1>7. AnyOrder(sum, f, S)
  BY <1>0, <1>6, SumAnyOrder
<1> QED
  BY <1>1, <1>7 DEF S

\* The shares of a sequence add up to the whole, each within one of its part.
LEMMA SharesAddUp ==
  ASSUME NEW seq, NEW m, Splits(seq, m), NEW n \in Nat
  PROVE  /\ ShareSum(n, seq) = n
         /\ \A i \in Segs(seq) :
              /\ Share(n, seq, i) * (seq[i + 1][2] * seq[i][2]) <
                   n * (seq[i + 1][1] * seq[i][2] - seq[i][1] * seq[i + 1][2]) + seq[i + 1][2] * seq[i][2]
              /\ n * (seq[i + 1][1] * seq[i][2] - seq[i][1] * seq[i + 1][2]) <
                   (Share(n, seq, i) + 1) * (seq[i + 1][2] * seq[i][2])
<1>0. /\ m \in Nat \ {0} /\ seq \in [1..(m + 1) -> Nat \X (Nat \ {0})]
      /\ seq[1][1] = 0 /\ seq[m + 1][1] = seq[m + 1][2] /\ Segs(seq) = 1..m
  BY DEF Splits
<1>1. \A i \in 1..(m + 1) : seq[i] = <<seq[i][1], seq[i][2]>> /\ seq[i][1] \in Nat /\ seq[i][2] \in Nat \ {0}
  BY <1>0
<1>2. \A i \in 1..m : i \in 1..(m + 1) /\ i + 1 \in 1..(m + 1)
  BY <1>0
<1>3. ASSUME NEW i \in 1..m
      PROVE  /\ Share(n, seq, i) \in Int
             /\ Share(n, seq, i) * (seq[i + 1][2] * seq[i][2]) <
                  n * (seq[i + 1][1] * seq[i][2] - seq[i][1] * seq[i + 1][2]) + seq[i + 1][2] * seq[i][2]
             /\ n * (seq[i + 1][1] * seq[i][2] - seq[i][1] * seq[i + 1][2]) <
                  (Share(n, seq, i) + 1) * (seq[i + 1][2] * seq[i][2])
  <2> DEFINE a1 == seq[i][1]
             a2 == seq[i][2]
             b1 == seq[i + 1][1]
             b2 == seq[i + 1][2]
  <2>1. a1 \in Nat /\ a2 \in Nat \ {0} /\ b1 \in Nat /\ b2 \in Nat \ {0}
    BY <1>1, <1>2
  <2>2. Share(n, seq, i) = Scale(n, <<a1, a2>>, <<b1, b2>>)
    BY <1>1, <1>2 DEF Share
  <2> HIDE DEF a1, a2, b1, b2
  <2>3. /\ Scale(n, <<a1, a2>>, <<b1, b2>>) \in Int
        /\ Scale(n, <<a1, a2>>, <<b1, b2>>) * (b2 * a2) < n * (b1 * a2 - a1 * b2) + b2 * a2
        /\ n * (b1 * a2 - a1 * b2) < (Scale(n, <<a1, a2>>, <<b1, b2>>) + 1) * (b2 * a2)
    BY <2>1, ShareIsClose
  <2> QED
    BY <2>2, <2>3 DEF a1, a2, b1, b2
<1> DEFINE f == [i \in 1..m |-> Share(n, seq, i)]
           h == [k \in 0..m |-> (n * seq[k + 1][1]) \div seq[k + 1][2]]
<1>4. f \in [1..m -> Int] /\ \A i \in 1..m : f[i] = Share(n, seq, i)
  BY <1>3
<1>5. h \in [0..m -> Int] /\ \A k \in 0..m : h[k] = (n * seq[k + 1][1]) \div seq[k + 1][2]
  <2>1. \A k \in 0..m : seq[k + 1][1] \in Nat /\ seq[k + 1][2] \in Nat \ {0}
    BY <1>0, <1>1
  <2> QED
    BY <2>1
<1> HIDE DEF f, h
<1>6. \A i \in 1..m : f[i] = h[i] - h[i - 1]
  <2> SUFFICES ASSUME NEW i \in 1..m PROVE f[i] = h[i] - h[i - 1]
    OBVIOUS
  <2>1. i \in 0..m /\ i - 1 \in 0..m /\ i - 1 + 1 = i
    BY <1>0
  <2>2. f[i] = ((n * seq[i + 1][1]) \div seq[i + 1][2]) - ((n * seq[i][1]) \div seq[i][2])
    BY <1>4 DEF Share, Scale
  <2> QED
    BY <1>5, <2>1, <2>2
<1>7. h[m] = n /\ h[0] = 0
  <2>1. m + 1 \in 1..(m + 1) /\ m \in 0..m /\ 0 \in 0..m /\ 1 \in 1..(m + 1)
    BY <1>0
  <2>2. h[m] = (n * seq[m + 1][2]) \div seq[m + 1][2] /\ seq[m + 1][2] \in Nat \ {0}
    BY <1>0, <1>1, <1>5, <2>1
  <2>3. h[0] = (n * 0) \div seq[1][2] /\ seq[1][2] \in Nat \ {0}
    BY <1>0, <1>1, <1>5, <2>1
  <2>4. (n * 0) \div seq[1][2] = 0
    BY <2>3
  <2>5. (n * seq[m + 1][2]) \div seq[m + 1][2] = n
    BY <2>2, DivExact
  <2> QED
    BY <2>2, <2>3, <2>4, <2>5
<1>8. PICK g : ShareSum(n, seq) = g[1..m] /\ AnyOrder(g, f, 1..m)
  BY <1>0, <1>4, SharesAreSum
<1>9. m \in Nat /\ h \in [0..m -> Int] /\ f \in [1..m -> Int]
  BY <1>0, <1>4, <1>5
<1>10. g[1..m] = h[m] - h[0]
  BY ONLY <1>6, <1>8, <1>9, TelescopeAny
<1>11. ShareSum(n, seq) = n
  BY <1>7, <1>8, <1>10
<1> QED
  BY <1>0, <1>3, <1>11

\* The elements of S below c.
BelowIn(S, c) == {x \in S : x < c}

\* A finite set of numbers has an element of every rank.
LEMMA RankExists ==
  ASSUME NEW S \in SUBSET Nat, IsFiniteSet(S), NEW r \in Nat, r < Cardinality(S)
  PROVE  \E c \in S : Cardinality(BelowIn(S, c)) = r
<1>0. \A c : IsFiniteSet(BelowIn(S, c)) /\ Cardinality(BelowIn(S, c)) \in Nat /\ BelowIn(S, c) \subseteq S
  BY FS_Subset, FS_CardinalityType DEF BelowIn
<1>1. ASSUME NEW U \in SUBSET S, U # {} PROVE \E c \in U : \A x \in U : ~(x < c)
  <2>1. IsWellFoundedOn(Less, Nat)
    BY NatLessThanWellFounded DEF OpToRel, Less
  <2>2. PICK c \in U : \A x \in U : <<x, c>> \notin Less
    BY <1>1, <2>1, WFMin
  <2> QED
    BY <2>2 DEF Less
<1> DEFINE T == {k \in Nat : k < Cardinality(S) => \E c \in S : Cardinality(BelowIn(S, c)) = k}
<1>2. 0 \in T
  <2> SUFFICES ASSUME 0 < Cardinality(S) PROVE \E c \in S : Cardinality(BelowIn(S, c)) = 0
    OBVIOUS
  <2>1. S # {}
    BY FS_EmptySet
  <2>2. PICK c \in S : \A x \in S : ~(x < c)
    BY <1>1, <2>1
  <2>3. BelowIn(S, c) = {}
    BY <2>2 DEF BelowIn
  <2> QED
    BY <2>3, FS_EmptySet
<1>3. ASSUME NEW k \in Nat, k \in T PROVE k + 1 \in T
  <2> SUFFICES ASSUME k + 1 < Cardinality(S) PROVE \E c \in S : Cardinality(BelowIn(S, c)) = k + 1
    OBVIOUS
  <2>0. Cardinality(S) \in Nat
    BY FS_CardinalityType
  <2>1. PICK c \in S : Cardinality(BelowIn(S, c)) = k
    BY <1>3, <2>0
  <2>2. c \notin BelowIn(S, c)
    BY DEF BelowIn
  <2>3. /\ IsFiniteSet(BelowIn(S, c) \cup {c})
        /\ Cardinality(BelowIn(S, c) \cup {c}) = k + 1
    BY <1>0, <2>1, <2>2, FS_AddElement
  <2> DEFINE U == S \ (BelowIn(S, c) \cup {c})
  <2>4. U # {}
    <3>1. ASSUME U = {} PROVE FALSE
      <4>1. S = BelowIn(S, c) \cup {c}
        BY <3>1, <1>0
      <4> QED
        BY <4>1, <2>3, <2>0
    <3> QED
      BY <3>1
  <2>5. U \in SUBSET S
    OBVIOUS
  <2>6. PICK e \in U : \A x \in U : ~(x < e)
    <3> HIDE DEF U
    <3> QED
      BY <1>1, <2>4, <2>5
  <2>7. BelowIn(S, e) = BelowIn(S, c) \cup {c}
    <3>1. e \in S /\ e > c
      BY <2>6 DEF BelowIn
    <3>2. \A x \in S : x \in Nat /\ (x \in U <=> ~(x < c) /\ x # c)
      BY DEF BelowIn
    <3>3. \A x \in S : x < e <=> x < c \/ x = c
      BY <2>6, <3>1, <3>2
    <3> QED
      BY <3>3 DEF BelowIn
  <2> QED
    BY <2>3, <2>6, <2>7
<1> HIDE DEF T
<1>4. r \in T
  BY <1>2, <1>3, NatSet
<1> QED
  BY <1>4 DEF T

\* An element of higher rank is larger.
LEMMA RankOrders ==
  ASSUME NEW S \in SUBSET Nat, IsFiniteSet(S), NEW c \in S, NEW e \in S,
         Cardinality(BelowIn(S, c)) < Cardinality(BelowIn(S, e))
  PROVE  c < e
<1>1. ASSUME ~(c < e) PROVE FALSE
  <2>0. c \in Nat /\ e \in Nat /\ \A x \in S : x \in Nat
    OBVIOUS
  <2>01. \A x \in S : x < e => x < c
    BY <1>1, <2>0
  <2>1. BelowIn(S, e) \subseteq BelowIn(S, c)
    BY <2>01 DEF BelowIn
  <2>2. IsFiniteSet(BelowIn(S, c)) /\ Cardinality(BelowIn(S, c)) \in Nat
    BY FS_Subset, FS_CardinalityType DEF BelowIn
  <2>3. Cardinality(BelowIn(S, e)) <= Cardinality(BelowIn(S, c)) /\ Cardinality(BelowIn(S, e)) \in Nat
    BY <2>1, <2>2, FS_Subset, FS_CardinalityType
  <2> QED
    BY <2>2, <2>3
<1> QED
  BY <1>1

\* The sequences StripeInit chooses from ascend from 0 to 1 over one denominator.
Ascends(seq, m, d) ==
  /\ m \in Nat \ {0} /\ d \in Nat \ {0} /\ Len(seq) = m + 1
  /\ seq \in [1..(m + 1) -> Nat \X {d}]
  /\ seq[1] = <<0, d>> /\ seq[m + 1] = <<d, d>>
  /\ \A i \in 1..m : seq[i][1] < seq[i + 1][1]

\* Every sequence of AllSequences does.
LEMMA SequencesAscend ==
  ASSUME NEW seq \in AllSequences
  PROVE  \E m, d : Ascends(seq, m, d)
<1>0. MaxDen \in Nat \ {0}
  BY StripeAssumption
<1>1. PICK d \in 1..MaxDen :
        seq \in {[i \in 1..(Cardinality(cut) + 2) |->
                   <<IF i = 1 THEN 0 ELSE IF i = Cardinality(cut) + 2 THEN d
                     ELSE CHOOSE c \in cut : Cardinality({x \in cut : x < c}) = i - 2, d>>] :
                  cut \in {c \in SUBSET (1..(d - 1)) : Cardinality(c) < MaxSegments}}
  BY DEF AllSequences
<1>2. PICK cut \in SUBSET (1..(d - 1)) :
        seq = [i \in 1..(Cardinality(cut) + 2) |->
                <<IF i = 1 THEN 0 ELSE IF i = Cardinality(cut) + 2 THEN d
                  ELSE CHOOSE c \in cut : Cardinality({x \in cut : x < c}) = i - 2, d>>]
  BY <1>1
<1>3. d \in Nat \ {0} /\ IsFiniteSet(1..(d - 1))
  BY <1>0, FS_Interval
<1>4. IsFiniteSet(cut) /\ Cardinality(cut) \in Nat /\ cut \subseteq Nat
  <2>1. IsFiniteSet(cut)
    BY <1>3, FS_Subset
  <2>2. \A x \in cut : x \in Nat
    BY <1>3
  <2> QED
    BY <2>1, <2>2, FS_CardinalityType
<1> DEFINE m == Cardinality(cut) + 1
           At(i) == CHOOSE c \in cut : Cardinality(BelowIn(cut, c)) = i - 2
           num(i) == IF i = 1 THEN 0 ELSE IF i = m + 1 THEN d ELSE At(i)
<1>5. m \in Nat \ {0} /\ m + 1 = Cardinality(cut) + 2
  BY <1>4
<1>6. seq = [i \in 1..(m + 1) |-> <<num(i), d>>]
  BY <1>2, <1>5 DEF BelowIn
<1>7. ASSUME NEW i \in 2..m PROVE At(i) \in cut /\ Cardinality(BelowIn(cut, At(i))) = i - 2
  <2>1. i - 2 \in Nat /\ i - 2 < Cardinality(cut)
    BY <1>4
  <2>2. \E c \in cut : Cardinality(BelowIn(cut, c)) = i - 2
    BY <1>4, <2>1, RankExists
  <2> QED
    BY <2>2
<1> HIDE DEF At
<1>8. \A i \in 2..m : At(i) \in Nat /\ 0 < At(i) /\ At(i) < d
  <2>1. \A x \in cut : x \in Nat /\ 0 < x /\ x < d
    BY <1>3
  <2> QED
    BY <1>7, <2>1
<1>9. \A i \in 1..(m + 1) : i = 1 \/ i = m + 1 \/ i \in 2..m
  BY <1>5
<1>10. \A i \in 1..(m + 1) : num(i) \in Nat
  BY <1>3, <1>8, <1>9
<1>11. ASSUME NEW i \in 1..m PROVE num(i) < num(i + 1)
  <2>1. CASE i = 1 /\ m = 1
    BY <2>1, <1>3
  <2>2. CASE i = 1 /\ m # 1
    <3>1. i + 1 \in 2..m /\ i + 1 # 1 /\ i + 1 # m + 1
      BY <2>2, <1>5
    <3> QED
      BY <2>2, <3>1, <1>8
  <2>3. CASE i # 1 /\ i = m
    <3>1. i \in 2..m /\ i # m + 1 /\ i + 1 = m + 1 /\ i + 1 # 1
      BY <2>3, <1>5
    <3> QED
      BY <2>3, <3>1, <1>8
  <2>4. CASE i # 1 /\ i # m
    <3>1. i \in 2..m /\ i + 1 \in 2..m /\ i # m + 1 /\ i + 1 # m + 1 /\ i + 1 # 1 /\ i \in Nat
      BY <2>4, <1>5
    <3>2. /\ At(i) \in cut /\ Cardinality(BelowIn(cut, At(i))) = i - 2
          /\ At(i + 1) \in cut /\ Cardinality(BelowIn(cut, At(i + 1))) = i + 1 - 2
      BY <3>1, <1>7
    <3>3. Cardinality(BelowIn(cut, At(i))) < Cardinality(BelowIn(cut, At(i + 1)))
      BY <3>1, <3>2
    <3>4. At(i) < At(i + 1)
      BY <1>4, <3>2, <3>3, RankOrders
    <3> QED
      BY <2>4, <3>1, <3>4
  <2> QED
    BY <2>1, <2>2, <2>3, <2>4
<1>12. /\ num(1) = 0 /\ num(m + 1) = d
  BY <1>5
<1> HIDE DEF num, m
<1>13. /\ seq \in [1..(m + 1) -> Nat \X {d}]
       /\ \A i \in 1..(m + 1) : seq[i] = <<num(i), d>>
  BY <1>6, <1>10
<1>14. Len(seq) = m + 1
  BY <1>5, <1>6
<1>15. /\ 1 \in 1..(m + 1) /\ m + 1 \in 1..(m + 1)
       /\ \A i \in 1..m : i \in 1..(m + 1) /\ i + 1 \in 1..(m + 1)
  BY <1>5
<1>16. Ascends(seq, m, d)
  BY <1>3, <1>5, <1>11, <1>12, <1>13, <1>14, <1>15 DEF Ascends
<1> QED
  BY <1>16

\* Both spellings of such a sequence split a workload.
LEMMA SpellingsSplit ==
  ASSUME NEW seq, NEW m, NEW d, Ascends(seq, m, d)
  PROVE  /\ Splits(seq, m)
         /\ Splits([i \in DOMAIN seq |-> Decimal(seq[i], 100)], m)
<1>0. /\ m \in Nat \ {0} /\ d \in Nat \ {0} /\ Len(seq) = m + 1
      /\ seq \in [1..(m + 1) -> Nat \X {d}]
      /\ seq[1] = <<0, d>> /\ seq[m + 1] = <<d, d>>
  BY DEF Ascends
<1>1. Splits(seq, m)
  <2>1. Segs(seq) = 1..m
    BY <1>0 DEF Segs
  <2> QED
    BY <1>0, <2>1 DEF Splits
<1> DEFINE dec == [i \in 1..(m + 1) |-> Decimal(seq[i], 100)]
<1>2. dec = [i \in DOMAIN seq |-> Decimal(seq[i], 100)]
  BY <1>0
<1>3. \A i \in 1..(m + 1) : Decimal(seq[i], 100) \in Nat \X (Nat \ {0})
  <2> SUFFICES ASSUME NEW i \in 1..(m + 1) PROVE Decimal(seq[i], 100) \in Nat \X (Nat \ {0})
    OBVIOUS
  <2>1. seq[i][1] \in Nat /\ seq[i][2] = d
    BY <1>0
  <2> DEFINE x == seq[i][1]
  <2>2. 2 * x * 100 + d \in Nat /\ 2 * d \in Nat \ {0}
    BY <1>0, <2>1
  <2>3. (2 * x * 100 + d) \div (2 * d) \in Nat
    BY <2>2
  <2> QED
    BY <2>1, <2>3 DEF Decimal
<1>4. dec[1] = <<0, 100>> /\ dec[m + 1] = <<100, 100>>
  <2>1. 1 \in 1..(m + 1) /\ m + 1 \in 1..(m + 1)
    BY <1>0
  <2>2. (2 * 0 * 100 + d) \div (2 * d) = 0
    BY <1>0
  <2>3. (2 * d * 100 + d) \div (2 * d) = 100
    BY <1>0
  <2>4. /\ Decimal(seq[1], 100) = <<(2 * 0 * 100 + d) \div (2 * d), 100>>
        /\ Decimal(seq[m + 1], 100) = <<(2 * d * 100 + d) \div (2 * d), 100>>
    BY <1>0 DEF Decimal
  <2>5. Decimal(seq[1], 100) = <<0, 100>> /\ Decimal(seq[m + 1], 100) = <<100, 100>>
    BY <2>2, <2>3, <2>4
  <2> QED
    BY <2>1, <2>5
<1>5. dec \in [1..(m + 1) -> Nat \X (Nat \ {0})]
  BY <1>3
<1>6. Segs(dec) = 1..m
  <2>1. Len(dec) = m + 1
    BY <1>0
  <2> QED
    BY <1>0, <2>1 DEF Segs
<1> HIDE DEF dec
<1>7. Splits(dec, m)
  BY <1>0, <1>4, <1>5, <1>6 DEF Splits
<1> QED
  BY <1>1, <1>2, <1>7

\* The shares of VUs and iterations add up to the whole, and none is off by
\* more than one, whichever way the boundaries are spelled.
THEOREM SharesMakeWhole == StripeSpec => []SharesSum
<1>1. StripeInit => boundaries \in AllSequences
  BY DEF StripeInit
<1>2. boundaries \in AllSequences /\ [StripeNext]_stripeVars => (boundaries \in AllSequences)'
  BY DEF StripeNext, StripeTick, stripeVars
<1>3. boundaries \in AllSequences => SharesSum
  <2> SUFFICES ASSUME boundaries \in AllSequences, NEW n \in 0..MaxWork,
                      NEW seq \in {boundaries, [i \in DOMAIN boundaries |-> Decimal(boundaries[i], 100)]}
               PROVE  /\ ShareSum(n, seq) = n
                      /\ \A i \in Segs(seq) :
                           /\ Share(n, seq, i) * (seq[i + 1][2] * seq[i][2]) <
                                n * (seq[i + 1][1] * seq[i][2] - seq[i][1] * seq[i + 1][2])
                                  + seq[i + 1][2] * seq[i][2]
                           /\ n * (seq[i + 1][1] * seq[i][2] - seq[i][1] * seq[i + 1][2]) <
                                (Share(n, seq, i) + 1) * (seq[i + 1][2] * seq[i][2])
    BY DEF SharesSum, ShareSum
  <2>1. PICK m, d : Ascends(boundaries, m, d)
    BY SequencesAscend
  <2>2. Splits(seq, m)
    BY <2>1, SpellingsSplit
  <2>3. n \in Nat
    BY StripeAssumption
  <2> QED
    BY <2>2, <2>3, SharesAddUp
<1> QED
  BY <1>1, <1>2, <1>3, PTL DEF StripeSpec

-----------------------------------------------------------------------------
(* The arrival stripes: which node releases which arrival.  A cycle of Lcd  *)
(* ticks is claimed tick by tick, each segment ends with exactly its share  *)
(* of it, and a cursor walks the ticks its segment owns without missing or  *)
(* repeating one.                                                          *)

\* A function of the numbers up to N that starts with e and takes the steps st.
LEMMA Recursion ==
  ASSUME NEW V, NEW e \in V, NEW N \in Nat, NEW st \in [1..N -> [V -> V]]
  PROVE  \E g \in [0..N -> V] : g[0] = e /\ \A n \in 1..N : g[n] = st[n][g[n - 1]]
<1> DEFINE Steps(g, k) == g[0] = e /\ \A n \in 1..k : g[n] = st[n][g[n - 1]]
           T == {k \in Nat : k <= N => \E g \in [0..N -> V] : Steps(g, k)}
<1>1. 0 \in T
  <2>1. [n \in 0..N |-> e] \in [0..N -> V] /\ Steps([n \in 0..N |-> e], 0)
    OBVIOUS
  <2> QED
    BY <2>1
<1>2. ASSUME NEW k \in Nat, k \in T PROVE k + 1 \in T
  <2> SUFFICES ASSUME k + 1 <= N PROVE \E g \in [0..N -> V] : Steps(g, k + 1)
    OBVIOUS
  <2>1. PICK g \in [0..N -> V] : Steps(g, k)
    BY <1>2
  <2>2. k \in 0..N /\ k + 1 \in 0..N /\ k + 1 \in 1..N /\ (k + 1) - 1 = k
    OBVIOUS
  <2> DEFINE x == st[k + 1][g[k]]
             h == [g EXCEPT ![k + 1] = x]
  <2>3. x \in V
    BY <2>2
  <2> HIDE DEF x
  <2>4. h \in [0..N -> V] /\ h[k + 1] = x /\ \A n \in 0..N : n # k + 1 => h[n] = g[n]
    BY <2>2, <2>3
  <2> HIDE DEF h
  <2>5. ASSUME NEW n \in 1..(k + 1) PROVE h[n] = st[n][h[n - 1]]
    <3>1. CASE n = k + 1
      BY <2>2, <2>4, <3>1 DEF x
    <3>2. CASE n # k + 1
      <4>1. n \in 1..k /\ n \in 0..N /\ n - 1 \in 0..N /\ n - 1 # k + 1
        BY <3>2
      <4> QED
        BY <2>1, <2>4, <3>2, <4>1
    <3> QED
      BY <3>1, <3>2
  <2>6. h[0] = e
    BY <2>1, <2>4
  <2>7. Steps(h, k + 1)
    BY <2>5, <2>6
  <2> HIDE DEF Steps
  <2> QED
    BY <2>4, <2>7
<1>3. N \in T
  <2> HIDE DEF T
  <2> QED
    BY <1>1, <1>2, NatSet
<1> QED
  BY <1>3

\* A set of numbers that is not empty has a least element.
LEMMA LeastExists ==
  ASSUME NEW S \in SUBSET Nat, S # {}
  PROVE  Min(S) \in S /\ \A y \in S : Min(S) <= y
<1>1. IsWellFoundedOn(Less, Nat)
  BY NatLessThanWellFounded DEF OpToRel, Less
<1>2. PICK m \in S : \A y \in S : <<y, m>> \notin Less
  BY <1>1, WFMin
<1>3. ASSUME NEW y \in S PROVE m <= y
  <2>1. y \in Nat /\ m \in Nat /\ <<y, m>> \notin Less
    BY <1>2
  <2>2. <<y, m>> \in Nat \X Nat /\ <<y, m>>[1] = y /\ <<y, m>>[2] = m
    BY <2>1
  <2>3. ~(y < m)
    BY <2>1, <2>2 DEF Less
  <2> QED
    BY <2>1, <2>3
<1> QED
  BY <1>3 DEF Min

\* An order of the segments: the longer first, and of two equals the first.
Ahead(len, i, j) == len[i] > len[j] \/ (len[i] = len[j] /\ i <= j)

\* Of the segments of a set that is not empty one is ahead of all.
LEMMA FirstExists ==
  ASSUME NEW S \in SUBSET Nat, IsFiniteSet(S), S # {}, NEW len \in [S -> Int]
  PROVE  \E i \in S : \A j \in S : Ahead(len, i, j)
<1> DEFINE T == {A \in SUBSET S : A = {} \/ \E i \in A : \A j \in A : Ahead(len, i, j)}
<1>1. {} \in T
  OBVIOUS
<1>2. ASSUME NEW A \in SUBSET S, A \in T, NEW x \in S \ A PROVE A \cup {x} \in T
  <2>1. len[x] \in Int /\ x \in Nat /\ Ahead(len, x, x)
    BY DEF Ahead
  <2>2. CASE A = {}
    BY <2>1, <2>2
  <2>3. CASE A # {}
    <3>1. PICK i \in A : \A j \in A : Ahead(len, i, j)
      BY <1>2, <2>3
    <3>2. len[i] \in Int /\ i \in Nat /\ \A j \in A : len[j] \in Int /\ j \in Nat
      OBVIOUS
    <3>3. CASE Ahead(len, i, x)
      <4>1. \A j \in A \cup {x} : Ahead(len, i, j)
        BY <3>1, <3>3
      <4> QED
        BY <4>1
    <3>4. CASE ~Ahead(len, i, x)
      <4>1. \A j \in A \cup {x} : Ahead(len, x, j)
        BY <2>1, <3>1, <3>2, <3>4 DEF Ahead
      <4> QED
        BY <4>1
    <3> QED
      BY <3>3, <3>4
  <2> QED
    BY <2>2, <2>3
<1>3. S \in T
  <2> HIDE DEF T
  <2> QED
    BY <1>1, <1>2, SubsetSteps
<1> QED
  BY <1>3

\* The sum of a multiple of a function.
LEMMA SumScaled ==
  ASSUME NEW S, IsFiniteSet(S), NEW f \in [S -> Int], NEW c \in Int,
         NEW h \in [S -> Int], \A x \in S : h[x] = c * f[x]
  PROVE  SumFunction(h) = c * SumFunction(f)
<1>1. PICK gf : SumFunction(f) = gf[S] /\ Grows(gf, f, S)
  BY FunctionSum
<1>2. PICK gh : SumFunction(h) = gh[S] /\ Grows(gh, h, S)
  BY FunctionSum
<1> DEFINE T == {A \in SUBSET S : gh[A] = c * gf[A]}
<1>3. {} \in T
  BY <1>1, <1>2 DEF Grows
<1>4. ASSUME NEW A \in SUBSET S, A \in T, NEW x \in S \ A PROVE A \cup {x} \in T
  <2>1. gf[A \cup {x}] = f[x] + gf[A] /\ gf[A] \in Int /\ f[x] \in Int
    BY <1>1 DEF Grows
  <2>2. gh[A \cup {x}] = c * f[x] + gh[A] /\ gh[A] = c * gf[A]
    BY <1>2, <1>4 DEF Grows
  <2> DEFINE a == f[x] b == gf[A]
  <2>3. a \in Int /\ b \in Int
    BY <2>1
  <2> HIDE DEF a, b
  <2>4. c * a + c * b = c * (a + b)
    BY <2>3
  <2>5. gh[A \cup {x}] = c * gf[A \cup {x}]
    BY <2>1, <2>2, <2>4 DEF a, b
  <2> QED
    BY <2>5
<1>5. S \in T
  <2> HIDE DEF T
  <2> QED
    BY <1>3, <1>4, SubsetSteps
<1> QED
  BY <1>1, <1>2, <1>5

\* Division without a rest.
LEMMA DivideWhole ==
  ASSUME NEW x \in Int, NEW y \in Nat \ {0}
  PROVE  /\ x % y = 0 => x = y * (x \div y)
         /\ (x * y) % y = 0
<1>1. x % y = 0 => x = y * (x \div y)
  <2> DEFINE p == x \div y s == x % y
  <2>1. p \in Int /\ x = y * p + s /\ 0 <= s /\ s < y /\ s \in Int
    OBVIOUS
  <2> HIDE DEF p, s
  <2>2. s = 0 => x = y * p
    BY <2>1
  <2> QED
    BY <2>2 DEF p, s
<1> DEFINE q == (x * y) \div y
           r == (x * y) % y
<1>2. q \in Int /\ x * y = y * q + r /\ 0 <= r /\ r < y /\ r \in Int
  OBVIOUS
<1>3. q = x
  BY DivExact
<1> HIDE DEF q, r
<1>4. r = 0
  BY <1>2, <1>3
<1> QED
  BY <1>1, <1>4 DEF r

\* A common factor.
LEMMA Cancel ==
  ASSUME NEW a \in Int, NEW b \in Int, NEW d \in Nat \ {0}, a * d = b * d
  PROVE  a = b
<1>1. ~(a < b)
  <2>1. ASSUME a < b PROVE FALSE
    <3>1. (b - a) * d > 0 /\ (b - a) * d = b * d - a * d
      BY <2>1
    <3> QED
      BY <3>1
  <2> QED
    BY <2>1
<1>2. ~(b < a)
  <2>1. ASSUME b < a PROVE FALSE
    <3>1. (a - b) * d > 0 /\ (a - b) * d = a * d - b * d
      BY <2>1
    <3> QED
      BY <3>1
  <2> QED
    BY <2>1
<1> QED
  BY <1>1, <1>2

\* Every segment has a whole number of the l ticks of a cycle.
Whole(seq, l) ==
  \A i \in Segs(seq) :
    ((seq[i + 1][1] * seq[i][2] - seq[i][1] * seq[i + 1][2]) * l) % (seq[i + 1][2] * seq[i][2]) = 0

\* There is a smallest cycle with that: the common denominator makes one.
LEMMA LcdExists ==
  ASSUME NEW seq, NEW m, NEW d, Ascends(seq, m, d)
  PROVE  Lcd(seq) \in Nat \ {0} /\ Whole(seq, Lcd(seq))
<1>0. /\ m \in Nat \ {0} /\ d \in Nat \ {0} /\ Segs(seq) = 1..m
      /\ seq \in [1..(m + 1) -> Nat \X {d}]
  BY DEF Ascends, Segs
<1>1. ASSUME NEW i \in 1..m
      PROVE  seq[i][1] \in Nat /\ seq[i + 1][1] \in Nat /\ seq[i][2] = d /\ seq[i + 1][2] = d
  <2>1. i \in 1..(m + 1) /\ i + 1 \in 1..(m + 1)
    BY <1>0
  <2> QED
    BY <1>0, <2>1
<1> DEFINE f == [i \in Segs(seq) |-> seq[i][2] * seq[i + 1][2]]
           bound == SumFunction(f)
           S == {l \in 1..bound : Whole(seq, l)}
<1>2. d * d \in Nat \ {0} /\ d <= d * d
  BY <1>0
<1>3. f \in [1..m -> Nat] /\ f[1] = d * d /\ 1 \in 1..m
  BY <1>0, <1>1, <1>2
<1>4. bound \in Nat /\ d \in 1..bound
  <2>1. IsFiniteSet(1..m)
    BY <1>0, FS_Interval
  <2> HIDE DEF f
  <2>2. bound \in Nat /\ f[1] <= bound
    BY <1>3, <2>1, SumOfNats
  <2> HIDE DEF bound
  <2> QED
    BY <1>0, <1>2, <1>3, <2>2
<1>5. Whole(seq, d)
  <2> SUFFICES ASSUME NEW i \in 1..m
               PROVE  ((seq[i + 1][1] * seq[i][2] - seq[i][1] * seq[i + 1][2]) * d)
                        % (seq[i + 1][2] * seq[i][2]) = 0
    BY <1>0 DEF Whole
  <2> DEFINE a == seq[i + 1][1] b == seq[i][1]
  <2>1. a \in Nat /\ b \in Nat /\ seq[i][2] = d /\ seq[i + 1][2] = d
    BY <1>1
  <2> HIDE DEF a, b
  <2>2. (a * d - b * d) * d = (a - b) * (d * d) /\ a - b \in Int
    BY <1>0, <2>1
  <2>3. ((a - b) * (d * d)) % (d * d) = 0
    BY <1>2, <2>2, DivideWhole
  <2>4. ((a * d - b * d) * d) % (d * d) = 0
    BY <2>2, <2>3
  <2> QED
    BY <2>1, <2>4 DEF a, b
<1> HIDE DEF bound
<1>6. S \in SUBSET Nat /\ d \in S
  BY <1>4, <1>5
<1>7. Min(S) \in S /\ \A y \in S : Min(S) <= y
  <2> HIDE DEF S
  <2> QED
    BY <1>6, LeastExists
<1> DEFINE Smallest(l) == Whole(seq, l) /\ \A k \in 1..(l - 1) : ~Whole(seq, k)
<1>8. Min(S) \in 1..bound /\ Smallest(Min(S))
  <2> DEFINE l == Min(S)
  <2>1. l \in 1..bound /\ Whole(seq, l) /\ \A k \in 1..bound : Whole(seq, k) => l <= k
    BY <1>7
  <2> HIDE DEF l
  <2>2. ASSUME NEW k \in 1..(l - 1) PROVE ~Whole(seq, k)
    <3>1. k \in 1..bound /\ ~(l <= k)
      BY <1>4, <2>1
    <3> QED
      BY <2>1, <3>1
  <2>3. Smallest(l)
    BY <2>1, <2>2
  <2> QED
    BY <2>1, <2>3 DEF l
<1>9. Lcd(seq) = CHOOSE l \in 1..bound : Smallest(l)
  BY DEF Lcd, Whole, bound
<1> HIDE DEF Smallest
<1>10. Lcd(seq) \in 1..bound /\ Smallest(Lcd(seq))
  <2>1. \E l \in 1..bound : Smallest(l)
    BY <1>8
  <2> QED
    BY <1>9, <2>1
<1> QED
  BY <1>4, <1>10 DEF Smallest

\* The ticks of each segment in a cycle.
Lens(seq, lcd) == [i \in Segs(seq) |-> Ticks(seq, i, lcd)]

\* Every segment has some, and together they have them all.
LEMMA TicksAddUp ==
  ASSUME NEW seq, NEW m, NEW d, Ascends(seq, m, d), NEW lcd \in Nat \ {0}, Whole(seq, lcd)
  PROVE  Lens(seq, lcd) \in [1..m -> Nat \ {0}] /\ SumFunction(Lens(seq, lcd)) = lcd
<1>0. /\ m \in Nat \ {0} /\ d \in Nat \ {0} /\ Segs(seq) = 1..m
      /\ seq \in [1..(m + 1) -> Nat \X {d}] /\ seq[1][1] = 0 /\ seq[m + 1][1] = d
  BY DEF Ascends, Segs
<1> DEFINE n == [k \in 0..m |-> seq[k + 1][1]]
           len == Lens(seq, lcd)
<1>1. n \in [0..m -> Nat] /\ n[0] = 0 /\ n[m] = d
  <2>1. \A k \in 0..m : k + 1 \in 1..(m + 1)
    BY <1>0
  <2> QED
    BY <1>0, <2>1
<1>2. ASSUME NEW i \in 1..m
      PROVE  /\ i \in 0..m /\ i - 1 \in 0..m
             /\ seq[i] = <<n[i - 1], d>> /\ seq[i + 1] = <<n[i], d>> /\ n[i - 1] < n[i]
  <2>1. i \in 0..m /\ i - 1 \in 0..m /\ i \in 1..(m + 1) /\ i + 1 \in 1..(m + 1) /\ (i - 1) + 1 = i
    BY <1>0
  <2>2. seq[i] = <<seq[i][1], d>> /\ seq[i + 1] = <<seq[i + 1][1], d>>
    BY <1>0, <2>1
  <2>3. seq[i][1] < seq[i + 1][1]
    BY DEF Ascends
  <2> QED
    BY <2>1, <2>2, <2>3
<1>3. len = [i \in 1..m |-> Ticks(seq, i, lcd)]
  BY <1>0 DEF Lens
<1> HIDE DEF n
<1>4. ASSUME NEW i \in 1..m
      PROVE  Ticks(seq, i, lcd) \in Nat \ {0} /\ d * Ticks(seq, i, lcd) = lcd * n[i] - lcd * n[i - 1]
  <2> DEFINE a == n[i] b == n[i - 1] t == Ticks(seq, i, lcd)
  <2>1. a \in Nat /\ b \in Nat /\ b < a /\ d * d \in Nat \ {0}
    BY <1>0, <1>1, <1>2
  <2>2. t = ((a * d - b * d) * lcd) \div (d * d)
    BY <1>2 DEF Ticks
  <2>3. ((a * d - b * d) * lcd) % (d * d) = 0
    <3>1. seq[i][1] = b /\ seq[i][2] = d /\ seq[i + 1][1] = a /\ seq[i + 1][2] = d
      BY <1>2
    <3>2. ((seq[i + 1][1] * seq[i][2] - seq[i][1] * seq[i + 1][2]) * lcd)
            % (seq[i + 1][2] * seq[i][2]) = 0
      BY <1>0 DEF Whole
    <3> QED
      BY <3>1, <3>2
  <2> HIDE DEF a, b, t
  <2>4. (a * d - b * d) * lcd \in Int
    BY <1>0, <2>1
  <2>5. (a * d - b * d) * lcd = (d * d) * t /\ t \in Int
    <3> DEFINE x == (a * d - b * d) * lcd z == d * d
    <3>1. x \in Int /\ z \in Nat \ {0} /\ t = x \div z /\ x % z = 0
      BY <2>1, <2>2, <2>3, <2>4
    <3> HIDE DEF x, z
    <3>2. x = z * t /\ t \in Int
      BY <3>1, DivideWhole
    <3> QED
      BY <3>2 DEF x, z
  <2>6. (a * d - b * d) * lcd = (lcd * (a - b)) * d /\ (d * d) * t = (d * t) * d
    BY <1>0, <2>1, <2>5
  <2>7. d * t \in Int /\ lcd * (a - b) \in Int
    BY <1>0, <2>1, <2>5
  <2>8. d * t = lcd * (a - b)
    BY <1>0, <2>5, <2>6, <2>7, Cancel
  <2>9. lcd * (a - b) > 0 /\ lcd * (a - b) = lcd * a - lcd * b
    BY <2>1
  <2>10. t > 0
    <3>1. ASSUME t <= 0 PROVE FALSE
      <4>1. d * t <= 0
        BY <1>0, <2>5, <3>1
      <4> QED
        BY <2>7, <2>8, <2>9, <4>1
    <3> QED
      BY <2>5, <3>1
  <2> QED
    BY <2>5, <2>8, <2>9, <2>10 DEF a, b, t
<1>5. len \in [1..m -> Nat \ {0}]
  BY <1>3, <1>4
<1> DEFINE e == [i \in 1..m |-> d * len[i]]
           h == [k \in 0..m |-> lcd * n[k]]
<1>6. /\ e \in [1..m -> Int] /\ h \in [0..m -> Int]
      /\ \A i \in 1..m : e[i] = h[i] - h[i - 1]
  <2>1. h \in [0..m -> Int]
    BY <1>1
  <2>2. \A i \in 1..m : e[i] = lcd * n[i] - lcd * n[i - 1]
    BY <1>3, <1>4
  <2>3. \A i \in 1..m : h[i] = lcd * n[i] /\ h[i - 1] = lcd * n[i - 1]
    BY <1>2
  <2>4. \A i \in 1..m : h[i] \in Int /\ h[i - 1] \in Int
    BY <1>2, <2>1
  <2> HIDE DEF h
  <2>5. \A i \in 1..m : e[i] = h[i] - h[i - 1]
    BY <2>2, <2>3
  <2>6. e \in [1..m -> Int]
    BY <2>4, <2>5
  <2> QED
    BY <2>1, <2>5, <2>6
<1>7. h[m] = lcd * d /\ h[0] = 0
  BY <1>0, <1>1
<1>8. \A i \in 1..m : e[i] = d * len[i]
  OBVIOUS
<1> HIDE DEF e, h, len
<1>9. IsFiniteSet(1..m)
  BY <1>0, FS_Interval
<1>10. SumFunction(e) = lcd * d
  <2>1. SumFunction(e) = Total(e, 1..m)
    BY <1>6 DEF SumFunction, SumFunctionOnSet, FoldFunctionOnSet, Total, MapThenSumSet
  <2>2. Total(e, 1..m) = h[m] - h[0]
    BY <1>0, <1>6, Telescope
  <2> QED
    BY <1>0, <1>7, <2>1, <2>2
<1>11. len \in [1..m -> Int] /\ len \in [1..m -> Nat]
  BY <1>5
<1>12. SumFunction(e) = d * SumFunction(len) /\ SumFunction(len) \in Int
  <2>1. SumFunction(len) \in Int
    BY <1>9, <1>11, SumIsInt
  <2>2. d \in Int
    BY <1>0
  <2> DEFINE S == 1..m
  <2>3. IsFiniteSet(S) /\ len \in [S -> Int] /\ e \in [S -> Int] /\ \A x \in S : e[x] = d * len[x]
    BY <1>6, <1>8, <1>9, <1>11
  <2> HIDE DEF S
  <2>4. SumFunction(e) = d * SumFunction(len)
    BY <2>2, <2>3, SumScaled
  <2> QED
    BY <2>1, <2>4
<1>13. SumFunction(len) * d = lcd * d
  BY <1>0, <1>10, <1>12
<1>14. SumFunction(len) = lcd
  <2> DEFINE s == SumFunction(len)
  <2>1. s \in Int /\ lcd \in Int /\ s * d = lcd * d
    BY <1>12, <1>13
  <2> HIDE DEF s
  <2>2. s = lcd
    BY <1>0, <2>1, Cancel
  <2> QED
    BY <2>2 DEF s
<1> QED
  BY <1>5, <1>14 DEF len

\* The ticks of o that segment i owns, the segments that are behind after the
\* first gi - 1 ticks, and the owner of the next.
TicksOf(o, n, i) == {k \in 1..n : o[k] = i}
BehindAt(seq, lcd, o, gi) ==
  {i \in Segs(seq) : (gi - 1) * Ticks(seq, i, lcd) >= Cardinality({k \in 1..(gi - 1) : o[k] = i}) * lcd}
GoesFirst(seq, lcd, i, j) ==
  \/ Ticks(seq, i, lcd) > Ticks(seq, j, lcd)
  \/ (Ticks(seq, i, lcd) = Ticks(seq, j, lcd) /\ i <= j)
Claimed(seq, lcd, o, gi) ==
  IF BehindAt(seq, lcd, o, gi) = {} THEN Append(o, 0)
  ELSE Append(o, CHOOSE i \in BehindAt(seq, lcd, o, gi) :
                   \A j \in BehindAt(seq, lcd, o, gi) : GoesFirst(seq, lcd, i, j))

\* A sequence with the cycle and the ticks it has in it.
Cycle(seq, m, lcd, len) ==
  /\ m \in Nat \ {0} /\ lcd \in Nat \ {0} /\ Segs(seq) = 1..m
  /\ len \in [1..m -> Nat \ {0}] /\ \A i \in 1..m : len[i] = Ticks(seq, i, lcd)
  /\ SumFunction(len) = lcd

\* The cycle that StripeInit builds is one.
LEMMA CycleOf ==
  ASSUME NEW seq, NEW m, NEW d, Ascends(seq, m, d)
  PROVE  Cycle(seq, m, Lcd(seq), Lens(seq, Lcd(seq)))
<1>1. Lcd(seq) \in Nat \ {0} /\ Whole(seq, Lcd(seq))
  BY LcdExists
<1> DEFINE l == Lcd(seq)
<1> HIDE DEF l
<1>2. l \in Nat \ {0} /\ Whole(seq, l)
  BY <1>1 DEF l
<1>3. Lens(seq, l) \in [1..m -> Nat \ {0}] /\ SumFunction(Lens(seq, l)) = l
  BY <1>2, TicksAddUp
<1>4. m \in Nat \ {0} /\ Segs(seq) = 1..m
  BY DEF Ascends, Segs
<1>5. \A i \in 1..m : Lens(seq, l)[i] = Ticks(seq, i, l)
  BY <1>4 DEF Lens
<1> QED
  BY <1>2, <1>3, <1>4, <1>5 DEF Cycle, l

\* A tick is claimed by one of the segments that are behind, if any is.
LEMMA ClaimedByOne ==
  ASSUME NEW seq, NEW m, NEW lcd, NEW len, Cycle(seq, m, lcd, len), NEW o, NEW gi \in Nat \ {0}
  PROVE  \E x \in 0..m :
           /\ Claimed(seq, lcd, o, gi) = Append(o, x)
           /\ BehindAt(seq, lcd, o, gi) # {} => x \in BehindAt(seq, lcd, o, gi)
<1> DEFINE B == BehindAt(seq, lcd, o, gi)
           F(i) == \A j \in B : GoesFirst(seq, lcd, i, j)
<1>0. m \in Nat \ {0} /\ B \in SUBSET (1..m) /\ len \in [1..m -> Nat \ {0}]
  BY DEF Cycle, BehindAt
<1>1. CASE B = {}
  <2>1. Claimed(seq, lcd, o, gi) = Append(o, 0) /\ 0 \in 0..m
    BY <1>0, <1>1 DEF Claimed
  <2> QED
    BY <1>1, <2>1
<1>2. CASE B # {}
  <2> DEFINE f == [i \in B |-> len[i]]
  <2>1. f \in [B -> Int] /\ \A i \in B : f[i] = Ticks(seq, i, lcd)
    BY <1>0 DEF Cycle
  <2>2. IsFiniteSet(B) /\ B \in SUBSET Nat
    <3>1. IsFiniteSet(1..m)
      BY <1>0, FS_Interval
    <3> HIDE DEF B
    <3>2. IsFiniteSet(B)
      BY <1>0, <3>1, FS_Subset
    <3>3. B \in SUBSET Nat
      BY <1>0
    <3> QED
      BY <3>2, <3>3
  <2>3. \E i \in B : \A j \in B : Ahead(f, i, j)
    <3> HIDE DEF B, f
    <3> QED
      BY <1>2, <2>1, <2>2, FirstExists
  <2>4. \E i \in B : F(i)
    BY <2>1, <2>3 DEF Ahead, GoesFirst
  <2> DEFINE x == CHOOSE i \in B : F(i)
  <2>5. Claimed(seq, lcd, o, gi) = Append(o, x)
    BY <1>2 DEF Claimed
  <2>6. x \in B
    <3> HIDE DEF B, F
    <3> QED
      BY <2>4
  <2> HIDE DEF x, B
  <2>7. x \in 0..m
    BY <1>0, <2>6
  <2> QED
    BY <2>5, <2>6, <2>7 DEF B
<1> QED
  BY <1>1, <1>2

\* Stripes builds the cycle tick by tick.
LEMMA StripesBuilt ==
  ASSUME NEW seq, NEW m, NEW lcd, NEW len, Cycle(seq, m, lcd, len)
  PROVE  \E g \in [0..lcd -> Seq(0..m)] :
           /\ g[0] = <<>> /\ \A n \in 1..lcd : g[n] = Claimed(seq, lcd, g[n - 1], n)
           /\ Stripes(seq, lcd) = g[lcd]
<1>0. lcd \in Nat \ {0} /\ m \in Nat \ {0}
  BY DEF Cycle
<1> DEFINE V == Seq(0..m)
           st == [n \in 1..lcd |-> [o \in V |-> Claimed(seq, lcd, o, n)]]
           Rec(g) == g = [gi \in 0..lcd |-> IF gi = 0 THEN <<>> ELSE Claimed(seq, lcd, g[gi - 1], gi)]
           own == CHOOSE g : Rec(g)
<1>1. st \in [1..lcd -> [V -> V]]
  <2>1. ASSUME NEW n \in 1..lcd, NEW o \in V PROVE Claimed(seq, lcd, o, n) \in V
    <3>1. n \in Nat \ {0}
      BY <1>0
    <3>2. PICK x \in 0..m : Claimed(seq, lcd, o, n) = Append(o, x)
      BY <3>1, ClaimedByOne
    <3> QED
      BY <3>2
  <2> QED
    BY <2>1
<1>2. <<>> \in V
  OBVIOUS
<1>3. PICK g \in [0..lcd -> V] : g[0] = <<>> /\ \A n \in 1..lcd : g[n] = st[n][g[n - 1]]
  <2> DEFINE e == <<>>
  <2>1. e \in V /\ lcd \in Nat
    BY <1>0, <1>2
  <2> HIDE DEF V, st, e
  <2>2. \E g \in [0..lcd -> V] : g[0] = e /\ \A n \in 1..lcd : g[n] = st[n][g[n - 1]]
    BY <1>1, <2>1, Recursion
  <2> QED
    BY <2>2 DEF e
<1>4. \A n \in 1..lcd : g[n] = Claimed(seq, lcd, g[n - 1], n)
  <2>1. \A n \in 1..lcd : n - 1 \in 0..lcd
    BY <1>0
  <2> QED
    BY <1>3, <2>1
<1>5. Rec(g)
  <2>1. \A n \in 0..lcd : n = 0 \/ n \in 1..lcd
    BY <1>0
  <2> QED
    BY <1>3, <1>4, <2>1
<1>6. Rec(own)
  BY <1>5
<1>7. Stripes(seq, lcd) = own[lcd]
  BY DEF Stripes, Claimed, BehindAt, GoesFirst
<1> HIDE DEF own
<1>8. own = [gi \in 0..lcd |-> IF gi = 0 THEN <<>> ELSE Claimed(seq, lcd, own[gi - 1], gi)]
  BY <1>6
<1> DEFINE T == {n \in Nat : n <= lcd => own[n] = g[n]}
<1>9. 0 \in T
  BY <1>0, <1>3, <1>8
<1>10. ASSUME NEW n \in Nat, n \in T PROVE n + 1 \in T
  <2> SUFFICES ASSUME n + 1 <= lcd PROVE own[n + 1] = g[n + 1]
    OBVIOUS
  <2>1. n + 1 \in 1..lcd /\ n + 1 \in 0..lcd /\ (n + 1) - 1 = n /\ n + 1 # 0
    BY <1>0
  <2>2. own[n + 1] = Claimed(seq, lcd, own[n], n + 1)
    BY <1>8, <2>1
  <2>3. g[n + 1] = Claimed(seq, lcd, g[n], n + 1)
    BY <1>4, <2>1
  <2>4. own[n] = g[n]
    BY <1>0, <1>10
  <2> QED
    BY <2>2, <2>3, <2>4
<1>11. lcd \in T
  <2> HIDE DEF T
  <2> QED
    BY <1>0, <1>9, <1>10, NatSet
<1>12. Stripes(seq, lcd) = g[lcd]
  BY <1>0, <1>7, <1>11
<1> QED
  BY <1>3, <1>4, <1>12

\* How many of the first n ticks each segment owns.
Counts(o, n, m) == [i \in 1..m |-> Cardinality(TicksOf(o, n, i))]

\* The first n ticks of a cycle: each has an owner, and no segment owns more
\* than its share of the whole cycle.
Built(o, n, m, len) ==
  /\ n \in Nat /\ o \in Seq(1..m) /\ Len(o) = n
  /\ SumFunction(Counts(o, n, m)) = n
  /\ \A i \in 1..m : Counts(o, n, m)[i] <= len[i]

\* The numbers up to m are finite.
LEMMA UpToFinite ==
  ASSUME NEW m \in Nat
  PROVE  IsFiniteSet(1..m)
BY FS_Interval

\* They are numbers.
LEMMA CountsType ==
  ASSUME NEW o, NEW n \in Nat, NEW m \in Nat
  PROVE  /\ Counts(o, n, m) \in [1..m -> Nat]
         /\ \A i \in 1..m : /\ IsFiniteSet(TicksOf(o, n, i))
                            /\ Counts(o, n, m)[i] = Cardinality(TicksOf(o, n, i))
<1>1. \A i : IsFiniteSet(TicksOf(o, n, i)) /\ Cardinality(TicksOf(o, n, i)) \in Nat
  <2> SUFFICES ASSUME NEW i
               PROVE  IsFiniteSet(TicksOf(o, n, i)) /\ Cardinality(TicksOf(o, n, i)) \in Nat
    OBVIOUS
  <2>1. IsFiniteSet(1..n) /\ TicksOf(o, n, i) \in SUBSET (1..n)
    BY FS_Interval DEF TicksOf
  <2> QED
    BY <2>1, FS_Subset, FS_CardinalityType
<1> QED
  BY <1>1 DEF Counts

\* Some segment is behind as long as the cycle is not full.
LEMMA SomeoneBehind ==
  ASSUME NEW seq, NEW m, NEW lcd, NEW len, Cycle(seq, m, lcd, len),
         NEW o, NEW n \in Nat, SumFunction(Counts(o, n, m)) = n
  PROVE  BehindAt(seq, lcd, o, n + 1) # {}
<1>0. /\ m \in Nat \ {0} /\ lcd \in Nat \ {0} /\ Segs(seq) = 1..m
      /\ len \in [1..m -> Nat \ {0}] /\ \A i \in 1..m : len[i] = Ticks(seq, i, lcd)
      /\ SumFunction(len) = lcd
  BY DEF Cycle
<1> DEFINE c == Counts(o, n, m)
<1>1. c \in [1..m -> Nat] /\ \A i \in 1..m : c[i] = Cardinality(TicksOf(o, n, i))
  BY <1>0, CountsType
<1>2. ASSUME BehindAt(seq, lcd, o, n + 1) = {} PROVE FALSE
  <2>0. (n + 1) - 1 = n
    OBVIOUS
  <2>1. \A i \in 1..m : ~(n * Ticks(seq, i, lcd) >= Cardinality(TicksOf(o, n, i)) * lcd)
    BY <1>0, <1>2, <2>0 DEF BehindAt, TicksOf
  <2>2. \A i \in 1..m : ~(n * len[i] >= c[i] * lcd)
    BY <1>0, <1>1, <2>1
  <2> HIDE DEF c
  <2> DEFINE S == 1..m
             a == [i \in S |-> lcd * c[i]]
             b == [i \in S |-> n * len[i]]
             e == [i \in S |-> lcd * c[i] - n * len[i]]
  <2>3. a \in [S -> Int] /\ b \in [S -> Int]
    BY <1>0, <1>1
  <2>4. \A i \in S : e[i] \in Nat /\ e[i] > 0
    <3> SUFFICES ASSUME NEW i \in S PROVE lcd * c[i] - n * len[i] \in Nat /\ lcd * c[i] - n * len[i] > 0
      OBVIOUS
    <3> DEFINE x == c[i] y == len[i]
    <3>1. x \in Nat /\ y \in Nat /\ ~(n * y >= x * lcd) /\ lcd \in Nat
      BY <1>0, <1>1, <2>2
    <3> HIDE DEF x, y
    <3>2. lcd * x - n * y \in Nat /\ lcd * x - n * y > 0
      BY <3>1
    <3> QED
      BY <3>2 DEF x, y
  <2>5. e \in [S -> Nat] /\ e \in [S -> Int]
    BY <2>4
  <2>6. \A i \in S : a[i] = e[i] + b[i]
    <3> SUFFICES ASSUME NEW i \in S PROVE lcd * c[i] = (lcd * c[i] - n * len[i]) + n * len[i]
      OBVIOUS
    <3>1. lcd * c[i] \in Int /\ n * len[i] \in Int
      BY <1>0, <1>1
    <3> QED
      BY <3>1
  <2>7. c \in [S -> Int] /\ len \in [S -> Int] /\ IsFiniteSet(S) /\ 1 \in S /\ lcd \in Int /\ n \in Int
    <3>1. IsFiniteSet(S) /\ 1 \in S
      BY <1>0, UpToFinite
    <3>2. c \in [S -> Int]
      BY <1>1
    <3>3. len \in [S -> Int] /\ lcd \in Int /\ n \in Int
      BY <1>0
    <3> QED
      BY <3>1, <3>2, <3>3
  <2>8. (\A i \in S : a[i] = lcd * c[i]) /\ \A i \in S : b[i] = n * len[i]
    OBVIOUS
  <2> HIDE DEF S, a, b, e
  <2>9. SumFunction(a) = lcd * SumFunction(c)
    BY <2>3, <2>7, <2>8, SumScaled
  <2>10. SumFunction(b) = n * SumFunction(len)
    BY <2>3, <2>7, <2>8, SumScaled
  <2>11. SumFunction(a) = SumFunction(e) + SumFunction(b)
    BY <2>3, <2>5, <2>6, <2>7, SumsAdd
  <2>12. SumFunction(e) \in Nat /\ e[1] <= SumFunction(e) /\ e[1] \in Nat /\ e[1] > 0
    BY <2>4, <2>5, <2>7, SumOfNats
  <2>13. SumFunction(a) = lcd * n /\ SumFunction(b) = n * lcd
    BY <1>0, <2>9, <2>10 DEF c
  <2>14. lcd * n = n * lcd /\ lcd * n \in Int
    BY <1>0
  <2> QED
    BY <2>11, <2>12, <2>13, <2>14
<1> QED
  BY <1>2

\* The next tick is given to a segment that still has one to get.
LEMMA ClaimBuilds ==
  ASSUME NEW seq, NEW m, NEW lcd, NEW len, Cycle(seq, m, lcd, len),
         NEW o, NEW n \in Nat, n < lcd, Built(o, n, m, len)
  PROVE  Built(Claimed(seq, lcd, o, n + 1), n + 1, m, len)
<1>0. /\ m \in Nat \ {0} /\ lcd \in Nat \ {0} /\ Segs(seq) = 1..m
      /\ len \in [1..m -> Nat \ {0}] /\ \A i \in 1..m : len[i] = Ticks(seq, i, lcd)
  BY DEF Cycle
<1>1. o \in Seq(1..m) /\ Len(o) = n /\ SumFunction(Counts(o, n, m)) = n
      /\ \A i \in 1..m : Counts(o, n, m)[i] <= len[i]
  BY DEF Built
<1>2. BehindAt(seq, lcd, o, n + 1) # {}
  BY <1>1, SomeoneBehind
<1>3. PICK x \in 0..m : /\ Claimed(seq, lcd, o, n + 1) = Append(o, x)
                        /\ x \in BehindAt(seq, lcd, o, n + 1)
  <2>1. n + 1 \in Nat \ {0}
    OBVIOUS
  <2> QED
    BY <1>2, <2>1, ClaimedByOne
<1>4. x \in 1..m /\ n * len[x] >= Cardinality(TicksOf(o, n, x)) * lcd
  <2>1. (n + 1) - 1 = n
    OBVIOUS
  <2> QED
    BY <1>0, <1>3, <2>1 DEF BehindAt, TicksOf
<1> DEFINE p == Append(o, x)
           c == Counts(o, n, m)
           e == Counts(p, n + 1, m)
<1>5. p \in Seq(1..m) /\ Len(p) = n + 1 /\ p[n + 1] = x /\ \A k \in 1..n : p[k] = o[k]
  BY <1>1, <1>4
<1>6. c \in [1..m -> Nat] /\ \A i \in 1..m : IsFiniteSet(TicksOf(o, n, i))
                                             /\ c[i] = Cardinality(TicksOf(o, n, i))
  BY <1>0, CountsType
<1>7. e \in [1..m -> Nat] /\ \A i \in 1..m : e[i] = Cardinality(TicksOf(p, n + 1, i))
  BY <1>0, CountsType
<1> HIDE DEF p, c, e
<1>8. ASSUME NEW i \in 1..m PROVE e[i] = c[i] + IF i \in {x} THEN 1 ELSE 0
  <2>0. 1..(n + 1) = (1..n) \cup {n + 1} /\ n + 1 \notin 1..n
    OBVIOUS
  <2>1. CASE i = x
    <3>1. TicksOf(p, n + 1, i) = TicksOf(o, n, i) \cup {n + 1} /\ n + 1 \notin TicksOf(o, n, i)
      BY <1>5, <2>0, <2>1 DEF TicksOf
    <3>2. Cardinality(TicksOf(p, n + 1, i)) = Cardinality(TicksOf(o, n, i)) + 1
      BY <1>6, <3>1, FS_AddElement
    <3> QED
      BY <1>6, <1>7, <2>1, <3>2
  <2>2. CASE i # x
    <3>1. TicksOf(p, n + 1, i) = TicksOf(o, n, i)
      BY <1>5, <2>0, <2>2 DEF TicksOf
    <3> QED
      BY <1>6, <1>7, <2>2, <3>1
  <2> QED
    BY <2>1, <2>2
<1>9. SumFunction(e) = n + 1
  <2> DEFINE S == 1..m B == {x}
  <2>1. IsFiniteSet(S) /\ c \in [S -> Int] /\ e \in [S -> Int] /\ B \in SUBSET S
        /\ \A i \in S : e[i] = c[i] + IF i \in B THEN 1 ELSE 0
    <3>1. IsFiniteSet(S)
      BY <1>0, UpToFinite
    <3>2. c \in [S -> Int] /\ e \in [S -> Int]
      BY <1>6, <1>7
    <3>3. B \in SUBSET S /\ \A i \in S : e[i] = c[i] + IF i \in B THEN 1 ELSE 0
      BY <1>4, <1>8
    <3> QED
      BY <3>1, <3>2, <3>3
  <2>2. Cardinality(B) = 1
    BY FS_Singleton
  <2> HIDE DEF S, B
  <2>3. SumFunction(e) = SumFunction(c) + Cardinality(B)
    BY <2>1, SumRaised
  <2> QED
    BY <1>1, <2>2, <2>3 DEF c
<1>10. ASSUME NEW i \in 1..m PROVE e[i] <= len[i]
  <2>1. c[i] \in Nat /\ len[i] \in Nat /\ c[i] <= len[i]
    BY <1>0, <1>1, <1>6 DEF c
  <2>2. CASE i # x
    BY <1>8, <2>1, <2>2
  <2>3. CASE i = x
    <3> DEFINE a == c[i] l == len[i]
    <3>1. a \in Nat /\ l \in Nat \ {0} /\ n * l >= a * lcd
      BY <1>0, <1>4, <1>6, <2>1, <2>3
    <3>2. e[i] = a + 1
      BY <1>8, <2>3
    <3> HIDE DEF a, l
    <3>3. a < l
      <4>1. ASSUME a >= l PROVE FALSE
        <5>1. a * lcd >= l * lcd
          BY <1>0, <3>1, <4>1
        <5>2. l * lcd > n * l
          <6>1. (lcd - n) * l > 0 /\ (lcd - n) * l = l * lcd - n * l
            BY <1>0, <3>1
          <6> QED
            BY <6>1, <1>0, <3>1
        <5>3. a * lcd \in Int /\ l * lcd \in Int /\ n * l \in Int
          BY <1>0, <3>1
        <5> QED
          BY <3>1, <5>1, <5>2, <5>3
      <4> QED
        BY <3>1, <4>1
    <3> QED
      BY <3>1, <3>2, <3>3 DEF l
  <2> QED
    BY <2>2, <2>3
<1>11. n + 1 \in Nat
  OBVIOUS
<1> QED
  BY <1>3, <1>5, <1>9, <1>10, <1>11 DEF Built, p, e

\* Two functions with the same sum, of which one is nowhere above the other, are
\* the same.
LEMMA SumsEqual ==
  ASSUME NEW S, IsFiniteSet(S), NEW f \in [S -> Nat], NEW h \in [S -> Nat],
         \A x \in S : f[x] <= h[x], SumFunction(f) = SumFunction(h)
  PROVE  \A x \in S : f[x] = h[x]
<1> DEFINE e == [x \in S |-> h[x] - f[x]]
<1>1. e \in [S -> Nat] /\ \A x \in S : h[x] = f[x] + e[x]
  OBVIOUS
<1> HIDE DEF e
<1>2. f \in [S -> Int] /\ h \in [S -> Int] /\ e \in [S -> Int]
  BY <1>1
<1>3. SumFunction(h) = SumFunction(f) + SumFunction(e)
  BY <1>1, <1>2, SumsAdd
<1>4. SumFunction(e) \in Nat /\ \A x \in S : e[x] <= SumFunction(e)
  BY <1>1, SumOfNats
<1>5. SumFunction(f) \in Int
  BY <1>2, SumIsInt
<1>6. SumFunction(e) = 0
  BY <1>3, <1>4, <1>5
<1>7. \A x \in S : e[x] \in Nat /\ f[x] \in Int
  BY <1>1, <1>2
<1> QED
  BY <1>1, <1>4, <1>6, <1>7

\* In a full cycle every segment owns its ticks, neither more nor fewer, and
\* every tick has an owner.
LEMMA StripesOwn ==
  ASSUME NEW seq, NEW m, NEW lcd, NEW len, Cycle(seq, m, lcd, len)
  PROVE  /\ Stripes(seq, lcd) \in Seq(1..m) /\ Len(Stripes(seq, lcd)) = lcd
         /\ \A i \in 1..m : Cardinality(TicksOf(Stripes(seq, lcd), lcd, i)) = len[i]
<1>0. /\ m \in Nat \ {0} /\ lcd \in Nat \ {0} /\ len \in [1..m -> Nat \ {0}]
      /\ SumFunction(len) = lcd
  BY DEF Cycle
<1>1. PICK g \in [0..lcd -> Seq(0..m)] :
           /\ g[0] = <<>> /\ \A n \in 1..lcd : g[n] = Claimed(seq, lcd, g[n - 1], n)
           /\ Stripes(seq, lcd) = g[lcd]
  BY StripesBuilt
<1> DEFINE T == {n \in Nat : n <= lcd => Built(g[n], n, m, len)}
<1>2. 0 \in T
  <2> DEFINE o == <<>>
  <2>1. Counts(o, 0, m) \in [1..m -> Nat]
        /\ \A i \in 1..m : Counts(o, 0, m)[i] = Cardinality(TicksOf(o, 0, i))
    BY <1>0, CountsType
  <2>2. \A i \in 1..m : TicksOf(o, 0, i) = {}
    BY DEF TicksOf
  <2>3. \A i \in 1..m : Counts(o, 0, m)[i] = 0
    BY <2>1, <2>2, FS_EmptySet
  <2> DEFINE S == 1..m c == Counts(o, 0, m)
  <2>4. IsFiniteSet(S) /\ c \in [S -> Int] /\ {} \in SUBSET S
        /\ \A i \in S : c[i] = IF i \in {} THEN 1 ELSE 0
    BY <1>0, <2>1, <2>3, FS_Interval
  <2>5. o \in Seq(1..m) /\ Len(o) = 0
    OBVIOUS
  <2> HIDE DEF S, c, o
  <2>6. SumFunction(c) = Cardinality({})
    BY <2>4, SumOfOnes
  <2>7. SumFunction(c) = 0
    BY <2>6, FS_EmptySet
  <2>8. Built(o, 0, m, len)
    BY <1>0, <2>3, <2>5, <2>7 DEF Built, c
  <2> QED
    BY <1>1, <2>8 DEF o
<1>3. ASSUME NEW n \in Nat, n \in T PROVE n + 1 \in T
  <2> SUFFICES ASSUME n + 1 <= lcd PROVE Built(g[n + 1], n + 1, m, len)
    OBVIOUS
  <2>1. n < lcd /\ n + 1 \in 1..lcd /\ (n + 1) - 1 = n
    BY <1>0
  <2>2. Built(g[n], n, m, len)
    BY <1>0, <1>3, <2>1
  <2>3. g[n + 1] = Claimed(seq, lcd, g[n], n + 1)
    BY <1>1, <2>1
  <2> QED
    BY <2>1, <2>2, <2>3, ClaimBuilds
<1>4. lcd \in T
  <2> HIDE DEF T
  <2> QED
    BY <1>0, <1>2, <1>3, NatSet
<1> DEFINE o == Stripes(seq, lcd)
           c == Counts(o, lcd, m)
<1>5. Built(o, lcd, m, len)
  BY <1>0, <1>1, <1>4
<1> HIDE DEF o, T
<1>6. o \in Seq(1..m) /\ Len(o) = lcd /\ SumFunction(c) = lcd /\ \A i \in 1..m : c[i] <= len[i]
  BY <1>5 DEF Built
<1>7. c \in [1..m -> Nat] /\ \A i \in 1..m : c[i] = Cardinality(TicksOf(o, lcd, i))
  BY <1>0, CountsType
<1> HIDE DEF c
<1>8. \A i \in 1..m : c[i] = len[i]
  <2> DEFINE S == 1..m
  <2>1. IsFiniteSet(S)
    BY <1>0, UpToFinite
  <2>2. c \in [S -> Nat] /\ len \in [S -> Nat] /\ \A i \in S : c[i] <= len[i]
    BY <1>0, <1>6, <1>7
  <2>3. SumFunction(c) = SumFunction(len)
    BY <1>0, <1>6
  <2> HIDE DEF S
  <2>4. \A i \in S : c[i] = len[i]
    BY <2>1, <2>2, <2>3, SumsEqual
  <2> QED
    BY <2>4 DEF S
<1> QED
  BY <1>6, <1>7, <1>8 DEF o

\* The tick of a segment that comes after k, and its ticks in order.
AfterIn(mine, lcd, k) ==
  IF \E x \in mine : x > k THEN Min({x \in mine : x > k}) ELSE Min(mine) + lcd
NthOf(mine, lcd) ==
  CHOOSE g : g = [n \in 1..Cardinality(mine) |->
                    IF n = 1 THEN Min(mine) ELSE AfterIn(mine, lcd, g[n - 1])]

\* The ticks `mine` of a cycle, listed from the first to the last.
Lists(nth, mine, L) ==
  /\ L \in Nat \ {0} /\ nth \in [1..L -> mine]
  /\ \A x \in mine : nth[1] <= x /\ x <= nth[L]
  /\ \A n \in 1..(L - 1) : nth[n] < nth[n + 1]
                           /\ \A x \in mine : ~(nth[n] < x /\ x < nth[n + 1])

\* The tick after k is the next one there is, or the first of the next cycle.
LEMMA AfterIs ==
  ASSUME NEW lcd \in Nat \ {0}, NEW mine \in SUBSET (1..lcd), mine # {}, NEW k \in Nat
  PROVE  /\ AfterIn(mine, lcd, k) \in Nat
         /\ (\E x \in mine : x > k) =>
              /\ AfterIn(mine, lcd, k) \in mine /\ AfterIn(mine, lcd, k) > k
              /\ \A x \in mine : ~(k < x /\ x < AfterIn(mine, lcd, k))
         /\ ~(\E x \in mine : x > k) => AfterIn(mine, lcd, k) = Min(mine) + lcd
<1>0. mine \in SUBSET Nat
  OBVIOUS
<1>1. Min(mine) \in mine
  BY <1>0, LeastExists
<1>2. CASE \E x \in mine : x > k
  <2> DEFINE S == {x \in mine : x > k}
  <2>1. S \in SUBSET Nat /\ S # {}
    BY <1>0, <1>2
  <2>2. Min(S) \in S /\ \A y \in S : Min(S) <= y
    <3> HIDE DEF S
    <3> QED
      BY <2>1, LeastExists
  <2>3. AfterIn(mine, lcd, k) = Min(S)
    BY <1>2 DEF AfterIn
  <2> DEFINE a == Min(S)
  <2>4. a \in mine /\ a > k /\ a \in Nat /\ \A y \in mine : y > k => a <= y
    BY <1>0, <2>2
  <2> HIDE DEF a, S
  <2>5. \A x \in mine : ~(k < x /\ x < a)
    BY <1>0, <2>4
  <2> QED
    BY <1>2, <2>3, <2>4, <2>5 DEF a
<1>3. CASE ~(\E x \in mine : x > k)
  <2>1. AfterIn(mine, lcd, k) = Min(mine) + lcd
    BY <1>3 DEF AfterIn
  <2> DEFINE a == Min(mine)
  <2>2. a \in Nat
    BY <1>0, <1>1
  <2>3. a + lcd \in Nat
    <3> HIDE DEF a
    <3> QED
      BY <2>2
  <2> QED
    BY <1>3, <2>1, <2>3
<1> QED
  BY <1>2, <1>3

\* NthOf lists the ticks.
LEMMA NthLists ==
  ASSUME NEW lcd \in Nat \ {0}, NEW mine \in SUBSET (1..lcd), mine # {}
  PROVE  /\ Lists(NthOf(mine, lcd), mine, Cardinality(mine))
         /\ NthOf(mine, lcd)[1] = Min(mine)
         /\ \A n \in 1..Cardinality(mine) :
              AfterIn(mine, lcd, NthOf(mine, lcd)[n]) =
                IF n = Cardinality(mine) THEN NthOf(mine, lcd)[1] + lcd ELSE NthOf(mine, lcd)[n + 1]
<1> DEFINE L == Cardinality(mine)
<1>0. IsFiniteSet(mine) /\ L \in Nat \ {0} /\ mine \in SUBSET Nat
  <2>1. IsFiniteSet(1..lcd)
    BY UpToFinite
  <2>2. IsFiniteSet(mine)
    BY <2>1, FS_Subset
  <2> QED
    BY <2>2, FS_CardinalityType, FS_EmptySet
<1> HIDE DEF L
<1>1. Min(mine) \in mine /\ \A y \in mine : Min(mine) <= y
  BY <1>0, LeastExists
<1> DEFINE st == [n \in 1..(L - 1) |-> [k \in Nat |-> AfterIn(mine, lcd, k)]]
           Rec(g) == g = [n \in 1..L |-> IF n = 1 THEN Min(mine) ELSE AfterIn(mine, lcd, g[n - 1])]
           nth == NthOf(mine, lcd)
<1>2. PICK g \in [0..(L - 1) -> Nat] :
        g[0] = Min(mine) /\ \A n \in 1..(L - 1) : g[n] = AfterIn(mine, lcd, g[n - 1])
  <2> DEFINE e == Min(mine) N == L - 1
  <2>1. e \in Nat /\ N \in Nat
    <3>1. e \in Nat
      BY <1>0, <1>1
    <3>2. N \in Nat
      BY <1>0
    <3> QED
      BY <3>1, <3>2
  <2> DEFINE V == Nat
  <2>2. st \in [1..N -> [V -> V]]
    <3>1. \A k \in Nat : AfterIn(mine, lcd, k) \in Nat
      BY AfterIs
    <3> QED
      BY <3>1
  <2>3. \A h \in [0..N -> Nat] : \A n \in 1..N : st[n][h[n - 1]] = AfterIn(mine, lcd, h[n - 1])
    <3>1. \A n \in 1..N : n - 1 \in 0..N
      BY <2>1
    <3> QED
      BY <3>1
  <2>4. \E g \in [0..N -> V] : g[0] = e /\ \A n \in 1..N : g[n] = st[n][g[n - 1]]
    <3>1. e \in V
      BY <2>1
    <3> HIDE DEF st, e, V
    <3>2. N \in Nat
      BY <2>1
    <3> HIDE DEF N
    <3> QED
      BY <2>2, <3>1, <3>2, Recursion
  <2> HIDE DEF st, e, N
  <2> QED
    BY <2>3, <2>4 DEF e, N
<1> HIDE DEF st
<1> DEFINE h == [n \in 1..L |-> g[n - 1]]
<1>3. Rec(h)
  <2> SUFFICES ASSUME NEW n \in 1..L
               PROVE  h[n] = IF n = 1 THEN Min(mine) ELSE AfterIn(mine, lcd, h[n - 1])
    OBVIOUS
  <2>1. CASE n = 1
    BY <1>2, <2>1
  <2>2. CASE n # 1
    <3>1. n - 1 \in 1..L /\ n - 1 \in 1..(L - 1)
      BY <1>0, <2>2
    <3> QED
      BY <1>2, <2>2, <3>1
  <2> QED
    BY <2>1, <2>2
<1>4. Rec(nth)
  <2>1. nth = CHOOSE f : Rec(f)
    BY DEF NthOf, L
  <2> HIDE DEF h, Rec, nth
  <2> QED
    BY <1>3, <2>1
<1> HIDE DEF h, nth
<1>5. /\ nth[1] = Min(mine)
      /\ \A n \in 1..L : n # 1 => nth[n] = AfterIn(mine, lcd, nth[n - 1])
      /\ nth = [n \in 1..L |-> nth[n]]
  <2> DEFINE w(n) == IF n = 1 THEN Min(mine) ELSE AfterIn(mine, lcd, nth[n - 1])
  <2>1. nth = [n \in 1..L |-> w(n)]
    BY <1>4
  <2>2. \A n \in 1..L : nth[n] = w(n)
    <3> HIDE DEF w
    <3> QED
      BY <2>1
  <2>3. nth = [n \in 1..L |-> nth[n]]
    <3> HIDE DEF w
    <3> QED
      BY <2>1
  <2>4. 1 \in 1..L
    BY <1>0
  <2> QED
    BY <2>2, <2>3, <2>4
<1> HIDE DEF Rec
<1> DEFINE B(c) == {x \in mine : x < c}
           Nth(n) == nth[n] \in mine /\ Cardinality(B(nth[n])) = n - 1
<1>6. ASSUME NEW c \in mine PROVE IsFiniteSet(B(c)) /\ Cardinality(B(c)) \in Nat
  <2>1. B(c) \in SUBSET mine
    OBVIOUS
  <2> QED
    BY <1>0, <2>1, FS_Subset, FS_CardinalityType
<1>7. ASSUME NEW n \in 1..L, Nth(n)
      PROVE  n < L <=> \E x \in mine : x > nth[n]
  <2> DEFINE c == nth[n]
             D == B(c) \cup {c}
  <2>0. c \in mine /\ Cardinality(B(c)) = n - 1
    BY <1>7
  <2>1. c \in mine /\ c \in Nat /\ c \notin B(c) /\ IsFiniteSet(B(c)) /\ Cardinality(B(c)) = n - 1
    <3> HIDE DEF c
    <3>1. c \in Nat
      BY <1>0, <2>0
    <3>2. c \notin B(c)
      BY <3>1
    <3>3. IsFiniteSet(B(c))
      BY <1>6, <2>0
    <3> QED
      BY <2>0, <3>1, <3>2, <3>3
  <2>2. Cardinality(D) = n /\ D \in SUBSET mine
    <3>1. D \in SUBSET mine
      BY <2>1
    <3>2. Cardinality(D) = (n - 1) + 1
      <4> HIDE DEF c, B
      <4> QED
        BY <2>1, FS_AddElement
    <3> QED
      BY <3>1, <3>2
  <2>3. CASE n < L
    <3>1. D # mine
      <4> HIDE DEF D
      <4> QED
        BY <1>0, <2>2, <2>3 DEF L
    <3>2. PICK x \in mine : x \notin D
      BY <2>2, <3>1
    <3>3. x > c
      BY <1>0, <2>1, <3>2
    <3> QED
      BY <2>3, <3>3
  <2>4. CASE \E x \in mine : x > c
    <3>1. PICK x \in mine : x > c
      BY <2>4
    <3>2. x \notin D /\ x \in Nat
      BY <1>0, <2>1, <3>1
    <3>3. Cardinality(D) # L
      <4>1. Cardinality(D) = Cardinality(mine) => mine = D
        BY <1>0, <2>2, FS_Subset
      <4> QED
        BY <3>1, <3>2, <4>1 DEF L
    <3> QED
      BY <1>0, <2>2, <2>4, <3>3
  <2> QED
    BY <2>3, <2>4
<1> DEFINE T == {n \in Nat : n + 1 <= L => Nth(n + 1)}
<1>8. 0 \in T
  <2>1. B(nth[1]) = {}
    BY <1>0, <1>1, <1>5
  <2> QED
    BY <1>1, <1>5, <2>1, FS_EmptySet
<1>9. ASSUME NEW n \in Nat, n \in T PROVE n + 1 \in T
  <2> SUFFICES ASSUME n + 2 <= L PROVE Nth(n + 2)
    OBVIOUS
  <2>0. n + 1 \in 1..L /\ n + 2 \in 1..L /\ n + 2 # 1 /\ (n + 2) - 1 = n + 1 /\ n + 1 < L
    BY <1>0
  <2>1. Nth(n + 1)
    BY <1>9, <2>0
  <2> DEFINE c == nth[n + 1] e == nth[n + 2]
  <2>2. c \in mine /\ c \in Nat /\ \E x \in mine : x > c
    BY <1>0, <1>7, <2>0, <2>1
  <2>3. e = AfterIn(mine, lcd, c)
    BY <1>5, <2>0
  <2>4. e \in mine /\ e > c /\ \A x \in mine : ~(c < x /\ x < e)
    <3> HIDE DEF c, e
    <3> QED
      BY <2>2, <2>3, AfterIs
  <2>5. B(e) = B(c) \cup {c} /\ c \notin B(c)
    <3> HIDE DEF c, e
    <3>0. e \in Nat /\ \A x \in mine : x \in Nat
      BY <1>0, <2>4
    <3>1. \A x \in mine : x < e <=> x < c \/ x = c
      <4> SUFFICES ASSUME NEW x \in mine PROVE x < e <=> x < c \/ x = c
        OBVIOUS
      <4>1. x \in Nat /\ e \in Nat /\ c \in Nat /\ c < e /\ ~(c < x /\ x < e)
        BY <2>2, <2>4, <3>0
      <4> QED
        BY <4>1
    <3> QED
      BY <2>2, <2>4, <3>1
  <2>6. Cardinality(B(c)) = n /\ IsFiniteSet(B(c))
    <3>1. Cardinality(B(c)) = (n + 1) - 1
      BY <2>1
    <3>2. IsFiniteSet(B(c))
      <4> HIDE DEF c
      <4> QED
        BY <1>6, <2>2
    <3> QED
      BY <3>1, <3>2
  <2>7. Cardinality(B(e)) = n + 1
    BY <2>5, <2>6, FS_AddElement
  <2> QED
    BY <2>4, <2>7
<1>10. \A n \in Nat : n \in T
  <2> HIDE DEF T
  <2> QED
    BY <1>8, <1>9, NatSet
<1>11. \A n \in 1..L : Nth(n)
  <2>1. \A n \in 1..L : n - 1 \in Nat /\ (n - 1) + 1 = n /\ n <= L
    BY <1>0
  <2> QED
    BY <1>10, <2>1
<1>12. ASSUME NEW n \in 1..L
       PROVE  AfterIn(mine, lcd, nth[n]) = IF n = L THEN nth[1] + lcd ELSE nth[n + 1]
  <2>1. nth[n] \in mine /\ nth[n] \in Nat
    BY <1>0, <1>11
  <2>2. CASE n = L
    <3>0. Nth(n) /\ ~(n < L)
      <4>1. ~(n < L)
        BY <1>0, <2>2
      <4> QED
        BY <1>11, <4>1
    <3>1. ~\E x \in mine : x > nth[n]
      <4> HIDE DEF Nth
      <4> QED
        BY <1>7, <3>0
    <3> QED
      BY <1>5, <2>1, <2>2, <3>1, AfterIs
  <2>3. CASE n # L
    <3>1. n + 1 \in 1..L /\ n + 1 # 1 /\ (n + 1) - 1 = n
      BY <1>0, <2>3
    <3> QED
      BY <1>5, <2>3, <3>1
  <2> QED
    BY <2>2, <2>3
<1>13. Lists(nth, mine, L)
  <2>1. nth \in [1..L -> mine]
    BY <1>5, <1>11
  <2>2. \A x \in mine : nth[1] <= x /\ x <= nth[L]
    <3>1. L \in 1..L /\ ~(L < L)
      BY <1>0
    <3>2. ~\E x \in mine : x > nth[L]
      BY <1>7, <1>11, <3>1
    <3>3. nth[L] \in Nat
      BY <1>0, <2>1, <3>1
    <3> QED
      BY <1>0, <1>1, <1>5, <3>2, <3>3
  <2>3. ASSUME NEW n \in 1..(L - 1)
        PROVE  nth[n] < nth[n + 1] /\ \A x \in mine : ~(nth[n] < x /\ x < nth[n + 1])
    <3>1. n \in 1..L /\ n < L /\ n # L
      BY <1>0
    <3>2. nth[n] \in Nat /\ \E x \in mine : x > nth[n]
      BY <1>0, <1>7, <1>11, <3>1
    <3>3. AfterIn(mine, lcd, nth[n]) = nth[n + 1]
      BY <1>12, <3>1
    <3>4. AfterIn(mine, lcd, nth[n]) \in mine /\ AfterIn(mine, lcd, nth[n]) > nth[n]
          /\ \A x \in mine : ~(nth[n] < x /\ x < AfterIn(mine, lcd, nth[n]))
      BY <3>2, AfterIs
    <3>5. nth[n + 1] \in Nat
      BY <1>0, <3>3, <3>4
    <3> QED
      BY <3>2, <3>3, <3>4, <3>5
  <2> QED
    BY <1>0, <2>1, <2>2, <2>3 DEF Lists
<1> QED
  BY <1>5, <1>12, <1>13 DEF L, nth

\* The ticks of the whole schedule that belong to a segment.
Owned(mine, lcd) == {g \in Nat : \E q \in Nat, k \in mine : g = q * lcd + k}

\* A stripe that lists the ticks `mine` of a cycle.
Striped(st, mine, lcd, nth, L) ==
  /\ lcd \in Nat \ {0} /\ mine \in SUBSET (1..lcd) /\ Lists(nth, mine, L)
  /\ st.start = nth[1] - 1
  /\ st.gaps \in Seq(Nat \ {0}) /\ Len(st.gaps) = L
  /\ \A n \in 1..L : st.gaps[n] = (IF n = L THEN nth[1] + lcd ELSE nth[n + 1]) - nth[n]

\* A cursor that stands at the n-th tick of cycle q.
StandsAt(c, q, n, lcd, nth, L) ==
  /\ q \in Nat /\ n \in 1..L /\ c \in [scaled : Nat \ {0}, unscaled : Nat \ {0}]
  /\ c.scaled = q * L + n /\ c.unscaled = q * lcd + nth[n]

\* Advance and DueBy as functions of the stripe and the cursor.
Moved(st, c) ==
  [scaled |-> c.scaled + 1,
   unscaled |-> c.unscaled + st.gaps[((c.scaled - 1) % Len(st.gaps)) + 1]]
Due(st, c, arrivals) ==
  LET walk[n \in 0..MaxArrivals] ==
        IF n = 0 THEN [c |-> c, out |-> {}]
        ELSE LET w == walk[n - 1] IN
               IF w.c.unscaled > arrivals THEN w
               ELSE [c |-> Moved(st, w.c), out |-> w.out \cup {w.c.unscaled}]
  IN walk[MaxArrivals]

\* A smaller multiple is smaller by a whole cycle.
LEMMA Multiples ==
  ASSUME NEW p \in Nat, NEW q \in Nat, NEW l \in Nat \ {0}, p < q
  PROVE  p * l + l <= q * l
<1>1. PICK d \in Nat : q = (p + 1) + d
  <2>1. q - (p + 1) \in Nat /\ q = (p + 1) + (q - (p + 1))
    OBVIOUS
  <2> QED
    BY <2>1
<1>2. q * l = p * l + l + d * l /\ d * l \in Nat /\ p * l \in Nat
  BY <1>1
<1> QED
  BY <1>2

\* A tick of the schedule has one place in one cycle.
LEMMA PlaceIsOne ==
  ASSUME NEW p \in Nat, NEW q \in Nat, NEW l \in Nat \ {0}, NEW j \in 1..l, NEW k \in 1..l,
         p * l + j = q * l + k
  PROVE  p = q /\ j = k
<1> DEFINE P == p * l Q == q * l
<1>0. P \in Nat /\ Q \in Nat
  OBVIOUS
<1>1. ~(p < q)
  <2> SUFFICES ASSUME p < q PROVE FALSE
    OBVIOUS
  <2>1. P + l <= Q
    BY Multiples
  <2> HIDE DEF P, Q
  <2>2. P + j = Q + k
    BY DEF P, Q
  <2> QED
    BY <1>0, <2>1, <2>2
<1>2. ~(q < p)
  <2> SUFFICES ASSUME q < p PROVE FALSE
    OBVIOUS
  <2>1. Q + l <= P
    BY Multiples
  <2> HIDE DEF P, Q
  <2>2. P + j = Q + k
    BY DEF P, Q
  <2> QED
    BY <1>0, <2>1, <2>2
<1>3. p = q
  BY <1>1, <1>2
<1>4. P = Q
  BY <1>3
<1>5. P + j = Q + k
  OBVIOUS
<1> HIDE DEF P, Q
<1> QED
  BY <1>0, <1>3, <1>4, <1>5

\* Where a tick stands in its cycle.
LEMMA PlaceExists ==
  ASSUME NEW g \in Nat \ {0}, NEW l \in Nat \ {0}
  PROVE  \E q \in Nat : \E k \in 1..l : g = q * l + k
<1> DEFINE q == (g - 1) \div l  r == (g - 1) % l
<1>1. g - 1 \in Nat
  OBVIOUS
<1>2. r \in 0..(l - 1) /\ g - 1 = l * q + r
  BY <1>1
<1>3. q \in Nat
  BY <1>1
<1>4. r + 1 \in 1..l
  BY <1>2
<1>5. l * q = q * l /\ q * l \in Nat
  BY <1>3
<1> DEFINE P == q * l
<1>6. P \in Nat /\ g - 1 = P + r
  BY <1>2, <1>5
<1>7. g = q * l + (r + 1)
  <2>0. r \in Nat
    BY <1>2
  <2> HIDE DEF P, r
  <2>1. g = P + (r + 1)
    BY <1>6, <2>0
  <2> QED
    BY <2>1 DEF P
<1> HIDE DEF q, r
<1> QED
  BY <1>3, <1>4, <1>7

\* The remainder of the n-th place.
LEMMA PlaceModulo ==
  ASSUME NEW q \in Nat, NEW L \in Nat \ {0}, NEW n \in 1..L
  PROVE  (((q * L + n) - 1) % L) + 1 = n
<1> DEFINE P == q * L  g == P + n
<1>0. P \in Nat /\ g \in Nat \ {0} /\ g - 1 \in Nat
  <2>1. P \in Nat
    OBVIOUS
  <2> HIDE DEF P
  <2> QED
    BY <2>1
<1> DEFINE p == (g - 1) \div L  r == (g - 1) % L
<1> HIDE DEF g
<1>1. r \in 0..(L - 1) /\ g - 1 = L * p + r
  BY <1>0
<1>2. p \in Nat
  BY <1>0
<1> HIDE DEF p, r
<1>3. L * p = p * L /\ p * L \in Nat
  BY <1>2
<1> DEFINE O == p * L
<1>4. r + 1 \in 1..L
  BY <1>1
<1>5. p * L + (r + 1) = q * L + n
  <2>1. O \in Nat /\ g - 1 = O + r /\ g = P + n
    BY <1>1, <1>3 DEF g
  <2> HIDE DEF O, P
  <2>2. O + (r + 1) = P + n
    BY <1>0, <1>1, <2>1
  <2> QED
    BY <2>2 DEF O, P
<1>6. r + 1 = n
  <2> DEFINE j == r + 1
  <2>1. j \in 1..L /\ p * L + j = q * L + n
    BY <1>4, <1>5
  <2> HIDE DEF j
  <2>2. p = q /\ j = n
    BY <1>2, <2>1, PlaceIsOne
  <2> QED
    BY <2>2 DEF j
<1> QED
  BY <1>6 DEF r, g
\* Advance takes a cursor from one owned tick to the next one there is.
LEMMA MovedStands ==
  ASSUME NEW st, NEW mine, NEW lcd, NEW nth, NEW L, Striped(st, mine, lcd, nth, L),
         NEW c, NEW q, NEW n, StandsAt(c, q, n, lcd, nth, L)
  PROVE  /\ \E p, k : StandsAt(Moved(st, c), p, k, lcd, nth, L)
         /\ c.unscaled \in Owned(mine, lcd)
         /\ c.unscaled < Moved(st, c).unscaled
         /\ \A g \in Owned(mine, lcd) : ~(c.unscaled < g /\ g < Moved(st, c).unscaled)
<1>0. /\ lcd \in Nat \ {0} /\ mine \in SUBSET (1..lcd) /\ L \in Nat \ {0} /\ nth \in [1..L -> mine]
      /\ \A x \in mine : nth[1] <= x /\ x <= nth[L]
      /\ \A k \in 1..(L - 1) : nth[k] < nth[k + 1]
                               /\ \A x \in mine : ~(nth[k] < x /\ x < nth[k + 1])
  BY DEF Striped, Lists
<1>1. /\ st.gaps \in Seq(Nat \ {0}) /\ Len(st.gaps) = L
      /\ \A k \in 1..L : st.gaps[k] = (IF k = L THEN nth[1] + lcd ELSE nth[k + 1]) - nth[k]
  BY DEF Striped
<1>2. /\ q \in Nat /\ n \in 1..L /\ c \in [scaled : Nat \ {0}, unscaled : Nat \ {0}]
      /\ c.scaled = q * L + n /\ c.unscaled = q * lcd + nth[n]
  BY DEF StandsAt
<1> DEFINE d == Moved(st, c) gap == st.gaps[n] u == c.unscaled
           P == q * lcd
<1>3. d = [scaled |-> c.scaled + 1, unscaled |-> u + gap]
  <2>1. ((c.scaled - 1) % L) + 1 = n
    BY <1>0, <1>2, PlaceModulo
  <2> QED
    BY <1>1, <2>1 DEF Moved
<1>4. gap \in Nat \ {0} /\ u \in Nat \ {0} /\ P \in Nat /\ u = P + nth[n]
  <2>1. gap \in Nat \ {0}
    BY <1>1, <1>2
  <2>2. P \in Nat
    BY <1>0, <1>2
  <2> QED
    BY <1>2, <2>1, <2>2
<1>5. d.unscaled = u + gap /\ d.scaled = c.scaled + 1 /\ c.scaled \in Nat \ {0}
      /\ d \in [scaled : Nat \ {0}, unscaled : Nat \ {0}]
  <2>1. u + gap \in Nat \ {0} /\ c.scaled \in Nat \ {0} /\ c.scaled + 1 \in Nat \ {0}
    BY <1>2, <1>4
  <2> HIDE DEF gap, u
  <2> QED
    BY <1>3, <2>1
<1>6. u \in Owned(mine, lcd)
  <2>1. nth[n] \in mine
    BY <1>0, <1>2
  <2> HIDE DEF u
  <2> QED
    BY <1>2, <1>4, <2>1 DEF Owned
<1>7. u < d.unscaled
  <2> HIDE DEF gap, u
  <2> QED
    BY <1>4, <1>5
<1>8. nth[n] \in 1..lcd /\ nth[1] \in 1..lcd /\ nth[n] \in Nat /\ nth[1] \in Nat
  <2>1. 1 \in 1..L
    BY <1>0
  <2>2. nth[n] \in mine /\ nth[1] \in mine
    BY <1>0, <1>2, <2>1
  <2>3. \A x \in mine : x \in 1..lcd /\ x \in Nat
    BY <1>0
  <2> QED
    BY <2>2, <2>3
\* where a tick of another cycle is
<1>9. ASSUME NEW p \in Nat, NEW k \in 1..lcd
      PROVE  /\ p < q => p * lcd + k <= P
             /\ q < p => P + lcd < p * lcd + k
             /\ q + 1 < p => P + lcd + lcd < p * lcd + k
  <2> DEFINE R == p * lcd
  <2>0. R \in Nat
    BY <1>0
  <2>1. p < q => R + lcd <= P
    BY <1>0, <1>2, Multiples
  <2>2. q < p => P + lcd <= R
    BY <1>0, <1>2, Multiples
  <2>3. q + 1 < p => P + lcd + lcd <= R
    <3> DEFINE e == q + 1
    <3>1. e \in Nat /\ e * lcd = P + lcd
      BY <1>0, <1>2
    <3> HIDE DEF e
    <3>2. e < p => e * lcd + lcd <= R
      BY <1>0, <3>1, Multiples
    <3> QED
      BY <3>1, <3>2 DEF e
  <2> HIDE DEF R, P
  <2>4. /\ p < q => R + k <= P
        /\ q < p => P + lcd < R + k
        /\ q + 1 < p => P + lcd + lcd < R + k
    BY <1>0, <1>4, <2>0, <2>1, <2>2, <2>3
  <2> QED
    BY <2>4 DEF R
<1>10. CASE n # L
  <2>1. n \in 1..(L - 1) /\ n + 1 \in 1..L
    BY <1>0, <1>2, <1>10
  <2>2. nth[n + 1] \in mine /\ nth[n + 1] \in 1..lcd /\ nth[n + 1] \in Nat
    <3>1. nth[n + 1] \in mine
      BY <1>0, <2>1
    <3>2. \A x \in mine : x \in 1..lcd /\ x \in Nat
      BY <1>0
    <3> QED
      BY <3>1, <3>2
  <2>3. gap = nth[n + 1] - nth[n]
    BY <1>1, <1>2, <1>10
  <2> DEFINE a == nth[n] b == nth[n + 1]
  <2>4. a < b /\ \A x \in mine : ~(a < x /\ x < b)
    BY <1>0, <2>1
  <2>5. d.unscaled = P + b
    <3>1. a \in Nat /\ b \in Nat /\ u = P + a /\ gap = b - a
      BY <1>4, <1>8, <2>2, <2>3
    <3> HIDE DEF a, b, P, u, gap
    <3> QED
      BY <1>4, <1>5, <3>1
  <2>6. d.scaled = q * L + (n + 1)
    <3> DEFINE Z == q * L
    <3>1. Z \in Nat /\ c.scaled = Z + n
      BY <1>0, <1>2
    <3> HIDE DEF Z
    <3>2. d.scaled = Z + (n + 1)
      BY <1>2, <1>5, <3>1
    <3> QED
      BY <3>2 DEF Z
  <2>7. StandsAt(d, q, n + 1, lcd, nth, L)
    <3> HIDE DEF d
    <3> QED
      BY <1>2, <1>5, <2>1, <2>5, <2>6 DEF StandsAt
  <2>8. ASSUME NEW g \in Owned(mine, lcd), u < g, g < d.unscaled PROVE FALSE
    <3>1. PICK p \in Nat, k \in mine : g = p * lcd + k
      BY <2>8 DEF Owned
    <3>2. k \in 1..lcd /\ k \in Nat
      BY <1>0
    <3>3. /\ p < q => g <= P
          /\ q < p => P + lcd < g
      BY <1>9, <3>1, <3>2
    <3>4. g \in Nat /\ u = P + a /\ a \in 1..lcd /\ b \in 1..lcd
      BY <1>4, <1>8, <2>2 DEF Owned
    <3>5. p = q
      <4> HIDE DEF P, u, a, b, d
      <4>1. ~(p < q)
        BY <1>0, <1>4, <2>8, <3>3, <3>4
      <4>2. ~(q < p)
        BY <1>0, <1>4, <2>5, <2>8, <3>3, <3>4
      <4> QED
        BY <1>2, <4>1, <4>2
    <3>6. g = P + k
      BY <3>1, <3>5
    <3>7. a < k /\ k < b
      <4> HIDE DEF P, u, a, b, d
      <4> QED
        BY <1>4, <2>5, <2>8, <3>2, <3>4, <3>6
    <3> QED
      BY <2>4, <3>7
  <2> HIDE DEF d, u
  <2>9. \E p, k : StandsAt(d, p, k, lcd, nth, L)
    BY <2>7
  <2>10. \A g \in Owned(mine, lcd) : ~(u < g /\ g < d.unscaled)
    BY <2>8
  <2> QED
    BY <1>6, <1>7, <2>9, <2>10 DEF d, u
<1>11. CASE n = L
  <2> DEFINE a == nth[L] b == nth[1]
  <2>1. gap = (b + lcd) - a
    BY <1>1, <1>2, <1>11
  <2>4. a \in 1..lcd /\ b \in 1..lcd /\ u = P + a
    BY <1>4, <1>8, <1>11
  <2>5. d.unscaled = (P + lcd) + b
    <3> HIDE DEF a, b, P, u, gap
    <3>1. a \in Nat /\ b \in Nat
      BY <1>0, <2>4
    <3> QED
      BY <1>0, <1>4, <1>5, <2>1, <2>4, <3>1
  <2>6. (q + 1) * lcd = P + lcd /\ (q + 1) * L = q * L + L /\ q + 1 \in Nat /\ q * L \in Nat
    BY <1>0, <1>2
  <2>7. d.scaled = (q + 1) * L + 1
    <3> DEFINE Z == q * L
    <3>1. Z \in Nat /\ c.scaled = Z + L /\ (q + 1) * L = Z + L
      BY <1>2, <1>11, <2>6
    <3> HIDE DEF Z
    <3> QED
      BY <1>0, <1>5, <3>1
  <2>8. StandsAt(d, q + 1, 1, lcd, nth, L)
    <3>1. 1 \in 1..L
      BY <1>0
    <3>2. d.unscaled = (q + 1) * lcd + nth[1]
      BY <2>5, <2>6
    <3> HIDE DEF d
    <3> QED
      BY <1>5, <2>6, <2>7, <3>1, <3>2 DEF StandsAt
  <2>9. ASSUME NEW g \in Owned(mine, lcd), u < g, g < d.unscaled PROVE FALSE
    <3>1. PICK p \in Nat, k \in mine : g = p * lcd + k
      BY <2>9 DEF Owned
    <3>2. k \in 1..lcd /\ k \in Nat
      BY <1>0
    <3>3. /\ p < q => g <= P
          /\ q + 1 < p => P + lcd + lcd < g
      BY <1>9, <3>1, <3>2
    <3>4. g \in Nat
      BY DEF Owned
    <3>5. b <= k /\ k <= a
      BY <1>0
    <3>6. p = q \/ p = q + 1
      <4> HIDE DEF P, u, a, b, d
      <4>1. ~(p < q)
        BY <1>0, <1>4, <2>4, <2>9, <3>3, <3>4
      <4>2. ~(q + 1 < p)
        BY <1>0, <1>4, <2>4, <2>5, <2>9, <3>3, <3>4
      <4> QED
        BY <1>2, <4>1, <4>2
    <3>7. CASE p = q
      <4>1. g = P + k
        BY <3>1, <3>7
      <4> HIDE DEF P, u, a, b, d
      <4> QED
        BY <1>4, <2>4, <2>9, <3>2, <3>5, <4>1
    <3>8. CASE p = q + 1
      <4>1. g = (P + lcd) + k
        BY <2>6, <3>1, <3>8
      <4> HIDE DEF P, u, a, b, d
      <4> QED
        BY <1>0, <1>4, <2>4, <2>5, <2>9, <3>2, <3>5, <4>1
    <3> QED
      BY <3>6, <3>7, <3>8
  <2> HIDE DEF d, u
  <2>10. \E p, k : StandsAt(d, p, k, lcd, nth, L)
    BY <2>8
  <2>11. \A g \in Owned(mine, lcd) : ~(u < g /\ g < d.unscaled)
    BY <2>9
  <2> QED
    BY <1>6, <1>7, <2>10, <2>11 DEF d, u
<1> QED
  BY <1>10, <1>11

\* A stripe of the ticks `mine`, and a cursor that stands at one of them.
Steady(st, mine, lcd, c) ==
  \E nth, L : /\ Striped(st, mine, lcd, nth, L)
              /\ \E q, n : StandsAt(c, q, n, lcd, nth, L)

Cursors == [scaled : Nat \ {0}, unscaled : Nat \ {0}]

\* A cursor stays at the ticks of its segment, and moves to the next of them.
LEMMA MovedSteady ==
  ASSUME NEW st, NEW mine, NEW lcd, NEW c, Steady(st, mine, lcd, c)
  PROVE  /\ c \in Cursors /\ Moved(st, c) \in Cursors
         /\ Steady(st, mine, lcd, Moved(st, c))
         /\ c.unscaled \in Owned(mine, lcd)
         /\ c.unscaled < Moved(st, c).unscaled
         /\ \A g \in Owned(mine, lcd) : ~(c.unscaled < g /\ g < Moved(st, c).unscaled)
<1>1. PICK nth, L : Striped(st, mine, lcd, nth, L) /\ \E q, n : StandsAt(c, q, n, lcd, nth, L)
  BY DEF Steady
<1>2. PICK q, n : StandsAt(c, q, n, lcd, nth, L)
  BY <1>1
<1>3. /\ \E p, k : StandsAt(Moved(st, c), p, k, lcd, nth, L)
      /\ c.unscaled \in Owned(mine, lcd)
      /\ c.unscaled < Moved(st, c).unscaled
      /\ \A g \in Owned(mine, lcd) : ~(c.unscaled < g /\ g < Moved(st, c).unscaled)
  BY <1>1, <1>2, MovedStands
<1>4. c \in Cursors /\ Moved(st, c) \in Cursors
  BY <1>2, <1>3 DEF StandsAt, Cursors
<1>5. Steady(st, mine, lcd, Moved(st, c))
  BY <1>1, <1>3 DEF Steady
<1> QED
  BY <1>3, <1>4, <1>5

\* The loop of due_by: what it has released, and where it stands, after n turns.
LoopStep(st, a, w) ==
  IF w.c.unscaled > a THEN w ELSE [c |-> Moved(st, w.c), out |-> w.out \cup {w.c.unscaled}]

\* Due runs the loop.
LEMMA LoopRuns ==
  ASSUME NEW st, NEW mine, NEW lcd, NEW c, Steady(st, mine, lcd, c), NEW a
  PROVE  \E w : /\ w[0] = [c |-> c, out |-> {}]
                /\ \A n \in 1..MaxArrivals : w[n] = LoopStep(st, a, w[n - 1])
                /\ Due(st, c, a) = w[MaxArrivals]
<1> DEFINE N == MaxArrivals
           V == [c : Cursors, out : SUBSET Nat]
           e == [c |-> c, out |-> {}]
           Rec(f) == f = [n \in 0..N |-> IF n = 0 THEN e ELSE LoopStep(st, a, f[n - 1])]
<1>0. N \in Nat /\ N \in 0..N
  BY StripeAssumption
<1>1. PICK nth, L : Striped(st, mine, lcd, nth, L)
  BY DEF Steady
<1>2. st.gaps \in Seq(Nat \ {0}) /\ Len(st.gaps) = L /\ L \in Nat \ {0}
  BY <1>1 DEF Striped, Lists
<1>3. ASSUME NEW x \in Cursors PROVE Moved(st, x) \in Cursors
  <2> DEFINE r == (x.scaled - 1) % L
  <2>1. x.scaled \in Nat \ {0} /\ x.unscaled \in Nat \ {0} /\ x.scaled - 1 \in Nat
    BY DEF Cursors
  <2>2. r \in 0..(L - 1)
    BY <1>2, <2>1
  <2>3. r + 1 \in 1..L
    BY <1>2, <2>2
  <2> HIDE DEF r
  <2> DEFINE gap == st.gaps[r + 1]
  <2>4. gap \in Nat \ {0}
    BY <1>2, <2>3
  <2>5. Moved(st, x) = [scaled |-> x.scaled + 1, unscaled |-> x.unscaled + gap]
    BY <1>2 DEF Moved, r
  <2> HIDE DEF gap
  <2>6. x.scaled + 1 \in Nat \ {0} /\ x.unscaled + gap \in Nat \ {0}
    BY <2>1, <2>4
  <2> QED
    BY <2>5, <2>6 DEF Cursors
<1>4. ASSUME NEW w \in V PROVE LoopStep(st, a, w) \in V
  <2>1. w.c \in Cursors /\ w.out \in SUBSET Nat /\ Moved(st, w.c) \in Cursors
    BY <1>3
  <2>2. w.out \cup {w.c.unscaled} \in SUBSET Nat
    BY <2>1 DEF Cursors
  <2> QED
    BY <2>1, <2>2 DEF LoopStep
<1>5. e \in V
  BY MovedSteady
<1> DEFINE s == [n \in 1..N |-> [w \in V |-> LoopStep(st, a, w)]]
<1>6. s \in [1..N -> [V -> V]]
  BY <1>4
<1>7. \A f \in [0..N -> V] : \A n \in 1..N : s[n][f[n - 1]] = LoopStep(st, a, f[n - 1])
  <2> HIDE DEF V
  <2>1. \A n \in 1..N : n - 1 \in 0..N
    BY <1>0
  <2> QED
    BY <2>1
<1> HIDE DEF s, V, e, N
<1>8. \E f \in [0..N -> V] : f[0] = e /\ \A n \in 1..N : f[n] = s[n][f[n - 1]]
  BY <1>0, <1>5, <1>6, Recursion
<1>9. PICK f \in [0..N -> V] : f[0] = e /\ \A n \in 1..N : f[n] = LoopStep(st, a, f[n - 1])
  BY <1>7, <1>8
<1>10. Rec(f)
  <2>1. \A n \in 0..N : n = 0 \/ n \in 1..N
    BY <1>0
  <2> QED
    BY <1>9, <2>1
<1> DEFINE w == CHOOSE f2 : Rec(f2)
<1>11. Rec(w)
  <2> HIDE DEF Rec
  <2> QED
    BY <1>10
<1>12. Due(st, c, a) = w[N]
  BY DEF Due, LoopStep, e, N
<1> HIDE DEF w
<1>13. w[0] = e /\ \A n \in 1..N : w[n] = LoopStep(st, a, w[n - 1])
  <2> DEFINE v(n) == IF n = 0 THEN e ELSE LoopStep(st, a, w[n - 1])
  <2>1. w = [n \in 0..N |-> v(n)]
    BY <1>11
  <2>2. \A n \in 0..N : w[n] = v(n)
    <3> HIDE DEF v
    <3> QED
      BY <2>1
  <2>3. 0 \in 0..N /\ \A n \in 1..N : n \in 0..N /\ n # 0
    BY <1>0
  <2> QED
    BY <2>2, <2>3
<1> QED
  BY <1>12, <1>13 DEF e, N

\* After n turns from cursor c: everything owned between c and the cursor has
\* been released, and the cursor is past `a` or has moved n times.
Released(st, mine, lcd, c, a, w, n) ==
  /\ Steady(st, mine, lcd, w.c)
  /\ c.unscaled <= w.c.unscaled
  /\ w.out = {g \in Owned(mine, lcd) : c.unscaled <= g /\ g < w.c.unscaled}
  /\ \A g \in w.out : g <= a
  /\ w.c.unscaled > a \/ w.c.unscaled > n

\* A turn of the loop.
LEMMA TurnReleases ==
  ASSUME NEW st, NEW mine, NEW lcd, NEW c \in Cursors, NEW a \in Nat, NEW w, NEW n \in Nat,
         Released(st, mine, lcd, c, a, w, n)
  PROVE  Released(st, mine, lcd, c, a, LoopStep(st, a, w), n + 1)
<1> DEFINE d == w.c u == d.unscaled e == Moved(st, d) v == e.unscaled s == c.unscaled
<1>1. /\ Steady(st, mine, lcd, d) /\ s <= u
      /\ w.out = {g \in Owned(mine, lcd) : s <= g /\ g < u}
      /\ \A g \in w.out : g <= a
      /\ u > a \/ u > n
  BY DEF Released
<1>2. d \in Cursors /\ e \in Cursors /\ Steady(st, mine, lcd, e) /\ u \in Owned(mine, lcd) /\ u < v
      /\ \A g \in Owned(mine, lcd) : ~(u < g /\ g < v)
  <2> HIDE DEF d
  <2> QED
    BY <1>1, MovedSteady
<1>3. s \in Nat /\ u \in Nat /\ v \in Nat
  BY <1>2 DEF Cursors
<1>4. CASE u > a
  <2>1. LoopStep(st, a, w) = w
    BY <1>4 DEF LoopStep
  <2> QED
    BY <1>1, <1>4, <2>1 DEF Released
<1>5. CASE ~(u > a)
  <2> DEFINE x == LoopStep(st, a, w)
  <2>1. x = [c |-> e, out |-> w.out \cup {u}]
    BY <1>5 DEF LoopStep
  <2>2. x.c = e /\ x.out = w.out \cup {u}
    BY <2>1
  <2> HIDE DEF x, e, u, s, d
  <2>3. u <= a /\ v > n + 1 /\ s <= v
    BY <1>1, <1>2, <1>3, <1>5
  <2>4. \A g \in Owned(mine, lcd) : (s <= g /\ g < v) <=> ((s <= g /\ g < u) \/ g = u)
    <3> SUFFICES ASSUME NEW g \in Owned(mine, lcd)
                 PROVE  (s <= g /\ g < v) <=> ((s <= g /\ g < u) \/ g = u)
      OBVIOUS
    <3>1. g \in Nat /\ ~(u < g /\ g < v)
      BY <1>2 DEF Owned
    <3> HIDE DEF v
    <3> QED
      BY <1>1, <1>2, <1>3, <3>1
  <2>5. x.out = {g \in Owned(mine, lcd) : s <= g /\ g < v}
    <3> HIDE DEF v
    <3> QED
      BY <1>1, <1>2, <2>2, <2>4
  <2>6. \A g \in x.out : g <= a
    BY <1>1, <2>2, <2>3
  <2>7. Released(st, mine, lcd, c, a, x, n + 1)
    BY <1>2, <2>2, <2>3, <2>5, <2>6 DEF Released, s
  <2> QED
    BY <2>7 DEF x
<1> QED
  BY <1>4, <1>5

\* due_by releases exactly the owned arrivals up to the count.
LEMMA DueReleases ==
  ASSUME NEW st, NEW mine, NEW lcd, NEW c, Steady(st, mine, lcd, c), NEW a \in 0..MaxArrivals
  PROVE  Released(st, mine, lcd, c, a, Due(st, c, a), a) /\ Due(st, c, a).c.unscaled > a
<1>0. MaxArrivals \in Nat /\ a \in Nat /\ a <= MaxArrivals /\ c \in Cursors
  <2>1. MaxArrivals \in Nat
    BY StripeAssumption
  <2>2. c \in Cursors
    BY MovedSteady
  <2> QED
    BY <2>1, <2>2
<1>1. PICK w : /\ w[0] = [c |-> c, out |-> {}]
               /\ \A n \in 1..MaxArrivals : w[n] = LoopStep(st, a, w[n - 1])
               /\ Due(st, c, a) = w[MaxArrivals]
  BY LoopRuns
<1> DEFINE T == {n \in Nat : n <= MaxArrivals => Released(st, mine, lcd, c, a, w[n], n)}
<1>2. 0 \in T
  <2> DEFINE x == w[0] s == c.unscaled
  <2>1. x.c = c /\ x.out = {}
    BY <1>1
  <2>2. s \in Nat \ {0}
    BY <1>0 DEF Cursors
  <2> HIDE DEF x
  <2>3. s <= s /\ s > 0
    BY <2>2
  <2>4. {g \in Owned(mine, lcd) : s <= g /\ g < s} = {}
    <3>1. \A g \in Owned(mine, lcd) : g \in Nat
      BY DEF Owned
    <3> HIDE DEF s
    <3> QED
      BY <2>2, <3>1
  <2>5. Released(st, mine, lcd, c, a, x, 0)
    BY <2>1, <2>3, <2>4 DEF Released
  <2> QED
    BY <2>5 DEF x
<1>3. ASSUME NEW n \in Nat, n \in T PROVE n + 1 \in T
  <2> SUFFICES ASSUME n + 1 <= MaxArrivals PROVE Released(st, mine, lcd, c, a, w[n + 1], n + 1)
    OBVIOUS
  <2>1. n + 1 \in 1..MaxArrivals /\ (n + 1) - 1 = n /\ n <= MaxArrivals
    BY <1>0
  <2>2. w[n + 1] = LoopStep(st, a, w[n])
    BY <1>1, <2>1
  <2>3. Released(st, mine, lcd, c, a, w[n], n)
    BY <1>3, <2>1
  <2> QED
    BY <1>0, <2>2, <2>3, TurnReleases
<1>4. MaxArrivals \in T
  <2> HIDE DEF T
  <2> QED
    BY <1>0, <1>2, <1>3, NatSet
<1> DEFINE x == Due(st, c, a)
<1>5. Released(st, mine, lcd, c, a, x, MaxArrivals)
  BY <1>0, <1>1, <1>4
<1> HIDE DEF x, T
<1>6. Steady(st, mine, lcd, x.c) /\ (x.c.unscaled > a \/ x.c.unscaled > MaxArrivals)
  BY <1>5 DEF Released
<1>7. x.c.unscaled \in Nat
  BY <1>6, MovedSteady DEF Cursors
<1>8. x.c.unscaled > a
  BY <1>0, <1>6, <1>7
<1>9. Released(st, mine, lcd, c, a, x, a)
  BY <1>5, <1>8 DEF Released
<1> QED
  BY <1>8, <1>9 DEF x

\* The stripe that StripeInit gives a segment lists the ticks it owns.
LEMMA OffsetsStriped ==
  ASSUME NEW o, NEW m, NEW lcd \in Nat \ {0}, o \in Seq(1..m), Len(o) = lcd, NEW i,
         TicksOf(o, lcd, i) # {}
  PROVE  LET mine == TicksOf(o, lcd, i) IN
           /\ Offsets(o, i).start \in Nat
           /\ Steady(Offsets(o, i), mine, lcd, [scaled |-> 1, unscaled |-> Offsets(o, i).start + 1])
           /\ \A x \in Owned(mine, lcd) : Offsets(o, i).start + 1 <= x
<1> DEFINE mine == TicksOf(o, lcd, i)
           L == Cardinality(mine)
           nth == NthOf(mine, lcd)
           st == Offsets(o, i)
           nx(n) == IF n = L THEN nth[1] + lcd ELSE nth[n + 1]
           c == [scaled |-> 1, unscaled |-> st.start + 1]
<1>1. mine \in SUBSET (1..lcd) /\ mine # {}
  BY DEF TicksOf
<1>2. st = [start |-> Min(mine) - 1,
            gaps |-> [n \in 1..L |-> AfterIn(mine, lcd, nth[n]) - nth[n]]]
  BY DEF Offsets, TicksOf, AfterIn, NthOf
<1> HIDE DEF mine, nth, L, st
<1>3. Lists(nth, mine, L) /\ nth[1] = Min(mine)
      /\ \A n \in 1..L : AfterIn(mine, lcd, nth[n]) = nx(n)
  BY <1>1, NthLists DEF nth, L
<1>4. L \in Nat \ {0} /\ nth \in [1..L -> mine] /\ 1 \in 1..L
      /\ \A n \in 1..(L - 1) : nth[n] < nth[n + 1]
  BY <1>3 DEF Lists
<1>5. \A n \in 1..L : nth[n] \in 1..lcd
  BY <1>1, <1>4
<1>6. ASSUME NEW n \in 1..L PROVE nx(n) - nth[n] \in Nat \ {0}
  <2>1. nth[n] \in 1..lcd /\ nth[1] \in 1..lcd
    BY <1>4, <1>5
  <2>2. CASE n = L
    BY <2>1, <2>2
  <2>3. CASE n # L
    <3>1. n \in 1..(L - 1) /\ n + 1 \in 1..L
      BY <1>4, <2>3
    <3>2. nth[n + 1] \in 1..lcd /\ nth[n] < nth[n + 1]
      BY <1>4, <1>5, <3>1
    <3> QED
      BY <2>1, <2>3, <3>2
  <2> QED
    BY <2>2, <2>3
<1>7. st.start = nth[1] - 1 /\ st.gaps = [n \in 1..L |-> nx(n) - nth[n]]
  <2>1. st.gaps = [n \in 1..L |-> AfterIn(mine, lcd, nth[n]) - nth[n]]
    BY <1>2
  <2> HIDE DEF nx
  <2> QED
    BY <1>2, <1>3, <2>1
<1>8. st.gaps \in Seq(Nat \ {0}) /\ Len(st.gaps) = L /\ \A n \in 1..L : st.gaps[n] = nx(n) - nth[n]
  <2> DEFINE v(n) == nx(n) - nth[n]
  <2>1. \A n \in 1..L : v(n) \in Nat \ {0}
    BY <1>6
  <2>2. st.gaps = [n \in 1..L |-> v(n)]
    BY <1>7
  <2> HIDE DEF v
  <2>3. st.gaps \in Seq(Nat \ {0}) /\ Len(st.gaps) = L /\ \A n \in 1..L : st.gaps[n] = v(n)
    BY <1>4, <2>1, <2>2
  <2> QED
    BY <2>3 DEF v
<1>9. Striped(st, mine, lcd, nth, L)
  BY <1>1, <1>3, <1>7, <1>8 DEF Striped
<1>10. nth[1] \in 1..lcd
  BY <1>4, <1>5
<1> DEFINE b == nth[1]
<1>11. st.start \in Nat /\ st.start + 1 = b
  <2>1. b \in 1..lcd
    BY <1>10
  <2> HIDE DEF b
  <2> QED
    BY <1>7, <2>1 DEF b
<1>12. StandsAt(c, 0, 1, lcd, nth, L)
  <2>1. c.scaled = 1 /\ c.unscaled = b /\ c \in [scaled : Nat \ {0}, unscaled : Nat \ {0}]
    <3>1. b \in Nat \ {0}
      BY <1>10
    <3> HIDE DEF b
    <3> QED
      BY <1>11, <3>1
  <2>2. 0 * L + 1 = 1 /\ 0 * lcd + b = b
    BY <1>4, <1>10
  <2> HIDE DEF c
  <2> QED
    BY <1>4, <2>1, <2>2 DEF StandsAt
<1>13. Steady(st, mine, lcd, c)
  BY <1>9, <1>12 DEF Steady
<1>14. ASSUME NEW x \in Owned(mine, lcd) PROVE st.start + 1 <= x
  <2>1. PICK q \in Nat, k \in mine : x = q * lcd + k
    BY DEF Owned
  <2>2. b <= k /\ k \in 1..lcd
    BY <1>1, <1>3 DEF Lists
  <2> DEFINE P == q * lcd
  <2>3. P \in Nat /\ x = P + k
    BY <2>1
  <2>4. b \in 1..lcd
    BY <1>10
  <2> HIDE DEF P, b
  <2> QED
    BY <1>11, <2>2, <2>3, <2>4
<1> QED
  BY <1>11, <1>13, <1>14 DEF mine, st
\* What holds in every state of the stripes: each stripe lists the ticks its
\* segment owns, each cursor stands at the first of them that its clock has not
\* reached, and a node has released exactly the ones before its cursor.
MineIn(seq, i) == TicksOf(Stripes(seq, Lcd(seq)), Lcd(seq), i)
StripeInv ==
  /\ boundaries \in AllSequences
  /\ stripe = [i \in Segs(boundaries) |-> Offsets(Stripes(boundaries, Lcd(boundaries)), i)]
  /\ cursor \in [Segs(boundaries) -> Cursors]
  /\ seen \in [Segs(boundaries) -> 0..MaxArrivals]
  /\ fired \in [Segs(boundaries) -> SUBSET (1..MaxArrivals)]
  /\ \A i \in Segs(boundaries) :
       /\ Steady(stripe[i], MineIn(boundaries, i), Lcd(boundaries), cursor[i])
       /\ cursor[i].unscaled > seen[i]
       /\ fired[i] = {g \in Owned(MineIn(boundaries, i), Lcd(boundaries)) : g < cursor[i].unscaled}

\* Every tick of a cycle has one owner.
LEMMA CycleOwned ==
  ASSUME NEW seq \in AllSequences
  PROVE  \E m \in Nat \ {0} :
           /\ Segs(seq) = 1..m /\ Lcd(seq) \in Nat \ {0}
           /\ Stripes(seq, Lcd(seq)) \in Seq(1..m)
           /\ Len(Stripes(seq, Lcd(seq))) = Lcd(seq)
           /\ \A i \in 1..m : MineIn(seq, i) # {} /\ MineIn(seq, i) \in SUBSET (1..Lcd(seq))
<1>1. PICK m, d : Ascends(seq, m, d)
  BY SequencesAscend
<1> DEFINE lcd == Lcd(seq) len == Lens(seq, lcd) o == Stripes(seq, lcd)
<1>2. Cycle(seq, m, lcd, len)
  BY <1>1, CycleOf
<1> HIDE DEF lcd, len
<1>3. /\ m \in Nat \ {0} /\ lcd \in Nat \ {0} /\ Segs(seq) = 1..m /\ len \in [1..m -> Nat \ {0}]
  BY <1>2 DEF Cycle
<1>4. /\ o \in Seq(1..m) /\ Len(o) = lcd
      /\ \A i \in 1..m : Cardinality(TicksOf(o, lcd, i)) = len[i]
  BY <1>2, StripesOwn
<1> HIDE DEF o
<1>5. ASSUME NEW i \in 1..m PROVE TicksOf(o, lcd, i) # {} /\ TicksOf(o, lcd, i) \in SUBSET (1..lcd)
  <2>1. Cardinality(TicksOf(o, lcd, i)) # 0
    BY <1>3, <1>4
  <2>2. TicksOf(o, lcd, i) # {}
    BY <2>1, FS_EmptySet
  <2> QED
    BY <2>2 DEF TicksOf
<1> QED
  BY <1>3, <1>4, <1>5 DEF MineIn, lcd, o

\* The invariant at the start.
LEMMA StripesInitially == StripeInit => StripeInv
<1> SUFFICES ASSUME StripeInit PROVE StripeInv
  OBVIOUS
<1> DEFINE seq == boundaries o == Stripes(seq, Lcd(seq)) lcd == Lcd(seq)
<1>1. /\ seq \in AllSequences
      /\ stripe = [i \in Segs(seq) |-> Offsets(o, i)]
      /\ cursor = [i \in Segs(seq) |-> [scaled |-> 1, unscaled |-> stripe[i].start + 1]]
      /\ seen = [i \in Segs(seq) |-> 0]
      /\ fired = [i \in Segs(seq) |-> {}]
  BY DEF StripeInit
<1>2. PICK m \in Nat \ {0} :
        /\ Segs(seq) = 1..m /\ lcd \in Nat \ {0} /\ o \in Seq(1..m) /\ Len(o) = lcd
        /\ \A i \in 1..m : MineIn(seq, i) # {} /\ MineIn(seq, i) \in SUBSET (1..lcd)
  BY <1>1, CycleOwned
<1>3. ASSUME NEW i \in Segs(seq)
      PROVE  /\ cursor[i] \in Cursors /\ cursor[i].unscaled > 0
             /\ Steady(stripe[i], MineIn(seq, i), lcd, cursor[i])
             /\ {g \in Owned(MineIn(seq, i), lcd) : g < cursor[i].unscaled} = {}
  <2> DEFINE st == Offsets(o, i) mine == TicksOf(o, lcd, i) s == st.start + 1
             c == [scaled |-> 1, unscaled |-> s]
  <2>1. stripe[i] = st /\ cursor[i] = c /\ mine = MineIn(seq, i) /\ mine # {}
    BY <1>1, <1>2 DEF MineIn
  <2> HIDE DEF mine
  <2>2. st.start \in Nat /\ Steady(st, mine, lcd, c) /\ \A x \in Owned(mine, lcd) : s <= x
    <3> HIDE DEF o, lcd
    <3> QED
      BY <1>2, <2>1, OffsetsStriped DEF mine
  <2> HIDE DEF st
  <2>3. s \in Nat \ {0} /\ c \in Cursors /\ c.unscaled = s
    BY <2>2 DEF Cursors
  <2>4. {g \in Owned(mine, lcd) : g < s} = {}
    <3>1. \A g \in Owned(mine, lcd) : g \in Nat
      BY DEF Owned
    <3> HIDE DEF s
    <3> QED
      BY <2>2, <2>3, <3>1
  <2> HIDE DEF c, s
  <2>5. c.unscaled > 0
    BY <2>3
  <2> QED
    BY <2>1, <2>2, <2>3, <2>4, <2>5
<1>4. MaxArrivals \in Nat
  BY StripeAssumption
<1>5. cursor \in [Segs(seq) -> Cursors]
  BY <1>1, <1>3
<1>6. seen \in [Segs(seq) -> 0..MaxArrivals] /\ fired \in [Segs(seq) -> SUBSET (1..MaxArrivals)]
      /\ \A i \in Segs(seq) : seen[i] = 0 /\ fired[i] = {}
  BY <1>1, <1>4
<1> QED
  BY <1>1, <1>3, <1>5, <1>6 DEF StripeInv

\* A tick of a node's executor keeps the invariant.
LEMMA StripesInductive == StripeInv /\ [StripeNext]_stripeVars => StripeInv'
<1> SUFFICES ASSUME StripeInv, [StripeNext]_stripeVars PROVE StripeInv'
  OBVIOUS
<1> USE DEF StripeInv
<1>1. CASE UNCHANGED stripeVars
  BY <1>1 DEF stripeVars, Segs, MineIn
<1>2. CASE StripeNext
  <2> DEFINE S == Segs(boundaries) l == Lcd(boundaries) mine(i) == MineIn(boundaries, i)
  <2>0. PICK i \in S : StripeTick(i)
    BY <1>2 DEF StripeNext
  <2>1. PICK g \in (seen[i] + 1)..MaxArrivals :
          /\ seen' = [seen EXCEPT ![i] = g]
          /\ cursor' = [cursor EXCEPT ![i] = DueBy(i, g).c]
          /\ fired' = [fired EXCEPT ![i] = @ \cup DueBy(i, g).out]
          /\ UNCHANGED <<boundaries, stripe>>
    BY <2>0 DEF StripeTick
  <2> DEFINE x == DueBy(i, g) c == cursor[i]
  <2>2. x = Due(stripe[i], c, g)
    BY DEF DueBy, Due, Advance, Moved
  <2>3. seen[i] \in 0..MaxArrivals /\ MaxArrivals \in Nat /\ g \in 0..MaxArrivals /\ g \in Nat
    <3>1. MaxArrivals \in Nat
      BY StripeAssumption
    <3> QED
      BY <3>1
  <2>4. Released(stripe[i], mine(i), l, c, g, x, g) /\ x.c.unscaled > g
    <3>1. Steady(stripe[i], mine(i), l, c)
      OBVIOUS
    <3> HIDE DEF x, c, mine, l, StripeInv
    <3> QED
      BY <2>2, <2>3, <3>1, DueReleases
  <2>5. /\ Steady(stripe[i], mine(i), l, x.c) /\ c.unscaled <= x.c.unscaled
        /\ x.out = {y \in Owned(mine(i), l) : c.unscaled <= y /\ y < x.c.unscaled}
        /\ \A y \in x.out : y <= g
    BY <2>4 DEF Released
  <2>6. x.c \in Cursors /\ c \in Cursors
    <3>1. c \in Cursors
      OBVIOUS
    <3> HIDE DEF x, c, mine, l, StripeInv
    <3> QED
      BY <2>5, <3>1, MovedSteady
  <2>7. x.c.unscaled \in Nat \ {0} /\ c.unscaled \in Nat \ {0}
    BY <2>6 DEF Cursors
  <2> DEFINE u == c.unscaled v == x.c.unscaled
  <2>8. fired[i] \cup x.out = {y \in Owned(mine(i), l) : y < v}
    <3>1. fired[i] = {y \in Owned(mine(i), l) : y < u}
      OBVIOUS
    <3>2. x.out = {y \in Owned(mine(i), l) : u <= y /\ y < v} /\ u <= v /\ u \in Nat /\ v \in Nat
      BY <2>5, <2>7
    <3> HIDE DEF x, c, mine, l, StripeInv, u, v
    <3>3. \A y \in Owned(mine(i), l) : y < v <=> (y < u \/ (u <= y /\ y < v))
      <4>1. \A y \in Owned(mine(i), l) : y \in Nat
        BY DEF Owned
      <4> QED
        BY <3>2, <4>1
    <3> QED
      BY <3>1, <3>2, <3>3
  <2>9. x.out \in SUBSET (1..MaxArrivals)
    <3> SUFFICES ASSUME NEW y \in x.out PROVE y \in 1..MaxArrivals
      OBVIOUS
    <3>1. y \in Nat /\ u <= y /\ y <= g
      BY <2>5 DEF Owned
    <3> HIDE DEF u
    <3>2. u \in Nat \ {0}
      BY <2>7 DEF u
    <3> QED
      BY <2>3, <3>1, <3>2
  <2>13. /\ seen' = [seen EXCEPT ![i] = g] /\ cursor' = [cursor EXCEPT ![i] = x.c]
        /\ fired' = [fired EXCEPT ![i] = fired[i] \cup x.out]
    BY <2>1
  <2>14. seen \in [S -> 0..MaxArrivals] /\ cursor \in [S -> Cursors]
        /\ fired \in [S -> SUBSET (1..MaxArrivals)]
    OBVIOUS
  <2> HIDE DEF x
  <2>10. /\ cursor' \in [S -> Cursors] /\ seen' \in [S -> 0..MaxArrivals]
         /\ fired' \in [S -> SUBSET (1..MaxArrivals)]
    <3>1. fired[i] \cup x.out \in SUBSET (1..MaxArrivals)
      BY <2>9
    <3> HIDE DEF S, StripeInv
    <3> QED
      BY <2>3, <2>6, <2>13, <2>14, <3>1
  <2>11. /\ cursor'[i] = x.c /\ seen'[i] = g /\ fired'[i] = fired[i] \cup x.out
         /\ \A j \in S : j # i => cursor'[j] = cursor[j] /\ seen'[j] = seen[j] /\ fired'[j] = fired[j]
    <3> HIDE DEF S, StripeInv
    <3> QED
      BY <2>13, <2>14
  <2>12. ASSUME NEW j \in S
         PROVE  /\ Steady(stripe[j], mine(j), l, cursor'[j])
                /\ cursor'[j].unscaled > seen'[j]
                /\ fired'[j] = {y \in Owned(mine(j), l) : y < cursor'[j].unscaled}
    <3>1. CASE j = i
      <4>1. /\ Steady(stripe[i], mine(i), l, cursor'[i])
            /\ cursor'[i].unscaled > seen'[i]
            /\ fired'[i] = {y \in Owned(mine(i), l) : y < cursor'[i].unscaled}
        <5> HIDE DEF mine, l
        <5> QED
          BY <2>4, <2>5, <2>8, <2>11
      <4> QED
        BY <3>1, <4>1
    <3>2. CASE j # i
      <4>1. /\ Steady(stripe[j], mine(j), l, cursor[j])
            /\ cursor[j].unscaled > seen[j]
            /\ fired[j] = {y \in Owned(mine(j), l) : y < cursor[j].unscaled}
        OBVIOUS
      <4> QED
        BY <2>11, <3>2, <4>1
    <3> QED
      BY <3>1, <3>2
  <2> QED
    BY <2>1, <2>10, <2>12 DEF Segs, MineIn
<1> QED
  BY <1>1, <1>2

\* A state of the invariant is well typed: the boundaries ascend from 0 to 1,
\* and no gap of a stripe is empty.
LEMMA StripesTyped == StripeInv => StripeTypeOK
<1> SUFFICES ASSUME StripeInv PROVE StripeTypeOK
  OBVIOUS
<1>1. PICK m, d : Ascends(boundaries, m, d)
  BY SequencesAscend DEF StripeInv
<1>2. /\ m \in Nat \ {0} /\ d \in Nat \ {0} /\ Len(boundaries) = m + 1
      /\ boundaries \in [1..(m + 1) -> Nat \X {d}]
      /\ boundaries[1] = <<0, d>> /\ boundaries[m + 1] = <<d, d>>
      /\ \A i \in 1..m : boundaries[i][1] < boundaries[i + 1][1]
  BY <1>1 DEF Ascends
<1>3. IsSequence(boundaries)
  <2>1. ASSUME NEW i \in 1..m PROVE Below(boundaries[i], boundaries[i + 1])
    <3>1. i \in 1..(m + 1) /\ i + 1 \in 1..(m + 1)
      BY <1>2
    <3> DEFINE a == boundaries[i][1] b == boundaries[i + 1][1]
    <3>2. a \in Nat /\ b \in Nat /\ a < b /\ boundaries[i][2] = d /\ boundaries[i + 1][2] = d
      BY <1>2, <3>1
    <3> HIDE DEF a, b
    <3>3. a * d < b * d
      <4>1. a * d + d <= b * d /\ a * d \in Nat /\ b * d \in Nat
        BY <1>2, <3>2, Multiples
      <4> QED
        BY <1>2, <4>1
    <3> QED
      BY <3>2, <3>3 DEF Below, a, b
  <2>2. (m + 1) - 1 = m /\ m + 1 >= 2
    BY <1>2
  <2>3. boundaries[1][1] = 0 /\ boundaries[m + 1][1] = boundaries[m + 1][2]
    BY <1>2
  <2> QED
    BY <1>2, <2>1, <2>2, <2>3 DEF IsSequence
<1>4. ASSUME NEW i \in Segs(boundaries)
      PROVE  stripe[i] \in [start : Nat, gaps : Seq(Nat \ {0})]
  <2> DEFINE seq == boundaries lcd == Lcd(seq) o == Stripes(seq, lcd) st == Offsets(o, i)
  <2>1. st = [start |-> st.start, gaps |-> st.gaps] /\ stripe[i] = st
    BY DEF Offsets, StripeInv
  <2>2. PICK n \in Nat \ {0} :
          /\ Segs(seq) = 1..n /\ lcd \in Nat \ {0} /\ o \in Seq(1..n) /\ Len(o) = lcd
          /\ \A j \in 1..n : MineIn(seq, j) # {} /\ MineIn(seq, j) \in SUBSET (1..lcd)
    BY CycleOwned DEF StripeInv
  <2>3. TicksOf(o, lcd, i) # {}
    BY <2>2 DEF MineIn
  <2> HIDE DEF o, lcd
  <2>4. st.start \in Nat /\ Steady(st, TicksOf(o, lcd, i), lcd, [scaled |-> 1, unscaled |-> st.start + 1])
    BY <2>2, <2>3, OffsetsStriped
  <2>5. st.gaps \in Seq(Nat \ {0})
    <3> HIDE DEF st
    <3> QED
      BY <2>4 DEF Steady, Striped
  <2> HIDE DEF st
  <2> QED
    BY <2>1, <2>4, <2>5
<1>5. stripe \in [Segs(boundaries) -> [start : Nat, gaps : Seq(Nat \ {0})]]
  <2>1. stripe = [i \in Segs(boundaries) |-> stripe[i]]
    BY DEF StripeInv
  <2> QED
    BY <1>4, <2>1
<1> QED
  BY <1>3, <1>5 DEF StripeTypeOK, StripeInv, Cursors

\* However far apart the clocks of the nodes are, an arrival of the global
\* schedule is released by the node whose segment owns it and by no other, for
\* every segment sequence: what ArrivalStripe::due_by relies on.
THEOREM StripesStayApart == StripeSpec => []StripesPartition
<1>1. StripeInv => StripesPartition
  <2> SUFFICES ASSUME StripeInv PROVE StripesPartition
    OBVIOUS
  <2> DEFINE seq == boundaries lcd == Lcd(seq) o == Stripes(seq, lcd) mine(i) == MineIn(seq, i)
  <2>1. PICK m \in Nat \ {0} :
          /\ Segs(seq) = 1..m /\ lcd \in Nat \ {0} /\ o \in Seq(1..m) /\ Len(o) = lcd
          /\ \A i \in 1..m : mine(i) # {} /\ mine(i) \in SUBSET (1..lcd)
    BY CycleOwned DEF StripeInv
  <2>2. \A i \in 1..m : /\ fired[i] = {g \in Owned(mine(i), lcd) : g < cursor[i].unscaled}
                         /\ cursor[i].unscaled > seen[i] /\ cursor[i] \in Cursors
                         /\ seen[i] \in 0..MaxArrivals
    BY <2>1 DEF StripeInv
  <2>3. \A i \in 1..m : mine(i) = {k \in 1..lcd : o[k] = i}
    BY DEF MineIn, TicksOf
  <2> HIDE DEF mine, o, lcd
  <2>4. ASSUME NEW i \in 1..m, NEW j \in 1..m, NEW g, g \in fired[i], g \in fired[j]
        PROVE  i = j
    <3>1. g \in Owned(mine(i), lcd) /\ g \in Owned(mine(j), lcd)
      BY <2>2, <2>4
    <3>2. PICK q \in Nat, k \in mine(i) : g = q * lcd + k
      BY <3>1 DEF Owned
    <3>3. PICK p \in Nat, n \in mine(j) : g = p * lcd + n
      BY <3>1 DEF Owned
    <3>4. k \in 1..lcd /\ n \in 1..lcd /\ o[k] = i /\ o[n] = j
      BY <2>3
    <3>5. k = n
      <4>1. q * lcd + k = p * lcd + n /\ lcd \in Nat \ {0}
        BY <2>1, <3>2, <3>3
      <4> QED
        BY ONLY <3>4, <4>1, q \in Nat, p \in Nat, PlaceIsOne
    <3> QED
      BY <3>4, <3>5
  <2>5. ASSUME NEW g \in 1..MaxArrivals, \A i \in 1..m : seen[i] >= g
        PROVE  \E i \in 1..m : g \in fired[i]
    <3>0. g \in Nat \ {0}
      BY StripeAssumption
    <3>1. PICK q \in Nat, k \in 1..lcd : g = q * lcd + k
      BY <2>1, <3>0, PlaceExists
    <3> DEFINE i == o[k]
    <3>2. i \in 1..m
      BY <2>1
    <3>3. k \in mine(i)
      BY <2>3, <3>2
    <3> HIDE DEF i
    <3>4. g \in Owned(mine(i), lcd)
      BY <3>0, <3>1, <3>3 DEF Owned
    <3>5. seen[i] >= g /\ cursor[i].unscaled > seen[i] /\ cursor[i].unscaled \in Nat /\ seen[i] \in Nat
      BY <2>2, <2>5, <3>2 DEF Cursors
    <3>6. g < cursor[i].unscaled
      BY <3>0, <3>5
    <3> QED
      BY <2>2, <3>2, <3>4, <3>6
  <2>6. \A i, j \in Segs(seq) : i # j => fired[i] \cap fired[j] = {}
    BY <2>1, <2>4
  <2> QED
    BY <2>1, <2>5, <2>6 DEF StripesPartition
<1> QED
  BY <1>1, StripesInitially, StripesInductive, PTL DEF StripeSpec

-----------------------------------------------------------------------------
(* The controller and its agents.                                          *)

\* The part of the job that segment i is.
Part(i) == Share(total, EqualSplit(NumAgents), i)

\* A connection is taken by one task, and a task past its accept has one.
Links ==
  /\ \A i, j \in Task : i # j /\ link[i] = link[j] => link[i] = NoPeer
  /\ \A i \in Task : /\ handler[i] = "accept" => link[i] = NoPeer
                     /\ handler[i] \in {"hello", "assign", "frames", "ok"} => link[i] \in Peer

\* A segment is assigned to the peer on its task's connection, which holds the
\* token, and to nobody before the assignment is written.
Assigned ==
  /\ \A p \in Peer : segment[p] # 0 =>
       /\ link[segment[p]] = p /\ p \in member
       /\ handler[segment[p]] \in {"frames", "ok", "err"}
  /\ \A i \in Task : /\ handler[i] \in {"frames", "ok"} => segment[link[i]] = i
                     /\ handler[i] = "assign" => link[i] \in member

\* An agent runs a segment it was assigned, and while it runs its ticker holds
\* the progress channel open.
Runs ==
  \A p \in Peer :
    /\ agent[p] \in {"run", "ok"} \/ engine[p] # "off" => segment[p] # 0
    /\ agent[p] \in {"connect", "connected", "await"} => engine[p] = "off"
    /\ agent[p] = "run" => "ticker" \in senders[p]

\* An engine does its part at most.
Worked ==
  \A p \in Peer : work[p] <= IF segment[p] = 0 THEN 0 ELSE Part(segment[p])

\* A final snapshot on the wire is that of an engine that has returned, and
\* counts all it did; so does one that was read.
Finals ==
  /\ \A p \in Peer : \A k \in 1..Len(inbox[p]) : inbox[p][k].kind = "final" =>
       engine[p] = "done" /\ segment[p] # 0 /\ inbox[p][k].work = work[p]
  /\ \A i \in Task : handler[i] = "ok" =>
       engine[link[i]] = "done" /\ snapshots[i] = work[link[i]]

\* The tasks that were awaited without an error are done.
Joined ==
  /\ outcome # "err" => \A i \in 1..joined : handler[i] = "ok"
  /\ outcome = "ok" => joined = NumAgents

DistInv ==
  DistTypeOK /\ Links /\ Assigned /\ Runs /\ Worked /\ Finals /\ Joined /\ FinalShipped

\* The part of a segment is what lies between two rounded boundaries.
LEMMA PartIs ==
  ASSUME total \in Nat, NEW i \in Task
  PROVE  /\ Part(i) = ((total * i) \div NumAgents) - ((total * (i - 1)) \div NumAgents)
         /\ Part(i) \in Nat
<1>1. NumAgents \in Nat \ {0} /\ i \in 1..NumAgents
  BY DistAssumption DEF Task
<1>2. EqualSplit(NumAgents)[i] = <<i - 1, NumAgents>> /\ EqualSplit(NumAgents)[i + 1] = <<i, NumAgents>>
  BY <1>1 DEF EqualSplit
<1>3. Part(i) = ((total * i) \div NumAgents) - ((total * (i - 1)) \div NumAgents)
  BY <1>2 DEF Part, Share, Scale
<1>4. total * (i - 1) \in Nat /\ total * i \in Nat /\ total * (i - 1) <= total * i
  BY <1>1
<1>5. /\ (total * (i - 1)) \div NumAgents \in Nat /\ (total * i) \div NumAgents \in Nat
      /\ (total * (i - 1)) \div NumAgents <= (total * i) \div NumAgents
  BY <1>1, <1>4, DivKeepsOrder
<1> QED
  BY <1>3, <1>5

\* A connection that is closed does not open again.
LEMMA ClosedStaysClosed ==
  ASSUME NEW p, ~OpenTo(p), outcome # "none" => outcome' # "none",
         \A i \in Task : link[i] = p /\ handler[i] \notin {"hello", "assign", "frames"} =>
           link'[i] = p /\ handler'[i] \notin {"hello", "assign", "frames"}
  PROVE  ~OpenTo(p)'
BY DEF OpenTo

AgentState == {"connect", "connected", "await", "run", "ok", "err"}
EngineState == {"off", "running", "done", "failed"}

\* The frames of a peer, as its engine, its work and its segment allow them.
GoodFrames(p, b, e, w) ==
  \A k \in 1..Len(b) : b[k].kind = "final" =>
    e = "done" /\ segment[p] # 0 /\ b[k].work = w

\* The last frame of b is a final snapshot.
EndsFinal(b) == b # <<>> /\ b[Len(b)].kind = "final"

(***************************************************************************)
(* What a step of peer p does: it changes p's own state, to one that fits  *)
(* the segment p has.                                                      *)
(***************************************************************************)
PeerMove(p, a, b, e, w, d, n) ==
  /\ UNCHANGED <<total, member, handler, link, snapshots, joined, outcome, segment>>
  /\ agent' = [agent EXCEPT ![p] = a] /\ inbox' = [inbox EXCEPT ![p] = b]
  /\ engine' = [engine EXCEPT ![p] = e] /\ senders' = [senders EXCEPT ![p] = d]
  /\ progress' = [progress EXCEPT ![p] = n] /\ work' = [work EXCEPT ![p] = w]
  /\ a \in AgentState /\ b \in Seq(Frame) /\ e \in EngineState
  /\ d \in SUBSET {"engine", "ticker"} /\ n \in 0..MaxProgress
  /\ w \in Nat /\ w <= IF segment[p] = 0 THEN 0 ELSE Part(segment[p])
  /\ a \in {"run", "ok"} \/ e # "off" => segment[p] # 0
  /\ a \in {"connect", "connected", "await"} => e = "off"
  /\ a = "run" => "ticker" \in d
  /\ engine[p] = "done" => e = "done" /\ w = work[p]
  /\ GoodFrames(p, b, e, w)
  /\ a = "ok" => ~OpenTo(p) \/ EndsFinal(b)

\* Such a step keeps the invariant.
LEMMA PeerMoveKeeps ==
  ASSUME DistInv, NEW p \in Peer, NEW a, NEW b, NEW e, NEW w, NEW d, NEW n, PeerMove(p, a, b, e, w, d, n)
  PROVE  DistInv'
<1>1. UNCHANGED <<total, member, handler, link, snapshots, joined, outcome, segment>>
  BY DEF PeerMove
<1>2. /\ agent \in [Peer -> AgentState] /\ inbox \in [Peer -> Seq(Frame)]
      /\ engine \in [Peer -> EngineState] /\ senders \in [Peer -> SUBSET {"engine", "ticker"}]
      /\ progress \in [Peer -> 0..MaxProgress] /\ work \in [Peer -> Nat]
  BY DEF DistInv, DistTypeOK, AgentState, EngineState
<1>3. /\ agent'[p] = a /\ inbox'[p] = b /\ engine'[p] = e /\ senders'[p] = d /\ work'[p] = w
      /\ \A q \in Peer : q # p =>
           agent'[q] = agent[q] /\ inbox'[q] = inbox[q] /\ engine'[q] = engine[q] /\ senders'[q] = senders[q]
           /\ work'[q] = work[q]
  BY <1>2 DEF PeerMove
<1>4. DistTypeOK'
  <2>1. agent' \in [Peer -> AgentState] /\ inbox' \in [Peer -> Seq(Frame)]
    BY <1>2 DEF PeerMove
  <2>2. /\ engine' \in [Peer -> EngineState] /\ senders' \in [Peer -> SUBSET {"engine", "ticker"}]
        /\ progress' \in [Peer -> 0..MaxProgress] /\ work' \in [Peer -> Nat]
    BY <1>2 DEF PeerMove
  <2> QED
    BY <1>1, <2>1, <2>2 DEF DistInv, DistTypeOK, AgentState, EngineState
<1>5. Links' /\ Assigned' /\ Joined'
  BY <1>1 DEF DistInv, Links, Assigned, Joined
<1>6. Runs'
  BY <1>1, <1>3 DEF DistInv, Runs, PeerMove
<1>61. Worked'
  <2>1. \A q \in Peer : work'[q] <= IF segment[q] = 0 THEN 0 ELSE Part(segment[q])
    BY <1>3 DEF DistInv, Worked, PeerMove
  <2> QED
    BY <1>1, <2>1 DEF Worked, Part
<1>7. Finals'
  <2>2. ASSUME NEW q \in Peer, NEW k \in 1..Len(inbox'[q]), inbox'[q][k].kind = "final"
        PROVE  engine'[q] = "done" /\ segment[q] # 0 /\ inbox'[q][k].work = work'[q]
    <3>1. CASE q = p BY <3>1, <2>2, <1>3 DEF PeerMove, GoodFrames
    <3>2. CASE q # p BY <3>2, <2>2, <1>3 DEF DistInv, Finals
    <3> QED BY <3>1, <3>2
  <2>3. ASSUME NEW i \in Task, handler[i] = "ok"
        PROVE  engine'[link[i]] = "done" /\ snapshots[i] = work'[link[i]]
    <3>1. link[i] \in Peer /\ engine[link[i]] = "done" /\ snapshots[i] = work[link[i]]
      BY <2>3 DEF DistInv, Links, Finals
    <3> QED
      BY <3>1, <1>3 DEF PeerMove
  <2> QED
    BY <1>1, <2>2, <2>3 DEF Finals
<1>8. FinalShipped'
  <2>1. \A q \in Peer : OpenTo(q)' => OpenTo(q)
    BY <1>1 DEF OpenTo
  <2>2. ASSUME NEW q \in Peer, agent'[q] = "ok", OpenTo(q)' PROVE EndsFinal(inbox'[q])
    <3>1. CASE q = p BY <3>1, <2>2, <1>3, <2>1 DEF PeerMove
    <3>2. CASE q # p BY <3>2, <2>2, <1>3, <2>1 DEF DistInv, FinalShipped, EndsFinal
    <3> QED BY <3>1, <3>2
  <2> QED
    BY <2>2 DEF FinalShipped, EndsFinal
<1> QED
  BY <1>4, <1>5, <1>6, <1>61, <1>7, <1>8 DEF DistInv

\* What p holds before a step.
LEMMA PeerState ==
  ASSUME DistInv, NEW p \in Peer
  PROVE  /\ agent[p] \in AgentState /\ inbox[p] \in Seq(Frame) /\ engine[p] \in EngineState
         /\ senders[p] \in SUBSET {"engine", "ticker"} /\ progress[p] \in 0..MaxProgress
         /\ segment[p] \in 0..NumAgents /\ total \in Nat /\ work[p] \in Nat
         /\ work[p] <= IF segment[p] = 0 THEN 0 ELSE Part(segment[p])
         /\ agent[p] \in {"run", "ok"} \/ engine[p] # "off" => segment[p] # 0
         /\ agent[p] \in {"connect", "connected", "await"} => engine[p] = "off"
         /\ agent[p] = "run" => "ticker" \in senders[p]
         /\ GoodFrames(p, inbox[p], engine[p], work[p])
         /\ agent[p] = "ok" => ~OpenTo(p) \/ EndsFinal(inbox[p])
<1>1. /\ agent[p] \in AgentState /\ inbox[p] \in Seq(Frame) /\ engine[p] \in EngineState
      /\ senders[p] \in SUBSET {"engine", "ticker"} /\ progress[p] \in 0..MaxProgress
      /\ segment[p] \in 0..NumAgents /\ total \in Nat /\ work[p] \in Nat
  BY DistAssumption DEF DistInv, DistTypeOK, AgentState, EngineState
<1>2. /\ agent[p] \in {"run", "ok"} \/ engine[p] # "off" => segment[p] # 0
      /\ agent[p] \in {"connect", "connected", "await"} => engine[p] = "off"
      /\ agent[p] = "run" => "ticker" \in senders[p]
  BY DEF DistInv, Runs
<1>3. GoodFrames(p, inbox[p], engine[p], work[p])
  BY DEF DistInv, Finals, GoodFrames
<1>4. agent[p] = "ok" => ~OpenTo(p) \/ EndsFinal(inbox[p])
  BY DEF DistInv, FinalShipped, EndsFinal
<1>5. work[p] <= IF segment[p] = 0 THEN 0 ELSE Part(segment[p])
  BY DEF DistInv, Worked
<1> QED
  BY <1>1, <1>2, <1>3, <1>4, <1>5

\* The variables that a step of p leaves alone, in the form of PeerMove.
LEMMA SamePeer ==
  ASSUME DistInv, NEW p \in Peer
  PROVE  /\ agent = [agent EXCEPT ![p] = agent[p]] /\ inbox = [inbox EXCEPT ![p] = inbox[p]]
         /\ engine = [engine EXCEPT ![p] = engine[p]] /\ senders = [senders EXCEPT ![p] = senders[p]]
         /\ progress = [progress EXCEPT ![p] = progress[p]] /\ work = [work EXCEPT ![p] = work[p]]
BY DEF DistInv, DistTypeOK

\* One more frame.
LEMMA FrameAdded ==
  ASSUME NEW p, NEW b \in Seq(Frame), NEW e, NEW w, NEW f \in Frame, GoodFrames(p, b, e, w),
         f.kind = "final" => e = "done" /\ segment[p] # 0 /\ f.work = w
  PROVE  /\ Append(b, f) \in Seq(Frame) /\ GoodFrames(p, Append(b, f), e, w)
         /\ f.kind = "final" => EndsFinal(Append(b, f))
<1>1. /\ Append(b, f) \in Seq(Frame) /\ Len(Append(b, f)) = Len(b) + 1
      /\ Append(b, f)[Len(b) + 1] = f
      /\ \A k \in 1..Len(b) : Append(b, f)[k] = b[k]
  OBVIOUS
<1>2. \A k \in 1..(Len(b) + 1) : k \in 1..Len(b) \/ k = Len(b) + 1
  OBVIOUS
<1>3. GoodFrames(p, Append(b, f), e, w)
  BY <1>1, <1>2 DEF GoodFrames
<1>4. Append(b, f) # <<>>
  <2>1. Len(b) \in Nat /\ Len(<<>>) = 0
    OBVIOUS
  <2> QED
    BY <1>1, <2>1
<1> QED
  BY <1>1, <1>3, <1>4 DEF EndsFinal

\* The connection and the assignment.
LEMMA ConnectKeeps ==
  ASSUME DistInv, NEW p \in Peer,
         ReachController(p) \/ GiveUp(p) \/ SendHello(p) \/ ReadAssign(p)
  PROVE  DistInv'
<1> USE PeerState, SamePeer DEF ctlVars
<1>1. CASE ReachController(p)
  <2>1. PeerMove(p, "connected", inbox[p], engine[p], work[p], senders[p], progress[p])
    BY <1>1 DEF ReachController, PeerMove, AgentState
  <2> QED
    BY <2>1, PeerMoveKeeps
<1>2. CASE GiveUp(p)
  <2>1. PeerMove(p, "err", inbox[p], engine[p], work[p], senders[p], progress[p])
    BY <1>2 DEF GiveUp, PeerMove, AgentState
  <2> QED
    BY <2>1, PeerMoveKeeps
<1>3. CASE SendHello(p)
  <2>1. Hello \in Frame /\ Hello.kind # "final"
    BY DEF Hello, Frame
  <2>2. Append(inbox[p], Hello) \in Seq(Frame) /\ GoodFrames(p, Append(inbox[p], Hello), engine[p], work[p])
    BY <2>1, FrameAdded
  <2> DEFINE b == IF OpenTo(p) THEN Append(inbox[p], Hello) ELSE inbox[p]
  <2>3. b \in Seq(Frame) /\ GoodFrames(p, b, engine[p], work[p]) /\ inbox' = [inbox EXCEPT ![p] = b]
    BY <1>3, <2>2 DEF SendHello
  <2> HIDE DEF b
  <2>4. PeerMove(p, "await", b, engine[p], work[p], senders[p], progress[p])
    BY <1>3, <2>3 DEF SendHello, PeerMove, AgentState
  <2> QED
    BY <2>4, PeerMoveKeeps
<1>4. CASE ReadAssign(p)
  <2>1. CASE segment[p] # 0 /\ p \in member
    <3>1. GoodFrames(p, inbox[p], "running", work[p])
      BY <1>4 DEF ReadAssign, GoodFrames
    <3>2. PeerMove(p, "run", inbox[p], "running", work[p], {"engine", "ticker"}, progress[p])
      BY <1>4, <2>1, <3>1 DEF ReadAssign, PeerMove, AgentState, EngineState
    <3> QED
      BY <3>2, PeerMoveKeeps
  <2>2. CASE ~(segment[p] # 0 /\ p \in member)
    <3>1. PeerMove(p, "err", inbox[p], engine[p], work[p], senders[p], progress[p])
      BY <1>4, <2>2 DEF ReadAssign, PeerMove, AgentState
    <3> QED
      BY <3>1, PeerMoveKeeps
  <2> QED
    BY <2>1, <2>2
<1> QED
  BY <1>1, <1>2, <1>3, <1>4

\* The run of the engine, its progress and its end; the death of the process.
LEMMA RunKeeps ==
  ASSUME DistInv, NEW p \in Peer,
         Iterate(p) \/ TakeSnapshot(p) \/ EngineEnds(p) \/ ForwardProgress(p) \/ FinishAgent(p) \/ Die(p)
  PROVE  DistInv'
<1> USE PeerState, SamePeer DEF ctlVars
<1>0. MaxProgress \in Nat /\ 0 \in 0..MaxProgress /\ {} \in SUBSET {"engine", "ticker"}
  BY DistAssumption
<1>01. ShareOf(p) = Part(segment[p]) /\ (segment[p] # 0 => segment[p] \in Task)
  BY DistAssumption DEF ShareOf, Part, Task
<1>6. CASE Iterate(p)
  <2>1. segment[p] # 0 /\ segment[p] \in Task /\ work[p] < Part(segment[p]) /\ engine[p] = "running"
    BY <1>6, <1>01 DEF Iterate
  <2>2. work[p] + 1 \in Nat /\ work[p] + 1 <= Part(segment[p])
    BY <2>1, PartIs
  <2>3. GoodFrames(p, inbox[p], engine[p], work[p] + 1)
    BY <2>1 DEF GoodFrames
  <2>4. PeerMove(p, agent[p], inbox[p], engine[p], work[p] + 1, senders[p], progress[p])
    BY <1>6, <2>1, <2>2, <2>3 DEF Iterate, PeerMove
  <2> QED
    BY <2>4, PeerMoveKeeps
<1>1. CASE TakeSnapshot(p)
  <2>1. progress[p] + 1 \in 0..MaxProgress
    BY <1>0, <1>1 DEF TakeSnapshot
  <2>2. PeerMove(p, agent[p], inbox[p], engine[p], work[p], senders[p], progress[p] + 1)
    BY <1>1, <2>1 DEF TakeSnapshot, PeerMove
  <2> QED
    BY <2>2, PeerMoveKeeps
<1>2. CASE EngineEnds(p)
  <2>1. PICK r \in {"done", "failed"} : engine' = [engine EXCEPT ![p] = r]
    BY <1>2 DEF EngineEnds
  <2>2. GoodFrames(p, inbox[p], r, work[p]) /\ r \in EngineState
    BY <1>2, <2>1 DEF EngineEnds, GoodFrames, EngineState
  <2>3. "ticker" \in senders[p] \ {"engine"} /\ segment[p] # 0
    BY <1>2 DEF EngineEnds
  <2>4. PeerMove(p, agent[p], inbox[p], r, work[p], senders[p] \ {"engine"}, progress[p])
    BY <1>2, <2>1, <2>2, <2>3 DEF EngineEnds, PeerMove
  <2> QED
    BY <2>4, PeerMoveKeeps
<1>3. CASE ForwardProgress(p)
  <2>0. progress[p] - 1 \in 0..MaxProgress
    BY <1>3, <1>0 DEF ForwardProgress
  <2>1. PICK w \in 0..work[p] : inbox' = [inbox EXCEPT ![p] =
          IF OpenTo(p) THEN Append(@, [kind |-> "progress", work |-> w]) ELSE @]
    BY <1>3 DEF ForwardProgress
  <2> DEFINE f == [kind |-> "progress", work |-> w]
             b == IF OpenTo(p) THEN Append(inbox[p], f) ELSE inbox[p]
  <2>2. w \in Nat
    BY <2>1
  <2>3. f \in Frame /\ f.kind # "final"
    BY <2>2 DEF Frame
  <2>4. inbox' = [inbox EXCEPT ![p] = b]
    BY <2>1
  <2> HIDE DEF f
  <2>5. Append(inbox[p], f) \in Seq(Frame) /\ GoodFrames(p, Append(inbox[p], f), engine[p], work[p])
    BY <2>3, FrameAdded
  <2>6. b \in Seq(Frame) /\ GoodFrames(p, b, engine[p], work[p])
    BY <2>5
  <2> HIDE DEF b
  <2>7. PeerMove(p, agent[p], b, engine[p], work[p], senders[p], progress[p] - 1)
    BY <1>3, <2>0, <2>4, <2>6 DEF ForwardProgress, PeerMove
  <2> QED
    BY <2>7, PeerMoveKeeps
<1>4. CASE FinishAgent(p)
  <2>0. segment[p] \in Task /\ segment[p] # 0 /\ senders[p] # {}
    BY <1>4, DistAssumption DEF FinishAgent, Task
  <2> DEFINE final == [kind |-> "final", work |-> work[p]]
             ship == engine[p] = "done" /\ OpenTo(p)
             b == IF ship THEN Append(inbox[p], final) ELSE inbox[p]
  <2>1. /\ inbox' = [inbox EXCEPT ![p] = b]
        /\ agent' = [agent EXCEPT ![p] = IF ship THEN "ok" ELSE "err"]
        /\ progress' = [progress EXCEPT ![p] = 0] /\ senders' = [senders EXCEPT ![p] = {}]
    BY <1>4, <2>0 DEF FinishAgent
  <2>2. final \in Frame /\ final.kind = "final" /\ final.work = work[p]
    BY DEF Frame
  <2> HIDE DEF final
  <2>3. ship => /\ Append(inbox[p], final) \in Seq(Frame) /\ EndsFinal(Append(inbox[p], final))
                /\ GoodFrames(p, Append(inbox[p], final), engine[p], work[p])
    BY <2>0, <2>2, FrameAdded
  <2>4. b \in Seq(Frame) /\ GoodFrames(p, b, engine[p], work[p]) /\ (ship => EndsFinal(b))
    BY <2>3
  <2> HIDE DEF b, ship
  <2> DEFINE a == IF ship THEN "ok" ELSE "err"
  <2>5. a \in {"ok", "err"} /\ (a = "ok" => EndsFinal(b)) /\ agent' = [agent EXCEPT ![p] = a]
    BY <2>1, <2>4
  <2>6. engine' = engine /\ work' = work /\ UNCHANGED <<total, member, handler, link, snapshots, joined, outcome, segment>>
    BY <1>4 DEF FinishAgent
  <2> HIDE DEF a
  <2>7. PeerMove(p, a, b, engine[p], work[p], {}, 0)
    BY <1>0, <2>0, <2>1, <2>4, <2>5, <2>6 DEF PeerMove, AgentState
  <2> QED
    BY <2>7, PeerMoveKeeps
<1>5. CASE Die(p)
  <2>1. PICK n \in 0..Len(inbox[p]) : inbox' = [inbox EXCEPT ![p] = SubSeq(@, 1, n)]
    BY <1>5 DEF Die
  <2> DEFINE b == SubSeq(inbox[p], 1, n)
  <2>2. b \in Seq(Frame) /\ Len(b) = n /\ \A k \in 1..n : b[k] = inbox[p][k]
    BY <2>1
  <2>3. inbox' = [inbox EXCEPT ![p] = b]
    BY <2>1
  <2> HIDE DEF b
  <2>4. GoodFrames(p, b, engine[p], work[p])
    <3>1. \A k \in 1..n : k \in 1..Len(inbox[p])
      BY <2>1
    <3>2. GoodFrames(p, inbox[p], engine[p], work[p])
      OBVIOUS
    <3> QED
      BY ONLY <2>2, <3>1, <3>2 DEF GoodFrames
  <2>5. /\ agent' = [agent EXCEPT ![p] = "err"] /\ engine' = engine /\ work' = work
        /\ senders' = [senders EXCEPT ![p] = {}] /\ progress' = [progress EXCEPT ![p] = 0]
        /\ UNCHANGED <<total, member, handler, link, snapshots, joined, outcome, segment>>
    BY <1>5 DEF Die
  <2>6. PeerMove(p, "err", b, engine[p], work[p], {}, 0)
    BY <1>0, <2>2, <2>3, <2>4, <2>5 DEF PeerMove, AgentState
  <2> QED
    BY <2>6, PeerMoveKeeps
<1> QED
  BY <1>1, <1>2, <1>3, <1>4, <1>5, <1>6

\* What the controller knows of its tasks.
LEMMA ControllerState ==
  ASSUME DistInv
  PROVE  /\ handler \in [Task -> {"accept", "hello", "assign", "frames", "ok", "err"}]
         /\ link \in [Task -> Peer \cup {NoPeer}] /\ NoPeer \notin Peer
         /\ snapshots \in [Task -> Nat] /\ segment \in [Peer -> 0..NumAgents]
         /\ inbox \in [Peer -> Seq(Frame)]
         /\ joined \in 0..NumAgents /\ NumAgents \in Nat \ {0}
         /\ \A p \in Peer : segment[p] # 0 => segment[p] \in Task
         /\ 1..joined \subseteq Task
BY DistAssumption DEF DistInv, DistTypeOK, Task

\* The accept takes a connection that no task has.
LEMMA AcceptKeeps ==
  ASSUME DistInv, NEW i \in Task, Accept(i)
  PROVE  DistInv'
<1>0. /\ handler[i] = "accept" /\ handler' = [handler EXCEPT ![i] = "hello"] /\ outcome = "none"
      /\ UNCHANGED <<total, member, snapshots, joined, outcome, agent, segment, inbox, engine, work, senders, progress>>
  BY DEF Accept, Handler, peerVars
<1>1. PICK p \in Peer : (\A j \in Task : link[j] # p) /\ link' = [link EXCEPT ![i] = p]
  BY DEF Accept
<1>2. /\ handler'[i] = "hello" /\ link'[i] = p /\ link[i] = NoPeer /\ p # NoPeer
      /\ \A j \in Task : j # i => handler'[j] = handler[j] /\ link'[j] = link[j]
  BY <1>0, <1>1, ControllerState DEF DistInv, Links
<1>3. DistTypeOK'
  <2>1. /\ handler' \in [Task -> {"accept", "hello", "assign", "frames", "ok", "err"}]
        /\ link' \in [Task -> Peer \cup {NoPeer}]
    BY <1>0, <1>1, ControllerState
  <2> QED
    BY <1>0, <2>1 DEF DistInv, DistTypeOK
<1>4. Links'
  BY <1>1, <1>2 DEF DistInv, Links
<1>5. Assigned'
  <2>1. ASSUME NEW q \in Peer, segment[q] # 0
        PROVE  link'[segment[q]] = q /\ q \in member /\ handler'[segment[q]] \in {"frames", "ok", "err"}
    <3>1. /\ segment[q] \in Task /\ link[segment[q]] = q /\ q \in member
          /\ handler[segment[q]] \in {"frames", "ok", "err"}
      BY <2>1, ControllerState DEF DistInv, Assigned
    <3> QED
      BY <3>1, <1>0, <1>2
  <2>2. ASSUME NEW j \in Task
        PROVE  /\ handler'[j] \in {"frames", "ok"} => segment[link'[j]] = j
               /\ handler'[j] = "assign" => link'[j] \in member
    BY <1>2 DEF DistInv, Assigned
  <2> QED
    BY <2>1, <2>2, <1>0 DEF Assigned
<1>6. Runs'
  BY <1>0 DEF DistInv, Runs
<1>66. Worked'
  BY <1>0 DEF DistInv, Worked, Part
<1>7. Finals'
  <2>1. \A j \in Task : handler'[j] = "ok" => handler[j] = "ok" /\ link'[j] = link[j]
    BY <1>2
  <2> QED
    BY <1>0, <2>1 DEF DistInv, Finals
<1>8. Joined'
  <2>1. outcome # "err" => \A j \in 1..joined : j # i
    BY <1>0 DEF DistInv, Joined
  <2> QED
    BY <1>0, <1>2, <2>1, ControllerState DEF DistInv, Joined
<1>9. FinalShipped'
  <2>1. ASSUME NEW q \in Peer, ~OpenTo(q) PROVE ~OpenTo(q)'
    <3>1. \A j \in Task : link[j] = q => j # i
      BY <1>2, ControllerState
    <3> QED
      BY <2>1, <3>1, <1>0, <1>2, ClosedStaysClosed
  <2> QED
    BY <1>0, <2>1 DEF DistInv, FinalShipped
<1> QED
  BY <1>3, <1>4, <1>5, <1>6, <1>66, <1>7, <1>8, <1>9 DEF DistInv

\* A task that fails takes nothing back.
LEMMA FailKeeps ==
  ASSUME DistInv, NEW i \in Task, ReadEof(i) \/ TimeOut(i) \/ WriteFails(i)
  PROVE  DistInv'
<1>0. /\ handler[i] \in {"accept", "hello", "assign", "frames"} /\ handler' = [handler EXCEPT ![i] = "err"]
      /\ UNCHANGED <<total, member, link, snapshots, joined, outcome, agent, segment, inbox, engine, work, senders, progress>>
  BY DEF ReadEof, TimeOut, WriteFails, Handler, peerVars
<1>1. outcome = "none"
  BY DEF ReadEof, TimeOut, WriteFails
<1>2. handler'[i] = "err" /\ \A j \in Task : j # i => handler'[j] = handler[j]
  BY <1>0, ControllerState
<1>3. DistTypeOK'
  <2>1. handler' \in [Task -> {"accept", "hello", "assign", "frames", "ok", "err"}]
    BY <1>0, ControllerState
  <2> QED
    BY <1>0, <2>1 DEF DistInv, DistTypeOK
<1>4. Links'
  BY <1>0, <1>2 DEF DistInv, Links
<1>5. Assigned'
  <2>1. \A q \in Peer : segment[q] # 0 =>
          segment[q] \in Task /\ handler[segment[q]] \in {"frames", "ok", "err"}
    BY ControllerState DEF DistInv, Assigned
  <2>2. \A q \in Peer : segment[q] # 0 => handler'[segment[q]] \in {"frames", "ok", "err"}
    BY <2>1, <1>2
  <2> QED
    BY <1>0, <1>2, <2>2 DEF DistInv, Assigned
<1>6. Runs'
  BY <1>0 DEF DistInv, Runs
<1>66. Worked'
  BY <1>0 DEF DistInv, Worked, Part
<1>7. Finals'
  BY <1>0, <1>2 DEF DistInv, Finals
<1>8. Joined'
  <2>1. outcome # "err" => \A j \in 1..joined : j # i
    BY <1>0 DEF DistInv, Joined
  <2> QED
    BY <1>0, <1>2, <2>1, ControllerState DEF DistInv, Joined
<1>9. FinalShipped'
  <2>1. ASSUME NEW q \in Peer, ~OpenTo(q) PROVE ~OpenTo(q)'
    BY <2>1, <1>0, <1>2, ClosedStaysClosed
  <2> QED
    BY <1>0, <2>1 DEF DistInv, FinalShipped
<1> QED
  BY <1>3, <1>4, <1>5, <1>6, <1>66, <1>7, <1>8, <1>9 DEF DistInv

\* Reading a frame leaves the others, and the last one last.
LEMMA FrameRead ==
  ASSUME NEW p, NEW b \in Seq(Frame), b # <<>>, NEW e, NEW w, GoodFrames(p, b, e, w)
  PROVE  /\ Tail(b) \in Seq(Frame) /\ GoodFrames(p, Tail(b), e, w)
         /\ Head(b) \in Frame /\ Head(b) = b[1] /\ 1 \in 1..Len(b)
         /\ EndsFinal(b) /\ Head(b).kind # "final" => EndsFinal(Tail(b))
<1>1. /\ Tail(b) \in Seq(Frame) /\ Len(b) \in Nat \ {0} /\ Len(Tail(b)) = Len(b) - 1
      /\ \A k \in 1..(Len(b) - 1) : Tail(b)[k] = b[k + 1]
      /\ Head(b) = b[1] /\ Head(b) \in Frame
  OBVIOUS
<1>2. GoodFrames(p, Tail(b), e, w)
  <2>1. \A k \in 1..(Len(b) - 1) : k + 1 \in 1..Len(b)
    BY <1>1
  <2> QED
    BY <1>1, <2>1 DEF GoodFrames
<1>3. ASSUME EndsFinal(b), Head(b).kind # "final" PROVE EndsFinal(Tail(b))
  <2>1. Len(b) # 1
    BY <1>1, <1>3 DEF EndsFinal
  <2>2. Len(b) - 1 \in 1..(Len(b) - 1) /\ Len(b) - 1 + 1 = Len(b)
    BY <1>1, <2>1
  <2>3. Tail(b)[Len(Tail(b))] = b[Len(b)]
    BY <1>1, <2>2
  <2>4. Len(Tail(b)) # 0 /\ Len(<<>>) = 0
    BY <1>1, <2>2
  <2>5. Tail(b) # <<>>
    BY <2>4
  <2> QED
    BY <1>3, <2>3, <2>5 DEF EndsFinal
<1> QED
  BY <1>1, <1>2, <1>3

\* A peer whose task has not written the assignment has no segment, and so
\* neither runs nor has shipped anything.
LEMMA Unassigned ==
  ASSUME DistInv, NEW i \in Task, handler[i] \in {"hello", "assign"}
  PROVE  /\ link[i] \in Peer /\ segment[link[i]] = 0
         /\ agent[link[i]] \notin {"run", "ok"} /\ engine[link[i]] = "off"
<1> DEFINE p == link[i]
<1>1. p \in Peer
  BY DEF DistInv, Links
<1>2. ASSUME segment[p] # 0 PROVE FALSE
  <2>1. segment[p] \in Task /\ link[segment[p]] = p /\ handler[segment[p]] \notin {"hello", "assign"}
    BY <1>1, <1>2, ControllerState DEF DistInv, Assigned
  <2>2. segment[p] = i
    BY <1>1, <2>1, ControllerState DEF DistInv, Links
  <2> QED
    BY <2>1, <2>2
<1> QED
  BY <1>1, <1>2 DEF DistInv, Runs

\* The hello is the first frame of a peer without a segment: no final snapshot
\* is lost.
LEMMA HelloKeeps ==
  ASSUME DistInv, NEW i \in Task, ReadHello(i)
  PROVE  DistInv'
<1> DEFINE p == link[i]
           h == IF p \in member THEN "assign" ELSE "err"
<1>0. /\ handler[i] = "hello" /\ outcome = "none" /\ inbox[p] # <<>>
      /\ inbox' = [inbox EXCEPT ![p] = Tail(inbox[p])] /\ handler' = [handler EXCEPT ![i] = h]
      /\ UNCHANGED <<total, member, link, snapshots, joined, outcome, agent, segment, engine, work, senders, progress>>
  BY DEF ReadHello, Handler
<1>1. p \in Peer /\ segment[p] = 0 /\ agent[p] \notin {"run", "ok"} /\ engine[p] = "off"
  BY <1>0, Unassigned
<1>2. h \in {"assign", "err"} /\ (h = "assign" => link[i] \in member)
  OBVIOUS
<1> HIDE DEF p, h
<1>3. handler'[i] = h /\ \A j \in Task : j # i => handler'[j] = handler[j]
  BY <1>0, ControllerState
<1>4. inbox[p] \in Seq(Frame) /\ GoodFrames(p, inbox[p], engine[p], work[p])
  BY <1>1, PeerState
<1>5. Tail(inbox[p]) \in Seq(Frame) /\ GoodFrames(p, Tail(inbox[p]), engine[p], work[p])
  BY <1>0, <1>4, FrameRead
<1>6. /\ inbox'[p] = Tail(inbox[p]) /\ inbox' \in [Peer -> Seq(Frame)]
      /\ \A q \in Peer : q # p => inbox'[q] = inbox[q]
  BY <1>0, <1>1, <1>5, ControllerState
<1>7. DistTypeOK'
  <2>1. handler' \in [Task -> {"accept", "hello", "assign", "frames", "ok", "err"}]
    BY <1>0, <1>2, ControllerState
  <2> QED
    BY <1>0, <1>6, <2>1 DEF DistInv, DistTypeOK
<1>8. Links'
  BY <1>0, <1>2, <1>3 DEF DistInv, Links
<1>9. Assigned'
  <2>1. \A q \in Peer : segment[q] # 0 =>
          segment[q] \in Task /\ handler[segment[q]] \in {"frames", "ok", "err"}
    BY ControllerState DEF DistInv, Assigned
  <2>2. \A q \in Peer : segment[q] # 0 => handler'[segment[q]] \in {"frames", "ok", "err"}
    BY <2>1, <1>0, <1>3
  <2>3. \A j \in Task : /\ handler'[j] \in {"frames", "ok"} => segment[link[j]] = j
                        /\ handler'[j] = "assign" => link[j] \in member
    BY <1>2, <1>3 DEF DistInv, Assigned
  <2> QED
    BY <1>0, <2>2, <2>3 DEF DistInv, Assigned
<1>10. Runs' /\ Worked'
  BY <1>0 DEF DistInv, Runs, Worked, Part
<1>11. Finals'
  <2>1. ASSUME NEW q \in Peer, NEW k \in 1..Len(inbox'[q]), inbox'[q][k].kind = "final"
        PROVE  engine[q] = "done" /\ segment[q] # 0 /\ inbox'[q][k].work = work[q]
    <3>1. CASE q = p
      BY <3>1, <2>1, <1>5, <1>6 DEF GoodFrames
    <3>2. CASE q # p
      BY <3>2, <2>1, <1>6 DEF DistInv, Finals
    <3> QED
      BY <3>1, <3>2
  <2>2. \A j \in Task : handler'[j] = "ok" => handler[j] = "ok"
    BY <1>2, <1>3
  <2> QED
    BY <1>0, <2>1, <2>2 DEF DistInv, Finals
<1>12. Joined'
  <2>1. outcome # "err" => \A j \in 1..joined : j # i
    BY <1>0 DEF DistInv, Joined
  <2> QED
    BY <1>0, <1>3, <2>1, ControllerState DEF DistInv, Joined
<1>13. FinalShipped'
  <2>1. ASSUME NEW q \in Peer, ~OpenTo(q) PROVE ~OpenTo(q)'
    BY <2>1, <1>0, <1>3, ClosedStaysClosed
  <2>2. \A q \in Peer : agent[q] = "ok" => q # p
    BY <1>1
  <2> QED
    BY <1>0, <1>6, <2>1, <2>2 DEF DistInv, FinalShipped
<1> QED
  BY <1>7, <1>8, <1>9, <1>10, <1>11, <1>12, <1>13 DEF DistInv

\* The segment that is assigned is nobody else's.
LEMMA WriteKeeps ==
  ASSUME DistInv, NEW i \in Task, WriteAssign(i)
  PROVE  DistInv'
<1> DEFINE p == link[i]
<1>0. /\ handler[i] = "assign" /\ outcome = "none"
      /\ segment' = [segment EXCEPT ![p] = i] /\ handler' = [handler EXCEPT ![i] = "frames"]
      /\ UNCHANGED <<total, member, link, snapshots, joined, outcome, agent, inbox, engine, work, senders, progress>>
  BY DEF WriteAssign, Handler
<1>1. p \in Peer /\ segment[p] = 0 /\ agent[p] \notin {"run", "ok"} /\ engine[p] = "off"
  BY <1>0, Unassigned
<1>2. p \in member /\ p = link[i]
  BY <1>0 DEF DistInv, Assigned
<1> HIDE DEF p
<1>3. handler'[i] = "frames" /\ \A j \in Task : j # i => handler'[j] = handler[j]
  BY <1>0, ControllerState
<1>4. i \in 0..NumAgents /\ i # 0
  BY DistAssumption DEF Task
<1>5. /\ segment' \in [Peer -> 0..NumAgents] /\ segment'[p] = i
      /\ \A q \in Peer : q # p => segment'[q] = segment[q]
  BY <1>0, <1>1, <1>4, ControllerState
<1>6. DistTypeOK'
  <2>1. handler' \in [Task -> {"accept", "hello", "assign", "frames", "ok", "err"}]
    BY <1>0, ControllerState
  <2> QED
    BY <1>0, <1>5, <2>1 DEF DistInv, DistTypeOK
<1>7. Links'
  BY <1>0, <1>3 DEF DistInv, Links
<1>8. Assigned'
  <2>1. ASSUME NEW q \in Peer, segment'[q] # 0
        PROVE  link[segment'[q]] = q /\ q \in member /\ handler'[segment'[q]] \in {"frames", "ok", "err"}
    <3>1. CASE q = p
      BY <3>1, <1>2, <1>3, <1>5
    <3>2. CASE q # p
      <4>1. /\ segment'[q] = segment[q] /\ segment[q] \in Task /\ link[segment[q]] = q /\ q \in member
            /\ handler[segment[q]] \in {"frames", "ok", "err"}
        BY <3>2, <2>1, <1>5, ControllerState DEF DistInv, Assigned
      <4> QED
        BY <4>1, <1>0, <1>3
    <3> QED
      BY <3>1, <3>2
  <2>2. ASSUME NEW j \in Task
        PROVE  /\ handler'[j] \in {"frames", "ok"} => segment'[link[j]] = j
               /\ handler'[j] = "assign" => link[j] \in member
    <3>1. CASE j = i
      BY <3>1, <1>2, <1>3, <1>5
    <3>2. CASE j # i
      <4>1. handler'[j] = handler[j]
        BY <3>2, <1>3
      <4>2. ASSUME handler[j] \in {"frames", "ok"} PROVE segment'[link[j]] = j
        <5>1. link[j] \in Peer /\ segment[link[j]] = j
          BY <4>2 DEF DistInv, Links, Assigned
        <5>2. link[j] # p
          BY <3>2, <5>1, <1>1, <1>2, ControllerState DEF DistInv, Links
        <5> QED
          BY <5>1, <5>2, <1>5
      <4> QED
        BY <4>1, <4>2 DEF DistInv, Assigned
    <3> QED
      BY <3>1, <3>2
  <2> QED
    BY <2>1, <2>2, <1>0 DEF Assigned
<1>9. Runs'
  <2>1. \A q \in Peer : segment[q] # 0 => segment'[q] # 0
    BY <1>1, <1>5
  <2> QED
    BY <1>0, <2>1 DEF DistInv, Runs
<1>10. Worked'
  <2>1. work[p] \in Nat /\ work[p] <= 0 /\ Part(i) \in Nat
    BY <1>1, PeerState, PartIs
  <2>2. ASSUME NEW q \in Peer
        PROVE  work[q] <= IF segment'[q] = 0 THEN 0 ELSE Part(segment'[q])
    <3>1. CASE q = p
      BY <3>1, <2>1, <1>4, <1>5
    <3>2. CASE q # p
      BY <3>2, <1>5 DEF DistInv, Worked
    <3> QED
      BY <3>1, <3>2
  <2> QED
    BY <1>0, <2>2 DEF Worked, Part
<1>11. Finals'
  <2>1. ASSUME NEW q \in Peer, NEW k \in 1..Len(inbox[q]), inbox[q][k].kind = "final"
        PROVE  engine[q] = "done" /\ segment'[q] # 0 /\ inbox[q][k].work = work[q]
    <3>1. engine[q] = "done" /\ segment[q] # 0 /\ inbox[q][k].work = work[q]
      BY <2>1 DEF DistInv, Finals
    <3> QED
      BY <3>1, <1>1, <1>5
  <2>2. \A j \in Task : handler'[j] = "ok" => handler[j] = "ok"
    BY <1>3
  <2> QED
    BY <1>0, <2>1, <2>2 DEF DistInv, Finals
<1>12. Joined'
  <2>1. outcome # "err" => \A j \in 1..joined : j # i
    BY <1>0 DEF DistInv, Joined
  <2> QED
    BY <1>0, <1>3, <2>1, ControllerState DEF DistInv, Joined
<1>13. FinalShipped'
  <2>1. ASSUME NEW q \in Peer, ~OpenTo(q) PROVE ~OpenTo(q)'
    BY <2>1, <1>0, <1>3, ClosedStaysClosed
  <2> QED
    BY <1>0, <2>1 DEF DistInv, FinalShipped
<1> QED
  BY <1>6, <1>7, <1>8, <1>9, <1>10, <1>11, <1>12, <1>13 DEF DistInv

\* A frame is read: a final snapshot ends the task, which closes the connection.
LEMMA SnapshotKeeps ==
  ASSUME DistInv, NEW i \in Task, ReadSnapshot(i)
  PROVE  DistInv'
<1> DEFINE p == link[i]
           f == Head(inbox[p])
           done == f.kind = "final"
<1>0. /\ handler[i] = "frames" /\ outcome = "none" /\ inbox[p] # <<>>
      /\ inbox' = [inbox EXCEPT ![p] = Tail(inbox[p])]
      /\ UNCHANGED <<total, member, link, joined, outcome, agent, segment, engine, work, senders, progress>>
  BY DEF ReadSnapshot
<1>1. p \in Peer /\ segment[p] = i
  BY <1>0 DEF DistInv, Links, Assigned
<1>2. /\ done => /\ handler' = [handler EXCEPT ![i] = "ok"]
                 /\ snapshots' = [snapshots EXCEPT ![i] = f.work]
      /\ ~done => handler' = handler /\ snapshots' = snapshots
  BY DEF ReadSnapshot, Handler
<1>3. inbox[p] \in Seq(Frame) /\ GoodFrames(p, inbox[p], engine[p], work[p])
  BY <1>1, PeerState
<1>4. /\ Tail(inbox[p]) \in Seq(Frame) /\ GoodFrames(p, Tail(inbox[p]), engine[p], work[p])
      /\ f \in Frame /\ f = inbox[p][1] /\ 1 \in 1..Len(inbox[p])
      /\ EndsFinal(inbox[p]) /\ ~done => EndsFinal(Tail(inbox[p]))
  BY <1>0, <1>3, FrameRead
<1>5. done => engine[p] = "done" /\ f.work = work[p]
  BY <1>1, <1>3, <1>4 DEF GoodFrames
<1>51. f.work \in Nat
  BY <1>4 DEF Frame
<1>52. p = link[i]
  OBVIOUS
<1> HIDE DEF p, f, done
<1>6. /\ done => handler'[i] = "ok" /\ snapshots'[i] = f.work
      /\ ~done => handler'[i] = "frames"
      /\ \A j \in Task : j # i => handler'[j] = handler[j] /\ snapshots'[j] = snapshots[j]
  BY <1>0, <1>2, ControllerState
<1>7. /\ inbox'[p] = Tail(inbox[p]) /\ inbox' \in [Peer -> Seq(Frame)]
      /\ \A q \in Peer : q # p => inbox'[q] = inbox[q]
  BY <1>0, <1>1, <1>4, ControllerState
<1>8. DistTypeOK'
  <2>1. /\ handler' \in [Task -> {"accept", "hello", "assign", "frames", "ok", "err"}]
        /\ snapshots' \in [Task -> Nat]
    BY <1>2, <1>51, ControllerState
  <2> QED
    BY <1>0, <1>7, <2>1 DEF DistInv, DistTypeOK
<1>9. Links'
  BY <1>0, <1>1, <1>52, <1>6 DEF DistInv, Links
<1>10. Assigned'
  <2>1. \A q \in Peer : segment[q] # 0 =>
          segment[q] \in Task /\ handler[segment[q]] \in {"frames", "ok", "err"}
    BY ControllerState DEF DistInv, Assigned
  <2>2. \A j \in Task : handler'[j] \in {"frames", "ok", "err"} <=> handler[j] \in {"frames", "ok", "err"}
    BY <1>0, <1>6
  <2>3. \A j \in Task : /\ handler'[j] \in {"frames", "ok"} => handler[j] \in {"frames", "ok"}
                        /\ handler'[j] = "assign" => handler[j] = "assign"
    BY <1>0, <1>6
  <2> QED
    BY <1>0, <2>1, <2>2, <2>3 DEF DistInv, Assigned
<1>11. Runs'
  BY <1>0 DEF DistInv, Runs
<1>66. Worked'
  BY <1>0 DEF DistInv, Worked, Part
<1>12. Finals'
  <2>1. ASSUME NEW q \in Peer, NEW k \in 1..Len(inbox'[q]), inbox'[q][k].kind = "final"
        PROVE  engine[q] = "done" /\ segment[q] # 0 /\ inbox'[q][k].work = work[q]
    <3>1. CASE q = p
      BY <3>1, <2>1, <1>4, <1>7 DEF GoodFrames
    <3>2. CASE q # p
      BY <3>2, <2>1, <1>7 DEF DistInv, Finals
    <3> QED
      BY <3>1, <3>2
  <2>2. ASSUME NEW j \in Task, handler'[j] = "ok"
        PROVE  engine[link[j]] = "done" /\ snapshots'[j] = work[link[j]]
    <3>1. CASE j = i
      BY <3>1, <2>2, <1>5, <1>52, <1>6
    <3>2. CASE j # i
      BY <3>2, <2>2, <1>6 DEF DistInv, Finals
    <3> QED
      BY <3>1, <3>2
  <2>3. link' = link /\ segment' = segment /\ engine' = engine /\ work' = work
    BY <1>0
  <2> QED
    BY ONLY <2>1, <2>2, <2>3 DEF Finals
<1>13. Joined'
  <2>1. outcome # "err" => \A j \in 1..joined : j # i
    BY <1>0 DEF DistInv, Joined
  <2> QED
    BY <1>0, <1>6, <2>1, ControllerState DEF DistInv, Joined
<1>14. FinalShipped'
  <2>1. ASSUME NEW q \in Peer, ~OpenTo(q) PROVE ~OpenTo(q)'
    BY <2>1, <1>0, <1>6, ClosedStaysClosed
  <2>2. ASSUME NEW q \in Peer, agent[q] = "ok", OpenTo(q)' PROVE EndsFinal(inbox'[q])
    <3>1. EndsFinal(inbox[q])
      BY <2>1, <2>2 DEF DistInv, FinalShipped, EndsFinal
    <3>2. CASE q = p
      <4>1. ~done
        BY <2>2, <3>2, <1>0, <1>52, <1>6 DEF OpenTo
      <4> QED
        BY <3>1, <3>2, <4>1, <1>4, <1>7
    <3>3. CASE q # p
      BY <3>1, <3>3, <1>7
    <3> QED
      BY <3>2, <3>3
  <2> QED
    BY <1>0, <2>2 DEF FinalShipped, EndsFinal
<1> QED
  BY <1>8, <1>9, <1>10, <1>11, <1>66, <1>12, <1>13, <1>14 DEF DistInv

\* The controller awaits its tasks in order.
LEMMA JoinKeeps ==
  ASSUME DistInv, Join
  PROVE  DistInv'
<1>0. /\ outcome = "none" /\ joined < NumAgents /\ handler[joined + 1] \in {"ok", "err"}
      /\ joined' = joined + 1
      /\ outcome' = IF handler[joined + 1] = "err" THEN "err"
                    ELSE IF joined + 1 = NumAgents THEN "ok" ELSE "none"
      /\ UNCHANGED <<total, member, handler, link, snapshots, agent, segment, inbox, engine, work, senders, progress>>
  BY DEF Join, peerVars
<1>1. joined + 1 \in 0..NumAgents
  BY <1>0, ControllerState
<1>2. DistTypeOK'
  BY <1>0, <1>1 DEF DistInv, DistTypeOK
<1>3. Links' /\ Assigned' /\ Runs' /\ Worked' /\ Finals'
  BY <1>0 DEF DistInv, Links, Assigned, Runs, Worked, Finals, Part
<1>4. Joined'
  <2>1. \A j \in 1..(joined + 1) : j \in 1..joined \/ j = joined + 1
    BY ControllerState
  <2>2. outcome' # "err" => handler[joined + 1] = "ok"
    BY <1>0
  <2>3. outcome' = "ok" => joined + 1 = NumAgents
    BY <1>0
  <2> QED
    BY <1>0, <2>1, <2>2, <2>3 DEF DistInv, Joined
<1>5. FinalShipped'
  <2>1. \A q \in Peer : OpenTo(q)' => OpenTo(q)
    BY <1>0 DEF OpenTo
  <2> QED
    BY <1>0, <2>1 DEF DistInv, FinalShipped
<1> QED
  BY <1>2, <1>3, <1>4, <1>5 DEF DistInv

\* The run begins with nothing connected.
LEMMA DistInitially == DistInit => DistInv
<1> SUFFICES ASSUME DistInit PROVE DistInv
  OBVIOUS
<1>0. NumAgents \in Nat \ {0} /\ MaxProgress \in Nat /\ 0 \in 0..NumAgents /\ 0 \in 0..MaxProgress
  BY DistAssumption
<1>1. DistTypeOK
  BY <1>0, DistAssumption DEF DistInit, DistTypeOK
<1>2. Links /\ Assigned /\ Runs /\ Joined /\ Worked
  BY <1>0 DEF DistInit, Links, Assigned, Runs, Joined, Worked
<1>3. Finals
  <2>1. \A p \in Peer : 1..Len(inbox[p]) = {}
    BY DEF DistInit
  <2> QED
    BY <2>1 DEF DistInit, Finals
<1>4. FinalShipped
  BY DEF DistInit, FinalShipped
<1> QED
  BY <1>1, <1>2, <1>3, <1>4 DEF DistInv

\* Every step keeps the invariant.
LEMMA DistInductive == DistInv /\ [DistNext]_distVars => DistInv'
<1> SUFFICES ASSUME DistInv, [DistNext]_distVars PROVE DistInv'
  OBVIOUS
<1>1. CASE Join BY <1>1, JoinKeeps
<1>2. ASSUME NEW i \in Task, TaskStep(i) \/ Write(i) PROVE DistInv'
  BY <1>2, AcceptKeeps, HelloKeeps, WriteKeeps, SnapshotKeeps, FailKeeps DEF TaskStep, Write
<1>3. ASSUME NEW p \in Peer,
             \/ ReachController(p) \/ GiveUp(p) \/ SendHello(p) \/ ReadAssign(p)
             \/ Iterate(p) \/ TakeSnapshot(p)
             \/ EngineEnds(p) \/ ForwardProgress(p) \/ FinishAgent(p) \/ Die(p)
      PROVE  DistInv'
  BY <1>3, ConnectKeeps, RunKeeps
<1>4. CASE UNCHANGED distVars
  BY <1>4 DEF distVars, DistInv, DistTypeOK, Links, Assigned, Runs, Worked, Finals, Joined, FinalShipped,
              OpenTo, Part
<1> QED
  BY <1>1, <1>2, <1>3, <1>4 DEF DistNext

\* The parts of the job add up to the job.
LEMMA PartsAddUp ==
  ASSUME total \in Nat, NEW f \in [Task -> Nat], \A i \in Task : f[i] = Part(i)
  PROVE  Total(f, Task) = total
<1>0. NumAgents \in Nat \ {0} /\ Task = 1..NumAgents
  BY DistAssumption DEF Task
<1> DEFINE h == [k \in 0..NumAgents |-> (total * k) \div NumAgents]
<1>1. h \in [0..NumAgents -> Int]
  BY <1>0
<1>2. \A i \in 1..NumAgents : f[i] = h[i] - h[i - 1]
  <2> SUFFICES ASSUME NEW i \in 1..NumAgents PROVE f[i] = h[i] - h[i - 1]
    OBVIOUS
  <2>1. i \in 0..NumAgents /\ i - 1 \in 0..NumAgents
    BY <1>0
  <2>2. f[i] = ((total * i) \div NumAgents) - ((total * (i - 1)) \div NumAgents)
    BY <1>0, PartIs
  <2> QED
    BY <2>1, <2>2
<1>3. h[NumAgents] = total /\ h[0] = 0
  <2>1. h[NumAgents] = (total * NumAgents) \div NumAgents /\ h[0] = (total * 0) \div NumAgents
    BY <1>0
  <2>2. (total * 0) \div NumAgents = 0
    BY <1>0
  <2> DEFINE q == (total * NumAgents) \div NumAgents
  <2>3. q \in Int /\ NumAgents * q <= total * NumAgents /\ total * NumAgents < NumAgents * q + NumAgents
    BY <1>0, DivBounds
  <2> HIDE DEF q
  <2>4. ~(q > total)
    BY <1>0, <2>3
  <2>5. ~(q + 1 <= total)
    BY <1>0, <2>3
  <2>6. q = total
    BY <2>3, <2>4, <2>5
  <2> QED
    BY <2>1, <2>2, <2>6 DEF q
<1> HIDE DEF h
<1>4. f \in [1..NumAgents -> Int]
  BY <1>0
<1>5. Total(f, 1..NumAgents) = h[NumAgents] - h[0]
  BY <1>0, <1>1, <1>2, <1>4, Telescope
<1> QED
  BY <1>0, <1>3, <1>5

\* What is less than its part everywhere is less than the job.
LEMMA PartsBound ==
  ASSUME total \in Nat, NEW f \in [Task -> Nat], \A i \in Task : f[i] <= Part(i)
  PROVE  Total(f, Task) <= total
<1>0. IsFiniteSet(Task) /\ \A i \in Task : Part(i) \in Nat
  <2>1. NumAgents \in Nat /\ Task = 1..NumAgents
    BY DistAssumption DEF Task
  <2>2. IsFiniteSet(Task)
    BY <2>1, FS_Interval
  <2> QED
    BY <2>2, PartIs
<1> DEFINE whole == [i \in Task |-> Part(i)]
           rest == [i \in Task |-> Part(i) - f[i]]
<1>1. whole \in [Task -> Nat] /\ \A i \in Task : whole[i] = Part(i)
  BY <1>0
<1>2. rest \in [Task -> Nat]
  <2>1. \A i \in Task : Part(i) - f[i] \in Nat
    BY <1>0
  <2> QED
    BY <2>1
<1>3. \A i \in Task : whole[i] = f[i] + rest[i]
  BY <1>0
<1> HIDE DEF whole, rest
<1>4. whole \in [Task -> Int] /\ rest \in [Task -> Int] /\ f \in [Task -> Int]
  BY <1>1, <1>2
<1>5. SumFunction(whole) = SumFunction(f) + SumFunction(rest)
  BY <1>0, <1>3, <1>4, SumsAdd
<1>6. SumFunction(rest) \in Nat /\ SumFunction(f) \in Nat
  BY <1>0, <1>2, SumOfNats
<1>7. SumFunction(whole) = Total(whole, Task) /\ SumFunction(f) = Total(f, Task)
  BY <1>1 DEF SumFunction, SumFunctionOnSet, FoldFunctionOnSet, Total, MapThenSumSet
<1>8. Total(whole, Task) = total
  BY <1>1, PartsAddUp
<1> QED
  BY <1>5, <1>6, <1>7, <1>8

\* A controller that succeeds has merged one final result of each segment, by an
\* agent of its own that holds the token: what the engines did, no more than the
\* job, and the whole job if each engine did its share.
THEOREM MergesTheWholeJob == DistSpec => []MergedIsWhole
<1>1. DistInv => MergedIsWhole
  <2> SUFFICES ASSUME DistInv, outcome = "ok" PROVE MergedIsWhole
    BY DEF MergedIsWhole
  <2>1. \A i \in Task : handler[i] = "ok"
    BY DEF DistInv, Joined, Task
  <2>2. \A i \in Task : /\ link[i] \in Peer /\ segment[link[i]] = i /\ i # 0
                        /\ engine[link[i]] = "done" /\ snapshots[i] = work[link[i]]
    BY <2>1, DistAssumption DEF DistInv, Links, Assigned, Finals, Task
  <2>3. \A i \in Task : link[i] \in member
    BY <2>2 DEF DistInv, Assigned
  <2>4. \A i, j \in Task : i # j => link[i] # link[j]
    BY <2>2, DistAssumption DEF DistInv, Links
  <2>5. total \in Nat /\ snapshots \in [Task -> Nat]
    BY DistAssumption DEF DistInv, DistTypeOK
  <2>6. \A i \in Task : ShareOf(link[i]) = Part(i) /\ snapshots[i] <= Part(i)
    BY <2>2 DEF DistInv, Worked, ShareOf, Part
  <2>7. (\A i \in Task : work[link[i]] = ShareOf(link[i])) => Total(snapshots, Task) = total
    BY <2>2, <2>5, <2>6, PartsAddUp
  <2>8. Total(snapshots, Task) <= total
    BY <2>5, <2>6, PartsBound
  <2> QED
    BY <2>2, <2>3, <2>4, <2>7, <2>8 DEF MergedIsWhole, Total
<1> QED
  BY <1>1, DistInitially, DistInductive, PTL DEF DistSpec

\* An agent that exits with success has shipped its final snapshot.
THEOREM FinalAlwaysShipped == DistSpec => []FinalShipped
<1>1. DistInv => FinalShipped
  BY DEF DistInv
<1> QED
  BY <1>1, DistInitially, DistInductive, PTL DEF DistSpec
=============================================================================
