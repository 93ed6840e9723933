------------------------------ MODULE Sums_proofs ------------------------------
(***************************************************************************)
(* Sums over finite sets.  MapThenSumSet takes the elements of a set in    *)
(* the order in which CHOOSE finds them; these lemmas say that the sum is  *)
(* a number and does not depend on that order.                             *)
(***************************************************************************)
EXTENDS Integers, FiniteSets, FiniteSetTheorems, NaturalsInduction, WellFoundedInduction, TLAPS

First(s) == CHOOSE x \in s : TRUE

\* g sums f over every subset of S.
IsSum(g, f, S) ==
    g = [s \in SUBSET S |-> IF s = {} THEN 0 ELSE f[First(s)] + g[s \ {First(s)}]]

SumOf(f, S) == (CHOOSE g : IsSum(g, f, S))[S]

\* Among sets of numbers there is a least one.
LEMMA LeastNumber ==
    ASSUME NEW T \in SUBSET Nat, T # {}
    PROVE  \E n \in T : \A m \in T : n <= m
<1>1. IsWellFoundedOn(OpToRel(<, Nat), Nat)
  BY NatLessThanWellFounded
<1>2. PICK n \in T : \A m \in T : ~(<<m, n>> \in OpToRel(<, Nat))
  BY <1>1, WFMin
<1>3. \A m \in T : ~(m < n)
  BY <1>2 DEF OpToRel
<1> QED
  BY <1>3

\* Removing the first element of a set makes it smaller.
LEMMA FirstRemoved ==
    ASSUME NEW S, IsFiniteSet(S), NEW s \in SUBSET S, s # {}
    PROVE  /\ First(s) \in s /\ s \ {First(s)} \in SUBSET S
           /\ Cardinality(s) \in Nat /\ Cardinality(s \ {First(s)}) \in Nat
           /\ Cardinality(s \ {First(s)}) < Cardinality(s)
<1>1. First(s) \in s
  BY DEF First
<1>2. IsFiniteSet(s)
  BY FS_Subset
<1>3. Cardinality(s) \in Nat
  BY <1>2, FS_CardinalityType
<1>4. /\ IsFiniteSet(s \ {First(s)})
      /\ Cardinality(s \ {First(s)}) = Cardinality(s) - 1
  BY <1>1, <1>2, FS_RemoveElement
<1>5. Cardinality(s \ {First(s)}) \in Nat
  BY <1>4, FS_CardinalityType
<1> QED
  BY <1>1, <1>3, <1>4, <1>5

\* Two functions that sum the same agree.
LEMMA SumUnique ==
    ASSUME NEW S, IsFiniteSet(S), NEW f, NEW g, NEW h, IsSum(g, f, S), IsSum(h, f, S)
    PROVE  g = h
<1> DEFINE Bad == {s \in SUBSET S : g[s] # h[s]}
           T == {Cardinality(s) : s \in Bad}
<1>1. /\ DOMAIN g = SUBSET S /\ DOMAIN h = SUBSET S
      /\ g = [s \in SUBSET S |-> g[s]] /\ h = [s \in SUBSET S |-> h[s]]
      /\ \A s \in SUBSET S : g[s] = IF s = {} THEN 0 ELSE f[First(s)] + g[s \ {First(s)}]
      /\ \A s \in SUBSET S : h[s] = IF s = {} THEN 0 ELSE f[First(s)] + h[s \ {First(s)}]
  BY DEF IsSum
<1>2. CASE Bad = {}
  <2>1. \A s \in SUBSET S : g[s] = h[s]
    BY <1>2
  <2> QED
    BY <1>1, <2>1
<1>3. CASE Bad # {}
  <2>1. \A s \in Bad : Cardinality(s) \in Nat
    BY FS_Subset, FS_CardinalityType
  <2>2. T \in SUBSET Nat /\ T # {}
    BY <1>3, <2>1
  <2>3. PICK n \in T : \A m \in T : n <= m
    <3> HIDE DEF T
    <3> QED
      BY <2>2, LeastNumber
  <2>4. PICK s \in Bad : \A t \in Bad : Cardinality(s) <= Cardinality(t)
    BY <2>3
  <2>5. CASE s = {}
    BY <1>1, <2>4, <2>5
  <2>6. CASE s # {}
    <3>1. /\ First(s) \in s /\ s \ {First(s)} \in SUBSET S
          /\ Cardinality(s) \in Nat /\ Cardinality(s \ {First(s)}) \in Nat
          /\ Cardinality(s \ {First(s)}) < Cardinality(s)
      BY <2>6, FirstRemoved
    <3>2. s \ {First(s)} \notin Bad
      <4> HIDE DEF Bad
      <4> QED
        BY <2>4, <3>1
    <3>3. g[s \ {First(s)}] = h[s \ {First(s)}]
      BY <3>1, <3>2
    <3>4. g[s] = h[s]
      BY <1>1, <2>6, <3>3
    <3> QED
      BY <2>4, <3>4
  <2> QED
    BY <2>5, <2>6
<1> QED
  BY <1>2, <1>3

\* A sum over S sums over the subsets of S.
LEMMA SumRestricts ==
    ASSUME NEW S, NEW s \in SUBSET S, NEW f, NEW g, IsSum(g, f, S)
    PROVE  IsSum([t \in SUBSET s |-> g[t]], f, s)
<1> DEFINE h == [t \in SUBSET s |-> g[t]]
<1>1. \A t \in SUBSET s : t \in SUBSET S
  OBVIOUS
<1>2. \A t \in SUBSET S : g[t] = IF t = {} THEN 0 ELSE f[First(t)] + g[t \ {First(t)}]
  BY DEF IsSum
<1>3. \A t \in SUBSET s : h[t] = IF t = {} THEN 0 ELSE f[First(t)] + h[t \ {First(t)}]
  <2> SUFFICES ASSUME NEW t \in SUBSET s
               PROVE  h[t] = IF t = {} THEN 0 ELSE f[First(t)] + h[t \ {First(t)}]
    OBVIOUS
  <2>1. t \ {First(t)} \in SUBSET s
    OBVIOUS
  <2> QED
    BY <1>1, <1>2, <2>1
<1>4. h = [t \in SUBSET s |-> h[t]]
  OBVIOUS
<1> HIDE DEF h
<1>5. h = [t \in SUBSET s |-> IF t = {} THEN 0 ELSE f[First(t)] + h[t \ {First(t)}]]
  BY <1>3, <1>4
<1>6. IsSum(h, f, s)
  BY <1>5 DEF IsSum
<1> QED
  BY <1>6 DEF h

\* The value at S determines the sum of every subset.
LEMMA SumOfSubset ==
    ASSUME NEW S, IsFiniteSet(S), NEW s \in SUBSET S, NEW f, NEW g, IsSum(g, f, S)
    PROVE  SumOf(f, s) = g[s]
<1> DEFINE h == [t \in SUBSET s |-> g[t]]
           k == CHOOSE x : IsSum(x, f, s)
<1>1. IsSum(h, f, s)
  BY SumRestricts
<1>2. IsSum(k, f, s)
  BY <1>1
<1>3. IsFiniteSet(s)
  BY FS_Subset
<1>4. k = h
  <2> HIDE DEF k, h
  <2> QED
    BY <1>1, <1>2, <1>3, SumUnique
<1>5. SumOf(f, s) = k[s]
  BY DEF SumOf
<1>6. h[s] = g[s]
  OBVIOUS
<1> QED
  BY <1>4, <1>5, <1>6

\* Every function can be summed over a finite set.
LEMMA SumExists ==
    ASSUME NEW S, IsFiniteSet(S), NEW f
    PROVE  \E g : IsSum(g, f, S)
<1> DEFINE Bad == {s \in SUBSET S : ~ \E g : IsSum(g, f, s)}
           T == {Cardinality(s) : s \in Bad}
<1>1. CASE S \notin Bad
  BY <1>1
<1>2. CASE S \in Bad
  <2>1. \A s \in Bad : IsFiniteSet(s) /\ Cardinality(s) \in Nat
    BY FS_Subset, FS_CardinalityType
  <2>2. T \in SUBSET Nat /\ T # {}
    BY <1>2, <2>1
  <2>3. PICK n \in T : \A m \in T : n <= m
    <3> HIDE DEF T
    <3> QED
      BY <2>2, LeastNumber
  <2>4. PICK s \in Bad : \A t \in Bad : Cardinality(s) <= Cardinality(t)
    BY <2>3
  <2>5. IsFiniteSet(s) /\ s \in SUBSET S /\ ~ \E g : IsSum(g, f, s)
    BY <2>1, <2>4
  <2> HIDE DEF Bad
  <2> DEFINE h == [t \in SUBSET s |-> IF t = {} THEN 0 ELSE f[First(t)] + SumOf(f, t \ {First(t)})]
  <2>6. ASSUME NEW t \in SUBSET s, t # {}
        PROVE  SumOf(f, t \ {First(t)}) = h[t \ {First(t)}]
    <3> DEFINE u == t \ {First(t)}
    <3>1. /\ u \in SUBSET s /\ Cardinality(t) \in Nat /\ Cardinality(u) \in Nat
          /\ Cardinality(u) < Cardinality(t)
      BY <2>5, <2>6, FirstRemoved
    <3>2. Cardinality(t) <= Cardinality(s) /\ Cardinality(s) \in Nat
      BY <2>1, <2>4, <2>5, FS_Subset
    <3>3. u \in SUBSET S /\ u \notin Bad
      BY <2>4, <2>5, <3>1, <3>2
    <3>4. PICK g : IsSum(g, f, u)
      BY <3>3 DEF Bad
    <3>5. IsFiniteSet(u)
      BY <2>5, <3>1, FS_Subset
    <3> HIDE DEF u, h
    <3>6. SumOf(f, u) = g[u]
      BY <3>4, <3>5, SumOfSubset
    <3>7. g[u] = IF u = {} THEN 0 ELSE f[First(u)] + g[u \ {First(u)}]
      BY <3>4 DEF IsSum
    <3>8. u \ {First(u)} \in SUBSET u
      OBVIOUS
    <3>9. SumOf(f, u \ {First(u)}) = g[u \ {First(u)}]
      BY <3>4, <3>5, <3>8, SumOfSubset
    <3>10. h[u] = IF u = {} THEN 0 ELSE f[First(u)] + SumOf(f, u \ {First(u)})
      BY <3>1 DEF h
    <3>11. SumOf(f, u) = h[u]
      BY <3>6, <3>7, <3>9, <3>10
    <3> QED
      BY <3>11 DEF u
  <2>7. \A t \in SUBSET s : h[t] = IF t = {} THEN 0 ELSE f[First(t)] + h[t \ {First(t)}]
    <3>1. \A t \in SUBSET s : h[t] = IF t = {} THEN 0 ELSE f[First(t)] + SumOf(f, t \ {First(t)})
      OBVIOUS
    <3> HIDE DEF h
    <3> QED
      BY <2>6, <3>1
  <2>8. h = [t \in SUBSET s |-> h[t]]
    OBVIOUS
  <2> HIDE DEF h
  <2>9. h = [t \in SUBSET s |-> IF t = {} THEN 0 ELSE f[First(t)] + h[t \ {First(t)}]]
    BY <2>7, <2>8
  <2>10. IsSum(h, f, s)
    BY <2>9 DEF IsSum
  <2> QED
    BY <2>5, <2>10
<1> QED
  BY <1>1, <1>2

\* The recursion that a sum obeys.
LEMMA SumFirst ==
    ASSUME NEW S, IsFiniteSet(S), NEW f
    PROVE  SumOf(f, S) = IF S = {} THEN 0 ELSE f[First(S)] + SumOf(f, S \ {First(S)})
<1>1. PICK g : IsSum(g, f, S)
  BY SumExists
<1>2. SumOf(f, S) = g[S] /\ SumOf(f, S \ {First(S)}) = g[S \ {First(S)}]
  BY <1>1, SumOfSubset
<1>3. g[S] = IF S = {} THEN 0 ELSE f[First(S)] + g[S \ {First(S)}]
  BY <1>1 DEF IsSum
<1> QED
  BY <1>2, <1>3
\* Induction over the subsets of a finite set, P being the set of the good ones.
LEMMA SubsetInduction ==
    ASSUME NEW S, IsFiniteSet(S), NEW P,
           \A s \in SUBSET S : (\A x \in s : s \ {x} \in P) => s \in P
    PROVE  \A s \in SUBSET S : s \in P
<1> DEFINE Bad == {s \in SUBSET S : s \notin P}
           T == {Cardinality(s) : s \in Bad}
<1> SUFFICES ASSUME Bad # {}
             PROVE  FALSE
  OBVIOUS
<1>1. \A s \in Bad : IsFiniteSet(s) /\ Cardinality(s) \in Nat
  BY FS_Subset, FS_CardinalityType
<1>2. T \in SUBSET Nat /\ T # {}
  BY <1>1
<1>3. PICK n \in T : \A m \in T : n <= m
  <2> HIDE DEF T
  <2> QED
    BY <1>2, LeastNumber
<1>4. PICK s \in Bad : \A t \in Bad : Cardinality(s) <= Cardinality(t)
  BY <1>3
<1>5. ASSUME NEW x \in s
      PROVE  s \ {x} \in P
  <2>1. IsFiniteSet(s \ {x}) /\ Cardinality(s \ {x}) = Cardinality(s) - 1
    BY <1>1, <1>4, <1>5, FS_RemoveElement
  <2>2. Cardinality(s) \in Nat /\ Cardinality(s \ {x}) \in Nat
    BY <1>1, <1>4, <2>1, FS_CardinalityType
  <2>3. s \ {x} \notin Bad
    <3> HIDE DEF Bad
    <3> QED
      BY <1>4, <2>1, <2>2
  <2> QED
    BY <1>4, <2>3
<1> QED
  BY <1>4, <1>5

\* The sum of numbers is a number.
LEMMA SumIsInt ==
    ASSUME NEW S, IsFiniteSet(S), NEW f, \A x \in S : f[x] \in Int
    PROVE  \A s \in SUBSET S : SumOf(f, s) \in Int
<1> DEFINE P == {s \in SUBSET S : SumOf(f, s) \in Int}
<1>1. ASSUME NEW s \in SUBSET S, \A x \in s : s \ {x} \in P
      PROVE  s \in P
  <2>1. SumOf(f, s) = IF s = {} THEN 0 ELSE f[First(s)] + SumOf(f, s \ {First(s)})
    BY FS_Subset, SumFirst
  <2>2. s # {} => First(s) \in s
    BY DEF First
  <2> QED
    BY <1>1, <2>1, <2>2
<1> HIDE DEF P
<1>2. \A s \in SUBSET S : s \in P
  BY <1>1, SubsetInduction
<1> QED
  BY <1>2 DEF P

\* The sum of numbers that are not negative is not.
LEMMA SumIsNat ==
    ASSUME NEW S, IsFiniteSet(S), NEW f, \A x \in S : f[x] \in Nat
    PROVE  \A s \in SUBSET S : SumOf(f, s) \in Nat
<1> DEFINE P == {s \in SUBSET S : SumOf(f, s) \in Nat}
<1>1. ASSUME NEW s \in SUBSET S, \A x \in s : s \ {x} \in P
      PROVE  s \in P
  <2>1. SumOf(f, s) = IF s = {} THEN 0 ELSE f[First(s)] + SumOf(f, s \ {First(s)})
    BY FS_Subset, SumFirst
  <2>2. s # {} => First(s) \in s
    BY DEF First
  <2> QED
    BY <1>1, <2>1, <2>2
<1> HIDE DEF P
<1>2. \A s \in SUBSET S : s \in P
  BY <1>1, SubsetInduction
<1> QED
  BY <1>2 DEF P

\* A sum of zeros is zero.
LEMMA SumOfNothing ==
    ASSUME NEW S, IsFiniteSet(S), NEW f, \A x \in S : f[x] = 0
    PROVE  SumOf(f, S) = 0
<1> DEFINE P == {s \in SUBSET S : SumOf(f, s) = 0}
<1>1. ASSUME NEW s \in SUBSET S, \A x \in s : s \ {x} \in P
      PROVE  s \in P
  <2>1. SumOf(f, s) = IF s = {} THEN 0 ELSE f[First(s)] + SumOf(f, s \ {First(s)})
    BY FS_Subset, SumFirst
  <2>2. CASE s = {}
    BY <2>1, <2>2
  <2>3. CASE s # {}
    <3>1. First(s) \in s
      BY <2>3 DEF First
    <3>2. SumOf(f, s \ {First(s)}) = 0 /\ f[First(s)] = 0
      BY <1>1, <3>1
    <3> QED
      BY <2>1, <2>3, <3>2
  <2> QED
    BY <2>2, <2>3
<1> HIDE DEF P
<1>2. \A s \in SUBSET S : s \in P
  BY <1>1, SubsetInduction
<1>3. S \in P
  BY <1>2
<1> QED
  BY <1>3 DEF P

\* Functions that agree have the same sum.
LEMMA SumAgrees ==
    ASSUME NEW S, IsFiniteSet(S), NEW f, NEW h, \A x \in S : f[x] = h[x]
    PROVE  \A s \in SUBSET S : SumOf(f, s) = SumOf(h, s)
<1> DEFINE P == {s \in SUBSET S : SumOf(f, s) = SumOf(h, s)}
<1>1. ASSUME NEW s \in SUBSET S, \A x \in s : s \ {x} \in P
      PROVE  s \in P
  <2>1. /\ SumOf(f, s) = IF s = {} THEN 0 ELSE f[First(s)] + SumOf(f, s \ {First(s)})
        /\ SumOf(h, s) = IF s = {} THEN 0 ELSE h[First(s)] + SumOf(h, s \ {First(s)})
    BY FS_Subset, SumFirst
  <2>2. s # {} => First(s) \in s
    BY DEF First
  <2> QED
    BY <1>1, <2>1, <2>2
<1> HIDE DEF P
<1>2. \A s \in SUBSET S : s \in P
  BY <1>1, SubsetInduction
<1> QED
  BY <1>2 DEF P

\* Any element may be taken out first.
LEMMA SumRemoves ==
    ASSUME NEW S, IsFiniteSet(S), NEW f, \A x \in S : f[x] \in Int
    PROVE  \A s \in SUBSET S : \A x \in s : SumOf(f, s) = f[x] + SumOf(f, s \ {x})
<1> DEFINE P == {s \in SUBSET S : \A x \in s : SumOf(f, s) = f[x] + SumOf(f, s \ {x})}
<1>i. \A s \in SUBSET S : SumOf(f, s) \in Int
  BY SumIsInt
<1>1. ASSUME NEW s \in SUBSET S, \A x \in s : s \ {x} \in P
      PROVE  s \in P
  <2> SUFFICES ASSUME NEW x \in s
               PROVE  SumOf(f, s) = f[x] + SumOf(f, s \ {x})
    OBVIOUS
  <2> DEFINE y == First(s)
  <2>1. y \in s
    BY DEF First
  <2>2. SumOf(f, s) = f[y] + SumOf(f, s \ {y})
    BY FS_Subset, SumFirst
  <2> HIDE DEF y
  <2>3. CASE x = y
    BY <2>2, <2>3
  <2>4. CASE x # y
    <3>1. s \ {x} \in P /\ s \ {y} \in P /\ y \in s \ {x} /\ x \in s \ {y}
      BY <1>1, <2>1, <2>4
    <3>2. /\ SumOf(f, s \ {x}) = f[y] + SumOf(f, (s \ {x}) \ {y})
          /\ SumOf(f, s \ {y}) = f[x] + SumOf(f, (s \ {y}) \ {x})
      BY <3>1
    <3>3. (s \ {x}) \ {y} = (s \ {y}) \ {x}
      OBVIOUS
    <3>4. SumOf(f, (s \ {x}) \ {y}) \in Int /\ f[x] \in Int /\ f[y] \in Int
      BY <1>i, <2>1
    <3>5. ASSUME NEW a \in Int, NEW b \in Int, NEW c \in Int
          PROVE  a + (b + c) = b + (a + c)
      OBVIOUS
    <3>6. SumOf(f, s) = f[y] + (f[x] + SumOf(f, (s \ {x}) \ {y}))
      BY <2>2, <3>2, <3>3
    <3>7. f[y] + (f[x] + SumOf(f, (s \ {x}) \ {y})) = f[x] + (f[y] + SumOf(f, (s \ {x}) \ {y}))
      BY <3>4, <3>5
    <3> QED
      BY <3>2, <3>6, <3>7
  <2> QED
    BY <2>3, <2>4
<1> HIDE DEF P
<1>2. \A s \in SUBSET S : s \in P
  BY <1>1, SubsetInduction
<1> QED
  BY <1>2 DEF P

\* A larger set of numbers that are not negative has no smaller sum.
LEMMA SumGrows ==
    ASSUME NEW S, IsFiniteSet(S), NEW f, \A x \in S : f[x] \in Nat
    PROVE  \A s \in SUBSET S : \A t \in SUBSET s : SumOf(f, t) <= SumOf(f, s)
<1> DEFINE P == {s \in SUBSET S : \A t \in SUBSET s : SumOf(f, t) <= SumOf(f, s)}
<1>n. \A s \in SUBSET S : SumOf(f, s) \in Nat
  BY SumIsNat
<1>1. ASSUME NEW s \in SUBSET S, \A x \in s : s \ {x} \in P
      PROVE  s \in P
  <2> SUFFICES ASSUME NEW t \in SUBSET s
               PROVE  SumOf(f, t) <= SumOf(f, s)
    OBVIOUS
  <2>1. CASE t = s
    BY <1>n, <2>1
  <2>2. CASE t # s
    <3>1. PICK x \in s : x \notin t
      BY <2>2
    <3>2. SumOf(f, t) <= SumOf(f, s \ {x})
      BY <1>1, <3>1
    <3>3. SumOf(f, s) = f[x] + SumOf(f, s \ {x})
      <4>1. \A q \in S : f[q] \in Int
        OBVIOUS
      <4> QED
        BY <3>1, <4>1, SumRemoves
    <3>4. SumOf(f, t) \in Nat /\ SumOf(f, s \ {x}) \in Nat /\ f[x] \in Nat
      <4>1. t \in SUBSET S /\ s \ {x} \in SUBSET S /\ x \in S
        BY <3>1
      <4> QED
        BY <1>n, <4>1
    <3> QED
      BY <3>2, <3>3, <3>4
  <2> QED
    BY <2>1, <2>2
<1> HIDE DEF P
<1>2. \A s \in SUBSET S : s \in P
  BY <1>1, SubsetInduction
<1> QED
  BY <1>2 DEF P
================================================================================
