------------------------------ MODULE Counting ------------------------------
(***************************************************************************)
(* Lemmas about naturals and about counting in finite sets of them, for    *)
(* definitions that pick the n-th element of a set: the slot a new request *)
(* gets in Cluster, the k-th entry that is kept in HttpServer; and how     *)
(* large a union may be: the pages the holders of slots can have.          *)
(***************************************************************************)
EXTENDS Naturals, FiniteSets, WellFoundedInduction, FiniteSetTheorems, TLAPS

\* "Less than" has no infinite descent: what stands for induction below.
LEMMA NatOrder ==
    \E R : /\ IsWellFoundedOn(R, Nat)
           /\ \A x, y \in Nat : y < x => <<y, x>> \in R
<1>1. IsWellFoundedOn(OpToRel(<, Nat), Nat)
  BY NatLessThanWellFounded, Zenon
<1>2. \A x, y \in Nat : y < x => <<y, x>> \in OpToRel(<, Nat)
  BY DEF OpToRel
<1> QED
  BY <1>1, <1>2, Zenon

\* A nonempty set of naturals has a least element.
LEMMA LeastNatural ==
    ASSUME NEW T \in SUBSET Nat, T # {}
    PROVE  \E x \in T : \A y \in T : x <= y
<1>1. PICK R : /\ IsWellFoundedOn(R, Nat)
               /\ \A x, y \in Nat : y < x => <<y, x>> \in R
  BY NatOrder
<1>2. PICK x \in T : \A y \in T : ~(<<y, x>> \in R)
  BY <1>1, WFMin
<1>3. x \in Nat /\ \A y \in T : y \in Nat
  OBVIOUS
<1>4. \A y \in T : ~(y < x)
  BY <1>1, <1>2, <1>3
<1>5. \A y \in T : x <= y
  BY <1>3, <1>4
<1> QED
  BY <1>5

\* Elements of S below k.
Below(S, k) == {f \in S : f < k}

\* A set of positive numbers has an element with exactly n smaller ones, for
\* each n below its size: the least k with more than n elements of S below
\* it comes right after that element.
LEMMA CountTo ==
    ASSUME NEW N \in Nat, NEW S, S \subseteq 1 .. N,
           NEW n \in Nat, n < Cardinality(S)
    PROVE  \E s \in S : Cardinality(Below(S, s)) = n
<1>1. IsFiniteSet(S)
  <2>1. IsFiniteSet(1 .. N)
    BY FS_Interval
  <2> QED
    BY <2>1, FS_Subset
<1>2. \A k : IsFiniteSet(Below(S, k)) /\ Cardinality(Below(S, k)) \in Nat
  <2>1. \A k : Below(S, k) \in SUBSET S
    BY DEF Below
  <2> QED
    BY <1>1, <2>1, FS_Subset, FS_CardinalityType
<1>3. \A f \in S : f \in Nat /\ f < N + 1 /\ ~(f < 0)
  OBVIOUS
<1>4. Below(S, N + 1) = S /\ Below(S, 0) = {}
  BY <1>3 DEF Below
<1> DEFINE T == {k \in Nat : n < Cardinality(Below(S, k))}
<1>5. PICK k \in T : \A j \in T : k <= j
  <2>1. N + 1 \in T
    BY <1>4
  <2>2. T \in SUBSET Nat /\ T # {}
    BY <2>1
  <2> HIDE DEF T
  <2> QED
    BY <2>2, LeastNatural
<1>6. k \in Nat /\ n < Cardinality(Below(S, k))
  OBVIOUS
<1>7. k # 0
  BY <1>4, <1>6, FS_EmptySet
<1>8. k - 1 \in Nat /\ ~(n < Cardinality(Below(S, k - 1)))
  <2>1. k - 1 \in Nat
    BY <1>6, <1>7
  <2>2. k - 1 \notin T
    BY <1>5, <1>6, <2>1
  <2> QED
    BY <2>1, <2>2
<1> HIDE DEF T
<1>9. /\ k - 1 \in S => Below(S, k) = Below(S, k - 1) \cup {k - 1}
      /\ k - 1 \notin S => Below(S, k) = Below(S, k - 1)
      /\ k - 1 \notin Below(S, k - 1)
  <2>1. \A f \in S : f < k <=> f < k - 1 \/ f = k - 1
    BY <1>3, <1>6
  <2>2. k - 1 < k /\ ~(k - 1 < k - 1)
    BY <1>6
  <2> QED
    BY <2>1, <2>2 DEF Below
<1>10. /\ k - 1 \in S =>
            Cardinality(Below(S, k)) = Cardinality(Below(S, k - 1)) + 1
       /\ k - 1 \notin S => Cardinality(Below(S, k)) = Cardinality(Below(S, k - 1))
  BY <1>2, <1>9, FS_AddElement
<1>11. k - 1 \in S /\ Cardinality(Below(S, k - 1)) = n
  BY <1>2, <1>6, <1>8, <1>10
<1> QED
  BY <1>11

\* Two elements have different numbers of smaller ones.
LEMMA PlacesDiffer ==
    ASSUME NEW S \in SUBSET Nat, NEW p \in S, NEW q \in S, p < q
    PROVE  /\ Cardinality(Below(S, p)) \in Nat /\ Cardinality(Below(S, q)) \in Nat
           /\ Cardinality(Below(S, p)) < Cardinality(Below(S, q))
<1>0. \A k \in S : k \in Nat
  OBVIOUS
<1>1. \A k \in S : IsFiniteSet(Below(S, k)) /\ Cardinality(Below(S, k)) \in Nat
  <2> TAKE k \in S
  <2>1. Below(S, k) \in SUBSET Nat /\ k \in Nat /\ \A s \in Below(S, k) : s <= k
    <3>1. \A s \in S : s < k => s <= k
      BY <1>0
    <3> QED
      BY <1>0, <3>1 DEF Below
  <2>2. IsFiniteSet(Below(S, k))
    BY <2>1, FS_BoundedSetOfNaturals
  <2> QED
    BY <2>2, FS_CardinalityType
<1>2. p \notin Below(S, p) /\ Below(S, p) \cup {p} \in SUBSET Below(S, q)
  <2>1. ~(p < p) /\ \A s \in S : s < p => s < q
    BY <1>0
  <2> QED
    BY <2>1 DEF Below
<1>3. Cardinality(Below(S, p) \cup {p}) = Cardinality(Below(S, p)) + 1
  BY <1>1, <1>2, FS_AddElement
<1>4. Cardinality(Below(S, p) \cup {p}) <= Cardinality(Below(S, q))
  BY <1>1, <1>2, FS_Subset
<1> QED
  BY <1>1, <1>3, <1>4

\* The number of smaller elements tells which element it is.
LEMMA SamePlace ==
    ASSUME NEW S \in SUBSET Nat, NEW p \in S, NEW q \in S,
           Cardinality(Below(S, p)) = Cardinality(Below(S, q))
    PROVE  p = q
<1>1. p \in Nat /\ q \in Nat
  OBVIOUS
<1>2. ~(p < q)
  <2> SUFFICES ASSUME p < q PROVE FALSE
    OBVIOUS
  <2>1. /\ Cardinality(Below(S, p)) \in Nat
        /\ Cardinality(Below(S, p)) < Cardinality(Below(S, q))
    BY PlacesDiffer
  <2> QED
    BY <2>1
<1>3. ~(q < p)
  <2> SUFFICES ASSUME q < p PROVE FALSE
    OBVIOUS
  <2>1. /\ Cardinality(Below(S, q)) \in Nat
        /\ Cardinality(Below(S, q)) < Cardinality(Below(S, p))
    BY PlacesDiffer
  <2> QED
    BY <2>1
<1> QED
  BY <1>1, <1>2, <1>3

\* The union of finite sets of at most m elements each is at most as large
\* as their number allows: otherwise a smallest choice of them breaks that,
\* and one set fewer breaks it too.
LEMMA UnionBound ==
    ASSUME NEW S, IsFiniteSet(S), NEW f, NEW m \in Nat,
           \A x \in S : IsFiniteSet(f[x]) /\ Cardinality(f[x]) <= m
    PROVE  /\ IsFiniteSet(UNION {f[x] : x \in S})
           /\ Cardinality(UNION {f[x] : x \in S}) <= Cardinality(S) * m
<1> DEFINE All(T) == UNION {f[x] : x \in T}
           Bound(T) == /\ IsFiniteSet(All(T))
                       /\ Cardinality(All(T)) <= Cardinality(T) * m
           Bad == {n \in Nat : \E T \in SUBSET S : Cardinality(T) = n /\ ~Bound(T)}
<1>1. \A T \in SUBSET S : IsFiniteSet(T) /\ Cardinality(T) \in Nat
  BY FS_Subset, FS_CardinalityType
<1>2. SUFFICES ASSUME ~Bound(S) PROVE FALSE
  OBVIOUS
<1>3. PICK n \in Bad : \A k \in Bad : n <= k
  <2>1. Cardinality(S) \in Bad
    BY <1>1, <1>2
  <2>2. Bad \in SUBSET Nat /\ Bad # {}
    BY <2>1
  <2> HIDE DEF Bad
  <2> QED
    BY <2>2, LeastNatural
<1>4. PICK T \in SUBSET S : Cardinality(T) = n /\ ~Bound(T)
  BY <1>3
<1>5. T # {}
  <2> SUFFICES ASSUME T = {} PROVE FALSE
    OBVIOUS
  <2>1. All(T) = {} /\ Cardinality(T) = 0
    BY FS_EmptySet
  <2>2. IsFiniteSet(All(T)) /\ Cardinality(All(T)) = 0 /\ 0 <= 0 * m
    <3> HIDE DEF All
    <3> QED
      BY <2>1, FS_EmptySet
  <2> HIDE DEF All
  <2> QED
    BY <1>4, <2>1, <2>2
<1>6. PICK x \in T : TRUE
  BY <1>5
<1>7. n \in Nat /\ IsFiniteSet(T \ {x}) /\ Cardinality(T \ {x}) = n - 1 /\ n - 1 \in Nat
  <2>1. IsFiniteSet(T) /\ Cardinality(T) = n /\ n \in Nat
    BY <1>1, <1>4
  <2>2. IsFiniteSet(T \ {x}) /\ Cardinality(T \ {x}) = n - 1
    BY <2>1, <1>6, FS_RemoveElement
  <2>3. Cardinality(T \ {x}) \in Nat
    BY <2>2, FS_CardinalityType
  <2> QED
    BY <2>1, <2>2, <2>3
<1>8. Bound(T \ {x})
  <2>1. n - 1 \notin Bad
    <3>1. ~(n <= n - 1)
      BY <1>7
    <3> HIDE DEF Bad
    <3> QED
      BY <1>3, <3>1
  <2>2. T \ {x} \in SUBSET S
    OBVIOUS
  <2> QED
    BY <1>7, <2>1, <2>2
<1> HIDE DEF Bad
<1>9. All(T) = All(T \ {x}) \cup f[x]
  BY <1>6
<1>10. /\ IsFiniteSet(All(T \ {x})) /\ Cardinality(All(T \ {x})) \in Nat
       /\ Cardinality(All(T \ {x})) <= (n - 1) * m
       /\ IsFiniteSet(f[x]) /\ Cardinality(f[x]) \in Nat /\ Cardinality(f[x]) <= m
  BY <1>6, <1>7, <1>8, FS_CardinalityType
<1> HIDE DEF All
<1>11. /\ IsFiniteSet(All(T))
       /\ Cardinality(All(T)) = Cardinality(All(T \ {x})) + Cardinality(f[x])
                                - Cardinality(All(T \ {x}) \cap f[x])
  BY <1>9, <1>10, FS_Union
<1>12. Cardinality(All(T \ {x}) \cap f[x]) \in Nat
  BY <1>10, FS_Intersection, FS_CardinalityType
<1>13. (n - 1) * m + m = n * m
  BY <1>7
<1>14. (n - 1) * m \in Nat
  BY <1>7
<1>15. Cardinality(All(T)) <= n * m
  BY <1>7, <1>10, <1>11, <1>12, <1>13, <1>14
<1> QED
  BY <1>4, <1>11, <1>15

\* The places of a sequence are as many as its length.
LEMMA IntervalSize ==
    ASSUME NEW n \in Nat
    PROVE  IsFiniteSet(1 .. n) /\ Cardinality(1 .. n) = n
<1>1. 1 \in Int /\ n \in Int
  OBVIOUS
<1>2. IsFiniteSet(1 .. n) /\ Cardinality(1 .. n) = IF 1 > n THEN 0 ELSE n - 1 + 1
  BY <1>1, FS_Interval
<1> QED
  BY <1>2
=============================================================================
