-------------------------- MODULE HttpServerProofs --------------------------
(***************************************************************************)
(* Proofs about HttpServer: for any number of connections, any keys, ids   *)
(* and payloads (shared ones included), any chunks and any limits, a       *)
(* stream is replayed whole and in order, a key has one entry, and the     *)
(* registry only exceeds its limit for a stream that is not finished.      *)
(***************************************************************************)
EXTENDS HttpServer, Counting

-----------------------------------------------------------------------------
(* Sequences.                                                              *)

\* t is s with some elements left out or moved, none repeated.
Picks(t, s) ==
    \E f \in [DOMAIN t -> DOMAIN s] :
        /\ \A k \in DOMAIN t : t[k] = s[f[k]]
        /\ \A j, k \in DOMAIN t : f[j] = f[k] => j = k

LEMMA PicksCompose ==
    ASSUME NEW s, NEW t, NEW u, Picks(t, s), Picks(u, t)
    PROVE  Picks(u, s)
<1>1. PICK f \in [DOMAIN t -> DOMAIN s] :
        /\ \A k \in DOMAIN t : t[k] = s[f[k]]
        /\ \A j, k \in DOMAIN t : f[j] = f[k] => j = k
  BY DEF Picks
<1>2. PICK g \in [DOMAIN u -> DOMAIN t] :
        /\ \A k \in DOMAIN u : u[k] = t[g[k]]
        /\ \A j, k \in DOMAIN u : g[j] = g[k] => j = k
  BY DEF Picks
<1> DEFINE h == [k \in DOMAIN u |-> f[g[k]]]
<1>3. /\ h \in [DOMAIN u -> DOMAIN s]
      /\ \A k \in DOMAIN u : u[k] = s[h[k]]
      /\ \A j, k \in DOMAIN u : h[j] = h[k] => j = k
  BY <1>1, <1>2
<1> QED
  BY <1>3 DEF Picks

\* The positions that Without keeps.
Kept(s, X) == {i \in DOMAIN s : s[i] \notin X}

\* Each of them is at the place of its rank.
LEMMA WithoutPlaces ==
    ASSUME NEW S, NEW s \in Seq(S), NEW X
    PROVE  /\ IsFiniteSet(Kept(s, X)) /\ Cardinality(Kept(s, X)) \in Nat
           /\ \E f \in [1 .. Cardinality(Kept(s, X)) -> Kept(s, X)] :
                 /\ Without(s, X) = [k \in 1 .. Cardinality(Kept(s, X)) |-> s[f[k]]]
                 /\ \A j, k \in 1 .. Cardinality(Kept(s, X)) : f[j] = f[k] => j = k
                 /\ \A i \in Kept(s, X) : \E k \in 1 .. Cardinality(Kept(s, X)) : f[k] = i
<1>0. PICK kept : kept = Kept(s, X)
  OBVIOUS
<1>1. /\ Len(s) \in Nat /\ kept \subseteq 1 .. Len(s)
      /\ kept \in SUBSET Nat
  BY <1>0 DEF Kept
<1>2. IsFiniteSet(kept) /\ Cardinality(kept) \in Nat
  <2>1. IsFiniteSet(1 .. Len(s))
    BY <1>1, FS_Interval
  <2> QED
    BY <1>1, <2>1, FS_Subset, FS_CardinalityType
<1> DEFINE Place(k) == CHOOSE i \in kept : Cardinality({j \in kept : j < i}) = k - 1
           n == Cardinality(kept)
           f == [k \in 1 .. n |-> Place(k)]
<1>3. \A k \in 1 .. n : Place(k) \in kept /\ Cardinality(Below(kept, Place(k))) = k - 1
  <2> TAKE k \in 1 .. n
  <2>1. k - 1 \in Nat /\ k - 1 < Cardinality(kept)
    BY <1>2
  <2>2. \E i \in kept : Cardinality(Below(kept, i)) = k - 1
    BY <1>1, <2>1, CountTo
  <2> QED
    BY <2>2 DEF Below
<1>4. Without(s, X) = [k \in 1 .. n |-> s[f[k]]]
  BY <1>0 DEF Without, Kept
<1>5. \A k \in 1 .. n : f[k] = Place(k)
  OBVIOUS
<1>6. f \in [1 .. n -> kept]
  BY <1>3
<1> HIDE DEF f, Place
<1>7. \A j, k \in 1 .. n : f[j] = f[k] => j = k
  <2> TAKE j, k \in 1 .. n
  <2> HAVE f[j] = f[k]
  <2>1. j - 1 = k - 1
    BY <1>3, <1>5
  <2> QED
    BY <1>2, <2>1
<1>8. \A i \in kept : \E k \in 1 .. n : f[k] = i
  <2> TAKE i \in kept
  <2> DEFINE m == Cardinality(Below(kept, i))
  <2>1. m \in Nat /\ m < n
    <3>1. Below(kept, i) \cup {i} \in SUBSET kept /\ i \notin Below(kept, i)
      <4>1. ~(i < i)
        BY <1>1
      <4> QED
        BY <4>1 DEF Below
    <3>2. IsFiniteSet(Below(kept, i)) /\ m \in Nat
      BY <1>2, <3>1, FS_Subset, FS_CardinalityType
    <3>3. Cardinality(Below(kept, i) \cup {i}) = m + 1
      BY <3>1, <3>2, FS_AddElement
    <3>4. Cardinality(Below(kept, i) \cup {i}) <= n
      BY <1>2, <3>1, FS_Subset
    <3> QED
      BY <1>2, <3>2, <3>3, <3>4
  <2>2. m + 1 \in 1 .. n
    BY <1>2, <2>1
  <2>3. f[m + 1] \in kept /\ Cardinality(Below(kept, f[m + 1])) = m
    BY <1>3, <1>5, <2>1, <2>2
  <2>4. f[m + 1] = i
    <3>1. PICK p : p = f[m + 1]
      OBVIOUS
    <3>2. p \in kept /\ Cardinality(Below(kept, p)) = Cardinality(Below(kept, i))
      BY <2>3, <3>1
    <3>3. p = i
      BY <1>1, <3>2, SamePlace
    <3> QED
      BY <3>1, <3>3
  <2> QED
    BY <2>2, <2>4
<1> QED
  BY <1>0, <1>2, <1>4, <1>6, <1>7, <1>8

\* What Without returns.
LEMMA WithoutKeeps ==
    ASSUME NEW S, NEW s \in Seq(S), NEW X
    PROVE  /\ Without(s, X) \in Seq(S)
           /\ Picks(Without(s, X), s)
           /\ ToSet(Without(s, X)) = ToSet(s) \ X
           /\ IsFiniteSet(Kept(s, X)) /\ Len(Without(s, X)) = Cardinality(Kept(s, X))
<1>0. PICK kept : kept = Kept(s, X)
  OBVIOUS
<1>2. /\ IsFiniteSet(kept) /\ Cardinality(kept) \in Nat
      /\ \E f \in [1 .. Cardinality(kept) -> kept] :
            /\ Without(s, X) = [k \in 1 .. Cardinality(kept) |-> s[f[k]]]
            /\ \A j, k \in 1 .. Cardinality(kept) : f[j] = f[k] => j = k
            /\ \A i \in kept : \E k \in 1 .. Cardinality(kept) : f[k] = i
  BY <1>0, WithoutPlaces
<1> DEFINE n == Cardinality(kept)
<1>1. PICK f \in [1 .. n -> kept] :
        /\ Without(s, X) = [k \in 1 .. n |-> s[f[k]]]
        /\ \A j, k \in 1 .. n : f[j] = f[k] => j = k
        /\ \A i \in kept : \E k \in 1 .. n : f[k] = i
  BY <1>2
<1>3. \A i \in kept : i \in DOMAIN s /\ s[i] \in S /\ s[i] \notin X
  BY <1>0 DEF Kept
<1>4. \A i \in DOMAIN s : s[i] \notin X => i \in kept
  BY <1>0 DEF Kept
<1> DEFINE w == [k \in 1 .. n |-> s[f[k]]]
<1>5. \A k \in 1 .. n : f[k] \in kept
  OBVIOUS
<1>6. w \in Seq(S) /\ DOMAIN w = 1 .. n
  <2>1. n \in Nat /\ \A k \in 1 .. n : s[f[k]] \in S
    BY <1>2, <1>3, <1>5
  <2> HIDE DEF n
  <2>2. w \in [1 .. n -> S]
    BY <2>1
  <2> QED
    BY <2>1, <2>2
<1>7. Picks(w, s)
  <2>1. f \in [DOMAIN w -> DOMAIN s]
    BY <1>3, <1>6
  <2>2. \A k \in DOMAIN w : w[k] = s[f[k]]
    BY <1>6
  <2>3. \A j, k \in DOMAIN w : f[j] = f[k] => j = k
    BY <1>1, <1>6
  <2> QED
    BY <2>1, <2>2, <2>3 DEF Picks
<1>8. ToSet(w) = ToSet(s) \ X
  <2>1. ASSUME NEW x \in ToSet(w) PROVE x \in ToSet(s) \ X
    <3>1. PICK k \in 1 .. n : x = s[f[k]]
      BY <1>6, <2>1 DEF ToSet
    <3> QED
      BY <1>3, <1>5, <3>1 DEF ToSet
  <2>2. ASSUME NEW x \in ToSet(s) \ X PROVE x \in ToSet(w)
    <3>1. PICK i \in DOMAIN s : x = s[i]
      BY <2>2 DEF ToSet
    <3>2. PICK k \in 1 .. n : f[k] = i
      BY <1>1, <1>4, <2>2, <3>1
    <3>3. w[k] = x
      BY <3>1, <3>2
    <3> QED
      BY <1>6, <3>3 DEF ToSet
  <2> QED
    BY <2>1, <2>2
<1> HIDE DEF w
<1>9. Without(s, X) = w
  BY <1>1 DEF w
<1>10. Len(w) = n
  BY <1>2, <1>6
<1> QED
  BY <1>0, <1>2, <1>6, <1>7, <1>8, <1>9, <1>10

\* Elements of the parts and of the concatenation of sequences.
LEMMA SeqParts ==
    ASSUME NEW S, NEW q \in Seq(S), q # <<>>
    PROVE  /\ Len(q) \in Nat /\ Len(q) > 0 /\ Head(q) = q[1]
           /\ Tail(q) \in Seq(S) /\ Len(Tail(q)) = Len(q) - 1
           /\ \A k \in 1 .. Len(q) - 1 : Tail(q)[k] = q[k + 1]
           /\ Front(q) \in Seq(S) /\ Len(Front(q)) = Len(q) - 1
           /\ \A k \in 1 .. Len(q) - 1 : Front(q)[k] = q[k]
<1>1. Len(q) \in Nat /\ Len(q) > 0 /\ Head(q) = q[1]
  OBVIOUS
<1>2. /\ Tail(q) \in Seq(S) /\ Len(Tail(q)) = Len(q) - 1
      /\ \A k \in 1 .. Len(q) - 1 : Tail(q)[k] = q[k + 1]
  OBVIOUS
<1>3. PICK n : n = Len(q) - 1
  OBVIOUS
<1>4. n \in Nat /\ n <= Len(q)
  BY <1>1, <1>3
<1>5. PICK f : f = SubSeq(q, 1, n)
  OBVIOUS
<1>6. f \in Seq(S) /\ Len(f) = n /\ \A k \in 1 .. n : f[k] = q[k]
  BY <1>1, <1>4, <1>5
<1> QED
  BY <1>1, <1>2, <1>3, <1>5, <1>6 DEF Front

LEMMA SeqJoin ==
    ASSUME NEW S, NEW a \in Seq(S), NEW b \in Seq(S)
    PROVE  /\ a \o b \in Seq(S) /\ Len(a \o b) = Len(a) + Len(b)
           /\ \A k \in 1 .. Len(a) : (a \o b)[k] = a[k]
           /\ \A k \in 1 .. Len(b) : (a \o b)[Len(a) + k] = b[k]
           /\ Len(a) \in Nat /\ Len(b) \in Nat
OBVIOUS

LEMMA SeqSame ==
    ASSUME NEW S, NEW a \in Seq(S), NEW b \in Seq(S), Len(a) = Len(b),
           \A k \in 1 .. Len(a) : a[k] = b[k]
    PROVE  a = b
OBVIOUS

\* A prefix and its next element are a prefix, and a prefix as long as the
\* whole is the whole.
LEMMA PrefixGrows ==
    ASSUME NEW S, NEW g \in Seq(S), NEW v \in Seq(S), IsPrefix(g, v)
    PROVE  /\ Len(g) < Len(v) => IsPrefix(Append(g, v[Len(g) + 1]), v)
           /\ Len(g) = Len(v) => g = v
<1>1. /\ Len(g) \in Nat /\ Len(v) \in Nat /\ Len(g) <= Len(v)
      /\ SubSeq(g, 1, Len(g)) = SubSeq(v, 1, Len(g))
  BY DEF IsPrefix
<1>2. \A k \in 1 .. Len(g) : g[k] = v[k]
  <2> TAKE k \in 1 .. Len(g)
  <2>1. SubSeq(g, 1, Len(g))[k] = g[k] /\ SubSeq(v, 1, Len(g))[k] = v[k]
    BY <1>1
  <2> QED
    BY <1>1, <2>1
<1>3. ASSUME Len(g) < Len(v) PROVE IsPrefix(Append(g, v[Len(g) + 1]), v)
  <2>1. PICK h : h = Append(g, v[Len(g) + 1])
    OBVIOUS
  <2>2. v[Len(g) + 1] \in S
    BY <1>1, <1>3
  <2>3. /\ h \in Seq(S) /\ Len(h) = Len(g) + 1
        /\ h[Len(g) + 1] = v[Len(g) + 1]
        /\ \A k \in 1 .. Len(g) : h[k] = g[k]
    BY <1>1, <2>1, <2>2
  <2>4. \A k \in 1 .. Len(h) : h[k] = v[k]
    BY <1>1, <1>2, <2>3
  <2>5. SubSeq(h, 1, Len(h)) = SubSeq(v, 1, Len(h))
    <3>1. SubSeq(h, 1, Len(h)) = [k \in 1 .. Len(h) |-> h[k]]
      BY <1>1, <2>3
    <3>2. SubSeq(v, 1, Len(h)) = [k \in 1 .. Len(h) |-> v[k]]
      BY <1>1, <1>3, <2>3
    <3> QED
      BY <2>4, <3>1, <3>2
  <2>6. Len(h) <= Len(v)
    BY <1>1, <1>3, <2>3
  <2> QED
    BY <2>1, <2>5, <2>6 DEF IsPrefix
<1>4. ASSUME Len(g) = Len(v) PROVE g = v
  BY <1>1, <1>2, <1>4
<1> QED
  BY <1>3, <1>4

\* The stream v is what was sent and what waits in a queue that ends it.
Ending(g, v, q) ==
    /\ g \in Seq(Event) /\ v \in Seq(Event) /\ q \in Seq(Event \cup {"eof"})
    /\ q # <<>> /\ Last(q) = "eof" /\ g \o Front(q) = v

\* If the end of the stream comes next, all events were sent, otherwise the
\* next one is sent in its turn.
LEMMA QueueMoves ==
    ASSUME NEW g, NEW v, NEW q, Ending(g, v, q)
    PROVE  /\ Head(q) = "eof" => Tail(q) = <<>> /\ g = v
           /\ Head(q) # "eof" =>
                /\ Tail(q) # <<>> /\ Last(Tail(q)) = "eof"
                /\ Append(g, Head(q)) \o Front(Tail(q)) = v
                /\ IsPrefix(Append(g, Head(q)), v)
<1> USE DEF Ending
<1>0. PICK S : S = Event \cup {"eof"}
  OBVIOUS
<1>s. q \in Seq(S) /\ g \in Seq(S) /\ v \in Seq(S)
  BY <1>0
<1>1. /\ Len(q) \in Nat /\ Len(q) > 0 /\ q[Len(q)] = "eof" /\ Head(q) = q[1]
      /\ Len(g) \in Nat /\ Len(v) \in Nat
  BY DEF Last
<1>2. PICK f : f = Front(q)
  OBVIOUS
<1>3. /\ f \in Seq(S) /\ Len(f) = Len(q) - 1
      /\ \A k \in 1 .. Len(q) - 1 : f[k] = q[k]
  BY <1>s, <1>2, SeqParts
<1>4. /\ Len(v) = Len(g) + Len(f)
      /\ \A k \in 1 .. Len(g) : v[k] = g[k]
      /\ \A k \in 1 .. Len(f) : v[Len(g) + k] = f[k]
  <2>1. v = g \o f
    BY <1>2
  <2> QED
    BY <1>s, <1>3, <2>1, SeqJoin
<1>5. \A k \in 1 .. Len(q) - 1 : q[k] \in Event
  <2> TAKE k \in 1 .. Len(q) - 1
  <2>1. Len(g) + k \in 1 .. Len(v) /\ v[Len(g) + k] = q[k]
    BY <1>1, <1>3, <1>4
  <2> QED
    BY <1>1, <2>1
<1>6. ASSUME Head(q) = "eof" PROVE Tail(q) = <<>> /\ g = v
  <2>1. "eof" \notin Event
    BY ServerAssumption DEF Event, Output
  <2>2. Len(q) = 1
    <3>1. PICK n : n = Len(q)
      OBVIOUS
    <3>2. n \in Nat /\ n > 0 /\ ~(1 \in 1 .. n - 1)
      BY <1>1, <1>5, <1>6, <2>1, <3>1
    <3>3. n = 1
      BY <3>2
    <3> QED
      BY <3>1, <3>3
  <2>3. Len(f) = 0
    BY <1>3, <2>2
  <2>4. Tail(q) = <<>>
    <3>1. PICK r : r = Tail(q)
      OBVIOUS
    <3>2. r \in Seq(S) /\ Len(r) = 0
      BY <1>s, <2>2, <3>1, SeqParts
    <3>3. r = <<>>
      BY <3>2
    <3> QED
      BY <3>1, <3>3
  <2>5. g = v
    BY <1>s, <1>1, <1>4, <2>3, SeqSame
  <2> QED
    BY <2>4, <2>5
<1>7. ASSUME Head(q) # "eof"
      PROVE  /\ Tail(q) # <<>> /\ Last(Tail(q)) = "eof"
             /\ Append(g, Head(q)) \o Front(Tail(q)) = v
             /\ IsPrefix(Append(g, Head(q)), v)
  <2>1. Len(q) > 1
    BY <1>1, <1>7
  <2>2. PICK r : r = Tail(q)
    OBVIOUS
  <2>3. /\ r \in Seq(S) /\ Len(r) = Len(q) - 1
        /\ \A k \in 1 .. Len(q) - 1 : r[k] = q[k + 1]
    BY <1>s, <2>2, SeqParts
  <2>4. r # <<>> /\ Last(r) = "eof"
    BY <1>1, <2>1, <2>3 DEF Last
  <2>5. PICK h : h = Append(g, Head(q))
    OBVIOUS
  <2>6. Head(q) \in Event
    BY <1>1, <1>5, <2>1
  <2>7. /\ h \in Seq(Event) /\ Len(h) = Len(g) + 1 /\ h[Len(g) + 1] = q[1]
        /\ \A k \in 1 .. Len(g) : h[k] = g[k]
    BY <1>1, <2>5, <2>6
  <2>8. PICK e : e = Front(r)
    OBVIOUS
  <2>9. /\ e \in Seq(S) /\ Len(e) = Len(q) - 2
        /\ \A k \in 1 .. Len(q) - 2 : e[k] = q[k + 1]
    <3>1. /\ e \in Seq(S) /\ Len(e) = Len(r) - 1
          /\ \A k \in 1 .. Len(r) - 1 : e[k] = r[k]
      BY <2>3, <2>4, <2>8, SeqParts
    <3>2. \A k \in 1 .. Len(q) - 2 : k \in 1 .. Len(q) - 1 /\ k \in 1 .. Len(r) - 1
      BY <1>1, <2>1, <2>3
    <3> QED
      BY <1>1, <2>1, <2>3, <3>1, <3>2
  <2>10. \A k \in 1 .. Len(h) : h[k] = v[k]
    <3> TAKE k \in 1 .. Len(h)
    <3>1. CASE k \in 1 .. Len(g)
      BY <1>4, <2>7, <3>1
    <3>2. CASE k = Len(g) + 1
      <4>1. 1 \in 1 .. Len(f) /\ 1 \in 1 .. Len(q) - 1
        BY <1>1, <1>3, <2>1
      <4>2. v[Len(g) + 1] = f[1] /\ f[1] = q[1]
        BY <1>3, <1>4, <4>1
      <4> QED
        BY <2>7, <3>2, <4>2
    <3> QED
      BY <1>1, <2>7, <3>1, <3>2
  <2>11. h \o e = v
    <3>1. PICK w : w = h \o e
      OBVIOUS
    <3>2. /\ w \in Seq(S) /\ Len(w) = Len(h) + Len(e)
          /\ \A k \in 1 .. Len(h) : w[k] = h[k]
          /\ \A k \in 1 .. Len(e) : w[Len(h) + k] = e[k]
      <4>1. h \in Seq(S)
        BY <1>0, <2>7
      <4>2. e \in Seq(S)
        BY <2>9
      <4>3. h \o e \in Seq(S) /\ Len(h \o e) = Len(h) + Len(e)
        BY <4>1, <4>2, SeqJoin
      <4>4. \A k \in 1 .. Len(h) : (h \o e)[k] = h[k]
        BY <4>1, <4>2, SeqJoin
      <4>5. \A k \in 1 .. Len(e) : (h \o e)[Len(h) + k] = e[k]
        BY <4>1, <4>2, SeqJoin
      <4> QED
        BY <3>1, <4>3, <4>4, <4>5
    <3>3. Len(w) = Len(v)
      BY <1>1, <1>3, <1>4, <2>7, <2>9, <3>2
    <3>4. \A k \in 1 .. Len(v) : w[k] = v[k]
      <4> TAKE k \in 1 .. Len(v)
      <4>1. CASE k \in 1 .. Len(h)
        BY <2>10, <3>2, <4>1
      <4>2. CASE k > Len(h)
        <5>1. PICK m : m = k - Len(h)
          OBVIOUS
        <5>2. m \in 1 .. Len(e) /\ k = Len(h) + m /\ m + 1 \in 1 .. Len(f) /\ k = Len(g) + (m + 1)
          BY <1>1, <1>3, <1>4, <2>7, <2>9, <4>2, <5>1
        <5>3. w[k] = e[m] /\ e[m] = q[m + 1] /\ f[m + 1] = q[m + 1]
          BY <1>1, <1>3, <2>9, <3>2, <5>2
        <5>4. v[k] = f[m + 1]
          BY <1>4, <5>2
        <5> QED
          BY <5>3, <5>4
      <4> QED
        BY <1>1, <2>7, <4>1, <4>2
    <3> QED
      BY <1>s, <3>1, <3>2, <3>3, <3>4, SeqSame
  <2>12. IsPrefix(h, v)
    <3>1. Len(h) <= Len(v)
      BY <1>1, <1>3, <1>4, <2>1, <2>7
    <3>2. SubSeq(h, 1, Len(h)) = [k \in 1 .. Len(h) |-> h[k]]
      BY <1>1, <2>7
    <3>3. SubSeq(v, 1, Len(h)) = [k \in 1 .. Len(h) |-> v[k]]
      BY <1>1, <2>7, <3>1
    <3> QED
      BY <2>10, <3>1, <3>2, <3>3 DEF IsPrefix
  <2> QED
    BY <2>2, <2>4, <2>5, <2>8, <2>11, <2>12
<1> QED
  BY <1>6, <1>7

\* A queue that the end of the stream was put in.
Closed(q) == q # <<>> /\ Last(q) = "eof"

LEMMA JoinPrefix ==
    ASSUME NEW S, NEW a \in Seq(S), NEW b \in Seq(S), NEW g \in Seq(S), IsPrefix(g, a)
    PROVE  IsPrefix(g, a \o b)
<1>1. PICK w : w = a \o b
  OBVIOUS
<1>2. /\ w \in Seq(S) /\ Len(w) = Len(a) + Len(b) /\ Len(a) \in Nat /\ Len(b) \in Nat
      /\ \A k \in 1 .. Len(a) : w[k] = a[k]
  BY <1>1, SeqJoin
<1>3. /\ Len(g) \in Nat /\ Len(g) <= Len(a)
      /\ SubSeq(g, 1, Len(g)) = SubSeq(a, 1, Len(g))
  BY DEF IsPrefix
<1>4. SubSeq(a, 1, Len(g)) = [k \in 1 .. Len(g) |-> a[k]]
  BY <1>2, <1>3
<1>5. SubSeq(w, 1, Len(g)) = [k \in 1 .. Len(g) |-> w[k]]
  BY <1>2, <1>3
<1>6. \A k \in 1 .. Len(g) : w[k] = a[k]
  BY <1>2, <1>3
<1>7. Len(g) <= Len(w) /\ SubSeq(g, 1, Len(g)) = SubSeq(w, 1, Len(g))
  BY <1>2, <1>3, <1>4, <1>5, <1>6
<1> QED
  BY <1>1, <1>7 DEF IsPrefix

LEMMA JoinAgain ==
    ASSUME NEW S, NEW a \in Seq(S), NEW b \in Seq(S), NEW c \in Seq(S)
    PROVE  a \o (b \o c) = (a \o b) \o c
<1>1. PICK bc, ab : bc = b \o c /\ ab = a \o b
  OBVIOUS
<1>2. /\ bc \in Seq(S) /\ Len(bc) = Len(b) + Len(c)
      /\ \A k \in 1 .. Len(b) : bc[k] = b[k]
      /\ \A k \in 1 .. Len(c) : bc[Len(b) + k] = c[k]
      /\ Len(a) \in Nat /\ Len(b) \in Nat /\ Len(c) \in Nat
  BY <1>1, SeqJoin
<1>3. /\ ab \in Seq(S) /\ Len(ab) = Len(a) + Len(b)
      /\ \A k \in 1 .. Len(a) : ab[k] = a[k]
      /\ \A k \in 1 .. Len(b) : ab[Len(a) + k] = b[k]
  BY <1>1, SeqJoin
<1>4. PICK l, r : l = a \o bc /\ r = ab \o c
  OBVIOUS
<1>5. /\ l \in Seq(S) /\ Len(l) = Len(a) + Len(bc)
      /\ \A k \in 1 .. Len(a) : l[k] = a[k]
      /\ \A k \in 1 .. Len(bc) : l[Len(a) + k] = bc[k]
  <2>1. bc \in Seq(S) /\ l = a \o bc
    BY <1>2, <1>4
  <2> QED
    BY <2>1, SeqJoin
<1>6. /\ r \in Seq(S) /\ Len(r) = Len(ab) + Len(c)
      /\ \A k \in 1 .. Len(ab) : r[k] = ab[k]
      /\ \A k \in 1 .. Len(c) : r[Len(ab) + k] = c[k]
  <2>1. ab \in Seq(S) /\ r = ab \o c
    BY <1>3, <1>4
  <2> QED
    BY <2>1, SeqJoin
<1>7. \A k \in 1 .. Len(l) : l[k] = r[k]
  <2> TAKE k \in 1 .. Len(l)
  <2>1. CASE k \in 1 .. Len(a)
    <3>1. l[k] = a[k] /\ k \in 1 .. Len(ab)
      BY <1>2, <1>3, <1>5, <2>1
    <3> QED
      BY <1>3, <1>6, <2>1, <3>1
  <2>2. CASE k - Len(a) \in 1 .. Len(b)
    <3>1. PICK m : m = k - Len(a)
      OBVIOUS
    <3>2. m \in 1 .. Len(b) /\ m \in 1 .. Len(bc) /\ k = Len(a) + m /\ k \in 1 .. Len(ab)
      BY <1>2, <1>3, <1>5, <2>2, <3>1
    <3>3. l[k] = b[m]
      BY <1>2, <1>5, <3>2
    <3>4. r[k] = b[m]
      BY <1>3, <1>6, <3>2
    <3> QED
      BY <3>3, <3>4
  <2>3. CASE k - Len(a) - Len(b) \in 1 .. Len(c)
    <3>1. PICK m : m = k - Len(a) - Len(b)
      OBVIOUS
    <3>2. /\ m \in 1 .. Len(c) /\ Len(b) + m \in 1 .. Len(bc)
          /\ k = Len(a) + (Len(b) + m) /\ k = Len(ab) + m
      BY <1>2, <1>3, <1>5, <2>3, <3>1
    <3>3. l[k] = c[m]
      BY <1>2, <1>5, <3>2
    <3>4. r[k] = c[m]
      BY <1>6, <3>2
    <3> QED
      BY <3>3, <3>4
  <2> QED
    BY <1>2, <1>5, <2>1, <2>2, <2>3
<1>8. Len(l) = Len(r)
  BY <1>2, <1>3, <1>5, <1>6
<1>9. l = r
  BY <1>5, <1>6, <1>7, <1>8, SeqSame
<1> QED
  BY <1>1, <1>4, <1>9

\* The stream v is what was sent and what waits in a queue that goes on.
GoesOn(g, v, q) ==
    /\ g \in Seq(Event) /\ v \in Seq(Event) /\ q \in Seq(Event \cup {"eof"})
    /\ ~Closed(q) /\ g \o q = v

\* The next event is sent in its turn, and the queue still goes on.
LEMMA OpenMoves ==
    ASSUME NEW g, NEW v, NEW q, GoesOn(g, v, q), q # <<>>
    PROVE  /\ Head(q) \in Event
           /\ ~Closed(Tail(q))
           /\ Append(g, Head(q)) \o Tail(q) = v
           /\ IsPrefix(Append(g, Head(q)), v)
<1>u. /\ g \in Seq(Event) /\ v \in Seq(Event) /\ q \in Seq(Event \cup {"eof"})
      /\ ~Closed(q) /\ g \o q = v
  BY DEF GoesOn
<1>0. PICK S : S = Event \cup {"eof"}
  OBVIOUS
<1>s. q \in Seq(S) /\ g \in Seq(S) /\ v \in Seq(S)
  BY <1>0, <1>u
<1>1. PICK r : r = Tail(q)
  OBVIOUS
<1>2. /\ Len(q) \in Nat /\ Len(q) > 0 /\ Head(q) = q[1] /\ q[Len(q)] # "eof"
      /\ r \in Seq(S) /\ Len(r) = Len(q) - 1
      /\ \A k \in 1 .. Len(q) - 1 : r[k] = q[k + 1]
  BY <1>s, <1>u, <1>1, SeqParts DEF Closed, Last
<1>3. /\ Len(v) = Len(g) + Len(q) /\ Len(g) \in Nat
      /\ \A k \in 1 .. Len(g) : v[k] = g[k]
      /\ \A k \in 1 .. Len(q) : v[Len(g) + k] = q[k]
  BY <1>s, <1>u, SeqJoin
<1>4. Head(q) \in Event
  <2>1. 1 \in 1 .. Len(q) /\ Len(g) + 1 \in 1 .. Len(v)
    BY <1>2, <1>3
  <2>2. v[Len(g) + 1] = Head(q) /\ v[Len(g) + 1] \in Event
    BY <1>u, <1>2, <1>3, <2>1
  <2> QED
    BY <2>2
<1>5. ~Closed(r)
  <2>1. ASSUME r # <<>> PROVE Last(r) # "eof"
    <3>1. Len(r) \in Nat /\ Len(r) > 0
      BY <1>2, <2>1
    <3>2. Last(r) = q[Len(q)]
      <4>1. Len(r) \in 1 .. Len(q) - 1 /\ Len(r) + 1 = Len(q)
        BY <1>2, <3>1
      <4> QED
        BY <1>2, <4>1 DEF Last
    <3> QED
      BY <1>2, <3>2
  <2> QED
    BY <2>1 DEF Closed
<1>6. PICK h : h = Append(g, Head(q))
  OBVIOUS
<1>7. /\ h \in Seq(S) /\ Len(h) = Len(g) + 1 /\ h[Len(g) + 1] = q[1]
      /\ \A k \in 1 .. Len(g) : h[k] = g[k]
  BY <1>0, <1>s, <1>2, <1>4, <1>6
<1>8. PICK w : w = h \o r
  OBVIOUS
<1>9. /\ w \in Seq(S) /\ Len(w) = Len(h) + Len(r)
      /\ \A k \in 1 .. Len(h) : w[k] = h[k]
      /\ \A k \in 1 .. Len(r) : w[Len(h) + k] = r[k]
  <2>1. r \in Seq(S) /\ h \in Seq(S)
    BY <1>2, <1>7
  <2> QED
    BY <1>8, <2>1, SeqJoin
<1>10. \A k \in 1 .. Len(w) : w[k] = v[k]
  <2> TAKE k \in 1 .. Len(w)
  <2>1. CASE k \in 1 .. Len(g)
    <3>1. k \in 1 .. Len(h)
      BY <1>3, <1>7, <2>1
    <3> QED
      BY <1>3, <1>7, <1>9, <2>1, <3>1
  <2>2. CASE k = Len(g) + 1
    <3>1. k \in 1 .. Len(h) /\ 1 \in 1 .. Len(q)
      BY <1>2, <1>3, <1>7, <2>2
    <3>2. w[k] = q[1]
      BY <1>7, <1>9, <2>2, <3>1
    <3>3. v[k] = q[1]
      BY <1>3, <2>2, <3>1
    <3> QED
      BY <3>2, <3>3
  <2>3. CASE k - Len(h) \in 1 .. Len(r)
    <3>1. PICK m : m = k - Len(h)
      OBVIOUS
    <3>2. m \in 1 .. Len(r) /\ k = Len(h) + m /\ m + 1 \in 1 .. Len(q) /\ k = Len(g) + (m + 1)
      BY <1>2, <1>3, <1>7, <1>9, <2>3, <3>1
    <3>3. w[k] = q[m + 1]
      BY <1>2, <1>9, <3>2
    <3>4. v[k] = q[m + 1]
      BY <1>3, <3>2
    <3> QED
      BY <3>3, <3>4
  <2> QED
    BY <1>2, <1>3, <1>7, <1>9, <2>1, <2>2, <2>3
<1>11. Len(w) = Len(v)
  BY <1>2, <1>3, <1>7, <1>9
<1>12. w = v
  BY <1>s, <1>9, <1>10, <1>11, SeqSame
<1>13. IsPrefix(h, v)
  <2>1. IsPrefix(h, h)
    BY <1>3, <1>7 DEF IsPrefix
  <2>2. IsPrefix(h, h \o r)
    BY <1>2, <1>7, <2>1, JoinPrefix
  <2> QED
    BY <1>8, <1>12, <2>2
<1> QED
  BY <1>1, <1>4, <1>5, <1>6, <1>8, <1>12, <1>13

\* What is published comes last, with or without the end of the stream.
LEMMA QueuePublished ==
    ASSUME NEW g, NEW v, NEW q, GoesOn(g, v, q), NEW es \in Seq(Event), es # <<>>
    PROVE  /\ ~Closed(q \o es) /\ g \o (q \o es) = v \o es
           /\ Closed(q \o (es \o <<"eof">>))
           /\ g \o Front(q \o (es \o <<"eof">>)) = v \o es
<1>u. /\ g \in Seq(Event) /\ v \in Seq(Event) /\ q \in Seq(Event \cup {"eof"})
      /\ ~Closed(q) /\ g \o q = v
  BY DEF GoesOn
<1>0. PICK S : S = Event \cup {"eof"}
  OBVIOUS
<1>s. /\ q \in Seq(S) /\ g \in Seq(S) /\ v \in Seq(S) /\ es \in Seq(S)
      /\ <<"eof">> \in Seq(S)
  BY <1>0, <1>u
<1>1. PICK r : r = q \o es
  OBVIOUS
<1>2. /\ r \in Seq(S) /\ Len(r) = Len(q) + Len(es) /\ Len(q) \in Nat /\ Len(es) \in Nat
      /\ \A k \in 1 .. Len(es) : r[Len(q) + k] = es[k]
  BY <1>s, <1>1, SeqJoin
<1>3. g \o r = v \o es
  <2>1. g \o (q \o es) = (g \o q) \o es
    BY <1>s, JoinAgain
  <2> QED
    BY <1>u, <1>1, <2>1
<1>4. ~Closed(r)
  <2>1. Len(es) > 0 /\ es[Len(es)] \in Event
    OBVIOUS
  <2>2. Len(es) \in 1 .. Len(es)
    BY <1>2, <2>1
  <2>3. Last(r) = es[Len(es)]
    BY <1>2, <2>2 DEF Last
  <2>4. "eof" \notin Event
    BY ServerAssumption DEF Event, Output
  <2> QED
    BY <2>1, <2>3, <2>4 DEF Closed
<1>5. PICK z : z = q \o (es \o <<"eof">>)
  OBVIOUS
<1>6. z = r \o <<"eof">>
  BY <1>s, <1>1, <1>5, JoinAgain
<1>7. /\ z \in Seq(S) /\ Len(z) = Len(r) + 1 /\ Len(r) \in Nat /\ z[Len(r) + 1] = "eof"
      /\ \A k \in 1 .. Len(r) : z[k] = r[k]
  <2>1. Len(<<"eof">>) = 1 /\ <<"eof">>[1] = "eof"
    OBVIOUS
  <2>2. /\ z \in Seq(S) /\ Len(z) = Len(r) + Len(<<"eof">>) /\ Len(r) \in Nat
        /\ \A k \in 1 .. Len(r) : z[k] = r[k]
        /\ \A k \in 1 .. Len(<<"eof">>) : z[Len(r) + k] = <<"eof">>[k]
    BY <1>s, <1>2, <1>6, SeqJoin
  <2> QED
    BY <2>1, <2>2
<1>8. Closed(z)
  BY <1>7 DEF Closed, Last
<1>9. Front(z) = r
  <2>1. PICK f : f = Front(z)
    OBVIOUS
  <2>2. f \in Seq(S) /\ Len(f) = Len(z) - 1 /\ \A k \in 1 .. Len(z) - 1 : f[k] = z[k]
    BY <1>7, <1>8, <2>1, SeqParts DEF Closed
  <2>3. Len(f) = Len(r) /\ \A k \in 1 .. Len(f) : f[k] = r[k]
    BY <1>7, <2>2
  <2> QED
    BY <1>2, <2>1, <2>2, <2>3, SeqSame
<1> QED
  BY <1>1, <1>3, <1>4, <1>5, <1>8, <1>9

-----------------------------------------------------------------------------
(* The registry.                                                           *)

\* Within the limit, or waiting for a stream that is not finished.
Bounded(es, done) == Len(es) <= MaxEntries \/ ToSet(es) \ done # {}

\* Where Trim stops.
TrimRest(es, n) == SubSeq(es, n + 1, Len(es))
TrimStops(es, ev, done, n) ==
    \/ n = Len(es)
    \/ ~(Len(TrimRest(es, n)) > MaxEntries \/ NumEvents(TrimRest(es, n), ev) > MaxEvents)
    \/ es[n + 1] \notin done

LEMMA TrimAt ==
    ASSUME NEW S, NEW es \in Seq(S), NEW ev, NEW done
    PROVE  \E n \in 0 .. Len(es) : /\ TrimStops(es, ev, done, n)
                                   /\ Trim(es, ev, done) = TrimRest(es, n)
<1> DEFINE T == {n \in 0 .. Len(es) : TrimStops(es, ev, done, n)}
<1>1. Len(es) \in Nat
  OBVIOUS
<1>2. Len(es) \in T
  BY <1>1 DEF TrimStops
<1>3. T \in SUBSET Nat /\ T # {}
  BY <1>1, <1>2
<1>4. PICK n \in T : \A k \in T : n <= k
  <2> HIDE DEF T
  <2> QED
    BY <1>3, LeastNatural
<1>5. n \in 0 .. Len(es) /\ TrimStops(es, ev, done, n)
  OBVIOUS
<1>6. \A k \in 0 .. n - 1 : ~TrimStops(es, ev, done, k)
  <2> TAKE k \in 0 .. n - 1
  <2>1. k \in 0 .. Len(es) /\ ~(n <= k)
    BY <1>1, <1>5
  <2> QED
    BY <1>4, <2>1
<1> HIDE DEF T
<1> DEFINE P(x) == /\ TrimStops(es, ev, done, x)
                   /\ \A k \in 0 .. x - 1 : ~TrimStops(es, ev, done, k)
<1>7. Trim(es, ev, done) = TrimRest(es, CHOOSE x \in 0 .. Len(es) : P(x))
  BY DEF Trim, TrimStops, TrimRest
<1>8. P(n)
  BY <1>5, <1>6
<1> HIDE DEF P
<1>9. PICK x : x = CHOOSE y \in 0 .. Len(es) : P(y)
  OBVIOUS
<1>10. x \in 0 .. Len(es) /\ P(x)
  BY <1>5, <1>8, <1>9
<1> QED
  BY <1>7, <1>9, <1>10 DEF P

\* _evict keeps entries of the registry, and stops within the limit or at a
\* stream that is not finished.
LEMMA TrimKeeps ==
    ASSUME NEW S, NEW es \in Seq(S), NEW ev, NEW done
    PROVE  /\ Trim(es, ev, done) \in Seq(S)
           /\ Picks(Trim(es, ev, done), es)
           /\ Bounded(Trim(es, ev, done), done)
<1>1. PICK n \in 0 .. Len(es) : /\ TrimStops(es, ev, done, n)
                                /\ Trim(es, ev, done) = TrimRest(es, n)
  BY TrimAt
<1>2. PICK t : t = Trim(es, ev, done)
  OBVIOUS
<1>3. Len(es) \in Nat /\ n \in Nat /\ n <= Len(es)
  OBVIOUS
<1>4. /\ t \in Seq(S) /\ Len(t) = Len(es) - n
      /\ DOMAIN t = 1 .. (Len(es) - n)
      /\ \A k \in 1 .. (Len(es) - n) : t[k] = es[n + k]
  <2>1. t = SubSeq(es, n + 1, Len(es))
    BY <1>1, <1>2 DEF TrimRest
  <2> QED
    BY <1>3, <2>1
<1>5. Picks(t, es)
  <2> DEFINE f == [k \in DOMAIN t |-> n + k]
  <2>1. f \in [DOMAIN t -> DOMAIN es]
    <3>1. \A k \in 1 .. (Len(es) - n) : n + k \in DOMAIN es
      BY <1>3
    <3> QED
      BY <1>4, <3>1
  <2>2. \A k \in DOMAIN t : t[k] = es[f[k]]
    BY <1>4
  <2>3. \A j, k \in DOMAIN t : f[j] = f[k] => j = k
    BY <1>3, <1>4
  <2> HIDE DEF f
  <2> QED
    BY <2>1, <2>2, <2>3 DEF Picks
<1>6. Bounded(t, done)
  <2>1. CASE n = Len(es)
    <3>1. Len(t) = 0
      BY <1>3, <1>4, <2>1
    <3> QED
      BY <3>1, ServerAssumption DEF Bounded
  <2>2. CASE ~(Len(TrimRest(es, n)) > MaxEntries \/ NumEvents(TrimRest(es, n), ev) > MaxEvents)
    <3>1. ~(Len(t) > MaxEntries)
      BY <1>1, <1>2, <2>2
    <3> QED
      BY <1>3, <1>4, <3>1, ServerAssumption DEF Bounded
  <2>3. CASE n # Len(es) /\ es[n + 1] \notin done
    <3>1. 1 \in DOMAIN t /\ t[1] = es[n + 1]
      BY <1>3, <1>4, <2>3
    <3>2. t[1] \in ToSet(t) \ done
      BY <2>3, <3>1 DEF ToSet
    <3> QED
      BY <3>2 DEF Bounded
  <2> QED
    BY <1>1, <2>1, <2>2, <2>3 DEF TrimStops
<1> QED
  BY <1>2, <1>4, <1>5, <1>6

LEMMA EvictKeeps ==
    ASSUME NEW S, NEW es \in Seq(S), NEW ev, NEW done, NEW expired
    PROVE  /\ Evict(es, ev, done, expired) \in Seq(S)
           /\ Picks(Evict(es, ev, done, expired), es)
           /\ Bounded(Evict(es, ev, done, expired), done)
<1>1. PICK w : w = Without(es, done \cap expired)
  OBVIOUS
<1>2. w \in Seq(S) /\ Picks(w, es)
  BY <1>1, WithoutKeeps
<1>3. /\ Trim(w, ev, done) \in Seq(S)
      /\ Picks(Trim(w, ev, done), w)
      /\ Bounded(Trim(w, ev, done), done)
  BY <1>2, TrimKeeps
<1>4. Picks(Trim(w, ev, done), es)
  BY <1>2, <1>3, PicksCompose
<1> QED
  BY <1>1, <1>3, <1>4 DEF Evict

\* A key has one entry in es.
OneEach(es) == \A i, j \in DOMAIN es : req[es[i]].key = req[es[j]].key => i = j

LEMMA PicksOneEach ==
    ASSUME NEW es, NEW t, OneEach(es), Picks(t, es)
    PROVE  OneEach(t)
BY DEF OneEach, Picks

\* move_to_end keeps the entries and their number.
LEMMA MovedKeeps ==
    ASSUME NEW S, NEW es \in Seq(S), OneEach(es), NEW e \in ToSet(es)
    PROVE  /\ Moved(es, e) \in Seq(S)
           /\ OneEach(Moved(es, e))
           /\ ToSet(Moved(es, e)) = ToSet(es)
           /\ Len(Moved(es, e)) = Len(es)
<1>1. PICK w : w = Without(es, {e})
  OBVIOUS
<1>2. w \in Seq(S) /\ Picks(w, es) /\ ToSet(w) = ToSet(es) \ {e}
  BY <1>1, WithoutKeeps
<1>3. e \in S
  BY DEF ToSet
<1>4. PICK m : m = Append(w, e)
  OBVIOUS
<1>5. /\ m \in Seq(S) /\ Len(m) = Len(w) + 1 /\ Len(w) \in Nat
      /\ DOMAIN m = 1 .. Len(w) + 1 /\ DOMAIN w = 1 .. Len(w)
      /\ m[Len(w) + 1] = e
      /\ \A k \in 1 .. Len(w) : m[k] = w[k]
  BY <1>2, <1>3, <1>4
<1>6. ToSet(m) = ToSet(w) \cup {e}
  <2>1. \A k \in DOMAIN m : m[k] \in ToSet(w) \cup {e}
    BY <1>5 DEF ToSet
  <2>2. \A k \in DOMAIN w : k \in DOMAIN m /\ m[k] = w[k]
    BY <1>5
  <2>3. Len(w) + 1 \in DOMAIN m
    BY <1>5
  <2> QED
    BY <1>5, <2>1, <2>2, <2>3 DEF ToSet
<1>7. ToSet(m) = ToSet(es)
  BY <1>2, <1>6
<1>8. OneEach(m)
  <2>1. OneEach(w)
    BY <1>2, PicksOneEach
  <2>2. \A k \in DOMAIN w : w[k] # e /\ req[w[k]].key # req[e].key
    <3> TAKE k \in DOMAIN w
    <3>1. w[k] \in ToSet(es) /\ w[k] # e
      BY <1>2 DEF ToSet
    <3>2. PICK i \in DOMAIN es : es[i] = w[k]
      BY <3>1 DEF ToSet
    <3>3. PICK j \in DOMAIN es : es[j] = e
      BY DEF ToSet
    <3> QED
      BY <3>1, <3>2, <3>3 DEF OneEach
  <2>3. ASSUME NEW i \in DOMAIN m, NEW j \in DOMAIN m,
               req[m[i]].key = req[m[j]].key
        PROVE  i = j
    <3>1. CASE i \in DOMAIN w /\ j \in DOMAIN w
      BY <1>5, <2>1, <2>3, <3>1 DEF OneEach
    <3>2. CASE i \notin DOMAIN w /\ j \notin DOMAIN w
      BY <1>5, <3>2
    <3>3. CASE i \in DOMAIN w /\ j \notin DOMAIN w
      <4>1. j = Len(w) + 1 /\ m[j] = e /\ m[i] = w[i]
        BY <1>5, <3>3
      <4> QED
        BY <2>2, <2>3, <3>3, <4>1
    <3>4. CASE i \notin DOMAIN w /\ j \in DOMAIN w
      <4>1. i = Len(w) + 1 /\ m[i] = e /\ m[j] = w[j]
        BY <1>5, <3>4
      <4> QED
        BY <2>2, <2>3, <3>4, <4>1
    <3> QED
      BY <3>1, <3>2, <3>3, <3>4
  <2> QED
    BY <2>3 DEF OneEach
<1>9. Len(m) = Len(es)
  <2>1. PICK kept : kept = Kept(es, {e})
    OBVIOUS
  <2>2. IsFiniteSet(kept) /\ Len(w) = Cardinality(kept)
    BY <1>1, <2>1, WithoutKeeps
  <2>3. PICK p \in DOMAIN es : es[p] = e
    BY DEF ToSet
  <2>4. \A i \in DOMAIN es : es[i] = e => i = p
    BY <2>3 DEF OneEach
  <2>5. p \notin kept /\ kept \cup {p} = 1 .. Len(es)
    BY <2>1, <2>3, <2>4 DEF Kept
  <2>6. Cardinality(kept \cup {p}) = Cardinality(kept) + 1
    BY <2>2, <2>5, FS_AddElement
  <2>7. Len(es) \in Nat /\ Cardinality(1 .. Len(es)) = Len(es)
    <3>1. Len(es) \in Nat
      OBVIOUS
    <3> QED
      BY <3>1, IntervalSize, Zenon
  <2> QED
    BY <1>5, <2>2, <2>5, <2>6, <2>7
<1> QED
  BY <1>1, <1>4, <1>5, <1>7, <1>8, <1>9 DEF Moved

-----------------------------------------------------------------------------
(* The inductive invariant.                                                *)

Conns == {"new", "direct", "starting", "reading", "subscribed", "done", "refused", "gone"}

Types ==
    /\ conn \in [Clients -> Conns]
    /\ ent \in [Clients -> Clients \cup {None}]
    /\ got \in [Clients -> Seq(Event)] /\ events \in [Clients -> Seq(Event)]
    /\ subq \in [Clients -> Seq(Event \cup {"eof"})]
    /\ complete \subseteq Clients
    /\ subs \in [Clients -> SUBSET Clients]
    /\ task \in [Clients -> {"none", "start", "wait", "over"}]
    /\ outq \in [Clients -> Seq(Output)]
    /\ passes \in [Clients -> Nat]

Registry == reg \in Seq(Clients) /\ OneEach(reg) /\ Bounded(reg, complete)

\* A finished stream has no producer any more, and a connection that has not
\* acquired an entry has none yet.
Producing(c) ==
    /\ c \in complete => task[c] = "over"
    /\ conn[c] \in {"new", "starting"} => task[c] = "none"

\* Who reads an entry, and who waits for the rest of it.
Reads(c) ==
    /\ conn[c] \in {"new", "starting"} => got[c] = <<>>
    /\ conn[c] = "starting" => c \in Keyed
    /\ ent[c] # None => c \in Keyed /\ conn[c] \in {"reading", "subscribed", "done"}
    /\ conn[c] \in {"reading", "subscribed"} => ent[c] # None
    /\ \A e \in Clients : c \in subs[e] <=> conn[c] = "subscribed" /\ ent[c] = e

\* Only a subscriber has anything queued, and the end of the stream is put in
\* its queue when the stream is finished.
Queued(c) ==
    /\ subq[c] # <<>> => conn[c] = "subscribed"
    /\ conn[c] = "subscribed" => (ent[c] \in complete <=> Closed(subq[c]))

\* StreamFaithful for one connection.
Faithful(c) ==
    ent[c] # None =>
        /\ IsPrefix(got[c], events[ent[c]])
        /\ conn[c] = "subscribed" => got[c] \o Pending(c) = events[ent[c]]
        /\ conn[c] = "done" => got[c] = events[ent[c]] /\ ent[c] \in complete

Served(c) == Producing(c) /\ Reads(c) /\ Queued(c) /\ Faithful(c)

Replays == Types /\ Registry /\ \A c \in Clients : Served(c)

-----------------------------------------------------------------------------
(* Types.                                                                  *)

LEMMA InitReplays == Init => Replays
<1> SUFFICES ASSUME Init PROVE Replays
  OBVIOUS
<1>1. Types
  BY DEF Init, Types, Conns
<1>2. Registry
  <2>1. reg = <<>> /\ reg \in Seq(Clients) /\ Len(reg) = 0 /\ DOMAIN reg = {}
    BY DEF Init
  <2> QED
    BY <2>1, ServerAssumption DEF Registry, OneEach, Bounded
<1>3. \A c \in Clients : Served(c)
  BY DEF Init, Served, Producing, Reads, Queued, Faithful
<1> QED
  BY <1>1, <1>2, <1>3 DEF Replays

\* What acquire does: it refuses, or the connection reads an entry of its key.
LEMMA AcquireEntry ==
    ASSUME Registry, NEW c \in Clients, Producing(c), NEW x, Acquire(c, x)
    PROVE  /\ reg' \in Seq(Clients) /\ OneEach(reg)' /\ Bounded(reg, complete)'
           /\ \/ /\ conn' = [conn EXCEPT ![c] = "refused"]
                 /\ got' = [got EXCEPT ![c] = <<"error">>]
                 /\ UNCHANGED <<ent, task>>
              \/ \E e \in Clients :
                 /\ conn' = [conn EXCEPT ![c] = "reading"]
                 /\ ent' = [ent EXCEPT ![c] = e] /\ got' = got
                 /\ task' \in {task, [task EXCEPT ![c] = "start"]}
<1> DEFINE K(s) == \E y \in ToSet(s) : req[y].key = req[c].key
           C(s) == IF K(s) THEN CHOOSE y \in ToSet(s) : req[y].key = req[c].key ELSE None
<1>1. PICK es : es = Evict(reg, events, complete, x)
  OBVIOUS
<1>2. /\ es \in Seq(Clients) /\ Bounded(es, complete) /\ OneEach(es)
  BY <1>1, EvictKeeps, PicksOneEach DEF Registry
<1>3. PICK e : e = C(es)
  OBVIOUS
<1>4. K(es) => e \in ToSet(es) /\ e \in Clients /\ e # None
  <2>1. ToSet(es) \subseteq Clients
    BY <1>2 DEF ToSet
  <2>2. K(es) => e \in ToSet(es)
    BY <1>3
  <2> QED
    BY <2>1, <2>2, ServerAssumption
<1>5. ~K(es) => e = None
  BY <1>3
<1>6. /\ conn[c] = "starting" /\ req' = req /\ complete' = complete
      /\ \/ /\ e # None
            /\ got' = [got EXCEPT ![c] = <<"error">>]
            /\ conn' = [conn EXCEPT ![c] = "refused"]
            /\ reg' = es /\ UNCHANGED <<ent, task>>
         \/ /\ e # None
            /\ reg' = Moved(es, e) /\ ent' = [ent EXCEPT ![c] = e]
            /\ conn' = [conn EXCEPT ![c] = "reading"]
            /\ UNCHANGED <<got, task>>
         \/ /\ e = None
            /\ reg' = Append(es, c) /\ ent' = [ent EXCEPT ![c] = c]
            /\ conn' = [conn EXCEPT ![c] = "reading"]
            /\ task' = [task EXCEPT ![c] = "start"] /\ UNCHANGED got
  BY <1>1, <1>3 DEF Acquire
<1> HIDE DEF K, C
<1>7. reg' \in Seq(Clients) /\ OneEach(reg)' /\ Bounded(reg, complete)'
  <2>1. CASE reg' = es
    BY <1>2, <1>6, <2>1 DEF OneEach, Bounded
  <2>2. CASE e # None /\ reg' = Moved(es, e)
    <3>1. K(es) /\ e \in ToSet(es)
      BY <1>4, <1>5, <2>2
    <3>2. /\ reg' \in Seq(Clients) /\ OneEach(reg') /\ ToSet(reg') = ToSet(es) /\ Len(reg') = Len(es)
      BY <1>2, <2>2, <3>1, MovedKeeps
    <3> QED
      BY <1>2, <1>6, <3>2 DEF OneEach, Bounded
  <2>3. CASE e = None /\ reg' = Append(es, c)
    <3>1. ~K(es)
      BY <1>4, <2>3
    <3>2. \A i \in DOMAIN es : req[es[i]].key # req[c].key
      BY <3>1 DEF K, ToSet
    <3>3. PICK r : r = Append(es, c)
      OBVIOUS
    <3>4. /\ r \in Seq(Clients) /\ Len(es) \in Nat /\ DOMAIN es = 1 .. Len(es)
          /\ DOMAIN r = 1 .. Len(es) + 1 /\ r[Len(es) + 1] = c
          /\ \A k \in 1 .. Len(es) : r[k] = es[k]
      BY <1>2, <3>3
    <3>5. OneEach(r)
      <4>1. ASSUME NEW i \in DOMAIN r, NEW j \in DOMAIN r,
                   req[r[i]].key = req[r[j]].key
            PROVE  i = j
        <5>1. CASE i \in DOMAIN es /\ j \in DOMAIN es
          BY <1>2, <3>4, <4>1, <5>1 DEF OneEach
        <5>2. CASE i \notin DOMAIN es /\ j \notin DOMAIN es
          BY <3>4, <5>2
        <5>3. CASE i \in DOMAIN es /\ j \notin DOMAIN es
          <6>1. r[i] = es[i] /\ r[j] = c
            BY <3>4, <5>3
          <6> QED
            BY <3>2, <4>1, <5>3, <6>1
        <5>4. CASE i \notin DOMAIN es /\ j \in DOMAIN es
          <6>1. r[i] = c /\ r[j] = es[j]
            BY <3>4, <5>4
          <6> QED
            BY <3>2, <4>1, <5>4, <6>1
        <5> QED
          BY <5>1, <5>2, <5>3, <5>4
      <4> QED
        BY <4>1 DEF OneEach
    <3>6. c \in ToSet(r) /\ c \notin complete
      <4>1. Len(es) + 1 \in DOMAIN r
        BY <3>4
      <4> QED
        BY <1>6, <3>4, <4>1 DEF ToSet, Producing
    <3> QED
      BY <1>6, <2>3, <3>3, <3>4, <3>5, <3>6 DEF OneEach, Bounded
  <2> QED
    BY <1>6, <2>1, <2>2, <2>3
<1>8. e # None => e \in Clients
  BY <1>4, <1>5
<1> QED
  BY <1>6, <1>7, <1>8

\* A reader of an entry has one.
LEMMA ReadsEntry ==
    ASSUME Types, NEW c \in Clients, Reads(c), conn[c] \in {"reading", "subscribed"}
    PROVE  ent[c] \in Clients
BY DEF Types, Reads

LEMMA TypesStep ==
    ASSUME Replays, [Next]_vars
    PROVE  Types'
<1> USE DEF Types
<1>0. Types /\ Registry /\ \A c \in Clients : Producing(c) /\ Reads(c)
  BY DEF Replays, Served
<1>a. \A s \in Seq(Output) : Append(s, "text") \in Seq(Output) /\ Append(s, "error") \in Seq(Output)
  BY DEF Output
<1>b. Output \subseteq Event /\ "DONE" \in Event
  BY DEF Event
<1>1. CASE UNCHANGED vars
  BY <1>0, <1>1 DEF vars, httpVars, engineVars
<1>2. ASSUME NEW c \in Clients, Connect(c) PROVE Types'
  <2>1. conn' \in [Clients -> Conns]
    <3>1. \A v \in Conns : [conn EXCEPT ![c] = v] \in [Clients -> Conns]
      BY <1>0
    <3> QED
      BY <1>2, <3>1 DEF Connect, Conns
  <2>2. task' \in [Clients -> {"none", "start", "wait", "over"}]
    BY <1>0, <1>2 DEF Connect
  <2> QED
    BY <1>0, <1>2, <2>1, <2>2 DEF Connect, engineVars
<1>3. ASSUME NEW c \in Clients, NEW x, Acquire(c, x) PROVE Types'
  <2>1. conn' \in [Clients -> Conns]
    BY <1>0, <1>3 DEF Acquire, Conns
  <2>2. task' \in [Clients -> {"none", "start", "wait", "over"}]
    BY <1>0, <1>3 DEF Acquire
  <2>3. got' \in [Clients -> Seq(Event)]
    <3>1. <<"error">> \in Seq(Event)
      BY DEF Event, Output
    <3> QED
      BY <1>0, <1>3, <3>1 DEF Acquire
  <2>4. ent' \in [Clients -> Clients \cup {None}]
    <3>1. ent' = ent \/ \E e \in Clients : ent' = [ent EXCEPT ![c] = e]
      BY <1>0, <1>3, AcquireEntry
    <3> QED
      BY <1>0, <3>1
  <2> QED
    BY <1>0, <1>3, <2>1, <2>2, <2>3, <2>4 DEF Acquire, engineVars
<1>4. ASSUME NEW c \in Clients, ReadEvent(c) PROVE Types'
  <2>1. /\ Len(got[c]) \in Nat /\ Len(events[ent[c]]) \in Nat
        /\ Len(got[c]) < Len(events[ent[c]]) /\ ent[c] \in Clients
    BY <1>0, <1>4, ReadsEntry DEF ReadEvent
  <2>2. events[ent[c]][Len(got[c]) + 1] \in Event
    BY <1>0, <2>1
  <2> QED
    BY <1>0, <1>4, <2>2 DEF ReadEvent, engineVars
<1>5. ASSUME NEW c \in Clients, Subscribe(c) PROVE Types'
  BY <1>0, <1>5 DEF Subscribe, Conns, engineVars
<1>6. ASSUME NEW c \in Clients, SubscriberGets(c) PROVE Types'
  <2>1. /\ Head(subq[c]) \in Event \cup {"eof"}
        /\ Tail(subq[c]) \in Seq(Event \cup {"eof"})
    BY <1>0, <1>6 DEF SubscriberGets
  <2>2. subq' \in [Clients -> Seq(Event \cup {"eof"})]
    BY <1>0, <1>6, <2>1 DEF SubscriberGets
  <2>3. conn' \in [Clients -> Conns] /\ subs' \in [Clients -> SUBSET Clients]
    <3>1. [subs EXCEPT ![ent[c]] = @ \ {c}] \in [Clients -> SUBSET Clients]
      BY <1>0
    <3> QED
      BY <1>0, <1>6, <3>1 DEF SubscriberGets, Conns
  <2>4. got' \in [Clients -> Seq(Event)]
    <3>1. Head(subq[c]) # "eof" => Append(got[c], Head(subq[c])) \in Seq(Event)
      BY <1>0, <2>1
    <3> QED
      BY <1>0, <1>6, <3>1 DEF SubscriberGets
  <2>5. UNCHANGED <<req, ent, reg, events, complete, task, engineVars>>
    BY <1>6 DEF SubscriberGets
  <2> QED
    BY <1>0, <2>2, <2>3, <2>4, <2>5 DEF engineVars
<1>7. ASSUME NEW c \in Clients, Submit(c) PROVE Types'
  <2>1. outq' \in [Clients -> Seq(Output)]
    BY <1>0, <1>a, <1>7 DEF Submit
  <2> QED
    BY <1>0, <1>7, <2>1 DEF Submit, httpVars
<1>8. ASSUME NEW c \in Clients, NEW x, TakeOutput(c, x) PROVE Types'
  <2>1. PICK es : es = <<Head(outq[c]), "DONE">>
    OBVIOUS
  <2>2. es \in Seq(Event) /\ Tail(outq[c]) \in Seq(Output)
    <3>1. Head(outq[c]) \in Output /\ Tail(outq[c]) \in Seq(Output)
      BY <1>0, <1>8 DEF TakeOutput
    <3> QED
      BY <1>b, <2>1, <3>1
  <2>3. /\ outq' \in [Clients -> Seq(Output)]
        /\ task' \in [Clients -> {"none", "start", "wait", "over"}]
        /\ ent' = ent /\ subs' = subs /\ passes' = passes
    BY <1>0, <1>8, <2>2 DEF TakeOutput
  <2>4. CASE c \in Keyed
    <3>1. /\ events' = [events EXCEPT ![c] = @ \o es]
          /\ subq' = [s \in Clients |-> IF s \in subs[c] THEN subq[s] \o (es \o <<"eof">>) ELSE subq[s]]
          /\ complete' = complete \cup {c} /\ conn' = conn /\ got' = got
      BY <1>8, <2>1, <2>4 DEF TakeOutput, Finish, ToSubscribers
    <3>2. events' \in [Clients -> Seq(Event)]
      BY <1>0, <2>2, <3>1
    <3>3. subq' \in [Clients -> Seq(Event \cup {"eof"})]
      <4>1. es \in Seq(Event \cup {"eof"}) /\ <<"eof">> \in Seq(Event \cup {"eof"})
        BY <2>2
      <4>2. \A s \in Clients : subq[s] \o (es \o <<"eof">>) \in Seq(Event \cup {"eof"})
        BY <1>0, <4>1
      <4> QED
        BY <1>0, <3>1, <4>2
    <3> QED
      BY <1>0, <2>3, <3>1, <3>2, <3>3
  <2>5. CASE c \notin Keyed
    <3>1. /\ got' = [got EXCEPT ![c] = @ \o es] /\ conn' = [conn EXCEPT ![c] = "done"]
          /\ UNCHANGED <<events, subq, complete, reg>>
      BY <1>8, <2>1, <2>5 DEF TakeOutput
    <3>2. got[c] \o es \in Seq(Event)
      BY <1>0, <2>2
    <3> QED
      BY <1>0, <2>3, <3>1, <3>2 DEF Conns
  <2> QED
    BY <2>4, <2>5
<1>c. ASSUME NEW c \in Clients, TakeChunk(c) PROVE Types'
  <2>1. PICK o : o = Head(outq[c])
    OBVIOUS
  <2>2. o \in Event /\ Tail(outq[c]) \in Seq(Output)
    <3>1. Head(outq[c]) \in Output /\ Tail(outq[c]) \in Seq(Output)
      BY <1>0, <1>c DEF TakeChunk
    <3> QED
      BY <1>b, <2>1, <3>1
  <2>3. /\ outq' \in [Clients -> Seq(Output)]
        /\ task' = task /\ conn' = conn /\ ent' = ent /\ subs' = subs /\ passes' = passes
        /\ complete' = complete
    BY <1>0, <1>c, <2>2 DEF TakeChunk, Publish
  <2>4. CASE c \in Keyed
    <3>1. /\ events' = [events EXCEPT ![c] = Append(@, o)]
          /\ subq' = [s \in Clients |-> IF s \in subs[c] THEN subq[s] \o <<o>> ELSE subq[s]]
          /\ got' = got
      BY <1>c, <2>1, <2>4 DEF TakeChunk, Publish, ToSubscribers
    <3>2. events' \in [Clients -> Seq(Event)]
      BY <1>0, <2>2, <3>1
    <3>3. subq' \in [Clients -> Seq(Event \cup {"eof"})]
      <4>1. \A s \in Clients : subq[s] \o <<o>> \in Seq(Event \cup {"eof"})
        BY <1>0, <2>2
      <4> QED
        BY <1>0, <3>1, <4>1
    <3> QED
      BY <1>0, <2>3, <3>1, <3>2, <3>3
  <2>5. CASE c \notin Keyed
    <3>1. got' = [got EXCEPT ![c] = Append(@, o)] /\ UNCHANGED <<events, subq>>
      BY <1>c, <2>1, <2>5 DEF TakeChunk
    <3> QED
      BY <1>0, <2>2, <2>3, <3>1
  <2> QED
    BY <2>4, <2>5
<1>9. ASSUME NEW c \in Clients, Disconnect(c) PROVE Types'
  <2>1. <<>> \in Seq(Event) /\ <<>> \in Seq(Event \cup {"eof"})
    OBVIOUS
  <2>2. task' \in [Clients -> {"none", "start", "wait", "over"}]
    BY <1>0, <1>9 DEF Disconnect
  <2> QED
    BY <1>0, <1>9, <2>1, <2>2 DEF Disconnect, Conns
<1>10. ASSUME NEW r \in Rids, AbortTask(r) PROVE Types'
  <2>1. outq' \in [Clients -> Seq(Output)]
    <3>1. PICK k : k = states[r]
      OBVIOUS
    <3>2. outq' = outq \/ outq' = [outq EXCEPT ![k] = Append(outq[k], "error")]
      BY <1>10, <3>1 DEF AbortTask
    <3>3. outq \in [Clients -> Seq(Output)]
      BY <1>0
    <3>4. k \in Clients => Append(outq[k], "error") \in Seq(Output)
      BY <1>a, <3>3
    <3> HIDE DEF Types
    <3> QED
      BY <3>2, <3>3, <3>4
  <2> QED
    BY <1>0, <1>10, <2>1 DEF AbortTask, httpVars
<1>11. CASE NextBatch \/ \E R \in SUBSET Rids : ForwardOp(R)
  BY <1>0, <1>11 DEF NextBatch, ForwardOp, httpVars
<1>12. CASE BatchReturns
  BY <1>0, <1>a, <1>12 DEF BatchReturns, httpVars
<1>13. CASE BatchFails \/ ForwardFails
  BY <1>0, <1>a, <1>13 DEF BatchFails, ForwardFails, httpVars
<1>14. ASSUME NEW ends, ForwardReturns(ends) PROVE Types'
  <2>1. PICK go : go = Reached \ ends
    OBVIOUS
  <2>2. /\ \A c \in go : passes[c] < Len(Chunks)
        /\ passes' = [c \in Clients |-> IF c \in go THEN passes[c] + 1 ELSE passes[c]]
        /\ outq' = [c \in Clients |->
              IF c \in ends THEN Append(outq[c], "text")
              ELSE IF c \in Reached THEN Append(outq[c], Chunks[passes'[c]]) ELSE outq[c]]
    BY <1>14, <2>1 DEF ForwardReturns
  <2>3. passes' \in [Clients -> Nat]
    BY <1>0, <2>2
  <2>4. \A c \in Clients : c \in go => Append(outq[c], Chunks[passes'[c]]) \in Seq(Output)
    <3> TAKE c \in Clients
    <3> HAVE c \in go
    <3>1. passes[c] \in Nat /\ passes[c] < Len(Chunks) /\ passes'[c] = passes[c] + 1
      BY <1>0, <2>2
    <3>2. Len(Chunks) \in Nat /\ DOMAIN Chunks = 1 .. Len(Chunks)
      BY ServerAssumption
    <3>3. Chunks[passes'[c]] \in Output
      BY <3>1, <3>2 DEF Output, ToSet
    <3> QED
      BY <1>0, <3>3
  <2>5. outq' \in [Clients -> Seq(Output)]
    BY <1>0, <1>a, <2>1, <2>2, <2>4
  <2> QED
    BY <1>0, <1>14, <2>3, <2>5 DEF ForwardReturns, httpVars
<1> QED
  BY <1>1, <1>2, <1>3, <1>4, <1>5, <1>6, <1>7, <1>8, <1>9, <1>10, <1>11, <1>12, <1>13, <1>14, <1>c
     DEF Next, Reader, Coroutine, Loop

-----------------------------------------------------------------------------
(* The steps.                                                              *)

\* What the engine does between submission and output does not concern the
\* streams.
LEMMA EngineStep ==
    ASSUME Replays, UNCHANGED httpVars,
           \A c \in Clients : /\ task[c] \in {"none", "over"} => task'[c] = task[c]
                              /\ conn[c] \in {"new", "starting"} => task'[c] = task[c]
    PROVE  Registry' /\ \A c \in Clients : Served(c)'
<1>1. Registry'
  BY DEF Replays, Registry, OneEach, Bounded, httpVars
<1>2. ASSUME NEW c \in Clients PROVE Served(c)'
  <2>1. Served(c) /\ (c \in Keyed)' = (c \in Keyed)
    BY DEF Replays, httpVars, Keyed
  <2>2. Producing(c)'
    BY <2>1 DEF Served, Producing, httpVars
  <2>3. Reads(c)'
    BY <2>1 DEF Served, Reads, httpVars
  <2>4. Queued(c)' /\ Faithful(c)'
    BY <2>1 DEF Served, Queued, Faithful, Pending, httpVars
  <2> QED
    BY <2>2, <2>3, <2>4 DEF Served
<1> QED
  BY <1>1, <1>2

\* A step that leaves what a client sees alone leaves it served.
LEMMA OthersServed ==
    ASSUME Types, NEW d \in Clients, Served(d), req' = req,
           conn'[d] = conn[d], ent'[d] = ent[d], got'[d] = got[d], subq'[d] = subq[d],
           task'[d] = task[d], events' = events, complete' = complete,
           \A e \in Clients : d \in subs'[e] <=> d \in subs[e]
    PROVE  Served(d)'
<1>1. (d \in Keyed)' = (d \in Keyed)
  BY DEF Keyed
<1>2. Producing(d)'
  BY DEF Served, Producing
<1>3. Reads(d)'
  BY <1>1 DEF Served, Reads
<1>4. Queued(d)' /\ Faithful(d)'
  BY DEF Served, Queued, Faithful, Pending
<1> QED
  BY <1>2, <1>3, <1>4 DEF Served

LEMMA ConnectStep ==
    ASSUME Replays, NEW c \in Clients, Connect(c)
    PROVE  Registry' /\ \A d \in Clients : Served(d)'
<1>0. Types /\ Registry /\ \A d \in Clients : Served(d)
  BY DEF Replays
<1>1. /\ UNCHANGED <<req, ent, got, subq, reg, events, complete, subs>>
      /\ conn[c] = "new" /\ conn'[c] \in {"direct", "refused", "starting"}
      /\ conn'[c] # "direct" => c \in Keyed /\ task' = task
      /\ conn'[c] = "direct" => c \notin Keyed /\ task' = [task EXCEPT ![c] = "start"]
      /\ \A d \in Clients : d # c => conn'[d] = conn[d] /\ task'[d] = task[d]
  BY <1>0 DEF Connect, Types
<1>2. Registry'
  BY <1>0, <1>1 DEF Registry, OneEach, Bounded
<1>3. ASSUME NEW d \in Clients, d # c PROVE Served(d)'
  BY <1>0, <1>1, <1>3, OthersServed
<1>4. Served(c)'
  <2>1. Served(c) /\ (c \in Keyed)' = (c \in Keyed)
    BY <1>0, <1>1 DEF Keyed
  <2>2. Producing(c)'
    BY <1>0, <1>1, <2>1 DEF Served, Producing, Types
  <2>3. Reads(c)'
    BY <1>1, <2>1 DEF Served, Reads
  <2>4. Queued(c)' /\ Faithful(c)'
    <3>1. ent'[c] = None /\ subq'[c] = <<>> /\ conn'[c] # "subscribed"
      BY <1>1, <2>1 DEF Served, Reads, Queued
    <3> QED
      BY <3>1 DEF Queued, Faithful
  <2> QED
    BY <2>2, <2>3, <2>4 DEF Served
<1> QED
  BY <1>2, <1>3, <1>4

LEMMA AcquireStep ==
    ASSUME Replays, NEW c \in Clients, NEW x, Acquire(c, x)
    PROVE  Registry' /\ \A d \in Clients : Served(d)'
<1>0. Types /\ Registry /\ \A d \in Clients : Served(d)
  BY DEF Replays
<1>1. Producing(c) /\ Reads(c) /\ Queued(c) /\ Faithful(c)
  BY <1>0 DEF Served
<1>2. /\ UNCHANGED <<req, subq, events, complete, subs>>
      /\ conn[c] = "starting"
  BY DEF Acquire
<1>3. Registry'
  BY <1>0, <1>1, AcquireEntry DEF Registry
<1>4. \/ /\ conn' = [conn EXCEPT ![c] = "refused"]
         /\ got' = [got EXCEPT ![c] = <<"error">>]
         /\ UNCHANGED <<ent, task>>
      \/ \E e \in Clients :
         /\ conn' = [conn EXCEPT ![c] = "reading"]
         /\ ent' = [ent EXCEPT ![c] = e] /\ got' = got
         /\ task' \in {task, [task EXCEPT ![c] = "start"]}
  BY <1>0, <1>1, AcquireEntry
<1>5. ASSUME NEW d \in Clients, d # c PROVE Served(d)'
  <2>1. conn'[d] = conn[d] /\ ent'[d] = ent[d] /\ got'[d] = got[d] /\ task'[d] = task[d]
    BY <1>0, <1>4, <1>5 DEF Types
  <2> QED
    BY <1>0, <1>2, <2>1, OthersServed
<1>6. Served(c)'
  <2>1. /\ (c \in Keyed)' /\ got[c] = <<>> /\ subq[c] = <<>> /\ ent[c] = None
        /\ task[c] = "none" /\ c \notin complete
        /\ \A e \in Clients : c \notin subs[e]
    BY <1>1, <1>2 DEF Keyed, Producing, Reads, Queued
  <2>2. CASE conn' = [conn EXCEPT ![c] = "refused"] /\ UNCHANGED <<ent, task>>
    <3>1. conn'[c] = "refused" /\ ent'[c] = None /\ subq'[c] = <<>>
      BY <1>0, <1>2, <2>1, <2>2 DEF Types
    <3> QED
      BY <1>2, <2>1, <3>1 DEF Served, Producing, Reads, Queued, Faithful
  <2>3. ASSUME NEW e \in Clients,
               conn' = [conn EXCEPT ![c] = "reading"],
               ent' = [ent EXCEPT ![c] = e], got' = got
        PROVE  Served(c)'
    <3>1. /\ conn'[c] = "reading" /\ ent'[c] = e /\ got'[c] = <<>> /\ subq'[c] = <<>>
          /\ e # None
      BY <1>0, <1>2, <2>1, <2>3, ServerAssumption DEF Types
    <3>2. IsPrefix(got'[c], events'[e])
      <4>1. events[e] \in Seq(Event)
        BY <1>0 DEF Types
      <4> QED
        BY <1>2, <3>1, <4>1 DEF IsPrefix
    <3> QED
      BY <1>2, <2>1, <3>1, <3>2 DEF Served, Producing, Reads, Queued, Faithful
  <2> QED
    BY <1>4, <2>2, <2>3
<1> QED
  BY <1>3, <1>5, <1>6

LEMMA ReadEventStep ==
    ASSUME Replays, NEW c \in Clients, ReadEvent(c)
    PROVE  Registry' /\ \A d \in Clients : Served(d)'
<1>0. Types /\ Registry /\ \A d \in Clients : Served(d)
  BY DEF Replays
<1>1. /\ UNCHANGED <<req, conn, ent, subq, reg, events, complete, subs, task>>
      /\ conn[c] = "reading" /\ Len(got[c]) < Len(events[ent[c]])
      /\ got' = [got EXCEPT ![c] = Append(got[c], events[ent[c]][Len(got[c]) + 1])]
  BY DEF ReadEvent
<1>2. Registry'
  BY <1>0, <1>1 DEF Registry, OneEach, Bounded
<1>3. ASSUME NEW d \in Clients, d # c PROVE Served(d)'
  <2>1. got'[d] = got[d]
    BY <1>0, <1>1, <1>3 DEF Types
  <2> QED
    BY <1>0, <1>1, <2>1, OthersServed
<1>4. Served(c)'
  <2>1. Producing(c) /\ Reads(c) /\ Queued(c) /\ Faithful(c) /\ (c \in Keyed)' = (c \in Keyed)
    BY <1>0, <1>1 DEF Served, Keyed
  <2>2. ent[c] \in Clients /\ ent[c] # None
    BY <1>0, <1>1, <2>1, ReadsEntry DEF Reads
  <2>3. IsPrefix(got'[c], events[ent[c]])
    <3>1. PICK g, v : g = got[c] /\ v = events[ent[c]]
      OBVIOUS
    <3>2. g \in Seq(Event) /\ v \in Seq(Event) /\ IsPrefix(g, v) /\ Len(g) < Len(v)
      BY <1>0, <1>1, <2>1, <2>2, <3>1 DEF Types, Faithful
    <3>3. IsPrefix(Append(g, v[Len(g) + 1]), v)
      BY <3>2, PrefixGrows
    <3>4. got'[c] = Append(g, v[Len(g) + 1])
      BY <1>0, <1>1, <3>1 DEF Types
    <3> QED
      BY <3>1, <3>3, <3>4
  <2>4. Producing(c)' /\ Reads(c)' /\ Queued(c)'
    BY <1>1, <2>1 DEF Producing, Reads, Queued
  <2>5. Faithful(c)'
    BY <1>1, <2>3 DEF Faithful
  <2> QED
    BY <2>4, <2>5 DEF Served
<1> QED
  BY <1>2, <1>3, <1>4

LEMMA SubscribeStep ==
    ASSUME Replays, NEW c \in Clients, Subscribe(c)
    PROVE  Registry' /\ \A d \in Clients : Served(d)'
<1>0. Types /\ Registry /\ \A d \in Clients : Served(d)
  BY DEF Replays
<1>1. /\ UNCHANGED <<req, ent, got, subq, reg, events, complete, task>>
      /\ conn[c] = "reading" /\ Len(got[c]) = Len(events[ent[c]])
      /\ conn' = [conn EXCEPT ![c] = IF ent[c] \in complete THEN "done" ELSE "subscribed"]
      /\ subs' = [subs EXCEPT ![ent[c]] = IF ent[c] \in complete THEN subs[ent[c]]
                                          ELSE subs[ent[c]] \cup {c}]
  BY DEF Subscribe
<1>2. Registry'
  BY <1>0, <1>1 DEF Registry, OneEach, Bounded
<1>3. ASSUME NEW d \in Clients, d # c PROVE Served(d)'
  <2>1. conn'[d] = conn[d] /\ \A e \in Clients : d \in subs'[e] <=> d \in subs[e]
    BY <1>0, <1>1, <1>3 DEF Types
  <2> QED
    BY <1>0, <1>1, <2>1, OthersServed
<1>4. Served(c)'
  <2>1. Producing(c) /\ Reads(c) /\ Queued(c) /\ Faithful(c) /\ (c \in Keyed)' = (c \in Keyed)
    BY <1>0, <1>1 DEF Served, Keyed
  <2>2. ent[c] \in Clients /\ ent[c] # None
    BY <1>0, <1>1, <2>1, ReadsEntry DEF Reads
  <2>3. got[c] = events[ent[c]]
    <3>1. /\ got[c] \in Seq(Event) /\ events[ent[c]] \in Seq(Event)
          /\ IsPrefix(got[c], events[ent[c]])
      BY <1>0, <2>1, <2>2 DEF Types, Faithful
    <3> QED
      BY <1>1, <3>1, PrefixGrows
  <2>4. subq[c] = <<>> /\ \A e \in Clients : c \notin subs[e]
    BY <1>1, <2>1 DEF Reads, Queued
  <2>5. /\ conn'[c] = IF ent[c] \in complete THEN "done" ELSE "subscribed"
        /\ \A e \in Clients : c \in subs'[e] <=> ent[c] \notin complete /\ ent[c] = e
    BY <1>0, <1>1, <2>2, <2>4 DEF Types
  <2>6. Producing(c)' /\ Queued(c)'
    BY <1>1, <2>1, <2>4, <2>5 DEF Producing, Queued, Closed
  <2>7. Reads(c)'
    BY <1>1, <2>1, <2>2, <2>5 DEF Reads
  <2>8. Faithful(c)'
    <3>1. Pending(c)' = <<>>
      BY <1>1, <2>4 DEF Pending
    <3>2. got[c] \o <<>> = got[c]
      BY <1>0 DEF Types
    <3>3. IsPrefix(got[c], events[ent[c]])
      BY <2>1, <2>2 DEF Faithful
    <3> QED
      BY <1>1, <2>3, <2>5, <3>1, <3>2, <3>3 DEF Faithful
  <2> QED
    BY <2>6, <2>7, <2>8 DEF Served
<1> QED
  BY <1>2, <1>3, <1>4

LEMMA SubscriberGetsStep ==
    ASSUME Replays, NEW c \in Clients, SubscriberGets(c)
    PROVE  Registry' /\ \A d \in Clients : Served(d)'
<1>0. Types /\ Registry /\ \A d \in Clients : Served(d)
  BY DEF Replays
<1>1. /\ UNCHANGED <<req, ent, reg, events, complete, task>>
      /\ conn[c] = "subscribed" /\ subq[c] # <<>>
      /\ subq' = [subq EXCEPT ![c] = Tail(subq[c])]
      /\ Head(subq[c]) = "eof" =>
            /\ conn' = [conn EXCEPT ![c] = "done"]
            /\ subs' = [subs EXCEPT ![ent[c]] = subs[ent[c]] \ {c}] /\ got' = got
      /\ Head(subq[c]) # "eof" =>
            /\ got' = [got EXCEPT ![c] = Append(got[c], Head(subq[c]))]
            /\ conn' = conn /\ subs' = subs
  BY DEF SubscriberGets
<1>2. Registry'
  BY <1>0, <1>1 DEF Registry, OneEach, Bounded
<1>3. ASSUME NEW d \in Clients, d # c PROVE Served(d)'
  <2>1. conn'[d] = conn[d] /\ got'[d] = got[d]
    BY <1>0, <1>1, <1>3 DEF Types
  <2>2. subq'[d] = subq[d]
    BY <1>0, <1>1, <1>3 DEF Types
  <2>3. \A e \in Clients : d \in subs'[e] <=> d \in subs[e]
    <3>1. CASE Head(subq[c]) = "eof"
      <4>1. subs' = [subs EXCEPT ![ent[c]] = subs[ent[c]] \ {c}]
        BY <1>1, <3>1, Zenon
      <4>2. DOMAIN subs = Clients
        BY <1>0 DEF Types
      <4>3. \A e \in Clients : subs'[e] = IF e = ent[c] THEN subs[e] \ {c} ELSE subs[e]
        BY <4>1, <4>2
      <4> QED
        BY <1>3, <4>3
    <3>2. CASE Head(subq[c]) # "eof"
      BY <1>1, <3>2, Zenon
    <3> QED
      BY <3>1, <3>2
  <2> QED
    BY <1>0, <1>1, <2>1, <2>2, <2>3, OthersServed
<1>4. Served(c)'
  <2>1. Producing(c) /\ Reads(c) /\ Queued(c) /\ Faithful(c) /\ (c \in Keyed)' = (c \in Keyed)
    BY <1>0, <1>1 DEF Served, Keyed
  <2>2. ent[c] \in Clients /\ ent[c] # None
    BY <1>0, <1>1, <2>1, ReadsEntry DEF Reads
  <2>3. PICK g, v, q : g = got[c] /\ v = events[ent[c]] /\ q = subq[c]
    OBVIOUS
  <2>4. /\ g \in Seq(Event) /\ v \in Seq(Event) /\ q \in Seq(Event \cup {"eof"})
        /\ ent[c] \in complete <=> Closed(q)
        /\ g \o Pending(c) = v
    BY <1>0, <1>1, <2>1, <2>2, <2>3 DEF Types, Queued, Faithful
  <2>5. subq'[c] = Tail(q)
    BY <1>0, <1>1, <2>3 DEF Types
  <2>m. /\ Head(q) = "eof" => Closed(q) /\ Tail(q) = <<>> /\ g = v
        /\ Head(q) # "eof" =>
             /\ Closed(q) <=> Closed(Tail(q))
             /\ Append(g, Head(q)) \o (IF Closed(Tail(q)) THEN Front(Tail(q)) ELSE Tail(q)) = v
             /\ IsPrefix(Append(g, Head(q)), v)
    <3>1. CASE Closed(q)
      <4>1. Pending(c) = Front(q)
        BY <2>3, <3>1 DEF Pending, Closed
      <4>2. Ending(g, v, q)
        BY <2>4, <3>1, <4>1, Zenon DEF Ending, Closed
      <4>3. /\ Head(q) = "eof" => Tail(q) = <<>> /\ g = v
            /\ Head(q) # "eof" =>
                 /\ Tail(q) # <<>> /\ Last(Tail(q)) = "eof"
                 /\ Append(g, Head(q)) \o Front(Tail(q)) = v
                 /\ IsPrefix(Append(g, Head(q)), v)
        BY <4>2, QueueMoves
      <4>4. Head(q) # "eof" => Closed(Tail(q))
        BY <4>3, Zenon DEF Closed
      <4> QED
        BY <3>1, <4>3, <4>4, Zenon
    <3>2. CASE ~Closed(q)
      <4>1. Pending(c) = q
        BY <2>3, <3>2 DEF Pending, Closed
      <4>2. GoesOn(g, v, q) /\ q # <<>>
        BY <1>1, <2>3, <2>4, <3>2, <4>1, Zenon DEF GoesOn
      <4>3. /\ Head(q) \in Event /\ ~Closed(Tail(q))
            /\ Append(g, Head(q)) \o Tail(q) = v
            /\ IsPrefix(Append(g, Head(q)), v)
        BY <4>2, OpenMoves
      <4>4. "eof" \notin Event
        BY ServerAssumption DEF Event, Output
      <4> QED
        BY <3>2, <4>3, <4>4, Zenon
    <3> QED
      BY <3>1, <3>2
  <2>6. CASE Head(q) = "eof"
    <3>1. Closed(q) /\ Tail(q) = <<>> /\ g = v
      BY <2>m, <2>6, Zenon
    <3>2. /\ conn'[c] = "done" /\ got'[c] = g /\ subq'[c] = <<>>
          /\ \A e \in Clients : c \notin subs'[e]
      <4>1. conn'[c] = "done" /\ got'[c] = g
        BY <1>0, <1>1, <2>3, <2>6 DEF Types
      <4>2. \A e \in Clients : c \in subs[e] => e = ent[c]
        BY <2>1 DEF Reads
      <4>3. \A e \in Clients : c \notin subs'[e]
        BY <1>0, <1>1, <2>3, <2>6, <4>2 DEF Types
      <4> QED
        BY <2>5, <3>1, <4>1, <4>3
    <3>3. Producing(c)' /\ Reads(c)' /\ Queued(c)'
      BY <1>1, <2>1, <2>2, <3>2 DEF Producing, Reads, Queued
    <3>4. Faithful(c)'
      <4>1. IsPrefix(got[c], events[ent[c]])
        BY <2>1, <2>2 DEF Faithful
      <4> QED
        BY <1>1, <2>2, <2>3, <2>4, <3>1, <3>2, <4>1 DEF Faithful
    <3> QED
      BY <3>3, <3>4 DEF Served
  <2>7. CASE Head(q) # "eof"
    <3>1. /\ Closed(q) <=> Closed(Tail(q))
          /\ Append(g, Head(q)) \o (IF Closed(Tail(q)) THEN Front(Tail(q)) ELSE Tail(q)) = v
          /\ IsPrefix(Append(g, Head(q)), v)
      BY <2>m, <2>7, Zenon
    <3>2. got'[c] = Append(g, Head(q)) /\ conn' = conn /\ subs' = subs
      BY <1>0, <1>1, <2>3, <2>7 DEF Types
    <3>3. Producing(c)' /\ Reads(c)' /\ Queued(c)'
      <4>1. Producing(c)' /\ Reads(c)'
        BY <1>1, <2>1, <2>2, <3>2 DEF Producing, Reads
      <4>2. conn'[c] = "subscribed" /\ ent' = ent /\ complete' = complete
        BY <1>1, <3>2
      <4>3. Queued(c)'
        BY <2>4, <2>5, <3>1, <4>2, Zenon DEF Queued
      <4> QED
        BY <4>1, <4>3
    <3>4. Pending(c)' = IF Closed(Tail(q)) THEN Front(Tail(q)) ELSE Tail(q)
      BY <2>5 DEF Pending, Closed
    <3>5. Faithful(c)'
      BY <1>1, <2>3, <3>1, <3>2, <3>4 DEF Faithful
    <3> QED
      BY <3>3, <3>5 DEF Served
  <2> QED
    BY <2>6, <2>7
<1> QED
  BY <1>2, <1>3, <1>4

LEMMA DisconnectStep ==
    ASSUME Replays, NEW c \in Clients, Disconnect(c)
    PROVE  Registry' /\ \A d \in Clients : Served(d)'
<1>0. Types /\ Registry /\ \A d \in Clients : Served(d)
  BY DEF Replays
<1>1. /\ UNCHANGED <<req, reg, events, complete>>
      /\ conn' = [conn EXCEPT ![c] = "gone"]
      /\ subs' = [e \in Clients |-> subs[e] \ {c}]
      /\ subq' = [subq EXCEPT ![c] = <<>>] /\ got' = [got EXCEPT ![c] = <<>>]
      /\ ent' = [ent EXCEPT ![c] = None]
      /\ task' = task \/ task' = [task EXCEPT ![c] = "over"]
  BY DEF Disconnect
<1>2. Registry'
  BY <1>0, <1>1 DEF Registry, OneEach, Bounded
<1>3. ASSUME NEW d \in Clients, d # c PROVE Served(d)'
  <2>1. /\ conn'[d] = conn[d] /\ got'[d] = got[d] /\ subq'[d] = subq[d]
        /\ ent'[d] = ent[d] /\ task'[d] = task[d]
        /\ \A e \in Clients : d \in subs'[e] <=> d \in subs[e]
    BY <1>0, <1>1, <1>3 DEF Types
  <2> QED
    BY <1>0, <1>1, <2>1, OthersServed
<1>4. Served(c)'
  <2>1. Producing(c)
    BY <1>0 DEF Served
  <2>2. /\ conn'[c] = "gone" /\ ent'[c] = None /\ subq'[c] = <<>>
        /\ task'[c] \in {task[c], "over"}
        /\ \A e \in Clients : c \notin subs'[e]
    BY <1>0, <1>1 DEF Types
  <2>3. Producing(c)'
    BY <1>1, <2>1, <2>2 DEF Producing
  <2>4. Reads(c)' /\ Queued(c)' /\ Faithful(c)'
    BY <2>2 DEF Reads, Queued, Faithful
  <2> QED
    BY <2>3, <2>4 DEF Served
<1> QED
  BY <1>2, <1>3, <1>4

\* Events es are published to the entry of c, and its end too if it ends:
\* whoever reads it has a prefix of more, and a subscriber has them last.
LEMMA PublishedTo ==
    ASSUME Replays, NEW c \in Clients, c \notin complete, NEW es \in Seq(Event), es # <<>>,
           NEW ends \in BOOLEAN,
           UNCHANGED <<req, conn, ent, got, subs>>,
           events' = [events EXCEPT ![c] = events[c] \o es],
           subq' = [s \in Clients |->
                      IF s \in subs[c]
                      THEN subq[s] \o (IF ends THEN es \o <<"eof">> ELSE es) ELSE subq[s]],
           complete' = IF ends THEN complete \cup {c} ELSE complete,
           NEW d \in Clients
    PROVE  Reads(d)' /\ Queued(d)' /\ Faithful(d)'
<1>0. Types /\ Producing(d) /\ Reads(d) /\ Queued(d) /\ Faithful(d) /\ (d \in Keyed)' = (d \in Keyed)
  BY DEF Replays, Served, Keyed
<1>1. Reads(d)'
  BY <1>0 DEF Reads
<1>2. \A e \in Clients : e # c => (e \in complete' <=> e \in complete)
  OBVIOUS
<1>3. CASE ent[d] = None
  <2>1. d \notin subs[c] /\ subq'[d] = subq[d] /\ conn[d] # "subscribed"
    BY <1>0, <1>3 DEF Reads
  <2>2. Queued(d)' /\ Faithful(d)'
    BY <1>0, <1>3, <2>1 DEF Queued, Faithful
  <2> QED
    BY <1>1, <2>2
<1>4. CASE ent[d] # None /\ ent[d] # c
  <2>1. /\ d \notin subs[c] /\ subq'[d] = subq[d] /\ ent[d] \in Clients
        /\ events'[ent[d]] = events[ent[d]]
    BY <1>0, <1>4 DEF Reads, Types
  <2>2. Queued(d)'
    BY <1>0, <1>2, <1>4, <2>1 DEF Queued
  <2>3. Pending(d)' = Pending(d)
    BY <2>1 DEF Pending
  <2>4. Faithful(d)'
    BY <1>0, <1>2, <1>4, <2>1, <2>3 DEF Faithful
  <2> QED
    BY <1>1, <2>2, <2>4
<1>5. CASE ent[d] = c
  <2>0. c # None
    BY ServerAssumption
  <2>1. PICK g, v, q : g = got[d] /\ v = events[c] /\ q = subq[d]
    OBVIOUS
  <2>2. /\ g \in Seq(Event) /\ v \in Seq(Event) /\ q \in Seq(Event \cup {"eof"})
        /\ IsPrefix(g, v) /\ conn[d] \in {"reading", "subscribed"}
        /\ events'[c] = v \o es /\ got'[d] = g
    BY <1>0, <1>5, <2>0, <2>1 DEF Types, Reads, Faithful
  <2>3. IsPrefix(g, v \o es)
    BY <2>2, JoinPrefix
  <2>4. CASE conn[d] = "reading"
    <3>1. d \notin subs[c] /\ subq'[d] = subq[d]
      BY <1>0, <2>4 DEF Reads
    <3>2. Queued(d)' /\ Faithful(d)'
      BY <1>0, <1>5, <2>2, <2>3, <2>4, <3>1 DEF Queued, Faithful
    <3> QED
      BY <1>1, <3>2
  <2>5. CASE conn[d] = "subscribed"
    <3>1. d \in subs[c]
      BY <1>0, <1>5, <2>5 DEF Reads
    <3>2. ~Closed(q)
      BY <1>0, <1>5, <2>1, <2>5 DEF Queued
    <3>3. g \o q = v
      <4>1. Pending(d) = q
        BY <2>1, <3>2 DEF Pending, Closed
      <4> QED
        BY <1>0, <1>5, <2>0, <2>1, <2>5, <4>1 DEF Faithful
    <3>4. GoesOn(g, v, q)
      BY <2>2, <3>2, <3>3, Zenon DEF GoesOn
    <3>5. /\ ~Closed(q \o es) /\ g \o (q \o es) = v \o es
          /\ Closed(q \o (es \o <<"eof">>))
          /\ g \o Front(q \o (es \o <<"eof">>)) = v \o es
      BY <3>4, QueuePublished
    <3>6. PICK r : r = subq'[d]
      OBVIOUS
    <3>7. r = IF ends THEN q \o (es \o <<"eof">>) ELSE q \o es
      BY <2>1, <3>1, <3>6
    <3>8. /\ Closed(r) <=> ends
          /\ g \o (IF Closed(r) THEN Front(r) ELSE r) = v \o es
      BY <3>5, <3>7, Zenon
    <3>9. c \in complete' <=> ends
      OBVIOUS
    <3>10. Queued(d)'
      <4>1. conn'[d] = "subscribed" /\ ent'[d] = c
        BY <1>5, <2>5
      <4> QED
        BY <3>6, <3>8, <3>9, <4>1, Zenon DEF Queued
    <3>11. Pending(d)' = IF Closed(r) THEN Front(r) ELSE r
      BY <3>6 DEF Pending, Closed
    <3>12. Faithful(d)'
      <4>1. conn'[d] = "subscribed" /\ ent'[d] = c
        BY <1>5, <2>5
      <4>2. got'[d] \o Pending(d)' = events'[c]
        BY <2>2, <3>8, <3>11
      <4> QED
        BY <2>2, <2>3, <4>1, <4>2 DEF Faithful
    <3> QED
      BY <1>1, <3>10, <3>12
  <2> QED
    BY <2>2, <2>4, <2>5
<1> QED
  BY <1>3, <1>4, <1>5

\* The producer publishes a chunk and goes on.
LEMMA PublishStep ==
    ASSUME Replays, NEW c \in Clients, TakeChunk(c), c \in Keyed
    PROVE  Registry' /\ \A d \in Clients : Served(d)'
<1>0. Types /\ Registry /\ \A d \in Clients : Served(d)
  BY DEF Replays
<1>1. PICK o, es : o = Head(outq[c]) /\ es = <<o>>
  OBVIOUS
<1>2. o \in Event /\ es \in Seq(Event) /\ es # <<>>
  <2>1. o \in Event
    BY <1>0, <1>1 DEF TakeChunk, Types, Event
  <2> QED
    BY <1>1, <2>1
<1>3. /\ UNCHANGED <<req, conn, ent, got, subs, task, complete, reg>>
      /\ task[c] = "wait"
      /\ events' = [events EXCEPT ![c] = Append(events[c], o)]
      /\ subq' = [s \in Clients |-> IF s \in subs[c] THEN subq[s] \o es ELSE subq[s]]
  BY <1>1 DEF TakeChunk, Publish, ToSubscribers
<1>4. Registry'
  BY <1>0, <1>3 DEF Registry, OneEach, Bounded
<1>5. c \notin complete
  BY <1>0, <1>3 DEF Served, Producing
<1>6. events' = [events EXCEPT ![c] = events[c] \o es]
  <2>1. events[c] \in Seq(Event)
    BY <1>0 DEF Types
  <2>2. Append(events[c], o) = events[c] \o es
    BY <1>1, <1>2, <2>1
  <2> QED
    BY <1>3, <2>2
<1>7. ASSUME NEW d \in Clients PROVE Served(d)'
  <2>1. Reads(d)' /\ Queued(d)' /\ Faithful(d)'
    <3>1. PICK ends \in BOOLEAN : ~ends
      OBVIOUS
    <3>2. /\ subq' = [s \in Clients |->
               IF s \in subs[c] THEN subq[s] \o (IF ends THEN es \o <<"eof">> ELSE es) ELSE subq[s]]
          /\ complete' = IF ends THEN complete \cup {c} ELSE complete
      BY <1>3, <3>1
    <3>3. UNCHANGED <<req, conn, ent, got, subs>>
      BY <1>3
    <3> QED
      BY <1>2, <1>5, <1>6, <3>2, <3>3, PublishedTo
  <2>2. Producing(d)'
    BY <1>0, <1>3 DEF Served, Producing
  <2> QED
    BY <2>1, <2>2 DEF Served
<1> QED
  BY <1>4, <1>7

\* The producer publishes the final output and finishes the entry.
LEMMA FinishStep ==
    ASSUME Replays, NEW c \in Clients, NEW x, TakeOutput(c, x), c \in Keyed
    PROVE  Registry' /\ \A d \in Clients : Served(d)'
<1>0. Types /\ Registry /\ \A d \in Clients : Served(d)
  BY DEF Replays
<1>1. PICK es : es = <<Head(outq[c]), "DONE">>
  OBVIOUS
<1>2. es \in Seq(Event) /\ es # <<>>
  <2>1. Head(outq[c]) \in Event /\ "DONE" \in Event
    BY <1>0 DEF TakeOutput, Types, Event
  <2> QED
    BY <1>1, <2>1
<1>3. /\ UNCHANGED <<req, conn, ent, got, subs>>
      /\ task[c] = "wait" /\ task' = [task EXCEPT ![c] = "over"]
      /\ events' = [events EXCEPT ![c] = events[c] \o es]
      /\ subq' = [s \in Clients |-> IF s \in subs[c] THEN subq[s] \o (es \o <<"eof">>) ELSE subq[s]]
      /\ complete' = complete \cup {c}
      /\ reg' = Evict(reg, events', complete', x)
  BY <1>1 DEF TakeOutput, Finish, ToSubscribers
<1>4. Registry'
  <2>1. reg \in Seq(Clients) /\ OneEach(reg)
    BY <1>0 DEF Registry
  <2>2. PICK r : r = Evict(reg, events', complete', x)
    OBVIOUS
  <2>3. r \in Seq(Clients) /\ Picks(r, reg) /\ Bounded(r, complete')
    BY <2>1, <2>2, EvictKeeps
  <2>4. OneEach(r)
    BY <2>1, <2>3, PicksOneEach
  <2>5. reg' = r /\ req' = req
    BY <1>3, <2>2
  <2>6. OneEach(reg)'
    BY <2>4, <2>5 DEF OneEach
  <2>7. Bounded(reg', complete')
    BY <2>3, <2>5
  <2> QED
    BY <2>3, <2>5, <2>6, <2>7 DEF Registry, Bounded
<1>5. c \notin complete
  BY <1>0, <1>3 DEF Served, Producing
<1>6. ASSUME NEW d \in Clients PROVE Served(d)'
  <2>1. Reads(d)' /\ Queued(d)' /\ Faithful(d)'
    <3>1. PICK ends \in BOOLEAN : ends
      OBVIOUS
    <3>2. /\ subq' = [s \in Clients |->
               IF s \in subs[c] THEN subq[s] \o (IF ends THEN es \o <<"eof">> ELSE es) ELSE subq[s]]
          /\ complete' = IF ends THEN complete \cup {c} ELSE complete
          /\ events' = [events EXCEPT ![c] = events[c] \o es]
          /\ UNCHANGED <<req, conn, ent, got, subs>>
      BY <1>3, <3>1
    <3> QED
      BY <1>2, <1>5, <3>2, PublishedTo
  <2>2. Producing(d)'
    <3>1. CASE d = c
      <4>1. task'[d] = "over" /\ task[d] = "wait" /\ conn' = conn
        BY <1>0, <1>3, <3>1 DEF Types
      <4> QED
        BY <1>0, <4>1 DEF Served, Producing
    <3>2. CASE d # c
      <4>1. task'[d] = task[d] /\ conn' = conn /\ (d \in complete' <=> d \in complete)
        BY <1>0, <1>3, <3>2 DEF Types
      <4> QED
        BY <1>0, <4>1 DEF Served, Producing
    <3> QED
      BY <3>1, <3>2
  <2> QED
    BY <2>1, <2>2 DEF Served
<1> QED
  BY <1>4, <1>6

\* A stream of its own goes on or ends.
LEMMA DirectStep ==
    ASSUME Replays, NEW c \in Clients, c \notin Keyed,
           TakeChunk(c) \/ \E x : TakeOutput(c, x)
    PROVE  Registry' /\ \A d \in Clients : Served(d)'
<1>0. Types /\ Registry /\ \A d \in Clients : Served(d)
  BY DEF Replays
<1>1. /\ UNCHANGED <<req, ent, subs, events, subq, complete, reg>>
      /\ task[c] = "wait"
      /\ \/ task' = task /\ conn' = conn
         \/ task' = [task EXCEPT ![c] = "over"] /\ conn' = [conn EXCEPT ![c] = "done"]
      /\ \E g : got' = [got EXCEPT ![c] = g]
  <2>1. CASE TakeChunk(c)
    BY <2>1 DEF TakeChunk
  <2>2. CASE \E x : TakeOutput(c, x)
    BY <2>2 DEF TakeOutput
  <2> QED
    BY <2>1, <2>2
<1>2. Registry'
  BY <1>0, <1>1 DEF Registry, OneEach, Bounded
<1>3. ASSUME NEW d \in Clients, d # c PROVE Served(d)'
  <2>1. conn'[d] = conn[d] /\ got'[d] = got[d] /\ task'[d] = task[d]
    BY <1>0, <1>1, <1>3 DEF Types
  <2> QED
    BY <1>0, <1>1, <2>1, OthersServed
<1>4. Served(c)'
  <2>1. Producing(c) /\ Reads(c) /\ Queued(c)
    BY <1>0 DEF Served
  <2>2. /\ ent[c] = None /\ \A e \in Clients : c \notin subs[e]
        /\ conn[c] \notin {"new", "starting", "reading", "subscribed"}
    BY <1>1, <2>1 DEF Reads, Producing
  <2>3. /\ conn'[c] \in {conn[c], "done"} /\ task'[c] \in {task[c], "over"}
    BY <1>0, <1>1 DEF Types
  <2>4. subq[c] = <<>> /\ c \notin complete
    BY <1>1, <2>1, <2>2 DEF Queued, Producing
  <2> QED
    BY <1>1, <2>2, <2>3, <2>4 DEF Served, Producing, Reads, Queued, Faithful
<1> QED
  BY <1>2, <1>3, <1>4

LEMMA NextReplays == Replays /\ [Next]_vars => Replays'
<1> SUFFICES ASSUME Replays, [Next]_vars PROVE Registry' /\ \A d \in Clients : Served(d)'
  BY TypesStep DEF Replays
<1>0. Types /\ \A d \in Clients : Producing(d)
  BY DEF Replays, Served
<1>1. CASE UNCHANGED vars
  <2>1. UNCHANGED httpVars /\ UNCHANGED task
    BY <1>1 DEF vars
  <2> QED
    BY <2>1, EngineStep
<1>2. ASSUME NEW c \in Clients, Connect(c)
      PROVE  Registry' /\ \A d \in Clients : Served(d)'
  BY <1>2, ConnectStep
<1>3. ASSUME NEW c \in Clients, Reader(c)
      PROVE  Registry' /\ \A d \in Clients : Served(d)'
  BY <1>3, ReadEventStep, SubscribeStep, SubscriberGetsStep, AcquireStep DEF Reader
<1>4. ASSUME NEW c \in Clients, Submit(c)
      PROVE  Registry' /\ \A d \in Clients : Served(d)'
  <2>1. UNCHANGED httpVars /\ task[c] = "start" /\ task' = [task EXCEPT ![c] = "wait"]
    BY <1>4 DEF Submit
  <2>2. \A d \in Clients : /\ task[d] \in {"none", "over"} => task'[d] = task[d]
                           /\ conn[d] \in {"new", "starting"} => task'[d] = task[d]
    <3> TAKE d \in Clients
    <3>1. d # c => task'[d] = task[d]
      BY <1>0, <2>1 DEF Types
    <3>2. conn[c] \notin {"new", "starting"}
      BY <1>0, <2>1 DEF Producing
    <3> QED
      BY <2>1, <3>1, <3>2
  <2> QED
    BY <2>1, <2>2, EngineStep
<1>5. ASSUME NEW c \in Clients, TakeChunk(c) \/ \E x : TakeOutput(c, x)
      PROVE  Registry' /\ \A d \in Clients : Served(d)'
  <2>1. CASE c \in Keyed
    BY <1>5, <2>1, PublishStep, FinishStep
  <2>2. CASE c \notin Keyed
    BY <1>5, <2>2, DirectStep
  <2> QED
    BY <2>1, <2>2
<1>6. ASSUME NEW c \in Clients, Disconnect(c)
      PROVE  Registry' /\ \A d \in Clients : Served(d)'
  BY <1>6, DisconnectStep
<1>7. CASE (\E r \in Rids : AbortTask(r)) \/ Loop
  <2>1. UNCHANGED httpVars /\ UNCHANGED task
    BY <1>7 DEF AbortTask, Loop, NextBatch, BatchReturns, BatchFails,
                ForwardOp, ForwardReturns, ForwardFails
  <2> QED
    BY <2>1, EngineStep
<1> QED
  BY <1>1, <1>2, <1>3, <1>4, <1>5, <1>6, <1>7 DEF Next, Coroutine

-----------------------------------------------------------------------------
(* Theorems.                                                               *)

\* Whenever a connection joins an entry, before, while or after the producer
\* publishes, what it was sent is the entry's stream from the start, and all
\* of it when the connection is done (replayable_stream, publish, finish).
THEOREM ReplaysAlwaysFaithful == Spec => []StreamFaithful
<1>1. Replays => StreamFaithful
  BY DEF Replays, Served, Faithful, StreamFaithful
<1> QED
  BY <1>1, InitReplays, NextReplays, PTL DEF Spec

\* A key in the registry names one generation, and the registry is larger
\* than max_entries only while a stream in it is not finished (acquire,
\* _evict), whatever expires and in whatever order entries are used.
THEOREM RegistryAlwaysBounded == Spec => []RegistryBounded
<1>1. Replays => RegistryBounded
  BY DEF Replays, Registry, OneEach, Bounded, RegistryBounded, InRegistry, ToSet
<1> QED
  BY <1>1, InitReplays, NextReplays, PTL DEF Spec

=============================================================================
