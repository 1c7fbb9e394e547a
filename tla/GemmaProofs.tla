---------------------------- MODULE GemmaProofs ----------------------------
(***************************************************************************)
(* The batched decoder of diffusion-gemma does for every row what the      *)
(* decoder of a single row does, whatever the model predicts and however   *)
(* long predictions have to be stable.  The dense, the paged and the graph *)
(* runner keep the keys they committed, let every query see its window and *)
(* return every answer in its place.                                       *)
(***************************************************************************)
EXTENDS Gemma, Counting, FiniteSetTheorems, TLAPS

-----------------------------------------------------------------------------
(* Histories.                                                              *)

\* A sequence is one over its own elements.
LEMMA OwnElements ==
  ASSUME NEW S, NEW s \in Seq(S)
  PROVE  s \in Seq(ToSet(s))
<1>1. /\ DOMAIN s = 1..Len(s) /\ Len(s) \in Nat
      /\ s = [i \in 1..Len(s) |-> s[i]]
  OBVIOUS
<1>2. \A i \in 1..Len(s) : s[i] \in ToSet(s)
  BY <1>1 DEF ToSet
<1> QED
  BY <1>1, <1>2

\* The larger of a number and one.
LEMMA MaxWithOne ==
  ASSUME NEW n \in Int
  PROVE  Max({1, n}) = IF n > 1 THEN n ELSE 1
<1> DEFINE m == IF n > 1 THEN n ELSE 1
<1>1. m \in {1, n} /\ \A y \in {1, n} : m >= y
  OBVIOUS
<1>2. \A x \in {1, n} : (\A y \in {1, n} : x >= y) => x = m
  OBVIOUS
<1> QED
  BY <1>1, <1>2 DEF Max

\* How many of the n predictions before and the new one are kept.
Kept(n) == IF n + 1 > Stability THEN Stability ELSE n + 1

\* How many canvases a history keeps.
LEMMA KeptIs ==
  ASSUME NEW n \in Nat, n <= Stability
  PROVE  /\ Kept(n) \in 1..(n + 1)
         /\ Max({1, n + 2 - Stability}) = n + 2 - Kept(n)
<1>1. Stability \in Nat /\ Stability > 0
  BY StabilityAssumption
<1>2. Kept(n) \in 1..(n + 1)
  BY <1>1 DEF Kept
<1>3. n + 2 - Stability \in Int
  BY <1>1
<1>4. Max({1, n + 2 - Stability}) = IF n + 2 - Stability > 1 THEN n + 2 - Stability ELSE 1
  BY <1>3, MaxWithOne
<1>5. (IF n + 2 - Stability > 1 THEN n + 2 - Stability ELSE 1) = n + 2 - Kept(n)
  BY <1>1 DEF Kept
<1> QED
  BY <1>2, <1>4, <1>5

\* step_batch appends and drops the oldest.
LEMMA RememberKeeps ==
  ASSUME NEW S, NEW h \in Seq(S), NEW x \in S, Len(h) <= Stability
  PROVE  /\ Remember(h, x) \in Seq(S)
         /\ Len(Remember(h, x)) = Kept(Len(h))
         /\ \A i \in 1..Kept(Len(h)) :
              Remember(h, x)[i] = Append(h, x)[i + (Len(h) + 1 - Kept(Len(h)))]
<1> DEFINE a == Append(h, x)
<1>1. a \in Seq(S) /\ Len(a) = Len(h) + 1 /\ Len(h) \in Nat
  OBVIOUS
<1> HIDE DEF a
<1>2. Stability \in Nat /\ Stability > 0
  BY StabilityAssumption
<1>3. CASE Len(h) + 1 > Stability
  <2>1. Len(h) = Stability /\ Kept(Len(h)) = Len(h) /\ Remember(h, x) = Tail(a)
    BY <1>1, <1>2, <1>3 DEF Kept, Remember, a
  <2>2. Tail(a) \in Seq(S) /\ Len(Tail(a)) = Len(h)
    BY <1>1
  <2>3. \A i \in 1..Len(h) : Tail(a)[i] = a[i + 1]
    BY <1>1, <2>2
  <2> QED
    BY <2>1, <2>2, <2>3, <1>1 DEF a
<1>4. CASE ~(Len(h) + 1 > Stability)
  <2>1. Kept(Len(h)) = Len(h) + 1 /\ Remember(h, x) = a
    BY <1>1, <1>4 DEF Kept, Remember, a
  <2> QED
    BY <2>1, <1>1 DEF a
<1> QED
  BY <1>3, <1>4

\* step cuts the same predictions out.
LEMMA CutKeeps ==
  ASSUME NEW S, NEW h \in Seq(S), NEW x \in S, Len(h) <= Stability
  PROVE  LET c == SubSeq(Append(h, x), Max({1, Len(h) + 2 - Stability}), Len(h) + 1)
         IN  /\ c \in Seq(S)
             /\ Len(c) = Kept(Len(h))
             /\ \A i \in 1..Kept(Len(h)) : c[i] = Append(h, x)[i + (Len(h) + 1 - Kept(Len(h)))]
<1> DEFINE a == Append(h, x)
           first == Len(h) + 2 - Kept(Len(h))
<1>1. a \in Seq(S) /\ Len(a) = Len(h) + 1 /\ Len(h) \in Nat
  OBVIOUS
<1>3. Max({1, Len(h) + 2 - Stability}) = first
  BY <1>1, KeptIs
<1> HIDE DEF a
<1>4. first \in 1..(Len(h) + 1) /\ Kept(Len(h)) \in Nat /\ Len(h) + 1 - first + 1 = Kept(Len(h))
  <2>1. Kept(Len(h)) \in 1..(Len(h) + 1)
    BY <1>1, KeptIs
  <2> QED
    BY <1>1, <2>1
<1> HIDE DEF first
<1>5. /\ SubSeq(a, first, Len(h) + 1) \in Seq(S)
      /\ Len(SubSeq(a, first, Len(h) + 1)) = Kept(Len(h))
      /\ \A i \in 1..Kept(Len(h)) : SubSeq(a, first, Len(h) + 1)[i] = a[first + i - 1]
  <2>1. SubSeq(a, first, Len(h) + 1) = [i \in 1..Kept(Len(h)) |-> a[first + i - 1]]
    BY <1>1, <1>4
  <2>2. \A i \in 1..Kept(Len(h)) : first + i - 1 \in 1..Len(a)
    BY <1>1, <1>4
  <2> QED
    BY <1>1, <1>4, <2>1, <2>2
<1>6. \A i \in 1..Kept(Len(h)) : first + i - 1 = i + (Len(h) + 1 - Kept(Len(h)))
  BY <1>1, <1>4 DEF first
<1> QED
  BY <1>3, <1>5, <1>6 DEF a

\* All predictions of a history are the same iff it has a single element.
LEMMA SingleElement ==
  ASSUME NEW S, NEW c \in Seq(S), Len(c) > 0
  PROVE  (Cardinality(ToSet(c)) = 1) <=> (\A i \in 1..Len(c) : c[i] = c[1])
<1>1. /\ DOMAIN c = 1..Len(c) /\ Len(c) \in Nat /\ 1 \in 1..Len(c)
      /\ c \in [1..Len(c) -> ToSet(c)]
  <2>1. DOMAIN c = 1..Len(c) /\ Len(c) \in Nat /\ 1 \in 1..Len(c)
    OBVIOUS
  <2>2. c \in Seq(ToSet(c))
    BY OwnElements
  <2> QED
    BY <2>1, <2>2
<1>2. c \in Surjection(1..Len(c), ToSet(c))
  BY <1>1 DEF Surjection, ToSet
<1>3. IsFiniteSet(ToSet(c))
  <2>1. IsFiniteSet(1..Len(c))
    BY <1>1, FS_Interval
  <2> QED
    BY <2>1, <1>2, FS_Surjection
<1>4. (Cardinality(ToSet(c)) = 1) <=> \E x : ToSet(c) = {x}
  BY <1>3, FS_Singleton
<1>5. ASSUME NEW x, ToSet(c) = {x}
      PROVE  \A i \in 1..Len(c) : c[i] = c[1]
  BY <1>1, <1>5
<1>6. ASSUME \A i \in 1..Len(c) : c[i] = c[1]
      PROVE  ToSet(c) = {c[1]}
  BY <1>1, <1>6 DEF ToSet
<1> QED
  BY <1>4, <1>5, <1>6

-----------------------------------------------------------------------------
(* The inductive invariant.                                                *)

\* Both decoders know the same rows.
SameRows ==
  /\ DOMAIN state.argmax = DOMAIN scalar
  /\ DOMAIN state.steps = DOMAIN scalar
  /\ state.active \subseteq DOMAIN scalar
  /\ \A r \in DOMAIN scalar : scalar[r].converged \in BOOLEAN

\* The batch has one history. Rows join it together and a row that has converged
\* goes on being recorded in it, so that only the rows still active have to find
\* in it the history of their own.
SameHistory ==
  /\ state.history \in Seq(ToSet(state.history))
  /\ Len(state.history) <= Stability
  /\ \A r \in state.active :
       /\ scalar[r].history \in Seq(ToSet(scalar[r].history))
       /\ Len(scalar[r].history) = Len(state.history)
       /\ \A i \in 1..Len(state.history) : scalar[r].history[i] = state.history[i][r]

Batched == SameRows /\ SameHistory /\ BatchAgrees

\* new_batch_state and the decoder of one row start alike.
LEMMA FreshBatched ==
  ASSUME NEW active, Fresh(active)
  PROVE  Batched'
<1>1. /\ state' = [argmax |-> [r \in active |-> <<>>], steps |-> [r \in active |-> 0],
                   active |-> active, history |-> <<>>]
      /\ scalar' = [r \in active |-> [argmax |-> <<>>, step |-> 0, history |-> <<>>, converged |-> FALSE]]
  BY DEF Fresh, NewBatchState, ScalarNew
<1>2. <<>> \in Seq(ToSet(<<>>)) /\ Len(<<>>) = 0 /\ Len(<<>>) <= Stability
  BY StabilityAssumption
<1>3. SameRows'
  BY <1>1 DEF SameRows
<1>4. SameHistory'
  <2>1. state'.history = <<>> /\ state'.active = active
    BY <1>1
  <2>2. \A r \in active : scalar'[r].history = <<>>
    BY <1>1
  <2>3. \A i \in 1..Len(<<>>) : FALSE
    BY <1>2
  <2> QED
    BY <1>2, <2>1, <2>2, <2>3 DEF SameHistory
<1>5. BatchAgrees'
  BY <1>1 DEF BatchAgrees
<1> QED
  BY <1>3, <1>4, <1>5 DEF Batched

\* One step of the batch is one step of each of its rows.
LEMMA StepBatched ==
  ASSUME Batched, NEW argmax, NEW confident,
         state' = StepBatch(state, argmax, confident),
         scalar' = [r \in DOMAIN scalar |-> ScalarStep(scalar[r], argmax[r], r \in confident)]
  PROVE  Batched'
<1> DEFINE D == DOMAIN scalar
           h == state.history
           n == Len(h)
           kept == [r \in D |-> IF r \in state.active THEN argmax[r] ELSE state.argmax[r]]
           steps == [r \in D |-> IF r \in state.active THEN state.steps[r] + 1 ELSE state.steps[r]]
           g == Remember(h, kept)
           Stable(r) == Len(g) >= Stability /\ \A i \in DOMAIN g : g[i][r] = g[1][r]
           Over(r) == (Stable(r) /\ r \in confident) \/ steps[r] >= MaxSteps
<1>1. SameRows /\ SameHistory /\ BatchAgrees
  BY DEF Batched
<1>2. /\ state'.argmax = kept
      /\ state'.steps = steps
      /\ state'.active = state.active \ {r \in state.active : Over(r)}
      /\ state'.history = g
  BY <1>1 DEF StepBatch, SameRows
<1>3. DOMAIN scalar' = D
  OBVIOUS
<1> DEFINE H == ToSet(h) \cup {kept}
           k == n + 1 - Kept(n)
<1>4. h \in Seq(H) /\ kept \in H /\ n \in Nat /\ n <= Stability
  <2>1. h \in Seq(ToSet(h)) /\ n <= Stability
    BY <1>1 DEF SameHistory
  <2> QED
    BY <2>1
<1>5. Kept(n) \in 1..(n + 1) /\ Kept(n) <= Stability
  BY <1>4, KeptIs, StabilityAssumption DEF Kept
<1>6. /\ g \in Seq(H) /\ Len(g) = Kept(n) /\ DOMAIN g = 1..Kept(n)
      /\ \A i \in 1..Kept(n) : g[i] = Append(h, kept)[i + k]
  <2>1. /\ g \in Seq(H) /\ Len(g) = Kept(n)
        /\ \A i \in 1..Kept(n) : g[i] = Append(h, kept)[i + k]
    BY <1>4, RememberKeeps
  <2> HIDE DEF g, H, k
  <2>2. DOMAIN g = 1..Len(g)
    BY <2>1
  <2> QED
    BY <2>1, <2>2, Zenon
<1>7. \A i \in 1..Kept(n) : i + k \in 1..(n + 1)
  BY <1>4, <1>5
<1>8. g \in Seq(ToSet(g))
  BY <1>6, OwnElements
<1> HIDE DEF g, kept, steps, H, k
<1>9. ASSUME NEW r \in D, r \notin state.active
      PROVE  /\ scalar'[r] = scalar[r] /\ scalar[r].converged = TRUE
             /\ kept[r] = state.argmax[r] /\ steps[r] = state.steps[r]
  <2>1. scalar[r].converged = TRUE
    BY <1>1, <1>9 DEF SameRows, BatchAgrees
  <2>2. scalar'[r] = scalar[r]
    BY <2>1 DEF ScalarStep
  <2> QED
    BY <2>1, <2>2, <1>9 DEF kept, steps
<1>10. ASSUME NEW r \in state.active
       PROVE  /\ kept[r] = scalar'[r].argmax
              /\ steps[r] = scalar'[r].step
              /\ scalar'[r].history \in Seq(ToSet(scalar'[r].history))
              /\ Len(scalar'[r].history) = Kept(n)
              /\ \A i \in 1..Kept(n) : scalar'[r].history[i] = g[i][r]
              /\ scalar'[r].converged = Over(r)
  <2> DEFINE own == scalar[r].history
             all == ToSet(own) \cup {argmax[r]}
             c == SubSeq(Append(own, argmax[r]), Max({1, Len(own) + 2 - Stability}), Len(own) + 1)
             stable == Len(c) >= Stability /\ Cardinality(ToSet(c)) = 1
  <2>1. r \in D /\ scalar[r].converged = FALSE /\ state.steps[r] = scalar[r].step
    BY <1>1 DEF SameRows, BatchAgrees
  <2>2. own \in Seq(ToSet(own)) /\ Len(own) = n /\ \A i \in 1..n : own[i] = h[i][r]
    BY <1>1 DEF SameHistory
  <2>3. own \in Seq(all) /\ argmax[r] \in all
    BY <2>2
  <2>4. /\ scalar'[r].argmax = argmax[r]
        /\ scalar'[r].step = scalar[r].step + 1
        /\ scalar'[r].history = c
        /\ scalar'[r].converged = ((stable /\ r \in confident) \/ scalar[r].step + 1 >= MaxSteps)
    BY <2>1 DEF ScalarStep
  <2>5. /\ c \in Seq(all) /\ Len(c) = Kept(n)
        /\ \A i \in 1..Kept(n) : c[i] = Append(own, argmax[r])[i + k]
    <3>1. Len(own) <= Stability
      BY <2>2, <1>4
    <3> HIDE DEF own, all
    <3>2. /\ c \in Seq(all) /\ Len(c) = Kept(Len(own))
          /\ \A i \in 1..Kept(Len(own)) : c[i] = Append(own, argmax[r])[i + (Len(own) + 1 - Kept(Len(own)))]
      BY <2>3, <3>1, CutKeeps
    <3> HIDE DEF c
    <3> QED
      BY <2>2, <3>2 DEF k
  <2>6. \A j \in 1..(n + 1) : Append(own, argmax[r])[j] = Append(h, kept)[j][r]
    <3>1. kept[r] = argmax[r]
      BY <2>1 DEF kept
    <3>2. \A j \in 1..n : Append(own, argmax[r])[j] = own[j] /\ Append(h, kept)[j] = h[j]
      BY <2>2, <2>3, <1>4
    <3>3. Append(own, argmax[r])[n + 1] = argmax[r] /\ Append(h, kept)[n + 1] = kept
      BY <2>2, <2>3, <1>4
    <3> QED
      BY <3>1, <3>2, <3>3, <2>2, <1>4
  <2> HIDE DEF c, own, all
  <2>7. \A i \in 1..Kept(n) : c[i] = g[i][r]
    BY <2>5, <2>6, <1>6, <1>7
  <2>8. stable <=> Stable(r)
    <3>1. (Cardinality(ToSet(c)) = 1) <=> \A i \in 1..Kept(n) : c[i] = c[1]
      BY <2>5, <1>5, SingleElement
    <3>2. 1 \in 1..Kept(n)
      BY <1>4, <1>5
    <3> QED
      BY <3>1, <3>2, <2>5, <2>7, <1>6
  <2>9. steps[r] = scalar[r].step + 1 /\ kept[r] = argmax[r]
    BY <2>1 DEF steps, kept
  <2>10. c \in Seq(ToSet(c))
    BY <2>5, OwnElements
  <2> HIDE DEF stable, Stable
  <2>11. ((stable /\ r \in confident) \/ scalar[r].step + 1 >= MaxSteps) = Over(r)
    BY <2>8, <2>9
  <2> QED
    BY <2>4, <2>5, <2>7, <2>9, <2>10, <2>11
<1> HIDE DEF Over
<1>11. SameRows'
  <2>1. DOMAIN kept = D /\ DOMAIN steps = D
    BY DEF kept, steps
  <2>2. ASSUME NEW r \in D PROVE scalar'[r].converged \in BOOLEAN
    <3>1. CASE r \in state.active
      BY <3>1, <1>10 DEF Over
    <3>2. CASE r \notin state.active
      BY <3>2, <1>9
    <3> QED
      BY <3>1, <3>2
  <2> QED
    BY <1>1, <1>2, <1>3, <2>1, <2>2 DEF SameRows
<1>12. SameHistory'
  <2>1. state'.history \in Seq(ToSet(state'.history)) /\ Len(state'.history) <= Stability
    BY <1>2, <1>5, <1>6, <1>8
  <2>2. ASSUME NEW r \in state'.active
        PROVE  /\ scalar'[r].history \in Seq(ToSet(scalar'[r].history))
               /\ Len(scalar'[r].history) = Len(state'.history)
               /\ \A i \in 1..Len(state'.history) : scalar'[r].history[i] = state'.history[i][r]
    <3>1. r \in state.active
      BY <1>2
    <3>2. /\ scalar'[r].history \in Seq(ToSet(scalar'[r].history))
          /\ Len(scalar'[r].history) = Kept(n)
          /\ \A i \in 1..Kept(n) : scalar'[r].history[i] = g[i][r]
      BY <3>1, <1>10
    <3>3. state'.history = g /\ Len(state'.history) = Kept(n)
      BY <1>2, <1>6
    <3> QED
      BY <3>2, <3>3, Zenon
  <2> QED
    BY <2>1, <2>2 DEF SameHistory
<1>13. BatchAgrees'
  <2>1. ASSUME NEW r \in D
        PROVE  /\ kept[r] = scalar'[r].argmax /\ steps[r] = scalar'[r].step
               /\ (r \in state'.active) = ~scalar'[r].converged
    <3>1. CASE r \in state.active
      BY <3>1, <1>2, <1>10
    <3>2. CASE r \notin state.active
      <4>1. scalar'[r] = scalar[r] /\ kept[r] = state.argmax[r] /\ steps[r] = state.steps[r]
        BY <3>2, <1>9
      <4>2. state.argmax[r] = scalar[r].argmax /\ state.steps[r] = scalar[r].step
        BY <1>1 DEF BatchAgrees
      <4>3. scalar'[r].converged = TRUE
        BY <3>2, <1>9
      <4>4. r \notin state'.active
        BY <3>2, <1>2
      <4>5. (r \in state'.active) = ~scalar'[r].converged
        BY <4>3, <4>4
      <4> QED
        BY <4>1, <4>2, <4>5
    <3> QED
      BY <3>1, <3>2
  <2> QED
    BY <2>1, <1>2, <1>3 DEF BatchAgrees
<1> QED
  BY <1>11, <1>12, <1>13 DEF Batched

-----------------------------------------------------------------------------
(* The theorem.                                                            *)

\* A step that leaves the decoder alone.
LEMMA UnchangedBatched ==
  ASSUME Batched, UNCHANGED <<state, scalar>>
  PROVE  Batched'
BY DEF Batched, SameRows, SameHistory, BatchAgrees

\* Whatever is predicted for the rows of a batch, and whichever of them converge
\* first, step_batch gives each row the canvas, the number of steps and the end
\* that step gives it alone.
THEOREM BatchAlwaysAgrees == Spec => []BatchAgrees
<1>1. Init => Batched
  <2> SUFFICES ASSUME Init PROVE Batched
    OBVIOUS
  <2>1. /\ state = [argmax |-> [r \in {} |-> <<>>], steps |-> [r \in {} |-> 0], active |-> {}, history |-> <<>>]
        /\ scalar = <<>>
    BY DEF Init, NewBatchState
  <2>2. DOMAIN scalar = {} /\ Len(<<>>) = 0
    BY <2>1
  <2>3. <<>> \in Seq(ToSet(<<>>)) /\ Len(<<>>) <= Stability
    BY StabilityAssumption
  <2> QED
    BY <2>1, <2>2, <2>3 DEF Batched, SameRows, SameHistory, BatchAgrees
<1>2. Batched /\ [Next]_vars => Batched'
  <2> SUFFICES ASSUME Batched, [Next]_vars PROVE Batched'
    OBVIOUS
  <2>1. ASSUME NEW batch \in Calls, NEW ignore \in BOOLEAN, Generate(batch, ignore) PROVE Batched'
    BY <2>1, UnchangedBatched DEF Generate
  <2>2. CASE Prefill
    <3>1. \E active : Fresh(active)
      BY <2>2 DEF Prefill
    <3> QED
      BY <3>1, FreshBatched
  <2>3. CASE Commit
    <3>1. \E active : Fresh(active)
      BY <2>3 DEF Commit
    <3> QED
      BY <3>1, FreshBatched
  <2>4. CASE Return
    BY <2>4, UnchangedBatched DEF Return
  <2>5. ASSUME NEW argmax, NEW confident, Denoise(argmax, confident) PROVE Batched'
    BY <2>5, StepBatched DEF Denoise
  <2>6. CASE UNCHANGED vars
    BY <2>6, UnchangedBatched DEF vars
  <2> QED
    BY <2>1, <2>2, <2>3, <2>4, <2>5, <2>6 DEF Next
<1>3. Batched => BatchAgrees
  BY DEF Batched
<1> QED
  BY <1>1, <1>2, <1>3, PTL DEF Spec

-----------------------------------------------------------------------------
(* Sets of rows and sequences.                                             *)

\* The rows of a set, in the order of their numbers: each of them once.
LEMMA InOrderIs ==
  ASSUME NEW N \in Nat, NEW S, S \subseteq 1..N, NEW o, o = InOrder(S)
  PROVE  /\ o \in Seq(S) /\ Len(o) \in Nat /\ DOMAIN o = 1..Len(o)
         /\ ToSet(o) = S
         /\ \A i, j \in 1..Len(o) : o[i] = o[j] => i = j
         /\ S # {} => Len(o) > 0
<1>1. IsFiniteSet(S) /\ Cardinality(S) \in Nat
  <2>1. IsFiniteSet(1..N)
    BY FS_Interval
  <2> QED
    BY <2>1, FS_Subset, FS_CardinalityType
<1>2. PICK c \in Nat : c = Cardinality(S)
  BY <1>1
<1>3. S \in SUBSET Nat /\ \A s \in S : s \in Nat
  OBVIOUS
<1> DEFINE At(k) == CHOOSE i \in S : Cardinality({j \in S : j < i}) = k - 1
<1>4. \A i : Below(S, i) = {j \in S : j < i}
  BY DEF Below
<1>5. o = [k \in 1..c |-> At(k)]
  BY <1>2 DEF InOrder
<1>6. ASSUME NEW k \in 1..c
      PROVE  At(k) \in S /\ Cardinality(Below(S, At(k))) = k - 1
  <2>1. k - 1 \in Nat /\ k - 1 < Cardinality(S)
    BY <1>2
  <2>2. \E i \in S : Cardinality(Below(S, i)) = k - 1
    BY <2>1, CountTo
  <2>3. \E i \in S : Cardinality({j \in S : j < i}) = k - 1
    BY <2>2, <1>4, Zenon
  <2>4. At(k) \in S /\ Cardinality({j \in S : j < At(k)}) = k - 1
    BY <2>3, Zenon
  <2> QED
    BY <2>4, <1>4, Zenon
<1> HIDE DEF At
<1>7. o \in Seq(S) /\ Len(o) = c /\ DOMAIN o = 1..c /\ \A k \in 1..c : o[k] = At(k)
  BY <1>5, <1>6
<1>8. \A i, j \in 1..c : o[i] = o[j] => i = j
  <2> SUFFICES ASSUME NEW i \in 1..c, NEW j \in 1..c, o[i] = o[j] PROVE i = j
    OBVIOUS
  <2>1. i - 1 = j - 1
    BY <1>6, <1>7
  <2> QED
    BY <2>1
<1>9. ASSUME NEW s \in S PROVE \E k \in 1..c : o[k] = s
  <2>1. PICK n : n = Cardinality(Below(S, s))
    OBVIOUS
  <2>2. Below(S, s) \in SUBSET S /\ s \notin Below(S, s)
    <3>1. ~(s < s)
      BY <1>3
    <3> QED
      BY <3>1 DEF Below
  <2>3. IsFiniteSet(Below(S, s)) /\ n <= c /\ n \in Nat /\ (c = n => S = Below(S, s))
    BY <1>1, <1>2, <2>1, <2>2, FS_Subset, FS_CardinalityType
  <2>4. n # c
    BY <2>2, <2>3
  <2>50. PICK k : k = n + 1
    OBVIOUS
  <2>5. k \in 1..c /\ k - 1 = n
    BY <1>2, <2>3, <2>4, <2>50
  <2>6. At(k) \in S /\ Cardinality(Below(S, At(k))) = n
    BY <1>6, <2>5, Zenon
  <2>7. At(k) = s
    <3>1. PICK q \in S : q = At(k)
      BY <2>6
    <3>2. Cardinality(Below(S, q)) = Cardinality(Below(S, s))
      BY <2>1, <2>6, <3>1
    <3>3. q = s
      BY <1>3, <3>2, SamePlace
    <3> QED
      BY <3>1, <3>3
  <2> QED
    BY <2>5, <2>7, <1>7
<1>10. ToSet(o) = S
  <2>1. \A s \in S : \E k \in 1..c : o[k] = s
    BY <1>9
  <2>2. \A k \in 1..c : o[k] \in S
    BY <1>6, <1>7
  <2> QED
    BY <1>7, <2>1, <2>2, Zenon DEF ToSet
<1>11. S # {} => c > 0
  <2> SUFFICES ASSUME S # {} PROVE c > 0
    OBVIOUS
  <2>1. PICK s \in S : TRUE
    OBVIOUS
  <2>2. PICK k \in 1..c : o[k] = s
    BY <1>9
  <2> QED
    BY <1>2, <2>2
<1> QED
  BY <1>2, <1>7, <1>8, <1>10, <1>11

\* The largest of finitely many numbers.
LEMMA MaxIs ==
  ASSUME NEW n \in Nat \ {0}, NEW f \in [1..n -> Nat], NEW S, S = {f[i] : i \in 1..n}
  PROVE  /\ Max(S) \in S /\ Max(S) \in Nat
         /\ \A i \in 1..n : f[i] <= Max(S)
<1> DEFINE Top(k) == \E j \in 1..k : \A i \in 1..k : f[i] <= f[j]
           Bad == {k \in 1..n : ~Top(k)}
<1>1. Bad = {}
  <2> SUFFICES ASSUME Bad # {} PROVE FALSE
    OBVIOUS
  <2>1. Bad \in SUBSET Nat
    OBVIOUS
  <2> HIDE DEF Bad
  <2>2. PICK k \in Bad : \A j \in Bad : k <= j
    BY <2>1, LeastNatural
  <2>3. k \in 1..n /\ ~Top(k)
    BY DEF Bad
  <2>4. k # 1
    <3>1. Top(1)
      <4>1. 1 \in 1..1 /\ \A i \in 1..1 : i = 1
        OBVIOUS
      <4>2. f[1] \in Nat /\ f[1] <= f[1]
        OBVIOUS
      <4> QED
        BY <4>1, <4>2
    <3> QED
      BY <3>1, <2>3
  <2>5. k - 1 \in 1..n /\ ~(k <= k - 1)
    BY <2>3, <2>4
  <2>6. PICK j \in 1..(k - 1) : \A i \in 1..(k - 1) : f[i] <= f[j]
    BY <2>2, <2>5 DEF Bad
  <2>7. /\ j \in 1..k /\ k \in 1..k /\ f[j] \in Nat /\ f[k] \in Nat
        /\ \A i \in 1..k : f[i] \in Nat /\ (i = k \/ i \in 1..(k - 1))
    BY <2>3, <2>5, <2>6
  <2>8. CASE f[k] <= f[j]
    BY <2>3, <2>6, <2>7, <2>8
  <2>9. CASE f[j] < f[k]
    <3>1. \A i \in 1..k : f[i] <= f[k]
      BY <2>6, <2>7, <2>9
    <3> QED
      BY <3>1, <2>3, <2>7
  <2> QED
    BY <2>7, <2>8, <2>9
<1>2. PICK j \in 1..n : \A i \in 1..n : f[i] <= f[j]
  <2>1. n \in 1..n
    OBVIOUS
  <2> QED
    BY <1>1, <2>1
<1>3. \E x \in S : \A y \in S : x >= y
  BY <1>2
<1>4. Max(S) \in S /\ \A y \in S : Max(S) >= y
  BY <1>3, Zenon DEF Max
<1> QED
  BY <1>4

\* The smallest of a set of rows.
LEMMA MinIs ==
  ASSUME NEW S \in SUBSET Nat, S # {}
  PROVE  Min(S) \in S
<1>1. \E x \in S : \A y \in S : x =< y
  BY LeastNatural
<1> QED
  BY <1>1, Zenon DEF Min

\* The smaller of two numbers: what a row takes of a canvas.
LEMMA MinOfTwo ==
  ASSUME NEW a \in Nat, NEW b \in Nat
  PROVE  Min({a, b}) = IF a <= b THEN a ELSE b
<1>1. Min({a, b}) \in {a, b} /\ Min({a, b}) <= a /\ Min({a, b}) <= b
  <2>1. \E x \in {a, b} : \A y \in {a, b} : x =< y
    OBVIOUS
  <2>2. Min({a, b}) \in {a, b} /\ \A y \in {a, b} : Min({a, b}) =< y
    BY <2>1, Zenon DEF Min
  <2> QED
    BY <2>2
<1> QED
  BY <1>1

\* A tuple built from an interval is that function.
LEMMA TupleIs ==
  ASSUME NEW n \in Nat, NEW f, f = [i \in 1..n |-> f[i]]
  PROVE  /\ Tuple(f) = f
         /\ Tuple(f) \in Seq({f[i] : i \in 1..n}) /\ Len(Tuple(f)) = n
<1>1. PICK T : T = {f[i] : i \in 1..n}
  OBVIOUS
<1>2. f \in [1..n -> T]
  BY <1>1
<1>3. f \in Seq(T) /\ Len(f) = n
  BY <1>2
<1> QED
  BY <1>1, <1>3 DEF Tuple

-----------------------------------------------------------------------------
(* The inductive invariant of the runners.                                 *)

Tokens == UNION {ToSet(p) : p \in Predictions}
Keys == Nat \X Nat \X (Tokens \cup {"prompt"})
RowType == [prompt : Nat, gen : Nat, remaining : Nat, emitted : Seq(Tokens),
            active : BOOLEAN, prefilled : BOOLEAN, steps : Nat]

Shapes ==
  /\ call \in Nat
  /\ rows \in Seq(RowType)
  /\ cache.max \in Nat /\ cache.size \in Nat
  /\ DOMAIN mem = 1..cache.size
  /\ \A r \in 1..cache.size : DOMAIN mem[r] = 0..(cache.max - 1)
  /\ DOMAIN dense = RowIds
  /\ \A r \in RowIds : DOMAIN dense[r] = {0, Window} /\ \A w \in {0, Window} : dense[r][w] \in Seq(Keys)

\* What is known of a row, from its prompt to its last canvas.
EosAt(answer) == {i \in DOMAIN answer : answer[i] = Eos}
Waiting(row) == row.emitted = <<>> /\ ~row.active /\ row.steps = 0
Growing(row, stop) ==
  /\ row.prefilled /\ row.remaining > 0 /\ (stop => EosAt(row.emitted) = {})
  /\ \E c \in Nat : Len(row.emitted) = c * Canvas /\ row.steps <= MaxSteps * c
Ended(row, stop) ==
  /\ row.remaining = 0 \/ (stop /\ EosAt(row.emitted) # {})
  /\ stop => \A i \in EosAt(row.emitted) : (i - 1) \div Canvas = (Len(row.emitted) - 1) \div Canvas
  /\ row.steps <= MaxSteps * (PaddedGeneration(row.gen) \div Canvas)
RowFits(row, stop) ==
  /\ Len(row.emitted) + row.remaining = row.gen
  /\ ~row.prefilled => Waiting(row)
  /\ row.active => Growing(row, stop)
  /\ row.prefilled /\ ~row.active => Ended(row, stop)
\* The batch at hand ends its rows at end tokens.
Stops == EarlyStop /\ ~early.ignored
RowsFit == \A r \in RowIds : RowFits(rows[r], Stops)
\* early_stop between the batches and during one.
Stopping ==
  /\ early \in [stop : BOOLEAN, saved : BOOLEAN, ignored : BOOLEAN]
  /\ phase = "idle" => early.stop = EarlyStop
  /\ phase # "idle" => early.saved = EarlyStop /\ early.stop = Stops

Running == phase \in {"denoise", "commit"}
Phases ==
  /\ phase \in {"idle", "prefill", "denoise", "commit", "return"}
  /\ phase # "idle" => rows # <<>>
  /\ ~Running => Active = {}
  /\ Running => Active # {}
  /\ phase = "prefill" => \E r \in RowIds : ~rows[r].prefilled
  /\ phase = "prefill" /\ mode # "dense" => \A r \in RowIds : ~rows[r].prefilled
  /\ phase \in {"idle", "return"} => \A r \in RowIds : rows[r].prefilled
  /\ Running /\ mode = "dense" => \A q, r \in Active : q = r
  /\ Running /\ mode # "dense" => \A r \in RowIds : rows[r].prefilled

Decoding ==
  /\ Running =>
       /\ DOMAIN state.argmax = Active /\ DOMAIN state.steps = Active /\ state.active \subseteq Active
       /\ \A r \in Active :
            /\ state.steps[r] \in 0..MaxSteps
            /\ r \in state.active => state.steps[r] < MaxSteps
            /\ r \notin state.active => state.argmax[r] \in Predictions
  /\ phase = "commit" => state.active = {}

\* How many of n keys a layer with window w keeps.
Cut(n, w) == IF w = 0 \/ n <= w THEN n ELSE w
\* s holds the last of n keys.
Holds(s, key, n, w) ==
  /\ s \in Seq(Keys) /\ Len(s) = Cut(n, w)
  /\ \A i \in 1..Cut(n, w) : s[i] = key[n - Cut(n, w) + i - 1]
CommittedKeys(r) == [p \in 0..(PrefixLength(r) - 1) |-> Committed(r, p)]
DenseKept ==
  Running /\ mode = "dense" =>
    \A r \in Active : \A w \in {0, Window} : Holds(dense[r][w], CommittedKeys(r), PrefixLength(r), w)

IInv == Shapes /\ RowsFit /\ Stopping /\ Phases /\ Decoding /\ KVCommitted /\ DenseKept

-----------------------------------------------------------------------------
(* Launches over the paged cache.                                          *)

\* append_paged_kv_cache keeps the shape of the cache.
LEMMA AppendedShape ==
  ASSUME NEW before, NEW m, NEW keys, NEW after, after = Appended(before, m, keys)
  PROVE  DOMAIN after = DOMAIN before /\ \A r \in DOMAIN before : DOMAIN after[r] = DOMAIN before[r]
<1>1. DOMAIN after = DOMAIN before
  BY DEF Appended
<1>2. ASSUME NEW r \in DOMAIN before PROVE DOMAIN after[r] = DOMAIN before[r]
  <2>1. PICK i : i = SelectLastInSeq(m.ids, LAMBDA id : id = r)
    OBVIOUS
  <2>2. after[r] = IF i = 0 THEN before[r]
                   ELSE [p \in DOMAIN before[r] |->
                     IF p \in m.offset[i]..(m.offset[i] + m.lens[i] - 1)
                     THEN keys[i][p - m.offset[i] + 1] ELSE before[r][p]]
    BY <2>1, Zenon DEF Appended
  <2>3. CASE i = 0
    BY <2>2, <2>3
  <2>4. CASE i # 0
    BY <2>2, <2>4
  <2> QED
    BY <2>3, <2>4
<1> QED
  BY <1>1, <1>2

\* A launch names each of its rows once, and its padding none of them.
Names(m, order, padding) ==
  /\ order \in Seq(Nat) /\ padding \in Seq(Nat) /\ m.ids = order \o padding
  /\ \A i, j \in 1..Len(order) : order[i] = order[j] => i = j
  /\ \A j \in 1..Len(padding) : padding[j] \notin ToSet(order)

\* Each row of a launch is written where its metadata says.
LEMMA AppendedRow ==
  ASSUME NEW before, NEW m, NEW keys, NEW after, after = Appended(before, m, keys),
         NEW order, NEW padding, Names(m, order, padding),
         NEW i \in 1..Len(order), NEW r, r = order[i], r \in DOMAIN before
  PROVE  \A p \in DOMAIN before[r] :
           after[r][p] = IF p \in m.offset[i]..(m.offset[i] + m.lens[i] - 1)
                         THEN keys[i][p - m.offset[i] + 1] ELSE before[r][p]
<1>. /\ order \in Seq(Nat) /\ padding \in Seq(Nat) /\ m.ids = order \o padding
     /\ \A k, j \in 1..Len(order) : order[k] = order[j] => k = j
     /\ \A j \in 1..Len(padding) : padding[j] \notin ToSet(order)
  BY DEF Names
<1>0. PICK ids : ids = order \o padding
  OBVIOUS
<1>1. ids = m.ids /\ ids \in Seq(Nat) /\ Len(ids) = Len(order) + Len(padding)
  BY <1>0
<1>2. Len(order) \in Nat /\ Len(padding) \in Nat
  OBVIOUS
<1>3. /\ \A j \in 1..Len(order) : ids[j] = order[j]
      /\ \A j \in 1..Len(padding) : ids[Len(order) + j] = padding[j]
  BY <1>0
<1>4. {j \in 1..Len(ids) : ids[j] = r} = {i}
  <2>1. i \in 1..Len(ids) /\ ids[i] = r
    BY <1>1, <1>2, <1>3
  <2>2. ASSUME NEW j \in 1..Len(ids), ids[j] = r PROVE j = i
    <3>1. CASE j <= Len(order)
      <4>1. j \in 1..Len(order)
        BY <3>1, <1>1, <1>2
      <4> QED
        BY <4>1, <2>2, <1>3
    <3>2. CASE j > Len(order)
      <4>1. PICK k \in 1..Len(padding) : j = Len(order) + k
        <5>1. j - Len(order) \in 1..Len(padding) /\ j = Len(order) + (j - Len(order))
          BY <3>2, <1>1, <1>2
        <5> QED
          BY <5>1
      <4>2. padding[k] = r
        BY <4>1, <2>2, <1>3
      <4>3. r \in ToSet(order)
        BY DEF ToSet
      <4> QED
        BY <4>2, <4>3
    <3> QED
      BY <3>1, <3>2, <1>1, <1>2
  <2> QED
    BY <2>1, <2>2
<1>5. Max({i}) = i /\ i # 0
  BY DEF Max
<1>6. SelectLastInSeq(m.ids, LAMBDA id : id = r) = i
  BY <1>1, <1>4, <1>5 DEF SelectLastInSeq
<1>7. after[r] = [p \in DOMAIN before[r] |->
                   IF p \in m.offset[i]..(m.offset[i] + m.lens[i] - 1)
                   THEN keys[i][p - m.offset[i] + 1] ELSE before[r][p]]
  BY <1>5, <1>6, Zenon DEF Appended
<1> QED
  BY <1>7, Zenon

\* The padding of a graph's bucket takes cache rows of no active request.
LEMMA DummyRowsApart ==
  ASSUME Shapes, NEW active, NEW n \in Nat, NEW d, d = DummyRows(active, BucketFor(n) - n)
  PROVE  d \in Seq(Nat) /\ Len(d) \in Nat /\ \A j \in 1..Len(d) : d[j] \notin active
<1>1. cache.size \in Nat
  BY DEF Shapes
<1>2. PICK S : S = (1..cache.size) \ active
  OBVIOUS
<1>3. PICK o : o = InOrder(S)
  OBVIOUS
<1>4. o \in Seq(S) /\ Len(o) \in Nat /\ S \subseteq 1..cache.size
  <2>1. S \subseteq 1..cache.size
    BY <1>2
  <2> QED
    BY <1>1, <1>3, <2>1, InOrderIs
<1>5. PICK need : need = BucketFor(n) - n
  OBVIOUS
<1>6. need \in Nat
  <2>1. PICK fits : fits = {i \in DOMAIN Buckets : Buckets[i] >= n}
    OBVIOUS
  <2>2. BucketFor(n) = IF fits = {} THEN n ELSE Buckets[Min(fits)]
    BY <2>1 DEF BucketFor
  <2>3. fits \in SUBSET Nat
    BY <2>1, BucketsAssumption
  <2>4. CASE fits = {}
    BY <2>2, <2>4, <1>5
  <2>5. CASE fits # {}
    <3>1. Min(fits) \in fits
      BY <2>3, <2>5, MinIs
    <3>2. Buckets[Min(fits)] \in Nat /\ Buckets[Min(fits)] >= n
      BY <2>1, <3>1, BucketsAssumption
    <3> QED
      BY <2>2, <2>5, <3>2, <1>5
  <2> QED
    BY <2>4, <2>5
<1>7. PICK k : k = Min({need, Len(o)})
  OBVIOUS
<1>8. k \in Nat /\ k <= Len(o)
  BY <1>4, <1>6, <1>7, MinOfTwo
<1>9. d = SubSeq(o, 1, k)
  BY <1>2, <1>3, <1>5, <1>7 DEF DummyRows
<1>10. d \in Seq(S) /\ Len(d) = k
  BY <1>4, <1>8, <1>9
<1>11. \A s \in S : s \in Nat /\ s \notin active
  BY <1>1, <1>2
<1> QED
  BY <1>8, <1>10, <1>11

\* What a query of row r at q finds in the cache.
LooksAt(r, ph, q, w, kvLen, replay, after) ==
  Looks(r, ph, q, w, [k \in MaskOf(ph, replay, q, kvLen, w) |-> after[k]])

\* The looks of the first n rows of a launch.
LEMMA LooksAre ==
  ASSUME NEW after, NEW m, NEW n, NEW ph, NEW replay, NEW a \in PagedLooks(after, m, n, ph, replay)
  PROVE  \E i \in 1..n : \E q \in m.offset[i]..(m.offset[i] + m.lens[i] - 1) : \E w \in {0, Window} :
           a = LooksAt(m.ids[i], ph, q, w, m.offset[i] + m.lens[i], replay, after[m.ids[i]])
<1>1. PICK i \in 1..n : a \in RowLooks(after, m, i, ph, replay)
  BY Zenon DEF PagedLooks
<1>2. PICK q \in m.offset[i]..(m.offset[i] + m.lens[i] - 1), w \in {0, Window} :
        a = Looks(m.ids[i], ph, q, w, [k \in MaskOf(ph, replay, q, m.offset[i] + m.lens[i], w) |-> after[m.ids[i]][k]])
  BY <1>1 DEF RowLooks
<1> QED
  BY <1>2, Zenon DEF LooksAt

\* What a launch leaves in the cache rows it is about.
LEMMA RowsLaunched ==
  ASSUME Shapes, NEW m, NEW keys, mem' = Appended(mem, m, keys), MetadataOK(m, cache),
         NEW order, NEW padding, Names(m, order, padding),
         NEW i \in 1..Len(order), NEW r, r = order[i]
  PROVE  /\ r \in 1..cache.size /\ m.offset[i] + m.lens[i] <= cache.max /\ m.ids[i] = r
         /\ \A p \in 0..(cache.max - 1) :
              mem'[r][p] = IF p \in m.offset[i]..(m.offset[i] + m.lens[i] - 1)
                           THEN keys[i][p - m.offset[i] + 1] ELSE mem[r][p]
<1>1. m.ids[i] = r /\ i \in DOMAIN m.ids
  BY DEF Names
<1>2. r \in 1..cache.size /\ m.offset[i] + m.lens[i] <= cache.max
  BY <1>1 DEF MetadataOK
<1>3. DOMAIN mem = 1..cache.size /\ DOMAIN mem[r] = 0..(cache.max - 1)
  BY <1>2 DEF Shapes
<1>4. \A p \in DOMAIN mem[r] :
        mem'[r][p] = IF p \in m.offset[i]..(m.offset[i] + m.lens[i] - 1)
                     THEN keys[i][p - m.offset[i] + 1] ELSE mem[r][p]
  <2>1. PICK before, after : before = mem /\ after = mem'
    OBVIOUS
  <2>2. r \in DOMAIN before /\ after = Appended(before, m, keys)
    BY <1>2, <1>3, <2>1
  <2>3. \A p \in DOMAIN before[r] :
          after[r][p] = IF p \in m.offset[i]..(m.offset[i] + m.lens[i] - 1)
                        THEN keys[i][p - m.offset[i] + 1] ELSE before[r][p]
    BY <2>2, AppendedRow
  <2> QED
    BY <2>1, <2>3, Zenon
<1> QED
  BY <1>1, <1>2, <1>3, <1>4

MemShape(after) ==
  DOMAIN after = 1..cache.size /\ \A r \in 1..cache.size : DOMAIN after[r] = 0..(cache.max - 1)

\* Rows are numbered from one; each has its type.
LEMMA ActiveRows ==
  ASSUME Shapes
  PROVE  /\ Active \subseteq RowIds /\ RowIds = 1..Len(rows) /\ Len(rows) \in Nat
         /\ \A r \in RowIds : rows[r] \in RowType
         /\ \A r \in RowIds : PrefixLength(r) \in Nat
<1>1. rows \in Seq(RowType)
  BY DEF Shapes
<1>2. RowIds = 1..Len(rows) /\ Len(rows) \in Nat /\ \A r \in RowIds : rows[r] \in RowType
  BY <1>1 DEF RowIds
<1>3. \A r \in RowIds : rows[r].prompt \in Nat /\ rows[r].emitted \in Seq(Tokens)
  BY <1>2 DEF RowType
<1>4. \A r \in RowIds : PrefixLength(r) \in Nat
  BY <1>3 DEF PrefixLength
<1> QED
  BY <1>2, <1>4 DEF Active

\* The keys of the canvas of row r, and what is left of the others.
Written(r, p, tokens) ==
  IF p \in PrefixLength(r)..(PrefixLength(r) + Canvas - 1)
  THEN Own(r, p, tokens[r][p - PrefixLength(r) + 1]) ELSE mem[r][p]

\* A pass over the canvases of the active rows, eager or through a graph.
PagedPass(ph, tokens, replay) ==
  /\ replay => ph = "denoise" /\ ~GraphRefused(Window)
  /\ MemShape(mem') /\ UNCHANGED dense
  /\ \A r \in Active :
       /\ r \in 1..cache.size /\ PrefixLength(r) + Canvas <= cache.max
       /\ \A p \in 0..(cache.max - 1) : mem'[r][p] = Written(r, p, tokens)
  /\ \A a \in seen' :
       \E r \in Active : \E q \in PrefixLength(r)..(PrefixLength(r) + Canvas - 1) : \E w \in {0, Window} :
         a = LooksAt(r, ph, q, w, PrefixLength(r) + Canvas, replay, mem'[r])

\* A launch over the paged cache, replayed or not, writes the canvases of the
\* active rows behind what they have and looks at nothing else.
LEMMA PagedLaunch ==
  ASSUME Shapes, NEW ph, NEW tokens, NEW order, order = InOrder(Active), PagedForward(ph, order, tokens)
  PROVE  \E replay \in BOOLEAN : PagedPass(ph, tokens, replay)
<1>1. /\ Active \subseteq RowIds /\ RowIds = 1..Len(rows) /\ Len(rows) \in Nat
      /\ \A r \in RowIds : PrefixLength(r) \in Nat
  BY ActiveRows
<1>2. /\ order \in Seq(Active) /\ Len(order) \in Nat /\ DOMAIN order = 1..Len(order)
      /\ ToSet(order) = Active
      /\ \A i, j \in 1..Len(order) : order[i] = order[j] => i = j
  <2>0. PICK N \in Nat : N = Len(rows)
    BY <1>1
  <2>1. PICK S : S = Active
    OBVIOUS
  <2>2. S \subseteq 1..N /\ order = InOrder(S)
    BY <1>1, <2>0, <2>1
  <2>3. /\ order \in Seq(S) /\ Len(order) \in Nat /\ DOMAIN order = 1..Len(order)
        /\ ToSet(order) = S
        /\ \A i, j \in 1..Len(order) : order[i] = order[j] => i = j
    BY <2>2, InOrderIs
  <2> QED
    BY <2>1, <2>3
<1>3. order \in Seq(Nat)
  <2>1. \A r \in Active : r \in Nat
    BY <1>1
  <2> QED
    BY <1>2, <2>1
<1>4. PICK n \in Nat : n = Len(order)
  BY <1>2
<1>5. PICK m, d, replay, key, used :
        /\ m = CanvasMetadata(order)
        /\ d = DummyRows(ToSet(order), BucketFor(Len(order)) - Len(order))
        /\ replay = Replays(ph, Len(order), Len(d))
        /\ used = IF replay THEN Entry(key, PaddedMetadata(m, d)) ELSE m
        /\ replay => ~GraphRefused(Window)
        /\ Launched(used, CanvasKeys(order, Len(d), m.offset, tokens), Len(order), ph, replay)
        /\ UNCHANGED dense
  <2>1. PICK m \in {CanvasMetadata(order)},
             d \in {DummyRows(ToSet(order), BucketFor(Len(order)) - Len(order))} :
          \E replay \in {Replays(ph, Len(order), Len(d))}, key \in {<<BucketFor(Len(order)), cache.gen>>} :
            \E used \in {IF replay THEN Entry(key, PaddedMetadata(m, d)) ELSE m} :
              /\ replay => ~GraphRefused(Window)
              /\ Launched(used, CanvasKeys(order, Len(d), m.offset, tokens), Len(order), ph, replay)
              /\ entries' = IF replay THEN Stored(key, used) ELSE entries
              /\ UNCHANGED dense
    BY DEF PagedForward
  <2>2. PICK replay \in {Replays(ph, Len(order), Len(d))}, key \in {<<BucketFor(Len(order)), cache.gen>>} :
          \E used \in {IF replay THEN Entry(key, PaddedMetadata(m, d)) ELSE m} :
            /\ replay => ~GraphRefused(Window)
            /\ Launched(used, CanvasKeys(order, Len(d), m.offset, tokens), Len(order), ph, replay)
            /\ entries' = IF replay THEN Stored(key, used) ELSE entries
            /\ UNCHANGED dense
    BY <2>1
  <2>3. PICK used \in {IF replay THEN Entry(key, PaddedMetadata(m, d)) ELSE m} :
          /\ replay => ~GraphRefused(Window)
          /\ Launched(used, CanvasKeys(order, Len(d), m.offset, tokens), Len(order), ph, replay)
          /\ UNCHANGED dense
    BY <2>2
  <2> QED
    BY <2>1, <2>2, <2>3
<1>6. d = DummyRows(ToSet(order), BucketFor(Len(order)) - Len(order))
  BY <1>5
<1>7. d \in Seq(Nat) /\ Len(d) \in Nat /\ \A j \in 1..Len(d) : d[j] \notin ToSet(order)
  BY <1>2, <1>6, DummyRowsApart
<1>8. replay \in BOOLEAN /\ (replay => ph = "denoise")
  BY <1>5 DEF Replays
<1>9. /\ m.ids = order
      /\ m.offset = [i \in 1..n |-> PrefixLength(order[i])]
      /\ m.lens = [i \in 1..n |-> Canvas]
  <2>1. PICK f, g : f = [i \in 1..n |-> PrefixLength(order[i])] /\ g = [i \in 1..n |-> Canvas]
    OBVIOUS
  <2>2. f = [i \in 1..n |-> f[i]] /\ g = [i \in 1..n |-> g[i]]
    BY <2>1
  <2>3. Tuple(f) = f /\ Tuple(g) = g
    BY <2>2, TupleIs
  <2>4. m = [ids |-> order, offset |-> Tuple(f), lens |-> Tuple(g)]
    BY <1>2, <1>4, <1>5, <2>1 DEF CanvasMetadata, Metadata
  <2> QED
    BY <2>1, <2>3, <2>4
<1>10. \A i \in 1..n : order[i] \in Active /\ PrefixLength(order[i]) \in Nat
  <2>1. \A r \in Active : PrefixLength(r) \in Nat
    BY <1>1
  <2>2. \A i \in 1..n : order[i] \in Active
    BY <1>2, <1>4
  <2> QED
    BY <2>1, <2>2, Zenon
<1>11. /\ m.offset \in Seq(Nat) /\ Len(m.offset) = n /\ m.lens \in Seq(Nat) /\ Len(m.lens) = n
       /\ \A i \in 1..n : m.offset[i] = PrefixLength(order[i]) /\ m.lens[i] = Canvas
  BY <1>9, <1>10, SizesAssumption
<1>12. /\ \A i \in 1..n : used.offset[i] = PrefixLength(order[i]) /\ used.lens[i] = Canvas
       /\ used.ids = order \o (IF replay THEN d ELSE <<>>)
  <2>1. CASE replay
    <3>1. used = PaddedMetadata(m, d)
      BY <2>1, <1>5 DEF Entry, CopyMetadata
    <3>2. PICK f, g : f = [i \in 1..Len(d) |-> 0] /\ g = [i \in 1..Len(d) |-> Canvas]
      OBVIOUS
    <3>3. Tuple(f) = f /\ Tuple(g) = g
      BY <3>2, <1>7, TupleIs
    <3>4. f \in Seq(Nat) /\ g \in Seq(Nat)
      BY <3>2, <1>7, SizesAssumption
    <3>5. /\ used.ids = order \o d /\ used.offset = m.offset \o f /\ used.lens = m.lens \o g
      <4>1. DOMAIN d = 1..Len(d)
        BY <1>7
      <4> QED
        BY <4>1, <3>1, <3>2, <3>3, <1>9 DEF PaddedMetadata, Metadata
    <3>6. \A i \in 1..n : (m.offset \o f)[i] = m.offset[i] /\ (m.lens \o g)[i] = m.lens[i]
      BY <1>11, <3>4
    <3> QED
      BY <2>1, <3>5, <3>6, <1>11
  <2>2. CASE ~replay
    <3>1. used = m /\ order \o <<>> = order
      BY <2>2, <1>5, <1>3
    <3> QED
      BY <2>2, <3>1, <1>9, <1>11
  <2> QED
    BY <2>1, <2>2
<1>13. Names(used, order, IF replay THEN d ELSE <<>>)
  BY <1>2, <1>3, <1>7, <1>12 DEF Names
<1>14. PICK keys : keys = CanvasKeys(order, Len(d), m.offset, tokens)
  OBVIOUS
<1>15. \A i \in 1..n : \A j \in 1..Canvas :
         keys[i][j] = Own(order[i], PrefixLength(order[i]) + j - 1, tokens[order[i]][j])
  <2> SUFFICES ASSUME NEW i \in 1..n, NEW j \in 1..Canvas
               PROVE  keys[i][j] = Own(order[i], PrefixLength(order[i]) + j - 1, tokens[order[i]][j])
    OBVIOUS
  <2> DEFINE Row(k) == [l \in 1..Canvas |->
               IF k > n THEN Stale ELSE Own(order[k], m.offset[k] + l - 1, tokens[order[k]][l])]
  <2>1. PICK f : f = [k \in 1..(n + Len(d)) |-> Tuple(Row(k))]
    OBVIOUS
  <2>2. keys = Tuple(f)
    BY <1>4, <1>14, <2>1 DEF CanvasKeys
  <2>3. n + Len(d) \in Nat /\ i \in 1..(n + Len(d)) /\ ~(i > n)
    BY <1>4, <1>7
  <2> HIDE DEF Row
  <2>4. f = [k \in 1..(n + Len(d)) |-> f[k]]
    BY <2>1
  <2>5. keys[i] = Tuple(Row(i))
    <3>1. Tuple(f) = f
      BY <2>3, <2>4, TupleIs
    <3> QED
      BY <3>1, <2>1, <2>2, <2>3
  <2>6. Row(i) = [l \in 1..Canvas |-> Row(i)[l]]
    BY DEF Row
  <2>7. Tuple(Row(i)) = Row(i)
    BY <2>6, SizesAssumption, TupleIs
  <2>8. Row(i)[j] = Own(order[i], m.offset[i] + j - 1, tokens[order[i]][j])
    BY <2>3 DEF Row
  <2> QED
    BY <2>5, <2>7, <2>8, <1>11
<1>16. /\ MetadataOK(used, cache) /\ mem' = Appended(mem, used, keys)
       /\ seen' = PagedLooks(mem', used, n, ph, replay)
  BY <1>4, <1>5, <1>14 DEF Launched
<1>17. MemShape(mem')
  <2>1. DOMAIN mem' = DOMAIN mem /\ \A r \in DOMAIN mem : DOMAIN mem'[r] = DOMAIN mem[r]
    BY <1>16, AppendedShape
  <2> QED
    BY <2>1 DEF Shapes, MemShape
<1>18. ASSUME NEW i \in 1..n, NEW r, r = order[i]
       PROVE  /\ r \in 1..cache.size /\ PrefixLength(r) + Canvas <= cache.max /\ used.ids[i] = r
              /\ \A p \in 0..(cache.max - 1) : mem'[r][p] = Written(r, p, tokens)
  <2>1. i \in 1..Len(order) /\ used.offset[i] = PrefixLength(r) /\ used.lens[i] = Canvas
    BY <1>4, <1>12, <1>18
  <2>2. /\ r \in 1..cache.size /\ PrefixLength(r) + Canvas <= cache.max /\ used.ids[i] = r
        /\ \A p \in 0..(cache.max - 1) :
             mem'[r][p] = IF p \in PrefixLength(r)..(PrefixLength(r) + Canvas - 1)
                          THEN keys[i][p - PrefixLength(r) + 1] ELSE mem[r][p]
    BY <1>13, <1>16, <1>18, <2>1, RowsLaunched
  <2>3. ASSUME NEW p \in PrefixLength(r)..(PrefixLength(r) + Canvas - 1)
        PROVE  keys[i][p - PrefixLength(r) + 1] = Own(r, p, tokens[r][p - PrefixLength(r) + 1])
    <3>1. PICK j : j = p - PrefixLength(r) + 1
      OBVIOUS
    <3>2. j \in 1..Canvas /\ PrefixLength(r) + j - 1 = p
      <4>1. PrefixLength(r) \in Nat /\ Canvas \in Nat
        BY <1>10, <1>18, SizesAssumption
      <4> QED
        BY <3>1, <4>1
    <3> QED
      BY <3>1, <3>2, <1>15, <1>18
  <2> QED
    BY <2>2, <2>3 DEF Written
<1>19. ASSUME NEW r \in Active PROVE \E i \in 1..n : r = order[i]
  BY <1>2, <1>4 DEF ToSet
<1>20. ASSUME NEW a \in seen'
       PROVE  \E r \in Active : \E q \in PrefixLength(r)..(PrefixLength(r) + Canvas - 1) : \E w \in {0, Window} :
                a = LooksAt(r, ph, q, w, PrefixLength(r) + Canvas, replay, mem'[r])
  <2>1. PICK i \in 1..n : \E q \in used.offset[i]..(used.offset[i] + used.lens[i] - 1) : \E w \in {0, Window} :
          a = LooksAt(used.ids[i], ph, q, w, used.offset[i] + used.lens[i], replay, mem'[used.ids[i]])
    BY <1>16, LooksAre
  <2>2. used.ids[i] = order[i] /\ used.offset[i] = PrefixLength(order[i]) /\ used.lens[i] = Canvas
    BY <1>12, <1>18
  <2> QED
    BY <2>1, <2>2, <1>10
<1>21. PagedPass(ph, tokens, replay)
  BY <1>5, <1>8, <1>17, <1>18, <1>19, <1>20 DEF PagedPass
<1> QED
  BY <1>8, <1>21

-----------------------------------------------------------------------------
(* What the queries see.                                                   *)

\* Division by the length of a canvas.
LEMMA CanvasParts ==
  ASSUME NEW c \in Nat, NEW j \in 0..(Canvas - 1), NEW x, x = c * Canvas + j
  PROVE  x \in Nat /\ x % Canvas = j /\ x \div Canvas = c
<1>1. PICK k \in Nat : k = Canvas /\ k > 0
  BY SizesAssumption
<1>2. PICK y \in Nat : y = c * k
  BY <1>1
<1>3. x \in Nat /\ x = y + j /\ j \in 0..(k - 1)
  BY <1>1, <1>2
<1>4. PICK d \in Int, e \in Int : d = x \div k /\ e = x % k
  BY <1>1, <1>3
<1>5. x = d * k + e /\ e \in 0..(k - 1)
  BY <1>1, <1>3, <1>4
<1>6. d = c
  <2>1. CASE d >= c + 1
    <3>1. d * k >= (c + 1) * k
      BY <2>1, <1>1, <1>4
    <3>2. (c + 1) * k = y + k
      BY <1>1, <1>2
    <3> QED
      BY <3>1, <3>2, <1>3, <1>5, <1>1, <1>4
  <2>2. CASE d <= c - 1
    <3>1. d * k <= (c - 1) * k
      BY <2>2, <1>1, <1>4
    <3>2. (c - 1) * k = y - k
      BY <1>1, <1>2
    <3> QED
      BY <3>1, <3>2, <1>3, <1>5, <1>1, <1>4
  <2> QED
    BY <2>1, <2>2, <1>4
<1>7. e = j
  BY <1>2, <1>3, <1>5, <1>6
<1> QED
  BY <1>1, <1>3, <1>4, <1>6, <1>7

\* A row that is active has whole canvases behind its prompt.
LEMMA ActiveRow ==
  ASSUME Shapes, RowsFit, NEW r \in Active
  PROVE  /\ r \in RowIds /\ rows[r] \in RowType /\ rows[r].active /\ rows[r].prefilled
         /\ rows[r].prompt \in Nat /\ rows[r].emitted \in Seq(Tokens) /\ PrefixLength(r) \in Nat
         /\ rows[r].remaining \in Nat /\ rows[r].remaining > 0 /\ rows[r].gen \in Nat /\ rows[r].steps \in Nat
         /\ Len(rows[r].emitted) + rows[r].remaining = rows[r].gen
         /\ \E c \in Nat : /\ Len(rows[r].emitted) = c * Canvas /\ rows[r].steps <= MaxSteps * c
                           /\ PrefixLength(r) = rows[r].prompt + c * Canvas
<1>1. r \in RowIds /\ rows[r].active
  BY DEF Active
<1>2. rows[r] \in RowType /\ PrefixLength(r) \in Nat
  BY <1>1, ActiveRows
<1>3. RowFits(rows[r], Stops)
  BY <1>1 DEF RowsFit
<1> QED
  BY <1>1, <1>2, <1>3 DEF RowFits, Growing, RowType, PrefixLength

Mine(keys, r) == \A k \in DOMAIN keys : keys[k][1] = call * 10 + r /\ keys[k][2] = k

\* A look at row r whose keys are those.
Sees(a, r, ph, q, w, kvLen) ==
  /\ a = Looks(r, ph, q, w, a.keys)
  /\ DOMAIN a.keys = Visible(ph, q, kvLen, w) /\ Mine(a.keys, r)

\* A pass over canvases, whichever runner: SeesWindow follows.
LEMMA CanvasSeen ==
  ASSUME Shapes, RowsFit, call' = call, NEW ph, ph \in {"denoise", "commit"},
         \A r \in Active : rows'[r].prompt = rows[r].prompt,
         \A a \in seen' : \E r \in Active : \E q \in PrefixLength(r)..(PrefixLength(r) + Canvas - 1) :
           \E w \in {0, Window} : Sees(a, r, ph, q, w, PrefixLength(r) + Canvas)
  PROVE  SeesWindow'
<1> SUFFICES ASSUME NEW a \in seen'
             PROVE  LET kvLen == IF a.phase = "prefill" THEN rows'[a.row].prompt
                                 ELSE a.q - ((a.q - rows'[a.row].prompt) % Canvas) + Canvas
                    IN /\ DOMAIN a.keys = Visible(a.phase, a.q, kvLen, a.window)
                       /\ \A k \in DOMAIN a.keys : a.keys[k][1] = call' * 10 + a.row /\ a.keys[k][2] = k
  BY DEF SeesWindow
<1>1. PICK r \in Active : \E q \in PrefixLength(r)..(PrefixLength(r) + Canvas - 1) :
           \E w \in {0, Window} : Sees(a, r, ph, q, w, PrefixLength(r) + Canvas)
  OBVIOUS
<1>2. PICK q \in PrefixLength(r)..(PrefixLength(r) + Canvas - 1) :
        \E w \in {0, Window} : Sees(a, r, ph, q, w, PrefixLength(r) + Canvas)
  BY <1>1
<1>3. PICK w \in {0, Window} : Sees(a, r, ph, q, w, PrefixLength(r) + Canvas)
  BY <1>2
<1>4. a.row = r /\ a.phase = ph /\ a.q = q /\ a.window = w
  <2>1. PICK ks : a = Looks(r, ph, q, w, ks)
    BY <1>3 DEF Sees
  <2> QED
    BY <2>1 DEF Looks
<1>5. q - ((q - rows'[r].prompt) % Canvas) + Canvas = PrefixLength(r) + Canvas
  <2>1. PICK c \in Nat : PrefixLength(r) = rows[r].prompt + c * Canvas
    BY ActiveRow
  <2>2. rows'[r].prompt = rows[r].prompt /\ rows[r].prompt \in Nat /\ PrefixLength(r) \in Nat /\ Canvas \in Nat
    BY ActiveRow, SizesAssumption
  <2>3. PICK j, x, y : j = q - PrefixLength(r) /\ x = q - rows[r].prompt /\ y = c * Canvas
    OBVIOUS
  <2>4. y \in Nat
    BY <2>2, <2>3
  <2>5. j \in 0..(Canvas - 1) /\ x = y + j
    BY <2>1, <2>2, <2>3, <2>4
  <2>6. x % Canvas = j
    BY <2>3, <2>5, CanvasParts
  <2> QED
    BY <2>2, <2>3, <2>5, <2>6
<1>6. ph # "prefill"
  OBVIOUS
<1>7. /\ DOMAIN a.keys = Visible(ph, q, PrefixLength(r) + Canvas, w)
      /\ \A k \in DOMAIN a.keys : a.keys[k][1] = call' * 10 + r /\ a.keys[k][2] = k
  BY <1>3 DEF Sees, Mine
<1>8. PICK kvLen : kvLen = IF a.phase = "prefill" THEN rows'[a.row].prompt
                           ELSE a.q - ((a.q - rows'[a.row].prompt) % Canvas) + Canvas
  OBVIOUS
<1>9. kvLen = PrefixLength(r) + Canvas
  BY <1>4, <1>5, <1>6, <1>8
<1>10. DOMAIN a.keys = Visible(a.phase, a.q, kvLen, a.window)
  BY <1>4, <1>7, <1>9
<1> QED
  BY <1>4, <1>7, <1>8, <1>10

\* The mask of the eager runner is the window.
LEMMA EagerSees ==
  ASSUME NEW ph, NEW q \in Nat, NEW kvLen \in Nat, NEW w \in Nat
  PROVE  EagerMask(ph, q, kvLen, w) = Visible(ph, q, kvLen, w)
<1>1. \A k \in 0..(kvLen - 1) :
        (w # 0 => k - q < w /\ q - k < w) <=> (w # 0 => k \in (q - w + 1)..(q + w - 1))
  OBVIOUS
<1> QED
  BY <1>1 DEF EagerMask, Visible

\* The graph's kernel bounds no key behind the query; a canvas within the window does.
LEMMA GraphSees ==
  ASSUME ~GraphRefused(Window), NEW first \in Nat, NEW kvLen \in Nat, kvLen = first + Canvas,
         NEW q \in first..(kvLen - 1), NEW w \in {0, Window}
  PROVE  GraphMask(q, kvLen, w) = Visible("denoise", q, kvLen, w)
<1>1. Canvas \in Nat /\ Window \in Nat /\ w \in Nat /\ q \in Nat
  BY SizesAssumption
<1>2. Window = 0 \/ Canvas <= Window
  BY <1>1 DEF GraphRefused
<1>3. \A k \in 0..(kvLen - 1) :
        (w # 0 => q - k <= w - 1) <=> (w # 0 => k \in (q - w + 1)..(q + w - 1))
  BY <1>1, <1>2
<1> QED
  BY <1>3 DEF GraphMask, Visible

\* The owner and the position of a key.
LEMMA OwnIs ==
  ASSUME NEW r, NEW p, NEW what
  PROVE  Own(r, p, what)[1] = call * 10 + r /\ Own(r, p, what)[2] = p
BY DEF Own

\* The paged runner and the graphs.
LEMMA PagedSeen ==
  ASSUME IInv, Running, mode # "dense", NEW ph, ph \in {"denoise", "commit"}, NEW tokens, NEW replay \in BOOLEAN,
         PagedPass(ph, tokens, replay), call' = call,
         \A r \in Active : rows'[r].prompt = rows[r].prompt
  PROVE  SeesWindow'
<1>1. Shapes /\ RowsFit /\ KVCommitted
  BY DEF IInv
<1>2. ASSUME NEW a \in seen'
      PROVE  \E r \in Active : \E q \in PrefixLength(r)..(PrefixLength(r) + Canvas - 1) :
               \E w \in {0, Window} : Sees(a, r, ph, q, w, PrefixLength(r) + Canvas)
  <2>1. PICK r \in Active : \E q \in PrefixLength(r)..(PrefixLength(r) + Canvas - 1) : \E w \in {0, Window} :
         a = LooksAt(r, ph, q, w, PrefixLength(r) + Canvas, replay, mem'[r])
    BY <1>2 DEF PagedPass
  <2>2. PICK q \in PrefixLength(r)..(PrefixLength(r) + Canvas - 1) : \E w \in {0, Window} :
         a = LooksAt(r, ph, q, w, PrefixLength(r) + Canvas, replay, mem'[r])
    BY <2>1
  <2>3. PICK w \in {0, Window} : a = LooksAt(r, ph, q, w, PrefixLength(r) + Canvas, replay, mem'[r])
    BY <2>2
  <2>4. PrefixLength(r) \in Nat /\ Canvas \in Nat
    BY <1>1, ActiveRow, SizesAssumption
  <2>5. PICK keys : keys = [k \in Visible(ph, q, PrefixLength(r) + Canvas, w) |-> mem'[r][k]]
    OBVIOUS
  <2>6. a = Looks(r, ph, q, w, keys)
    <3>1. PICK first \in Nat, kvLen \in Nat : first = PrefixLength(r) /\ kvLen = first + Canvas
      BY <2>4
    <3>2. q \in first..(kvLen - 1)
      BY <3>1, <2>4
    <3>3. MaskOf(ph, replay, q, kvLen, w) = Visible(ph, q, kvLen, w)
      <4>1. CASE replay
        <5>1. ph = "denoise" /\ ~GraphRefused(Window)
          BY <4>1 DEF PagedPass
        <5>2. GraphMask(q, kvLen, w) = Visible("denoise", q, kvLen, w)
          BY <3>1, <3>2, <5>1, GraphSees
        <5> QED
          BY <4>1, <5>1, <5>2 DEF MaskOf
      <4>2. CASE ~replay
        <5>1. q \in Nat /\ w \in Nat
          BY <2>4, SizesAssumption
        <5> QED
          BY <4>2, <5>1, EagerSees DEF MaskOf
      <4> QED
        BY <4>1, <4>2
    <3> QED
      BY <2>3, <2>5, <3>1, <3>3, Zenon DEF LooksAt
  <2>7. a.keys = keys
    BY <2>6 DEF Looks
  <2>8. \A k \in DOMAIN keys : keys[k] = mem'[r][k] /\ k \in 0..(PrefixLength(r) + Canvas - 1)
    <3>1. 0..((PrefixLength(r) + Canvas) - 1) = 0..(PrefixLength(r) + Canvas - 1)
      BY <2>4
    <3>2. \A k \in Visible(ph, q, PrefixLength(r) + Canvas, w) : k \in 0..((PrefixLength(r) + Canvas) - 1)
      BY Zenon DEF Visible
    <3> QED
      BY <2>5, <3>1, <3>2
  <2>9. ASSUME NEW k \in 0..(PrefixLength(r) + Canvas - 1)
        PROVE  mem'[r][k][1] = call * 10 + r /\ mem'[r][k][2] = k
    <3>1. mem'[r][k] = Written(r, k, tokens)
      <4>1. PrefixLength(r) + Canvas <= cache.max /\ cache.max \in Nat
        BY <1>1 DEF PagedPass, Shapes
      <4>2. k \in 0..(cache.max - 1)
        BY <2>4, <4>1
      <4> QED
        BY <4>2 DEF PagedPass
    <3>2. CASE k < PrefixLength(r)
      <4>1. k \in 0..(PrefixLength(r) - 1) /\ k \notin PrefixLength(r)..(PrefixLength(r) + Canvas - 1)
        BY <2>4, <3>2
      <4>2. mem'[r][k] = Committed(r, k)
        BY <3>1, <4>1, <1>1 DEF Written, KVCommitted, Running
      <4> QED
        BY <4>2, OwnIs DEF Committed
    <3>3. CASE ~(k < PrefixLength(r))
      <4>1. k \in PrefixLength(r)..(PrefixLength(r) + Canvas - 1)
        BY <2>4, <3>3
      <4> QED
        BY <3>1, <4>1, OwnIs DEF Written
    <3> QED
      BY <3>2, <3>3
  <2>10. Sees(a, r, ph, q, w, PrefixLength(r) + Canvas)
    BY <2>5, <2>6, <2>7, <2>8, <2>9 DEF Sees, Mine
  <2> QED
    BY <2>10
<1> QED
  BY <1>1, <1>2, CanvasSeen

\* The parts of a concatenation.
LEMMA ConcatIs ==
  ASSUME NEW S, NEW s \in Seq(S), NEW t \in Seq(S)
  PROVE  /\ s \o t \in Seq(S) /\ Len(s \o t) = Len(s) + Len(t)
         /\ \A i \in 1..Len(s) : (s \o t)[i] = s[i]
         /\ \A j \in 1..Len(t) : (s \o t)[Len(s) + j] = t[j]
OBVIOUS

\* A part of a sequence.
LEMMA PartIs ==
  ASSUME NEW S, NEW u \in Seq(S), NEW z \in Nat, NEW l \in Nat, z + l <= Len(u),
         NEW t, t = SubSeq(u, z + 1, z + l)
  PROVE  t \in Seq(S) /\ Len(t) = l /\ \A i \in 1..l : t[i] = u[z + i]
<1>1. \A i \in 1..l : z + i \in 1..Len(u) /\ z + 1 + i - 1 = z + i
  OBVIOUS
<1>2. (z + l) - (z + 1) + 1 = l
  OBVIOUS
<1>3. t = [i \in 1..l |-> u[z + i]]
  BY <1>1, <1>2
<1> QED
  BY <1>1, <1>3

\* The keys of a launch follow n others.
Follow(own, key, n, more) ==
  own \in Seq(Keys) /\ Len(own) = more /\ \A j \in 1..more : own[j] = key[n + j - 1]

Joined(u, key, n, c, more) ==
  /\ c \in Nat /\ c <= n /\ u \in Seq(Keys) /\ Len(u) = c + more
  /\ \A i \in 1..(c + more) : u[i] = key[n - c + i - 1]

\* What a cache holds, followed by the next keys.
LEMMA JoinedKeys ==
  ASSUME NEW w \in Nat, NEW n \in Nat, NEW more \in Nat, NEW key, NEW s, Holds(s, key, n, w),
         NEW own, Follow(own, key, n, more), NEW u, u = s \o own, NEW c, c = Cut(n, w)
  PROVE  Joined(u, key, n, c, more)
<1>1. c \in Nat /\ c <= n
  BY DEF Cut
<1>2. s \in Seq(Keys) /\ Len(s) = c /\ own \in Seq(Keys) /\ Len(own) = more
  BY DEF Holds, Follow
<1>3. /\ u \in Seq(Keys) /\ Len(u) = c + more
      /\ \A i \in 1..c : u[i] = s[i]
      /\ \A j \in 1..more : u[c + j] = own[j]
  <2>1. /\ s \o own \in Seq(Keys) /\ Len(s \o own) = Len(s) + Len(own)
        /\ \A i \in 1..Len(s) : (s \o own)[i] = s[i]
        /\ \A j \in 1..Len(own) : (s \o own)[Len(s) + j] = own[j]
    <3>1. PICK S : S = Keys
      OBVIOUS
    <3>2. s \in Seq(S) /\ own \in Seq(S)
      BY <1>2, <3>1
    <3> QED
      BY <3>1, <3>2, ConcatIs
  <2> QED
    BY <1>2, <2>1
<1>4. ASSUME NEW i \in 1..(c + more) PROVE u[i] = key[n - c + i - 1]
  <2>1. CASE i <= c
    <3>1. i \in 1..c
      BY <1>1, <2>1
    <3> QED
      BY <1>3, <3>1 DEF Holds
  <2>2. CASE i > c
    <3>1. PICK j : j = i - c
      OBVIOUS
    <3>2. j \in 1..more /\ n + j - 1 = n - c + i - 1 /\ i = c + j
      BY <1>1, <2>2, <3>1
    <3>3. own[j] = key[n + j - 1]
      BY <3>2 DEF Follow
    <3>4. u[i] = own[j]
      BY <1>3, <3>2
    <3> QED
      BY <3>2, <3>3, <3>4
  <2>3. i <= c \/ i > c
    BY <1>1
  <2> QED
    BY <2>1, <2>2, <2>3, Zenon
<1> QED
  BY <1>1, <1>3, <1>4 DEF Joined

\* A layer's cache that held the last keys holds the last ones again.
LEMMA CacheKeeps ==
  ASSUME NEW w \in Nat, NEW n \in Nat, NEW more \in Nat, NEW key, NEW s, Holds(s, key, n, w),
         NEW own, Follow(own, key, n, more)
  PROVE  Holds(CacheForNext(s \o own, w), key, n + more, w)
<1>1. PICK t, u, c : t = CacheForNext(s \o own, w) /\ u = s \o own /\ c = Cut(n, w)
  OBVIOUS
<1>2. /\ c \in Nat /\ c <= n /\ u \in Seq(Keys) /\ Len(u) = c + more
      /\ \A i \in 1..(c + more) : u[i] = key[n - c + i - 1]
  <2>1. Joined(u, key, n, c, more)
    BY <1>1, JoinedKeys
  <2> QED
    BY <2>1 DEF Joined
<1>3. t = IF w = 0 \/ c + more <= w THEN u ELSE SubSeq(u, (c + more) - w + 1, c + more)
  BY <1>1, <1>2 DEF CacheForNext
<1>4. CASE w = 0 \/ c + more <= w
  <2>1. t = u
    BY <1>3, <1>4
  <2>2. c + more = Cut(n + more, w) /\ n + more - (c + more) = n - c
    BY <1>1, <1>2, <1>4 DEF Cut
  <2>3. \A i \in 1..(c + more) : (n + more) - (c + more) + i - 1 = n - c + i - 1
    BY <1>2
  <2>4. \A i \in 1..(c + more) : u[i] = key[(n + more) - (c + more) + i - 1]
    BY <1>2, <2>3
  <2> QED
    BY <1>1, <1>2, <2>1, <2>2, <2>4 DEF Holds
<1>5. CASE ~(w = 0 \/ c + more <= w)
  <2>1. PICK z : z = (c + more) - w
    OBVIOUS
  <2>2. z \in Nat /\ z > 0 /\ c + more = z + w /\ (c + more) - w + 1 = z + 1
    BY <1>2, <1>5, <2>1
  <2>3. t = SubSeq(u, z + 1, z + w)
    BY <1>3, <1>5, <2>2
  <2>4. t \in Seq(Keys) /\ Len(t) = w /\ \A i \in 1..w : t[i] = u[z + i]
    <3>1. z \in Nat /\ z + w <= Len(u) /\ u \in Seq(Keys)
      BY <1>2, <2>2
    <3>2. PICK S : S = Keys
      OBVIOUS
    <3>3. u \in Seq(S)
      BY <3>1, <3>2
    <3>4. t \in Seq(S) /\ Len(t) = w /\ \A i \in 1..w : t[i] = u[z + i]
      BY <2>3, <3>1, <3>3, PartIs
    <3> QED
      BY <3>2, <3>4
  <2>5. w = Cut(n + more, w)
    BY <1>1, <1>2, <1>5 DEF Cut
  <2>6. \A i \in 1..w : z + i \in 1..(c + more) /\ n - c + (z + i) - 1 = (n + more) - w + i - 1
    <3> TAKE i \in 1..w
    <3>1. i \in Nat /\ i >= 1 /\ i <= w
      OBVIOUS
    <3> QED
      BY <1>2, <2>2, <3>1
  <2>7. \A i \in 1..w : t[i] = key[(n + more) - w + i - 1]
    BY <1>2, <2>4, <2>6
  <2> QED
    BY <1>1, <2>4, <2>5, <2>7 DEF Holds
<1> QED
  BY <1>4, <1>5

\* The keys of a canvas.
LEMMA CanvasOfIs ==
  ASSUME Shapes, NEW r \in RowIds, NEW toks
  PROVE  /\ Len(CanvasOf(r, toks)) = Canvas
         /\ CanvasOf(r, toks) \in Seq({Own(r, PrefixLength(r) + i - 1, toks[i]) : i \in 1..Canvas})
         /\ \A i \in 1..Canvas : CanvasOf(r, toks)[i] = Own(r, PrefixLength(r) + i - 1, toks[i])
<1>1. PICK f : f = [i \in 1..Canvas |-> Own(r, PrefixLength(r) + i - 1, toks[i])]
  OBVIOUS
<1>2. f = [i \in 1..Canvas |-> f[i]] /\ CanvasOf(r, toks) = Tuple(f)
  BY <1>1 DEF CanvasOf
<1>3. /\ Tuple(f) = f /\ Len(Tuple(f)) = Canvas
      /\ Tuple(f) \in Seq({f[i] : i \in 1..Canvas})
  BY <1>2, SizesAssumption, TupleIs
<1>4. {f[i] : i \in 1..Canvas} = {Own(r, PrefixLength(r) + i - 1, toks[i]) : i \in 1..Canvas}
  BY <1>1
<1> QED
  BY <1>1, <1>2, <1>3, <1>4

DenseLook(ph, r, first, n, s, q, w) ==
  Looks(r, ph, q, w, [k \in DenseMask(ph, q, first, n, Len(s), w) |-> s[k - DenseStart(first, n, Len(s)) + 1]])

\* What a launch of the dense runner looks at.
LEMMA DenseLooksAre ==
  ASSUME NEW ph, NEW r, NEW first, NEW n, NEW all, NEW a \in DenseLooks(ph, r, first, n, all)
  PROVE  \E q \in first..(first + n - 1), w \in {0, Window} :
          a = DenseLook(ph, r, first, n, all[w], q, w)
BY DEF DenseLooks, DenseLook

\* The dense runner, which may have dropped the oldest keys.
LEMMA DenseSeen ==
  ASSUME IInv, Running, mode = "dense", NEW ph, ph \in {"denoise", "commit"}, NEW r \in Active, NEW toks,
         DenseForward(ph, r, toks), call' = call,
         \A q \in Active : rows'[q].prompt = rows[q].prompt
  PROVE  SeesWindow'
<1>1. Shapes /\ RowsFit /\ DenseKept
  BY DEF IInv
<1>2. r \in RowIds /\ PrefixLength(r) \in Nat /\ Canvas \in Nat /\ Canvas > 0
  BY <1>1, ActiveRow, SizesAssumption
<1>3. PICK first \in Nat : first = PrefixLength(r)
  BY <1>2
<1>4. PICK own : own = CanvasOf(r, toks)
  OBVIOUS
<1>5. PICK T : /\ own \in Seq(T) /\ Len(own) = Canvas
               /\ \A i \in 1..Canvas : own[i] = Own(r, first + i - 1, toks[i])
  BY <1>1, <1>2, <1>3, <1>4, CanvasOfIs, Zenon
<1>6. ASSUME NEW a \in seen'
      PROVE  \E q \in first..(first + Canvas - 1) : \E w \in {0, Window} : Sees(a, r, ph, q, w, first + Canvas)
  <2>0. PICK all : all = [w \in {0, Window} |-> dense[r][w] \o own] /\ seen' = DenseLooks(ph, r, first, Canvas, all)
    BY <1>3, <1>4 DEF DenseForward
  <2>1. PICK q \in first..(first + Canvas - 1), w \in {0, Window} :
          a = DenseLook(ph, r, first, Canvas, all[w], q, w)
    <3>1. a \in DenseLooks(ph, r, first, Canvas, all)
      BY <1>6, <2>0
    <3> QED
      BY <3>1, DenseLooksAre
  <2>2. PICK s : s = dense[r][w]
    OBVIOUS
  <2>3. PICK u : u = s \o own
    OBVIOUS
  <2>4. w \in Nat /\ q \in Nat /\ s \in Seq(Keys) /\ Holds(s, CommittedKeys(r), first, w)
    BY <1>1, <1>2, <1>3, <2>2, SizesAssumption DEF Shapes, DenseKept
  <2>5. PICK n \in Nat : n = Len(s) /\ n = Cut(first, w)
    BY <2>4 DEF Holds
  <2>6. \A i \in 1..n : s[i] = Committed(r, first - n + i - 1)
    <3>1. \A i \in 1..n : s[i] = CommittedKeys(r)[first - n + i - 1]
      BY <2>4, <2>5 DEF Holds
    <3>2. n <= first
      BY <2>4, <2>5 DEF Cut
    <3>3. \A i \in 1..n : first - n + i - 1 \in 0..(first - 1)
      BY <3>2, <2>5
    <3> QED
      BY <1>3, <3>1, <3>3 DEF CommittedKeys
  <2>7. /\ Len(u) = n + Canvas /\ \A i \in 1..n : u[i] = s[i]
        /\ \A j \in 1..Canvas : u[n + j] = own[j]
    <3>1. own \in Seq(T) /\ Len(own) = Canvas
      BY <1>5
    <3>2. PICK S : S = Keys \cup T
      OBVIOUS
    <3>3. s \in Seq(S) /\ own \in Seq(S)
      BY <3>1, <3>2, <2>4
    <3>4. /\ Len(s \o own) = Len(s) + Len(own) /\ \A i \in 1..Len(s) : (s \o own)[i] = s[i]
          /\ \A j \in 1..Len(own) : (s \o own)[Len(s) + j] = own[j]
      BY <3>3, ConcatIs
    <3> QED
      BY <3>1, <3>4, <2>3, <2>5
  <2>8. DenseStart(first, Canvas, n + Canvas) = first - n
    BY <1>2, <2>5 DEF DenseStart
  <2>9. PICK keys : keys = [k \in DenseMask(ph, q, first, Canvas, n + Canvas, w) |-> u[k - (first - n) + 1]]
    OBVIOUS
  <2>10. a = Looks(r, ph, q, w, keys)
    <3>1. all[w] = u /\ Len(all[w]) = n + Canvas
      BY <2>0, <2>2, <2>3, <2>7
    <3> QED
      BY <2>1, <2>8, <2>9, <3>1 DEF DenseLook
  <2>11. a.keys = keys
    BY <2>10 DEF Looks
  <2>12. DenseMask(ph, q, first, Canvas, n + Canvas, w) = Visible(ph, q, first + Canvas, w)
    <3>1. n = first \/ (n = w /\ w < first /\ w # 0)
      BY <2>4, <2>5 DEF Cut
    <3>3. \A k \in Int :
            /\ (k \in (first - n)..(first + Canvas - 1) /\ (w # 0 => k \in (q - w + 1)..(q + w - 1)))
               <=> (k \in 0..((first + Canvas) - 1) /\ (w # 0 => k \in (q - w + 1)..(q + w - 1)))
      BY <1>2, <2>4, <2>5, <3>1
    <3>4. DenseMask(ph, q, first, Canvas, n + Canvas, w) =
            {k \in (first - n)..(first + Canvas - 1) :
              /\ ph # "denoise" => k <= q
              /\ w # 0 => k \in (q - w + 1)..(q + w - 1)}
      BY <2>8 DEF DenseMask
    <3>5. /\ \A k \in (first - n)..(first + Canvas - 1) : k \in Int
          /\ \A k \in 0..((first + Canvas) - 1) : k \in Int
      BY <1>2, <2>5
    <3> QED
      BY <3>3, <3>4, <3>5, Zenon DEF Visible
  <2>13. ASSUME NEW k \in DOMAIN keys PROVE keys[k][1] = call * 10 + r /\ keys[k][2] = k
    <3>1. PICK i : i = k - (first - n) + 1
      OBVIOUS
    <3>2. k \in (first - n)..(first + Canvas - 1) /\ keys[k] = u[i]
      <4>1. k \in DenseMask(ph, q, first, Canvas, n + Canvas, w) /\ keys[k] = u[i]
        BY <2>9, <3>1
      <4>2. k \in (first - n)..(first + Canvas - 1)
        BY <4>1, <2>8 DEF DenseMask
      <4> QED
        BY <4>1, <4>2
    <3>3. i \in 1..(n + Canvas) /\ k = first - n + i - 1
      BY <3>1, <3>2, <1>2, <2>5
    <3>4. CASE i <= n
      <4>1. keys[k] = Committed(r, k)
        BY <2>6, <2>7, <3>2, <3>3, <3>4
      <4> QED
        BY <4>1, OwnIs DEF Committed
    <3>5. CASE i > n
      <4>1. PICK j \in 1..Canvas : i = n + j /\ first + j - 1 = k
        <5>1. i - n \in 1..Canvas /\ i = n + (i - n) /\ first + (i - n) - 1 = k
          BY <3>3, <3>5, <1>2, <2>5
        <5> QED
          BY <5>1
      <4>2. keys[k] = Own(r, k, toks[j])
        BY <1>5, <2>7, <3>2, <4>1
      <4> QED
        BY <4>2, OwnIs
    <3> QED
      BY <3>3, <3>4, <3>5, <2>5
  <2>14. Sees(a, r, ph, q, w, first + Canvas)
    BY <2>9, <2>10, <2>11, <2>12, <2>13 DEF Sees, Mine
  <2> QED
    BY <2>14
<1>7. \A a \in seen' : \E p \in Active : \E q \in PrefixLength(p)..(PrefixLength(p) + Canvas - 1) :
        \E w \in {0, Window} : Sees(a, p, ph, q, w, PrefixLength(p) + Canvas)
  BY <1>3, <1>6
<1> QED
  BY <1>1, <1>7, CanvasSeen

-----------------------------------------------------------------------------
(* A pass over the canvases.                                               *)

\* What a pass leaves in the paged cache, and what the dense one keeps.
PagedAfter(tokens) ==
  /\ MemShape(mem') /\ dense' = dense
  /\ \A r \in Active :
       /\ r \in 1..cache.size /\ PrefixLength(r) + Canvas <= cache.max
       /\ \A p \in 0..(PrefixLength(r) + Canvas - 1) : mem'[r][p] = Written(r, p, tokens)
DenseAfter(ph, tokens) ==
  /\ mem' = mem
  /\ \E r \in Active :
       dense' = IF ph = "denoise" THEN dense
                ELSE [dense EXCEPT ![r] = [w \in {0, Window} |->
                       CacheForNext(dense[r][w] \o CanvasOf(r, tokens[r]), w)]]

\* One forward pass of any runner: what its queries saw, and what the caches hold.
LEMMA PassKeeps ==
  ASSUME IInv, Running, NEW ph, ph \in {"denoise", "commit"}, NEW tokens, Forward(ph, tokens), call' = call,
         \A r \in Active : rows'[r].prompt = rows[r].prompt
  PROVE  /\ SeesWindow'
         /\ mode # "dense" => PagedAfter(tokens)
         /\ mode = "dense" => DenseAfter(ph, tokens)
<1>1. Shapes /\ Active # {}
  BY DEF IInv, Phases
<1>2. PICK order : order = InOrder(Active)
  OBVIOUS
<1>3. IF mode = "dense" THEN DenseForward(ph, order[1], tokens[order[1]]) ELSE PagedForward(ph, order, tokens)
  BY <1>2, Zenon DEF Forward
<1>4. CASE mode = "dense"
  <2>1. DenseForward(ph, order[1], tokens[order[1]])
    BY <1>3, <1>4
  <2>2. PICK r : r = order[1]
    OBVIOUS
  <2>3. r \in Active
    <3>0. PICK N \in Nat : N = Len(rows)
      BY <1>1, ActiveRows
    <3>1. PICK S : S = Active /\ S \subseteq 1..N /\ S # {}
      BY <1>1, <3>0, ActiveRows
    <3>2. order \in Seq(S) /\ Len(order) \in Nat /\ Len(order) > 0
      BY <1>2, <3>1, InOrderIs
    <3> QED
      BY <2>2, <3>1, <3>2
  <2>4. SeesWindow'
    BY <1>4, <2>1, <2>2, <2>3, DenseSeen
  <2>5. DenseAfter(ph, tokens)
    <3>0. DenseForward(ph, r, tokens[r])
      BY <2>1, <2>2
    <3>1. PICK all \in {[w \in {0, Window} |-> dense[r][w] \o CanvasOf(r, tokens[r])]} :
            /\ dense' = IF ph = "denoise" THEN dense
                        ELSE [dense EXCEPT ![r] = [w \in {0, Window} |-> CacheForNext(all[w], w)]]
            /\ mem' = mem
      BY <3>0, Zenon DEF DenseForward
    <3>2. [w \in {0, Window} |-> CacheForNext(all[w], w)]
            = [w \in {0, Window} |-> CacheForNext(dense[r][w] \o CanvasOf(r, tokens[r]), w)]
      BY <3>1
    <3> QED
      BY <2>3, <3>1, <3>2, Zenon DEF DenseAfter
  <2> QED
    BY <1>4, <2>4, <2>5
<1>5. CASE mode # "dense"
  <2>1. PagedForward(ph, order, tokens)
    BY <1>3, <1>5
  <2>2. PICK replay \in BOOLEAN : PagedPass(ph, tokens, replay)
    BY <1>1, <1>2, <2>1, PagedLaunch
  <2>3. SeesWindow'
    BY <1>5, <2>2, PagedSeen
  <2>4. PagedAfter(tokens)
    <3>1. ASSUME NEW r \in Active, NEW p \in 0..(PrefixLength(r) + Canvas - 1)
          PROVE  mem'[r][p] = Written(r, p, tokens)
      <4>1. PrefixLength(r) \in Nat /\ Canvas \in Nat /\ cache.max \in Nat /\ PrefixLength(r) + Canvas <= cache.max
        BY <1>1, <2>2, ActiveRows, SizesAssumption DEF PagedPass, Shapes
      <4>2. p \in 0..(cache.max - 1)
        BY <4>1
      <4> QED
        BY <4>2, <2>2 DEF PagedPass
    <3> QED
      BY <2>2, <3>1 DEF PagedPass, PagedAfter
  <2> QED
    BY <1>5, <2>3, <2>4
<1> QED
  BY <1>4, <1>5

-----------------------------------------------------------------------------
(* A row from its prompt to its last canvas.                               *)

\* Generations are padded to whole canvases.
LEMMA PaddedIs ==
  ASSUME NEW n \in Nat
  PROVE  /\ PaddedGeneration(n) \in Nat /\ PaddedGeneration(n) \div Canvas \in Nat
         /\ \A c \in Nat : c * Canvas < n => c + 1 <= PaddedGeneration(n) \div Canvas
<1>1. PICK k \in Nat : k = Canvas /\ k > 0
  BY SizesAssumption
<1>2. PICK x \in Nat : x = n + k - 1
  BY <1>1
<1>3. PICK d \in Int, e \in Int : d = x \div k /\ e = x % k
  BY <1>1, <1>2
<1>4. x = d * k + e /\ e \in 0..(k - 1) /\ d \in Nat
  BY <1>1, <1>2, <1>3
<1>5. PaddedGeneration(n) = d * k /\ d * k \in Nat
  BY <1>1, <1>2, <1>3, <1>4 DEF PaddedGeneration
<1>6. PaddedGeneration(n) \div Canvas = d
  <2>1. 0 \in 0..(Canvas - 1) /\ d * k = d * Canvas + 0
    BY <1>1, <1>4
  <2> QED
    BY <1>4, <1>5, <2>1, CanvasParts
<1>7. ASSUME NEW c \in Nat, c * Canvas < n PROVE c + 1 <= d
  <2> SUFFICES ASSUME d <= c PROVE FALSE
    BY <1>4
  <2>1. d * k <= c * k
    BY <1>1, <1>4
  <2>2. PICK y \in Nat, z \in Nat : y = d * k /\ z = c * k
    BY <1>1, <1>4
  <2> QED
    BY <1>1, <1>2, <1>4, <1>7, <2>1, <2>2
<1> QED
  BY <1>4, <1>5, <1>6, <1>7

\* More canvases allow more steps.
LEMMA Bounded ==
  ASSUME NEW a \in Nat, NEW b \in Nat, a <= b
  PROVE  MaxSteps * a \in Nat /\ MaxSteps * b \in Nat /\ MaxSteps * a <= MaxSteps * b
<1>1. PICK m \in Nat : m = MaxSteps
  BY SizesAssumption
<1>2. m * a <= m * b /\ m * a \in Nat /\ m * b \in Nat
  BY <1>1
<1> QED
  BY <1>1, <1>2

\* A new row.
LEMMA NewRowFits ==
  ASSUME NEW n \in Nat, NEW g \in Nat, NEW stop
  PROVE  /\ NewRow(n, g) \in RowType /\ RowFits(NewRow(n, g), stop)
         /\ NewRow(n, g).active = FALSE /\ NewRow(n, g).prefilled = FALSE
<1>1. <<>> \in Seq(Tokens) /\ Len(<<>>) = 0
  OBVIOUS
<1> QED
  BY <1>1 DEF NewRow, RowType, RowFits, Waiting

\* The prefill of a row.
LEMMA StartedRow ==
  ASSUME NEW stop, NEW row \in RowType, RowFits(row, stop), ~row.prefilled, NEW new, new = Started(row)
  PROVE  /\ new \in RowType /\ RowFits(new, stop) /\ new.prefilled
         /\ new.active = (row.remaining > 0) /\ new.prompt = row.prompt /\ new.emitted = <<>>
<1>1. row.emitted = <<>> /\ row.steps = 0 /\ row.remaining = row.gen /\ row.gen \in Nat
  BY DEF RowFits, Waiting, RowType
<1>2. /\ new \in RowType /\ new.prefilled /\ new.active = (row.remaining > 0) /\ new.prompt = row.prompt
      /\ new.emitted = <<>> /\ new.steps = 0 /\ new.remaining = row.gen /\ new.gen = row.gen
  <2> DEFINE n == row.remaining
  <2>0. n \in Nat
    BY <1>1
  <2> HIDE DEF n
  <2>4. (n > 0) \in BOOLEAN
    BY <2>0
  <2>1. PICK act \in BOOLEAN : act = (row.remaining > 0)
    BY <2>4, Zenon DEF n
  <2>2. new = [row EXCEPT !.prefilled = TRUE, !.active = act]
    BY <2>1 DEF Started
  <2>3. /\ new \in RowType /\ new.prefilled = TRUE /\ new.active = act /\ new.prompt = row.prompt
        /\ new.emitted = row.emitted /\ new.steps = row.steps /\ new.remaining = row.remaining /\ new.gen = row.gen
    BY <2>2, ZenonT(30) DEF RowType
  <2> QED
    BY <1>1, <2>1, <2>3
<1>3. EosAt(<<>>) = {} /\ Len(<<>>) = 0
  BY DEF EosAt
<1>4. new.active => Growing(new, stop)
  <2>1. 0 \in Nat /\ 0 = 0 * Canvas /\ 0 <= MaxSteps * 0
    BY SizesAssumption
  <2> QED
    BY <1>1, <1>2, <1>3, <2>1 DEF Growing
<1>5. ~new.active => Ended(new, stop)
  <2>1. PICK d \in Nat : d = PaddedGeneration(row.gen) \div Canvas
    BY <1>1, PaddedIs
  <2>2. 0 <= MaxSteps * d
    BY Bounded
  <2>3. ~(row.remaining > 0) => row.gen = 0
    BY <1>1
  <2> QED
    BY <1>1, <1>2, <1>3, <2>1, <2>2, <2>3 DEF Ended
<1> QED
  BY <1>1, <1>2, <1>3, <1>4, <1>5 DEF RowFits

\* The commit of a canvas.
LEMMA GrownRow ==
  ASSUME NEW stop \in BOOLEAN, stop = early.stop,
         NEW row \in RowType, RowFits(row, stop), row.active, NEW a \in Seq(Tokens), Len(a) = Canvas,
         NEW st \in 0..MaxSteps, NEW new, new = Grown(row, a, st)
  PROVE  /\ new \in RowType /\ RowFits(new, stop) /\ new.prefilled /\ new.prompt = row.prompt
         /\ new.active => new.emitted = row.emitted \o a
<1>1. /\ row.prefilled /\ row.remaining \in Nat /\ row.remaining > 0 /\ (stop => EosAt(row.emitted) = {})
      /\ row.emitted \in Seq(Tokens) /\ row.gen \in Nat /\ row.steps \in Nat
      /\ Len(row.emitted) + row.remaining = row.gen /\ row.prompt \in Nat
  BY DEF RowFits, Growing, RowType
<1>2. PICK c \in Nat : Len(row.emitted) = c * Canvas /\ row.steps <= MaxSteps * c
  BY DEF RowFits, Growing
<1>3. PICK k \in Nat : k = Canvas /\ k > 0
  BY SizesAssumption
<1>4. PICK t \in Nat : t = Min({row.remaining, Canvas}) /\ t > 0 /\ t <= k /\ t <= row.remaining /\ (row.remaining - t > 0 => t = k)
  <2>1. Min({row.remaining, Canvas}) = IF row.remaining <= Canvas THEN row.remaining ELSE Canvas
    BY <1>1, <1>3, MinOfTwo
  <2> QED
    BY <1>1, <1>3, <2>1
<1>5. PICK b : b = SubSeq(a, 1, t)
  OBVIOUS
<1>6. b \in Seq(Tokens) /\ Len(b) = t /\ \A i \in 1..t : b[i] = a[i]
  <2>1. 0 + t <= Len(a) /\ b = SubSeq(a, 0 + 1, 0 + t)
    <3>1. 0 + 1 = 1 /\ 0 + t = t /\ t <= Len(a)
      BY <1>3, <1>4
    <3> QED
      BY <1>5, <3>1
  <2>2. b \in Seq(Tokens) /\ Len(b) = t /\ \A i \in 1..t : b[i] = a[0 + i]
    BY <2>1, PartIs
  <2> QED
    BY <2>2
<1>7. PICK e : e = row.emitted \o b
  OBVIOUS
<1>8. PICK x \in Nat : x = c * k /\ Len(row.emitted) = x
  BY <1>2, <1>3
<1>9. /\ e \in Seq(Tokens) /\ Len(e) = x + t
      /\ \A i \in 1..x : e[i] = row.emitted[i]
      /\ \A j \in 1..t : e[x + j] = b[j]
  <2>1. PICK old : old = row.emitted
    OBVIOUS
  <2>2. old \in Seq(Tokens) /\ Len(old) = x /\ e = old \o b
    BY <1>1, <1>7, <1>8, <2>1
  <2>3. /\ old \o b \in Seq(Tokens) /\ Len(old \o b) = Len(old) + Len(b)
        /\ \A i \in 1..Len(old) : (old \o b)[i] = old[i]
        /\ \A j \in 1..Len(b) : (old \o b)[Len(old) + j] = b[j]
    <3>1. old \in Seq(Tokens) /\ b \in Seq(Tokens)
      BY <1>6, <2>2
    <3> QED
      BY <3>1, ConcatIs
  <2> QED
    BY <1>6, <2>1, <2>2, <2>3, Zenon
<1>10. PICK more \in BOOLEAN : more = (row.remaining - t > 0 /\ ~(stop /\ ContainsEos(b)))
  OBVIOUS
<1>11. new = [row EXCEPT !.emitted = e, !.remaining = row.remaining - t, !.steps = row.steps + st, !.active = more]
  BY <1>4, <1>5, <1>7, <1>10 DEF Grown
<1>12. row.remaining - t \in Nat /\ row.steps + st \in Nat
  BY <1>1, <1>4, SizesAssumption
<1>13. /\ new \in RowType /\ new.prefilled /\ new.prompt = row.prompt /\ new.emitted = e /\ new.gen = row.gen
       /\ new.remaining = row.remaining - t /\ new.steps = row.steps + st /\ new.active = more
  BY <1>1, <1>9, <1>11, <1>12, ZenonT(30) DEF RowType
<1>14. stop => \A i \in 1..Len(e) : e[i] = Eos => \E j \in 1..t : i = x + j /\ b[j] = Eos
  <2> SUFFICES ASSUME stop, NEW i \in 1..Len(e), e[i] = Eos PROVE \E j \in 1..t : i = x + j /\ b[j] = Eos
    OBVIOUS
  <2>1. CASE i <= x
    <3>1. i \in 1..x /\ i \in DOMAIN row.emitted
      BY <1>1, <1>8, <2>1
    <3>2. row.emitted[i] = Eos
      BY <1>9, <3>1
    <3> QED
      BY <1>1, <3>1, <3>2 DEF EosAt
  <2>2. CASE i > x
    <3>1. i - x \in 1..t /\ i = x + (i - x)
      BY <1>9, <2>2
    <3> QED
      BY <3>1, <1>9
  <2> QED
    BY <2>1, <2>2, <1>9
<1>15. \A j \in 1..t : x + j \in 1..Len(e)
  BY <1>9
<1>16. (\E j \in 1..t : b[j] = Eos) <=> ContainsEos(b)
  BY <1>6 DEF ContainsEos, ToSet
<1>17. (c + 1) * k = x + k /\ c + 1 \in Nat
  BY <1>8, <1>3
<1>18. row.steps + st <= MaxSteps * (c + 1)
  <2>1. PICK m \in Nat, y \in Nat : m = MaxSteps /\ y = m * c
    BY SizesAssumption
  <2>2. m * (c + 1) = y + m
    BY <2>1
  <2> QED
    BY <1>1, <1>2, <2>1, <2>2
<1>19. DOMAIN e = 1..Len(e)
  BY <1>9
<1>20. CASE more
  <2>1. t = k /\ row.remaining - t > 0 /\ ~(stop /\ ContainsEos(b))
    BY <1>4, <1>10, <1>20
  <2>2. stop => EosAt(e) = {}
    BY <1>14, <1>16, <1>19, <2>1 DEF EosAt
  <2>3. Len(e) = (c + 1) * Canvas
    BY <1>3, <1>9, <1>17, <2>1
  <2>4. Growing(new, stop)
    BY <1>13, <1>17, <1>18, <2>1, <2>2, <2>3 DEF Growing
  <2>5. b = a
    BY <1>3, <1>5, <2>1
  <2>6. Len(e) + (row.remaining - t) = row.gen
    BY <1>1, <1>8, <1>9, <1>4
  <2> QED
    BY <1>7, <1>13, <1>20, <2>4, <2>5, <2>6 DEF RowFits
<1>21. CASE ~more
  <2>1. row.remaining - t = 0 \/ (stop /\ EosAt(e) # {})
    <3>1. row.remaining - t = 0 \/ (stop /\ ContainsEos(b))
      <4>1. ~(row.remaining - t > 0 /\ ~(stop /\ ContainsEos(b)))
        BY <1>10, <1>21, Zenon
      <4>2. ~(row.remaining - t > 0) => row.remaining - t = 0
        BY <1>1, <1>4
      <4> QED
        BY <4>1, <4>2, Zenon
    <3>2. ASSUME NEW j \in 1..t, b[j] = Eos PROVE x + j \in EosAt(e)
      BY <3>2, <1>9, <1>15, <1>19 DEF EosAt
    <3> QED
      BY <3>1, <3>2, <1>16
  <2>2. ASSUME NEW j \in 1..t PROVE ((x + j) - 1) \div Canvas = c
    <3>1. PICK i : i = j - 1
      OBVIOUS
    <3>2. i \in 0..(Canvas - 1) /\ (x + j) - 1 = c * Canvas + i
      BY <1>3, <1>4, <1>8, <3>1
    <3> QED
      BY <3>2, CanvasParts
  <2>3. stop => \A i \in EosAt(e) : (i - 1) \div Canvas = (Len(e) - 1) \div Canvas
    <3>1. (Len(e) - 1) \div Canvas = c
      <4>1. t \in 1..t
        BY <1>4
      <4> QED
        BY <4>1, <2>2, <1>9
    <3>2. stop => \A i \in EosAt(e) : \E j \in 1..t : i = x + j
      BY <1>14, <1>19 DEF EosAt
    <3> QED
      BY <3>1, <3>2, <2>2
  <2>4. row.steps + st <= MaxSteps * (PaddedGeneration(row.gen) \div Canvas)
    <3>1. c * Canvas < row.gen
      BY <1>1, <1>3, <1>8
    <3>2. PICK d \in Nat : d = PaddedGeneration(row.gen) \div Canvas /\ c + 1 <= d
      BY <1>1, <3>1, PaddedIs
    <3>3. MaxSteps * (c + 1) \in Nat /\ MaxSteps * d \in Nat /\ MaxSteps * (c + 1) <= MaxSteps * d
      BY <1>17, <3>2, Bounded
    <3> QED
      BY <1>12, <1>18, <3>2, <3>3
  <2>5. Ended(new, stop)
    BY <1>13, <2>1, <2>3, <2>4 DEF Ended
  <2>6. Len(e) + (row.remaining - t) = row.gen
    BY <1>1, <1>8, <1>9, <1>4
  <2> QED
    BY <1>13, <1>21, <2>5, <2>6 DEF RowFits
<1> QED
  BY <1>20, <1>21

-----------------------------------------------------------------------------
(* The steps between the launches.                                         *)

\* Outside the denoising loop the caches are not looked at.
LEMMA Resting ==
  ASSUME Shapes', RowsFit', Stopping', Phases', ~Running', seen' = {}
  PROVE  IInv' /\ SeesWindow'
<1>1. ~(phase' \in {"denoise", "commit"})
  BY DEF Running
<1>2. Decoding' /\ KVCommitted' /\ DenseKept'
  BY <1>1 DEF Decoding, KVCommitted, DenseKept, Running
<1>3. SeesWindow'
  BY DEF SeesWindow
<1> QED
  BY <1>2, <1>3 DEF IInv

\* A step that leaves the rows alone.
LEMMA SameRowsFit ==
  ASSUME RowsFit, rows' = rows, early'.ignored = early.ignored
  PROVE  RowsFit'
BY DEF RowsFit, RowFits, RowIds, Waiting, Growing, Ended, Stops

\* A row that fits whatever the batch does with end tokens, after the step.
LEMMA FitsThen ==
  ASSUME NEW r, RowFits(rows'[r], Stops')
  PROVE  RowFits(rows[r], Stops)'
BY DEF RowFits, Waiting, Growing, Ended

\* A step within a batch.
LEMMA SameStopping ==
  ASSUME Stopping, phase # "idle", phase' # "idle", early' = early
  PROVE  Stopping' /\ Stops' = Stops /\ early.stop = Stops /\ Stops \in BOOLEAN
BY SizesAssumption DEF Stopping, Stops

\* The shape of a new cache.
LEMMA EmptiedShape ==
  ASSUME NEW c, NEW after, after = Emptied(c)
  PROVE  DOMAIN after = 1..c.size /\ \A r \in 1..c.size : DOMAIN after[r] = 0..(c.max - 1)
BY DEF Emptied

\* The invariant holds before the first call.
LEMMA InitHolds ==
  ASSUME Init
  PROVE  IInv /\ SeesWindow
<1>1. /\ call = 0 /\ rows = <<>> /\ dense = <<>> /\ seen = {} /\ phase = "idle" /\ mem = Emptied(cache)
      /\ cache = IF online /\ mode = "graph" THEN [gen |-> 0, max |-> MaxLength, size |-> MaxSeqs]
                 ELSE [gen |-> 0, max |-> 0, size |-> 0]
      /\ early = [stop |-> EarlyStop, saved |-> EarlyStop, ignored |-> FALSE]
  BY DEF Init
<1>2. cache.max \in Nat /\ cache.size \in Nat
  BY <1>1, SizesAssumption
<1>3. RowIds = {} /\ DOMAIN dense = {} /\ rows \in Seq(RowType)
  BY <1>1 DEF RowIds
<1>4. Shapes
  BY <1>1, <1>2, <1>3, EmptiedShape DEF Shapes
<1>5. Active = {}
  BY <1>3 DEF Active
<1>6. ~Running
  BY <1>1 DEF Running
<1>7. RowsFit /\ Phases
  BY <1>1, <1>3, <1>5, <1>6 DEF RowsFit, Phases
<1>8. Decoding /\ KVCommitted /\ DenseKept
  BY <1>1, <1>6 DEF Decoding, KVCommitted, DenseKept
<1>9. Stopping
  BY <1>1, SizesAssumption DEF Stopping
<1> QED
  BY <1>1, <1>4, <1>7, <1>8, <1>9 DEF IInv, SeesWindow

\* The call returns.
LEMMA ReturnHolds ==
  ASSUME IInv, Return
  PROVE  IInv' /\ SeesWindow'
<1>1. /\ phase = "return" /\ phase' = "idle" /\ seen' = {}
      /\ UNCHANGED <<mode, call, rows, cache, mem, dense>>
      /\ early' = [early EXCEPT !.stop = early.saved]
  BY DEF Return, Restored
<1>7. early'.ignored = early.ignored /\ Stopping'
  BY <1>1, SizesAssumption DEF IInv, Stopping
<1>2. Shapes'
  BY <1>1 DEF IInv, Shapes, RowIds
<1>3. RowsFit'
  BY <1>1, <1>7, SameRowsFit DEF IInv
<1>4. ~Running /\ ~Running'
  BY <1>1 DEF Running
<1>5. Active' = {} /\ RowIds' = RowIds
  BY <1>1, <1>4 DEF IInv, Phases, Active, RowIds
<1>6. Phases'
  BY <1>1, <1>4, <1>5 DEF IInv, Phases
<1> QED
  BY <1>1, <1>2, <1>3, <1>4, <1>6, <1>7, Resting

\* The length _generate_flashinfer_batch asks of the cache.
LEMMA NeededIs ==
  ASSUME NEW batch \in Calls
  PROVE  NeededLength(batch) \in Nat
<1>1. PICK n \in Nat \ {0} : n = Len(batch) /\ DOMAIN batch = 1..n
  BY CallsAssumption
<1>2. \A i \in 1..n : batch[i] \in Nat \X Nat
  BY <1>1, CallsAssumption
<1>3. \A i \in 1..n : batch[i][1] \in Nat /\ batch[i][2] \in Nat
  BY <1>2
<1>4. \A i \in 1..n : batch[i][1] + PaddedGeneration(batch[i][2]) \in Nat
  BY <1>3, PaddedIs
<1>5. PICK f : f = [i \in 1..n |-> batch[i][1] + PaddedGeneration(batch[i][2])]
  OBVIOUS
<1>6. f \in [1..n -> Nat]
  BY <1>4, <1>5
<1>7. PICK S : S = {f[i] : i \in 1..n}
  OBVIOUS
<1>8. S = {batch[i][1] + PaddedGeneration(batch[i][2]) : i \in DOMAIN batch}
  BY <1>1, <1>5, <1>7
<1>9. Max(S) \in Nat
  BY <1>6, <1>7, MaxIs
<1> QED
  BY <1>8, <1>9 DEF NeededLength

\* The rows of a batch.
LEMMA NewRowsAre ==
  ASSUME NEW batch \in Calls, NEW stop, NEW new, new = Tuple([i \in DOMAIN batch |-> NewRow(batch[i][1], batch[i][2])])
  PROVE  /\ new \in Seq(RowType) /\ DOMAIN new = DOMAIN batch /\ new # <<>>
         /\ DOMAIN batch = 1..Len(batch) /\ Len(batch) \in Nat \ {0}
         /\ \A r \in DOMAIN new : RowFits(new[r], stop) /\ new[r].active = FALSE /\ new[r].prefilled = FALSE
<1>1. PICK n \in Nat \ {0} : n = Len(batch) /\ DOMAIN batch = 1..n
  BY CallsAssumption
<1>2. \A i \in 1..n : batch[i] \in Nat \X Nat
  BY <1>1, CallsAssumption
<1>3. \A i \in 1..n : batch[i][1] \in Nat /\ batch[i][2] \in Nat
  BY <1>2
<1>4. PICK f : f = [i \in 1..n |-> NewRow(batch[i][1], batch[i][2])]
  OBVIOUS
<1>5. DOMAIN f = 1..n /\ \A i \in 1..n : f[i] = NewRow(batch[i][1], batch[i][2])
  BY <1>4, Zenon
<1>6. \A i \in 1..n : f[i] \in RowType /\ RowFits(f[i], stop)
  BY <1>3, <1>5, NewRowFits
<1>7. ASSUME NEW i \in 1..n PROVE f[i].active = FALSE /\ f[i].prefilled = FALSE
  <2>1. PICK a \in Nat, b \in Nat : a = batch[i][1] /\ b = batch[i][2]
    BY <1>3
  <2>2. NewRow(a, b).active = FALSE /\ NewRow(a, b).prefilled = FALSE
    BY NewRowFits, Zenon
  <2> QED
    BY <1>5, <2>1, <2>2, Zenon
<1>8. f = [i \in 1..n |-> f[i]]
  BY <1>4, <1>5
<1>9. new = Tuple(f)
  BY <1>1, <1>4
<1>10. new = f
  BY <1>8, <1>9, TupleIs
<1>11. new \in Seq(RowType) /\ DOMAIN new = 1..n /\ 1 \in DOMAIN new
  <2>1. f \in [1..n -> RowType]
    BY <1>5, <1>6, <1>8, Zenon
  <2> QED
    BY <1>5, <1>10, <2>1
<1>12. new # <<>>
  BY <1>11
<1> QED
  BY <1>1, <1>5, <1>6, <1>7, <1>10, <1>11, <1>12

\* A batch is taken: its rows wait for their prompts.
LEMMA GenerateHolds ==
  ASSUME IInv, NEW batch \in Calls, NEW ignore \in BOOLEAN, Generate(batch, ignore)
  PROVE  IInv' /\ SeesWindow'
<1>1. /\ call' = call + 1 /\ phase' = "prefill" /\ seen' = {} /\ mode' = mode
      /\ rows' = Tuple([i \in DOMAIN batch |-> NewRow(batch[i][1], batch[i][2])])
      /\ dense' = Tuple([i \in DOMAIN batch |-> [w \in {0, Window} |-> <<>>]])
  BY DEF Generate
<1>2. /\ rows' \in Seq(RowType) /\ RowIds' = DOMAIN batch /\ rows' # <<>>
      /\ DOMAIN batch = 1..Len(batch) /\ Len(batch) \in Nat \ {0}
      /\ \A r \in RowIds' : RowFits(rows'[r], Stops') /\ rows'[r].active = FALSE /\ rows'[r].prefilled = FALSE
  <2>1. PICK new, stop : new = rows' /\ stop = Stops'
    OBVIOUS
  <2>2. new = Tuple([i \in DOMAIN batch |-> NewRow(batch[i][1], batch[i][2])])
    BY <1>1, <2>1
  <2>3. /\ new \in Seq(RowType) /\ DOMAIN new = DOMAIN batch /\ new # <<>>
        /\ DOMAIN batch = 1..Len(batch) /\ Len(batch) \in Nat \ {0}
        /\ \A r \in DOMAIN new : RowFits(new[r], stop) /\ new[r].active = FALSE /\ new[r].prefilled = FALSE
    BY <2>2, NewRowsAre
  <2> QED
    BY <2>1, <2>3 DEF RowIds
<1>3. RowsFit'
  <2>1. ASSUME NEW r \in RowIds' PROVE RowFits(rows[r], Stops)'
    BY <1>2, FitsThen
  <2> QED
    BY <2>1 DEF RowsFit
<1>4. ~Running'
  BY <1>1 DEF Running
<1>5. Active' = {}
  BY <1>2 DEF Active
<1>6. Phases'
  <2>1. 1 \in RowIds'
    BY <1>2
  <2> QED
    BY <1>1, <1>2, <1>4, <1>5, <2>1 DEF Phases
<1>7. /\ cache'.max \in Nat /\ cache'.size \in Nat /\ DOMAIN mem' = 1..cache'.size
      /\ \A r \in 1..cache'.size : DOMAIN mem'[r] = 0..(cache'.max - 1)
  <2>1. CASE mode = "dense"
    BY <2>1 DEF Generate, IInv, Shapes
  <2>2. CASE mode # "dense"
    <3>1. PICK got : got = PagedCache(NeededLength(batch), Len(batch))
      OBVIOUS
    <3>2. cache' = got[1] /\ mem' = IF got[1] = cache THEN mem ELSE Emptied(got[1])
      BY <2>2, <3>1 DEF Generate
    <3>3. CASE got[1] = cache
      BY <3>2, <3>3 DEF IInv, Shapes
    <3>4. CASE got[1] # cache
      <4>1. got[1] = [gen |-> cache.gen + 1, max |-> NeededLength(batch), size |-> Len(batch)]
        BY <3>1, <3>4 DEF PagedCache
      <4>2. cache'.max = NeededLength(batch) /\ cache'.size = Len(batch) /\ mem' = Emptied(cache')
        BY <3>2, <3>4, <4>1
      <4> QED
        BY <1>2, <4>2, NeededIs, EmptiedShape
    <3> QED
      BY <3>3, <3>4
  <2> QED
    BY <2>1, <2>2
<1>8. /\ DOMAIN dense' = RowIds'
      /\ \A r \in RowIds' : DOMAIN dense'[r] = {0, Window} /\ \A w \in {0, Window} : dense'[r][w] \in Seq(Keys)
  <2>1. PICK n \in Nat : n = Len(batch) /\ DOMAIN batch = 1..n
    BY <1>2
  <2>2. PICK none : none = [w \in {0, Window} |-> <<>>]
    OBVIOUS
  <2>3. PICK f : f = [i \in 1..n |-> none]
    OBVIOUS
  <2>4. DOMAIN f = 1..n /\ (\A i \in 1..n : f[i] = none) /\ f = [i \in 1..n |-> f[i]]
    BY <2>3
  <2>5. dense' = Tuple(f)
    BY <1>1, <2>1, <2>2, <2>3
  <2>6. dense' = f
    BY <2>4, <2>5, TupleIs
  <2>7. DOMAIN none = {0, Window} /\ \A w \in {0, Window} : none[w] \in Seq(Keys)
    BY <2>2
  <2> QED
    BY <1>2, <2>1, <2>4, <2>6, <2>7
<1>9. Shapes'
  <2>1. call' \in Nat
    BY <1>1 DEF Shapes, IInv
  <2> QED
    BY <1>2, <1>7, <1>8, <2>1, Zenon DEF Shapes
<1>10. Stopping'
  <2>1. /\ phase = "idle"
        /\ early' = [stop |-> early.stop /\ ~ignore, saved |-> early.stop, ignored |-> ignore]
    BY DEF Generate
  <2>2. early.stop = EarlyStop /\ EarlyStop \in BOOLEAN
    BY <2>1, SizesAssumption DEF IInv, Stopping
  <2> QED
    BY <1>1, <2>1, <2>2 DEF Stopping, Stops
<1> QED
  BY <1>1, <1>3, <1>4, <1>6, <1>9, <1>10, Resting

-----------------------------------------------------------------------------
(* The prefill.                                                            *)

\* The keys of a prompt.
LEMMA PromptKeysAre ==
  ASSUME Shapes, NEW r \in RowIds, NEW n, n = rows[r].prompt
  PROVE  /\ n \in Nat /\ PromptKeys(r) \in Seq(Keys) /\ Len(PromptKeys(r)) = n
         /\ \A p \in 1..n : PromptKeys(r)[p] = Own(r, p - 1, "prompt")
<1>1. n \in Nat /\ r \in Nat /\ call \in Nat
  <2>1. RowIds = 1..Len(rows) /\ Len(rows) \in Nat /\ rows[r] \in RowType
    BY ActiveRows
  <2>2. rows[r].prompt \in Nat
    BY <2>1 DEF RowType
  <2>3. call \in Nat
    BY DEF Shapes
  <2> QED
    BY <2>1, <2>2, <2>3
<1>2. PICK f : f = [p \in 1..n |-> Own(r, p - 1, "prompt")]
  OBVIOUS
<1>3. f = [p \in 1..n |-> f[p]] /\ PromptKeys(r) = Tuple(f)
  BY <1>2 DEF PromptKeys
<1>4. Tuple(f) = f
  BY <1>1, <1>3, TupleIs
<1>5. ASSUME NEW p \in 1..n PROVE Own(r, p - 1, "prompt") \in Keys
  <2>1. call * 10 + r \in Nat /\ p - 1 \in Nat
    BY <1>1
  <2> QED
    BY <2>1 DEF Own, Keys
<1>6. f \in [1..n -> Keys]
  BY <1>2, <1>5
<1>7. f \in Seq(Keys) /\ Len(f) = n
  BY <1>1, <1>6
<1> QED
  BY <1>1, <1>2, <1>3, <1>4, <1>7

\* What the launch over the prompts leaves and looks at.
PromptLooks ==
  \A a \in seen' : \E r \in RowIds : \E q \in 0..(rows[r].prompt - 1) : \E w \in {0, Window} :
    Sees(a, r, "prefill", q, w, rows[r].prompt)
PromptPass ==
  /\ MemShape(mem')
  /\ \A r \in RowIds : \A p \in 0..(rows[r].prompt - 1) : mem'[r][p] = Own(r, p, "prompt")
  /\ PromptLooks

\* The launch over the prompts writes each into the cache row of its own row.
LEMMA PromptLaunch ==
  ASSUME Shapes, NEW order, order = InOrder(RowIds),
         Launched(PromptMetadata(order), Tuple([i \in DOMAIN order |-> PromptKeys(order[i])]),
                  Len(order), "prefill", FALSE)
  PROVE  PromptPass
<1>1. RowIds = 1..Len(rows) /\ Len(rows) \in Nat /\ \A r \in RowIds : rows[r].prompt \in Nat /\ r \in Nat
  BY ActiveRows DEF RowType
<1>2. /\ order \in Seq(RowIds) /\ Len(order) \in Nat /\ DOMAIN order = 1..Len(order)
      /\ ToSet(order) = RowIds
      /\ \A i, j \in 1..Len(order) : order[i] = order[j] => i = j
  <2>0. PICK N \in Nat : N = Len(rows)
    BY <1>1
  <2>1. PICK S : S = RowIds
    OBVIOUS
  <2>2. S \subseteq 1..N /\ order = InOrder(S)
    BY <1>1, <2>0, <2>1
  <2>3. /\ order \in Seq(S) /\ Len(order) \in Nat /\ DOMAIN order = 1..Len(order)
        /\ ToSet(order) = S
        /\ \A i, j \in 1..Len(order) : order[i] = order[j] => i = j
    BY <2>2, InOrderIs
  <2> QED
    BY <2>1, <2>3
<1>3. order \in Seq(Nat)
  BY <1>1, <1>2
<1>13. PICK n \in Nat : n = Len(order)
  BY <1>2
<1>4. PICK m, keys :
        /\ n = Len(order) /\ m = PromptMetadata(order)
        /\ keys = Tuple([i \in 1..n |-> PromptKeys(order[i])])
  BY <1>13
<1>5. MetadataOK(m, cache) /\ mem' = Appended(mem, m, keys) /\ seen' = PagedLooks(mem', m, n, "prefill", FALSE)
  BY <1>2, <1>4 DEF Launched
<1>6. /\ m.ids = order
      /\ m.offset = [i \in 1..n |-> 0]
      /\ m.lens = [i \in 1..n |-> rows[order[i]].prompt]
  <2>1. PICK f, g : f = [i \in 1..n |-> 0] /\ g = [i \in 1..n |-> rows[order[i]].prompt]
    OBVIOUS
  <2>2. f = [i \in 1..n |-> f[i]] /\ g = [i \in 1..n |-> g[i]]
    BY <2>1
  <2>3. Tuple(f) = f /\ Tuple(g) = g
    BY <2>2, TupleIs
  <2>4. m = [ids |-> order, offset |-> Tuple(f), lens |-> Tuple(g)]
    BY <1>2, <1>4, <2>1 DEF PromptMetadata, Metadata
  <2> QED
    BY <2>1, <2>3, <2>4
<1>7. \A i \in 1..n : keys[i] = PromptKeys(order[i])
  <2>1. PICK f : f = [i \in 1..n |-> PromptKeys(order[i])]
    OBVIOUS
  <2>2. f = [i \in 1..n |-> f[i]] /\ keys = Tuple(f)
    BY <2>1, <1>4
  <2>3. Tuple(f) = f
    BY <2>2, TupleIs
  <2> QED
    BY <2>1, <2>2, <2>3
<1>8. Names(m, order, <<>>)
  <2>1. order \o <<>> = order /\ <<>> \in Seq(Nat) /\ Len(<<>>) = 0
    BY <1>3
  <2> QED
    BY <1>2, <1>3, <1>6, <2>1 DEF Names
<1>9. MemShape(mem')
  <2>1. DOMAIN mem' = DOMAIN mem /\ \A r \in DOMAIN mem : DOMAIN mem'[r] = DOMAIN mem[r]
    BY <1>5, AppendedShape
  <2> QED
    BY <2>1 DEF Shapes, MemShape
<1>10. ASSUME NEW i \in 1..n, NEW r, r = order[i]
       PROVE  /\ r \in RowIds /\ m.ids[i] = r /\ m.offset[i] = 0 /\ m.lens[i] = rows[r].prompt
              /\ \A p \in 0..(rows[r].prompt - 1) : mem'[r][p] = Own(r, p, "prompt")
  <2>1. i \in 1..Len(order) /\ r \in RowIds
    BY <1>2, <1>4, <1>10
  <2>2. m.offset[i] = 0 /\ m.lens[i] = rows[r].prompt
    BY <1>6, <1>10
  <2>3. PICK l \in Nat, z \in Nat : l = rows[r].prompt /\ z = cache.max
    BY <1>1, <2>1 DEF Shapes
  <2>4. /\ r \in 1..cache.size /\ m.offset[i] + m.lens[i] <= cache.max /\ m.ids[i] = r
        /\ \A p \in 0..(cache.max - 1) :
             mem'[r][p] = IF p \in m.offset[i]..(m.offset[i] + m.lens[i] - 1)
                          THEN keys[i][p - m.offset[i] + 1] ELSE mem[r][p]
    BY <1>5, <1>8, <1>10, <2>1, RowsLaunched
  <2>5. /\ 0 + l <= z /\ m.ids[i] = r
        /\ \A p \in 0..(z - 1) :
             mem'[r][p] = IF p \in 0..(0 + l - 1) THEN keys[i][p - 0 + 1] ELSE mem[r][p]
    BY <2>2, <2>3, <2>4
  <2>6. ASSUME NEW p \in 0..(l - 1) PROVE mem'[r][p] = Own(r, p, "prompt")
    <3>1. p \in 0..(z - 1) /\ p \in 0..(0 + l - 1) /\ p - 0 + 1 = p + 1 /\ p + 1 \in 1..l /\ (p + 1) - 1 = p
      BY <2>3, <2>5
    <3>2. mem'[r][p] = PromptKeys(r)[p + 1]
      BY <1>7, <1>10, <2>5, <3>1
    <3>3. PromptKeys(r)[p + 1] = Own(r, (p + 1) - 1, "prompt")
      BY <2>1, <2>3, <3>1, PromptKeysAre
    <3> QED
      BY <3>1, <3>2, <3>3
  <2> QED
    BY <2>1, <2>2, <2>3, <2>5, <2>6
<1>11. ASSUME NEW r \in RowIds, NEW p \in 0..(rows[r].prompt - 1) PROVE mem'[r][p] = Own(r, p, "prompt")
  <2>1. PICK i \in 1..n : r = order[i]
    BY <1>2, <1>4 DEF ToSet
  <2> QED
    BY <2>1, <1>10
<1>12. ASSUME NEW a \in seen'
       PROVE  \E r \in RowIds : \E q \in 0..(rows[r].prompt - 1) : \E w \in {0, Window} :
                Sees(a, r, "prefill", q, w, rows[r].prompt)
  <2>1. PICK i \in 1..n : \E q \in m.offset[i]..(m.offset[i] + m.lens[i] - 1) : \E w \in {0, Window} :
          a = LooksAt(m.ids[i], "prefill", q, w, m.offset[i] + m.lens[i], FALSE, mem'[m.ids[i]])
    <3>1. PICK ph, replay : ph = "prefill" /\ replay = FALSE
      OBVIOUS
    <3>2. a \in PagedLooks(mem', m, n, ph, replay)
      BY <1>5, <3>1
    <3>3. \E i \in 1..n : \E q \in m.offset[i]..(m.offset[i] + m.lens[i] - 1) : \E w \in {0, Window} :
            a = LooksAt(m.ids[i], ph, q, w, m.offset[i] + m.lens[i], replay, mem'[m.ids[i]])
      BY <3>2, LooksAre
    <3> QED
      BY <3>1, <3>3
  <2>2. PICK r \in RowIds, l \in Nat :
          r = order[i] /\ m.ids[i] = r /\ m.offset[i] = 0 /\ m.lens[i] = l /\ l = rows[r].prompt
    BY <1>1, <1>10
  <2>3. 0 + l = l /\ 0..(0 + l - 1) = 0..(l - 1)
    OBVIOUS
  <2>4. PICK q \in 0..(l - 1) : \E w \in {0, Window} : a = LooksAt(r, "prefill", q, w, l, FALSE, mem'[r])
    BY <2>1, <2>2, <2>3
  <2>5. PICK w \in {0, Window} : a = LooksAt(r, "prefill", q, w, l, FALSE, mem'[r])
    BY <2>4
  <2>6. PICK keep : keep = [k \in Visible("prefill", q, l, w) |-> mem'[r][k]]
    OBVIOUS
  <2>7. a = Looks(r, "prefill", q, w, keep)
    <3>1. q \in Nat /\ w \in Nat
      BY SizesAssumption
    <3>2. MaskOf("prefill", FALSE, q, l, w) = Visible("prefill", q, l, w)
      BY <3>1, EagerSees DEF MaskOf
    <3> QED
      BY <2>5, <2>6, <3>2, Zenon DEF LooksAt
  <2>8. a.keys = keep
    BY <2>7 DEF Looks
  <2>9. \A k \in DOMAIN keep : keep[k] = mem'[r][k] /\ k \in 0..(l - 1)
    <3>1. \A k \in Visible("prefill", q, l, w) : k \in 0..(l - 1)
      BY Zenon DEF Visible
    <3> QED
      BY <2>6, <3>1
  <2>10. \A k \in 0..(l - 1) : mem'[r][k][1] = call * 10 + r /\ mem'[r][k][2] = k
    BY <1>11, <2>2, OwnIs
  <2>11. Sees(a, r, "prefill", q, w, l)
    BY <2>6, <2>7, <2>8, <2>9, <2>10 DEF Sees, Mine
  <2> QED
    BY <2>2, <2>11
<1> QED
  BY <1>9, <1>11, <1>12 DEF PromptPass, PromptLooks

\* Every query of a prompt saw the window before it.
LEMMA PromptSeen ==
  ASSUME PromptLooks, call' = call, \A r \in RowIds : rows'[r].prompt = rows[r].prompt
  PROVE  SeesWindow'
<1> SUFFICES ASSUME NEW a \in seen'
             PROVE  LET kvLen == IF a.phase = "prefill" THEN rows'[a.row].prompt
                                 ELSE a.q - ((a.q - rows'[a.row].prompt) % Canvas) + Canvas
                    IN /\ DOMAIN a.keys = Visible(a.phase, a.q, kvLen, a.window)
                       /\ \A k \in DOMAIN a.keys : a.keys[k][1] = call' * 10 + a.row /\ a.keys[k][2] = k
  BY DEF SeesWindow
<1>1. PICK r \in RowIds : \E q \in 0..(rows[r].prompt - 1) : \E w \in {0, Window} :
        Sees(a, r, "prefill", q, w, rows[r].prompt)
  BY DEF PromptLooks
<1>2. PICK q \in 0..(rows[r].prompt - 1) : \E w \in {0, Window} : Sees(a, r, "prefill", q, w, rows[r].prompt)
  BY <1>1
<1>3. PICK w \in {0, Window} : Sees(a, r, "prefill", q, w, rows[r].prompt)
  BY <1>2
<1>4. a.row = r /\ a.phase = "prefill" /\ a.q = q /\ a.window = w
  <2>1. PICK ks : a = Looks(r, "prefill", q, w, ks)
    BY <1>3 DEF Sees
  <2> QED
    BY <2>1 DEF Looks
<1>5. /\ DOMAIN a.keys = Visible("prefill", q, rows[r].prompt, w)
      /\ \A k \in DOMAIN a.keys : a.keys[k][1] = call' * 10 + r /\ a.keys[k][2] = k
  BY <1>3 DEF Sees, Mine
<1>6. PICK kvLen : kvLen = IF a.phase = "prefill" THEN rows'[a.row].prompt
                           ELSE a.q - ((a.q - rows'[a.row].prompt) % Canvas) + Canvas
  OBVIOUS
<1>7. kvLen = rows[r].prompt
  BY <1>4, <1>6
<1> QED
  BY <1>4, <1>5, <1>6, <1>7

\* The prefill of the dense runner looks at the keys of the prompt before it
\* drops the oldest.
LEMMA DensePromptSeen ==
  ASSUME Shapes, NEW z \in RowIds, call' = call, \A r \in RowIds : rows'[r].prompt = rows[r].prompt,
         seen' = DenseLooks("prefill", z, 0, rows[z].prompt, [w \in {0, Window} |-> PromptKeys(z)])
  PROVE  SeesWindow'
<1>0. PICK own : own = PromptKeys(z)
  OBVIOUS
<1>1. PICK n \in Nat :
        /\ n = rows[z].prompt /\ Len(own) = n
        /\ \A p \in 1..n : own[p] = Own(z, p - 1, "prompt")
  <2>1. PICK l : l = rows[z].prompt
    OBVIOUS
  <2>2. /\ l \in Nat /\ Len(PromptKeys(z)) = l
        /\ \A p \in 1..l : PromptKeys(z)[p] = Own(z, p - 1, "prompt")
    BY <2>1, PromptKeysAre
  <2> QED
    BY <1>0, <2>1, <2>2
<1>2. PICK all : all = [w \in {0, Window} |-> own]
  OBVIOUS
<1>3. ASSUME NEW a \in seen'
      PROVE  \E q \in 0..(n - 1) : \E w \in {0, Window} : Sees(a, z, "prefill", q, w, n)
  <2>1. a \in DenseLooks("prefill", z, 0, n, all)
    BY <1>0, <1>1, <1>2, <1>3
  <2>2. \E q \in 0..(0 + n - 1), w \in {0, Window} : a = DenseLook("prefill", z, 0, n, all[w], q, w)
    <3>1. PICK ph, first : ph = "prefill" /\ first = 0
      OBVIOUS
    <3>2. a \in DenseLooks(ph, z, first, n, all)
      BY <2>1, <3>1
    <3>3. \E q \in first..(first + n - 1), w \in {0, Window} : a = DenseLook(ph, z, first, n, all[w], q, w)
      BY <3>2, DenseLooksAre
    <3> QED
      BY <3>1, <3>3
  <2>3. PICK q \in 0..(n - 1), w \in {0, Window} : a = DenseLook("prefill", z, 0, n, all[w], q, w)
    <3>1. 0..(0 + n - 1) = 0..(n - 1)
      BY <1>1
    <3> QED
      BY <2>2, <3>1
  <2>4. all[w] = own /\ DenseStart(0, n, n) = 0
    BY <1>1, <1>2 DEF DenseStart
  <2>5. DenseMask("prefill", q, 0, n, n, w) = Visible("prefill", q, n, w)
    <3>1. 0 + n - 1 = n - 1
      BY <1>1
    <3> QED
      BY <2>4, <3>1 DEF DenseMask, Visible
  <2>6. PICK keys : keys = [k \in Visible("prefill", q, n, w) |-> own[k - 0 + 1]]
    OBVIOUS
  <2>7. a = Looks(z, "prefill", q, w, keys)
    BY <1>1, <2>3, <2>4, <2>5, <2>6, Zenon DEF DenseLook
  <2>8. a.keys = keys
    BY <2>7 DEF Looks
  <2>9. ASSUME NEW k \in DOMAIN keys PROVE keys[k][1] = call * 10 + z /\ keys[k][2] = k
    <3>1. k \in 0..(n - 1) /\ keys[k] = own[k - 0 + 1]
      BY <2>6 DEF Visible
    <3>2. k - 0 + 1 \in 1..n /\ (k - 0 + 1) - 1 = k
      BY <1>1, <3>1
    <3>3. keys[k] = Own(z, k, "prompt")
      BY <1>1, <3>1, <3>2
    <3> QED
      BY <3>3, OwnIs
  <2>10. Sees(a, z, "prefill", q, w, n)
    BY <2>6, <2>7, <2>8, <2>9 DEF Sees, Mine
  <2> QED
    BY <2>10
<1>4. PromptLooks
  BY <1>1, <1>3 DEF PromptLooks
<1> QED
  BY <1>4, PromptSeen

\* The rows a prefill starts.
LEMMA StartedRows ==
  ASSUME IInv, phase = "prefill", Stops' = Stops, NEW ids, ids \subseteq RowIds, \A r \in ids : ~rows[r].prefilled,
         rows' = [r \in RowIds |-> IF r \in ids THEN Started(rows[r]) ELSE rows[r]]
  PROVE  /\ rows' \in Seq(RowType) /\ RowIds' = RowIds /\ RowsFit' /\ (rows # <<>> => rows' # <<>>)
         /\ Active' = {r \in ids : rows[r].remaining > 0}
         /\ \A r \in RowIds : rows'[r].prompt = rows[r].prompt
         /\ \A r \in ids : rows'[r].prefilled /\ rows'[r].emitted = <<>>
         /\ \A r \in RowIds \ ids : rows'[r] = rows[r]
<1>1. Shapes /\ RowsFit /\ Phases
  BY DEF IInv
<1>2. PICK n \in Nat : n = Len(rows) /\ RowIds = 1..n /\ \A r \in RowIds : rows[r] \in RowType
  BY <1>1, ActiveRows
<1>3. ASSUME NEW r \in ids
      PROVE  /\ rows'[r] \in RowType /\ RowFits(rows'[r], Stops) /\ rows'[r].prefilled
             /\ rows'[r].active = (rows[r].remaining > 0)
             /\ rows'[r].prompt = rows[r].prompt /\ rows'[r].emitted = <<>>
  <2>1. PICK row, new, stop : row = rows[r] /\ new = rows'[r] /\ stop = Stops
    OBVIOUS
  <2>2. row \in RowType /\ RowFits(row, stop) /\ ~row.prefilled
    BY <1>1, <1>2, <1>3, <2>1 DEF RowsFit
  <2>3. new = Started(row)
    BY <1>3, <2>1
  <2>4. /\ new \in RowType /\ RowFits(new, stop) /\ new.prefilled
        /\ new.active = (row.remaining > 0) /\ new.prompt = row.prompt /\ new.emitted = <<>>
    BY <2>2, <2>3, StartedRow
  <2> QED
    BY <2>1, <2>4
<1>4. \A r \in RowIds \ ids : rows'[r] = rows[r] /\ r \in DOMAIN rows
  BY DEF RowIds
<1>5. DOMAIN rows' = RowIds
  OBVIOUS
<1>6. RowIds' = RowIds
  BY <1>5 DEF RowIds
<1>7. \A r \in RowIds : rows'[r] \in RowType
  BY <1>2, <1>3, <1>4
<1>8. rows' \in Seq(RowType)
  <2>1. PICK new : new = rows'
    OBVIOUS
  <2>2. new \in [1..n -> RowType]
    BY <1>2, <1>7, <2>1
  <2> QED
    BY <2>1, <2>2
<1>9. ASSUME NEW r \in RowIds' PROVE RowFits(rows[r], Stops)'
  <2>1. RowFits(rows'[r], Stops')
    <3>1. CASE r \in ids
      BY <1>3, <3>1
    <3>2. CASE r \notin ids
      BY <1>1, <1>4, <1>6, <3>2 DEF RowsFit
    <3> QED
      BY <3>1, <3>2
  <2> QED
    BY <2>1, FitsThen
<1>10. RowsFit'
  BY <1>9 DEF RowsFit
<1>11. Active = {}
  BY <1>1 DEF Phases, Running
<1>12. \A r \in RowIds : r \in Active' <=> r \in ids /\ rows[r].remaining > 0
  <2>1. ASSUME NEW r \in RowIds PROVE r \in Active' <=> rows'[r].active
    BY <1>6 DEF Active
  <2>2. ASSUME NEW r \in RowIds \ ids PROVE ~rows[r].active
    BY <1>11 DEF Active
  <2> QED
    BY <1>3, <1>4, <2>1, <2>2
<1>13. Active' \subseteq RowIds
  BY <1>6 DEF Active
<1>14. Active' = {r \in ids : rows[r].remaining > 0}
  BY <1>12, <1>13
<1>15. rows # <<>> => rows' # <<>>
  BY <1>1, <1>5, <1>8 DEF RowIds, Shapes
<1>16. \A r \in RowIds : rows'[r].prompt = rows[r].prompt
  <2>1. ASSUME NEW r \in RowIds PROVE rows'[r].prompt = rows[r].prompt
    <3>1. CASE r \in ids
      BY <1>3, <3>1
    <3>2. CASE r \notin ids
      BY <1>4, <3>2
    <3> QED
      BY <3>1, <3>2
  <2> QED
    BY <2>1
<1> QED
  BY <1>3, <1>4, <1>6, <1>8, <1>10, <1>14, <1>15, <1>16

\* The decoder starts over.
LEMMA FreshDecodes ==
  ASSUME Fresh(Active'), phase' # "commit"
  PROVE  Decoding'
<1>1. PICK A : A = Active'
  OBVIOUS
<1>2. state' = [argmax |-> [r \in A |-> <<>>], steps |-> [r \in A |-> 0], active |-> A, history |-> <<>>]
  BY <1>1 DEF Fresh, NewBatchState
<1>3. /\ DOMAIN state'.argmax = A /\ DOMAIN state'.steps = A /\ state'.active = A
      /\ \A r \in A : state'.steps[r] = 0
  BY <1>2
<1>4. 0 \in 0..MaxSteps /\ 0 < MaxSteps
  BY SizesAssumption
<1> QED
  BY <1>1, <1>3, <1>4 DEF Decoding

\* The dense runner keeps the last keys of the prompt of the row it starts.
LEMMA PromptKept ==
  ASSUME Shapes, NEW z \in RowIds, NEW w \in {0, Window}, NEW n, n = rows[z].prompt,
         NEW key, \A p \in 0..(n - 1) : key[p] = Own(z, p, "prompt")
  PROVE  Holds(CacheForNext(PromptKeys(z), w), key, n, w)
<1>1. PICK own : own = PromptKeys(z)
  OBVIOUS
<1>2. n \in Nat /\ own \in Seq(Keys) /\ Len(own) = n /\ \A p \in 1..n : own[p] = Own(z, p - 1, "prompt")
  BY <1>1, PromptKeysAre
<1>3. w \in Nat
  BY SizesAssumption
<1>4. Cut(0, w) = 0
  BY <1>3 DEF Cut
<1>5. Holds(<<>>, key, 0, w)
  <2>1. <<>> \in Seq(Keys) /\ Len(<<>>) = 0 /\ 1..0 = {}
    OBVIOUS
  <2> QED
    BY <1>4, <2>1 DEF Holds
<1>6. Follow(own, key, 0, n)
  <2>1. ASSUME NEW j \in 1..n PROVE own[j] = key[0 + j - 1]
    <3>1. 0 + j - 1 = j - 1 /\ j - 1 \in 0..(n - 1)
      BY <1>2
    <3> QED
      BY <1>2, <3>1
  <2> QED
    BY <1>2, <2>1 DEF Follow
<1>7. Holds(CacheForNext(<<>> \o own, w), key, 0 + n, w)
  BY <1>2, <1>3, <1>5, <1>6, CacheKeeps
<1>8. <<>> \o own = own /\ 0 + n = n
  BY <1>2
<1> QED
  BY <1>1, <1>7, <1>8

\* The prefill of a batch, or of the next row of the dense runner.
LEMMA PrefillHolds ==
  ASSUME IInv, Prefill
  PROVE  IInv' /\ SeesWindow'
<1>1. Shapes /\ RowsFit /\ Phases
  BY DEF IInv
<1>2. PICK ids, order, work :
        /\ ids = IF mode = "dense" THEN {Min({r \in RowIds : ~rows[r].prefilled})} ELSE RowIds
        /\ order = InOrder(ids)
        /\ work = {r \in ids : rows[r].remaining > 0}
  OBVIOUS
<1>3. /\ phase = "prefill" /\ call' = call /\ mode' = mode /\ cache' = cache
      /\ rows' = [r \in RowIds |-> IF r \in ids THEN Started(rows[r]) ELSE rows[r]]
      /\ Fresh(work)
      /\ phase' = PhaseAfter(work, {r \in RowIds \ ids : ~rows[r].prefilled})
  BY <1>2 DEF Prefill
<1>20. Stopping' /\ Stops' = Stops
  <2>1. early' = early /\ phase' # "idle"
    BY <1>3 DEF Prefill, PhaseAfter
  <2> QED
    BY <1>3, <2>1, SameStopping DEF IInv
<1>4. /\ mode = "dense" =>
           /\ dense' = [dense EXCEPT ![order[1]] = [w \in {0, Window} |-> CacheForNext(PromptKeys(order[1]), w)]]
           /\ seen' = DenseLooks("prefill", order[1], 0, rows[order[1]].prompt,
                                 [w \in {0, Window} |-> PromptKeys(order[1])])
           /\ mem' = mem
      /\ mode # "dense" =>
           /\ Launched(PromptMetadata(order), Tuple([i \in DOMAIN order |-> PromptKeys(order[i])]),
                       Len(order), "prefill", FALSE)
           /\ dense' = dense
  BY <1>2 DEF Prefill
<1>5. RowIds = 1..Len(rows) /\ Len(rows) \in Nat
  BY <1>1, ActiveRows
<1>6. mode = "dense" => \E z \in RowIds : ids = {z} /\ ~rows[z].prefilled
  <2> SUFFICES ASSUME mode = "dense" PROVE \E z \in RowIds : ids = {z} /\ ~rows[z].prefilled
    OBVIOUS
  <2>1. PICK S : S = {r \in RowIds : ~rows[r].prefilled}
    OBVIOUS
  <2>2. S \in SUBSET Nat /\ S # {}
    BY <1>1, <1>3, <1>5, <2>1 DEF Phases
  <2>3. Min(S) \in S
    BY <2>2, MinIs
  <2> QED
    BY <1>2, <2>1, <2>3
<1>7. ids \subseteq RowIds /\ \A r \in ids : ~rows[r].prefilled
  BY <1>1, <1>2, <1>3, <1>6 DEF Phases
<1>8. /\ rows' \in Seq(RowType) /\ RowIds' = RowIds /\ RowsFit' /\ (rows # <<>> => rows' # <<>>)
      /\ Active' = {r \in ids : rows[r].remaining > 0}
      /\ \A r \in RowIds : rows'[r].prompt = rows[r].prompt
      /\ \A r \in ids : rows'[r].prefilled /\ rows'[r].emitted = <<>>
      /\ \A r \in RowIds \ ids : rows'[r] = rows[r]
  BY <1>3, <1>7, <1>20, StartedRows
<1>9. Active' = work
  BY <1>2, <1>8
<1>10. Active' \subseteq ids
  BY <1>2, <1>9
<1>11. /\ phase' \in {"denoise", "prefill", "return"}
       /\ phase' = "denoise" <=> work # {}
       /\ phase' = "prefill" => mode = "dense" /\ \E r \in RowIds \ ids : ~rows[r].prefilled
       /\ phase' = "return" => (mode = "dense" => \A r \in RowIds \ ids : rows[r].prefilled)
  <2>1. PICK waiting : waiting = {r \in RowIds \ ids : ~rows[r].prefilled}
    OBVIOUS
  <2>2. phase' = PhaseAfter(work, waiting)
    BY <1>3, <2>1
  <2>3. mode # "dense" => waiting = {}
    BY <1>2, <2>1
  <2> QED
    BY <2>1, <2>2, <2>3 DEF PhaseAfter
<1>12. Running' <=> phase' = "denoise"
  BY <1>11 DEF Running
<1>13. rows' # <<>>
  BY <1>1, <1>3, <1>8 DEF Phases
<1>14. Phases'
  <2>1. phase' = "prefill" => \E r \in RowIds' : ~rows'[r].prefilled
    BY <1>8, <1>11
  <2>2. mode # "dense" => \A r \in RowIds' : rows'[r].prefilled
    BY <1>2, <1>8
  <2>3. phase' = "return" => \A r \in RowIds' : rows'[r].prefilled
    BY <1>8, <1>11, <2>2
  <2>4. mode = "dense" => \A q, r \in Active' : q = r
    BY <1>6, <1>10
  <2>5. Running' <=> Active' # {}
    BY <1>9, <1>11, <1>12
  <2>6. phase' # "idle" /\ (phase' = "prefill" => mode = "dense")
    BY <1>11
  <2> QED
    BY <1>3, <1>11, <1>13, <2>1, <2>2, <2>3, <2>4, <2>5, <2>6 DEF Phases
<1>15. Decoding'
  BY <1>3, <1>9, <1>11, FreshDecodes
<1>16. ASSUME NEW r \in Active'
       PROVE  /\ r \in RowIds /\ PrefixLength(r)' = rows[r].prompt /\ rows[r].prompt \in Nat
              /\ \A p \in 0..(rows[r].prompt - 1) : Committed(r, p)' = Own(r, p, "prompt")
  <2>1. r \in RowIds /\ rows'[r].prompt = rows[r].prompt /\ rows'[r].emitted = <<>>
    BY <1>7, <1>8, <1>10
  <2>2. rows[r].prompt \in Nat
    <3>1. rows[r] \in RowType
      BY <1>1, <2>1, ActiveRows
    <3> QED
      BY <3>1 DEF RowType
  <2>3. PrefixLength(r)' = rows[r].prompt
    BY <2>1, <2>2 DEF PrefixLength
  <2>4. ASSUME NEW p \in 0..(rows[r].prompt - 1) PROVE Committed(r, p)' = Own(r, p, "prompt")
    <3>1. p < rows'[r].prompt
      BY <2>1, <2>2
    <3> QED
      BY <1>3, <3>1 DEF Committed, Own
  <2> QED
    BY <2>1, <2>2, <2>3, <2>4
<1>17. call' \in Nat /\ cache'.max \in Nat /\ cache'.size \in Nat
  BY <1>1, <1>3 DEF Shapes
<1>18. CASE mode = "dense"
  <2>1. PICK z \in RowIds : ids = {z} /\ order[1] = z
    <3>1. PICK z \in RowIds : ids = {z}
      BY <1>6, <1>18
    <3>2. order \in Seq(ids) /\ Len(order) \in Nat /\ Len(order) > 0
      <4>1. ids \subseteq 1..Len(rows) /\ ids # {}
        BY <1>5, <1>7, <3>1
      <4> QED
        BY <1>2, <1>5, <4>1, InOrderIs
    <3>3. order[1] \in ids
      BY <3>2
    <3> QED
      BY <3>1, <3>3
  <2>2. PICK kept : kept = [w \in {0, Window} |-> CacheForNext(PromptKeys(z), w)]
    OBVIOUS
  <2>3. /\ dense' = [dense EXCEPT ![z] = kept] /\ mem' = mem
        /\ seen' = DenseLooks("prefill", z, 0, rows[z].prompt, [w \in {0, Window} |-> PromptKeys(z)])
    BY <1>4, <1>18, <2>1, <2>2
  <2>4. PICK n, key : n = rows[z].prompt /\ key = [p \in 0..(n - 1) |-> Own(z, p, "prompt")]
    OBVIOUS
  <2>5. \A w \in {0, Window} : Holds(kept[w], key, n, w)
    <3>1. \A p \in 0..(n - 1) : key[p] = Own(z, p, "prompt")
      BY <2>4
    <3>2. ASSUME NEW w \in {0, Window} PROVE Holds(kept[w], key, n, w)
      <4>1. Holds(CacheForNext(PromptKeys(z), w), key, n, w)
        BY <1>1, <2>4, <3>1, PromptKept
      <4> QED
        BY <2>2, <4>1
    <3> QED
      BY <3>2
  <2>6. DOMAIN kept = {0, Window} /\ \A w \in {0, Window} : kept[w] \in Seq(Keys)
    BY <2>2, <2>5 DEF Holds
  <2>7. /\ DOMAIN dense = RowIds
        /\ \A r \in RowIds : DOMAIN dense[r] = {0, Window} /\ \A w \in {0, Window} : dense[r][w] \in Seq(Keys)
    BY <1>1 DEF Shapes
  <2>8. DOMAIN dense' = RowIds /\ dense'[z] = kept /\ \A r \in RowIds \ {z} : dense'[r] = dense[r]
    BY <2>3, <2>7
  <2>9. \A r \in RowIds : DOMAIN dense'[r] = {0, Window} /\ \A w \in {0, Window} : dense'[r][w] \in Seq(Keys)
    <3>1. ASSUME NEW r \in RowIds
          PROVE  DOMAIN dense'[r] = {0, Window} /\ \A w \in {0, Window} : dense'[r][w] \in Seq(Keys)
      <4>1. CASE r = z
        BY <2>6, <2>8, <4>1, Zenon
      <4>2. CASE r # z
        BY <2>7, <2>8, <4>2, Zenon
      <4> QED
        BY <4>1, <4>2
    <3> QED
      BY <3>1
  <2>10. DOMAIN mem' = 1..cache'.size /\ \A r \in 1..cache'.size : DOMAIN mem'[r] = 0..(cache'.max - 1)
    BY <1>1, <1>3, <2>3 DEF Shapes
  <2>11. Shapes'
    BY <1>8, <1>17, <2>8, <2>9, <2>10, Zenon DEF Shapes
  <2>12. DenseKept'
    <3>1. ASSUME NEW r \in Active', NEW w \in {0, Window}
          PROVE  Holds(dense'[r][w], CommittedKeys(r)', PrefixLength(r)', w)
      <4>1. r = z
        BY <1>10, <2>1
      <4>2. PrefixLength(r)' = n /\ \A p \in 0..(n - 1) : Committed(r, p)' = Own(r, p, "prompt")
        BY <1>16, <2>4, <4>1
      <4>3. CommittedKeys(r)' = [p \in 0..(n - 1) |-> Committed(r, p)']
        BY <4>2 DEF CommittedKeys
      <4>4. CommittedKeys(r)' = key
        BY <2>4, <4>1, <4>2, <4>3
      <4> QED
        BY <2>5, <2>8, <4>1, <4>2, <4>4
    <3> QED
      BY <3>1, Zenon DEF DenseKept, Holds
  <2>13. KVCommitted'
    BY <1>3, <1>18 DEF KVCommitted
  <2>14. SeesWindow'
    BY <1>1, <1>3, <1>8, <2>3, DensePromptSeen
  <2> QED
    BY <1>8, <1>14, <1>15, <1>20, <2>11, <2>12, <2>13, <2>14 DEF IInv
<1>19. CASE mode # "dense"
  <2>1. ids = RowIds
    BY <1>2, <1>19
  <2>2. PromptPass
    BY <1>1, <1>2, <1>4, <1>19, <2>1, PromptLaunch
  <2>3. dense' = dense
    BY <1>4, <1>19
  <2>4. Shapes'
    <3>1. DOMAIN mem' = 1..cache'.size /\ \A r \in 1..cache'.size : DOMAIN mem'[r] = 0..(cache'.max - 1)
      BY <1>3, <2>2 DEF PromptPass, MemShape
    <3>2. /\ DOMAIN dense' = RowIds
          /\ \A r \in RowIds : DOMAIN dense'[r] = {0, Window} /\ \A w \in {0, Window} : dense'[r][w] \in Seq(Keys)
      BY <1>1, <2>3 DEF Shapes
    <3> QED
      BY <1>8, <1>17, <3>1, <3>2, Zenon DEF Shapes
  <2>5. KVCommitted'
    <3>1. ASSUME NEW r \in Active', NEW p \in 0..(PrefixLength(r)' - 1) PROVE mem'[r][p] = Committed(r, p)'
      <4>1. r \in RowIds /\ p \in 0..(rows[r].prompt - 1) /\ Committed(r, p)' = Own(r, p, "prompt")
        BY <1>16
      <4> QED
        BY <2>2, <4>1 DEF PromptPass
    <3> QED
      BY <3>1 DEF KVCommitted
  <2>6. DenseKept'
    BY <1>3, <1>19 DEF DenseKept
  <2>7. SeesWindow'
    BY <1>3, <1>8, <2>2, PromptSeen DEF PromptPass
  <2> QED
    BY <1>8, <1>14, <1>15, <1>20, <2>4, <2>5, <2>6, <2>7 DEF IInv
<1> QED
  BY <1>18, <1>19

-----------------------------------------------------------------------------
(* The denoising steps.                                                    *)

\* A row that has converged keeps a prediction of the model, the others have
\* steps left.
LEMMA StepDecodes ==
  ASSUME Running, Decoding, NEW argmax \in [Active -> Predictions], NEW confident,
         state' = StepBatch(state, argmax, confident)
  PROVE  /\ DOMAIN state'.argmax = Active /\ DOMAIN state'.steps = Active /\ state'.active \subseteq Active
         /\ \A r \in Active :
              /\ state'.steps[r] \in 0..MaxSteps
              /\ r \in state'.active => state'.steps[r] < MaxSteps
              /\ r \notin state'.active => state'.argmax[r] \in Predictions
<1>1. /\ DOMAIN state.argmax = Active /\ DOMAIN state.steps = Active /\ state.active \subseteq Active
      /\ \A r \in Active :
           /\ state.steps[r] \in 0..MaxSteps
           /\ r \in state.active => state.steps[r] < MaxSteps
           /\ r \notin state.active => state.argmax[r] \in Predictions
  BY DEF Decoding
<1> DEFINE kept == [r \in DOMAIN state.argmax |-> IF r \in state.active THEN argmax[r] ELSE state.argmax[r]]
           steps == [r \in DOMAIN state.steps |-> IF r \in state.active THEN state.steps[r] + 1 ELSE state.steps[r]]
           history == Remember(state.history, kept)
           Stable(r) == Len(history) >= Stability /\ \A i \in DOMAIN history : history[i][r] = history[1][r]
           converged == {r \in state.active : (Stable(r) /\ r \in confident) \/ steps[r] >= MaxSteps}
<1>2. state' = [argmax |-> kept, steps |-> steps, active |-> state.active \ converged, history |-> history]
  BY DEF StepBatch
<1>3. state'.argmax = kept /\ state'.steps = steps /\ state'.active = state.active \ converged
  BY <1>2
<1>4. \A r \in state.active : r \notin converged => ~(steps[r] >= MaxSteps)
  OBVIOUS
<1> HIDE DEF converged
<1>5. /\ DOMAIN kept = Active /\ DOMAIN steps = Active
      /\ \A r \in Active : steps[r] = IF r \in state.active THEN state.steps[r] + 1 ELSE state.steps[r]
      /\ \A r \in Active : kept[r] \in Predictions \/ kept[r] = state.argmax[r]
      /\ \A r \in state.active : kept[r] \in Predictions
      /\ \A r \in Active \ state.active : kept[r] = state.argmax[r]
  BY <1>1
<1> HIDE DEF kept, steps
<1>6. ASSUME NEW r \in Active
      PROVE  /\ state'.steps[r] \in 0..MaxSteps
             /\ r \in state'.active => state'.steps[r] < MaxSteps
             /\ r \notin state'.active => state'.argmax[r] \in Predictions
  <2>1. PICK old \in 0..MaxSteps, M \in Nat : old = state.steps[r] /\ M = MaxSteps
    BY <1>1, SizesAssumption
  <2>2. CASE r \in state.active
    <3>1. old < M /\ steps[r] = old + 1
      BY <1>1, <1>5, <2>1, <2>2
    <3>2. steps[r] \in 0..MaxSteps
      BY <2>1, <3>1
    <3>3. r \in state'.active => steps[r] < MaxSteps
      BY <1>3, <1>4, <2>1, <2>2, <3>1
    <3> QED
      BY <1>3, <1>5, <2>2, <3>2, <3>3
  <2>3. CASE r \notin state.active
    BY <1>1, <1>3, <1>5, <2>3
  <2> QED
    BY <2>2, <2>3
<1> QED
  BY <1>1, <1>3, <1>5, <1>6

\* A denoising step writes nothing a row has committed.
LEMMA DenoiseHolds ==
  ASSUME IInv, NEW argmax \in [Active -> Predictions], NEW confident, Denoise(argmax, confident)
  PROVE  IInv' /\ SeesWindow'
<1>1. Shapes /\ RowsFit /\ Phases /\ Decoding /\ KVCommitted /\ DenseKept
  BY DEF IInv
<1>2. PICK tokens : tokens = [r \in Active |-> Tuple([i \in 1..Canvas |-> "noise"])]
  OBVIOUS
<1>3. /\ phase = "denoise" /\ Forward("denoise", tokens)
      /\ state' = StepBatch(state, argmax, confident)
      /\ phase' = IF state'.active = {} THEN "commit" ELSE "denoise"
      /\ call' = call /\ mode' = mode /\ rows' = rows /\ cache' = cache
  BY <1>2 DEF Denoise
<1>4. Running /\ Running'
  BY <1>3 DEF Running
<1>5. RowIds' = RowIds /\ Active' = Active
  BY <1>3 DEF RowIds, Active
<1>6. /\ SeesWindow'
      /\ mode # "dense" => PagedAfter(tokens)
      /\ mode = "dense" => DenseAfter("denoise", tokens)
  <2>1. PICK ph : ph = "denoise"
    OBVIOUS
  <2>2. \A r \in Active : rows'[r].prompt = rows[r].prompt
    BY <1>3
  <2>3. /\ SeesWindow'
        /\ mode # "dense" => PagedAfter(tokens)
        /\ mode = "dense" => DenseAfter(ph, tokens)
    BY <1>3, <1>4, <2>1, <2>2, PassKeeps
  <2> QED
    BY <2>1, <2>3
<1>7. dense' = dense /\ MemShape(mem')
  <2>1. CASE mode = "dense"
    BY <1>1, <1>6, <2>1 DEF DenseAfter, MemShape, Shapes
  <2>2. CASE mode # "dense"
    BY <1>6, <2>2 DEF PagedAfter
  <2> QED
    BY <2>1, <2>2
<1>8. Shapes'
  <2>1. DOMAIN mem' = 1..cache'.size /\ \A r \in 1..cache'.size : DOMAIN mem'[r] = 0..(cache'.max - 1)
    BY <1>3, <1>7 DEF MemShape
  <2>2. /\ call' \in Nat /\ rows' \in Seq(RowType) /\ cache'.max \in Nat /\ cache'.size \in Nat
        /\ DOMAIN dense' = RowIds'
        /\ \A r \in RowIds' : DOMAIN dense'[r] = {0, Window} /\ \A w \in {0, Window} : dense'[r][w] \in Seq(Keys)
    BY <1>1, <1>3, <1>5, <1>7 DEF Shapes
  <2> QED
    BY <2>1, <2>2, Zenon DEF Shapes
<1>16. Stopping' /\ early' = early
  <2>1. early' = early /\ phase' # "idle"
    BY <1>3 DEF Denoise
  <2> QED
    BY <1>3, <2>1, SameStopping DEF IInv
<1>9. RowsFit'
  BY <1>1, <1>3, <1>16, SameRowsFit
<1>10. phase' \in {"denoise", "commit"} /\ (phase' = "commit" => state'.active = {})
  BY <1>3
<1>11. Phases'
  BY <1>1, <1>3, <1>4, <1>5, <1>10 DEF Phases
<1>12. Decoding'
  <2>1. /\ DOMAIN state'.argmax = Active /\ DOMAIN state'.steps = Active /\ state'.active \subseteq Active
        /\ \A r \in Active :
             /\ state'.steps[r] \in 0..MaxSteps
             /\ r \in state'.active => state'.steps[r] < MaxSteps
             /\ r \notin state'.active => state'.argmax[r] \in Predictions
    BY <1>1, <1>3, <1>4, StepDecodes
  <2> QED
    BY <1>5, <1>10, <2>1 DEF Decoding
<1>13. \A r : PrefixLength(r)' = PrefixLength(r) /\ \A p : Committed(r, p)' = Committed(r, p)
  BY <1>3 DEF PrefixLength, Committed, Own
<1>14. KVCommitted'
  <2>1. ASSUME mode # "dense", NEW r \in Active, NEW p \in 0..(PrefixLength(r) - 1)
        PROVE  mem'[r][p] = Committed(r, p)
    <3>1. PrefixLength(r) \in Nat /\ Canvas \in Nat
      BY <1>1, ActiveRow, SizesAssumption
    <3>2. p \in 0..(PrefixLength(r) + Canvas - 1) /\ p \notin PrefixLength(r)..(PrefixLength(r) + Canvas - 1)
      BY <3>1
    <3>3. mem'[r][p] = Written(r, p, tokens)
      BY <1>6, <2>1, <3>2 DEF PagedAfter
    <3>4. mem[r][p] = Committed(r, p)
      BY <1>1, <1>4, <2>1 DEF KVCommitted, Running
    <3> QED
      BY <3>2, <3>3, <3>4 DEF Written
  <2> QED
    BY <1>3, <1>5, <1>13, <2>1 DEF KVCommitted
<1>15. DenseKept'
  <2>1. \A r : CommittedKeys(r)' = CommittedKeys(r)
    BY <1>13 DEF CommittedKeys
  <2>2. ASSUME mode = "dense", NEW r \in Active, NEW w \in {0, Window}
        PROVE  Holds(dense'[r][w], CommittedKeys(r)', PrefixLength(r)', w)
    <3>1. Holds(dense[r][w], CommittedKeys(r), PrefixLength(r), w)
      BY <1>1, <1>4, <2>2 DEF DenseKept
    <3> QED
      BY <1>7, <1>13, <2>1, <3>1, Zenon
  <2> QED
    BY <1>3, <1>5, <2>2, Zenon DEF DenseKept, Holds
<1> QED
  BY <1>6, <1>8, <1>9, <1>11, <1>12, <1>14, <1>15, <1>16 DEF IInv

-----------------------------------------------------------------------------
(* The commit.                                                             *)

\* A prediction is a canvas of tokens.
LEMMA PredictionIs ==
  ASSUME NEW a \in Predictions
  PROVE  a \in Seq(Tokens) /\ Len(a) = Canvas /\ \A i \in 1..Canvas : a[i] \in Tokens
<1>1. a \in Seq(ToSet(a)) /\ Len(a) = Canvas
  BY PredictionsAssumption
<1>2. ToSet(a) \subseteq Tokens
  BY DEF Tokens
<1>3. PICK S : S = ToSet(a)
  OBVIOUS
<1>4. a \in Seq(S) /\ S \subseteq Tokens
  BY <1>1, <1>2, <1>3
<1>5. a \in Seq(Tokens)
  BY <1>4
<1> QED
  BY <1>1, <1>5

\* What the commit makes of the rows.
LEMMA GrownRows ==
  ASSUME IInv, phase = "commit", Stops' = Stops,
         rows' = [r \in RowIds |-> IF r \in Active THEN Grown(rows[r], state.argmax[r], state.steps[r])
                                   ELSE rows[r]]
  PROVE  /\ rows' \in Seq(RowType) /\ RowIds' = RowIds /\ RowsFit' /\ rows' # <<>> /\ Active' \subseteq Active
         /\ \A r \in RowIds : rows'[r].prompt = rows[r].prompt /\ (rows'[r].prefilled <=> rows[r].prefilled)
         /\ \A r \in Active' : rows'[r].emitted = rows[r].emitted \o state.argmax[r]
<1>1. Shapes /\ RowsFit /\ Stopping /\ Phases /\ Decoding
  BY DEF IInv
<1>2. PICK n \in Nat : n = Len(rows) /\ RowIds = 1..n /\ \A r \in RowIds : rows[r] \in RowType
  BY <1>1, ActiveRows
<1>3. ASSUME NEW r \in Active
      PROVE  /\ rows'[r] \in RowType /\ RowFits(rows'[r], Stops) /\ rows'[r].prefilled
             /\ rows'[r].prompt = rows[r].prompt
             /\ rows'[r].active => rows'[r].emitted = rows[r].emitted \o state.argmax[r]
  <2>1. PICK row, new, a, st : row = rows[r] /\ new = rows'[r] /\ a = state.argmax[r] /\ st = state.steps[r]
    OBVIOUS
  <2>7. PICK stop \in BOOLEAN : stop = Stops /\ stop = early.stop
    BY <1>1, SizesAssumption DEF Stopping, Stops
  <2>2. row \in RowType /\ RowFits(row, stop) /\ row.active
    BY <2>7, <1>1, <2>1, ActiveRow DEF RowsFit
  <2>3. st \in 0..MaxSteps /\ a \in Predictions
    BY <1>1, <2>1 DEF Decoding, Running
  <2>4. new = Grown(row, a, st)
    BY <1>1, <2>1, ActiveRow
  <2>5. a \in Seq(Tokens) /\ Len(a) = Canvas
    BY <2>3, PredictionIs
  <2>6. /\ new \in RowType /\ RowFits(new, stop) /\ new.prefilled /\ new.prompt = row.prompt
        /\ new.active => new.emitted = row.emitted \o a
    BY <2>2, <2>3, <2>4, <2>5, <2>7, GrownRow
  <2> QED
    BY <2>1, <2>6, <2>7
<1>4. \A r \in RowIds \ Active : rows'[r] = rows[r] /\ ~rows[r].active
  BY DEF Active
<1>5. DOMAIN rows' = RowIds
  OBVIOUS
<1>6. RowIds' = RowIds
  BY <1>5 DEF RowIds
<1>7. \A r \in RowIds : rows'[r] \in RowType
  BY <1>2, <1>3, <1>4
<1>8. rows' \in Seq(RowType)
  <2>1. PICK new : new = rows'
    OBVIOUS
  <2>2. new \in [1..n -> RowType]
    BY <1>2, <1>7, <2>1
  <2> QED
    BY <2>1, <2>2
<1>9. ASSUME NEW r \in RowIds' PROVE RowFits(rows[r], Stops)'
  <2>1. RowFits(rows'[r], Stops')
    <3>1. CASE r \in Active
      BY <1>3, <3>1
    <3>2. CASE r \notin Active
      BY <1>1, <1>4, <1>6, <3>2 DEF RowsFit
    <3> QED
      BY <3>1, <3>2
  <2> QED
    BY <2>1, FitsThen
<1>10. RowsFit'
  BY <1>9 DEF RowsFit
<1>11. ASSUME NEW r \in Active' PROVE r \in Active /\ rows'[r].active
  <2>1. r \in RowIds /\ rows'[r].active
    BY <1>6 DEF Active
  <2> QED
    BY <1>4, <2>1
<1>12. rows' # <<>>
  <2>1. rows # <<>>
    BY <1>1 DEF Phases
  <2> QED
    BY <1>1, <1>5, <1>8, <2>1 DEF RowIds, Shapes
<1>13. ASSUME NEW r \in RowIds
       PROVE  rows'[r].prompt = rows[r].prompt /\ (rows'[r].prefilled <=> rows[r].prefilled)
  <2>1. CASE r \in Active
    <3>1. rows[r].prefilled
      BY <1>1, <2>1, ActiveRow
    <3> QED
      BY <1>3, <2>1, <3>1
  <2>2. CASE r \notin Active
    BY <1>4, <2>2
  <2> QED
    BY <2>1, <2>2
<1> QED
  BY <1>3, <1>6, <1>8, <1>10, <1>11, <1>12, <1>13

\* The keys of a row once its canvas is committed.
After(r) ==
  [p \in 0..(PrefixLength(r) + Canvas - 1) |->
    IF p < PrefixLength(r) THEN Committed(r, p) ELSE Own(r, p, state.argmax[r][p - PrefixLength(r) + 1])]

\* A row that goes on has the keys of its canvas behind those it had.
LEMMA CommittedAfter ==
  ASSUME IInv, phase = "commit", call' = call, NEW r \in Active,
         rows'[r].prompt = rows[r].prompt, rows'[r].emitted = rows[r].emitted \o state.argmax[r]
  PROVE  /\ PrefixLength(r)' = PrefixLength(r) + Canvas
         /\ CommittedKeys(r)' = After(r)
         /\ \A p \in 0..(PrefixLength(r)' - 1) : Committed(r, p)' = After(r)[p]
<1>1. Shapes /\ RowsFit /\ Decoding
  BY DEF IInv
<1>0. PICK old, a, e : old = rows[r].emitted /\ a = state.argmax[r] /\ e = rows'[r].emitted
  OBVIOUS
<1>2. PICK n \in Nat, x \in Nat, k \in Nat :
        /\ old = rows[r].emitted /\ a = state.argmax[r] /\ e = rows'[r].emitted /\ n = rows[r].prompt
        /\ x = Len(old) /\ k = Canvas /\ old \in Seq(Tokens)
  <2>1. rows[r].prompt \in Nat /\ rows[r].emitted \in Seq(Tokens)
    BY <1>1, ActiveRow
  <2>2. old \in Seq(Tokens) /\ Len(old) \in Nat
    BY <1>0, <2>1
  <2>3. Canvas \in Nat
    BY SizesAssumption
  <2> QED
    BY <1>0, <2>1, <2>2, <2>3, Zenon
<1>3. a \in Seq(Tokens) /\ Len(a) = k
  <2>1. a \in Predictions
    BY <1>1, <1>2 DEF Decoding, Running
  <2> QED
    BY <1>2, <2>1, PredictionIs
<1>4. e = old \o a
  BY <1>2
<1>5. /\ e \in Seq(Tokens) /\ Len(e) = x + k
      /\ \A i \in 1..x : e[i] = old[i]
      /\ \A j \in 1..k : e[x + j] = a[j]
  <2>1. /\ old \o a \in Seq(Tokens) /\ Len(old \o a) = Len(old) + Len(a)
        /\ \A i \in 1..Len(old) : (old \o a)[i] = old[i]
        /\ \A j \in 1..Len(a) : (old \o a)[Len(old) + j] = a[j]
    <3>1. old \in Seq(Tokens) /\ a \in Seq(Tokens)
      BY <1>2, <1>3
    <3> QED
      BY <3>1, ConcatIs
  <2> QED
    BY <1>2, <1>3, <1>4, <2>1, Zenon
<1>6. PrefixLength(r) = n + x /\ PrefixLength(r)' = n + (x + k)
  BY <1>2, <1>5 DEF PrefixLength
<1>10. PICK from \in Nat, to \in Nat : from = PrefixLength(r) /\ to = PrefixLength(r)'
  BY <1>6
<1>11. k = Canvas
  BY <1>2
<1>12. from = n + x /\ to = from + k /\ from + k - 1 = to - 1
  BY <1>6, <1>10
<1>7. PrefixLength(r)' = PrefixLength(r) + Canvas
  BY <1>10, <1>11, <1>12
<1>8. ASSUME NEW p \in 0..(PrefixLength(r)' - 1) PROVE Committed(r, p)' = After(r)[p]
  <2>1. p \in 0..((n + x) + k - 1) /\ p \in 0..(PrefixLength(r) + Canvas - 1)
    <3>1. p \in 0..(to - 1)
      BY <1>8, <1>10
    <3>2. p \in 0..((n + x) + k - 1) /\ p \in 0..(from + k - 1)
      BY <1>12, <3>1
    <3> QED
      BY <1>10, <1>11, <3>2
  <2>2. After(r)[p] = IF p < n + x THEN Committed(r, p) ELSE Own(r, p, a[p - (n + x) + 1])
    BY <1>2, <1>6, <2>1 DEF After
  <2>3. Committed(r, p)' = Own(r, p, IF p < n THEN "prompt" ELSE e[p - n + 1])
    BY <1>2 DEF Committed, Own
  <2>4. Committed(r, p) = Own(r, p, IF p < n THEN "prompt" ELSE old[p - n + 1])
    BY <1>2 DEF Committed
  <2>5. CASE p < n
    <3>1. p < n + x
      BY <2>1, <2>5
    <3> QED
      BY <2>2, <2>3, <2>4, <2>5, <3>1
  <2>6. CASE ~(p < n) /\ p < n + x
    <3>1. p - n + 1 \in 1..x
      BY <2>1, <2>6
    <3>2. e[p - n + 1] = old[p - n + 1]
      BY <1>5, <3>1
    <3> QED
      BY <2>2, <2>3, <2>4, <2>6, <3>2
  <2>7. CASE ~(p < n) /\ ~(p < n + x)
    <3>1. PICK j : j = p - (n + x) + 1
      OBVIOUS
    <3>2. j \in 1..k /\ p - n + 1 = x + j
      BY <2>1, <2>7, <3>1
    <3>3. e[p - n + 1] = a[j]
      BY <1>5, <3>2
    <3> QED
      BY <2>2, <2>3, <2>7, <3>1, <3>3
  <2> QED
    BY <2>5, <2>6, <2>7, <2>1
<1>9. CommittedKeys(r)' = After(r)
  <2>1. CommittedKeys(r)' = [p \in 0..(PrefixLength(r)' - 1) |-> Committed(r, p)']
    BY DEF CommittedKeys
  <2>2. DOMAIN After(r) = 0..(PrefixLength(r)' - 1) /\ After(r) = [p \in DOMAIN After(r) |-> After(r)[p]]
    <3>1. (PrefixLength(r) + Canvas - 1) = (PrefixLength(r)' - 1)
      BY <1>10, <1>11, <1>12
    <3> QED
      BY <3>1 DEF After
  <2> QED
    BY <1>8, <2>1, <2>2
<1> QED
  BY <1>7, <1>8, <1>9

\* Only the keys of the positions held matter.
LEMMA HoldsSame ==
  ASSUME NEW w \in Nat, NEW n \in Nat, NEW s, NEW key, NEW other, Holds(s, key, n, w),
         \A p \in 0..(n - 1) : key[p] = other[p]
  PROVE  Holds(s, other, n, w)
<1>1. PICK c : c = Cut(n, w)
  OBVIOUS
<1>2. c \in Nat /\ c <= n
  BY <1>1 DEF Cut
<1>3. s \in Seq(Keys) /\ Len(s) = c /\ \A i \in 1..c : s[i] = key[n - c + i - 1]
  BY <1>1 DEF Holds
<1>4. ASSUME NEW i \in 1..c PROVE s[i] = other[n - c + i - 1]
  <2>1. n - c + i - 1 \in 0..(n - 1)
    BY <1>2
  <2> QED
    BY <1>3, <2>1
<1> QED
  BY <1>1, <1>3, <1>4 DEF Holds

\* The dense runner keeps the last keys of the row it committed.
LEMMA DenseCommitted ==
  ASSUME IInv, phase = "commit", mode = "dense", NEW r \in Active, NEW w \in {0, Window}
  PROVE  Holds(CacheForNext(dense[r][w] \o CanvasOf(r, state.argmax[r]), w), After(r), PrefixLength(r) + Canvas, w)
<1>1. Shapes /\ RowsFit /\ Decoding /\ DenseKept
  BY DEF IInv
<1>2. PICK n \in Nat, k \in Nat : n = PrefixLength(r) /\ k = Canvas /\ r \in RowIds
  BY <1>1, ActiveRow, SizesAssumption
<1>3. PICK key, own, s, a :
        /\ key = After(r) /\ own = CanvasOf(r, state.argmax[r]) /\ s = dense[r][w] /\ a = state.argmax[r]
  OBVIOUS
<1>4. w \in Nat
  BY SizesAssumption
<1>5. \A p \in 0..(n + k - 1) : key[p] = IF p < n THEN Committed(r, p) ELSE Own(r, p, a[p - n + 1])
  BY <1>2, <1>3 DEF After
<1>6. Holds(s, key, n, w)
  <2>1. Holds(s, CommittedKeys(r), n, w)
    BY <1>1, <1>2, <1>3 DEF DenseKept, Running
  <2>2. ASSUME NEW p \in 0..(n - 1) PROVE CommittedKeys(r)[p] = key[p]
    <3>1. p \in 0..(n + k - 1) /\ p < n
      BY <1>2
    <3>2. CommittedKeys(r)[p] = Committed(r, p)
      BY <1>2 DEF CommittedKeys
    <3> QED
      BY <1>5, <3>1, <3>2
  <2> QED
    BY <1>4, <2>1, <2>2, HoldsSame
<1>7. Follow(own, key, n, k)
  <2>1. /\ Len(own) = k /\ \E S : own \in Seq(S)
        /\ \A i \in 1..k : own[i] = Own(r, n + i - 1, a[i])
    <3>1. /\ Len(CanvasOf(r, a)) = Canvas
          /\ CanvasOf(r, a) \in Seq({Own(r, PrefixLength(r) + i - 1, a[i]) : i \in 1..Canvas})
          /\ \A i \in 1..Canvas : CanvasOf(r, a)[i] = Own(r, PrefixLength(r) + i - 1, a[i])
      BY <1>1, <1>2, CanvasOfIs, Zenon
    <3>2. own = CanvasOf(r, a)
      BY <1>3
    <3> QED
      BY <1>2, <3>1, <3>2, Zenon
  <2>2. \A i \in 1..Canvas : a[i] \in Tokens
    <3>1. a \in Predictions
      BY <1>1, <1>3 DEF Decoding, Running
    <3> QED
      BY <3>1, PredictionIs
  <2>3. ASSUME NEW j \in 1..k PROVE own[j] = key[n + j - 1] /\ own[j] \in Keys
    <3>1. PICK p : p = n + j - 1
      OBVIOUS
    <3>2. p \in 0..(n + k - 1) /\ ~(p < n) /\ p - n + 1 = j /\ p \in Nat
      BY <3>1
    <3>3. own[j] = Own(r, p, a[j]) /\ key[p] = Own(r, p, a[j])
      BY <1>5, <2>1, <3>1, <3>2
    <3>4. call * 10 + r \in Nat
      <4>1. call \in Nat /\ r \in Nat
        <5>1. RowIds = 1..Len(rows) /\ Len(rows) \in Nat
          BY <1>1, ActiveRows
        <5> QED
          BY <1>1, <1>2, <5>1 DEF Shapes
      <4> QED
        BY <4>1
    <3>5. a[j] \in Tokens
      BY <1>2, <2>2
    <3>6. Own(r, p, a[j]) \in Keys
      BY <3>2, <3>4, <3>5, Zenon DEF Own, Keys
    <3> QED
      BY <3>1, <3>3, <3>6
  <2>4. own \in Seq(Keys)
    <3>1. PICK S : own \in Seq(S)
      BY <2>1
    <3>2. own \in [1..k -> Keys]
      <4>1. DOMAIN own = 1..k /\ own = [i \in 1..k |-> own[i]]
        BY <2>1, <3>1
      <4> QED
        BY <2>3, <4>1
    <3> QED
      BY <3>2
  <2> QED
    BY <2>1, <2>3, <2>4 DEF Follow
<1>8. Holds(CacheForNext(s \o own, w), key, n + k, w)
  BY <1>4, <1>6, <1>7, CacheKeeps
<1> QED
  BY <1>2, <1>3, <1>8

\* The commit of the canvases.
LEMMA CommitHolds ==
  ASSUME IInv, Commit
  PROVE  IInv' /\ SeesWindow'
<1>1. Shapes /\ RowsFit /\ Phases /\ Decoding /\ KVCommitted /\ DenseKept
  BY DEF IInv
<1>2. PICK n \in Nat : n = Len(rows) /\ RowIds = 1..n
  BY <1>1, ActiveRows
<1>3. PICK next, left :
        /\ next = [r \in RowIds |-> IF r \in Active THEN Grown(rows[r], state.argmax[r], state.steps[r])
                                    ELSE rows[r]]
        /\ left = {r \in RowIds : next[r].active}
  OBVIOUS
<1>4. /\ phase = "commit" /\ Forward("commit", state.argmax)
      /\ rows' = Tuple(next) /\ Fresh(left)
      /\ phase' = PhaseAfter(left, {r \in RowIds : ~rows[r].prefilled})
      /\ call' = call /\ mode' = mode /\ cache' = cache
  BY <1>3 DEF Commit
<1>21. Stopping' /\ Stops' = Stops
  <2>1. early' = early /\ phase' # "idle"
    BY <1>4 DEF Commit, PhaseAfter
  <2> QED
    BY <1>4, <2>1, SameStopping DEF IInv
<1>5. rows' = next
  <2>1. next = [i \in 1..n |-> next[i]]
    BY <1>2, <1>3
  <2> QED
    BY <1>4, <2>1, TupleIs
<1>6. /\ rows' \in Seq(RowType) /\ RowIds' = RowIds /\ RowsFit' /\ rows' # <<>> /\ Active' \subseteq Active
      /\ \A r \in RowIds : rows'[r].prompt = rows[r].prompt /\ (rows'[r].prefilled <=> rows[r].prefilled)
      /\ \A r \in Active' : rows'[r].emitted = rows[r].emitted \o state.argmax[r]
  BY <1>3, <1>4, <1>5, <1>21, GrownRows
<1>7. Active' = left
  BY <1>3, <1>5, <1>6 DEF Active
<1>8. Running
  BY <1>4 DEF Running
<1>9. /\ SeesWindow'
      /\ mode # "dense" => PagedAfter(state.argmax)
      /\ mode = "dense" => DenseAfter("commit", state.argmax)
  <2>1. PICK ph, tokens : ph = "commit" /\ tokens = state.argmax
    OBVIOUS
  <2>2. \A r \in Active : rows'[r].prompt = rows[r].prompt
    BY <1>1, <1>6, ActiveRows
  <2>3. /\ SeesWindow'
        /\ mode # "dense" => PagedAfter(tokens)
        /\ mode = "dense" => DenseAfter(ph, tokens)
    BY <1>4, <1>8, <2>1, <2>2, PassKeeps
  <2> QED
    BY <2>1, <2>3
<1>10. PICK waiting : waiting = {r \in RowIds : ~rows[r].prefilled} /\ phase' = PhaseAfter(left, waiting)
  BY <1>4
<1>11. /\ phase' \in {"denoise", "prefill", "return"}
       /\ phase' = "denoise" <=> left # {}
       /\ phase' = "prefill" => waiting # {}
       /\ phase' = "return" => waiting = {}
  BY <1>10 DEF PhaseAfter
<1>12. Running' <=> phase' = "denoise"
  BY <1>11 DEF Running
<1>13. mode # "dense" => waiting = {}
  BY <1>1, <1>8, <1>10 DEF Phases
<1>14. Phases'
  <2>1. phase' = "prefill" => \E r \in RowIds' : ~rows'[r].prefilled
    BY <1>6, <1>10, <1>11
  <2>2. waiting = {} => \A r \in RowIds' : rows'[r].prefilled
    BY <1>6, <1>10
  <2>3. mode = "dense" => \A q, r \in Active' : q = r
    BY <1>1, <1>6, <1>8 DEF Phases
  <2>4. Running' <=> Active' # {}
    BY <1>7, <1>11, <1>12
  <2> QED
    BY <1>4, <1>6, <1>11, <1>13, <2>1, <2>2, <2>3, <2>4 DEF Phases
<1>15. Decoding'
  BY <1>4, <1>7, <1>11, FreshDecodes
<1>16. call' \in Nat /\ cache'.max \in Nat /\ cache'.size \in Nat
  BY <1>1, <1>4 DEF Shapes
<1>17. ASSUME NEW r \in Active'
       PROVE  /\ r \in Active /\ PrefixLength(r)' = PrefixLength(r) + Canvas /\ CommittedKeys(r)' = After(r)
              /\ \A p \in 0..(PrefixLength(r)' - 1) : Committed(r, p)' = After(r)[p]
  <2>1. r \in Active /\ r \in RowIds
    BY <1>1, <1>6, ActiveRows
  <2>2. rows'[r].prompt = rows[r].prompt /\ rows'[r].emitted = rows[r].emitted \o state.argmax[r]
    BY <1>6, <2>1
  <2> QED
    BY <1>4, <2>1, <2>2, CommittedAfter
<1>18. /\ DOMAIN dense = RowIds
       /\ \A r \in RowIds : DOMAIN dense[r] = {0, Window} /\ \A w \in {0, Window} : dense[r][w] \in Seq(Keys)
  BY <1>1 DEF Shapes
<1>19. CASE mode = "dense"
  <2>1. mem' = mem /\ \E z \in Active :
          dense' = [dense EXCEPT ![z] = [w \in {0, Window} |->
                      CacheForNext(dense[z][w] \o CanvasOf(z, state.argmax[z]), w)]]
    BY <1>9, <1>19 DEF DenseAfter
  <2>2. PICK z \in Active :
          dense' = [dense EXCEPT ![z] = [w \in {0, Window} |->
                      CacheForNext(dense[z][w] \o CanvasOf(z, state.argmax[z]), w)]]
    BY <2>1
  <2>3. PICK kept : kept = [w \in {0, Window} |-> CacheForNext(dense[z][w] \o CanvasOf(z, state.argmax[z]), w)]
    OBVIOUS
  <2>4. ASSUME NEW w \in {0, Window} PROVE Holds(kept[w], After(z), PrefixLength(z) + Canvas, w)
    <3>1. Holds(CacheForNext(dense[z][w] \o CanvasOf(z, state.argmax[z]), w), After(z), PrefixLength(z) + Canvas, w)
      BY <1>4, <1>19, DenseCommitted
    <3> QED
      BY <2>3, <3>1
  <2>5. DOMAIN kept = {0, Window} /\ \A w \in {0, Window} : kept[w] \in Seq(Keys)
    BY <2>3, <2>4 DEF Holds
  <2>6. z \in RowIds /\ dense' = [dense EXCEPT ![z] = kept]
    BY <1>1, <2>2, <2>3, ActiveRows
  <2>7. DOMAIN dense' = RowIds /\ dense'[z] = kept /\ \A r \in RowIds \ {z} : dense'[r] = dense[r]
    BY <1>18, <2>6
  <2>8. ASSUME NEW r \in RowIds
        PROVE  DOMAIN dense'[r] = {0, Window} /\ \A w \in {0, Window} : dense'[r][w] \in Seq(Keys)
    <3>1. CASE r = z
      BY <2>5, <2>7, <3>1, Zenon
    <3>2. CASE r # z
      BY <1>18, <2>7, <3>2, Zenon
    <3> QED
      BY <3>1, <3>2
  <2>9. DOMAIN mem' = 1..cache'.size /\ \A r \in 1..cache'.size : DOMAIN mem'[r] = 0..(cache'.max - 1)
    BY <1>1, <1>4, <2>1 DEF Shapes
  <2>10. Shapes'
    BY <1>6, <1>16, <2>7, <2>8, <2>9, Zenon DEF Shapes
  <2>11. DenseKept'
    <3>1. ASSUME NEW r \in Active', NEW w \in {0, Window}
          PROVE  Holds(dense'[r][w], CommittedKeys(r)', PrefixLength(r)', w)
      <4>1. r = z
        BY <1>1, <1>8, <1>17, <1>19 DEF Phases
      <4> QED
        BY <1>17, <2>4, <2>7, <4>1
    <3> QED
      BY <3>1, Zenon DEF DenseKept, Holds
  <2>12. KVCommitted'
    BY <1>4, <1>19 DEF KVCommitted
  <2> QED
    BY <1>6, <1>9, <1>14, <1>15, <1>21, <2>10, <2>11, <2>12 DEF IInv
<1>20. CASE mode # "dense"
  <2>1. MemShape(mem') /\ dense' = dense
    BY <1>9, <1>20 DEF PagedAfter
  <2>2. Shapes'
    <3>1. DOMAIN mem' = 1..cache'.size /\ \A r \in 1..cache'.size : DOMAIN mem'[r] = 0..(cache'.max - 1)
      BY <1>4, <2>1 DEF MemShape
    <3>2. /\ DOMAIN dense' = RowIds
          /\ \A r \in RowIds : DOMAIN dense'[r] = {0, Window} /\ \A w \in {0, Window} : dense'[r][w] \in Seq(Keys)
      BY <1>18, <2>1
    <3> QED
      BY <1>6, <1>16, <3>1, <3>2, Zenon DEF Shapes
  <2>3. KVCommitted'
    <3>1. ASSUME NEW r \in Active', NEW p \in 0..(PrefixLength(r)' - 1) PROVE mem'[r][p] = Committed(r, p)'
      <4>1. PICK l \in Nat, k \in Nat : l = PrefixLength(r) /\ k = Canvas /\ PrefixLength(r)' = l + k
        BY <1>1, <1>17, ActiveRow, SizesAssumption
      <4>2. p \in 0..(l + k - 1)
        BY <4>1
      <4>3. mem'[r][p] = Written(r, p, state.argmax)
        <5>1. p \in 0..(PrefixLength(r) + Canvas - 1)
          BY <4>1, <4>2
        <5> QED
          BY <1>9, <1>17, <1>20, <5>1 DEF PagedAfter
      <4>4. After(r)[p] = IF p < l THEN Committed(r, p) ELSE Own(r, p, state.argmax[r][p - l + 1])
        BY <4>1, <4>2 DEF After
      <4>5. CASE p < l
        <5>1. p \in 0..(l - 1) /\ p \notin l..(l + k - 1)
          BY <4>2, <4>5
        <5>2. mem[r][p] = Committed(r, p)
          BY <1>1, <1>4, <1>17, <1>20, <4>1, <5>1 DEF KVCommitted
        <5> QED
          BY <1>17, <4>1, <4>3, <4>4, <4>5, <5>1, <5>2 DEF Written
      <4>6. CASE ~(p < l)
        <5>1. p \in l..(l + k - 1)
          BY <4>2, <4>6
        <5> QED
          BY <1>17, <4>1, <4>3, <4>4, <4>6, <5>1 DEF Written
      <4> QED
        BY <4>5, <4>6
    <3> QED
      BY <3>1 DEF KVCommitted
  <2>4. DenseKept'
    BY <1>4, <1>20 DEF DenseKept
  <2> QED
    BY <1>6, <1>9, <1>14, <1>15, <1>21, <2>2, <2>3, <2>4 DEF IInv
<1> QED
  BY <1>19, <1>20

-----------------------------------------------------------------------------
(* What generate returns.                                                  *)

\* The padded prompts and the width of the result.
LEMMA WidthsAre ==
  ASSUME Shapes, rows # <<>>
  PROVE  /\ PaddedPrompt \in Nat /\ ResultWidth \in Nat
         /\ \A r \in RowIds : rows[r].prompt <= PaddedPrompt /\ PaddedPrompt + rows[r].gen <= ResultWidth
<1>1. PICK n \in Nat \ {0} : n = Len(rows) /\ RowIds = 1..n
  <2>1. rows \in Seq(RowType)
    BY DEF Shapes
  <2>2. Len(rows) \in Nat \ {0} /\ DOMAIN rows = 1..Len(rows)
    BY <2>1
  <2> QED
    BY <2>2 DEF RowIds
<1>2. \A r \in 1..n : rows[r].prompt \in Nat /\ rows[r].gen \in Nat
  <2>1. \A r \in 1..n : rows[r] \in RowType
    BY <1>1, ActiveRows
  <2> QED
    BY <2>1 DEF RowType
<1>3. PICK f, g : f = [r \in 1..n |-> rows[r].prompt] /\ g = [r \in 1..n |-> rows[r].gen]
  OBVIOUS
<1>4. /\ f \in [1..n -> Nat] /\ g \in [1..n -> Nat]
      /\ \A r \in 1..n : f[r] = rows[r].prompt /\ g[r] = rows[r].gen
  BY <1>2, <1>3
<1>5. PICK S, T : S = {f[i] : i \in 1..n} /\ T = {g[i] : i \in 1..n}
  OBVIOUS
<1>6. S = {rows[r].prompt : r \in RowIds} /\ T = {rows[r].gen : r \in RowIds}
  BY <1>1, <1>3, <1>5
<1>7. Max(S) \in Nat /\ \A i \in 1..n : f[i] <= Max(S)
  BY <1>4, <1>5, MaxIs
<1>8. Max(T) \in Nat /\ \A i \in 1..n : g[i] <= Max(T)
  BY <1>4, <1>5, MaxIs
<1>9. PaddedPrompt = Max(S)
  BY <1>6 DEF PaddedPrompt
<1>10. ResultWidth = Max(S) + Max(T)
  BY <1>6, <1>9 DEF ResultWidth
<1>11. PICK x \in Nat, y \in Nat : x = Max(S) /\ y = Max(T)
  BY <1>7, <1>8
<1>12. PaddedPrompt = x /\ ResultWidth = x + y /\ \A r \in 1..n : rows[r].prompt <= x /\ rows[r].gen <= y
  BY <1>4, <1>7, <1>8, <1>9, <1>10, <1>11
<1>13. ASSUME NEW r \in RowIds PROVE rows[r].prompt <= PaddedPrompt /\ PaddedPrompt + rows[r].gen <= ResultWidth
  BY <1>1, <1>2, <1>12
<1> QED
  BY <1>12, <1>13

\* The answer of a row, column by column, and the padding between.
LEMMA ResultIs ==
  ASSUME Shapes, RowsFit, rows # <<>>, NEW r \in RowIds
  PROVE  /\ \A i \in 1..Len(rows[r].emitted) : Result(r)[PaddedPrompt + i - 1] = rows[r].emitted[i]
         /\ \A c \in rows[r].prompt..(PaddedPrompt - 1) : Result(r)[c] = Pad
<1>1. PICK a : a = rows[r].emitted
  OBVIOUS
<1>2. PICK n \in Nat, g \in Nat, l \in Nat, x \in Nat, width \in Nat :
        /\ n = rows[r].prompt /\ g = rows[r].gen /\ l = Len(a) /\ x = PaddedPrompt /\ width = ResultWidth
        /\ l <= g /\ n <= x /\ x + g <= width
  <2>1. rows[r] \in RowType
    BY ActiveRows
  <2>2. rows[r].prompt \in Nat /\ rows[r].gen \in Nat /\ rows[r].remaining \in Nat /\ a \in Seq(Tokens)
    BY <1>1, <2>1 DEF RowType
  <2>3. Len(a) \in Nat
    BY <2>2
  <2>4. Len(a) + rows[r].remaining = rows[r].gen
    BY <1>1 DEF RowsFit, RowFits
  <2>5. Len(a) <= rows[r].gen
    BY <2>2, <2>3, <2>4
  <2>6. /\ PaddedPrompt \in Nat /\ ResultWidth \in Nat
        /\ rows[r].prompt <= PaddedPrompt /\ PaddedPrompt + rows[r].gen <= ResultWidth
    BY WidthsAre
  <2> QED
    BY <2>2, <2>3, <2>5, <2>6, Zenon
<1>3. \A i : Place(r, i) = x + i
  BY <1>2 DEF Place
<1>4. ASSUME NEW c \in 0..(width - 1)
      PROVE  Result(r)[c] = IF c < n THEN "prompt"
                            ELSE IF \E i \in 0..(l - 1) : Place(r, i) = c
                            THEN a[(CHOOSE i \in 0..(l - 1) : Place(r, i) = c) + 1] ELSE Pad
  BY <1>1, <1>2, Zenon DEF Result
<1>5. ASSUME NEW i \in 1..l PROVE Result(r)[x + i - 1] = a[i]
  <2>1. PICK c, j : c = x + i - 1 /\ j = i - 1
    OBVIOUS
  <2>2. c \in 0..(width - 1) /\ ~(c < n) /\ j \in 0..(l - 1) /\ x + j = c /\ j + 1 = i
    BY <1>2, <2>1
  <2>3. Place(r, j) = c
    BY <1>3, <2>2
  <2>4. \A k \in 0..(l - 1) : Place(r, k) = c => k = j
    <3>1. \A k \in 0..(l - 1) : x + k = c => k = j
      BY <2>2
    <3> QED
      BY <1>3, <3>1
  <2>5. (CHOOSE k \in 0..(l - 1) : Place(r, k) = c) = j
    BY <2>2, <2>3, <2>4, Zenon
  <2>6. Result(r)[c] = a[j + 1]
    BY <1>4, <2>2, <2>3, <2>5, Zenon
  <2> QED
    BY <2>1, <2>2, <2>6
<1>6. ASSUME NEW c \in n..(x - 1) PROVE Result(r)[c] = Pad
  <2>1. c \in 0..(width - 1) /\ ~(c < n) /\ \A k \in 0..(l - 1) : x + k # c
    BY <1>2
  <2>2. ~\E i \in 0..(l - 1) : Place(r, i) = c
    BY <1>3, <2>1
  <2> QED
    BY <1>4, <2>1, <2>2, Zenon
<1>7. \A i \in 1..Len(rows[r].emitted) : Result(r)[PaddedPrompt + i - 1] = rows[r].emitted[i]
  BY <1>1, <1>2, <1>5
<1>8. \A c \in rows[r].prompt..(PaddedPrompt - 1) : Result(r)[c] = Pad
  BY <1>2, <1>6
<1> QED
  BY <1>7, <1>8

\* The invariant gives what generate returns.
LEMMA ResultHolds ==
  ASSUME IInv
  PROVE  ResultExact
<1>1. Shapes /\ RowsFit /\ Phases
  BY DEF IInv
<1>2. ASSUME phase = "return", NEW r \in RowIds, NEW answer, answer = rows[r].emitted,
             NEW got, got = [i \in 1..Len(answer) |-> Result(r)[PaddedPrompt + i - 1]]
      PROVE  /\ Tuple(got) = answer
             /\ Len(answer) = rows[r].gen \/ (Stops /\ EosAt(answer) # {})
             /\ Stops => \A i \in EosAt(answer) : (i - 1) \div Canvas = (Len(answer) - 1) \div Canvas
             /\ \A c \in rows[r].prompt..(PaddedPrompt - 1) : Result(r)[c] = Pad
             /\ rows[r].steps <= MaxSteps * (PaddedGeneration(rows[r].gen) \div Canvas)
  <2>1. rows # <<>> /\ Active = {} /\ rows[r].prefilled
    BY <1>1, <1>2 DEF Phases, Running
  <2>2. ~rows[r].active
    BY <1>2, <2>1 DEF Active
  <2>3. Ended(rows[r], Stops) /\ Len(answer) + rows[r].remaining = rows[r].gen
    BY <1>1, <1>2, <2>1, <2>2 DEF RowsFit, RowFits
  <2>4. rows[r].gen \in Nat /\ answer \in Seq(Tokens)
    <3>1. rows[r] \in RowType
      BY <1>1, ActiveRows
    <3> QED
      BY <1>2, <3>1 DEF RowType
  <2>5. Len(answer) \in Nat /\ DOMAIN answer = 1..Len(answer) /\ answer = [i \in 1..Len(answer) |-> answer[i]]
    BY <2>4
  <2>6. /\ \A i \in 1..Len(answer) : Result(r)[PaddedPrompt + i - 1] = answer[i]
        /\ \A c \in rows[r].prompt..(PaddedPrompt - 1) : Result(r)[c] = Pad
    BY <1>1, <1>2, <2>1, ResultIs
  <2>7. got = [i \in 1..Len(answer) |-> got[i]] /\ got = answer
    BY <1>2, <2>5, <2>6
  <2>8. Tuple(got) = answer
    BY <2>5, <2>7, TupleIs
  <2>9. Len(answer) = rows[r].gen \/ (Stops /\ EosAt(answer) # {})
    BY <1>2, <2>3, <2>5 DEF Ended
  <2> QED
    BY <1>2, <2>3, <2>6, <2>8, <2>9 DEF Ended
<1> QED
  BY <1>2, Zenon DEF ResultExact, EosAt, Stops

-----------------------------------------------------------------------------
(* The theorems.                                                           *)

\* A step that changes nothing.
LEMMA Unchanged ==
  ASSUME IInv, SeesWindow, UNCHANGED vars
  PROVE  IInv' /\ SeesWindow'
<1>1. Shapes' /\ RowsFit' /\ Stopping'
  BY SameRowsFit DEF IInv, Shapes, RowIds, Stopping, Stops, vars
<1>2. RowIds' = RowIds /\ Active' = Active /\ (Running' <=> Running)
  BY DEF RowIds, Active, Running, vars
<1>3. Phases' /\ Decoding'
  BY <1>2 DEF IInv, Phases, Decoding, vars
<1>4. \A r : PrefixLength(r)' = PrefixLength(r) /\ \A p : Committed(r, p)' = Committed(r, p)
  BY DEF PrefixLength, Committed, Own, vars
<1>5. KVCommitted'
  BY <1>2, <1>4 DEF IInv, KVCommitted, vars
<1>6. DenseKept'
  <2>1. \A r : CommittedKeys(r)' = CommittedKeys(r)
    BY <1>4 DEF CommittedKeys
  <2>2. dense' = dense /\ mode' = mode
    BY DEF vars
  <2>3. DenseKept
    BY DEF IInv
  <2> QED
    BY <1>2, <1>4, <2>1, <2>2, <2>3, Zenon DEF DenseKept, Holds
<1>7. SeesWindow'
  BY DEF SeesWindow, vars
<1> QED
  BY <1>1, <1>3, <1>5, <1>6, <1>7 DEF IInv

\* The inductive invariant of the three runners, with what the last launch
\* looked at.
THEOREM RunnersInvariant == Spec => [](IInv /\ SeesWindow)
<1>1. Init => IInv /\ SeesWindow
  BY InitHolds
<1>2. IInv /\ SeesWindow /\ [Next]_vars => (IInv /\ SeesWindow)'
  <2> SUFFICES ASSUME IInv, SeesWindow, [Next]_vars PROVE IInv' /\ SeesWindow'
    OBVIOUS
  <2>1. ASSUME NEW batch \in Calls, NEW ignore \in BOOLEAN, Generate(batch, ignore) PROVE IInv' /\ SeesWindow'
    BY <2>1, GenerateHolds
  <2>2. CASE Prefill
    BY <2>2, PrefillHolds
  <2>3. CASE Commit
    BY <2>3, CommitHolds
  <2>4. CASE Return
    BY <2>4, ReturnHolds
  <2>5. ASSUME NEW argmax \in [Active -> Predictions], NEW confident, Denoise(argmax, confident)
        PROVE  IInv' /\ SeesWindow'
    BY <2>5, DenoiseHolds
  <2>6. CASE UNCHANGED vars
    BY <2>6, Unchanged
  <2> QED
    BY <2>1, <2>2, <2>3, <2>4, <2>5, <2>6 DEF Next
<1> QED
  BY <1>1, <1>2, PTL DEF Spec

\* While a row is active, the paged cache holds the keys its prefill and its
\* commits left: whatever the batch, the bucket and the cache row, neither a
\* denoising pass nor the padding of a graph nor an earlier call writes there.
THEOREM CommittedAlwaysKept == Spec => []KVCommitted
<1>1. IInv => KVCommitted
  BY DEF IInv
<1> QED
  BY <1>1, RunnersInvariant, PTL

\* Every launch of every runner, for every window, canvas and prompt length:
\* a query sees the keys of its window and no others, and they are its row's.
THEOREM WindowAlwaysSeen == Spec => []SeesWindow
BY RunnersInvariant, PTL

\* What generate returns, for every batch and every prediction: each answer
\* behind the padded prompts and within the steps its length allows; whole when
\* the runner has no early_stop or a request of the batch ignores end tokens,
\* whatever earlier batches asked for, and otherwise whole or up to the first
\* canvas with an end token.
THEOREM ResultAlwaysExact == Spec => []ResultExact
<1>1. IInv => ResultExact
  BY ResultHolds
<1> QED
  BY <1>1, RunnersInvariant, PTL
=============================================================================
