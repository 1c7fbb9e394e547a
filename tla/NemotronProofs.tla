--------------------------- MODULE NemotronProofs ---------------------------
(***************************************************************************)
(* Proofs about Nemotron: for any number of rows, any prompts, lengths,    *)
(* budgets and block length, and whatever the model predicts, the keys and *)
(* values of the prefix are those of the output, self-speculation is       *)
(* lossless, a launch stays within the pages acquired for it, a request    *)
(* has the length it ends with, and a decode row has its seed.             *)
(*                                                                         *)
(* Rows share nothing, so the invariant is one about a row, written over   *)
(* the values of that row: c is the case, nx the causal model.             *)
(***************************************************************************)
EXTENDS Nemotron, Counting

-----------------------------------------------------------------------------
(* Outputs.                                                                *)

Gen == Tokens \cup {Mask}

\* What the causal model says after t, and the token a sequence ends with.
Follow(nx, t) == IF t = Mask THEN Word ELSE nx[t]
Tip(s) == IF Len(s) = 0 THEN Word ELSE s[Len(s)]

\* The budget is spent and the marker is missing: it may come next.
DueNext(c, s) ==
  c.think >= 0 /\ Len(s) >= c.think /\ \A j \in 1..Len(s) : s[j] # End
MarkerAt(c, s, i) ==
  c.think >= 0 /\ s[i] = End /\ i > c.think /\ \A j \in 1..(i - 1) : s[j] # End

\* What Causal says of an output.
Chain(c, nx, s) ==
  \A i \in 1..Len(s) : c.mode = "spec" \/ i % L = 1 =>
    \/ s[i] = Follow(nx, IF i = 1 THEN Word ELSE s[i - 1])
    \/ MarkerAt(c, s, i)

\* The runs for which the marker comes too late.
ZeroBudget(c) == c.mode = "spec" /\ c.path = "batch" /\ c.think = 0
Due(c) == c.think + 1 + (IF c.mode = "spec" THEN L ELSE 0)
InTime(c, s) ==
  c.think >= 0 /\ ~ZeroBudget(c) /\ Len(s) >= Due(c) => \E i \in 1..Due(c) : s[i] = End

\* Nothing undecided but after an end of sequence that stops the row.
Clean(stop, s) == \A i \in 1..Len(s) : s[i] = Mask => stop /\ \E j \in 1..(i - 1) : s[j] = Eos

\* k holds the P tokens of the prompt and n tokens of s, as far as it goes.
Holds(k, P, n, s) ==
  /\ \A i \in 1..P : k[i] = Word
  /\ \A i \in 1..n : i <= Len(s) => k[P + i] = s[i]

-----------------------------------------------------------------------------
(* A row, with the output s it has so far.                                 *)

RowType == [st : {"idle", "denoise", "commit", "verify", "done"}, prefix : Nat,
            block : [Pos -> Gen], seed : Gen, steps : Nat, emitted : Seq(Gen),
            forced : {0, 1}, term : BOOLEAN]

\* A block will have the marker in time, if it is not there already.
BlockInTime(c, s, b) ==
  c.think >= 0 /\ Len(s) + L > c.think =>
    \/ \E i \in 1..Len(s) : i <= c.think + 1 /\ s[i] = End
    \/ \E j \in Pos : Len(s) + j <= c.think + 1 /\ b[j] = End

BlockActive(c, nx, w, n, s) ==
  /\ Len(s) = n /\ \E k \in 0..n : n = k * L
  /\ w.block[1] # Mask
  /\ w.block[1] = Follow(nx, Tip(s)) \/ (w.block[1] = End /\ DueNext(c, s))
  /\ BlockInTime(c, s, w.block)

SpecActive(c, w, n, s) ==
  /\ Len(s) = n + 1 /\ w.block[1] = s[n + 1]
  /\ w.forced = 1 => L > 1 /\ w.block[2] = End /\ DueNext(c, s)
  /\ w.forced = 0 /\ c.think >= 0 /\ ~ZeroBudget(c) =>
       Len(s) <= c.think \/ \E i \in 1..Len(s) : s[i] = End

ActiveOK(c, nx, r, w, s) ==
  /\ w.st \in {"denoise", "commit", "verify"}
  /\ w.emitted \in Seq(Tokens)
  /\ w.prefix >= c.prompts[r] /\ w.prefix <= c.prompts[r] + c.gens[r]
  /\ w.st = "verify" => c.mode = "spec" /\ Masked(w.block) = {}
  /\ w.st = "commit" => c.mode = "block" /\ (Masked(w.block) = {} \/ w.term)
  /\ w.term => c.mode = "block" /\ c.stop[r] /\ EosTerminal(w.block)
  /\ c.mode = "block" => BlockActive(c, nx, w, w.prefix - c.prompts[r], s)
  /\ c.mode = "spec" => SpecActive(c, w, w.prefix - c.prompts[r], s)

\* Where a row ends that nothing has stopped.
GoesOn(c, nx, w, n, s) ==
  /\ w.emitted \in Seq(Tokens)
  /\ c.mode = "block" => Len(s) = n /\ w.seed = Follow(nx, Tip(s))
  /\ c.mode = "spec" => Len(s) = n + 1 /\ w.seed = Tip(s)

DoneOK(c, nx, r, w, s) ==
  /\ w.st = "done"
  /\ w.prefix >= c.prompts[r]
  /\ Clean(c.stop[r], w.emitted)
  /\ w.term => c.stop[r] /\ \E i \in 1..Len(w.emitted) : w.emitted[i] = Eos
  /\ c.path # "online" => w.term \/ Len(w.emitted) >= c.gens[r]
  /\ ~w.term /\ (c.path = "online" \/ Len(s) > 0) =>
       GoesOn(c, nx, w, w.prefix - c.prompts[r], s)

RunOK(c, nx, r, w, k, s) ==
  /\ Chain(c, nx, s) /\ InTime(c, s)
  /\ Holds(k, c.prompts[r], w.prefix - c.prompts[r], s)
  /\ ActiveOK(c, nx, r, w, s) \/ DoneOK(c, nx, r, w, s)

-----------------------------------------------------------------------------
(* A request between plans: o is published, the prefix reaches p.          *)

Published(c, r, o) ==
  /\ o \in Seq(Tokens)
  /\ c.stop[r] => \A i \in 1..Len(o) : o[i] # Eos
  /\ InTime(c, o)

RequestOK(c, nx, r, o, seed, p) ==
  /\ Published(c, r, o) /\ Chain(c, nx, o) /\ Len(o) < c.gens[r]
  /\ seed \in Tokens
  /\ c.mode = "block" => p = c.prompts[r] + Len(o) /\ seed = Follow(nx, Tip(o))
  /\ c.mode = "spec" /\ Len(o) = 0 => p = c.prompts[r] /\ seed = Follow(nx, Word)
  /\ c.mode = "spec" /\ Len(o) > 0 => p = c.prompts[r] + Len(o) - 1 /\ seed = Tip(o)

\* What the pages acquired reach, before a plan and while it runs.
Ahead(acq, p) == acq >= p + 2 * L
Reaches(c, w, p, acq, res) ==
  /\ Ahead(acq, p) /\ res = L
  /\ w.prefix >= p /\ w.prefix <= p + L
  /\ w.st # "done" => w.prefix = p
  /\ w.st = "done" /\ c.mode = "block" => w.prefix = p + L

EndedOK(c, r, o, f) ==
  /\ Published(c, r, o)
  /\ f = "length" => Len(o) = c.gens[r]
  /\ f = "stop" => Len(o) < c.gens[r]

-----------------------------------------------------------------------------
(* The invariant.                                                          *)

Start(r) == IF Speculative THEN prefixes[r] ELSE BlockPrefix(r)

Types ==
  /\ case \in Cases /\ next \in [Tokens -> Tokens]
  /\ row \in [Rows -> RowType]
  /\ kv \in [Rows -> Seq(Gen)] /\ \A r \in Rows : DOMAIN kv[r] = 1..Width(r)
  /\ out \in [Rows -> Seq(Tokens)]
  /\ fin \in [Rows -> {"none", "stop", "length", "abort"}]
  /\ filled \in [Rows -> Nat] /\ seeds \in [Rows -> Tokens \cup {NoToken}]
  /\ prefixes \in [Rows -> Nat] /\ blocks \in [Rows -> Nat]
  /\ acquired \in [Rows -> Nat] /\ reserve \in [Rows -> Nat]
  /\ called \in SUBSET Rows

Phases ==
  /\ Online => /\ pc \in {"idle", "loop", "raised", "done"}
               /\ pc \in {"idle", "done"} => called = {}
               /\ \A r \in called : fin[r] = "none"
  /\ ~Online => /\ pc \in {"prefill", "loop", "raised", "done"}
                /\ pc = "prefill" => /\ \E r \in Rows : fin[r] = "none"
                                     /\ \A r \in called : fin[r] # "none"
                /\ pc = "loop" => \A r \in called : fin[r] = "none"
                /\ case.path = "batch" /\ pc = "prefill" => \A r \in Rows : fin[r] = "none"
                /\ case.path = "batch" /\ pc = "loop" => called = Rows

RunningRow(r) ==
  /\ filled[r] = Prompt(r)
  /\ RunOK(case, next, r, row[r], kv[r], Known(r))
  /\ Online => /\ RequestOK(case, next, r, out[r], seeds[r], Start(r))
               /\ Reaches(case, row[r], Start(r), acquired[r], reserve[r])
  /\ ~Online => Len(out[r]) = 0

WaitingRow(r) ==
  /\ RequestOK(case, next, r, out[r], seeds[r], Start(r))
  /\ Holds(kv[r], Prompt(r), Start(r) - Prompt(r), out[r])
  /\ Ahead(acquired[r] + reserve[r], Start(r))

PrefillingRow(r) ==
  /\ filled[r] < Prompt(r)
  /\ Len(out[r]) = 0 /\ blocks[r] = 0
  /\ \A i \in 1..filled[r] : kv[r][i] = Word
  /\ acquired[r] = (IF filled[r] = 0 THEN 0 ELSE filled[r] + L)

FreshRow(r) == filled[r] = 0 /\ Len(out[r]) = 0 /\ Len(row[r].emitted) = 0

RowInv(r) ==
  /\ fin[r] # "none" => /\ EndedOK(case, r, out[r], fin[r])
                        /\ Chain(case, next, Known(r))
  /\ fin[r] = "none" /\ r \in called => RunningRow(r)
  /\ fin[r] = "none" /\ r \notin called /\ Online =>
       PrefillingRow(r) \/ (filled[r] = Prompt(r) /\ WaitingRow(r))
  /\ fin[r] = "none" /\ r \notin called /\ ~Online => FreshRow(r)

IInv == Types /\ Phases /\ \A r \in Rows : RowInv(r)

-----------------------------------------------------------------------------
(* Numbers and sequences.                                                  *)

LEMMA BlockLength == L \in Nat /\ L > 0 /\ 1 \in Pos /\ L \in Pos
BY LengthAssumption DEF Pos

LEMMA MaskApart == Mask \notin Tokens /\ Word \in Tokens /\ Eos \in Tokens /\ End \in Tokens
BY TokenAssumption DEF Tokens

LEMMA MinIs ==
  ASSUME NEW T \in SUBSET Nat, T # {}
  PROVE  Min(T) \in T /\ Min(T) \in Nat /\ \A y \in T : Min(T) <= y
<1>1. \E x \in T : \A y \in T : x <= y
  BY LeastNatural
<1>2. Min(T) \in T /\ \A y \in T : Min(T) <= y
  BY <1>1 DEF Min
<1> QED
  BY <1>2

LEMMA MinOfTwo ==
  ASSUME NEW a \in Nat, NEW b \in Nat
  PROVE  Min({a, b}) = IF a <= b THEN a ELSE b
<1>1. Min({a, b}) \in {a, b} /\ Min({a, b}) \in Nat /\ \A y \in {a, b} : Min({a, b}) <= y
  BY MinIs
<1> QED
  BY <1>1

LEMMA MaxOfTwo ==
  ASSUME NEW a \in Int, NEW b \in Int
  PROVE  Max({a, b}) = IF a >= b THEN a ELSE b
<1> DEFINE m == IF a >= b THEN a ELSE b
<1>1. m \in {a, b} /\ \A y \in {a, b} : m >= y
  OBVIOUS
<1>2. \A x \in {a, b} : (\A y \in {a, b} : x >= y) => x = m
  OBVIOUS
<1> QED
  BY <1>1, <1>2 DEF Max

\* The greatest of a set of bounded numbers is as far from the bound as possible.
LEMMA MaxIs ==
  ASSUME NEW N \in Nat, NEW T, T \subseteq 0..N, T # {}
  PROVE  Max(T) \in T /\ Max(T) \in Nat /\ \A y \in T : Max(T) >= y
<1> DEFINE D == {N - y : y \in T}
<1>1. \A y \in T : y \in Nat /\ y <= N /\ N - y \in Nat /\ N - y \in D
  OBVIOUS
<1>2. D \in SUBSET Nat /\ D # {}
  BY <1>1
<1>3. PICK d \in D : \A e \in D : d <= e
  <2> HIDE DEF D
  <2> QED
    BY <1>2, LeastNatural
<1>4. PICK x \in T : d = N - x
  OBVIOUS
<1>5. \A y \in T : x >= y
  <2> TAKE y \in T
  <2>1. N - x <= N - y
    BY <1>1, <1>3, <1>4
  <2> QED
    BY <1>1, <2>1
<1>6. Max(T) \in T /\ \A y \in T : Max(T) >= y
  BY <1>5 DEF Max
<1> QED
  BY <1>1, <1>6

LEMMA SeqIs ==
  ASSUME NEW S, NEW s \in Seq(S)
  PROVE  /\ Len(s) \in Nat /\ DOMAIN s = 1..Len(s)
         /\ \A i \in 1..Len(s) : s[i] \in S
OBVIOUS

LEMMA JoinIs ==
  ASSUME NEW S, NEW a \in Seq(S), NEW b \in Seq(S)
  PROVE  /\ a \o b \in Seq(S) /\ Len(a \o b) = Len(a) + Len(b)
         /\ \A k \in 1..Len(a) : (a \o b)[k] = a[k]
         /\ \A k \in 1..Len(b) : (a \o b)[Len(a) + k] = b[k]
         /\ Len(a) \in Nat /\ Len(b) \in Nat
OBVIOUS

\* A place of a concatenation is one of the first or of the second part.
LEMMA JoinAt ==
  ASSUME NEW a \in Nat, NEW b \in Nat, NEW i \in 1..(a + b)
  PROVE  i \in 1..a \/ \E k \in 1..b : i = a + k
<1>1. i \in 1..a \/ i - a \in 1..b
  OBVIOUS
<1>2. i = a + (i - a)
  OBVIOUS
<1> QED
  BY <1>1, <1>2

LEMMA PartIs ==
  ASSUME NEW S, NEW s \in Seq(S), NEW m \in Nat, m <= Len(s)
  PROVE  /\ SubSeq(s, 1, m) \in Seq(S) /\ Len(SubSeq(s, 1, m)) = m
         /\ \A i \in 1..m : SubSeq(s, 1, m)[i] = s[i]
OBVIOUS

\* A block starts at the places that are 1 modulo its length, and only there.
LEMMA ModStart ==
  ASSUME NEW k \in Nat, NEW j \in Pos, (k * L + j) % L = 1
  PROVE  j = 1
<1>1. L \in Nat /\ L > 0 /\ j \in Nat /\ j >= 1 /\ j <= L
  BY BlockLength DEF Pos
<1>2. PICK x \in Nat : x = k * L
  BY <1>1
<1>3. PICK y \in Nat : y = x + j
  BY <1>1
<1>4. PICK q \in Nat : q = y \div L
  BY <1>1
<1>5. y = (L * q) + (y % L) /\ y % L = 1
  BY <1>1, <1>2, <1>3, <1>4
<1>6. L * q - k * L = j - 1
  BY <1>1, <1>2, <1>3, <1>5
<1>7. L * q - k * L = (q - k) * L
  BY <1>1
<1>8. PICK d \in Int : d = q - k
  OBVIOUS
<1>9. d * L >= 0 /\ d * L < L
  BY <1>1, <1>6, <1>7, <1>8
<1>10. d >= 1 => d * L >= L
  BY <1>1
<1>11. d <= -1 => d * L <= -L
  BY <1>1
<1>12. d = 0
  BY <1>1, <1>9, <1>10, <1>11
<1> QED
  BY <1>1, <1>6, <1>7, <1>8, <1>12

\* Blocks are handed out while tokens are missing.
LEMMA BlocksCover ==
  ASSUME NEW g \in Nat, NEW k \in Nat
  PROVE  /\ (k * L) \div L = k
         /\ k >= (g + L - 1) \div L => k * L >= g
         /\ ~(k >= (g + L - 1) \div L) => k * L <= g
<1>1. L \in Nat /\ L > 0
  BY BlockLength
<1>2. PICK x \in Nat : x = k * L
  BY <1>1
<1>3. PICK y \in Nat : y = g + L - 1
  BY <1>1
<1>4. PICK q \in Nat : q = y \div L
  BY <1>1
<1>5. PICK z \in Nat : z = L * q
  BY <1>1
<1>6. z <= y /\ y < z + L
  <2>1. y = (L * q) + (y % L) /\ y % L \in 0..(L - 1)
    BY <1>1, <1>4
  <2> QED
    BY <2>1, <1>1, <1>5
<1>7. PICK p \in Nat : p = x \div L
  BY <1>1
<1>8. L * p <= x /\ x < L * p + L
  <2>1. x = (L * p) + (x % L) /\ x % L \in 0..(L - 1)
    BY <1>1, <1>7
  <2>2. L * p \in Nat
    BY <1>1
  <2> QED
    BY <2>1, <2>2, <1>1
<1>9. p = k
  <2>1. PICK d \in Int : d = k - p
    OBVIOUS
  <2>2. d * L = k * L - L * p
    BY <1>1, <2>1
  <2>3. d * L >= 0 /\ d * L < L
    <3>1. L * p \in Nat
      BY <1>1
    <3> QED
      BY <1>1, <1>2, <1>8, <2>2, <3>1
  <2>4. d >= 1 => d * L >= L
    BY <1>1
  <2>5. d <= -1 => d * L <= -L
    BY <1>1
  <2> QED
    BY <1>1, <2>1, <2>3, <2>4, <2>5
<1>10. k >= q => x >= z
  <2>1. k >= q => k * L >= q * L
    BY <1>1
  <2> QED
    BY <1>1, <1>2, <1>5, <2>1
<1>11. k < q => x + L <= z
  <2>1. k < q => (k + 1) * L <= q * L
    BY <1>1
  <2>2. (k + 1) * L = x + L
    BY <1>1, <1>2
  <2> QED
    BY <1>1, <1>5, <2>1, <2>2
<1> QED
  BY <1>1, <1>2, <1>3, <1>4, <1>6, <1>7, <1>9, <1>10, <1>11

-----------------------------------------------------------------------------
(* What holds of an output and of what is appended to it.                  *)

LEMMA WholeBlock ==
  ASSUME NEW y \in Nat, y >= L
  PROVE  y \div L >= 1
<1>1. L \in Nat /\ L > 0
  BY BlockLength
<1>2. PICK d \in Nat : d = y \div L
  BY <1>1
<1>3. PICK m \in Nat : m = y % L
  BY <1>1
<1>4. y = (L * d) + m
  BY <1>1, <1>2, <1>3
<1>5. m < L
  BY <1>1, <1>3
<1>6. d = 0 => L * d = 0
  BY <1>1
<1>7. d # 0
  BY <1>1, <1>4, <1>5, <1>6
<1> QED
  BY <1>2, <1>7

LEMMA CaseIs ==
  ASSUME NEW c \in Cases
  PROVE  /\ c.mode \in {"block", "spec"} /\ c.path \in {"dense", "batch", "online"}
         /\ c.think \in Int /\ c.think >= -1
         /\ c.mode = "spec" /\ c.think >= 0 => L > 1
         /\ Len(c.prompts) \in Nat /\ Len(c.prompts) > 0
         /\ \A r \in 1..Len(c.prompts) :
              /\ c.prompts[r] \in Nat /\ c.prompts[r] > 0
              /\ c.gens[r] \in Nat /\ c.stop[r] \in BOOLEAN
              /\ c.path = "online" => c.gens[r] > 0
<1>1. /\ c.prompts \in Seq(Nat \ {0}) /\ c.gens \in Seq(Nat) /\ c.stop \in Seq(BOOLEAN)
      /\ Len(c.prompts) > 0 /\ Len(c.gens) = Len(c.prompts) /\ Len(c.stop) = Len(c.prompts)
      /\ c.path = "online" => \A r \in DOMAIN c.gens : c.gens[r] > 0
  BY CaseAssumption
<1>2. \A r \in 1..Len(c.prompts) :
        /\ c.prompts[r] \in Nat /\ c.prompts[r] > 0
        /\ c.gens[r] \in Nat /\ c.stop[r] \in BOOLEAN
        /\ c.path = "online" => c.gens[r] > 0
  <2> TAKE r \in 1..Len(c.prompts)
  <2>1. c.prompts[r] \in Nat \ {0} /\ c.gens[r] \in Nat /\ r \in DOMAIN c.gens
    BY <1>1
  <2>2. c.stop[r] \in BOOLEAN
    BY <1>1
  <2> QED
    BY <1>1, <2>1, <2>2
<1> QED
  BY CaseAssumption, <1>1, <1>2

LEMMA DueIs ==
  ASSUME NEW c \in Cases, c.think >= 0
  PROVE  Due(c) \in Nat /\ Due(c) >= c.think + 1
BY CaseIs, BlockLength DEF Due

\* A block is a sequence.
FullBlock(b) == Len(b) = L

LEMMA BlockSeq ==
  ASSUME NEW b \in [Pos -> Gen]
  PROVE  b \in Seq(Gen) /\ FullBlock(b) /\ \A j \in Pos : b[j] \in Gen
<1>1. L \in Nat /\ DOMAIN b = 1..L /\ Pos = 1..L
  BY BlockLength DEF Pos
<1>2. b \in [1..L -> Gen]
  BY <1>1
<1> QED
  BY <1>1, <1>2 DEF FullBlock

LEMMA TokensSeq ==
  ASSUME NEW s \in Seq(Tokens)
  PROVE  s \in Seq(Gen) /\ \A i \in 1..Len(s) : s[i] # Mask
<1>1. Tokens \subseteq Gen
  BY DEF Gen
<1>2. s \in Seq(Gen)
  BY <1>1
<1> QED
  BY <1>2, MaskApart

LEMMA SeqTokens ==
  ASSUME NEW s \in Seq(Gen), \A i \in 1..Len(s) : s[i] # Mask
  PROVE  s \in Seq(Tokens)
<1>1. \A i \in 1..Len(s) : s[i] \in Tokens
  BY DEF Gen
<1>2. s \in [1..Len(s) -> Tokens] /\ Len(s) \in Nat
  BY <1>1
<1> QED
  BY <1>2

PrefixOf(t, s) == Len(t) <= Len(s) /\ \A i \in 1..Len(t) : t[i] = s[i]

LEMMA ChainPart ==
  ASSUME NEW c, NEW nx, NEW s \in Seq(Gen), NEW t \in Seq(Gen), PrefixOf(t, s), Chain(c, nx, s)
  PROVE  Chain(c, nx, t)
<1> SUFFICES ASSUME NEW i \in 1..Len(t), c.mode = "spec" \/ i % L = 1
             PROVE  \/ t[i] = Follow(nx, IF i = 1 THEN Word ELSE t[i - 1])
                    \/ MarkerAt(c, t, i)
  BY DEF Chain
<1>1. Len(s) \in Nat /\ Len(t) \in Nat /\ i \in 1..Len(s) /\ t[i] = s[i] /\ i \in Nat
  BY DEF PrefixOf
<1>2. \A j \in 1..(i - 1) : t[j] = s[j] /\ j \in 1..Len(t)
  BY <1>1 DEF PrefixOf
<1>3. i # 1 => t[i - 1] = s[i - 1]
  BY <1>1, <1>2
<1>4. s[i] = Follow(nx, IF i = 1 THEN Word ELSE s[i - 1]) \/ MarkerAt(c, s, i)
  BY <1>1 DEF Chain
<1>5. MarkerAt(c, s, i) => MarkerAt(c, t, i)
  BY <1>1, <1>2 DEF MarkerAt
<1>6. CASE i = 1
  BY <1>1, <1>4, <1>5, <1>6
<1>7. CASE i # 1
  BY <1>1, <1>3, <1>4, <1>5, <1>7
<1> QED
  BY <1>6, <1>7

LEMMA InTimePart ==
  ASSUME NEW c \in Cases, NEW s \in Seq(Gen), NEW t \in Seq(Gen), PrefixOf(t, s), InTime(c, s)
  PROVE  InTime(c, t)
<1> SUFFICES ASSUME c.think >= 0, ~ZeroBudget(c), Len(t) >= Due(c)
             PROVE  \E i \in 1..Due(c) : t[i] = End
  BY DEF InTime
<1>1. Len(s) \in Nat /\ Len(t) \in Nat /\ Due(c) \in Nat /\ Len(t) <= Len(s)
  BY DueIs DEF PrefixOf
<1>2. Len(s) >= Due(c)
  BY <1>1
<1>3. PICK i \in 1..Due(c) : s[i] = End
  BY <1>2 DEF InTime
<1>4. i \in 1..Len(t)
  BY <1>1
<1> QED
  BY <1>3, <1>4 DEF PrefixOf

LEMMA CleanPart ==
  ASSUME NEW stop, NEW s \in Seq(Gen), NEW t \in Seq(Gen), PrefixOf(t, s), Clean(stop, s)
  PROVE  Clean(stop, t)
<1> SUFFICES ASSUME NEW i \in 1..Len(t), t[i] = Mask
             PROVE  stop /\ \E j \in 1..(i - 1) : t[j] = Eos
  BY DEF Clean
<1>1. Len(s) \in Nat /\ Len(t) \in Nat /\ i \in 1..Len(s) /\ s[i] = Mask
  BY DEF PrefixOf
<1>2. stop /\ \E j \in 1..(i - 1) : s[j] = Eos
  BY <1>1 DEF Clean
<1>3. \A j \in 1..(i - 1) : t[j] = s[j]
  BY <1>1 DEF PrefixOf
<1> QED
  BY <1>2, <1>3

\* What may follow s is what the model says, or the marker once it is due.
LEMMA ChainJoin ==
  ASSUME NEW c \in Cases, NEW nx, NEW s \in Seq(Gen), NEW t \in Seq(Gen), Chain(c, nx, s),
         \A j \in 1..Len(t) : c.mode = "spec" \/ (Len(s) + j) % L = 1 =>
            \/ t[j] = Follow(nx, IF j = 1 THEN Tip(s) ELSE t[j - 1])
            \/ j = 1 /\ t[j] = End /\ DueNext(c, s)
  PROVE  Chain(c, nx, s \o t)
<1>1. PICK u : u = s \o t
  OBVIOUS
<1>2. /\ u \in Seq(Gen) /\ Len(u) = Len(s) + Len(t) /\ Len(s) \in Nat /\ Len(t) \in Nat
      /\ \A k \in 1..Len(s) : u[k] = s[k]
      /\ \A k \in 1..Len(t) : u[Len(s) + k] = t[k]
  BY <1>1, JoinIs
<1> SUFFICES ASSUME NEW i \in 1..Len(u), c.mode = "spec" \/ i % L = 1
             PROVE  \/ u[i] = Follow(nx, IF i = 1 THEN Word ELSE u[i - 1])
                    \/ MarkerAt(c, u, i)
  BY <1>1 DEF Chain
<1>3. CASE i \in 1..Len(s)
  <2>1. \A j \in 1..(i - 1) : u[j] = s[j]
    BY <1>2, <1>3
  <2>2. u[i] = s[i] /\ (i # 1 => u[i - 1] = s[i - 1])
    BY <1>2, <1>3, <2>1
  <2>3. s[i] = Follow(nx, IF i = 1 THEN Word ELSE s[i - 1]) \/ MarkerAt(c, s, i)
    BY <1>3 DEF Chain
  <2>4. MarkerAt(c, s, i) => MarkerAt(c, u, i)
    BY <2>1, <2>2 DEF MarkerAt
  <2>5. CASE i = 1
    BY <2>2, <2>3, <2>4, <2>5
  <2>6. CASE i # 1
    BY <2>2, <2>3, <2>4, <2>6
  <2> QED
    BY <2>5, <2>6
<1>4. CASE \E k \in 1..Len(t) : i = Len(s) + k
  <2>1. PICK k \in 1..Len(t) : i = Len(s) + k
    BY <1>4
  <2>2. k \in Nat /\ k >= 1 /\ u[i] = t[k]
    BY <1>2, <2>1
  <2>3. \/ t[k] = Follow(nx, IF k = 1 THEN Tip(s) ELSE t[k - 1])
        \/ k = 1 /\ t[k] = End /\ DueNext(c, s)
    BY <2>1
  <2>4. (IF i = 1 THEN Word ELSE u[i - 1]) = (IF k = 1 THEN Tip(s) ELSE t[k - 1])
    <3>1. CASE k = 1 /\ Len(s) = 0
      BY <2>1, <3>1 DEF Tip
    <3>2. CASE k = 1 /\ Len(s) # 0
      <4>1. i # 1 /\ i - 1 = Len(s) /\ Len(s) \in 1..Len(s)
        BY <1>2, <2>1, <3>2
      <4>2. u[i - 1] = s[Len(s)]
        BY <1>2, <4>1
      <4> QED
        BY <3>2, <4>1, <4>2 DEF Tip
    <3>3. CASE k # 1
      <4>1. i # 1 /\ i - 1 = Len(s) + (k - 1) /\ k - 1 \in 1..Len(t)
        BY <1>2, <2>1, <2>2, <3>3
      <4>2. u[Len(s) + (k - 1)] = t[k - 1]
        BY <1>2, <4>1
      <4> QED
        BY <3>3, <4>1, <4>2
    <3> QED
      BY <3>1, <3>2, <3>3
  <2>5. k = 1 /\ t[k] = End /\ DueNext(c, s) => MarkerAt(c, u, i)
    <3> SUFFICES ASSUME k = 1, t[k] = End, DueNext(c, s) PROVE MarkerAt(c, u, i)
      OBVIOUS
    <3>1. c.think >= 0 /\ Len(s) >= c.think /\ \A j \in 1..Len(s) : s[j] # End
      BY DEF DueNext
    <3>2. i = Len(s) + 1 /\ i - 1 = Len(s) /\ c.think \in Int
      BY <1>2, <2>1, CaseIs
    <3>3. i > c.think
      BY <1>2, <3>1, <3>2
    <3>4. \A j \in 1..(i - 1) : u[j] # End
      BY <1>2, <3>1, <3>2
    <3> QED
      BY <2>2, <3>1, <3>3, <3>4 DEF MarkerAt
  <2> QED
    BY <2>2, <2>3, <2>4, <2>5
<1> QED
  BY <1>2, <1>3, <1>4, JoinAt

\* A block brings the marker in time, and so does a forced draft.
LEMMA InTimeBlock ==
  ASSUME NEW c \in Cases, c.mode = "block", NEW s \in Seq(Gen), NEW b \in Seq(Gen), FullBlock(b),
         InTime(c, s), BlockInTime(c, s, b)
  PROVE  InTime(c, s \o b)
<1>1. PICK u : u = s \o b
  OBVIOUS
<1>2. /\ Len(u) = Len(s) + L /\ Len(s) \in Nat
      /\ \A k \in 1..Len(s) : u[k] = s[k]
      /\ \A k \in Pos : u[Len(s) + k] = b[k]
  <2>1. /\ Len(u) = Len(s) + Len(b) /\ Len(s) \in Nat
        /\ \A k \in 1..Len(s) : u[k] = s[k]
        /\ \A k \in 1..Len(b) : u[Len(s) + k] = b[k]
    BY <1>1, JoinIs
  <2> QED
    BY <2>1 DEF FullBlock, Pos
<1> SUFFICES ASSUME c.think >= 0, ~ZeroBudget(c), Len(u) >= Due(c)
             PROVE  \E i \in 1..Due(c) : u[i] = End
  BY <1>1 DEF InTime
<1>3. Due(c) = c.think + 1 /\ c.think \in Nat /\ L \in Nat
  BY CaseIs, BlockLength DEF Due
<1>4. Len(s) + L > c.think
  BY <1>2, <1>3
<1>5. CASE \E i \in 1..Len(s) : i <= c.think + 1 /\ s[i] = End
  <2>1. PICK i \in 1..Len(s) : i <= c.think + 1 /\ s[i] = End
    BY <1>5
  <2>2. i \in 1..Due(c)
    BY <1>3, <2>1
  <2> QED
    BY <1>2, <2>1, <2>2
<1>6. CASE \E j \in Pos : Len(s) + j <= c.think + 1 /\ b[j] = End
  <2>1. PICK j \in Pos : Len(s) + j <= c.think + 1 /\ b[j] = End
    BY <1>6
  <2>2. Len(s) + j \in 1..Due(c)
    BY <1>2, <1>3, <2>1 DEF Pos
  <2> QED
    BY <1>2, <2>1, <2>2
<1> QED
  BY <1>4, <1>5, <1>6 DEF BlockInTime

LEMMA InTimeSpec ==
  ASSUME NEW c \in Cases, c.mode = "spec", NEW s \in Seq(Gen), NEW t \in Seq(Gen),
         Len(t) <= L, InTime(c, s),
         c.think >= 0 /\ ~ZeroBudget(c) =>
            \/ Len(s) <= c.think
            \/ \E i \in 1..Len(s) : s[i] = End
            \/ Len(t) > 0 /\ t[1] = End
  PROVE  InTime(c, s \o t)
<1>1. PICK u : u = s \o t
  OBVIOUS
<1>2. /\ Len(u) = Len(s) + Len(t) /\ Len(s) \in Nat /\ Len(t) \in Nat
      /\ \A k \in 1..Len(s) : u[k] = s[k]
      /\ \A k \in 1..Len(t) : u[Len(s) + k] = t[k]
  BY <1>1, JoinIs
<1> SUFFICES ASSUME c.think >= 0, ~ZeroBudget(c), Len(u) >= Due(c)
             PROVE  \E i \in 1..Due(c) : u[i] = End
  BY <1>1 DEF InTime
<1>3. Due(c) = c.think + 1 + L /\ c.think \in Nat /\ L \in Nat
  BY CaseIs, BlockLength DEF Due
<1>4. ~(Len(s) <= c.think)
  BY <1>2, <1>3
<1>5. CASE Len(s) >= Due(c)
  <2>1. PICK i \in 1..Due(c) : s[i] = End
    BY <1>5 DEF InTime
  <2>2. i \in 1..Len(s)
    BY <1>2, <1>3, <1>5
  <2> QED
    BY <1>2, <2>1, <2>2
<1>6. CASE Len(s) < Due(c) /\ \E i \in 1..Len(s) : s[i] = End
  <2>1. PICK i \in 1..Len(s) : s[i] = End
    BY <1>6
  <2>2. i \in 1..Due(c)
    BY <1>2, <1>3, <1>6
  <2> QED
    BY <1>2, <2>1, <2>2
<1>7. CASE Len(s) < Due(c) /\ Len(t) > 0 /\ t[1] = End
  <2>1. 1 \in 1..Len(t) /\ Len(s) + 1 \in 1..Due(c)
    BY <1>2, <1>3, <1>7
  <2> QED
    BY <1>2, <1>7, <2>1
<1>8. Len(s) >= Due(c) \/ Len(s) < Due(c)
  BY <1>2, <1>3
<1> QED
  BY <1>4, <1>5, <1>6, <1>7, <1>8

-----------------------------------------------------------------------------
(* Keys and values.                                                        *)

\* Written, for any keys and values.
Wrote(k, from, ts) ==
  [i \in DOMAIN k |-> IF i \in (from + 1)..(from + Len(ts)) THEN ts[i - from] ELSE k[i]]

LEMMA WroteIs ==
  ASSUME NEW k \in Seq(Gen), NEW from \in Nat, NEW ts \in Seq(Gen)
  PROVE  /\ Wrote(k, from, ts) \in Seq(Gen) /\ DOMAIN Wrote(k, from, ts) = DOMAIN k
         /\ \A i \in DOMAIN k : i <= from => Wrote(k, from, ts)[i] = k[i]
         /\ \A j \in 1..Len(ts) : from + j \in DOMAIN k => Wrote(k, from, ts)[from + j] = ts[j]
<1>1. PICK w : w = Wrote(k, from, ts)
  OBVIOUS
<1>2. Len(k) \in Nat /\ DOMAIN k = 1..Len(k) /\ Len(ts) \in Nat
  OBVIOUS
<1>3. /\ DOMAIN w = 1..Len(k)
      /\ \A i \in 1..Len(k) :
           w[i] = IF i \in (from + 1)..(from + Len(ts)) THEN ts[i - from] ELSE k[i]
  BY <1>1, <1>2 DEF Wrote
<1>4. \A i \in 1..Len(k) : w[i] \in Gen
  <2> TAKE i \in 1..Len(k)
  <2>1. CASE i \in (from + 1)..(from + Len(ts))
    <3>1. i - from \in 1..Len(ts)
      BY <1>2, <2>1
    <3> QED
      BY <1>3, <2>1, <3>1
  <2>2. CASE i \notin (from + 1)..(from + Len(ts))
    BY <1>3, <2>2
  <2> QED
    BY <2>1, <2>2
<1>5. w = [i \in 1..Len(k) |-> w[i]]
  BY <1>1, <1>2 DEF Wrote
<1>6. w \in Seq(Gen)
  <2>1. w \in [1..Len(k) -> Gen]
    BY <1>4, <1>5
  <2> QED
    BY <1>2, <2>1
<1>7. \A i \in DOMAIN k : i <= from => w[i] = k[i]
  <2> TAKE i \in DOMAIN k
  <2>1. i <= from => i \notin (from + 1)..(from + Len(ts))
    BY <1>2
  <2> QED
    BY <1>2, <1>3, <2>1
<1>8. \A j \in 1..Len(ts) : from + j \in DOMAIN k => w[from + j] = ts[j]
  <2> TAKE j \in 1..Len(ts)
  <2>1. from + j \in (from + 1)..(from + Len(ts)) /\ (from + j) - from = j
    BY <1>2
  <2> QED
    BY <1>2, <1>3, <2>1
<1> QED
  BY <1>1, <1>2, <1>3, <1>6, <1>7, <1>8

LEMMA HoldsPart ==
  ASSUME NEW k, NEW P, NEW n \in Nat, NEW s \in Seq(Gen), NEW t \in Seq(Gen), PrefixOf(t, s), Holds(k, P, n, s)
  PROVE  Holds(k, P, n, t)
<1>1. Len(s) \in Nat /\ Len(t) \in Nat /\ Len(t) <= Len(s)
  BY DEF PrefixOf
<1>2. \A i \in 1..n : i <= Len(t) => i <= Len(s) /\ t[i] = s[i]
  BY <1>1 DEF PrefixOf
<1> QED
  BY <1>2 DEF Holds

\* u is n tokens of s and m of b, as far as it goes.
Fits(u, s, n, b, m) ==
  /\ \A i \in 1..n : i <= Len(u) => i <= Len(s) /\ u[i] = s[i]
  /\ \A j \in 1..m : n + j <= Len(u) => u[n + j] = b[j]

\* Writing a block after the prefix keeps what the prefix holds, and the first m
\* places of the block hold what the output u has there.
LEMMA HoldsWrite ==
  ASSUME NEW k \in Seq(Gen), NEW P \in Nat, NEW n \in Nat, NEW s \in Seq(Gen), NEW u \in Seq(Gen),
         NEW b \in Seq(Gen), FullBlock(b), NEW m \in Nat, m <= L,
         P + n + m <= Len(k), Holds(k, P, n, s), Fits(u, s, n, b, m)
  PROVE  Holds(Wrote(k, P + n, b), P, n + m, u)
<1>1. PICK w : w = Wrote(k, P + n, b)
  OBVIOUS
<1>2. /\ L \in Nat /\ P + n \in Nat /\ Len(k) \in Nat /\ DOMAIN k = 1..Len(k)
      /\ Len(u) \in Nat /\ Len(b) = L
  BY BlockLength DEF FullBlock
<1>3. /\ \A i \in DOMAIN k : i <= P + n => w[i] = k[i]
      /\ \A j \in 1..L : P + n + j \in DOMAIN k => w[P + n + j] = b[j]
  <2>1. PICK from \in Nat : from = P + n
    BY <1>2
  <2>2. w = Wrote(k, from, b)
    BY <1>1, <2>1
  <2>3. \A i \in DOMAIN k : i <= from => Wrote(k, from, b)[i] = k[i]
    BY WroteIs
  <2>4. \A j \in 1..Len(b) : from + j \in DOMAIN k => Wrote(k, from, b)[from + j] = b[j]
    BY WroteIs
  <2> QED
    BY <1>2, <2>1, <2>2, <2>3, <2>4
<1>4. \A i \in 1..P : w[i] = Word
  <2> TAKE i \in 1..P
  <2>1. i \in DOMAIN k /\ i <= P + n
    BY <1>2
  <2> QED
    BY <1>3, <2>1 DEF Holds
<1>5. ASSUME NEW i \in 1..(n + m), i <= Len(u)
      PROVE  w[P + i] = u[i]
  <2>1. CASE i \in 1..n
    <3>1. P + i \in DOMAIN k /\ P + i <= P + n
      BY <1>2, <2>1
    <3>2. k[P + i] = s[i] /\ u[i] = s[i]
      BY <1>5, <2>1 DEF Holds, Fits
    <3> QED
      BY <1>3, <3>1, <3>2
  <2>2. CASE \E j \in 1..m : i = n + j
    <3>1. PICK j \in 1..m : i = n + j
      BY <2>2
    <3>2. j \in 1..L /\ P + n + j \in DOMAIN k /\ P + i = P + n + j
      BY <1>2, <3>1
    <3> QED
      BY <1>3, <1>5, <3>1, <3>2 DEF Fits
  <2> QED
    BY <2>1, <2>2, JoinAt
<1> QED
  BY <1>1, <1>4, <1>5 DEF Holds

-----------------------------------------------------------------------------
(* What is cut off and filtered out.                                       *)

LEMMA WithoutFront ==
  ASSUME NEW S, NEW s \in Seq(S), NEW X, NEW m \in Nat, m <= Len(s),
         {i \in DOMAIN s : s[i] \notin X} = 1..m
  PROVE  Without(s, X) = SubSeq(s, 1, m)
<1> DEFINE Place(k) == CHOOSE i \in 1..m : Cardinality({j \in 1..m : j < i}) = k - 1
<1>1. Cardinality(1..m) = m
  BY IntervalSize
<1>2. \A i \in 1..m : Cardinality({j \in 1..m : j < i}) = i - 1
  <2> TAKE i \in 1..m
  <2>1. {j \in 1..m : j < i} = 1..(i - 1) /\ i - 1 \in Nat
    OBVIOUS
  <2> QED
    BY <2>1, IntervalSize
<1>3. \A k \in 1..m : Place(k) = k
  <2> TAKE k \in 1..m
  <2>1. Cardinality({j \in 1..m : j < k}) = k - 1
    BY <1>2
  <2>2. \A i \in 1..m : Cardinality({j \in 1..m : j < i}) = k - 1 => i = k
    BY <1>2
  <2> HIDE <1>2
  <2> QED
    BY <2>1, <2>2
<1>4. Without(s, X) = [k \in 1..m |-> s[Place(k)]]
  <2>1. PICK kept : kept = {i \in DOMAIN s : s[i] \notin X}
    OBVIOUS
  <2>2. kept = 1..m
    BY <2>1
  <2>3. Without(s, X) = [k \in 1..Cardinality(kept) |->
                           s[CHOOSE i \in kept : Cardinality({j \in kept : j < i}) = k - 1]]
    BY <2>1 DEF Without
  <2> QED
    BY <1>1, <2>2, <2>3, Zenon
<1> HIDE DEF Place
<1>5. Without(s, X) = [k \in 1..m |-> s[k]]
  BY <1>3, <1>4
<1>6. SubSeq(s, 1, m) = [k \in 1..m |-> s[k]]
  OBVIOUS
<1> QED
  BY <1>5, <1>6

LEMMA InRange ==
  ASSUME NEW S, NEW s \in Seq(S), NEW x
  PROVE  x \in Range(s) <=> \E i \in 1..Len(s) : s[i] = x
<1>1. DOMAIN s = 1..Len(s)
  OBVIOUS
<1> QED
  BY <1>1 DEF Range

Stops(s, stop) == stop /\ \E i \in 1..Len(s) : s[i] = Eos

LEMMA UntilEosIs ==
  ASSUME NEW s \in Seq(Gen), NEW stop \in BOOLEAN
  PROVE  /\ ~Stops(s, stop) => UntilEos(s, stop) = s
         /\ Stops(s, stop) => \E m \in 1..Len(s) : /\ UntilEos(s, stop) = SubSeq(s, 1, m)
                                                   /\ s[m] = Eos
                                                   /\ \A j \in 1..(m - 1) : s[j] # Eos
<1> DEFINE hits == {i \in DOMAIN s : s[i] = Eos}
<1>1. DOMAIN s = 1..Len(s) /\ Len(s) \in Nat
  OBVIOUS
<1>2. hits \in SUBSET Nat
  BY <1>1
<1>3. hits # {} <=> \E i \in 1..Len(s) : s[i] = Eos
  BY <1>1
<1>4. UntilEos(s, stop) = IF stop /\ hits # {} THEN SubSeq(s, 1, Min(hits)) ELSE s
  BY DEF UntilEos
<1>5. ASSUME hits # {}
      PROVE  /\ Min(hits) \in 1..Len(s) /\ s[Min(hits)] = Eos
             /\ \A j \in 1..(Min(hits) - 1) : s[j] # Eos
  <2>1. PICK m : m = Min(hits)
    OBVIOUS
  <2>2. m \in hits /\ m \in Nat /\ \A y \in hits : m <= y
    <3> HIDE DEF hits
    <3> QED
      BY <1>2, <1>5, <2>1, MinIs
  <2>3. m \in 1..Len(s) /\ s[m] = Eos
    BY <1>1, <2>2
  <2>4. \A j \in 1..(m - 1) : s[j] # Eos
    <3> SUFFICES ASSUME NEW j \in 1..(m - 1), s[j] = Eos PROVE FALSE
      OBVIOUS
    <3>1. j \in 1..Len(s) /\ j < m
      BY <1>1, <2>3
    <3>2. j \in hits
      BY <1>1, <3>1
    <3> HIDE DEF hits
    <3> QED
      BY <2>2, <3>1, <3>2
  <2> HIDE DEF hits
  <2> QED
    BY <2>1, <2>3, <2>4
<1> HIDE DEF hits
<1> QED
  BY <1>3, <1>4, <1>5 DEF Stops

\* The tokens up to the end of sequence are decided.
LEMMA UntilClean ==
  ASSUME NEW s \in Seq(Gen), NEW stop \in BOOLEAN, Clean(stop, s)
  PROVE  /\ UntilEos(s, stop) \in Seq(Tokens)
         /\ ~Stops(s, stop) => s \in Seq(Tokens)
<1>1. Len(s) \in Nat
  OBVIOUS
<1>2. ASSUME ~Stops(s, stop)
      PROVE  s \in Seq(Tokens)
  <2>1. \A i \in 1..Len(s) : s[i] # Mask
    <3> SUFFICES ASSUME NEW i \in 1..Len(s), s[i] = Mask PROVE FALSE
      OBVIOUS
    <3>1. PICK j \in 1..(i - 1) : stop /\ s[j] = Eos
      BY DEF Clean
    <3>2. j \in 1..Len(s)
      BY <1>1
    <3> QED
      BY <1>2, <3>1, <3>2 DEF Stops
  <2> QED
    BY <2>1, SeqTokens
<1>3. CASE ~Stops(s, stop)
  BY <1>2, <1>3, UntilEosIs
<1>4. CASE Stops(s, stop)
  <2>1. PICK m \in 1..Len(s) : /\ UntilEos(s, stop) = SubSeq(s, 1, m) /\ s[m] = Eos
                               /\ \A j \in 1..(m - 1) : s[j] # Eos
    BY <1>4, UntilEosIs
  <2>2. PICK u : u = SubSeq(s, 1, m)
    OBVIOUS
  <2>3. u \in Seq(Gen) /\ Len(u) = m /\ \A i \in 1..m : u[i] = s[i]
    BY <1>1, <2>2, PartIs
  <2>4. \A i \in 1..m : s[i] # Mask
    <3> SUFFICES ASSUME NEW i \in 1..m, s[i] = Mask PROVE FALSE
      OBVIOUS
    <3>1. i \in 1..Len(s)
      BY <1>1
    <3>2. PICK j \in 1..(i - 1) : s[j] = Eos
      BY <3>1 DEF Clean
    <3>3. j \in 1..(m - 1)
      BY <1>1
    <3> QED
      BY <2>1, <3>2, <3>3
  <2>5. u \in Seq(Tokens)
    BY <2>3, <2>4, SeqTokens
  <2> QED
    BY <1>4, <2>1, <2>2, <2>5
<1> QED
  BY <1>2, <1>3, <1>4

\* Filtering removes an end of sequence that stands at the end, and nothing else.
LEMMA KeptIs ==
  ASSUME NEW u \in Seq(Tokens), NEW stop \in BOOLEAN, NEW m \in Nat, m <= Len(u),
         \A i \in 1..m : ~(stop /\ u[i] = Eos),
         \A i \in (m + 1)..Len(u) : stop /\ u[i] = Eos
  PROVE  Kept(u, stop) = SubSeq(u, 1, m)
<1>1. PICK X : X = {Mask} \cup {t \in {Eos} : stop}
  OBVIOUS
<1>2. \A i \in 1..Len(u) : u[i] # Mask
  BY TokensSeq
<1>3. \A i \in 1..Len(u) : u[i] \notin X <=> i \in 1..m
  <2> TAKE i \in 1..Len(u)
  <2>1. i \in 1..m \/ i \in (m + 1)..Len(u)
    OBVIOUS
  <2>2. u[i] \in X <=> stop /\ u[i] = Eos
    BY <1>1, <1>2
  <2>3. i \in 1..m => i \notin (m + 1)..Len(u)
    OBVIOUS
  <2> QED
    BY <2>1, <2>2, <2>3
<1>4. DOMAIN u = 1..Len(u) /\ Len(u) \in Nat
  OBVIOUS
<1>5. {i \in DOMAIN u : u[i] \notin X} = 1..m
  BY <1>3, <1>4
<1>6. Without(u, X) = SubSeq(u, 1, m)
  BY <1>5, WithoutFront
<1> QED
  BY <1>1, <1>6 DEF Kept

\* What is returned and what is published of decided tokens s.
LEMMA OutputIs ==
  ASSUME NEW s \in Seq(Gen), NEW stop \in BOOLEAN, Clean(stop, s), NEW o,
         o = Kept(UntilEos(s, stop), stop) \/ o = Kept(BeforeEos(s, stop), stop)
  PROVE  /\ o \in Seq(Tokens) /\ PrefixOf(o, s)
         /\ stop => \A i \in 1..Len(o) : o[i] # Eos
         /\ Stops(s, stop) => Len(o) < Len(s)
         /\ ~Stops(s, stop) => o = s
<1>1. PICK u : u = UntilEos(s, stop)
  OBVIOUS
<1>2. u \in Seq(Tokens) /\ u \in Seq(Gen) /\ Len(u) \in Nat /\ Len(s) \in Nat
  <2>1. u \in Seq(Tokens)
    BY <1>1, UntilClean
  <2> QED
    BY <2>1, TokensSeq
<1>3. PICK v : v = BeforeEos(s, stop)
  OBVIOUS
<1>4. v = IF stop /\ u # <<>> /\ u[Len(u)] = Eos THEN Front(u) ELSE u
  BY <1>1, <1>3 DEF BeforeEos
<1>5. CASE ~Stops(s, stop)
  <2>1. u = s
    BY <1>1, <1>5, UntilEosIs
  <2>2. \A i \in 1..Len(u) : ~(stop /\ u[i] = Eos)
    BY <1>5, <2>1 DEF Stops
  <2>3. v = u
    <3>1. u # <<>> => Len(u) \in 1..Len(u)
      BY <1>2
    <3> QED
      BY <1>4, <2>2, <3>1
  <2>4. SubSeq(u, 1, Len(u)) = u
    BY <1>2
  <2>5. Kept(u, stop) = u
    <3>1. PICK m \in Nat : m = Len(u)
      BY <1>2
    <3>2. /\ m <= Len(u) /\ \A i \in 1..m : ~(stop /\ u[i] = Eos)
          /\ \A i \in (m + 1)..Len(u) : stop /\ u[i] = Eos
      BY <2>2, <3>1
    <3>3. Kept(u, stop) = SubSeq(u, 1, m)
      BY <1>2, <3>2, KeptIs
    <3> QED
      BY <2>4, <3>1, <3>3
  <2>6. o = u
    BY <1>1, <1>3, <2>3, <2>5
  <2> QED
    BY <1>2, <1>5, <2>1, <2>2, <2>6 DEF PrefixOf
<1>6. CASE Stops(s, stop)
  <2>1. PICK m \in 1..Len(s) : /\ u = SubSeq(s, 1, m) /\ s[m] = Eos
                               /\ \A j \in 1..(m - 1) : s[j] # Eos
    BY <1>1, <1>6, UntilEosIs
  <2>2. PICK d \in Nat : d = m - 1
    BY <1>2
  <2>3. Len(u) = m /\ (\A i \in 1..m : u[i] = s[i]) /\ m \in Nat /\ m >= 1
    BY <1>2, <2>1, PartIs
  <2>4. stop /\ u[m] = Eos /\ \A i \in 1..d : u[i] # Eos
    BY <1>6, <2>1, <2>2, <2>3 DEF Stops
  <2>5. PICK f : f = SubSeq(u, 1, d)
    OBVIOUS
  <2>6. f \in Seq(Tokens) /\ Len(f) = d /\ \A i \in 1..d : f[i] = u[i]
    BY <1>2, <2>2, <2>3, <2>5, PartIs
  <2>7. v = f
    <3>1. u # <<>> /\ u[Len(u)] = Eos
      BY <1>2, <2>3, <2>4
    <3> QED
      BY <1>4, <2>2, <2>3, <2>4, <2>5, <3>1 DEF Front
  <2>8. Kept(u, stop) = f
    <3>1. /\ d <= Len(u) /\ \A i \in 1..d : ~(stop /\ u[i] = Eos)
          /\ \A i \in (d + 1)..Len(u) : stop /\ u[i] = Eos
      <4>1. \A i \in (d + 1)..Len(u) : i = m
        BY <2>2, <2>3
      <4> QED
        BY <2>2, <2>3, <2>4, <4>1
    <3> QED
      BY <1>2, <2>5, <3>1, KeptIs
  <2>9. Kept(f, stop) = f
    <3>1. /\ d <= Len(f) /\ \A i \in 1..d : ~(stop /\ f[i] = Eos)
          /\ \A i \in (d + 1)..Len(f) : stop /\ f[i] = Eos
      BY <2>4, <2>6
    <3>2. Kept(f, stop) = SubSeq(f, 1, d)
      BY <2>6, <3>1, KeptIs
    <3>3. SubSeq(f, 1, d) = f
      BY <2>6
    <3> QED
      BY <3>2, <3>3
  <2>10. o = f
    BY <1>1, <1>3, <2>7, <2>8, <2>9
  <2>11. PrefixOf(f, s) /\ Len(f) < Len(s)
    BY <1>2, <2>2, <2>3, <2>6 DEF PrefixOf
  <2> QED
    BY <1>6, <2>4, <2>6, <2>10, <2>11
<1> QED
  BY <1>5, <1>6

-----------------------------------------------------------------------------
(* Verification.                                                           *)

\* t is what a verification of the draft b accepts.
Accepts(nx, b, forced, t) ==
  /\ t \in Seq(Tokens) /\ Len(t) >= 1 /\ Len(t) <= L
  /\ \A j \in 1..Len(t) : t[j] = IF j <= forced THEN b[j + 1] ELSE Follow(nx, b[j])
  /\ \A j \in 1..(Len(t) - 1) : t[j] = b[j + 1]

LEMMA FollowIs ==
  ASSUME NEW nx \in [Tokens -> Tokens], NEW x \in Gen
  PROVE  Follow(nx, x) \in Tokens
BY MaskApart DEF Follow, Gen

LEMMA AcceptedIs ==
  ASSUME NEW nx \in [Tokens -> Tokens], NEW b \in [Pos -> Gen], NEW forced \in {0, 1},
         forced = 1 => L > 1 /\ b[2] \in Tokens
  PROVE  Accepts(nx, b, forced, AcceptedTokens([i \in Pos |-> Follow(nx, b[i])], b, forced))
<1>1. PICK v : v = [i \in Pos |-> Follow(nx, b[i])]
  OBVIOUS
<1>2. \A i \in Pos : v[i] = Follow(nx, b[i]) /\ v[i] \in Tokens
  BY <1>1, FollowIs
<1> DEFINE ok == {n \in forced..(L - 1) : \A i \in (forced + 1)..n : v[i] = b[i + 1]}
<1>3. L \in Nat /\ L - 1 \in Nat /\ forced \in Nat /\ forced <= L - 1
  BY BlockLength
<1>4. ok \subseteq 0..(L - 1) /\ forced \in ok
  BY <1>3
<1>5. PICK n : n = Max(ok)
  OBVIOUS
<1>6. n \in ok
  <2>1. PICK N \in Nat : N = L - 1
    BY <1>3
  <2>2. ok \subseteq 0..N /\ ok # {}
    BY <1>4, <2>1
  <2> HIDE DEF ok
  <2> QED
    BY <1>5, <2>2, MaxIs
<1>7. n \in Nat /\ n >= forced /\ n <= L - 1 /\ \A i \in (forced + 1)..n : v[i] = b[i + 1]
  BY <1>3, <1>6
<1>8. PICK t : t = AcceptedTokens(v, b, forced)
  OBVIOUS
<1>9. t = [i \in 1..(n + 1) |-> IF i <= forced THEN b[i + 1] ELSE v[i]]
  BY <1>5, <1>8 DEF AcceptedTokens
<1> HIDE DEF ok
<1>10. PICK m \in Nat : m = n + 1
  BY <1>7
<1>11. \A i \in 1..m : i \in Pos /\ (i <= forced => i = 1 /\ forced = 1)
  BY <1>3, <1>7, <1>10 DEF Pos
<1>12. \A i \in 1..m : (IF i <= forced THEN b[i + 1] ELSE v[i]) \in Tokens
  BY <1>2, <1>11
<1>13. t \in [1..m -> Tokens]
  BY <1>9, <1>10, <1>12
<1>14. t \in Seq(Tokens) /\ Len(t) = m
  BY <1>13
<1>15. \A j \in 1..m : t[j] = IF j <= forced THEN b[j + 1] ELSE Follow(nx, b[j])
  BY <1>2, <1>9, <1>10, <1>11
<1>16. \A j \in 1..(m - 1) : t[j] = b[j + 1]
  <2> TAKE j \in 1..(m - 1)
  <2>1. j \in 1..m /\ j \in 1..(n + 1) /\ (j <= forced \/ j \in (forced + 1)..n)
    BY <1>3, <1>7, <1>10
  <2> QED
    BY <1>7, <1>9, <2>1
<1>17. m >= 1 /\ m <= L
  BY <1>3, <1>7, <1>10
<1> QED
  BY <1>1, <1>8, <1>14, <1>15, <1>16, <1>17 DEF Accepts

LEMMA VerifiedOutput ==
  ASSUME NEW c \in Cases, c.mode = "spec", NEW nx, NEW s \in Seq(Gen), NEW n \in Nat,
         NEW b \in Seq(Gen), NEW forced \in {0, 1}, NEW t \in Seq(Gen), Accepts(nx, b, forced, t),
         Len(s) = n + 1, b[1] = s[n + 1],
         forced = 1 => b[2] = End /\ DueNext(c, s),
         forced = 0 /\ c.think >= 0 /\ ~ZeroBudget(c) =>
            Len(s) <= c.think \/ \E i \in 1..Len(s) : s[i] = End,
         Chain(c, nx, s), InTime(c, s)
  PROVE  /\ Chain(c, nx, s \o t) /\ InTime(c, s \o t)
         /\ Fits(s \o t, s, n, b, Len(t))
<1>1. /\ Len(t) \in Nat /\ Len(t) >= 1 /\ Len(t) <= L
      /\ \A j \in 1..(Len(t) - 1) : t[j] = b[j + 1]
  BY DEF Accepts
<1>2. \A j \in 1..Len(t) : t[j] = IF j <= forced THEN b[j + 1] ELSE Follow(nx, b[j])
  BY DEF Accepts
<1>3. \A j \in 1..Len(t) : j # 1 => t[j - 1] = b[j]
  <2> SUFFICES ASSUME NEW j \in 1..Len(t), j # 1 PROVE t[j - 1] = b[j]
    OBVIOUS
  <2>1. j - 1 \in 1..(Len(t) - 1) /\ (j - 1) + 1 = j
    BY <1>1
  <2> QED
    BY <1>1, <2>1
<1>4. Tip(s) = b[1]
  BY DEF Tip
<1>5. \A j \in 1..Len(t) :
        \/ t[j] = Follow(nx, IF j = 1 THEN Tip(s) ELSE t[j - 1])
        \/ j = 1 /\ t[j] = End /\ DueNext(c, s)
  <2> TAKE j \in 1..Len(t)
  <2>1. CASE j <= forced
    <3>1. j = 1 /\ forced = 1
      BY <2>1
    <3>2. t[1] = b[2]
      BY <1>2, <2>1, <3>1
    <3> QED
      BY <3>1, <3>2
  <2>2. CASE ~(j <= forced)
    <3>1. t[j] = Follow(nx, b[j])
      BY <1>2, <2>2
    <3>2. b[j] = IF j = 1 THEN Tip(s) ELSE t[j - 1]
      BY <1>3, <1>4
    <3> QED
      BY <3>1, <3>2
  <2> QED
    BY <2>1, <2>2
<1>6. Chain(c, nx, s \o t)
  BY <1>5, ChainJoin
<1>7. InTime(c, s \o t)
  <2>1. forced = 1 => Len(t) > 0 /\ t[1] = End
    BY <1>1, <1>2
  <2>2. c.think >= 0 /\ ~ZeroBudget(c) =>
            \/ Len(s) <= c.think
            \/ \E i \in 1..Len(s) : s[i] = End
            \/ Len(t) > 0 /\ t[1] = End
    BY <2>1
  <2> QED
    BY <1>1, <2>2, InTimeSpec
<1>8. Fits(s \o t, s, n, b, Len(t))
  <2>1. PICK u : u = s \o t
    OBVIOUS
  <2>2. /\ Len(u) = Len(s) + Len(t) /\ Len(s) \in Nat
        /\ \A k \in 1..Len(s) : u[k] = s[k]
        /\ \A k \in 1..Len(t) : u[Len(s) + k] = t[k]
    <3>1. Len(s \o t) = Len(s) + Len(t) /\ Len(s) \in Nat
      BY JoinIs
    <3>2. \A k \in 1..Len(s) : (s \o t)[k] = s[k]
      BY JoinIs
    <3>3. \A k \in 1..Len(t) : (s \o t)[Len(s) + k] = t[k]
      BY JoinIs
    <3> QED
      BY <2>1, <3>1, <3>2, <3>3, Zenon
  <2>3. \A i \in 1..n : i <= Len(s) /\ u[i] = s[i]
    BY <2>2
  <2>4. \A j \in 1..Len(t) : u[n + j] = b[j]
    <3> TAKE j \in 1..Len(t)
    <3>1. CASE j = 1
      BY <2>2, <3>1
    <3>2. CASE j # 1
      <4>1. j - 1 \in 1..Len(t) /\ n + j = Len(s) + (j - 1)
        BY <1>1, <3>2
      <4> QED
        BY <1>3, <2>2, <3>2, <4>1
    <3> QED
      BY <3>1, <3>2
  <2> QED
    BY <2>1, <2>3, <2>4 DEF Fits
<1> QED
  BY <1>6, <1>7, <1>8

-----------------------------------------------------------------------------
(* New rows.                                                               *)

LEMMA SeededIs ==
  ASSUME NEW x \in Gen
  PROVE  /\ Seeded(x) \in [Pos -> Gen] /\ Seeded(x)[1] = x
         /\ \A i \in Pos : i # 1 => Seeded(x)[i] = Mask
<1>1. PICK n \in Nat : n = L - 1
  BY BlockLength
<1>2. PICK t : t = [i \in 1..n |-> Mask]
  OBVIOUS
<1>3. t \in [1..n -> Gen]
  BY <1>2 DEF Gen
<1>4. t \in Seq(Gen) /\ Len(t) = n /\ \A i \in 1..n : t[i] = Mask
  BY <1>2, <1>3
<1>5. <<x>> \in Seq(Gen) /\ Len(<<x>>) = 1 /\ <<x>>[1] = x
  OBVIOUS
<1>6. PICK b : b = <<x>> \o t
  OBVIOUS
<1>7. /\ b \in Seq(Gen) /\ Len(b) = 1 + n /\ b[1] = x
      /\ \A k \in 1..n : b[1 + k] = Mask
  BY <1>4, <1>5, <1>6
<1>8. L \in Nat /\ L > 0 /\ L = 1 + n /\ Pos = 1..L
  BY <1>1, BlockLength DEF Pos
<1>9. b \in [Pos -> Gen]
  BY <1>7, <1>8
<1>10. \A i \in Pos : i # 1 => b[i] = Mask
  <2> SUFFICES ASSUME NEW i \in Pos, i # 1 PROVE b[i] = Mask
    OBVIOUS
  <2>1. i - 1 \in 1..n /\ i = 1 + (i - 1)
    BY <1>8
  <2> QED
    BY <1>7, <2>1
<1>11. Seeded(x) = b
  BY <1>1, <1>2, <1>6 DEF Seeded
<1> QED
  BY <1>7, <1>9, <1>10, <1>11

LEMMA SatisfiedIs ==
  ASSUME NEW s \in Seq(Gen)
  PROVE  /\ Satisfied(s) <=> ~(case.think >= 0) \/ \E i \in 1..Len(s) : s[i] = End
         /\ Forced(s) \in {0, 1}
         /\ Forced(s) = 1 => case.think >= 0 /\ Len(s) > case.think /\ \A i \in 1..Len(s) : s[i] # End
         /\ Forced(s) = 0 /\ case.think >= 0 =>
              ~(Len(s) > case.think) \/ \E i \in 1..Len(s) : s[i] = End
<1>1. Satisfied(s) <=> ~(case.think >= 0) \/ \E i \in 1..Len(s) : s[i] = End
  BY InRange DEF Satisfied, Enabled
<1> QED
  BY <1>1 DEF Forced, ForceNextToken, Enabled

\* The block a row starts with: its first token is the seed or a marker that is due.
LEMMA BudgetedBlock ==
  ASSUME case \in Cases, case.mode = "block", NEW seed \in Tokens, NEW s \in Seq(Gen), InTime(case, s)
  PROVE  LET b == ApplyThinkingBudget(Seeded(seed), s)
         IN /\ b \in [Pos -> Gen] /\ b[1] \in Tokens
            /\ b[1] = seed \/ (b[1] = End /\ DueNext(case, s))
            /\ BlockInTime(case, s, b)
<1>1. PICK a : a = Seeded(seed)
  OBVIOUS
<1>2. seed \in Gen /\ a \in [Pos -> Gen] /\ a[1] = seed
  BY <1>1, SeededIs DEF Gen
<1>3. a \in Seq(Gen) /\ Len(a) = L
  BY <1>2, BlockSeq DEF FullBlock
<1>4. L \in Nat /\ L > 0 /\ Len(s) \in Nat /\ case.think \in Int /\ 1 \in Pos
  BY BlockLength, CaseIs
<1>5. PICK b : b = ApplyThinkingBudget(Seeded(seed), s)
  OBVIOUS
<1>6. Len(s) > case.think /\ case.think >= 0 => \E i \in 1..Len(s) : i <= case.think + 1 /\ s[i] = End
  <2> SUFFICES ASSUME Len(s) > case.think, case.think >= 0
               PROVE  \E i \in 1..Len(s) : i <= case.think + 1 /\ s[i] = End
    OBVIOUS
  <2>1. Due(case) = case.think + 1 /\ ~ZeroBudget(case)
    BY <1>4 DEF Due, ZeroBudget
  <2>2. Len(s) >= Due(case)
    BY <1>4, <2>1
  <2>3. PICK i \in 1..Due(case) : s[i] = End
    BY <2>1, <2>2 DEF InTime
  <2>4. i \in 1..Len(s) /\ i <= case.think + 1
    BY <1>4, <2>1, <2>2
  <2> QED
    BY <2>3, <2>4
<1>7. CASE Satisfied(s) \/ Satisfied(a) \/ ~InjectionDue(Len(s))
  <2>1. b = a
    BY <1>1, <1>5, <1>7 DEF ApplyThinkingBudget
  <2>2. BlockInTime(case, s, a)
    <3> SUFFICES ASSUME case.think >= 0, Len(s) + L > case.think
                 PROVE  \/ \E i \in 1..Len(s) : i <= case.think + 1 /\ s[i] = End
                        \/ \E j \in Pos : Len(s) + j <= case.think + 1 /\ a[j] = End
      BY DEF BlockInTime
    <3>1. CASE Len(s) > case.think
      BY <1>6, <3>1
    <3>2. CASE ~(Len(s) > case.think)
      <4>1. InjectionDue(Len(s))
        BY DEF InjectionDue, Enabled
      <4>2. CASE \E i \in 1..Len(s) : s[i] = End
        <5>1. PICK i \in 1..Len(s) : s[i] = End
          BY <4>2
        <5>2. i <= case.think + 1
          BY <1>4, <3>2
        <5> QED
          BY <5>1, <5>2
      <4>3. CASE \E i \in 1..Len(a) : a[i] = End
        <5>1. PICK i \in 1..Len(a) : a[i] = End
          BY <4>3
        <5>2. i \in Pos
          BY <1>3 DEF Pos
        <5>3. i = 1
          <6> SUFFICES ASSUME i # 1 PROVE FALSE
            OBVIOUS
          <6>1. a[i] = Mask
            BY <1>1, <1>2, <5>2, SeededIs
          <6> QED
            BY <5>1, <6>1, MaskApart
        <5>4. Len(s) + 1 <= case.think + 1
          BY <1>4, <3>2
        <5> QED
          BY <1>4, <5>1, <5>3, <5>4
      <4> QED
        BY <1>3, <1>7, <4>1, <4>2, <4>3, SatisfiedIs
    <3> QED
      BY <3>1, <3>2
  <2> QED
    BY <1>2, <1>5, <2>1, <2>2
<1>8. CASE ~(Satisfied(s) \/ Satisfied(a) \/ ~InjectionDue(Len(s)))
  <2>1. /\ case.think >= 0 /\ \A i \in 1..Len(s) : s[i] # End
        /\ Len(s) + L > case.think
    BY <1>8, SatisfiedIs DEF InjectionDue, Enabled
  <2>2. ~(Len(s) > case.think)
    BY <1>6, <2>1
  <2>3. PICK d : d = InjectionOffset(Len(s))
    OBVIOUS
  <2>4. d = case.think - Len(s)
    <3>1. case.think - Len(s) \in Int /\ case.think - Len(s) >= 0
      BY <1>4, <2>2
    <3>2. Max({0, case.think - Len(s)}) = IF 0 >= case.think - Len(s) THEN 0 ELSE case.think - Len(s)
      BY <3>1, MaxOfTwo
    <3> QED
      BY <2>3, <3>1, <3>2 DEF InjectionOffset
  <2>5. d + 1 \in Pos /\ Len(s) + (d + 1) = case.think + 1 /\ d \in Nat
    BY <1>4, <2>1, <2>2, <2>4 DEF Pos
  <2>6. b = [a EXCEPT ![d + 1] = End]
    BY <1>1, <1>5, <1>8, <2>3 DEF ApplyThinkingBudget
  <2>7. b \in [Pos -> Gen] /\ b[d + 1] = End /\ (d + 1 # 1 => b[1] = seed)
    BY <1>2, <1>4, <2>5, <2>6, MaskApart DEF Gen
  <2>8. d + 1 = 1 => DueNext(case, s)
    <3>1. d + 1 = 1 => Len(s) >= case.think
      BY <1>4, <2>4, <2>5
    <3> QED
      BY <2>1, <3>1 DEF DueNext
  <2>9. BlockInTime(case, s, b)
    BY <2>5, <2>7 DEF BlockInTime
  <2>10. b[1] = seed \/ (b[1] = End /\ DueNext(case, s))
    BY <2>7, <2>8
  <2>11. b[1] \in Tokens
    BY <2>10, MaskApart
  <2> QED
    BY <1>5, <2>7, <2>9, <2>10, <2>11
<1> QED
  BY <1>7, <1>8

\* w is a new row, not done, after the output s.
Begins(r, w, prefix, emitted, s) ==
  /\ w \in RowType /\ w.prefix = prefix /\ w.emitted = emitted
  /\ ActiveOK(case, next, r, w, s)

LEMMA BlockRowIs ==
  ASSUME case \in Cases, case.mode = "block", next \in [Tokens -> Tokens], NEW r \in Rows,
         NEW prefix \in Nat, prefix >= case.prompts[r], prefix <= case.prompts[r] + case.gens[r],
         NEW s \in Seq(Tokens), NEW emitted \in Seq(Tokens), NEW seed, seed = Follow(next, Tip(s)),
         Len(s) = prefix - case.prompts[r], NEW k \in Nat, Len(s) = k * L, InTime(case, s)
  PROVE  Begins(r, BlockRow(r, prefix, seed, s, emitted), prefix, emitted, s)
<1>1. s \in Seq(Gen) /\ emitted \in Seq(Gen)
  BY TokensSeq
<1>2. seed \in Tokens /\ seed \in Gen
  <2>1. Tip(s) \in Gen
    BY MaskApart DEF Tip, Gen
  <2> QED
    BY <2>1, FollowIs DEF Gen
<1>3. PICK b : b = ApplyThinkingBudget(Seeded(seed), s)
  OBVIOUS
<1>4. /\ b \in [Pos -> Gen] /\ b[1] \in Tokens
      /\ b[1] = seed \/ (b[1] = End /\ DueNext(case, s))
      /\ BlockInTime(case, s, b)
  BY <1>1, <1>2, <1>3, BudgetedBlock
<1>5. case.stop[r] \in BOOLEAN
  BY CaseIs DEF Rows
<1>6. PICK term \in BOOLEAN : term = (case.stop[r] /\ EosTerminal(b))
  BY <1>5 DEF EosTerminal
<1>7. PICK st : st = IF term \/ (case.path = "dense" /\ Masked(b) = {}) THEN "commit" ELSE "denoise"
  OBVIOUS
<1>8. PICK w : w = [st |-> st, prefix |-> prefix, block |-> b, seed |-> seed, steps |-> 0,
                    emitted |-> emitted, forced |-> 0, term |-> term]
  OBVIOUS
<1>9. w = BlockRow(r, prefix, seed, s, emitted)
  BY <1>3, <1>6, <1>7, <1>8 DEF BlockRow
<1>10. /\ w.st = st /\ w.prefix = prefix /\ w.block = b /\ w.emitted = emitted /\ w.term = term
  BY <1>8
<1>11. w \in RowType
  BY <1>1, <1>2, <1>4, <1>6, <1>7, <1>8 DEF RowType
<1>12. \E q \in 0..Len(s) : Len(s) = q * L
  <2>1. k * L >= k
    BY BlockLength
  <2>2. k \in 0..Len(s)
    BY <2>1
  <2> QED
    BY <2>2
<1>13. BlockActive(case, next, w, prefix - case.prompts[r], s)
  <2>1. b[1] # Mask
    BY <1>4, MaskApart
  <2> QED
    BY <1>4, <1>10, <1>12, <2>1 DEF BlockActive
<1>14. ActiveOK(case, next, r, w, s)
  <2>1. w.st \in {"denoise", "commit", "verify"} /\ w.st # "verify"
    BY <1>7, <1>10
  <2>2. w.st = "commit" => Masked(w.block) = {} \/ w.term
    BY <1>7, <1>10
  <2>3. w.term => case.stop[r] /\ EosTerminal(w.block)
    BY <1>6, <1>10
  <2> QED
    BY <1>10, <1>13, <2>1, <2>2, <2>3 DEF ActiveOK
<1> QED
  BY <1>9, <1>10, <1>11, <1>14 DEF Begins

\* Whether the draft after the output s is forced, and what it starts with.
DraftStart(c, seed, forced, s) ==
  /\ Len(s) > 0 /\ seed = s[Len(s)]
  /\ forced = 1 => DueNext(c, s)
  /\ forced = 0 /\ c.think >= 0 /\ ~ZeroBudget(c) =>
       Len(s) <= c.think \/ \E i \in 1..Len(s) : s[i] = End

LEMMA SpecRowIs ==
  ASSUME case \in Cases, case.mode = "spec", NEW r \in Rows,
         NEW prefix \in Nat, prefix >= case.prompts[r], prefix <= case.prompts[r] + case.gens[r],
         NEW s \in Seq(Tokens), NEW emitted \in Seq(Tokens), NEW seed, NEW forced \in {0, 1},
         Len(s) = prefix - case.prompts[r] + 1, DraftStart(case, seed, forced, s)
  PROVE  /\ Begins(r, SpecRow(prefix, seed, forced, emitted), prefix, emitted, s)
         /\ SpecRow(prefix, seed, forced, emitted).term = FALSE
<1>0. PICK n \in Nat : n = prefix - case.prompts[r]
  BY CaseIs DEF Rows
<1>1. emitted \in Seq(Gen)
  BY TokensSeq
<1>2. seed \in Tokens /\ seed \in Gen
  <2>1. Len(s) \in 1..Len(s)
    BY DEF DraftStart
  <2> QED
    BY <2>1 DEF Gen, DraftStart
<1>3. PICK a : a = Seeded(seed)
  OBVIOUS
<1>4. a \in [Pos -> Gen] /\ a[1] = seed
  BY <1>2, <1>3, SeededIs
<1>5. PICK b : b = IF forced = 1 THEN [a EXCEPT ![2] = End] ELSE a
  OBVIOUS
<1>6. forced = 1 => L > 1 /\ 2 \in Pos
  <2>1. forced = 1 => L > 1
    BY CaseIs DEF DueNext, DraftStart
  <2> QED
    BY <2>1, BlockLength DEF Pos
<1>7. b \in [Pos -> Gen] /\ b[1] = seed /\ (forced = 1 => b[2] = End)
  BY <1>4, <1>5, <1>6, MaskApart, BlockLength DEF Gen
<1>8. PICK st : st = IF case.path = "dense" /\ Masked(b) = {} THEN "verify" ELSE "denoise"
  OBVIOUS
<1>9. PICK w : w = [st |-> st, prefix |-> prefix, block |-> b, seed |-> seed, steps |-> 0,
                    emitted |-> emitted, forced |-> forced, term |-> FALSE]
  OBVIOUS
<1>10. w = SpecRow(prefix, seed, forced, emitted)
  BY <1>3, <1>5, <1>8, <1>9 DEF SpecRow
<1>11. /\ w.st = st /\ w.prefix = prefix /\ w.block = b /\ w.emitted = emitted
       /\ w.term = FALSE /\ w.forced = forced
  BY <1>9
<1>12. w \in RowType
  BY <1>1, <1>2, <1>7, <1>8, <1>9 DEF RowType
<1>13. SpecActive(case, w, n, s)
  <2>1. Len(s) = n + 1 /\ seed = s[n + 1]
    BY <1>0, CaseIs DEF DraftStart, Rows
  <2> QED
    BY <1>6, <1>7, <1>11, <2>1 DEF SpecActive, DraftStart
<1>14. ActiveOK(case, next, r, w, s)
  <2>1. w.st \in {"denoise", "commit", "verify"} /\ w.st # "commit"
    BY <1>8, <1>11
  <2>2. w.st = "verify" => Masked(w.block) = {}
    BY <1>8, <1>11
  <2> QED
    BY <1>0, <1>11, <1>13, <2>1, <2>2 DEF ActiveOK
<1> QED
  BY <1>10, <1>11, <1>12, <1>14 DEF Begins

\* The first tokens of an output.
LEMMA FirstToken ==
  ASSUME NEW c \in Cases, NEW nx \in [Tokens -> Tokens], NEW seed, seed = Follow(nx, Word)
  PROVE  /\ seed \in Tokens /\ <<seed>> \in Seq(Tokens) /\ Len(<<seed>>) = 1 /\ <<seed>>[1] = seed
         /\ Chain(c, nx, <<seed>>) /\ (c.mode = "spec" => InTime(c, <<seed>>))
         /\ Chain(c, nx, <<>>) /\ InTime(c, <<>>)
<1>1. seed \in Tokens
  <2>1. Word \in Gen
    BY MaskApart DEF Gen
  <2> QED
    BY <2>1, FollowIs
<1>2. <<seed>> \in Seq(Tokens) /\ Len(<<seed>>) = 1 /\ <<seed>>[1] = seed
  BY <1>1
<1>3. Chain(c, nx, <<seed>>)
  BY <1>2 DEF Chain
<1>4. c.mode = "spec" => InTime(c, <<seed>>)
  <2>1. c.mode = "spec" /\ c.think >= 0 => Due(c) > 1
    BY BlockLength, CaseIs DEF Due
  <2>2. c.mode = "spec" /\ c.think >= 0 => ~(1 >= Due(c))
    BY <2>1, DueIs
  <2> QED
    BY <1>2, <2>2 DEF InTime
<1>5. Len(<<>>) = 0
  OBVIOUS
<1>6. Chain(c, nx, <<>>)
  BY <1>5 DEF Chain
<1>7. InTime(c, <<>>)
  <2>1. c.think >= 0 => ~(0 >= Due(c))
    BY DueIs, CaseIs
  <2> QED
    BY <1>5, <2>1 DEF InTime
<1> QED
  BY <1>1, <1>2, <1>3, <1>4, <1>6, <1>7

\* A row that speculates from the prompt on.
LEMMA FirstSpecRowIs ==
  ASSUME case \in Cases, case.mode = "spec", next \in [Tokens -> Tokens], NEW r \in Rows,
         NEW seed, seed = Follow(next, Word), NEW gen \in Nat,
         case.path # "online" => gen = case.gens[r]
  PROVE  LET w == FirstSpecRow(r, seed, gen)
         IN /\ w \in RowType /\ w.prefix = case.prompts[r] /\ w.emitted = <<seed>>
            /\ \/ ActiveOK(case, next, r, w, <<seed>>)
               \/ DoneOK(case, next, r, w, <<seed>>)
<1>1. PICK s : s = <<seed>>
  OBVIOUS
<1>2. seed \in Tokens /\ s \in Seq(Tokens) /\ Len(s) = 1 /\ s[1] = seed
  BY <1>1, FirstToken
<1>3. PICK forced : forced = IF case.path = "batch" THEN 0 ELSE Forced(<<seed>>)
  OBVIOUS
<1>4. s \in Seq(Gen)
  BY <1>2, TokensSeq
<1>5. case.think \in Int /\ case.prompts[r] \in Nat /\ case.gens[r] \in Nat /\ case.stop[r] \in BOOLEAN
  BY CaseIs DEF Rows
<1>6. forced \in {0, 1} /\ (forced = 1 => DueNext(case, s))
  <2>1. CASE case.path = "batch"
    BY <1>3, <2>1
  <2>2. CASE case.path # "batch"
    <3>1. forced = Forced(s)
      BY <1>1, <1>3, <2>2
    <3>2. forced = 1 => Len(s) >= case.think
      <4>1. forced = 1 => Len(s) > case.think
        BY <1>4, <3>1, SatisfiedIs
      <4> QED
        BY <1>2, <1>5, <4>1
    <3> QED
      BY <1>4, <3>1, <3>2, SatisfiedIs DEF DueNext
  <2> QED
    BY <2>1, <2>2
<1>7. forced = 0 /\ case.think >= 0 /\ ~ZeroBudget(case) =>
        Len(s) <= case.think \/ \E i \in 1..Len(s) : s[i] = End
  <2>1. CASE case.path = "batch"
    <3>1. case.think >= 0 /\ ~ZeroBudget(case) => 1 <= case.think
      BY <1>5, <2>1 DEF ZeroBudget
    <3> QED
      BY <1>2, <3>1
  <2>2. CASE case.path # "batch"
    <3>1. forced = Forced(s)
      BY <1>1, <1>3, <2>2
    <3>2. ~(Len(s) > case.think) => Len(s) <= case.think
      BY <1>2, <1>5
    <3> QED
      BY <1>4, <3>1, <3>2, SatisfiedIs
  <2> QED
    BY <2>1, <2>2
<1>8. PICK w : w = SpecRow(case.prompts[r], seed, forced, s)
  OBVIOUS
<1>9. /\ w \in RowType /\ w.prefix = case.prompts[r] /\ w.emitted = s /\ w.term = FALSE
      /\ ActiveOK(case, next, r, w, s)
  <2>1. PICK p \in Nat : p = case.prompts[r]
    BY <1>5
  <2>2. /\ p >= case.prompts[r] /\ p <= case.prompts[r] + case.gens[r]
        /\ Len(s) = p - case.prompts[r] + 1
    BY <1>2, <1>5, <2>1
  <2>3. DraftStart(case, seed, forced, s)
    BY <1>2, <1>6, <1>7 DEF DraftStart
  <2>4. Begins(r, SpecRow(p, seed, forced, s), p, s, s)
    BY <1>2, <1>6, <2>2, <2>3, SpecRowIs
  <2>5. SpecRow(p, seed, forced, s).term = FALSE
    BY <1>2, <1>6, <2>2, <2>3, SpecRowIs
  <2> QED
    BY <1>8, <2>1, <2>4, <2>5 DEF Begins
<1>10. PICK ends \in BOOLEAN : ends = (case.stop[r] /\ seed = Eos)
  BY <1>5
<1>11. FirstSpecRow(r, seed, gen) =
         IF ends \/ gen <= 1 THEN [w EXCEPT !.st = "done", !.term = ends] ELSE w
  BY <1>1, <1>3, <1>5, <1>8, <1>10 DEF FirstSpecRow, Prompt
<1>12. CASE ends \/ gen <= 1
  <2>1. PICK v : v = [w EXCEPT !.st = "done", !.term = ends]
    OBVIOUS
  <2>2. /\ v \in RowType /\ v.st = "done" /\ v.term = ends /\ v.prefix = case.prompts[r]
        /\ v.emitted = s /\ v.seed = w.seed
    BY <1>9, <2>1 DEF RowType
  <2>3. Clean(case.stop[r], s)
    BY <1>2, TokensSeq DEF Clean
  <2>4. w.seed = seed
    BY <1>8 DEF SpecRow
  <2>5. GoesOn(case, next, v, 0, s)
    BY <1>2, <2>2, <2>4 DEF GoesOn, Tip
  <2>6. v.prefix - case.prompts[r] = 0
    BY <1>5, <2>2
  <2>7. ends => case.stop[r] /\ \E i \in 1..Len(s) : s[i] = Eos
    <3>1. 1 \in 1..Len(s)
      BY <1>2
    <3> QED
      BY <1>2, <1>10, <3>1, Zenon
  <2>8. case.path # "online" => ends \/ Len(s) >= case.gens[r]
    BY <1>2, <1>5, <1>12
  <2>9. DoneOK(case, next, r, v, s)
    BY <1>5, <2>2, <2>3, <2>5, <2>6, <2>7, <2>8 DEF DoneOK
  <2> QED
    BY <1>1, <1>11, <1>12, <2>1, <2>2, <2>9
<1>13. CASE ~(ends \/ gen <= 1)
  BY <1>1, <1>9, <1>11, <1>13
<1> QED
  BY <1>12, <1>13

-----------------------------------------------------------------------------
(* Steps.                                                                  *)

LEMMA SampleIs ==
  ASSUME NEW t
  PROVE  Sample(t) = Follow(next, t)
BY DEF Sample, Follow

LEMMA JoinMore ==
  ASSUME NEW S, NEW a \in Seq(S), NEW b \in Seq(S), NEW d \in Seq(S)
  PROVE  (a \o b) \o d = a \o (b \o d) /\ <<>> \o a = a /\ a \o <<>> = a
OBVIOUS

\* A row r of a launch: w is its state, k its keys and values, s its output.
Launch(r, w, k, base, s) ==
  /\ case \in Cases /\ next \in [Tokens -> Tokens] /\ r \in Rows
  /\ w \in RowType /\ k \in Seq(Gen) /\ Len(k) = Width(r)
  /\ base \in Seq(Tokens) /\ (~Online => base = <<>>)
  /\ s = base \o w.emitted
  /\ RunOK(case, next, r, w, k, s)
  /\ w.st # "done"

LEMMA LaunchIs ==
  ASSUME NEW r, NEW w, NEW k, NEW base, NEW s, Launch(r, w, k, base, s)
  PROVE  /\ ActiveOK(case, next, r, w, s)
         /\ Chain(case, next, s) /\ InTime(case, s)
         /\ Holds(k, case.prompts[r], w.prefix - case.prompts[r], s)
         /\ w.emitted \in Seq(Tokens) /\ s \in Seq(Tokens) /\ s \in Seq(Gen)
         /\ w.prefix \in Nat /\ w.prefix - case.prompts[r] \in Nat
         /\ w.block \in [Pos -> Gen] /\ w.block \in Seq(Gen) /\ FullBlock(w.block)
         /\ w.forced \in {0, 1} /\ w.term \in BOOLEAN
         /\ case.prompts[r] \in Nat /\ case.gens[r] \in Nat /\ case.stop[r] \in BOOLEAN
         /\ w.prefix - case.prompts[r] <= case.gens[r]
         /\ case.prompts[r] + (w.prefix - case.prompts[r]) + L <= Len(k)
<1>1. ActiveOK(case, next, r, w, s)
  BY DEF Launch, RunOK, DoneOK
<1>2. /\ Chain(case, next, s) /\ InTime(case, s)
      /\ Holds(k, case.prompts[r], w.prefix - case.prompts[r], s)
  BY DEF Launch, RunOK
<1>3. w.emitted \in Seq(Tokens) /\ w.prefix >= case.prompts[r]
      /\ w.prefix <= case.prompts[r] + case.gens[r]
  BY <1>1 DEF ActiveOK
<1>4. s \in Seq(Tokens)
  BY <1>3, JoinIs DEF Launch
<1>5. s \in Seq(Gen)
  BY <1>4, TokensSeq
<1>6. /\ w.prefix \in Nat /\ w.block \in [Pos -> Gen] /\ w.forced \in {0, 1} /\ w.term \in BOOLEAN
  BY DEF Launch, RowType
<1>7. w.block \in Seq(Gen) /\ FullBlock(w.block)
  BY <1>6, BlockSeq
<1>8. case.prompts[r] \in Nat /\ case.gens[r] \in Nat /\ case.stop[r] \in BOOLEAN
  BY CaseIs DEF Launch, Rows
<1>9. /\ w.prefix - case.prompts[r] \in Nat /\ w.prefix - case.prompts[r] <= case.gens[r]
  BY <1>3, <1>6, <1>8
<1>10. Len(k) = case.prompts[r] + case.gens[r] + 2 * L
  BY DEF Launch, Width, Prompt
<1>11. case.prompts[r] + (w.prefix - case.prompts[r]) + L <= Len(k)
  BY <1>3, <1>6, <1>8, <1>10, BlockLength
<1> QED
  BY <1>1, <1>2, <1>3, <1>4, <1>5, <1>6, <1>7, <1>8, <1>9, <1>11

\* What a forward pass writes for the block, whatever of it is kept.
LEMMA LaunchWrites ==
  ASSUME NEW r, NEW w, NEW k, NEW base, NEW s, Launch(r, w, k, base, s),
         NEW u \in Seq(Gen), NEW m \in Nat, m <= L,
         Fits(u, s, w.prefix - case.prompts[r], w.block, m)
  PROVE  /\ Holds(Wrote(k, w.prefix, w.block), case.prompts[r], (w.prefix - case.prompts[r]) + m, u)
         /\ Wrote(k, w.prefix, w.block) \in Seq(Gen)
         /\ DOMAIN Wrote(k, w.prefix, w.block) = DOMAIN k
<1>1. PICK n \in Nat : n = w.prefix - case.prompts[r]
  BY LaunchIs
<1>2. PICK P \in Nat : P = case.prompts[r]
  BY LaunchIs
<1>3. PICK b \in Seq(Gen) : b = w.block
  BY LaunchIs
<1>4. FullBlock(b) /\ Holds(k, P, n, s) /\ s \in Seq(Gen) /\ w.prefix = P + n /\ k \in Seq(Gen)
  <2>1. w.prefix \in Nat /\ s \in Seq(Gen) /\ FullBlock(w.block)
    BY LaunchIs
  <2>2. Holds(k, case.prompts[r], w.prefix - case.prompts[r], s)
    BY LaunchIs
  <2>3. k \in Seq(Gen)
    BY DEF Launch
  <2> QED
    BY <1>1, <1>2, <1>3, <2>1, <2>2, <2>3
<1>5. P + n + m <= Len(k)
  <2>1. P + n + L <= Len(k)
    BY <1>1, <1>2, LaunchIs
  <2>2. Len(k) \in Nat
    BY <1>4
  <2> QED
    BY <2>1, <2>2, BlockLength
<1>6. Fits(u, s, n, b, m)
  BY <1>1, <1>3
<1>7. Holds(Wrote(k, P + n, b), P, n + m, u)
  BY <1>4, <1>5, <1>6, HoldsWrite
<1>8. PICK from \in Nat : from = P + n
  BY <1>1
<1>9. Wrote(k, from, b) \in Seq(Gen) /\ DOMAIN Wrote(k, from, b) = DOMAIN k
  BY <1>4, WroteIs
<1> QED
  BY <1>1, <1>2, <1>3, <1>4, <1>7, <1>8, <1>9

\* A row that a step does not touch.
SameRow(q) ==
  /\ case' = case /\ next' = next
  /\ row'[q] = row[q] /\ kv'[q] = kv[q] /\ out'[q] = out[q] /\ fin'[q] = fin[q]
  /\ filled'[q] = filled[q] /\ seeds'[q] = seeds[q] /\ prefixes'[q] = prefixes[q]
  /\ blocks'[q] = blocks[q] /\ acquired'[q] = acquired[q] /\ reserve'[q] = reserve[q]
  /\ q \in called' <=> q \in called

LEMMA RowKept ==
  ASSUME NEW q, SameRow(q), RowInv(q)
  PROVE  RowInv(q)'
<1>1. (Online' <=> Online) /\ (Speculative' <=> Speculative) /\ Prompt(q)' = Prompt(q)
  BY DEF SameRow, Online, Speculative, Prompt
<1>2. Known(q)' = Known(q) /\ Start(q)' = Start(q)
  BY <1>1 DEF SameRow, Known, Start, BlockPrefix
<1>3. RunningRow(q) => RunningRow(q)'
  BY <1>1, <1>2, Zenon DEF SameRow, RunningRow
<1>4. WaitingRow(q) => WaitingRow(q)'
  BY <1>1, <1>2, Zenon DEF SameRow, WaitingRow
<1>5. PrefillingRow(q) => PrefillingRow(q)'
  BY <1>1 DEF SameRow, PrefillingRow
<1>6. FreshRow(q) => FreshRow(q)'
  BY DEF SameRow, FreshRow
<1> QED
  BY <1>1, <1>2, <1>3, <1>4, <1>5, <1>6, Zenon DEF SameRow, RowInv

-----------------------------------------------------------------------------
(* The loops, for one row.                                                 *)

\* Denoising decides masked positions only.
LEMMA DenoisedBlock ==
  ASSUME NEW b \in [Pos -> Gen], NEW conf, NEW p \in [Transfer(b, conf) -> Gen]
  PROVE  /\ Step(b, p) \in [Pos -> Gen]
         /\ \A i \in Pos : b[i] # Mask => Step(b, p)[i] = b[i]
<1>1. \A i \in DOMAIN p : i \in Pos /\ b[i] = Mask /\ p[i] \in Gen
  BY DEF Transfer, Masked
<1>2. PICK d : d = Step(b, p)
  OBVIOUS
<1>3. d = [i \in Pos |-> IF i \in DOMAIN p THEN p[i] ELSE b[i]]
  BY <1>2 DEF Step
<1>4. d \in [Pos -> Gen] /\ \A i \in Pos : b[i] # Mask => d[i] = b[i]
  BY <1>1, <1>3
<1> QED
  BY <1>2, <1>4

LEMMA DenoiseKeeps ==
  ASSUME NEW r, NEW w, NEW k, NEW base, NEW s, Launch(r, w, k, base, s), w.st = "denoise",
         NEW b \in [Pos -> Gen], \A i \in Pos : w.block[i] # Mask => b[i] = w.block[i],
         NEW term \in BOOLEAN, term = (~Speculative /\ case.stop[r] /\ EosTerminal(b)),
         NEW steps \in Nat,
         NEW st, st = IF Masked(b) = {} \/ term THEN (IF Speculative THEN "verify" ELSE "commit")
                                               ELSE "denoise",
         NEW v \in RowType, v.st = st, v.block = b, v.term = term, v.prefix = w.prefix,
         v.emitted = w.emitted, v.forced = w.forced
  PROVE  ActiveOK(case, next, r, v, s)
<1>1. PICK n \in Nat : n = w.prefix - case.prompts[r]
  BY LaunchIs
<1>2. ActiveOK(case, next, r, w, s)
  BY LaunchIs
<1>3. case.mode \in {"block", "spec"} /\ (Speculative <=> case.mode = "spec")
  BY CaseIs DEF Launch, Speculative
<1>4. case.mode = "block" => BlockActive(case, next, v, n, s)
  <2> SUFFICES ASSUME case.mode = "block" PROVE BlockActive(case, next, v, n, s)
    OBVIOUS
  <2>1. BlockActive(case, next, w, n, s)
    BY <1>1, <1>2 DEF ActiveOK
  <2>2. b[1] = w.block[1]
    BY <2>1, BlockLength DEF BlockActive
  <2>3. BlockInTime(case, s, b)
    <3>1. \A j \in Pos : w.block[j] = End => b[j] = End
      BY MaskApart
    <3>2. BlockInTime(case, s, w.block)
      BY <2>1 DEF BlockActive
    <3> QED
      BY <3>1, <3>2 DEF BlockInTime
  <2> QED
    BY <2>1, <2>2, <2>3 DEF BlockActive
<1>5. case.mode = "spec" => SpecActive(case, v, n, s)
  <2> SUFFICES ASSUME case.mode = "spec" PROVE SpecActive(case, v, n, s)
    OBVIOUS
  <2>1. SpecActive(case, w, n, s)
    BY <1>1, <1>2 DEF ActiveOK
  <2>2. b[1] = w.block[1]
    <3>1. s \in Seq(Tokens)
      BY LaunchIs
    <3>2. Len(s) = n + 1 /\ w.block[1] = s[n + 1]
      BY <2>1 DEF SpecActive
    <3>3. n + 1 \in 1..Len(s)
      BY <3>2
    <3>4. s[n + 1] # Mask
      BY <3>1, <3>3, TokensSeq
    <3> QED
      BY <3>2, <3>4, BlockLength
  <2>3. w.forced = 1 => b[2] = End
    <3> SUFFICES ASSUME w.forced = 1 PROVE b[2] = End
      OBVIOUS
    <3>1. L > 1 /\ w.block[2] = End
      BY <2>1 DEF SpecActive
    <3>2. 2 \in Pos
      BY <3>1, BlockLength DEF Pos
    <3> QED
      BY <3>1, <3>2, MaskApart
  <2> QED
    BY <2>1, <2>2, <2>3 DEF SpecActive
<1>6. st \in {"denoise", "commit", "verify"}
  OBVIOUS
<1>7. st = "verify" => case.mode = "spec" /\ Masked(b) = {}
  BY <1>3
<1>8. st = "commit" => case.mode = "block" /\ (Masked(b) = {} \/ term)
  BY <1>3
<1>9. term => case.mode = "block" /\ case.stop[r] /\ EosTerminal(b)
  BY <1>3
<1>10. /\ w.emitted \in Seq(Tokens) /\ w.prefix >= case.prompts[r]
       /\ w.prefix <= case.prompts[r] + case.gens[r]
  BY <1>2 DEF ActiveOK
<1> QED
  BY <1>1, <1>4, <1>5, <1>6, <1>7, <1>8, <1>9, <1>10 DEF ActiveOK

LEMMA TipOfJoin ==
  ASSUME NEW a \in Seq(Gen), NEW b \in Seq(Gen), Len(b) > 0
  PROVE  Tip(a \o b) = b[Len(b)]
<1>1. Len(a \o b) = Len(a) + Len(b) /\ Len(a) \in Nat /\ Len(b) \in Nat
  BY JoinIs
<1>2. (a \o b)[Len(a) + Len(b)] = b[Len(b)]
  <2>1. Len(b) \in 1..Len(b)
    BY <1>1
  <2> QED
    BY <2>1, JoinIs
<1>3. Len(a) + Len(b) # 0
  BY <1>1
<1> QED
  BY <1>1, <1>2, <1>3 DEF Tip

\* The output after a block.
LEMMA CommitOutput ==
  ASSUME NEW r, NEW w, NEW k, NEW base, NEW s, Launch(r, w, k, base, s), w.st = "commit"
  PROVE  /\ Chain(case, next, s \o w.block) /\ InTime(case, s \o w.block)
         /\ Fits(s \o w.block, s, w.prefix - case.prompts[r], w.block, L)
         /\ s \o w.block = base \o (w.emitted \o w.block)
         /\ s \o w.block \in Seq(Gen) /\ Len(s \o w.block) = (w.prefix - case.prompts[r]) + L
         /\ Tip(s \o w.block) = w.block[L]
<1>1. PICK n \in Nat : n = w.prefix - case.prompts[r]
  BY LaunchIs
<1>2. PICK b \in Seq(Gen) : b = w.block
  BY LaunchIs
<1>3. case \in Cases /\ s \in Seq(Gen) /\ Chain(case, next, s) /\ InTime(case, s)
  BY LaunchIs DEF Launch
<1>4. FullBlock(b)
  BY <1>2, LaunchIs
<1>5. case.mode = "block" /\ BlockActive(case, next, w, n, s)
  <2>1. ActiveOK(case, next, r, w, s)
    BY LaunchIs
  <2> QED
    BY <1>1, <2>1 DEF ActiveOK
<1>6. PICK q \in Nat : n = q * L
  BY <1>5 DEF BlockActive
<1>7. Len(s) = n /\ (b[1] = Follow(next, Tip(s)) \/ (b[1] = End /\ DueNext(case, s)))
  BY <1>2, <1>5 DEF BlockActive
<1>8. L \in Nat /\ Len(b) = L /\ L > 0
  BY <1>4, BlockLength DEF FullBlock
<1>9. \A j \in 1..Len(b) : case.mode = "spec" \/ (Len(s) + j) % L = 1 =>
            \/ b[j] = Follow(next, IF j = 1 THEN Tip(s) ELSE b[j - 1])
            \/ j = 1 /\ b[j] = End /\ DueNext(case, s)
  <2> SUFFICES ASSUME NEW j \in 1..Len(b), (Len(s) + j) % L = 1
               PROVE  \/ b[j] = Follow(next, IF j = 1 THEN Tip(s) ELSE b[j - 1])
                      \/ j = 1 /\ b[j] = End /\ DueNext(case, s)
    BY <1>5
  <2>1. j \in Pos /\ (q * L + j) % L = 1
    BY <1>6, <1>7, <1>8 DEF Pos
  <2>2. j = 1
    BY <2>1, ModStart
  <2> QED
    BY <1>7, <2>2
<1>10. Chain(case, next, s \o b)
  BY <1>3, <1>9, ChainJoin
<1>11. InTime(case, s \o b)
  <2>1. BlockInTime(case, s, b)
    BY <1>2, <1>5 DEF BlockActive
  <2> QED
    BY <1>3, <1>4, <1>5, <2>1, InTimeBlock
<1>12. /\ s \o b \in Seq(Gen) /\ Len(s \o b) = Len(s) + Len(b)
       /\ \A i \in 1..Len(s) : (s \o b)[i] = s[i]
       /\ \A j \in 1..Len(b) : (s \o b)[Len(s) + j] = b[j]
  BY <1>3, JoinIs
<1>13. Fits(s \o b, s, n, b, L)
  BY <1>7, <1>8, <1>12 DEF Fits
<1>14. s \o b = base \o (w.emitted \o b)
  <2>1. w.emitted \in Seq(Gen) /\ base \in Seq(Gen) /\ s = base \o w.emitted
    BY LaunchIs, TokensSeq DEF Launch
  <2>2. PICK e \in Seq(Gen) : e = w.emitted
    BY <2>1
  <2>3. (base \o e) \o b = base \o (e \o b)
    BY <2>1, JoinMore
  <2> QED
    BY <2>1, <2>2, <2>3
<1>15. Tip(s \o b) = b[L]
  BY <1>3, <1>8, TipOfJoin
<1>16. Len(s \o b) = n + L
  BY <1>7, <1>8, <1>12
<1> QED
  BY <1>1, <1>2, <1>10, <1>11, <1>12, <1>13, <1>14, <1>15, <1>16

\* The row a commit leaves.
CommitRow(r, w) ==
  LET prefix == w.prefix + L
      emitted == w.emitted \o w.block
      seed == Sample(w.block[L])
  IN IF w.term \/ Len(emitted) \div L >= BlockBudget(r)
     THEN [w EXCEPT !.st = "done", !.prefix = prefix, !.seed = seed, !.emitted = emitted]
     ELSE BlockRow(r, prefix, seed, emitted, emitted)

LEMMA CommitClean ==
  ASSUME NEW e \in Seq(Tokens), NEW b \in Seq(Gen), FullBlock(b), NEW stop \in BOOLEAN, NEW term \in BOOLEAN,
         Masked(b) = {} \/ term, term => stop /\ EosTerminal(b)
  PROVE  /\ Clean(stop, e \o b)
         /\ ~term => e \o b \in Seq(Tokens)
         /\ term => \E i \in 1..Len(e \o b) : (e \o b)[i] = Eos
<1>1. PICK a \in Seq(Gen) : a = e
  BY TokensSeq
<1>2. PICK u : u = a \o b
  OBVIOUS
<1>3. /\ u \in Seq(Gen) /\ Len(u) = Len(a) + Len(b) /\ Len(a) \in Nat /\ Len(b) \in Nat
      /\ \A i \in 1..Len(a) : u[i] = a[i]
      /\ \A j \in 1..Len(b) : u[Len(a) + j] = b[j]
  BY <1>2, JoinIs
<1>4. \A i \in 1..Len(a) : u[i] # Mask
  BY <1>1, <1>3, TokensSeq
<1>5. Pos = 1..Len(b)
  BY DEF FullBlock, Pos
<1>6. ASSUME Masked(b) = {}
      PROVE  \A i \in 1..Len(u) : u[i] # Mask
  <2>1. \A j \in 1..Len(b) : b[j] # Mask
    BY <1>5, <1>6 DEF Masked
  <2> TAKE i \in 1..Len(u)
  <2>2. i \in 1..Len(a) \/ \E j \in 1..Len(b) : i = Len(a) + j
    <3>1. i \in 1..(Len(a) + Len(b)) /\ Len(a) \in Nat /\ Len(b) \in Nat
      BY <1>3
    <3> QED
      BY <3>1, JoinAt
  <2> QED
    BY <1>3, <1>4, <2>1, <2>2
<1>7. ASSUME EosTerminal(b)
      PROVE  \E p \in 1..Len(u) : u[p] = Eos /\ \A i \in 1..(p - 1) : u[i] # Mask
  <2>1. PICK j \in 1..Len(b) : b[j] = Eos /\ \A i \in 1..(j - 1) : b[i] # Mask
    BY <1>5, <1>7 DEF EosTerminal
  <2>2. Len(a) + j \in 1..Len(u) /\ u[Len(a) + j] = Eos
    BY <1>3, <2>1
  <2>3. \A i \in 1..(Len(a) + j - 1) : u[i] # Mask
    <3> TAKE i \in 1..(Len(a) + j - 1)
    <3>1. j \in Nat /\ j >= 1 /\ j <= Len(b)
      BY <1>3
    <3>2. i \in 1..Len(a) \/ i - Len(a) \in 1..(j - 1)
      BY <1>3, <3>1
    <3>3. CASE i - Len(a) \in 1..(j - 1)
      <4>1. PICK d \in 1..(j - 1) : d = i - Len(a)
        BY <3>3
      <4>2. d \in 1..Len(b) /\ i = Len(a) + d
        BY <1>3, <3>1, <4>1
      <4> QED
        BY <1>3, <2>1, <4>2
    <3> QED
      BY <1>4, <3>2, <3>3
  <2> QED
    BY <2>2, <2>3
<1>8. Clean(stop, u)
  <2>1. CASE Masked(b) = {}
    BY <1>6, <2>1 DEF Clean
  <2>2. CASE term
    <3>1. PICK p \in 1..Len(u) : u[p] = Eos /\ \A i \in 1..(p - 1) : u[i] # Mask
      BY <1>7, <2>2
    <3> SUFFICES ASSUME NEW i \in 1..Len(u), u[i] = Mask
                 PROVE  stop /\ \E j \in 1..(i - 1) : u[j] = Eos
      BY DEF Clean
    <3>2. i # p
      BY <3>1, MaskApart
    <3>3. p \in 1..(i - 1)
      BY <1>3, <3>1, <3>2
    <3> QED
      BY <2>2, <3>1, <3>3
  <2> QED
    BY <2>1, <2>2
<1>9. ~term => u \in Seq(Tokens)
  BY <1>3, <1>6, SeqTokens
<1> QED
  BY <1>1, <1>2, <1>7, <1>8, <1>9

LEMMA CommitKeeps ==
  ASSUME NEW r, NEW w, NEW k, NEW base, NEW s, Launch(r, w, k, base, s), w.st = "commit",
         NEW v, v = CommitRow(r, w)
  PROVE  /\ v \in RowType
         /\ RunOK(case, next, r, v, Wrote(k, w.prefix, w.block), base \o v.emitted)
         /\ Online => v.st = "done" /\ v.prefix = w.prefix + L
<1>1. PICK n \in Nat : n = w.prefix - case.prompts[r]
  BY LaunchIs
<1>2. PICK b \in Seq(Gen) : b = w.block
  BY LaunchIs
<1>3. PICK u : u = s \o b
  OBVIOUS
<1>4. /\ Chain(case, next, u) /\ InTime(case, u) /\ Fits(u, s, n, b, L)
      /\ u = base \o (w.emitted \o b) /\ u \in Seq(Gen) /\ Len(u) = n + L
      /\ Tip(u) = b[L]
  BY <1>1, <1>2, <1>3, CommitOutput, ZenonT(40)
<1>5. /\ case \in Cases /\ next \in [Tokens -> Tokens] /\ r \in Rows /\ w \in RowType
      /\ base \in Seq(Tokens) /\ (~Online => base = <<>>) /\ s = base \o w.emitted
  BY DEF Launch
<1>6. /\ case.prompts[r] \in Nat /\ case.gens[r] \in Nat /\ case.stop[r] \in BOOLEAN
      /\ w.prefix \in Nat /\ w.term \in BOOLEAN /\ L \in Nat /\ L > 0 /\ Len(b) = L
      /\ b \in [Pos -> Gen] /\ FullBlock(b)
  BY <1>2, LaunchIs, BlockLength DEF FullBlock
<1>7. case.mode = "block" /\ (Masked(b) = {} \/ w.term) /\ (w.term => case.stop[r] /\ EosTerminal(b))
  <2>1. ActiveOK(case, next, r, w, s)
    BY LaunchIs
  <2> QED
    BY <1>2, <2>1 DEF ActiveOK
<1>8. PICK e \in Seq(Tokens) : e = w.emitted
  BY LaunchIs
<1>9. PICK e2 : e2 = e \o b
  OBVIOUS
<1>10. /\ Clean(case.stop[r], e2) /\ (~w.term => e2 \in Seq(Tokens))
       /\ w.term => \E i \in 1..Len(e2) : e2[i] = Eos
  BY <1>6, <1>7, <1>9, CommitClean
<1>11. e2 \in Seq(Gen) /\ Len(e2) = Len(e) + L /\ Len(e) \in Nat
  <2>1. e \in Seq(Gen)
    BY TokensSeq
  <2> QED
    BY <1>6, <1>9, <2>1, JoinIs
<1>12. u = base \o e2
  BY <1>4, <1>8, <1>9
<1>13. PICK p \in Nat : p = w.prefix + L
  BY <1>6
<1>14. p - case.prompts[r] = n + L /\ p >= case.prompts[r]
  BY <1>1, <1>6, <1>13
<1>15. Holds(Wrote(k, w.prefix, w.block), case.prompts[r], p - case.prompts[r], u)
  <2>1. L \in Nat /\ L <= L /\ Fits(u, s, w.prefix - case.prompts[r], w.block, L)
    BY <1>1, <1>2, <1>4, <1>6
  <2>2. Holds(Wrote(k, w.prefix, w.block), case.prompts[r], (w.prefix - case.prompts[r]) + L, u)
    BY <1>4, <2>1, LaunchWrites
  <2> QED
    BY <1>1, <1>14, <2>2
<1>16. PICK seed : seed = Sample(b[L])
  OBVIOUS
<1>17. seed = Follow(next, Tip(u)) /\ seed \in Tokens
  <2>1. b[L] \in Gen
    BY <1>6, BlockLength
  <2> QED
    BY <1>4, <1>5, <1>16, <2>1, SampleIs, FollowIs
<1>18. v = IF w.term \/ Len(e2) \div L >= BlockBudget(r)
           THEN [w EXCEPT !.st = "done", !.prefix = p, !.seed = seed, !.emitted = e2]
           ELSE BlockRow(r, p, seed, e2, e2)
  BY <1>2, <1>8, <1>9, <1>13, <1>16 DEF CommitRow
<1>19. ~Online => u = e2 /\ s = e
  <2>1. e \in Seq(Gen)
    BY TokensSeq
  <2>2. <<>> \o e2 = e2 /\ <<>> \o e = e
    BY <1>11, <2>1, JoinMore
  <2> QED
    BY <1>5, <1>8, <1>12, <2>2
<1>20. PICK q \in Nat : n = q * L /\ Len(s) = n
  <2>1. ActiveOK(case, next, r, w, s)
    BY LaunchIs
  <2>2. BlockActive(case, next, w, n, s)
    BY <1>1, <1>7, <2>1 DEF ActiveOK
  <2> QED
    BY <2>2 DEF BlockActive
<1>21. n + L = (q + 1) * L /\ q + 1 \in Nat
  <2>1. L \in Nat
    BY BlockLength
  <2>2. (q + 1) * L = q * L + L
    BY <2>1
  <2> QED
    BY <1>20, <2>2
<1>22. CASE w.term \/ Len(e2) \div L >= BlockBudget(r)
  <2>1. v = [w EXCEPT !.st = "done", !.prefix = p, !.seed = seed, !.emitted = e2]
    BY <1>18, <1>22
  <2>2. /\ v \in RowType /\ v.st = "done" /\ v.prefix = p /\ v.seed = seed /\ v.emitted = e2
        /\ v.term = w.term
    BY <1>5, <1>11, <1>13, <1>17, <2>1 DEF RowType, Gen
  <2>3. ~w.term => GoesOn(case, next, v, p - case.prompts[r], u)
    BY <1>4, <1>7, <1>10, <1>14, <1>17, <2>2 DEF GoesOn
  <2>4. case.path # "online" => w.term \/ Len(e2) >= case.gens[r]
    <3> SUFFICES ASSUME case.path # "online", ~w.term PROVE Len(e2) >= case.gens[r]
      OBVIOUS
    <3>1. Len(e2) = (q + 1) * L
      BY <1>4, <1>19, <1>21 DEF Online
    <3>2. Len(e2) \div L = q + 1
      BY <1>6, <1>21, <3>1, BlocksCover
    <3>3. q + 1 >= (case.gens[r] + L - 1) \div L
      BY <1>22, <3>2 DEF BlockBudget, Online
    <3> QED
      BY <1>6, <1>21, <3>1, <3>3, BlocksCover
  <2>5. DoneOK(case, next, r, v, u)
    BY <1>7, <1>10, <1>14, <2>2, <2>3, <2>4 DEF DoneOK
  <2>6. RunOK(case, next, r, v, Wrote(k, w.prefix, w.block), u)
    BY <1>4, <1>15, <2>2, <2>5 DEF RunOK
  <2> QED
    BY <1>12, <1>13, <2>2, <2>6
<1>23. CASE ~(w.term \/ Len(e2) \div L >= BlockBudget(r))
  <2>1. ~Online
    <3> SUFFICES ASSUME Online PROVE FALSE
      OBVIOUS
    <3>1. ~(Len(e2) \div L >= 1)
      BY <1>23 DEF BlockBudget
    <3>2. Len(e2) >= L
      BY <1>6, <1>11
    <3>3. Len(e2) \div L >= 1
      <4>1. Len(e2) \in Nat
        BY <1>11
      <4> QED
        BY <3>2, <4>1, WholeBlock
    <3> QED
      BY <3>1, <3>3
  <2>2. u = e2 /\ e2 \in Seq(Tokens) /\ ~w.term
    BY <1>10, <1>19, <1>23, <2>1
  <2>3. Len(e2) = (q + 1) * L /\ Len(e2) = n + L
    BY <1>4, <1>21, <2>2
  <2>4. p <= case.prompts[r] + case.gens[r]
    <3>1. Len(e2) \div L = q + 1
      BY <1>6, <1>21, <2>3, BlocksCover
    <3>2. ~(q + 1 >= (case.gens[r] + L - 1) \div L)
      BY <1>23, <2>1, <3>1 DEF BlockBudget
    <3>3. (q + 1) * L <= case.gens[r]
      BY <1>6, <1>21, <3>2, BlocksCover
    <3> QED
      BY <1>6, <1>14, <1>21, <3>3
  <2>5. Len(e2) = p - case.prompts[r]
    BY <1>14, <2>3
  <2>6. seed = Follow(next, Tip(e2)) /\ InTime(case, e2)
    BY <1>4, <1>17, <2>2
  <2>7. Begins(r, BlockRow(r, p, seed, e2, e2), p, e2, e2)
    BY <1>5, <1>7, <1>14, <1>21, <2>2, <2>3, <2>4, <2>5, <2>6, BlockRowIs
  <2>8. v \in RowType /\ v.prefix = p /\ v.emitted = e2 /\ ActiveOK(case, next, r, v, u)
    BY <1>18, <1>23, <2>2, <2>7 DEF Begins
  <2>9. RunOK(case, next, r, v, Wrote(k, w.prefix, w.block), u)
    BY <1>4, <1>15, <2>8 DEF RunOK
  <2> QED
    BY <1>12, <2>1, <2>8, <2>9
<1> QED
  BY <1>22, <1>23

\* The row a verification leaves.
VerifyRow(r, w) ==
  LET verified == [i \in Pos |-> Sample(w.block[i])]
      tokens == AcceptedTokens(verified, w.block, w.forced)
      prefix == Advance(w, tokens)
      seed == tokens[Len(tokens)]
      emitted == w.emitted \o UntilEos(tokens, case.stop[r])
      term == case.stop[r] /\ Eos \in Range(tokens)
  IN IF term \/ Online \/ Len(emitted) >= case.gens[r]
     THEN [w EXCEPT !.st = "done", !.prefix = prefix, !.seed = seed,
                    !.emitted = emitted, !.term = term, !.forced = 0]
     ELSE SpecRow(prefix, seed, Forced(emitted), emitted)

\* Drafts start as the output says.
LEMMA ForcedDraft ==
  ASSUME case \in Cases, NEW s \in Seq(Tokens), Len(s) > 0, NEW seed, seed = s[Len(s)]
  PROVE  Forced(s) \in {0, 1} /\ DraftStart(case, seed, Forced(s), s)
<1>1. s \in Seq(Gen) /\ Len(s) \in Nat /\ case.think \in Int
  BY TokensSeq, CaseIs
<1>2. PICK f : f = Forced(s)
  OBVIOUS
<1>3. f \in {0, 1}
  BY <1>1, <1>2, SatisfiedIs
<1>4. f = 1 => case.think >= 0 /\ Len(s) > case.think /\ \A i \in 1..Len(s) : s[i] # End
  BY <1>1, <1>2, SatisfiedIs
<1>5. f = 0 /\ case.think >= 0 => ~(Len(s) > case.think) \/ \E i \in 1..Len(s) : s[i] = End
  BY <1>1, <1>2, SatisfiedIs
<1>6. /\ Len(s) > case.think => Len(s) >= case.think
      /\ ~(Len(s) > case.think) => Len(s) <= case.think
  BY <1>1
<1>7. f = 1 => DueNext(case, s)
  BY <1>4, <1>6 DEF DueNext
<1> QED
  BY <1>2, <1>3, <1>5, <1>6, <1>7 DEF DraftStart

LEMMA JoinPrefix ==
  ASSUME NEW a \in Seq(Gen), NEW b \in Seq(Gen), NEW d \in Seq(Gen), PrefixOf(d, b)
  PROVE  PrefixOf(a \o d, a \o b)
<1>1. /\ Len(a) \in Nat /\ Len(b) \in Nat /\ Len(d) \in Nat /\ Len(d) <= Len(b)
  BY DEF PrefixOf
<1>2. PICK u : u = a \o b
  OBVIOUS
<1>3. PICK v : v = a \o d
  OBVIOUS
<1>4. /\ Len(u) = Len(a) + Len(b)
      /\ \A i \in 1..Len(a) : u[i] = a[i]
      /\ \A j \in 1..Len(b) : u[Len(a) + j] = b[j]
  BY <1>2, JoinIs
<1>5. /\ Len(v) = Len(a) + Len(d)
      /\ \A i \in 1..Len(a) : v[i] = a[i]
      /\ \A j \in 1..Len(d) : v[Len(a) + j] = d[j]
  BY <1>3, JoinIs
<1>6. Len(v) <= Len(u)
  BY <1>1, <1>4, <1>5
<1>7. \A i \in 1..Len(v) : v[i] = u[i]
  <2> TAKE i \in 1..Len(v)
  <2>1. i \in 1..(Len(a) + Len(d))
    BY <1>5
  <2>2. i \in 1..Len(a) \/ \E j \in 1..Len(d) : i = Len(a) + j
    BY <1>1, <2>1, JoinAt
  <2>3. CASE i \in 1..Len(a)
    BY <1>4, <1>5, <2>3
  <2>4. CASE \E j \in 1..Len(d) : i = Len(a) + j
    <3>1. PICK j \in 1..Len(d) : i = Len(a) + j
      BY <2>4
    <3>2. j \in 1..Len(b) /\ d[j] = b[j]
      BY <1>1 DEF PrefixOf
    <3> QED
      BY <1>4, <1>5, <3>1, <3>2
  <2> QED
    BY <2>2, <2>3, <2>4
<1> QED
  BY <1>2, <1>3, <1>6, <1>7 DEF PrefixOf

\* What a verification accepts and what of it is emitted.
LEMMA VerifyTokens ==
  ASSUME NEW r, NEW w, NEW k, NEW base, NEW s, Launch(r, w, k, base, s), w.st = "verify",
         NEW t, t = AcceptedTokens([i \in Pos |-> Sample(w.block[i])], w.block, w.forced)
  PROVE  /\ case.mode = "spec" /\ SpecActive(case, w, w.prefix - case.prompts[r], s)
         /\ t \in Seq(Tokens) /\ Len(t) >= 1 /\ Len(t) <= L
         /\ Chain(case, next, s \o t) /\ InTime(case, s \o t)
         /\ Fits(s \o t, s, w.prefix - case.prompts[r], w.block, Len(t))
<1>1. PICK n \in Nat : n = w.prefix - case.prompts[r]
  BY LaunchIs
<1>2. PICK b \in Seq(Gen) : b = w.block
  BY LaunchIs
<1>3. PICK forced \in {0, 1} : forced = w.forced
  BY LaunchIs
<1>4. case \in Cases /\ next \in [Tokens -> Tokens] /\ s \in Seq(Gen)
      /\ Chain(case, next, s) /\ InTime(case, s)
  BY LaunchIs DEF Launch
<1>5. b \in [Pos -> Gen]
  BY <1>2, LaunchIs
<1>6. case.mode = "spec" /\ SpecActive(case, w, n, s)
  <2>1. ActiveOK(case, next, r, w, s)
    BY LaunchIs
  <2> QED
    BY <1>1, <2>1 DEF ActiveOK
<1>7. /\ Len(s) = n + 1 /\ b[1] = s[n + 1]
      /\ forced = 1 => L > 1 /\ b[2] = End /\ DueNext(case, s)
      /\ forced = 0 /\ case.think >= 0 /\ ~ZeroBudget(case) =>
           Len(s) <= case.think \/ \E i \in 1..Len(s) : s[i] = End
  BY <1>2, <1>3, <1>6 DEF SpecActive
<1>8. [i \in Pos |-> Sample(w.block[i])] = [i \in Pos |-> Follow(next, b[i])]
  BY <1>2, SampleIs
<1>9. t = AcceptedTokens([i \in Pos |-> Follow(next, b[i])], b, forced)
  BY <1>2, <1>3, <1>8
<1>10. Accepts(next, b, forced, t)
  <2>1. forced = 1 => L > 1 /\ b[2] \in Tokens
    BY <1>7, MaskApart
  <2> QED
    BY <1>4, <1>5, <1>9, <2>1, AcceptedIs
<1>11. t \in Seq(Tokens) /\ Len(t) >= 1 /\ Len(t) <= L
  BY <1>10 DEF Accepts
<1>12. t \in Seq(Gen)
  BY <1>11, TokensSeq
<1>13. Chain(case, next, s \o t) /\ InTime(case, s \o t) /\ Fits(s \o t, s, n, b, Len(t))
  BY <1>4, <1>6, <1>7, <1>10, <1>12, VerifiedOutput
<1> QED
  BY <1>1, <1>2, <1>6, <1>11, <1>13

LEMMA VerifyKeeps ==
  ASSUME NEW r, NEW w, NEW k, NEW base, NEW s, Launch(r, w, k, base, s), w.st = "verify",
         NEW v, v = VerifyRow(r, w)
  PROVE  /\ v \in RowType
         /\ RunOK(case, next, r, v, Wrote(k, w.prefix, w.block), base \o v.emitted)
         /\ Online => v.st = "done" /\ v.prefix >= w.prefix /\ v.prefix <= w.prefix + L
<1>1. PICK n \in Nat : n = w.prefix - case.prompts[r]
  BY LaunchIs
<1>2. PICK t : t = AcceptedTokens([i \in Pos |-> Sample(w.block[i])], w.block, w.forced)
  OBVIOUS
<1>3. /\ case.mode = "spec" /\ SpecActive(case, w, n, s)
      /\ t \in Seq(Tokens) /\ Len(t) >= 1 /\ Len(t) <= L
      /\ Chain(case, next, s \o t) /\ InTime(case, s \o t)
      /\ Fits(s \o t, s, n, w.block, Len(t))
  BY <1>1, <1>2, VerifyTokens
<1>4. t \in Seq(Gen) /\ Len(t) \in Nat /\ L \in Nat
  BY <1>3, TokensSeq, BlockLength
<1>5. /\ case \in Cases /\ next \in [Tokens -> Tokens] /\ r \in Rows /\ w \in RowType
      /\ base \in Seq(Tokens) /\ (~Online => base = <<>>) /\ s = base \o w.emitted
  BY DEF Launch
<1>6. /\ case.prompts[r] \in Nat /\ case.gens[r] \in Nat /\ case.stop[r] \in BOOLEAN
      /\ w.prefix \in Nat /\ s \in Seq(Tokens) /\ s \in Seq(Gen)
  BY LaunchIs
<1>7. PICK stop \in BOOLEAN : stop = case.stop[r]
  BY <1>6
<1>8. PICK t2 : t2 = UntilEos(t, stop)
  OBVIOUS
<1>9. PICK e \in Seq(Tokens) : e = w.emitted
  BY LaunchIs
<1>10. PICK term \in BOOLEAN : term = (stop /\ Eos \in Range(t))
  BY <1>7
<1>11. term <=> Stops(t, stop)
  BY <1>4, <1>10, InRange DEF Stops
<1>12. t2 \in Seq(Tokens) /\ PrefixOf(t2, t) /\ (~term => t2 = t)
       /\ (term => \E i \in 1..Len(t2) : t2[i] = Eos)
  <2>1. Clean(stop, t)
    BY <1>3, TokensSeq DEF Clean
  <2>2. t2 \in Seq(Tokens)
    BY <1>4, <1>8, <2>1, UntilClean
  <2>3. CASE ~term
    <3>1. t2 = t
      BY <1>4, <1>8, <1>11, <2>3, UntilEosIs
    <3> QED
      BY <1>4, <2>2, <2>3, <3>1 DEF PrefixOf
  <2>4. CASE term
    <3>1. PICK m \in 1..Len(t) : t2 = SubSeq(t, 1, m) /\ t[m] = Eos
      BY <1>4, <1>8, <1>11, <2>4, UntilEosIs
    <3>2. m \in Nat /\ m <= Len(t) /\ m \in 1..m
      BY <1>4
    <3>3. Len(t2) = m /\ \A i \in 1..m : t2[i] = t[i]
      BY <1>4, <3>1, <3>2, PartIs
    <3>4. PrefixOf(t2, t)
      BY <3>2, <3>3 DEF PrefixOf
    <3> QED
      BY <2>2, <2>4, <3>1, <3>2, <3>3, <3>4
  <2> QED
    BY <2>3, <2>4
<1>13. t2 \in Seq(Gen) /\ e \in Seq(Gen) /\ base \in Seq(Gen)
  BY <1>5, <1>12, TokensSeq
<1>14. PICK e2 : e2 = e \o t2
  OBVIOUS
<1>15. e2 \in Seq(Tokens) /\ Len(e2) = Len(e) + Len(t2) /\ Len(e) \in Nat /\ Len(t2) \in Nat
       /\ \A j \in 1..Len(t2) : e2[Len(e) + j] = t2[j]
  BY <1>12, <1>14, JoinIs
<1>16. e2 \in Seq(Gen)
  BY <1>15, TokensSeq
<1>17. PICK u : u = s \o t
  OBVIOUS
<1>18. PICK u2 : u2 = s \o t2
  OBVIOUS
<1>19. u \in Seq(Gen) /\ u2 \in Seq(Gen) /\ PrefixOf(u2, u) /\ u2 = base \o e2
  <2>1. u \in Seq(Gen) /\ u2 \in Seq(Gen)
    BY <1>4, <1>6, <1>13, <1>17, <1>18, JoinIs
  <2>2. PrefixOf(u2, u)
    BY <1>4, <1>6, <1>12, <1>13, <1>17, <1>18, JoinPrefix
  <2>3. (base \o e) \o t2 = base \o (e \o t2)
    BY <1>13, JoinMore
  <2> QED
    BY <1>5, <1>9, <1>14, <1>18, <2>1, <2>2, <2>3
<1>20. PICK p \in Nat : p = w.prefix + Len(t)
  BY <1>4, <1>6
<1>21. p - case.prompts[r] = n + Len(t) /\ p >= case.prompts[r]
  BY <1>1, <1>4, <1>6, <1>20
<1>22. Chain(case, next, u2) /\ InTime(case, u2)
  BY <1>3, <1>5, <1>17, <1>19, ChainPart, InTimePart
<1>23. Holds(Wrote(k, w.prefix, w.block), case.prompts[r], p - case.prompts[r], u2)
  <2>1. Fits(u, s, w.prefix - case.prompts[r], w.block, Len(t))
    BY <1>1, <1>3, <1>17
  <2>2. Holds(Wrote(k, w.prefix, w.block), case.prompts[r], (w.prefix - case.prompts[r]) + Len(t), u)
    BY <1>3, <1>4, <1>19, <2>1, LaunchWrites
  <2>3. PICK d \in Nat : d = p - case.prompts[r]
    BY <1>4, <1>21
  <2>4. Holds(Wrote(k, w.prefix, w.block), case.prompts[r], d, u)
    BY <1>1, <1>21, <2>2, <2>3
  <2>5. Holds(Wrote(k, w.prefix, w.block), case.prompts[r], d, u2)
    BY <1>19, <2>4, HoldsPart
  <2> QED
    BY <2>3, <2>5
<1>24. PICK seed : seed = t[Len(t)]
  OBVIOUS
<1>25. seed \in Tokens /\ Len(t) \in 1..Len(t)
  BY <1>3, <1>4, <1>24
<1>26. v = IF term \/ Online \/ Len(e2) >= case.gens[r]
           THEN [w EXCEPT !.st = "done", !.prefix = p, !.seed = seed,
                          !.emitted = e2, !.term = term, !.forced = 0]
           ELSE SpecRow(p, seed, Forced(e2), e2)
  BY <1>2, <1>7, <1>8, <1>9, <1>10, <1>14, <1>20, <1>24 DEF VerifyRow, Advance
<1>27. ~term => u2 = u /\ Len(u) = (n + Len(t)) + 1 /\ Tip(u) = seed
  <2> SUFFICES ASSUME ~term PROVE u2 = u /\ Len(u) = (n + Len(t)) + 1 /\ Tip(u) = seed
    OBVIOUS
  <2>1. u2 = u
    BY <1>12, <1>17, <1>18
  <2>2. Len(s) = n + 1
    BY <1>3 DEF SpecActive
  <2>3. Len(u) = Len(s) + Len(t)
    BY <1>4, <1>6, <1>17, JoinIs
  <2>4. Tip(u) = t[Len(t)]
    <3>1. Len(t) > 0
      BY <1>3, <1>4
    <3> QED
      BY <1>4, <1>6, <1>17, <3>1, TipOfJoin
  <2> QED
    BY <1>4, <1>24, <2>1, <2>2, <2>3, <2>4
<1>28. CASE term \/ Online \/ Len(e2) >= case.gens[r]
  <2>1. v = [w EXCEPT !.st = "done", !.prefix = p, !.seed = seed,
                      !.emitted = e2, !.term = term, !.forced = 0]
    BY <1>26, <1>28
  <2>2. /\ v \in RowType /\ v.st = "done" /\ v.prefix = p /\ v.seed = seed /\ v.emitted = e2
        /\ v.term = term
    BY <1>5, <1>16, <1>20, <1>25, <2>1 DEF RowType, Gen
  <2>3. ~term => GoesOn(case, next, v, p - case.prompts[r], u2)
    BY <1>3, <1>15, <1>21, <1>27, <2>2 DEF GoesOn
  <2>4. Clean(case.stop[r], e2)
    BY <1>15, TokensSeq DEF Clean
  <2>5. term => case.stop[r] /\ \E i \in 1..Len(e2) : e2[i] = Eos
    <3> SUFFICES ASSUME term PROVE case.stop[r] /\ \E i \in 1..Len(e2) : e2[i] = Eos
      OBVIOUS
    <3>1. PICK i \in 1..Len(t2) : t2[i] = Eos
      BY <1>12
    <3>2. Len(e) + i \in 1..Len(e2) /\ e2[Len(e) + i] = Eos
      BY <1>15, <3>1
    <3> QED
      BY <1>7, <1>10, <3>2
  <2>6. case.path # "online" => term \/ Len(e2) >= case.gens[r]
    BY <1>28 DEF Online
  <2>7. DoneOK(case, next, r, v, u2)
    BY <1>21, <2>2, <2>3, <2>4, <2>5, <2>6 DEF DoneOK
  <2>8. RunOK(case, next, r, v, Wrote(k, w.prefix, w.block), u2)
    BY <1>22, <1>23, <2>2, <2>7 DEF RunOK
  <2>9. p >= w.prefix /\ p <= w.prefix + L
    BY <1>3, <1>4, <1>6, <1>20
  <2> QED
    BY <1>19, <2>2, <2>8, <2>9
<1>29. CASE ~(term \/ Online \/ Len(e2) >= case.gens[r])
  <2>1. u2 = e2
    <3>1. <<>> \o e2 = e2
      BY <1>16, JoinMore
    <3> QED
      BY <1>5, <1>19, <1>29, <3>1
  <2>2. Len(e2) = (n + Len(t)) + 1 /\ Tip(e2) = seed /\ Len(e2) > 0
    BY <1>4, <1>27, <1>29, <2>1
  <2>3. seed = e2[Len(e2)]
    BY <2>2 DEF Tip
  <2>4. Forced(e2) \in {0, 1} /\ DraftStart(case, seed, Forced(e2), e2)
    BY <1>5, <1>15, <2>2, <2>3, ForcedDraft
  <2>5. PICK f \in {0, 1} : f = Forced(e2)
    BY <2>4
  <2>6. Len(e2) = p - case.prompts[r] + 1
    BY <1>21, <2>2
  <2>7. p <= case.prompts[r] + case.gens[r]
    BY <1>4, <1>6, <1>21, <1>29, <2>2
  <2>8. Begins(r, SpecRow(p, seed, f, e2), p, e2, e2)
    <3>1. DraftStart(case, seed, f, e2)
      BY <2>4, <2>5
    <3> QED
      BY <1>3, <1>5, <1>15, <1>21, <2>6, <2>7, <3>1, SpecRowIs
  <2>9. v \in RowType /\ v.prefix = p /\ v.emitted = e2 /\ ActiveOK(case, next, r, v, u2)
    BY <1>26, <1>29, <2>1, <2>5, <2>8 DEF Begins
  <2>10. RunOK(case, next, r, v, Wrote(k, w.prefix, w.block), u2)
    BY <1>22, <1>23, <2>9 DEF RunOK
  <2> QED
    BY <1>19, <1>29, <2>9, <2>10
<1> QED
  BY <1>28, <1>29

-----------------------------------------------------------------------------
(* The steps of a launch.                                                  *)

\* What is published of a row before its launch.
Base(r) == IF Online THEN out[r] ELSE <<>>

LEMMA StateIs ==
  ASSUME IInv, NEW r \in Rows
  PROVE  /\ case \in Cases /\ next \in [Tokens -> Tokens]
         /\ row[r] \in RowType /\ kv[r] \in Seq(Gen) /\ Len(kv[r]) = Width(r)
         /\ out[r] \in Seq(Tokens) /\ out[r] \in Seq(Gen)
         /\ Base(r) \in Seq(Tokens) /\ (~Online => Base(r) = <<>>)
         /\ row[r].emitted \in Seq(Gen) /\ row[r].prefix \in Nat
         /\ Prompt(r) \in Nat /\ Prompt(r) > 0 /\ case.gens[r] \in Nat /\ case.stop[r] \in BOOLEAN
         /\ filled[r] \in Nat /\ prefixes[r] \in Nat /\ blocks[r] \in Nat
         /\ acquired[r] \in Nat /\ reserve[r] \in Nat /\ Width(r) \in Nat /\ L \in Nat /\ L > 0
<1>1. Types
  BY DEF IInv
<1>2. case \in Cases /\ next \in [Tokens -> Tokens] /\ L \in Nat /\ L > 0
  BY <1>1, BlockLength DEF Types
<1>3. Prompt(r) \in Nat /\ Prompt(r) > 0 /\ case.gens[r] \in Nat /\ case.stop[r] \in BOOLEAN
  BY <1>2, CaseIs DEF Rows, Prompt
<1>4. Width(r) \in Nat
  BY <1>2, <1>3 DEF Width
<1>5. /\ row[r] \in RowType /\ kv[r] \in Seq(Gen) /\ DOMAIN kv[r] = 1..Width(r)
      /\ out[r] \in Seq(Tokens) /\ filled[r] \in Nat /\ prefixes[r] \in Nat /\ blocks[r] \in Nat
      /\ acquired[r] \in Nat /\ reserve[r] \in Nat
  BY <1>1 DEF Types
<1>6. Len(kv[r]) = Width(r)
  BY <1>4, <1>5
<1>7. row[r].emitted \in Seq(Gen) /\ row[r].prefix \in Nat
  BY <1>5 DEF RowType
<1>8. Base(r) \in Seq(Tokens) /\ (~Online => Base(r) = <<>>) /\ out[r] \in Seq(Gen)
  BY <1>5, TokensSeq DEF Base
<1> QED
  BY <1>2, <1>3, <1>4, <1>5, <1>6, <1>7, <1>8

LEMMA KnownIs ==
  ASSUME IInv, NEW r \in Rows, ~Online \/ r \in called
  PROVE  Known(r) = Base(r) \o row[r].emitted
<1>1. row[r].emitted \in Seq(Gen)
  BY StateIs
<1>2. PICK e \in Seq(Gen) : e = row[r].emitted
  BY <1>1
<1>3. <<>> \o e = e
  BY JoinMore
<1> QED
  BY <1>2, <1>3 DEF Known, Base

LEMMA LaunchOf ==
  ASSUME IInv, NEW r \in Rows, pc = "loop", r \in called
  PROVE  /\ fin[r] = "none" /\ RunningRow(r)
         /\ RunOK(case, next, r, row[r], kv[r], Known(r))
         /\ row[r].st # "done" => Launch(r, row[r], kv[r], Base(r), Known(r))
<1>1. Types /\ Phases /\ RowInv(r)
  BY DEF IInv
<1>2. fin[r] = "none"
  BY <1>1 DEF Phases
<1>3. RunningRow(r)
  BY <1>1, <1>2 DEF RowInv
<1>4. RunOK(case, next, r, row[r], kv[r], Known(r))
  BY <1>3 DEF RunningRow
<1>5. Known(r) = Base(r) \o row[r].emitted
  BY KnownIs
<1> QED
  BY <1>2, <1>3, <1>4, <1>5, StateIs DEF Launch

\* A step of the loop takes one row from row[r] to v.
RowStep(r, v, k) ==
  /\ pc = "loop" /\ r \in called /\ row[r].st # "done"
  /\ row' = [row EXCEPT ![r] = v] /\ kv' = [kv EXCEPT ![r] = k]
  /\ pc' \in {"loop", "raised"} /\ UNCHANGED <<case, next, requests>>

\* Row v may follow row[r]: it goes on or ends as it should, within the pages acquired.
RowOK(r, v, k) ==
  /\ v \in RowType /\ k \in Seq(Gen) /\ DOMAIN k = DOMAIN kv[r]
  /\ RunOK(case, next, r, v, k, Base(r) \o v.emitted)
  /\ Online => Reaches(case, v, Start(r), acquired[r], reserve[r])

LEMMA LoopKeeps ==
  ASSUME IInv, NEW r \in Rows, NEW v, NEW k, RowStep(r, v, k), RowOK(r, v, k)
  PROVE  IInv'
<1>1. /\ pc = "loop" /\ r \in called /\ row' = [row EXCEPT ![r] = v] /\ kv' = [kv EXCEPT ![r] = k]
      /\ pc' \in {"loop", "raised"} /\ case' = case /\ next' = next
      /\ out' = out /\ fin' = fin /\ filled' = filled /\ seeds' = seeds /\ prefixes' = prefixes
      /\ blocks' = blocks /\ acquired' = acquired /\ reserve' = reserve /\ called' = called
  BY DEF RowStep, requests
<1>2. Types /\ Phases /\ \A q \in Rows : RowInv(q)
  BY DEF IInv
<1>3. /\ Rows' = Rows /\ (Online' <=> Online) /\ (Speculative' <=> Speculative)
      /\ \A q : Prompt(q)' = Prompt(q) /\ Width(q)' = Width(q)
  BY <1>1 DEF Rows, Online, Speculative, Prompt, Width
<1>4. row'[r] = v /\ kv'[r] = k /\ \A q \in Rows : q # r => row'[q] = row[q] /\ kv'[q] = kv[q]
  BY <1>1, <1>2 DEF Types
<1>5. Types'
  <2>1. v \in RowType /\ k \in Seq(Gen) /\ DOMAIN k = DOMAIN kv[r]
    BY DEF RowOK
  <2>2. row' \in [Rows -> RowType] /\ kv' \in [Rows -> Seq(Gen)]
    BY <1>1, <1>2, <2>1 DEF Types
  <2>3. \A q \in Rows : DOMAIN kv'[q] = 1..Width(q)
    BY <1>2, <1>4, <2>1 DEF Types
  <2> QED
    BY <1>1, <1>2, <1>3, <2>2, <2>3 DEF Types
<1>6. Phases'
  BY <1>1, <1>2, <1>3 DEF Phases
<1>7. RowInv(r)'
  <2>1. fin[r] = "none" /\ RunningRow(r)
    BY <1>1, LaunchOf
  <2>2. Known(r)' = Base(r) \o v.emitted
    <3>1. v.emitted \in Seq(Gen)
      BY DEF RowOK, RowType
    <3>2. PICK e \in Seq(Gen) : e = v.emitted
      BY <3>1
    <3>3. <<>> \o e = e
      BY JoinMore
    <3> QED
      BY <1>1, <1>3, <1>4, <3>2, <3>3 DEF Known, Base
  <2>3. Start(r)' = Start(r)
    BY <1>1, <1>3 DEF Start, BlockPrefix
  <2>4. RunningRow(r)'
    BY <1>1, <1>3, <1>4, <2>1, <2>2, <2>3, Zenon DEF RunningRow, RowOK
  <2> QED
    BY <1>1, <2>1, <2>4 DEF RowInv
<1>8. \A q \in Rows : RowInv(q)'
  <2> TAKE q \in Rows
  <2>1. CASE q = r
    BY <1>7, <2>1
  <2>2. CASE q # r
    <3>1. SameRow(q)
      BY <1>1, <1>4, <2>2 DEF SameRow
    <3> QED
      BY <1>2, <3>1, RowKept
  <2> QED
    BY <2>1, <2>2
<1> QED
  BY <1>3, <1>5, <1>6, <1>8 DEF IInv

LEMMA WrittenIs ==
  ASSUME NEW r, NEW from, NEW ts
  PROVE  Written(r, from, ts) = Wrote(kv[r], from, ts)
BY DEF Written, Wrote

\* Before a launch ends its prefix is where the plan started.
LEMMA ReachesThen ==
  ASSUME IInv, NEW r \in Rows, pc = "loop", r \in called, row[r].st # "done", NEW v \in RowType,
         Online => \/ v.st # "done" /\ v.prefix = row[r].prefix
                   \/ /\ v.st = "done" /\ v.prefix >= row[r].prefix /\ v.prefix <= row[r].prefix + L
                      /\ case.mode = "block" => v.prefix = row[r].prefix + L
  PROVE  Online => Reaches(case, v, Start(r), acquired[r], reserve[r])
<1> SUFFICES ASSUME Online PROVE Reaches(case, v, Start(r), acquired[r], reserve[r])
  OBVIOUS
<1>1. Reaches(case, row[r], Start(r), acquired[r], reserve[r])
  BY LaunchOf DEF RunningRow
<1>2. row[r].prefix \in Nat /\ L \in Nat /\ v.prefix \in Nat
  BY StateIs DEF RowType
<1> QED
  BY <1>1, <1>2 DEF Reaches

LEMMA CommitInv ==
  ASSUME IInv, NEW r \in Rows, Commit(r)
  PROVE  IInv'
<1>1. pc = "loop" /\ r \in called /\ row[r].st = "commit" /\ row[r].st # "done"
  BY DEF Commit, Launched
<1>2. Launch(r, row[r], kv[r], Base(r), Known(r))
  BY <1>1, LaunchOf
<1>3. PICK v : v = CommitRow(r, row[r])
  OBVIOUS
<1>4. PICK k : k = Wrote(kv[r], row[r].prefix, row[r].block)
  OBVIOUS
<1>5. RowStep(r, v, k)
  BY <1>1, <1>3, <1>4, WrittenIs DEF Commit, CommitRow, RowStep, KVAfterCausal
<1>6. /\ v \in RowType /\ RunOK(case, next, r, v, k, Base(r) \o v.emitted)
      /\ Online => v.st = "done" /\ v.prefix = row[r].prefix + L
  BY <1>1, <1>2, <1>3, <1>4, CommitKeeps
<1>7. k \in Seq(Gen) /\ DOMAIN k = DOMAIN kv[r]
  <2>1. kv[r] \in Seq(Gen) /\ row[r].prefix \in Nat
    BY StateIs
  <2>2. row[r].block \in Seq(Gen)
    BY <1>2, LaunchIs
  <2>3. /\ Wrote(kv[r], row[r].prefix, row[r].block) \in Seq(Gen)
        /\ DOMAIN Wrote(kv[r], row[r].prefix, row[r].block) = DOMAIN kv[r]
    BY <2>1, <2>2, WroteIs, ZenonT(30)
  <2> QED
    BY <1>4, <2>3, Zenon
<1>8. row[r].prefix \in Nat /\ L \in Nat /\ L > 0
  BY StateIs
<1>9. Online => Reaches(case, v, Start(r), acquired[r], reserve[r])
  BY <1>1, <1>6, <1>8, ReachesThen
<1>10. RowOK(r, v, k)
  BY <1>6, <1>7, <1>9 DEF RowOK
<1> QED
  BY <1>5, <1>10, LoopKeeps

LEMMA VerifyInv ==
  ASSUME IInv, NEW r \in Rows, Verify(r)
  PROVE  IInv'
<1>1. pc = "loop" /\ r \in called /\ row[r].st = "verify" /\ row[r].st # "done"
  BY DEF Verify, Launched
<1>2. Launch(r, row[r], kv[r], Base(r), Known(r))
  BY <1>1, LaunchOf
<1>3. PICK v : v = VerifyRow(r, row[r])
  OBVIOUS
<1>4. PICK k : k = Wrote(kv[r], row[r].prefix, row[r].block)
  OBVIOUS
<1>5. RowStep(r, v, k)
  BY <1>1, <1>3, <1>4, WrittenIs DEF Verify, VerifyRow, RowStep, KVAfterCausal
<1>6. /\ v \in RowType /\ RunOK(case, next, r, v, k, Base(r) \o v.emitted)
      /\ Online => v.st = "done" /\ v.prefix >= row[r].prefix /\ v.prefix <= row[r].prefix + L
  BY <1>1, <1>2, <1>3, <1>4, VerifyKeeps
<1>7. k \in Seq(Gen) /\ DOMAIN k = DOMAIN kv[r]
  <2>1. kv[r] \in Seq(Gen) /\ row[r].prefix \in Nat
    BY StateIs
  <2>2. row[r].block \in Seq(Gen)
    BY <1>2, LaunchIs
  <2>3. /\ Wrote(kv[r], row[r].prefix, row[r].block) \in Seq(Gen)
        /\ DOMAIN Wrote(kv[r], row[r].prefix, row[r].block) = DOMAIN kv[r]
    BY <2>1, <2>2, WroteIs, ZenonT(30)
  <2> QED
    BY <1>4, <2>3, Zenon
<1>8. case.mode = "spec"
  BY <1>1, <1>2, LaunchIs DEF ActiveOK
<1>9. Online => Reaches(case, v, Start(r), acquired[r], reserve[r])
  BY <1>1, <1>6, <1>8, ReachesThen
<1>10. RowOK(r, v, k)
  BY <1>6, <1>7, <1>9 DEF RowOK
<1> QED
  BY <1>5, <1>10, LoopKeeps

LEMMA DenoiseInv ==
  ASSUME IInv, NEW r \in Rows, Denoise(r)
  PROVE  IInv'
<1>1. pc = "loop" /\ r \in called /\ row[r].st = "denoise" /\ row[r].st # "done"
  BY DEF Denoise, Launched
<1>2. Launch(r, row[r], kv[r], Base(r), Known(r))
  BY <1>1, LaunchOf
<1>3a. PICK conf : \E p \in [Transfer(row[r].block, conf) -> Gen] :
        LET b == Step(row[r].block, p)
            term == ~Speculative /\ case.stop[r] /\ EosTerminal(b)
            steps == row[r].steps + 1
            ready == Masked(b) = {} \/ term
        IN /\ row' = [row EXCEPT ![r].block = b, ![r].steps = steps, ![r].term = term,
                                 ![r].st = IF ready THEN (IF Speculative THEN "verify" ELSE "commit") ELSE @]
           /\ pc' = IF ~ready /\ Exhausted(steps) THEN "raised" ELSE pc
  BY DEF Denoise, Gen
<1>3b. PICK p \in [Transfer(row[r].block, conf) -> Gen] :
        LET b == Step(row[r].block, p)
            term == ~Speculative /\ case.stop[r] /\ EosTerminal(b)
            steps == row[r].steps + 1
            ready == Masked(b) = {} \/ term
        IN /\ row' = [row EXCEPT ![r].block = b, ![r].steps = steps, ![r].term = term,
                                 ![r].st = IF ready THEN (IF Speculative THEN "verify" ELSE "commit") ELSE @]
           /\ pc' = IF ~ready /\ Exhausted(steps) THEN "raised" ELSE pc
  BY <1>3a
<1>4. PICK b : b = Step(row[r].block, p)
  OBVIOUS
<1>5. PICK term : term = (~Speculative /\ case.stop[r] /\ EosTerminal(b))
  OBVIOUS
<1>6. PICK st : st = IF Masked(b) = {} \/ term THEN (IF Speculative THEN "verify" ELSE "commit")
                                              ELSE "denoise"
  OBVIOUS
<1>7. PICK v : v = [row[r] EXCEPT !.block = b, !.steps = row[r].steps + 1, !.term = term, !.st = st]
  OBVIOUS
<1>8. row' = [row EXCEPT ![r] = v] /\ pc' \in {"loop", "raised"}
  BY <1>1, <1>3b, <1>4, <1>5, <1>6, <1>7
<1>9. row[r].block \in [Pos -> Gen] /\ row[r] \in RowType
  BY <1>2, LaunchIs, StateIs
<1>10. b \in [Pos -> Gen] /\ \A i \in Pos : row[r].block[i] # Mask => b[i] = row[r].block[i]
  BY <1>3b, <1>4, <1>9, DenoisedBlock
<1>11. term \in BOOLEAN /\ row[r].steps + 1 \in Nat /\ st \in {"verify", "commit", "denoise"}
  BY <1>5, <1>6, <1>9 DEF RowType, EosTerminal, Speculative
<1>12. /\ v \in RowType /\ v.st = st /\ v.block = b /\ v.term = term /\ v.prefix = row[r].prefix
       /\ v.emitted = row[r].emitted /\ v.forced = row[r].forced
  BY <1>7, <1>9, <1>10, <1>11 DEF RowType
<1>13. ActiveOK(case, next, r, v, Known(r))
  BY <1>1, <1>2, <1>5, <1>6, <1>10, <1>11, <1>12, DenoiseKeeps
<1>14. PICK k : k = KVAfterDenoise(r)
  OBVIOUS
<1>15. RowStep(r, v, k)
  BY <1>1, <1>8, <1>14 DEF Denoise, RowStep
<1>16. /\ k \in Seq(Gen) /\ DOMAIN k = DOMAIN kv[r]
       /\ Holds(k, case.prompts[r], v.prefix - case.prompts[r], Known(r))
  <2>1. CASE case.path = "dense"
    BY <1>2, <1>12, <1>14, <2>1, LaunchIs, StateIs DEF KVAfterDenoise
  <2>2. CASE case.path # "dense"
    <3>1. k = Wrote(kv[r], row[r].prefix, row[r].block)
      BY <1>14, <2>2, WrittenIs DEF KVAfterDenoise
    <3>2. PICK s \in Seq(Gen) : s = Known(r)
      BY <1>2, LaunchIs
    <3>3. PICK n \in Nat : n = row[r].prefix - case.prompts[r]
      BY <1>2, LaunchIs
    <3>4. Len(s) >= n
      <4>1. BlockActive(case, next, row[r], n, s) \/ SpecActive(case, row[r], n, s)
        <5>1. ActiveOK(case, next, r, row[r], s) /\ case \in Cases
          BY <1>2, <3>2, LaunchIs, StateIs
        <5>2. case.mode \in {"block", "spec"}
          BY <5>1, CaseIs
        <5> QED
          BY <3>3, <5>1, <5>2 DEF ActiveOK
      <4>2. Len(s) = n \/ Len(s) = n + 1
        BY <4>1 DEF BlockActive, SpecActive
      <4> QED
        BY <4>2
    <3>5. Fits(s, s, n, row[r].block, 0)
      <4>1. Len(s) \in Nat
        OBVIOUS
      <4> QED
        BY <4>1 DEF Fits
    <3>6. 0 \in Nat /\ 0 <= L /\ n + 0 = n
      BY BlockLength
    <3>7. Launch(r, row[r], kv[r], Base(r), s)
      BY <1>2, <3>2
    <3>8. /\ Holds(Wrote(kv[r], row[r].prefix, row[r].block), case.prompts[r], n + 0, s)
          /\ Wrote(kv[r], row[r].prefix, row[r].block) \in Seq(Gen)
          /\ DOMAIN Wrote(kv[r], row[r].prefix, row[r].block) = DOMAIN kv[r]
      BY <3>3, <3>5, <3>6, <3>7, LaunchWrites
    <3> QED
      BY <1>12, <3>1, <3>2, <3>3, <3>6, <3>8
  <2> QED
    BY <2>1, <2>2
<1>17. Base(r) \o v.emitted = Known(r)
  BY <1>1, <1>12, KnownIs
<1>18. RunOK(case, next, r, v, k, Base(r) \o v.emitted)
  BY <1>2, <1>13, <1>16, <1>17, LaunchIs DEF RunOK
<1>19. v.st # "done"
  BY <1>11, <1>12
<1>20. Online => Reaches(case, v, Start(r), acquired[r], reserve[r])
  BY <1>1, <1>12, <1>19, ReachesThen
<1>21. RowOK(r, v, k)
  BY <1>12, <1>16, <1>18, <1>20 DEF RowOK
<1> QED
  BY <1>15, <1>21, LoopKeeps

-----------------------------------------------------------------------------
(* Plans.                                                                  *)

\* The rows a step leaves alone.
LEMMA OthersKept ==
  ASSUME IInv, NEW S, \A q \in Rows : q \notin S => SameRow(q),
         \A q \in Rows : q \in S => RowInv(q)', Types', Phases', Rows' = Rows
  PROVE  IInv'
<1>1. \A q \in Rows : RowInv(q)'
  <2> TAKE q \in Rows
  <2>1. CASE q \in S
    BY <2>1
  <2>2. CASE q \notin S
    <3>1. SameRow(q) /\ RowInv(q)
      BY <2>2 DEF IInv
    <3> QED
      BY <3>1, RowKept
  <2> QED
    BY <2>1, <2>2
<1> QED
  BY <1>1 DEF IInv

LEMMA EmptyOutput ==
  ASSUME NEW S, NEW o \in Seq(S), Len(o) = 0
  PROVE  o = <<>>
OBVIOUS

\* Keys and values of the prompt.
LEMMA PromptWritten ==
  ASSUME NEW k \in Seq(Gen), NEW from \in Nat, NEW n \in Nat, from + n <= Len(k),
         \A i \in 1..from : k[i] = Word
  PROVE  LET k2 == Wrote(k, from, PromptTokens(n))
         IN /\ k2 \in Seq(Gen) /\ DOMAIN k2 = DOMAIN k
            /\ \A i \in 1..(from + n) : k2[i] = Word
<1>1. PromptTokens(n) \in Seq(Gen) /\ Len(PromptTokens(n)) = n
      /\ \A j \in 1..n : PromptTokens(n)[j] = Word
  BY MaskApart DEF PromptTokens, Gen
<1>2. PICK ts \in Seq(Gen) : ts = PromptTokens(n)
  BY <1>1
<1>3. PICK k2 : k2 = Wrote(k, from, ts)
  OBVIOUS
<1>4. /\ k2 \in Seq(Gen) /\ DOMAIN k2 = DOMAIN k
      /\ \A i \in DOMAIN k : i <= from => k2[i] = k[i]
      /\ \A j \in 1..Len(ts) : from + j \in DOMAIN k => k2[from + j] = ts[j]
  <2>1. from \in Nat /\ ts \in Seq(Gen) /\ k \in Seq(Gen)
    OBVIOUS
  <2>2. LET x == Wrote(k, from, ts)
        IN /\ x \in Seq(Gen) /\ DOMAIN x = DOMAIN k
           /\ \A i \in DOMAIN k : i <= from => x[i] = k[i]
           /\ \A j \in 1..Len(ts) : from + j \in DOMAIN k => x[from + j] = ts[j]
    BY <2>1, WroteIs, Zenon
  <2> QED
    BY <1>3, <2>2, Zenon
<1>5. Len(k) \in Nat /\ DOMAIN k = 1..Len(k)
  OBVIOUS
<1>6. \A i \in 1..(from + n) : k2[i] = Word
  <2> TAKE i \in 1..(from + n)
  <2>1. CASE i \in 1..from
    BY <1>4, <1>5, <2>1
  <2>2. CASE i \notin 1..from
    <3>1. PICK j \in 1..n : i = from + j
      BY <2>2, JoinAt
    <3>2. from + j \in DOMAIN k
      BY <1>5, <3>1
    <3> QED
      BY <1>1, <1>2, <1>4, <3>1, <3>2
  <2> QED
    BY <2>1, <2>2
<1> QED
  BY <1>2, <1>3, <1>4, <1>6

LEMMA IdleRow ==
  ASSUME IInv, Online, pc = "idle", NEW r \in Rows, fin[r] = "none"
  PROVE  /\ called = {}
         /\ PrefillingRow(r) \/ (filled[r] = Prompt(r) /\ WaitingRow(r))
<1>1. called = {}
  BY DEF IInv, Phases
<1> QED
  BY <1>1 DEF IInv, RowInv

LEMMA SameState ==
  ASSUME case' = case
  PROVE  /\ Rows' = Rows /\ (Online' <=> Online) /\ (Speculative' <=> Speculative)
         /\ \A q : Prompt(q)' = Prompt(q) /\ Width(q)' = Width(q)
BY DEF Rows, Online, Speculative, Prompt, Width

LEMMA AbortInv ==
  ASSUME IInv, NEW r \in Rows, Abort(r)
  PROVE  IInv'
<1>1. /\ Online /\ pc = "idle" /\ fin[r] = "none" /\ filled[r] = Prompt(r)
      /\ fin' = [fin EXCEPT ![r] = "abort"]
      /\ seeds' = [seeds EXCEPT ![r] = NoToken] /\ prefixes' = [prefixes EXCEPT ![r] = 0]
      /\ UNCHANGED <<case, next, row, kv, out, filled, blocks, acquired, reserve, called, pc>>
  BY DEF Abort
<1>2. Types /\ Phases /\ called = {}
  BY <1>1, IdleRow DEF IInv
<1>3. /\ Rows' = Rows /\ (Online' <=> Online)
      /\ \A q : Prompt(q)' = Prompt(q) /\ Width(q)' = Width(q)
  BY <1>1, SameState
<1>4. \A q \in Rows : q \notin {r} => SameRow(q)
  BY <1>1, <1>2 DEF SameRow, Types
<1>5. WaitingRow(r)
  <2>1. ~PrefillingRow(r)
    BY <1>1, StateIs DEF PrefillingRow
  <2> QED
    BY <1>1, <2>1, IdleRow
<1>6. Types'
  BY <1>1, <1>2, <1>3 DEF Types
<1>7. Phases'
  BY <1>1, <1>2, <1>3 DEF Phases
<1>8. RowInv(r)'
  <2>1. Published(case, r, out[r]) /\ Chain(case, next, out[r])
    BY <1>5 DEF WaitingRow, RequestOK
  <2>2. Known(r)' = out[r]
    BY <1>1, <1>2, <1>3 DEF Known
  <2>3. fin'[r] = "abort"
    BY <1>1, <1>2 DEF Types
  <2>4. EndedOK(case, r, out[r], "abort")
    BY <2>1 DEF EndedOK
  <2> QED
    BY <1>1, <2>1, <2>2, <2>3, <2>4 DEF RowInv
<1>9. \A q \in Rows : q \in {r} => RowInv(q)'
  BY <1>8
<1> QED
  BY <1>3, <1>4, <1>6, <1>7, <1>9, OthersKept

LEMMA PlanPrefillInv ==
  ASSUME IInv, NEW r \in Rows, NEW n, PlanPrefill(r, n)
  PROVE  IInv'
<1>1. /\ Online /\ pc = "idle" /\ fin[r] = "none" /\ n \in 1..(Prompt(r) - filled[r])
      /\ kv' = [kv EXCEPT ![r] = Written(r, filled[r], PromptTokens(n))]
      /\ filled' = [filled EXCEPT ![r] = @ + n]
      /\ acquired' = [acquired EXCEPT ![r] = @ + n + (IF filled[r] = 0 THEN L ELSE 0)]
      /\ UNCHANGED <<case, next, row, out, fin, blocks, called, pc>>
      /\ IF filled[r] + n < Prompt(r)
         THEN UNCHANGED <<seeds, prefixes, reserve>>
         ELSE /\ seeds' = [seeds EXCEPT ![r] = Sample(Word)]
              /\ prefixes' = [prefixes EXCEPT ![r] = RecordedPrefix(r)]
              /\ reserve' = [reserve EXCEPT ![r] = L]
  BY DEF PlanPrefill
<1>2. Types /\ Phases /\ called = {}
  BY <1>1, IdleRow DEF IInv
<1>3. /\ Rows' = Rows /\ (Online' <=> Online) /\ (Speculative' <=> Speculative)
      /\ \A q : Prompt(q)' = Prompt(q) /\ Width(q)' = Width(q)
  BY <1>1, SameState
<1>4. /\ Prompt(r) \in Nat /\ filled[r] \in Nat /\ acquired[r] \in Nat /\ L \in Nat /\ L > 0
      /\ case.gens[r] \in Nat /\ kv[r] \in Seq(Gen) /\ Len(kv[r]) = Width(r) /\ out[r] \in Seq(Tokens)
      /\ case \in Cases /\ next \in [Tokens -> Tokens] /\ Width(r) \in Nat
  BY StateIs
<1>5. n \in Nat /\ n > 0 /\ filled[r] + n \in Nat /\ filled[r] + n <= Prompt(r)
  BY <1>1, <1>4
<1>6. PrefillingRow(r)
  BY <1>1, <1>4, <1>5, IdleRow
<1>7. PICK k : k = Wrote(kv[r], filled[r], PromptTokens(n))
  OBVIOUS
<1>8. /\ k \in Seq(Gen) /\ DOMAIN k = DOMAIN kv[r]
      /\ \A i \in 1..(filled[r] + n) : k[i] = Word
  <2>1. filled[r] + n <= Len(kv[r])
    BY <1>4, <1>5 DEF Width
  <2>2. \A i \in 1..filled[r] : kv[r][i] = Word
    BY <1>6 DEF PrefillingRow
  <2> QED
    BY <1>4, <1>5, <1>7, <2>1, <2>2, PromptWritten
<1>9. PICK a \in Nat : a = acquired[r] + n + (IF filled[r] = 0 THEN L ELSE 0)
  BY <1>4, <1>5
<1>10. a = (filled[r] + n) + L
  BY <1>4, <1>5, <1>6, <1>9 DEF PrefillingRow
<1>11. PICK f \in Nat : f = filled[r] + n
  BY <1>5
<1>12. kv'[r] = k /\ filled'[r] = f /\ acquired'[r] = a
  BY <1>1, <1>2, <1>7, <1>9, <1>11, WrittenIs DEF Types
<1>13. Follow(next, Word) \in Tokens /\ Sample(Word) = Follow(next, Word)
  BY <1>4, FirstToken, SampleIs
<1>14. RecordedPrefix(r) \in Nat
  BY <1>4 DEF RecordedPrefix
<1>15. \A q \in Rows : q \notin {r} => SameRow(q)
  BY <1>1, <1>2 DEF SameRow, Types
<1>16. Types'
  <2>1. kv' = [kv EXCEPT ![r] = k] /\ filled' = [filled EXCEPT ![r] = f]
        /\ acquired' = [acquired EXCEPT ![r] = a]
    BY <1>1, <1>2, <1>7, <1>9, <1>11, WrittenIs DEF Types
  <2>2. kv' \in [Rows -> Seq(Gen)] /\ \A q \in Rows : DOMAIN kv'[q] = 1..Width(q)
    BY <1>2, <1>8, <2>1 DEF Types
  <2>3. filled' \in [Rows -> Nat] /\ acquired' \in [Rows -> Nat]
    BY <1>2, <2>1 DEF Types
  <2>4. /\ seeds' \in [Rows -> Tokens \cup {NoToken}]
        /\ prefixes' \in [Rows -> Nat] /\ reserve' \in [Rows -> Nat]
    <3>1. CASE filled[r] + n < Prompt(r)
      BY <1>1, <1>2, <3>1 DEF Types
    <3>2. CASE ~(filled[r] + n < Prompt(r))
      <4>1. PICK x \in Tokens : x = Sample(Word)
        BY <1>13
      <4>2. PICK y \in Nat : y = RecordedPrefix(r)
        BY <1>14
      <4>3. /\ seeds' = [seeds EXCEPT ![r] = x] /\ prefixes' = [prefixes EXCEPT ![r] = y]
            /\ reserve' = [reserve EXCEPT ![r] = L]
        BY <1>1, <3>2, <4>1, <4>2
      <4> QED
        BY <1>2, <1>4, <4>3 DEF Types
    <3> QED
      BY <3>1, <3>2
  <2> QED
    BY <1>1, <1>2, <1>3, <2>2, <2>3, <2>4 DEF Types
<1>17. Phases'
  BY <1>1, <1>2, <1>3 DEF Phases
<1>18. Len(out[r]) = 0 /\ blocks[r] = 0 /\ out[r] = <<>>
  BY <1>4, <1>6, EmptyOutput DEF PrefillingRow
<1>19. f < Prompt(r) => RowInv(r)'
  <2> SUFFICES ASSUME f < Prompt(r) PROVE RowInv(r)'
    OBVIOUS
  <2>1. PrefillingRow(r)'
    <3>1. \A i \in 1..f : k[i] = Word
      BY <1>8, <1>11
    <3>2. a = IF f = 0 THEN 0 ELSE f + L
      BY <1>4, <1>5, <1>10, <1>11
    <3> QED
      BY <1>1, <1>3, <1>12, <1>18, <3>1, <3>2 DEF PrefillingRow
  <2>2. RowInv(r)'
    BY <1>1, <1>2, <1>3, <2>1 DEF RowInv
  <2> QED
    BY <2>2
<1>20. ~(f < Prompt(r)) => RowInv(r)'
  <2> SUFFICES ASSUME ~(f < Prompt(r)) PROVE RowInv(r)'
    OBVIOUS
  <2>1. f = Prompt(r)
    BY <1>4, <1>5, <1>11
  <2>2. /\ seeds'[r] = Follow(next, Word) /\ prefixes'[r] = RecordedPrefix(r) /\ reserve'[r] = L
    BY <1>1, <1>2, <1>11, <1>13 DEF Types
  <2>3. Start(r)' = Prompt(r)
    <3>1. CASE Speculative
      BY <1>3, <2>2, <3>1 DEF Start, RecordedPrefix
    <3>2. CASE ~Speculative
      <4>1. Start(r)' = Prompt(r) + 0 * L
        BY <1>1, <1>3, <1>18, <3>2 DEF Start, BlockPrefix
      <4> QED
        BY <1>4, <4>1
    <3> QED
      BY <3>1, <3>2
  <2>4. RequestOK(case, next, r, out[r], Follow(next, Word), Prompt(r))
    <3>1. Chain(case, next, <<>>) /\ InTime(case, <<>>)
      BY <1>4, FirstToken
    <3>2. Published(case, r, out[r]) /\ Chain(case, next, out[r])
      BY <1>4, <1>18, <3>1 DEF Published
    <3>3. Len(out[r]) < case.gens[r]
      BY <1>1, <1>4, <1>18, CaseIs DEF Online, Rows
    <3>4. Tip(out[r]) = Word
      BY <1>18 DEF Tip
    <3> QED
      BY <1>4, <1>13, <1>18, <3>2, <3>3, <3>4 DEF RequestOK, Prompt
  <2>5. Holds(k, Prompt(r), Prompt(r) - Prompt(r), out[r])
    <3>1. Prompt(r) - Prompt(r) = 0
      BY <1>4
    <3> QED
      BY <1>8, <1>11, <2>1, <3>1 DEF Holds
  <2>6. Ahead(a + L, Prompt(r))
    BY <1>4, <1>10, <1>11, <2>1 DEF Ahead
  <2>7. WaitingRow(r)'
    BY <1>1, <1>3, <1>12, <2>2, <2>3, <2>4, <2>5, <2>6, Zenon DEF WaitingRow
  <2>8. RowInv(r)'
    BY <1>1, <1>2, <1>3, <1>12, <2>1, <2>7 DEF RowInv
  <2> QED
    BY <2>8
<1>21. \A q \in Rows : q \in {r} => RowInv(q)'
  BY <1>19, <1>20
<1> QED
  BY <1>3, <1>15, <1>16, <1>17, <1>21, OthersKept

\* A row that starts where the output ends keeps what holds of the output.
LEMMA BeginsRuns ==
  ASSUME NEW r \in Rows, NEW w, NEW p, NEW e, NEW k, NEW s, Begins(r, w, p, e, s),
         Chain(case, next, s), InTime(case, s), Holds(k, case.prompts[r], p - case.prompts[r], s)
  PROVE  w \in RowType /\ w.prefix = p /\ w.emitted = e /\ w.st # "done"
         /\ RunOK(case, next, r, w, k, s)
<1>1. w \in RowType /\ w.prefix = p /\ w.emitted = e /\ ActiveOK(case, next, r, w, s)
  BY DEF Begins
<1>2. w.st # "done"
  BY <1>1 DEF ActiveOK
<1> QED
  BY <1>1, <1>2 DEF RunOK

\* The row a plan starts.
LEMMA PlannedRowIs ==
  ASSUME IInv, Online, pc = "idle", NEW r \in Rows, fin[r] = "none", filled[r] = Prompt(r),
         NEW w, w = PlannedRow(r)
  PROVE  /\ seeds[r] \in Tokens /\ RequestOK(case, next, r, out[r], seeds[r], Start(r))
         /\ w \in RowType
         /\ RunOK(case, next, r, w, kv[r], out[r] \o w.emitted)
         /\ Reaches(case, w, Start(r), acquired[r] + reserve[r], L)
<1>1. WaitingRow(r)
  <2>1. ~PrefillingRow(r)
    BY StateIs DEF PrefillingRow
  <2> QED
    BY <2>1, IdleRow
<1>2. PICK o \in Seq(Tokens) : o = out[r]
  BY StateIs
<1>3. PICK p : p = Start(r)
  OBVIOUS
<1>4. /\ case \in Cases /\ next \in [Tokens -> Tokens] /\ case.prompts[r] \in Nat /\ case.gens[r] \in Nat
      /\ prefixes[r] \in Nat /\ blocks[r] \in Nat /\ L \in Nat /\ L > 0
      /\ acquired[r] \in Nat /\ reserve[r] \in Nat
  BY StateIs DEF Prompt
<1>5. RequestOK(case, next, r, o, seeds[r], p)
  BY <1>1, <1>2, <1>3 DEF WaitingRow
<1>6. /\ Holds(kv[r], case.prompts[r], p - case.prompts[r], o)
      /\ Ahead(acquired[r] + reserve[r], p)
  BY <1>1, <1>2, <1>3 DEF WaitingRow, Prompt
<1>7. seeds[r] \in Tokens /\ Chain(case, next, o) /\ InTime(case, o) /\ Len(o) < case.gens[r]
  BY <1>5 DEF RequestOK, Published
<1>8. o \in Seq(Gen) /\ o \o <<>> = o /\ Len(o) \in Nat /\ <<>> \in Seq(Tokens)
  BY TokensSeq, JoinMore
<1>9. /\ w \in RowType /\ w.prefix = p /\ RunOK(case, next, r, w, kv[r], o \o w.emitted)
      /\ w.st = "done" => case.mode = "spec"
  <2>1. CASE case.mode = "block"
    <3>1. /\ w = BlockRow(r, p, seeds[r], o, <<>>)
          /\ p = case.prompts[r] + blocks[r] * L
      BY <1>2, <1>3, <2>1 DEF PlannedRow, Speculative, Start, BlockPrefix, Prompt
    <3>2. p = case.prompts[r] + Len(o) /\ seeds[r] = Follow(next, Tip(o))
      BY <1>5, <2>1 DEF RequestOK
    <3>3. /\ p \in Nat /\ p >= case.prompts[r] /\ p <= case.prompts[r] + case.gens[r]
          /\ Len(o) = p - case.prompts[r]
      BY <1>4, <1>7, <1>8, <3>2
    <3>4. Len(o) = blocks[r] * L
      <4>1. PICK x \in Nat : x = blocks[r] * L
        BY <1>4
      <4> QED
        BY <1>4, <1>8, <3>1, <3>2, <4>1
    <3>5. Begins(r, w, p, <<>>, o)
      BY <1>4, <1>7, <1>8, <2>1, <3>1, <3>2, <3>3, <3>4, BlockRowIs
    <3>6. w \in RowType /\ w.prefix = p /\ w.emitted = <<>> /\ w.st # "done"
          /\ RunOK(case, next, r, w, kv[r], o)
      BY <1>6, <1>7, <3>5, BeginsRuns
    <3> QED
      BY <1>8, <3>6
  <2>2. CASE case.mode = "spec" /\ Len(o) = 0
    <3>1. o = <<>> /\ p = case.prompts[r] /\ seeds[r] = Follow(next, Word) /\ p = prefixes[r]
      BY <1>3, <1>5, <2>2, EmptyOutput DEF RequestOK, Start, Speculative
    <3>2. PICK gen \in Nat : gen = Max({1, Room(r)})
      <4>1. Room(r) \in Int
        BY <1>2, <1>4, <1>8 DEF Room
      <4>2. Max({1, Room(r)}) = IF 1 >= Room(r) THEN 1 ELSE Room(r)
        BY <4>1, MaxOfTwo
      <4> QED
        BY <4>1, <4>2
    <3>3. PICK x : x = seeds[r]
      OBVIOUS
    <3>4. w = FirstSpecRow(r, x, gen)
      BY <1>2, <2>2, <3>1, <3>2, <3>3 DEF PlannedRow, Speculative, Prompt
    <3>5. /\ w \in RowType /\ w.prefix = case.prompts[r] /\ w.emitted = <<x>>
          /\ \/ ActiveOK(case, next, r, w, <<x>>)
             \/ DoneOK(case, next, r, w, <<x>>)
      <4>1. case.path = "online"
        BY DEF Online
      <4>2. x = Follow(next, Word)
        BY <3>1, <3>3
      <4> QED
        BY <1>4, <2>2, <3>4, <4>1, <4>2, FirstSpecRowIs
    <3>6. /\ <<x>> \in Seq(Tokens) /\ Len(<<x>>) = 1
          /\ Chain(case, next, <<x>>) /\ InTime(case, <<x>>)
      BY <1>4, <2>2, <3>1, <3>3, FirstToken
    <3>7. o \o w.emitted = <<x>>
      <4>1. <<>> \o <<x>> = <<x>>
        BY <3>6, JoinMore
      <4> QED
        BY <3>1, <3>5, <4>1
    <3>8. Holds(kv[r], case.prompts[r], w.prefix - case.prompts[r], <<x>>)
      <4>1. p - case.prompts[r] = 0 /\ w.prefix - case.prompts[r] = 0
        <5>1. PICK P \in Nat : P = case.prompts[r]
          BY <1>4
        <5>2. w.prefix = P /\ p = P
          BY <3>1, <3>5, <5>1
        <5> QED
          BY <5>1, <5>2
      <4> QED
        BY <1>6, <4>1 DEF Holds
    <3> QED
      BY <2>2, <3>1, <3>5, <3>6, <3>7, <3>8 DEF RunOK
  <2>3. CASE case.mode = "spec" /\ Len(o) > 0
    <3>1. p = case.prompts[r] + Len(o) - 1 /\ seeds[r] = Tip(o) /\ p = prefixes[r]
      BY <1>3, <1>5, <2>3 DEF RequestOK, Start, Speculative
    <3>2. w = SpecRow(p, seeds[r], Forced(o), <<>>)
      <4>1. out[r] # <<>>
        BY <1>2, <2>3
      <4> QED
        BY <1>2, <2>3, <3>1, <4>1 DEF PlannedRow, Speculative
    <3>3. /\ p \in Nat /\ p >= case.prompts[r] /\ p <= case.prompts[r] + case.gens[r]
          /\ Len(o) = p - case.prompts[r] + 1
      BY <1>4, <1>7, <1>8, <2>3, <3>1
    <3>4. PICK x : x = seeds[r]
      OBVIOUS
    <3>5. x = o[Len(o)]
      BY <1>8, <2>3, <3>1, <3>4 DEF Tip
    <3>6. Forced(o) \in {0, 1} /\ DraftStart(case, x, Forced(o), o)
      BY <1>4, <2>3, <3>5, ForcedDraft
    <3>7. PICK f \in {0, 1} : f = Forced(o)
      BY <3>6
    <3>8. Begins(r, SpecRow(p, x, f, <<>>), p, <<>>, o)
      BY <1>4, <1>8, <2>3, <3>3, <3>6, <3>7, SpecRowIs
    <3>9. w \in RowType /\ w.prefix = p /\ w.emitted = <<>> /\ w.st # "done"
          /\ RunOK(case, next, r, w, kv[r], o)
      BY <1>6, <1>7, <3>2, <3>4, <3>7, <3>8, BeginsRuns
    <3> QED
      BY <1>8, <3>9
  <2> QED
    BY <1>4, <1>8, <2>1, <2>2, <2>3, CaseIs
<1>10. Reaches(case, w, p, acquired[r] + reserve[r], L)
  <2>1. w.prefix \in Nat
    BY <1>9 DEF RowType
  <2> QED
    BY <1>4, <1>6, <1>9, <2>1 DEF Reaches
<1> QED
  BY <1>2, <1>3, <1>5, <1>7, <1>9, <1>10

LEMMA PlanDecodeInv ==
  ASSUME IInv, NEW S \in SUBSET Rows, PlanDecode(S)
  PROVE  IInv' /\ pc' = "loop"
<1> DEFINE rows == {r \in S : ~Skipped(r)}
<1>1. /\ Online /\ pc = "idle" /\ \A r \in S : filled[r] = Prompt(r)
      /\ called' = rows
      /\ acquired' = [r \in Rows |-> IF r \in rows THEN acquired[r] + reserve[r] ELSE acquired[r]]
      /\ reserve' = [r \in Rows |-> IF r \in rows THEN L ELSE reserve[r]]
      /\ IF \E r \in rows : seeds[r] = NoToken
         THEN pc' = "noseed" /\ UNCHANGED row
         ELSE /\ row' = [r \in Rows |-> IF r \in rows THEN PlannedRow(r) ELSE row[r]]
              /\ pc' = "loop"
      /\ UNCHANGED <<case, next, kv, out, fin, filled, seeds, prefixes, blocks>>
  BY DEF PlanDecode
<1>2. \A r \in rows : r \in Rows /\ r \in S /\ fin[r] = "none"
  BY DEF Skipped
<1>3. PICK T \in SUBSET Rows : T = rows
  BY <1>2
<1> HIDE DEF rows
<1>4. Types /\ Phases /\ called = {}
  <2>1. called = {}
    BY <1>1 DEF IInv, Phases
  <2> QED
    BY <2>1 DEF IInv
<1>5. /\ Rows' = Rows /\ (Online' <=> Online) /\ (Speculative' <=> Speculative)
      /\ \A q : Prompt(q)' = Prompt(q) /\ Width(q)' = Width(q)
  BY <1>1, SameState
<1>6. \A r \in T : r \in Rows /\ filled[r] = Prompt(r) /\ fin[r] = "none"
  BY <1>1, <1>2, <1>3
<1>7. \A r \in T : /\ seeds[r] \in Tokens /\ RequestOK(case, next, r, out[r], seeds[r], Start(r))
                   /\ PlannedRow(r) \in RowType
                   /\ RunOK(case, next, r, PlannedRow(r), kv[r], out[r] \o PlannedRow(r).emitted)
                   /\ Reaches(case, PlannedRow(r), Start(r), acquired[r] + reserve[r], L)
  BY <1>1, <1>6, PlannedRowIs
<1>8. ~\E r \in rows : seeds[r] = NoToken
  BY <1>3, <1>7, TokenAssumption
<1>9. /\ row' = [r \in Rows |-> IF r \in T THEN PlannedRow(r) ELSE row[r]]
      /\ pc' = "loop" /\ called' = T
      /\ acquired' = [r \in Rows |-> IF r \in T THEN acquired[r] + reserve[r] ELSE acquired[r]]
      /\ reserve' = [r \in Rows |-> IF r \in T THEN L ELSE reserve[r]]
  BY <1>1, <1>3, <1>8
<1>10. \A q \in Rows : q \notin T => SameRow(q)
  BY <1>1, <1>4, <1>9 DEF SameRow
<1>11. Types'
  <2>1. row' \in [Rows -> RowType]
    BY <1>4, <1>7, <1>9 DEF Types
  <2>2. acquired' \in [Rows -> Nat] /\ reserve' \in [Rows -> Nat]
    BY <1>4, <1>9, BlockLength DEF Types
  <2> QED
    BY <1>1, <1>4, <1>5, <1>9, <2>1, <2>2 DEF Types
<1>12. Phases'
  BY <1>1, <1>4, <1>5, <1>6, <1>9 DEF Phases
<1>13. \A q \in Rows : q \in T => RowInv(q)'
  <2> SUFFICES ASSUME NEW q \in Rows, q \in T PROVE RowInv(q)'
    OBVIOUS
  <2>1. PICK w : w = PlannedRow(q)
    OBVIOUS
  <2>2. /\ row'[q] = w /\ acquired'[q] = acquired[q] + reserve[q] /\ reserve'[q] = L
    BY <1>9, <2>1
  <2>3. Known(q)' = out[q] \o w.emitted
    BY <1>1, <1>5, <1>9, <2>2 DEF Known
  <2>4. Start(q)' = Start(q)
    BY <1>1, <1>5 DEF Start, BlockPrefix
  <2>5. /\ RequestOK(case, next, q, out[q], seeds[q], Start(q))
        /\ RunOK(case, next, q, w, kv[q], out[q] \o w.emitted)
        /\ Reaches(case, w, Start(q), acquired[q] + reserve[q], L)
        /\ filled[q] = Prompt(q) /\ fin[q] = "none"
    BY <1>6, <1>7, <2>1
  <2>6. RunningRow(q)'
    BY <1>1, <1>5, <2>2, <2>3, <2>4, <2>5, Zenon DEF RunningRow
  <2> QED
    BY <1>1, <1>9, <2>5, <2>6 DEF RowInv
<1> QED
  BY <1>5, <1>9, <1>10, <1>11, <1>12, <1>13, OthersKept

-----------------------------------------------------------------------------
(* The start, and the offline paths.                                       *)

LEMMA NoRowIs == NoRow \in RowType /\ NoRow.emitted = <<>> /\ NoRow.term = FALSE
<1>1. Seeded(Mask) \in [Pos -> Gen] /\ Mask \in Gen
  BY SeededIs DEF Gen
<1> QED
  BY <1>1 DEF NoRow, RowType

LEMMA InitInv ==
  ASSUME Init
  PROVE  IInv
<1>1. /\ case \in Cases /\ next \in [Tokens -> Tokens] /\ row = [r \in Rows |-> NoRow]
      /\ kv = [r \in Rows |-> [i \in 1..Width(r) |-> Mask]]
      /\ out = [r \in Rows |-> <<>>] /\ fin = [r \in Rows |-> "none"]
      /\ filled = [r \in Rows |-> 0]
      /\ seeds = [r \in Rows |-> NoToken] /\ prefixes = [r \in Rows |-> 0]
      /\ blocks = [r \in Rows |-> 0]
      /\ acquired = [r \in Rows |-> 0] /\ reserve = [r \in Rows |-> 0]
      /\ called = {} /\ pc = IF Online THEN "idle" ELSE "prefill"
  BY DEF Init
<1>2. \A r \in Rows : Prompt(r) \in Nat /\ Prompt(r) > 0 /\ Width(r) \in Nat
  <2> TAKE r \in Rows
  <2>1. case.prompts[r] \in Nat /\ case.prompts[r] > 0 /\ case.gens[r] \in Nat
    BY <1>1, CaseIs DEF Rows
  <2> QED
    BY <2>1, BlockLength DEF Prompt, Width
<1>3. 1 \in Rows
  BY <1>1, CaseIs DEF Rows
<1>4. Types
  <2>1. kv \in [Rows -> Seq(Gen)] /\ \A r \in Rows : DOMAIN kv[r] = 1..Width(r)
    <3>1. \A r \in Rows : kv[r] = [i \in 1..Width(r) |-> Mask]
      BY <1>1
    <3>2. \A r \in Rows : kv[r] \in Seq(Gen) /\ DOMAIN kv[r] = 1..Width(r)
      <4> TAKE r \in Rows
      <4>1. PICK n \in Nat : n = Width(r)
        BY <1>2
      <4>2. kv[r] = [i \in 1..n |-> Mask] /\ Mask \in Gen
        BY <3>1, <4>1 DEF Gen
      <4> QED
        BY <4>1, <4>2
    <3> QED
      BY <1>1, <3>2
  <2>2. row \in [Rows -> RowType]
    BY <1>1, NoRowIs
  <2>3. out \in [Rows -> Seq(Tokens)]
    BY <1>1
  <2> QED
    BY <1>1, <2>1, <2>2, <2>3 DEF Types
<1>5. Phases
  BY <1>1, <1>3 DEF Phases, Online
<1>6. \A r \in Rows : RowInv(r)
  <2> TAKE r \in Rows
  <2>1. /\ fin[r] = "none" /\ r \notin called /\ filled[r] = 0 /\ out[r] = <<>> /\ blocks[r] = 0
        /\ acquired[r] = 0 /\ row[r] = NoRow
    BY <1>1
  <2>2. Len(out[r]) = 0 /\ Len(row[r].emitted) = 0
    BY <2>1, NoRowIs
  <2>3. PrefillingRow(r) /\ FreshRow(r)
    BY <1>2, <2>1, <2>2 DEF PrefillingRow, FreshRow
  <2> QED
    BY <2>1, <2>3 DEF RowInv
<1> QED
  BY <1>4, <1>5, <1>6 DEF IInv

\* The row generate starts with.
LEMMA PrefillRowIs ==
  ASSUME IInv, ~Online, NEW r \in Rows, NEW w, w = PrefillRow(r),
         NEW k, \A i \in 1..case.prompts[r] : k[i] = Word
  PROVE  w \in RowType /\ RunOK(case, next, r, w, k, w.emitted)
<1>1. /\ case \in Cases /\ next \in [Tokens -> Tokens]
      /\ case.prompts[r] \in Nat /\ case.gens[r] \in Nat /\ L \in Nat
  BY StateIs DEF Prompt
<1>2. Holds(k, case.prompts[r], 0, w.emitted)
  BY DEF Holds
<1>3. /\ w.prefix = case.prompts[r] /\ w \in RowType
      /\ Chain(case, next, w.emitted) /\ InTime(case, w.emitted)
      /\ ActiveOK(case, next, r, w, w.emitted) \/ DoneOK(case, next, r, w, w.emitted)
  <2>1. PICK x : x = Sample(Word)
    OBVIOUS
  <2>2. x = Follow(next, Word)
    BY <2>1, SampleIs
  <2>3. Chain(case, next, <<>>) /\ InTime(case, <<>>) /\ <<>> \in Seq(Tokens) /\ Len(<<>>) = 0
    <3>1. Chain(case, next, <<>>) /\ InTime(case, <<>>)
      BY <1>1, <2>2, FirstToken
    <3> QED
      BY <3>1
  <2>4. CASE case.gens[r] = 0 /\ ~(Speculative /\ case.path = "batch")
    <3>1. w = [NoRow EXCEPT !.st = "done", !.prefix = case.prompts[r]]
      BY <2>4 DEF PrefillRow, Prompt
    <3>2. /\ w \in RowType /\ w.st = "done" /\ w.prefix = case.prompts[r] /\ w.emitted = <<>>
          /\ w.term = FALSE
      BY <1>1, <3>1, NoRowIs DEF RowType
    <3>3. Clean(case.stop[r], w.emitted)
      BY <3>2 DEF Clean
    <3>4. case.path # "online"
      BY DEF Online
    <3>5. DoneOK(case, next, r, w, w.emitted)
      BY <1>1, <2>3, <2>4, <3>2, <3>3, <3>4 DEF DoneOK
    <3> QED
      BY <2>3, <3>2, <3>5
  <2>5. CASE ~(case.gens[r] = 0 /\ ~(Speculative /\ case.path = "batch")) /\ case.mode = "spec"
    <3>1. PICK g \in Nat : g = case.gens[r]
      BY <1>1
    <3>2. w = FirstSpecRow(r, x, g)
      BY <2>1, <2>5, <3>1 DEF PrefillRow, Speculative
    <3>3. /\ w \in RowType /\ w.prefix = case.prompts[r] /\ w.emitted = <<x>>
          /\ \/ ActiveOK(case, next, r, w, <<x>>)
             \/ DoneOK(case, next, r, w, <<x>>)
      BY <1>1, <2>2, <2>5, <3>1, <3>2, FirstSpecRowIs
    <3>4. Chain(case, next, <<x>>) /\ InTime(case, <<x>>)
      BY <1>1, <2>2, <2>5, FirstToken
    <3> QED
      BY <3>3, <3>4
  <2>6. CASE ~(case.gens[r] = 0 /\ ~(Speculative /\ case.path = "batch")) /\ case.mode = "block"
    <3>1. w = BlockRow(r, case.prompts[r], x, <<>>, <<>>)
      BY <2>1, <2>6 DEF PrefillRow, Speculative, Prompt
    <3>2. x = Follow(next, Tip(<<>>))
      BY <2>2, <2>3 DEF Tip
    <3>3. Len(<<>>) = case.prompts[r] - case.prompts[r] /\ Len(<<>>) = 0 * L
      BY <1>1, <2>3
    <3>4. case.prompts[r] >= case.prompts[r] /\ case.prompts[r] <= case.prompts[r] + case.gens[r]
      BY <1>1
    <3>5. Begins(r, w, case.prompts[r], <<>>, <<>>)
      BY <1>1, <2>3, <2>6, <3>1, <3>2, <3>3, <3>4, BlockRowIs
    <3> QED
      BY <2>3, <3>5 DEF Begins
  <2> QED
    BY <1>1, <2>4, <2>5, <2>6, CaseIs
<1>4. w.prefix - case.prompts[r] = 0
  BY <1>1, <1>3
<1> QED
  BY <1>2, <1>3, <1>4 DEF RunOK

\* The rows generate takes are unfinished, and not those of its last call.
LEMMA OfflineRowsAre ==
  ASSUME IInv, pc = "prefill"
  PROVE  /\ ~Online /\ OfflineRows \in SUBSET Rows
         /\ \A r \in OfflineRows : fin[r] = "none" /\ r \notin called
         /\ case.path = "batch" => OfflineRows = Rows
<1>1. Phases
  BY DEF IInv
<1>2. ~Online
  BY <1>1 DEF Phases
<1>3. \A r \in called : fin[r] # "none"
  BY <1>1, <1>2 DEF Phases
<1>4. CASE case.path = "dense"
  <2> DEFINE T == {r \in Rows : fin[r] = "none"}
  <2>1. T # {}
    BY <1>1, <1>2 DEF Phases
  <2>2. T \in SUBSET Nat
    BY DEF Rows
  <2>3. Min(T) \in T
    <3> HIDE DEF T
    <3> QED
      BY <2>1, <2>2, MinIs
  <2>4. OfflineRows = {Min(T)}
    BY <1>4 DEF OfflineRows
  <2> QED
    BY <1>2, <1>3, <1>4, <2>3, <2>4
<1>5. CASE case.path # "dense"
  <2>1. case.path = "batch"
    <3>1. case \in Cases
      BY DEF IInv, Types
    <3> QED
      BY <1>2, <1>5, <3>1, CaseIs DEF Online
  <2>2. \A r \in Rows : fin[r] = "none"
    BY <1>1, <1>2, <2>1 DEF Phases
  <2> QED
    BY <1>2, <1>3, <1>5, <2>2 DEF OfflineRows
<1> QED
  BY <1>4, <1>5

LEMMA PrefillInv ==
  ASSUME IInv, Prefill
  PROVE  IInv'
<1>1. PICK S : S = OfflineRows
  OBVIOUS
<1>2. /\ pc = "prefill" /\ pc' = "loop" /\ called' = S
      /\ row' = [r \in Rows |-> IF r \in S THEN PrefillRow(r) ELSE row[r]]
      /\ kv' = [r \in Rows |-> IF r \in S THEN Written(r, 0, PromptTokens(Prompt(r))) ELSE kv[r]]
      /\ filled' = [r \in Rows |-> IF r \in S THEN Prompt(r) ELSE filled[r]]
      /\ UNCHANGED <<case, next, out, fin, seeds, prefixes, blocks, acquired, reserve>>
  BY <1>1 DEF Prefill
<1>3. /\ ~Online /\ S \in SUBSET Rows /\ \A r \in S : fin[r] = "none" /\ r \notin called
      /\ case.path = "batch" => S = Rows
  BY <1>1, <1>2, OfflineRowsAre
<1>4. Types /\ Phases /\ \A q \in Rows : RowInv(q)
  BY DEF IInv
<1>5. /\ Rows' = Rows /\ (Online' <=> Online)
      /\ \A q : Prompt(q)' = Prompt(q) /\ Width(q)' = Width(q)
  BY <1>2, SameState
<1>6. \A r \in S : LET k == Written(r, 0, PromptTokens(Prompt(r)))
                   IN /\ k \in Seq(Gen) /\ DOMAIN k = DOMAIN kv[r]
                      /\ \A i \in 1..Prompt(r) : k[i] = Word
  <2> TAKE r \in S
  <2>1. /\ r \in Rows /\ kv[r] \in Seq(Gen) /\ Len(kv[r]) = Width(r) /\ Prompt(r) \in Nat
        /\ case.gens[r] \in Nat /\ L \in Nat
    BY <1>3, StateIs
  <2>2. 0 + Prompt(r) <= Len(kv[r]) /\ 0 + Prompt(r) = Prompt(r)
    BY <2>1 DEF Width
  <2>3. PICK k : k = Wrote(kv[r], 0, PromptTokens(Prompt(r)))
    OBVIOUS
  <2>4. /\ k \in Seq(Gen) /\ DOMAIN k = DOMAIN kv[r]
        /\ \A i \in 1..(0 + Prompt(r)) : k[i] = Word
    BY <2>1, <2>2, <2>3, PromptWritten
  <2> QED
    BY <2>2, <2>3, <2>4, WrittenIs
<1>7. \A r \in S : PrefillRow(r) \in RowType
                   /\ RunOK(case, next, r, PrefillRow(r), kv'[r], PrefillRow(r).emitted)
  <2> TAKE r \in S
  <2>1. r \in Rows /\ kv'[r] = Written(r, 0, PromptTokens(Prompt(r)))
    BY <1>2, <1>3
  <2>2. \A i \in 1..case.prompts[r] : kv'[r][i] = Word
    BY <1>6, <2>1 DEF Prompt
  <2>3. PICK k : k = kv'[r]
    OBVIOUS
  <2> QED
    BY <1>3, <2>1, <2>2, <2>3, PrefillRowIs
<1>8. Types'
  <2>1. row' \in [Rows -> RowType]
    BY <1>2, <1>4, <1>7 DEF Types
  <2>2. \A q \in Rows : kv'[q] \in Seq(Gen) /\ DOMAIN kv'[q] = 1..Width(q)
    <3> TAKE q \in Rows
    <3>1. CASE q \in S
      BY <1>2, <1>4, <1>6, <3>1 DEF Types
    <3>2. CASE q \notin S
      BY <1>2, <1>4, <3>2 DEF Types
    <3> QED
      BY <3>1, <3>2
  <2>3. kv' \in [Rows -> Seq(Gen)]
    BY <1>2, <2>2
  <2>4. filled' \in [Rows -> Nat]
    BY <1>2, <1>4, StateIs DEF Types
  <2> QED
    BY <1>2, <1>3, <1>4, <1>5, <2>1, <2>2, <2>3, <2>4 DEF Types
<1>9. Phases'
  BY <1>2, <1>3, <1>5 DEF Phases
<1>10. \A q \in Rows : RowInv(q)'
  <2> TAKE q \in Rows
  <2>1. CASE q \in S
    <3>1. PICK w : w = PrefillRow(q)
      OBVIOUS
    <3>2. row'[q] = w /\ filled'[q] = Prompt(q) /\ fin'[q] = "none"
      BY <1>2, <1>3, <2>1, <3>1
    <3>3. Known(q)' = w.emitted
      BY <1>3, <1>5, <3>2 DEF Known
    <3>4. RunOK(case, next, q, w, kv'[q], w.emitted)
      BY <1>7, <2>1, <3>1
    <3>5. Len(out[q]) = 0
      BY <1>3, <1>4, <2>1 DEF RowInv, FreshRow
    <3>6. RunningRow(q)'
      BY <1>2, <1>3, <1>5, <3>2, <3>3, <3>4, <3>5, Zenon DEF RunningRow
    <3> QED
      BY <1>2, <2>1, <3>2, <3>6 DEF RowInv
  <2>2. CASE q \notin S
    <3>1. row'[q] = row[q] /\ filled'[q] = filled[q] /\ fin'[q] = fin[q] /\ out'[q] = out[q]
      BY <1>2, <2>2
    <3>2. Known(q)' = Known(q)
      BY <1>3, <1>5, <3>1 DEF Known
    <3>3. fin[q] # "none" => EndedOK(case, q, out[q], fin[q]) /\ Chain(case, next, Known(q))
      BY <1>4 DEF RowInv
    <3>4. fin[q] = "none" => FreshRow(q)
      <4>1. fin[q] = "none" => q \notin called
        BY <1>2, <1>3, <1>4 DEF Phases
      <4> QED
        BY <1>3, <1>4, <4>1 DEF RowInv
    <3>5. FreshRow(q) => FreshRow(q)'
      BY <3>1 DEF FreshRow
    <3> QED
      BY <1>2, <1>3, <1>5, <2>2, <3>1, <3>2, <3>3, <3>4, <3>5, Zenon DEF RowInv
  <2> QED
    BY <2>1, <2>2
<1> QED
  BY <1>5, <1>8, <1>9, <1>10 DEF IInv

-----------------------------------------------------------------------------
(* What is returned.                                                       *)

LEMMA TakenIs ==
  ASSUME NEW e \in Seq(Gen), NEW room \in Nat, NEW t, t = SubSeq(e, 1, Min({room, Len(e)}))
  PROVE  /\ t \in Seq(Gen) /\ PrefixOf(t, e) /\ Len(t) <= room
         /\ room <= Len(e) => Len(t) = room
         /\ Len(e) <= room => t = e
<1>1. Len(e) \in Nat
  OBVIOUS
<1>2. PICK m \in Nat : m = Min({room, Len(e)}) /\ m = IF room <= Len(e) THEN room ELSE Len(e)
  BY <1>1, MinOfTwo
<1>3. m <= Len(e) /\ m <= room
  BY <1>1, <1>2
<1>4. t \in Seq(Gen) /\ Len(t) = m /\ \A i \in 1..m : t[i] = e[i]
  BY <1>2, <1>3, PartIs
<1>5. PrefixOf(t, e)
  BY <1>3, <1>4 DEF PrefixOf
<1>6. Len(e) <= room => t = e
  <2>1. Len(e) <= room => m = Len(e)
    BY <1>1, <1>2
  <2> QED
    BY <1>4, <2>1
<1> QED
  BY <1>2, <1>3, <1>4, <1>5, <1>6

LEMMA PrefixThrough ==
  ASSUME NEW a \in Seq(Gen), NEW b \in Seq(Gen), NEW d \in Seq(Gen), PrefixOf(a, b), PrefixOf(b, d)
  PROVE  PrefixOf(a, d)
<1>1. Len(a) \in Nat /\ Len(b) \in Nat /\ Len(d) \in Nat
  OBVIOUS
<1> QED
  BY <1>1 DEF PrefixOf

\* A row whose launch is over.
LEMMA DoneRow ==
  ASSUME IInv, LoopDone, NEW r \in Rows, r \in called
  PROVE  /\ fin[r] = "none" /\ RunningRow(r) /\ row[r].st = "done"
         /\ DoneOK(case, next, r, row[r], Known(r))
         /\ Chain(case, next, Known(r)) /\ InTime(case, Known(r))
         /\ Holds(kv[r], case.prompts[r], row[r].prefix - case.prompts[r], Known(r))
         /\ Known(r) = Base(r) \o row[r].emitted /\ Known(r) \in Seq(Gen)
<1>1. pc = "loop" /\ row[r].st = "done"
  BY DEF LoopDone
<1>2. fin[r] = "none" /\ RunningRow(r) /\ RunOK(case, next, r, row[r], kv[r], Known(r))
  BY <1>1, LaunchOf
<1>3. ~ActiveOK(case, next, r, row[r], Known(r))
  BY <1>1 DEF ActiveOK
<1>4. Known(r) = Base(r) \o row[r].emitted
  BY KnownIs
<1>5. PICK a \in Seq(Gen) : a = Base(r)
  BY StateIs, TokensSeq
<1>6. PICK e \in Seq(Gen) : e = row[r].emitted
  BY StateIs
<1>7. a \o e \in Seq(Gen)
  BY JoinIs
<1> QED
  BY <1>1, <1>2, <1>3, <1>4, <1>5, <1>6, <1>7 DEF RunOK

\* What is taken of a finished launch ends it or is all of it.
LEMMA TakenDone ==
  ASSUME IInv, LoopDone, NEW r \in Rows, r \in called, NEW room \in Nat,
         NEW t, t = Taken(r, room), NEW o,
         o = Kept(UntilEos(t, case.stop[r]), case.stop[r]) \/ o = Kept(BeforeEos(t, case.stop[r]), case.stop[r])
  PROVE  /\ t \in Seq(Gen) /\ Len(t) <= room /\ Clean(case.stop[r], t)
         /\ o \in Seq(Tokens) /\ PrefixOf(o, row[r].emitted)
         /\ case.stop[r] => \A i \in 1..Len(o) : o[i] # Eos
         /\ (case.stop[r] /\ Eos \in Range(t)) <=> Stops(t, case.stop[r])
         /\ Stops(t, case.stop[r]) => Len(o) < room
         /\ ~Stops(t, case.stop[r]) => o = t
         /\ ~Stops(t, case.stop[r]) /\ Len(t) < room => t = row[r].emitted /\ ~row[r].term
<1>1. PICK e \in Seq(Gen) : e = row[r].emitted
  BY StateIs
<1>2. PICK stop \in BOOLEAN : stop = case.stop[r]
  BY StateIs
<1>3. /\ t \in Seq(Gen) /\ PrefixOf(t, e) /\ Len(t) <= room
      /\ room <= Len(e) => Len(t) = room
      /\ Len(e) <= room => t = e
  <2>1. t = SubSeq(e, 1, Min({room, Len(e)}))
    BY <1>1 DEF Taken
  <2> QED
    BY <2>1, TakenIs
<1>4. Clean(stop, e) /\ (row[r].term => stop /\ \E i \in 1..Len(e) : e[i] = Eos)
  BY <1>1, <1>2, DoneRow DEF DoneOK
<1>5. Clean(stop, t)
  BY <1>3, <1>4, CleanPart
<1>6. /\ o \in Seq(Tokens) /\ PrefixOf(o, t)
      /\ stop => \A i \in 1..Len(o) : o[i] # Eos
      /\ Stops(t, stop) => Len(o) < Len(t)
      /\ ~Stops(t, stop) => o = t
  BY <1>2, <1>3, <1>5, OutputIs
<1>7. PrefixOf(o, e)
  BY <1>3, <1>6, TokensSeq, PrefixThrough
<1>8. (stop /\ Eos \in Range(t)) <=> Stops(t, stop)
  BY <1>3, InRange DEF Stops
<1>9. Len(t) \in Nat /\ Len(o) \in Nat /\ Len(e) \in Nat
  BY <1>3, <1>6
<1>10. Stops(t, stop) => Len(o) < room
  BY <1>3, <1>6, <1>9
<1>11. ~Stops(t, stop) /\ Len(t) < room => t = e /\ ~row[r].term
  <2> SUFFICES ASSUME ~Stops(t, stop), Len(t) < room PROVE t = e /\ ~row[r].term
    OBVIOUS
  <2>1. t = e
    BY <1>3, <1>9
  <2> QED
    BY <1>4, <2>1 DEF Stops
<1> QED
  BY <1>1, <1>2, <1>3, <1>5, <1>6, <1>7, <1>8, <1>10, <1>11

LEMMA AssembledRow ==
  ASSUME IInv, LoopDone, ~Online, NEW r \in Rows, r \in called, NEW o, o = Returned(r),
         NEW f, f = IF case.stop[r] /\ Eos \in Range(Taken(r, case.gens[r])) THEN "stop" ELSE "length"
  PROVE  o \in Seq(Tokens) /\ EndedOK(case, r, o, f) /\ Chain(case, next, Known(r))
<1>1. PICK g \in Nat : g = case.gens[r]
  BY StateIs
<1>2. PICK t : t = Taken(r, g)
  OBVIOUS
<1>3. o = Kept(UntilEos(t, case.stop[r]), case.stop[r])
  BY <1>1, <1>2 DEF Returned
<1>4. /\ t \in Seq(Gen) /\ Len(t) <= g
      /\ o \in Seq(Tokens) /\ PrefixOf(o, row[r].emitted)
      /\ case.stop[r] => \A i \in 1..Len(o) : o[i] # Eos
      /\ (case.stop[r] /\ Eos \in Range(t)) <=> Stops(t, case.stop[r])
      /\ Stops(t, case.stop[r]) => Len(o) < g
      /\ ~Stops(t, case.stop[r]) => o = t
      /\ ~Stops(t, case.stop[r]) /\ Len(t) < g => t = row[r].emitted /\ ~row[r].term
  BY <1>2, <1>3, TakenDone
<1>5. PICK e \in Seq(Gen) : e = row[r].emitted
  BY StateIs
<1>6. Known(r) = e /\ InTime(case, e) /\ Chain(case, next, e)
  <2>1. Known(r) = e
    BY <1>5 DEF Known
  <2> QED
    BY <2>1, DoneRow
<1>7. InTime(case, o)
  BY <1>4, <1>5, <1>6, TokensSeq, InTimePart, StateIs
<1>8. Published(case, r, o)
  BY <1>4, <1>7 DEF Published
<1>9. row[r].term \/ Len(e) >= g
  BY <1>1, <1>5, DoneRow DEF DoneOK, Online
<1>10. f = "length" => Len(o) = g
  <2> SUFFICES ASSUME f = "length" PROVE Len(o) = g
    OBVIOUS
  <2>1. ~Stops(t, case.stop[r])
    BY <1>1, <1>2, <1>4
  <2>2. o = t /\ Len(t) \in Nat /\ Len(e) \in Nat
    BY <1>4, <2>1
  <2>3. ~(Len(t) < g)
    BY <1>4, <1>5, <1>9, <2>1, <2>2
  <2> QED
    BY <1>4, <2>2, <2>3
<1>11. f = "stop" => Len(o) < g
  BY <1>1, <1>2, <1>4
<1> QED
  BY <1>1, <1>4, <1>6, <1>8, <1>10, <1>11 DEF EndedOK

LEMMA AssembleInv ==
  ASSUME IInv, Assemble
  PROVE  IInv'
<1> DEFINE f(r) == IF case.stop[r] /\ Eos \in Range(Taken(r, case.gens[r])) THEN "stop" ELSE "length"
<1>1. /\ LoopDone /\ ~Online
      /\ out' = [r \in Rows |-> IF r \in called THEN Returned(r) ELSE out[r]]
      /\ fin' = [r \in Rows |-> IF r \notin called THEN fin[r] ELSE f(r)]
      /\ pc' = IF \E r \in Rows \ called : fin[r] = "none" THEN "prefill" ELSE "done"
      /\ UNCHANGED <<case, next, row, kv, filled, seeds, prefixes, blocks, acquired, reserve, called>>
  BY DEF Assemble
<1>2. Types /\ Phases /\ called \in SUBSET Rows /\ pc = "loop"
  BY <1>1 DEF IInv, Types, LoopDone
<1>3. \A r \in Rows : f(r) \in {"stop", "length"}
  OBVIOUS
<1>4. \A r \in called : /\ Returned(r) \in Seq(Tokens) /\ EndedOK(case, r, Returned(r), f(r))
                        /\ Chain(case, next, Known(r))
  BY <1>1, <1>2, AssembledRow
<1> HIDE DEF f
<1>5. /\ Rows' = Rows /\ (Online' <=> Online)
      /\ \A q : Prompt(q)' = Prompt(q) /\ Width(q)' = Width(q)
  BY <1>1, SameState
<1>6. \A q \in Rows : q \notin called => SameRow(q)
  BY <1>1, <1>2 DEF SameRow
<1>7. Types'
  <2>1. out' \in [Rows -> Seq(Tokens)]
    BY <1>1, <1>2, <1>4 DEF Types
  <2>2. fin' \in [Rows -> {"none", "stop", "length", "abort"}]
    BY <1>1, <1>2, <1>3 DEF Types
  <2> QED
    BY <1>1, <1>2, <1>5, <2>1, <2>2 DEF Types
<1>8. Phases'
  <2>1. \A r \in called : fin'[r] # "none"
    BY <1>1, <1>2, <1>3
  <2>2. case.path = "batch" => called = Rows
    BY <1>1, <1>2 DEF Phases
  <2>3. pc' = "prefill" => \E r \in Rows : fin'[r] = "none"
    BY <1>1
  <2>4. pc' \in {"prefill", "done"} /\ (case.path = "batch" => pc' = "done")
    BY <1>1, <2>2
  <2> QED
    BY <1>1, <1>5, <2>1, <2>3, <2>4 DEF Phases
<1>9. \A q \in Rows : q \in called => RowInv(q)'
  <2> SUFFICES ASSUME NEW q \in Rows, q \in called PROVE RowInv(q)'
    OBVIOUS
  <2>1. out'[q] = Returned(q) /\ fin'[q] = f(q) /\ fin'[q] # "none"
    BY <1>1, <1>3
  <2>2. Known(q)' = Known(q)
    BY <1>1, <1>5 DEF Known
  <2>3. EndedOK(case, q, Returned(q), f(q)) /\ Chain(case, next, Known(q))
    BY <1>4
  <2> QED
    BY <1>1, <2>1, <2>2, <2>3, Zenon DEF RowInv
<1> QED
  BY <1>5, <1>6, <1>7, <1>8, <1>9, OthersKept

\* What a plan publishes of a row, and why the row ends.
NewOf(r) == Kept(BeforeEos(Taken(r, Max({0, Room(r)})), case.stop[r]), case.stop[r])
ReasonOf(r) ==
  IF case.stop[r] /\ Eos \in Range(Taken(r, Max({0, Room(r)}))) THEN "stop"
  ELSE IF Len(out[r]) + Len(NewOf(r)) >= case.gens[r] THEN "length" ELSE "none"
ReserveOf(r) == IF Reserve(r) > 0 THEN Reserve(r) ELSE reserve[r]

LEMMA RoomIs ==
  ASSUME IInv, pc = "loop", Online, NEW r \in Rows, r \in called
  PROVE  /\ RequestOK(case, next, r, out[r], seeds[r], Start(r))
         /\ Room(r) \in Nat /\ Max({0, Room(r)}) = Room(r) /\ Len(out[r]) + Room(r) = case.gens[r]
<1>1. RequestOK(case, next, r, out[r], seeds[r], Start(r))
  BY LaunchOf DEF RunningRow
<1>2. Len(out[r]) < case.gens[r]
  BY <1>1 DEF RequestOK
<1>3. Len(out[r]) \in Nat /\ case.gens[r] \in Nat
  BY StateIs
<1>4. Room(r) \in Int /\ Room(r) > 0 /\ Len(out[r]) + Room(r) = case.gens[r]
  BY <1>2, <1>3 DEF Room
<1>5. Max({0, Room(r)}) = IF 0 >= Room(r) THEN 0 ELSE Room(r)
  BY <1>4, MaxOfTwo
<1> QED
  BY <1>1, <1>4, <1>5

\* The request after a launch that does not end it.
LEMMA GoesOnWaits ==
  ASSUME IInv, LoopDone, Online, NEW r \in Rows, r \in called, ~row[r].term,
         NEW o, o = Known(r), o \in Seq(Tokens), Published(case, r, o), Len(o) < case.gens[r]
  PROVE  /\ RequestOK(case, next, r, o, row[r].seed, row[r].prefix)
         /\ Ahead(acquired[r] + ReserveOf(r), row[r].prefix) /\ ReserveOf(r) \in Nat
         /\ ~Speculative => row[r].prefix = Prompt(r) + (blocks[r] + 1) * L
<1>1. PICK p \in Nat : p = row[r].prefix
  BY StateIs
<1>2. /\ case.prompts[r] \in Nat /\ L \in Nat /\ L > 0 /\ blocks[r] \in Nat /\ prefixes[r] \in Nat
      /\ acquired[r] \in Nat /\ reserve[r] \in Nat /\ case \in Cases /\ next \in [Tokens -> Tokens]
  BY StateIs DEF Prompt
<1>3. GoesOn(case, next, row[r], p - case.prompts[r], o) /\ p >= case.prompts[r]
  BY <1>1, DoneRow DEF DoneOK, Online
<1>4. Chain(case, next, o)
  BY DoneRow
<1>5. case.mode \in {"block", "spec"}
  BY <1>2, CaseIs
<1>6. PICK q \in Nat : q = Start(r)
  <2>1. PICK x \in Nat : x = blocks[r] * L
    BY <1>2
  <2>2. Start(r) = prefixes[r] \/ Start(r) = case.prompts[r] + x
    BY <2>1 DEF Start, BlockPrefix, Prompt
  <2> QED
    BY <1>2, <2>2
<1>7. /\ acquired[r] >= q + 2 * L /\ reserve[r] = L /\ p >= q /\ p <= q + L
      /\ case.mode = "block" => p = q + L
  BY <1>1, <1>6, DoneRow DEF RunningRow, Reaches, Ahead
<1>8. Len(o) \in Nat
  OBVIOUS
<1>9. RequestOK(case, next, r, o, row[r].seed, p)
  <2>1. CASE case.mode = "block"
    <3>1. Len(o) = p - case.prompts[r] /\ row[r].seed = Follow(next, Tip(o))
      BY <1>3, <2>1 DEF GoesOn
    <3>2. Tip(o) \in Gen
      BY <1>8, MaskApart DEF Tip, Gen
    <3>3. row[r].seed \in Tokens
      BY <1>2, <3>1, <3>2, FollowIs
    <3>4. p = case.prompts[r] + Len(o)
      BY <1>2, <3>1
    <3> QED
      BY <1>4, <2>1, <3>1, <3>3, <3>4 DEF RequestOK
  <2>2. CASE case.mode = "spec"
    <3>1. Len(o) = p - case.prompts[r] + 1 /\ row[r].seed = Tip(o)
      BY <1>3, <2>2 DEF GoesOn
    <3>2. Len(o) > 0 /\ p = case.prompts[r] + Len(o) - 1
      BY <1>2, <1>3, <3>1
    <3>3. row[r].seed \in Tokens
      BY <1>8, <3>1, <3>2 DEF Tip
    <3> QED
      BY <1>4, <2>2, <3>1, <3>2, <3>3 DEF RequestOK
  <2> QED
    BY <1>5, <2>1, <2>2
<1>10. Ahead(acquired[r] + ReserveOf(r), p) /\ ReserveOf(r) \in Nat
  <2>1. CASE case.mode = "block"
    <3>1. ReserveOf(r) = L
      BY <1>2, <2>1 DEF ReserveOf, Reserve, Speculative
    <3> QED
      BY <1>2, <1>7, <2>1, <3>1 DEF Ahead
  <2>2. CASE case.mode = "spec"
    <3>1. q = prefixes[r] /\ Reserve(r) = p - q
      BY <1>1, <1>6, <2>2 DEF Start, Speculative, Reserve
    <3>2. ReserveOf(r) = IF p - q > 0 THEN p - q ELSE L
      BY <1>7, <3>1 DEF ReserveOf
    <3> QED
      BY <1>2, <1>7, <3>2 DEF Ahead
  <2> QED
    BY <1>5, <2>1, <2>2
<1>11. ~Speculative => p = Prompt(r) + (blocks[r] + 1) * L
  <2> SUFFICES ASSUME ~Speculative PROVE p = Prompt(r) + (blocks[r] + 1) * L
    OBVIOUS
  <2>1. q = Prompt(r) + blocks[r] * L /\ p = q + L
    BY <1>5, <1>6, <1>7 DEF Start, BlockPrefix, Speculative
  <2>2. PICK b \in Nat : b = blocks[r]
    BY <1>2
  <2>3. PICK x \in Nat : x = b * L
    BY <1>2
  <2>4. (b + 1) * L = x + L
    BY <1>2, <2>3
  <2>5. PICK a \in Nat : a = Prompt(r)
    BY <1>2 DEF Prompt
  <2>6. q = a + x
    BY <2>1, <2>2, <2>3, <2>5
  <2>7. p = a + (x + L)
    BY <1>2, <2>1, <2>6
  <2> QED
    BY <2>2, <2>4, <2>5, <2>7
<1> QED
  BY <1>1, <1>9, <1>10, <1>11

LEMMA PublishedRow ==
  ASSUME IInv, LoopDone, Online, NEW r \in Rows, r \in called, NEW o, o = out[r] \o NewOf(r)
  PROVE  /\ o \in Seq(Tokens) /\ ReasonOf(r) \in {"stop", "length", "none"}
         /\ ReasonOf(r) # "none" => EndedOK(case, r, o, ReasonOf(r)) /\ Chain(case, next, o)
         /\ ReasonOf(r) = "none" =>
              /\ RequestOK(case, next, r, o, row[r].seed, row[r].prefix)
              /\ Holds(kv[r], Prompt(r), row[r].prefix - Prompt(r), o)
              /\ Ahead(acquired[r] + ReserveOf(r), row[r].prefix) /\ ReserveOf(r) \in Nat
              /\ ~Speculative => row[r].prefix = Prompt(r) + (blocks[r] + 1) * L
<1>1. pc = "loop"
  BY DEF LoopDone
<1>2. PICK room \in Nat : room = Room(r) /\ Max({0, Room(r)}) = room /\ Len(out[r]) + room = case.gens[r]
  BY <1>1, RoomIs
<1>3. PICK t : t = Taken(r, room)
  OBVIOUS
<1>4. PICK new : new = Kept(BeforeEos(t, case.stop[r]), case.stop[r])
  OBVIOUS
<1>5. /\ t \in Seq(Gen) /\ Len(t) <= room
      /\ new \in Seq(Tokens) /\ PrefixOf(new, row[r].emitted)
      /\ case.stop[r] => \A i \in 1..Len(new) : new[i] # Eos
      /\ (case.stop[r] /\ Eos \in Range(t)) <=> Stops(t, case.stop[r])
      /\ Stops(t, case.stop[r]) => Len(new) < room
      /\ ~Stops(t, case.stop[r]) => new = t
      /\ ~Stops(t, case.stop[r]) /\ Len(t) < room => t = row[r].emitted /\ ~row[r].term
  <2>1. \/ new = Kept(UntilEos(t, case.stop[r]), case.stop[r])
        \/ new = Kept(BeforeEos(t, case.stop[r]), case.stop[r])
    BY <1>4
  <2> HIDE <1>4
  <2> QED
    BY <1>3, <2>1, TakenDone
<1>6. NewOf(r) = new
  BY <1>2, <1>3, <1>4 DEF NewOf
<1>7. PICK f : f = ReasonOf(r)
  OBVIOUS
<1>8. PICK a \in Seq(Tokens) : a = out[r]
  BY StateIs
<1>9. f = IF Stops(t, case.stop[r]) THEN "stop"
          ELSE IF Len(a) + Len(new) >= case.gens[r] THEN "length" ELSE "none"
  BY <1>2, <1>3, <1>5, <1>6, <1>7, <1>8 DEF ReasonOf
<1>10. PICK e \in Seq(Gen) : e = row[r].emitted
  BY StateIs
<1>11. a \in Seq(Gen) /\ new \in Seq(Gen)
  BY <1>5, TokensSeq
<1>12. Known(r) = a \o e /\ a \o e \in Seq(Gen)
  <2>1. Known(r) = a \o e
    BY <1>8, <1>10 DEF Known
  <2> QED
    BY <2>1, DoneRow
<1>13. o = a \o new /\ o \in Seq(Tokens) /\ Len(o) = Len(a) + Len(new) /\ o \in Seq(Gen)
       /\ Len(a) \in Nat /\ Len(new) \in Nat /\ Len(t) \in Nat /\ case.gens[r] \in Nat
  <2>1. o = a \o new
    BY <1>6, <1>8
  <2>2. o \in Seq(Tokens) /\ Len(o) = Len(a) + Len(new) /\ Len(a) \in Nat /\ Len(new) \in Nat
    BY <1>5, <2>1, JoinIs
  <2> QED
    BY <1>5, <2>1, <2>2, TokensSeq, StateIs
<1>14. PrefixOf(o, a \o e)
  BY <1>5, <1>10, <1>11, <1>13, JoinPrefix
<1>15. Chain(case, next, o) /\ InTime(case, o)
  <2>1. Chain(case, next, a \o e) /\ InTime(case, a \o e) /\ case \in Cases
    BY <1>12, DoneRow, StateIs
  <2> QED
    BY <1>12, <1>13, <1>14, <2>1, ChainPart, InTimePart
<1>16. Published(case, r, o)
  <2>1. case.stop[r] => \A i \in 1..Len(a) : a[i] # Eos
    BY <1>1, <1>8, RoomIs DEF RequestOK, Published
  <2>2. case.stop[r] => \A i \in 1..Len(o) : o[i] # Eos
    <3> SUFFICES ASSUME case.stop[r], NEW i \in 1..Len(o) PROVE o[i] # Eos
      OBVIOUS
    <3>1. CASE i \in 1..Len(a)
      BY <1>5, <1>13, <2>1, <3>1, JoinIs
    <3>2. CASE i \notin 1..Len(a)
      <4>1. PICK j \in 1..Len(new) : i = Len(a) + j
        <5>1. PICK x \in Nat, y \in Nat : x = Len(a) /\ y = Len(new)
          BY <1>13
        <5>2. i \in 1..(x + y)
          BY <1>13, <5>1
        <5>3. i \in 1..x \/ \E k \in 1..y : i = x + k
          BY <5>2, JoinAt
        <5> QED
          BY <3>2, <5>1, <5>3
      <4>2. o[i] = new[j]
        BY <1>5, <1>13, <4>1, JoinIs
      <4> QED
        BY <1>5, <4>2
    <3> QED
      BY <3>1, <3>2
  <2> QED
    BY <1>13, <1>15, <2>2 DEF Published
<1>17. f = "stop" => Len(o) < case.gens[r]
  BY <1>2, <1>5, <1>8, <1>9, <1>13
<1>18. f = "length" => Len(o) = case.gens[r]
  <2> SUFFICES ASSUME f = "length" PROVE Len(o) = case.gens[r]
    OBVIOUS
  <2>1. new = t /\ Len(a) + Len(new) >= case.gens[r]
    BY <1>5, <1>9
  <2>2. Len(new) <= room /\ Len(a) + room = case.gens[r]
    BY <1>2, <1>5, <1>8, <2>1
  <2>3. PICK x \in Nat, y \in Nat, g \in Nat : x = Len(a) /\ y = Len(new) /\ g = case.gens[r]
    BY <1>13
  <2>4. Len(o) = x + y /\ x + y >= g /\ y <= room /\ x + room = g
    BY <1>13, <2>1, <2>2, <2>3
  <2>5. x + y = g
    BY <2>4
  <2> QED
    BY <2>3, <2>4, <2>5
<1>19. f # "none" => EndedOK(case, r, o, f)
  BY <1>16, <1>17, <1>18 DEF EndedOK
<1>20. f = "none" => o = Known(r) /\ ~row[r].term /\ Len(o) < case.gens[r]
  <2> SUFFICES ASSUME f = "none" PROVE o = Known(r) /\ ~row[r].term /\ Len(o) < case.gens[r]
    OBVIOUS
  <2>1. ~Stops(t, case.stop[r]) /\ ~(Len(a) + Len(new) >= case.gens[r])
    BY <1>9
  <2>2. new = t /\ Len(t) < room
    BY <1>2, <1>5, <1>8, <1>13, <2>1
  <2>3. t = e /\ ~row[r].term
    BY <1>5, <1>10, <2>1, <2>2
  <2> QED
    BY <1>12, <1>13, <2>1, <2>2, <2>3
<1>21. f = "none" =>
         /\ RequestOK(case, next, r, o, row[r].seed, row[r].prefix)
         /\ Ahead(acquired[r] + ReserveOf(r), row[r].prefix) /\ ReserveOf(r) \in Nat
         /\ ~Speculative => row[r].prefix = Prompt(r) + (blocks[r] + 1) * L
  BY <1>13, <1>16, <1>20, GoesOnWaits
<1>22. f = "none" => Holds(kv[r], Prompt(r), row[r].prefix - Prompt(r), o)
  BY <1>20, DoneRow DEF Prompt
<1> QED
  BY <1>7, <1>9, <1>13, <1>15, <1>19, <1>21, <1>22

LEMMA PublishInv ==
  ASSUME IInv, Publish
  PROVE  IInv'
<1>1. /\ LoopDone /\ Online /\ called' = {}
      /\ UNCHANGED <<case, next, row, kv, filled, acquired>>
  BY DEF Publish
<1>2. called \in SUBSET Rows /\ Types /\ Phases
  BY DEF IInv, Types
<1>3. /\ out' = [r \in Rows |-> out[r] \o (IF r \in called THEN NewOf(r) ELSE <<>>)]
      /\ fin' = [r \in Rows |-> IF r \notin called THEN fin[r] ELSE ReasonOf(r)]
      /\ blocks' = [r \in Rows |-> IF r \in called /\ ~Speculative THEN blocks[r] + 1 ELSE blocks[r]]
      /\ seeds' = [r \in Rows |-> IF r \notin called THEN seeds[r]
                                  ELSE IF ReasonOf(r) # "none" THEN NoToken ELSE row[r].seed]
      /\ prefixes' = [r \in Rows |-> IF r \notin called \/ ~Speculative THEN prefixes[r]
                                     ELSE IF ReasonOf(r) # "none" THEN 0 ELSE row[r].prefix]
      /\ reserve' = [r \in Rows |-> IF r \in called /\ ReasonOf(r) = "none"
                                    THEN ReserveOf(r) ELSE reserve[r]]
      /\ pc' \in {"done", "idle"}
  BY DEF Publish, NewOf, ReasonOf, ReserveOf
<1>4. /\ Rows' = Rows /\ (Online' <=> Online) /\ (Speculative' <=> Speculative)
      /\ \A q : Prompt(q)' = Prompt(q) /\ Width(q)' = Width(q)
  BY <1>1, SameState
<1>5. \A r \in called :
         /\ out[r] \o NewOf(r) \in Seq(Tokens) /\ ReasonOf(r) \in {"stop", "length", "none"}
         /\ ReasonOf(r) # "none" => EndedOK(case, r, out[r] \o NewOf(r), ReasonOf(r))
                                    /\ Chain(case, next, out[r] \o NewOf(r))
         /\ ReasonOf(r) = "none" =>
              /\ RequestOK(case, next, r, out[r] \o NewOf(r), row[r].seed, row[r].prefix)
              /\ Holds(kv[r], Prompt(r), row[r].prefix - Prompt(r), out[r] \o NewOf(r))
              /\ Ahead(acquired[r] + ReserveOf(r), row[r].prefix) /\ ReserveOf(r) \in Nat
              /\ ~Speculative => row[r].prefix = Prompt(r) + (blocks[r] + 1) * L
  BY <1>1, <1>2, PublishedRow
<1>6. \A q \in Rows : out[q] \o <<>> = out[q] /\ out[q] \in Seq(Tokens)
  BY StateIs, JoinMore
<1>7. \A q \in Rows : out'[q] = IF q \in called THEN out[q] \o NewOf(q) ELSE out[q]
  BY <1>3, <1>6
<1>8. \A q \in Rows : q \notin called => SameRow(q)
  BY <1>1, <1>3, <1>7 DEF SameRow
<1>9. Types'
  <2>1. out' \in [Rows -> Seq(Tokens)]
    BY <1>3, <1>5, <1>6, <1>7
  <2>2. fin' \in [Rows -> {"none", "stop", "length", "abort"}] /\ blocks' \in [Rows -> Nat]
    BY <1>2, <1>3, <1>5 DEF Types
  <2>3. \A q \in Rows : seeds'[q] \in Tokens \cup {NoToken}
    <3> TAKE q \in Rows
    <3>1. q \in called /\ ReasonOf(q) = "none" => row[q].seed \in Tokens
      BY <1>5 DEF RequestOK
    <3> QED
      BY <1>2, <1>3, <3>1 DEF Types
  <2>4. \A q \in Rows : prefixes'[q] \in Nat /\ reserve'[q] \in Nat
    <3> TAKE q \in Rows
    <3>1. prefixes[q] \in Nat /\ reserve[q] \in Nat /\ row[q].prefix \in Nat
      BY StateIs
    <3> QED
      BY <1>3, <1>5, <3>1
  <2>5. seeds' \in [Rows -> Tokens \cup {NoToken}] /\ prefixes' \in [Rows -> Nat]
        /\ reserve' \in [Rows -> Nat]
    BY <1>3, <2>3, <2>4
  <2> QED
    BY <1>1, <1>2, <1>4, <2>1, <2>2, <2>5 DEF Types
<1>10. Phases'
  BY <1>1, <1>3, <1>4 DEF Phases
<1>11. \A q \in Rows : q \in called => RowInv(q)'
  <2> SUFFICES ASSUME NEW q \in Rows, q \in called PROVE RowInv(q)'
    OBVIOUS
  <2>1. PICK o : o = out[q] \o NewOf(q)
    OBVIOUS
  <2>2. out'[q] = o /\ fin'[q] = ReasonOf(q) /\ Known(q)' = o
    BY <1>1, <1>3, <1>4, <1>7, <2>1 DEF Known
  <2>3. CASE ReasonOf(q) # "none"
    <3>1. EndedOK(case, q, o, ReasonOf(q)) /\ Chain(case, next, o)
      BY <1>5, <2>1, <2>3
    <3> QED
      BY <1>1, <2>2, <2>3, <3>1, Zenon DEF RowInv
  <2>4. CASE ReasonOf(q) = "none"
    <3>1. /\ RequestOK(case, next, q, o, row[q].seed, row[q].prefix)
          /\ Holds(kv[q], Prompt(q), row[q].prefix - Prompt(q), o)
          /\ Ahead(acquired[q] + ReserveOf(q), row[q].prefix)
          /\ ~Speculative => row[q].prefix = Prompt(q) + (blocks[q] + 1) * L
      BY <1>5, <2>1, <2>4
    <3>2. seeds'[q] = row[q].seed /\ reserve'[q] = ReserveOf(q)
      BY <1>3, <2>4
    <3>3. Start(q)' = row[q].prefix
      <4>1. CASE Speculative
        BY <1>3, <1>4, <2>4, <4>1 DEF Start
      <4>2. CASE ~Speculative
        <5>1. blocks'[q] = blocks[q] + 1
          BY <1>3, <4>2
        <5> QED
          BY <1>4, <3>1, <4>2, <5>1 DEF Start, BlockPrefix
      <4> QED
        BY <4>1, <4>2
    <3>4. WaitingRow(q)'
      BY <1>1, <1>4, <2>2, <3>1, <3>2, <3>3, Zenon DEF WaitingRow
    <3>5. filled'[q] = Prompt(q)
      BY <1>1, DoneRow DEF RunningRow
    <3> QED
      BY <1>1, <1>4, <2>2, <2>4, <3>4, <3>5 DEF RowInv
  <2> QED
    BY <2>3, <2>4
<1> QED
  BY <1>4, <1>8, <1>9, <1>10, <1>11, OthersKept

-----------------------------------------------------------------------------
(* The invariant, and what follows from it.                                *)

LEMMA StutterInv ==
  ASSUME IInv, UNCHANGED vars
  PROVE  IInv'
<1>1. /\ case' = case /\ next' = next /\ row' = row /\ kv' = kv /\ out' = out /\ fin' = fin
      /\ filled' = filled /\ seeds' = seeds /\ prefixes' = prefixes /\ blocks' = blocks
      /\ acquired' = acquired /\ reserve' = reserve /\ called' = called /\ pc' = pc
  BY DEF vars
<1>2. /\ Rows' = Rows /\ (Online' <=> Online)
      /\ \A q : Prompt(q)' = Prompt(q) /\ Width(q)' = Width(q)
  BY <1>1, SameState
<1>3. \A q \in Rows : SameRow(q)
  BY <1>1 DEF SameRow
<1>4. Types' /\ Phases'
  BY <1>1, <1>2 DEF IInv, Types, Phases
<1> QED
  BY <1>2, <1>3, <1>4, RowKept DEF IInv

LEMMA NextInv ==
  ASSUME IInv, [Next]_vars
  PROVE  IInv'
<1>1. CASE Prefill
  BY <1>1, PrefillInv
<1>2. CASE \E r \in Rows : Denoise(r) \/ Commit(r) \/ Verify(r)
  BY <1>2, DenoiseInv, CommitInv, VerifyInv
<1>3. CASE Assemble
  BY <1>3, AssembleInv
<1>4. CASE Publish
  BY <1>4, PublishInv
<1>5. CASE \E r \in Rows : Abort(r)
  BY <1>5, AbortInv
<1>6. CASE \E r \in Rows : \E n \in 1..3 : PlanPrefill(r, n)
  BY <1>6, PlanPrefillInv
<1>7. CASE \E S \in SUBSET Rows : PlanDecode(S)
  BY <1>7, PlanDecodeInv
<1>8. CASE UNCHANGED vars
  BY <1>8, StutterInv
<1> QED
  BY <1>1, <1>2, <1>3, <1>4, <1>5, <1>6, <1>7, <1>8 DEF Next, LoopStep

\* The invariant of the runners holds in every reachable state: each row is
\* prefilling, waiting for a plan, in a launch or ended, and its output, its keys and
\* values, its seed and its pages are those that phase calls for (generate,
\* execute_paged_forward_plan).
THEOREM RunnersInvariant == Spec => []IInv
<1>1. Init => IInv
  BY InitInv
<1>2. IInv /\ [Next]_vars => IInv'
  BY NextInv
<1> QED
  BY <1>1, <1>2, PTL DEF Spec

LEMMA PublishedOK ==
  ASSUME IInv, NEW r \in Rows
  PROVE  Published(case, r, out[r])
<1>1. RowInv(r) /\ out[r] \in Seq(Tokens) /\ case \in Cases /\ next \in [Tokens -> Tokens]
  BY StateIs DEF IInv
<1>2. ASSUME Len(out[r]) = 0 PROVE Published(case, r, out[r])
  <2>1. out[r] = <<>> /\ InTime(case, <<>>)
    BY <1>1, <1>2, EmptyOutput, FirstToken
  <2> QED
    BY <1>1, <2>1 DEF Published
<1>3. CASE fin[r] # "none"
  BY <1>1, <1>3 DEF RowInv, EndedOK
<1>4. CASE fin[r] = "none" /\ r \in called
  BY <1>1, <1>2, <1>4 DEF RowInv, RunningRow, RequestOK
<1>5. CASE fin[r] = "none" /\ r \notin called
  BY <1>1, <1>2, <1>5 DEF RowInv, WaitingRow, PrefillingRow, FreshRow, RequestOK
<1> QED
  BY <1>3, <1>4, <1>5

LEMMA ChainOK ==
  ASSUME IInv, NEW r \in Rows
  PROVE  Chain(case, next, Known(r)) /\ Known(r) \in Seq(Gen)
<1>1. /\ RowInv(r) /\ out[r] \in Seq(Tokens) /\ case \in Cases /\ next \in [Tokens -> Tokens]
      /\ out[r] \in Seq(Gen) /\ row[r].emitted \in Seq(Gen)
  BY StateIs DEF IInv
<1>2. Known(r) \in Seq(Gen)
  BY <1>1, JoinIs DEF Known
<1>3. Chain(case, next, <<>>)
  BY <1>1, FirstToken
<1>4. CASE fin[r] # "none"
  BY <1>1, <1>2, <1>4 DEF RowInv
<1>5. CASE fin[r] = "none" /\ r \in called
  BY <1>1, <1>2, <1>5 DEF RowInv, RunningRow, RunOK
<1>6. CASE fin[r] = "none" /\ r \notin called /\ Online
  <2>1. Known(r) = out[r]
    BY <1>6 DEF Known
  <2>2. CASE PrefillingRow(r)
    BY <1>1, <1>3, <2>1, <2>2, EmptyOutput DEF PrefillingRow
  <2>3. CASE WaitingRow(r)
    BY <1>2, <2>1, <2>3 DEF WaitingRow, RequestOK
  <2> QED
    BY <1>1, <1>6, <2>2, <2>3 DEF RowInv
<1>7. CASE fin[r] = "none" /\ r \notin called /\ ~Online
  <2>1. Known(r) = row[r].emitted
    BY <1>7 DEF Known
  <2>2. Len(row[r].emitted) = 0
    BY <1>1, <1>7 DEF RowInv, FreshRow
  <2> QED
    BY <1>1, <1>3, <2>1, <2>2, EmptyOutput
<1> QED
  BY <1>2, <1>4, <1>5, <1>6, <1>7

LEMMA CoveredOK ==
  ASSUME IInv
  PROVE  Covered
<1> SUFFICES ASSUME NEW r \in called, Online, pc = "loop", row[r].st # "done"
             PROVE  row[r].prefix + L <= acquired[r]
  BY DEF Covered
<1>1. r \in Rows
  BY DEF IInv, Types
<1>2. Reaches(case, row[r], Start(r), acquired[r], reserve[r])
  BY <1>1, LaunchOf DEF RunningRow
<1>3. L \in Nat /\ row[r].prefix \in Nat /\ acquired[r] \in Nat
  BY <1>1, StateIs
<1> QED
  BY <1>2, <1>3 DEF Reaches, Ahead

LEMMA LengthsOK ==
  ASSUME IInv
  PROVE  Lengths
<1> SUFFICES ASSUME NEW r \in Rows
             PROVE  /\ LoopDone /\ r \in called =>
                         Mask \notin Range(UntilEos(Taken(r, Max({0, Room(r)})), case.stop[r]))
                    /\ Mask \notin Range(out[r])
                    /\ case.stop[r] => Eos \notin Range(out[r])
                    /\ fin[r] = "length" => Len(out[r]) = case.gens[r]
                    /\ fin[r] = "stop" => Len(out[r]) < case.gens[r]
  BY DEF Lengths
<1>1. ASSUME LoopDone, r \in called
      PROVE  Mask \notin Range(UntilEos(Taken(r, Max({0, Room(r)})), case.stop[r]))
  <2>1. Room(r) \in Int
    BY StateIs DEF Room
  <2>2. PICK room \in Nat : room = Max({0, Room(r)})
    BY <2>1, MaxOfTwo
  <2>3. PICK t : t = Taken(r, room)
    OBVIOUS
  <2>4. t \in Seq(Gen) /\ Clean(case.stop[r], t)
    BY <1>1, <2>3, TakenDone
  <2>5. PICK u : u = UntilEos(t, case.stop[r])
    OBVIOUS
  <2>6. u \in Seq(Tokens)
    BY <2>4, <2>5, StateIs, UntilClean
  <2>7. Mask \notin Range(u)
    BY <2>6, InRange, TokensSeq
  <2> QED
    BY <2>2, <2>3, <2>5, <2>7
<1>2. out[r] \in Seq(Tokens) /\ Published(case, r, out[r])
  BY StateIs, PublishedOK
<1>3. Mask \notin Range(out[r])
  BY <1>2, InRange, TokensSeq
<1>4. case.stop[r] => Eos \notin Range(out[r])
  BY <1>2, InRange DEF Published
<1>5. fin[r] # "none" => EndedOK(case, r, out[r], fin[r])
  BY DEF IInv, RowInv
<1> QED
  BY <1>1, <1>3, <1>4, <1>5 DEF EndedOK

\* What a row holds once its prompt is filled.
LEMMA BegunHolds ==
  ASSUME IInv, NEW r \in Rows, Begun(r)
  PROVE  LET n == Prefix(r) - Prompt(r)
         IN /\ n \in Nat /\ Known(r) \in Seq(Gen) /\ Holds(kv[r], Prompt(r), n, Known(r))
            /\ ~row[r].term /\ Len(Known(r)) > 0 => Len(Known(r)) = n + (IF Speculative THEN 1 ELSE 0)
<1>1. filled[r] = Prompt(r) /\ fin[r] = "none"
  BY DEF Begun
<1>2. /\ RowInv(r) /\ out[r] \in Seq(Tokens) /\ case \in Cases /\ Prompt(r) \in Nat /\ Prompt(r) > 0
      /\ prefixes[r] \in Nat /\ blocks[r] \in Nat /\ L \in Nat /\ row[r].prefix \in Nat
  BY StateIs DEF IInv
<1>3. PICK s \in Seq(Gen) : s = Known(r)
  BY ChainOK
<1>4. PICK n : n = Prefix(r) - Prompt(r)
  OBVIOUS
<1>5. (case.mode = "block" /\ ~Speculative) \/ (case.mode = "spec" /\ Speculative)
  BY <1>2, CaseIs DEF Speculative
<1>6. /\ n \in Nat /\ Holds(kv[r], Prompt(r), n, s)
      /\ ~row[r].term /\ Len(s) > 0 => Len(s) = n + (IF Speculative THEN 1 ELSE 0)
  <2>1. CASE r \in called
    <3>1. RunOK(case, next, r, row[r], kv[r], s) /\ n = row[r].prefix - case.prompts[r]
      BY <1>1, <1>2, <1>3, <1>4, <2>1 DEF RowInv, RunningRow, Prefix, Prompt
    <3>2. Holds(kv[r], Prompt(r), n, s)
      BY <3>1 DEF RunOK, Prompt
    <3>3. row[r].prefix >= case.prompts[r]
      BY <3>1 DEF RunOK, ActiveOK, DoneOK
    <3>4. n \in Nat
      BY <1>2, <3>1, <3>3 DEF Prompt
    <3>5. CASE ActiveOK(case, next, r, row[r], s)
      <4>1. /\ case.mode = "block" => Len(s) = n
            /\ case.mode = "spec" => Len(s) = n + 1
        BY <3>1, <3>5 DEF ActiveOK, BlockActive, SpecActive
      <4> QED
        BY <1>5, <3>2, <3>4, <4>1
    <3>6. CASE DoneOK(case, next, r, row[r], s)
      <4>1. ~row[r].term /\ Len(s) > 0 => GoesOn(case, next, row[r], n, s)
        BY <3>1, <3>6 DEF DoneOK
      <4>2. GoesOn(case, next, row[r], n, s) =>
              /\ case.mode = "block" => Len(s) = n
              /\ case.mode = "spec" => Len(s) = n + 1
        BY DEF GoesOn
      <4> QED
        BY <1>5, <3>2, <3>4, <4>1, <4>2
    <3> QED
      BY <3>1, <3>5, <3>6 DEF RunOK
  <2>2. CASE r \notin called
    <3>1. Online
      <4>1. ~Online => filled[r] = 0
        BY <1>1, <1>2, <2>2 DEF RowInv, FreshRow
      <4> QED
        BY <1>1, <1>2, <4>1
    <3>2. WaitingRow(r)
      <4>1. ~PrefillingRow(r)
        BY <1>1, <1>2 DEF PrefillingRow
      <4> QED
        BY <1>1, <1>2, <2>2, <3>1, <4>1 DEF RowInv
    <3>3. s = out[r] /\ Prefix(r) = Start(r)
      BY <1>3, <2>2, <3>1 DEF Known, Prefix, Start
    <3>4. RequestOK(case, next, r, s, seeds[r], Start(r)) /\ Holds(kv[r], Prompt(r), n, s)
      BY <1>4, <3>2, <3>3 DEF WaitingRow
    <3>5. Len(s) \in Nat
      OBVIOUS
    <3>6. CASE case.mode = "block"
      <4>1. Start(r) = Prompt(r) + Len(s)
        BY <3>4, <3>6 DEF RequestOK, Prompt
      <4>2. n = Len(s)
        BY <1>2, <1>4, <3>3, <3>5, <4>1
      <4> QED
        BY <1>5, <3>4, <3>5, <3>6, <4>2
    <3>7. CASE case.mode = "spec" /\ Len(s) = 0
      <4>1. Start(r) = Prompt(r)
        BY <3>4, <3>7 DEF RequestOK, Prompt
      <4>2. n = 0
        BY <1>2, <1>4, <3>3, <4>1
      <4> QED
        BY <3>4, <3>7, <4>2
    <3>8. CASE case.mode = "spec" /\ Len(s) > 0
      <4>1. Start(r) = Prompt(r) + Len(s) - 1
        BY <3>4, <3>8 DEF RequestOK, Prompt
      <4>2. n = Len(s) - 1
        BY <1>2, <1>4, <3>3, <3>5, <4>1
      <4>3. n \in Nat /\ Len(s) = n + 1
        BY <3>5, <3>8, <4>2
      <4> QED
        BY <1>5, <3>4, <3>8, <4>3
    <3> QED
      BY <1>5, <3>5, <3>6, <3>7, <3>8
  <2> QED
    BY <2>1, <2>2
<1> QED
  BY <1>3, <1>4, <1>6

LEMMA KVExactOK ==
  ASSUME IInv
  PROVE  KVExact
<1> SUFFICES ASSUME NEW r \in Rows, Begun(r)
             PROVE  LET known == Known(r)
                        n == Prefix(r) - Prompt(r)
                    IN /\ \A i \in 1..Prompt(r) : kv[r][i] = Word
                       /\ \A i \in 1..Min({n, Len(known)}) : kv[r][Prompt(r) + i] = known[i]
                       /\ ~row[r].term /\ known # <<>> => Len(known) = n + (IF Speculative THEN 1 ELSE 0)
  BY Zenon DEF KVExact
<1> DEFINE known == Known(r)
           n == Prefix(r) - Prompt(r)
<1>1. /\ n \in Nat /\ known \in Seq(Gen) /\ Holds(kv[r], Prompt(r), n, known)
      /\ ~row[r].term /\ Len(known) > 0 => Len(known) = n + (IF Speculative THEN 1 ELSE 0)
  BY BegunHolds
<1> HIDE DEF known, n
<1>2. Len(known) \in Nat /\ (known # <<>> => Len(known) > 0)
  BY <1>1
<1>3. Min({n, Len(known)}) = IF n <= Len(known) THEN n ELSE Len(known)
  BY <1>1, <1>2, MinOfTwo
<1>4. \A i \in 1..Min({n, Len(known)}) : i \in 1..n /\ i <= Len(known)
  BY <1>1, <1>2, <1>3
<1>5. /\ \A i \in 1..Prompt(r) : kv[r][i] = Word
      /\ \A i \in 1..Min({n, Len(known)}) : kv[r][Prompt(r) + i] = known[i]
      /\ ~row[r].term /\ known # <<>> => Len(known) = n + (IF Speculative THEN 1 ELSE 0)
  BY <1>1, <1>2, <1>4 DEF Holds
<1> QED
  BY <1>5 DEF known, n

\* Self-speculation, for the runs the marker comes in time in.
LEMMA LosslessOK ==
  ASSUME IInv, NEW r \in Rows, NEW known, known = Known(r), NEW i \in 1..Len(known),
         Speculative \/ i % L = 1
  PROVE  \/ known[i] = Sample(IF i = 1 THEN Word ELSE known[i - 1])
         \/ MarkerDue(known, i)
<1>1. Chain(case, next, known) /\ known \in Seq(Gen) /\ Len(known) \in Nat
  BY ChainOK
<1>2. \/ known[i] = Follow(next, IF i = 1 THEN Word ELSE known[i - 1])
      \/ MarkerAt(case, known, i)
  BY <1>1 DEF Chain, Speculative
<1>3. MarkerAt(case, known, i) => MarkerDue(known, i)
  <2> SUFFICES ASSUME MarkerAt(case, known, i) PROVE MarkerDue(known, i)
    OBVIOUS
  <2>1. case.think >= 0 /\ known[i] = End /\ i > case.think /\ \A j \in 1..(i - 1) : known[j] # End
    BY DEF MarkerAt
  <2>2. PICK m \in Nat : m = i - 1 /\ m <= Len(known)
    BY <1>1
  <2>3. /\ SubSeq(known, 1, m) \in Seq(Gen) /\ Len(SubSeq(known, 1, m)) = m
        /\ \A j \in 1..m : SubSeq(known, 1, m)[j] = known[j]
    BY <1>1, <2>2, PartIs
  <2>4. End \notin Range(SubSeq(known, 1, m))
    <3>1. PICK t \in Seq(Gen) : t = SubSeq(known, 1, m)
      BY <2>3
    <3>2. \A j \in 1..Len(t) : t[j] # End
      BY <2>1, <2>2, <2>3, <3>1
    <3> QED
      BY <3>1, <3>2, InRange, ZenonT(40)
  <2> QED
    BY <2>1, <2>2, <2>4 DEF MarkerDue, Enabled
<1> QED
  BY <1>2, <1>3, SampleIs

LEMMA MarkerOK ==
  ASSUME IInv, ~ZeroBudget(case)
  PROVE  MarkerInTime
<1> SUFFICES ASSUME NEW r \in Rows, NEW due, due = case.think + 1 + (IF Speculative THEN L ELSE 0),
                    Enabled, Len(out[r]) >= due
             PROVE  End \in Range(SubSeq(out[r], 1, due))
  BY DEF MarkerInTime
<1>1. case \in Cases /\ out[r] \in Seq(Tokens) /\ InTime(case, out[r])
  BY StateIs, PublishedOK DEF Published
<1>2. case.think >= 0 /\ due = Due(case)
  BY DEF Enabled, Due, Speculative
<1>3. due \in Nat
  BY <1>1, <1>2, DueIs
<1>4. PICK i \in 1..due : out[r][i] = End
  BY <1>1, <1>2 DEF InTime
<1>5. /\ SubSeq(out[r], 1, due) \in Seq(Tokens) /\ Len(SubSeq(out[r], 1, due)) = due
      /\ \A j \in 1..due : SubSeq(out[r], 1, due)[j] = out[r][j]
  <2>1. PICK o \in Seq(Tokens) : o = out[r]
    BY <1>1
  <2>2. due <= Len(o)
    BY <1>3, <2>1
  <2> QED
    BY <1>3, <2>1, <2>2, PartIs
<1> QED
  BY <1>4, <1>5, InRange

LEMMA CausalOK ==
  ASSUME IInv, ~ZeroBudget(case)
  PROVE  Causal
<1>1. MarkerInTime
  BY MarkerOK
<1>2. \A r \in Rows : \A i \in 1..Len(Known(r)) :
        LET known == Known(r) IN
        Speculative \/ i % L = 1 =>
          \/ known[i] = Sample(IF i = 1 THEN Word ELSE known[i - 1])
          \/ MarkerDue(known, i)
  <2> TAKE r \in Rows
  <2>1. PICK known : known = Known(r)
    OBVIOUS
  <2>2. \A i \in 1..Len(known) : Speculative \/ i % L = 1 =>
          \/ known[i] = Sample(IF i = 1 THEN Word ELSE known[i - 1])
          \/ MarkerDue(known, i)
    BY <2>1, LosslessOK
  <2> QED
    BY <2>1, <2>2, Zenon
<1> QED
  BY <1>1, <1>2, Zenon DEF Causal

\* The keys and values of the committed prefix are those of the prompt and of the
\* tokens generated, whatever denoising, drafts and rejected tails wrote before
\* (_commit, _run_speculation).
THEOREM KVExactAlways == Spec => []KVExact
<1>1. IInv => KVExact
  BY KVExactOK
<1> QED
  BY <1>1, RunnersInvariant, PTL

\* Self-speculation is lossless and a block starts with the model's seed; only a
\* marker that is due stands elsewhere, and it comes in time (accepted_tokens,
\* ThinkingBudget).  The one exception is a batch of speculating rows with a budget
\* of zero: generate of the paged runner drafts their first block without a marker.
THEOREM CausalAlways == Spec => [](~ZeroBudget(case) => Causal)
<1>1. IInv => (~ZeroBudget(case) => Causal)
  BY CausalOK
<1> QED
  BY <1>1, RunnersInvariant, PTL

\* A launch stays within the tokens its request has pages for, although a speculation
\* reserves only what it accepted (_plan_speculate).
THEOREM CoveredAlways == Spec => []Covered
<1>1. IInv => Covered
  BY CoveredOK
<1> QED
  BY <1>1, RunnersInvariant, PTL

\* A request ends at its length or at an end of sequence nothing undecided precedes:
\* no mask and no stopping token is ever returned (_assemble, the executor's filter).
THEOREM LengthsAlways == Spec => []Lengths
<1>1. IInv => Lengths
  BY LengthsOK
<1> QED
  BY <1>1, RunnersInvariant, PTL

\* No decode row of a plan is without the seed of its prefill, whatever was aborted
\* since the plan was made (_plan_decode).
THEOREM SeedKeptAlways == Spec => []SeedKept
<1>1. IInv => SeedKept
  BY DEF IInv, Phases, SeedKept
<1> QED
  BY <1>1, RunnersInvariant, PTL
=============================================================================
