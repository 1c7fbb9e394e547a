-------------------------------- MODULE Gemma --------------------------------
(***************************************************************************)
(* Diffusion-Gemma: canvases of noise are denoised until the prediction is *)
(* stable and confident, then committed causally to the key/value cache.   *)
(* `mode' is the runner: "dense" generates row after row and keeps for a   *)
(* sliding layer only the last Window keys, "paged" denoises a batch       *)
(* eagerly, "graph" pads the batch to a bucket with cache rows nobody uses *)
(* and replays a graph captured on demand.  The model's predictions are    *)
(* chosen freely; a key is its owner, its position and the token it was    *)
(* computed from.  One sliding and one full layer are observed.            *)
(***************************************************************************)
EXTENDS Integers, Sequences, FiniteSets, FiniteSetsExt, SequencesExt, Filters

CONSTANTS
  Modes,         \* triples: mode, online, gemma_max_entries
  Buckets,       \* supported_batch_sizes
  MaxSeqs,       \* max_num_seqs
  MaxLength,     \* max_length of the server
  Canvas, Window, MaxSteps, Stability,
  Predictions,   \* argmax canvases of the model
  Eos,
  EarlyStop,     \* the early_stop the runner is configured with
  Calls,         \* batches: sequences of <<prompt length, generation length>>
  MaxCalls       \* bound: calls of generate

\* the runner adds one to the configured stability_threshold, 1 by default
ASSUME StabilityAssumption == Stability \in Nat \ {0}
ASSUME SizesAssumption ==
  /\ Canvas \in Nat \ {0} /\ MaxSteps \in Nat \ {0}
  /\ Window \in Nat /\ MaxSeqs \in Nat /\ MaxLength \in Nat
  /\ EarlyStop \in BOOLEAN
ASSUME BucketsAssumption == Buckets \in Seq(Nat)
ASSUME PredictionsAssumption == \A p \in Predictions : p \in Seq(ToSet(p)) /\ Len(p) = Canvas
ASSUME CallsAssumption ==
  \A batch \in Calls : batch \in Seq(Nat \X Nat) /\ Len(batch) > 0

VARIABLES mode, online, maxEntries, call, rows, cache, mem, dense, entries,
          state, scalar, seen, phase, early

vars == <<mode, online, maxEntries, call, rows, cache, mem, dense, entries,
          state, scalar, seen, phase, early>>

Tuple(s) == <<>> \o s
Pad == 0
Stale == <<-1, 0, "stale">>

-----------------------------------------------------------------------------
(* The decoder.                                                            *)

\* contains_eos
ContainsEos(tokens) == Eos \in ToSet(tokens)

\* mutant: the history is not cut to the stability threshold
RememberAll(history, item) == Append(history, item)
\* step, step_batch: the last stability_threshold predictions
Remember(history, item) ==
  LET all == Append(history, item) IN
  IF Len(all) > Stability THEN Tail(all) ELSE all

\* DiffusionGemmaDecoder.step: one row on its own
ScalarNew == [argmax |-> <<>>, step |-> 0, history |-> <<>>, converged |-> FALSE]
ScalarStep(s, argmax, confident) ==
  LET history == SubSeq(Append(s.history, argmax), Max({1, Len(s.history) + 2 - Stability}), Len(s.history) + 1)
      stable == Len(history) >= Stability /\ Cardinality(ToSet(history)) = 1
  IN IF s.converged THEN s
     ELSE [argmax |-> argmax, step |-> s.step + 1, history |-> history,
           converged |-> (stable /\ confident) \/ s.step + 1 >= MaxSteps]

\* new_batch_state
NewBatchState(active) ==
  [argmax |-> [r \in active |-> <<>>], steps |-> [r \in active |-> 0],
   active |-> active, history |-> <<>>]
\* step_batch: all rows share one history, rows that have converged are kept
StepBatch(s, argmax, confident) ==
  LET kept == [r \in DOMAIN s.argmax |-> IF r \in s.active THEN argmax[r] ELSE s.argmax[r]]
      steps == [r \in DOMAIN s.steps |-> IF r \in s.active THEN s.steps[r] + 1 ELSE s.steps[r]]
      history == Remember(s.history, kept)
      Stable(r) == Len(history) >= Stability /\ \A i \in DOMAIN history : history[i][r] = history[1][r]
      converged == {r \in s.active : (Stable(r) /\ r \in confident) \/ steps[r] >= MaxSteps}
  IN [argmax |-> kept, steps |-> steps, active |-> s.active \ converged, history |-> history]

-----------------------------------------------------------------------------
(* What a query sees.                                                      *)

\* DiffusionGemmaAttentionMetadata.mask
EagerMask(ph, q, kvLen, window) ==
  {k \in 0..(kvLen - 1) :
    /\ ph # "denoise" => k <= q
    /\ window # 0 => k - q < window /\ q - k < window}

\* mutant: the kernel's window is one key too short
GraphMaskShort(q, kvLen, window) ==
  {k \in 0..(kvLen - 1) : window # 0 => q - k < window - 1}
\* _GemmaAttentionGraphState: no mask, window_left = sliding_window - 1; nothing
\* bounds the keys behind the query, which is why a canvas longer than the
\* window is refused
GraphMask(q, kvLen, window) ==
  {k \in 0..(kvLen - 1) : window # 0 => q - k <= window - 1}
GraphRefused(window) == window # 0 /\ Canvas > window

\* _apply_sliding_window over a cache that may have lost its oldest keys: the
\* columns are the last kvLen of the mask, their positions follow from the first
\* of the n queries
DenseStart(first, n, kvLen) == first - (kvLen - n)
DenseMask(ph, q, first, n, kvLen, window) ==
  {k \in DenseStart(first, n, kvLen)..(first + n - 1) :
    /\ ph # "denoise" => k <= q
    /\ window # 0 => k \in (q - window + 1)..(q + window - 1)}

\* _cache_for_next_forward
CacheForNext(keys, window) ==
  IF window = 0 \/ Len(keys) <= window THEN keys ELSE SubSeq(keys, Len(keys) - window + 1, Len(keys))

-----------------------------------------------------------------------------
(* The cache and the launches over it.                                     *)

RowIds == DOMAIN rows
Active == {r \in RowIds : rows[r].active}
PaddedPrompt == Max({rows[r].prompt : r \in RowIds})
PrefixLength(r) == rows[r].prompt + Len(rows[r].emitted)
Own(r, p, what) == <<call * 10 + r, p, what>>
\* the key a committed position has to hold
Committed(r, p) ==
  Own(r, p, IF p < rows[r].prompt THEN "prompt" ELSE rows[r].emitted[p - rows[r].prompt + 1])

\* _generate_flashinfer_batch, _generate_one: generations padded to canvases
PaddedGeneration(n) == ((n + Canvas - 1) \div Canvas) * Canvas
NeededLength(batch) == Max({batch[i][1] + PaddedGeneration(batch[i][2]) : i \in DOMAIN batch})

\* _paged_cache: kept when it is large enough, otherwise the graphs go with it
PagedCache(length, size) ==
  IF cache.max >= length /\ cache.size >= size THEN <<cache, entries>>
  ELSE <<[gen |-> cache.gen + 1, max |-> length, size |-> size], <<>>>>
Emptied(c) == [r \in 1..c.size |-> [p \in 0..(c.max - 1) |-> Stale]]

\* build_metadata: what a launch does to each cache row; out of range it raises
Metadata(ids, offset, lens) == [ids |-> ids, offset |-> offset, lens |-> lens]
MetadataOK(m, c) ==
  \A i \in DOMAIN m.ids : /\ m.ids[i] \in 1..c.size
                          /\ m.offset[i] + m.lens[i] <= c.max
                          /\ m.lens[i] > 0

\* append_paged_kv_cache: the keys of launch row i go to the cache row it names
Appended(before, m, keys) ==
  [r \in DOMAIN before |->
    LET i == SelectLastInSeq(m.ids, LAMBDA id : id = r) IN
    IF i = 0 THEN before[r]
    ELSE [p \in DOMAIN before[r] |->
           IF p \in m.offset[i]..(m.offset[i] + m.lens[i] - 1) THEN keys[i][p - m.offset[i] + 1] ELSE before[r][p]]]

Looks(r, ph, q, window, keys) == [row |-> r, phase |-> ph, q |-> q, window |-> window, keys |-> keys]
\* DiffusionGemmaPagedAttention.forward for the real rows
MaskOf(ph, replay, q, kvLen, window) ==
  IF replay THEN GraphMask(q, kvLen, window) ELSE EagerMask(ph, q, kvLen, window)
RowLooks(after, m, i, ph, replay) ==
  {Looks(m.ids[i], ph, q, w, [k \in MaskOf(ph, replay, q, m.offset[i] + m.lens[i], w) |-> after[m.ids[i]][k]]) :
     q \in m.offset[i]..(m.offset[i] + m.lens[i] - 1), w \in {0, Window}}
PagedLooks(after, m, n, ph, replay) == UNION {RowLooks(after, m, i, ph, replay) : i \in 1..n}
\* one launch of the model over the paged cache, n of its rows real
Launched(m, keys, n, ph, replay) ==
  /\ MetadataOK(m, cache)
  /\ mem' = Appended(mem, m, keys)
  /\ seen' = PagedLooks(mem', m, n, ph, replay)

\* _copy_gemma_metadata
CopyMetadata(old, m) == m

\* the first bucket that holds the rows, else their number
BucketFor(n) ==
  LET fits == {i \in DOMAIN Buckets : Buckets[i] >= n} IN
  IF fits = {} THEN n ELSE Buckets[Min(fits)]
\* mutant: the padding takes the first cache rows
DummyFirst(active, need) == InOrder({r \in 1..cache.size : r <= need})
\* _gemma_decode_forward: cache rows that are not active, as many as needed
DummyRows(active, need) ==
  LET others == InOrder((1..cache.size) \ active) IN
  SubSeq(others, 1, Min({need, Len(others)}))

\* the rows of the batch, then padding at offset 0
PaddedMetadata(m, dummies) ==
  Metadata(m.ids \o dummies, m.offset \o Tuple([i \in DOMAIN dummies |-> 0]),
           m.lens \o Tuple([i \in DOMAIN dummies |-> Canvas]))

\* run_gemma_decode: an entry, or a capture while there is room, or nothing
CanRun(key) == key \in DOMAIN entries \/ Cardinality(DOMAIN entries) < maxEntries
Entry(key, m) == IF key \in DOMAIN entries THEN CopyMetadata(entries[key].meta, m) ELSE m
Stored(key, m) ==
  [k \in DOMAIN entries \cup {key} |-> IF k = key THEN [gen |-> cache.gen, meta |-> m] ELSE entries[k]]

-----------------------------------------------------------------------------
(* generate                                                                *)

NewRow(prompt, gen) ==
  [prompt |-> prompt, gen |-> gen, remaining |-> gen, emitted |-> <<>>,
   active |-> FALSE, prefilled |-> FALSE, steps |-> 0]
\* execute_batch runs a batch of rows, without early_stop if a request of it
\* has ignore_eos; the paged runner takes its cache, the dense one has none
Generate(batch, ignore) ==
  /\ phase = "idle" /\ call < MaxCalls
  /\ call' = call + 1
  /\ rows' = Tuple([i \in DOMAIN batch |-> NewRow(batch[i][1], batch[i][2])])
  /\ IF mode = "dense" THEN UNCHANGED <<cache, entries, mem>>
     ELSE LET got == PagedCache(NeededLength(batch), Len(batch)) IN
          /\ cache' = got[1] /\ entries' = got[2]
          /\ mem' = IF got[1] = cache THEN mem ELSE Emptied(got[1])
  /\ dense' = Tuple([i \in DOMAIN batch |-> [w \in {0, Window} |-> <<>>]])
  /\ phase' = "prefill"
  /\ seen' = {}
  /\ early' = [stop |-> early.stop /\ ~ignore, saved |-> early.stop, ignored |-> ignore]
  /\ UNCHANGED <<mode, online, maxEntries, state, scalar>>

Fresh(active) ==
  /\ state' = NewBatchState(active)
  /\ scalar' = [r \in active |-> ScalarNew]

\* the rows that want another canvas, else the next row of the dense runner
PhaseAfter(active, waiting) ==
  IF active # {} THEN "denoise" ELSE IF waiting # {} THEN "prefill" ELSE "return"
\* a row whose prompt is in the cache
Started(row) == [row EXCEPT !.prefilled = TRUE, !.active = row.remaining > 0]
PromptMetadata(order) ==
  Metadata(order, Tuple([i \in DOMAIN order |-> 0]), Tuple([i \in DOMAIN order |-> rows[order[i]].prompt]))
PromptKeys(r) == Tuple([p \in 1..rows[r].prompt |-> Own(r, p - 1, "prompt")])

\* a dense launch of n queries over keys whose last n are its own
DenseLooks(ph, r, first, n, all) ==
  {Looks(r, ph, q, w, [k \in DenseMask(ph, q, first, n, Len(all[w]), w) |->
                        all[w][k - DenseStart(first, n, Len(all[w])) + 1]]) :
     q \in first..(first + n - 1), w \in {0, Window}}

\* the prefill of the batch, or of the next row of the dense runner
Prefill ==
  /\ phase = "prefill"
  /\ LET ids == IF mode = "dense" THEN {Min({r \in RowIds : ~rows[r].prefilled})} ELSE RowIds
         order == InOrder(ids)
         work == {r \in ids : rows[r].remaining > 0}
     IN /\ rows' = [r \in RowIds |-> IF r \in ids THEN Started(rows[r]) ELSE rows[r]]
        /\ IF mode = "dense"
           THEN /\ dense' = [dense EXCEPT ![order[1]] = [w \in {0, Window} |-> CacheForNext(PromptKeys(order[1]), w)]]
                /\ seen' = DenseLooks("prefill", order[1], 0, rows[order[1]].prompt,
                                      [w \in {0, Window} |-> PromptKeys(order[1])])
                /\ UNCHANGED mem
           ELSE /\ Launched(PromptMetadata(order), Tuple([i \in DOMAIN order |-> PromptKeys(order[i])]),
                            Len(order), "prefill", FALSE)
                /\ UNCHANGED dense
        /\ Fresh(work)
        /\ phase' = PhaseAfter(work, {r \in RowIds \ ids : ~rows[r].prefilled})
  /\ UNCHANGED <<mode, online, maxEntries, call, cache, entries, early>>

\* a launch over the canvases of the active rows; tokens is what they hold
CanvasOf(r, tokens) == Tuple([i \in 1..Canvas |-> Own(r, PrefixLength(r) + i - 1, tokens[i])])
DenseForward(ph, r, tokens) ==
  \E all \in {[w \in {0, Window} |-> dense[r][w] \o CanvasOf(r, tokens)]} :
    /\ seen' = DenseLooks(ph, r, PrefixLength(r), Canvas, all)
    /\ dense' = IF ph = "denoise" THEN dense
                ELSE [dense EXCEPT ![r] = [w \in {0, Window} |-> CacheForNext(all[w], w)]]
    /\ UNCHANGED <<mem, entries>>

\* the active rows, each at the end of what it has
CanvasMetadata(order) ==
  Metadata(order, Tuple([i \in DOMAIN order |-> PrefixLength(order[i])]), Tuple([i \in DOMAIN order |-> Canvas]))
CanvasKeys(order, padding, offset, tokens) ==
  Tuple([i \in 1..(Len(order) + padding) |-> Tuple([j \in 1..Canvas |->
    IF i > Len(order) THEN Stale ELSE Own(order[i], offset[i] + j - 1, tokens[order[i]][j])])])

\* an entry of the graph runner is used for a full bucket only
Replays(ph, n, padding) ==
  mode = "graph" /\ ph = "denoise" /\ n + padding = BucketFor(n) /\ CanRun(<<BucketFor(n), cache.gen>>)
PagedForward(ph, order, tokens) ==
  \E m \in {CanvasMetadata(order)},
     dummies \in {DummyRows(ToSet(order), BucketFor(Len(order)) - Len(order))} :
    \E replay \in {Replays(ph, Len(order), Len(dummies))}, key \in {<<BucketFor(Len(order)), cache.gen>>} :
      \E used \in {IF replay THEN Entry(key, PaddedMetadata(m, dummies)) ELSE m} :
        /\ replay => ~GraphRefused(Window)
        /\ Launched(used, CanvasKeys(order, Len(dummies), m.offset, tokens), Len(order), ph, replay)
        /\ entries' = IF replay THEN Stored(key, used) ELSE entries
        /\ UNCHANGED dense

Forward(ph, tokens) ==
  \E order \in {InOrder(Active)} :
    IF mode = "dense" THEN DenseForward(ph, order[1], tokens[order[1]]) ELSE PagedForward(ph, order, tokens)

\* one denoising step; the loop ends when no row is left or after MaxSteps
Denoise(argmax, confident) ==
  /\ phase = "denoise"
  /\ Forward("denoise", [r \in Active |-> Tuple([i \in 1..Canvas |-> "noise"])])
  /\ state' = StepBatch(state, argmax, confident)
  /\ scalar' = [r \in DOMAIN scalar |-> ScalarStep(scalar[r], argmax[r], r \in confident)]
  /\ phase' = IF state'.active = {} THEN "commit" ELSE "denoise"
  /\ UNCHANGED <<mode, online, maxEntries, call, rows, cache, early>>

\* a row takes what it still wants of its canvas; with early_stop it ends at an
\* end token within that
Grown(row, canvas, steps) ==
  LET take == Min({row.remaining, Canvas})
      taken == SubSeq(canvas, 1, take)
  IN [row EXCEPT !.emitted = @ \o taken, !.remaining = @ - take, !.steps = @ + steps,
                 !.active = row.remaining - take > 0 /\ ~(early.stop /\ ContainsEos(taken))]

\* the causal commit of the canvases, and what each row takes of its own
Commit ==
  /\ phase = "commit"
  /\ Forward("commit", state.argmax)
  /\ LET next == [r \in RowIds |-> IF r \in Active THEN Grown(rows[r], state.argmax[r], state.steps[r])
                                  ELSE rows[r]]
         left == {r \in RowIds : next[r].active}
     IN /\ rows' = Tuple(next)
        /\ Fresh(left)
        /\ phase' = PhaseAfter(left, {r \in RowIds : ~rows[r].prefilled})
  /\ UNCHANGED <<mode, online, maxEntries, call, cache, early>>

\* the answers start behind the padded prompts
Place(r, i) == PaddedPrompt + i
\* the tensor generate returns
ResultWidth == PaddedPrompt + Max({rows[r].gen : r \in RowIds})
Result(r) ==
  [c \in 0..(ResultWidth - 1) |->
    IF c < rows[r].prompt THEN "prompt"
    ELSE IF \E i \in 0..(Len(rows[r].emitted) - 1) : Place(r, i) = c
    THEN rows[r].emitted[(CHOOSE i \in 0..(Len(rows[r].emitted) - 1) : Place(r, i) = c) + 1]
    ELSE Pad]

\* mutant: what ignore_eos switched off stays off
NotRestored == early
\* the finally of execute_batch
Restored == [early EXCEPT !.stop = early.saved]
Return ==
  /\ phase = "return"
  /\ phase' = "idle"
  /\ seen' = {}
  /\ early' = Restored
  /\ UNCHANGED <<mode, online, maxEntries, call, rows, cache, mem, dense, entries, state, scalar>>

\* online, prepare_online_cuda_graphs of a runner with graphs has allocated the
\* cache of the server
Init ==
  /\ \E m \in Modes : mode = m[1] /\ online = m[2] /\ maxEntries = m[3]
  /\ call = 0 /\ rows = <<>> /\ dense = <<>> /\ entries = <<>> /\ seen = {}
  /\ cache = IF online /\ mode = "graph" THEN [gen |-> 0, max |-> MaxLength, size |-> MaxSeqs]
             ELSE [gen |-> 0, max |-> 0, size |-> 0]
  /\ mem = Emptied(cache)
  /\ state = NewBatchState({}) /\ scalar = <<>>
  /\ phase = "idle"
  /\ early = [stop |-> EarlyStop, saved |-> EarlyStop, ignored |-> FALSE]

Next ==
  \/ \E batch \in Calls, ignore \in BOOLEAN : Generate(batch, ignore)
  \/ Prefill \/ Commit \/ Return
  \/ phase = "denoise" /\ \E argmax \in [Active -> Predictions], confident \in SUBSET Active :
       Denoise(argmax, confident)
  \/ phase = "idle" /\ call = MaxCalls /\ UNCHANGED vars

Spec == Init /\ [][Next]_vars

-----------------------------------------------------------------------------
(* Properties.                                                             *)

\* Types; every captured graph belongs to the cache in use and their number
\* stays within gemma_max_entries.
TypeOK ==
  /\ phase \in {"idle", "prefill", "denoise", "commit", "return"}
  /\ Cardinality(DOMAIN entries) <= maxEntries
  /\ \A k \in DOMAIN entries : entries[k].gen = cache.gen
  /\ phase # "idle" /\ mode # "dense" =>
       \A r \in RowIds : r <= cache.size /\ rows[r].prompt + PaddedGeneration(rows[r].gen) <= cache.max

\* While a row is active, the paged cache holds the key of each of its positions
\* as the prefill or a commit left it: no denoising pass, no padding row of a
\* graph and no earlier call wrote there.
KVCommitted ==
  phase \in {"denoise", "commit"} /\ mode # "dense" =>
    \A r \in Active : \A p \in 0..(PrefixLength(r) - 1) : mem[r][p] = Committed(r, p)

\* What a query should see: the keys closer than the window, and only those not
\* behind it unless it denoises.
Visible(ph, q, kvLen, w) ==
  {k \in 0..(kvLen - 1) : /\ ph # "denoise" => k <= q
                          /\ w # 0 => k \in (q - w + 1)..(q + w - 1)}

\* Whatever the runner, a query of a sliding layer saw exactly the keys closer
\* than the window (those not behind it, unless it denoises), a query of a full
\* layer all of them, and they were the row's own.
SeesWindow ==
  \A a \in seen :
    LET kvLen == IF a.phase = "prefill" THEN rows[a.row].prompt
                 ELSE a.q - ((a.q - rows[a.row].prompt) % Canvas) + Canvas
    IN /\ DOMAIN a.keys = Visible(a.phase, a.q, kvLen, a.window)
       /\ \A k \in DOMAIN a.keys : a.keys[k][1] = call * 10 + a.row /\ a.keys[k][2] = k

\* The batched decoder does for each row what the decoder of a single row does
\* with the same predictions: same canvas, same number of steps, same end.
BatchAgrees ==
  \A r \in DOMAIN scalar :
    /\ state.argmax[r] = scalar[r].argmax
    /\ state.steps[r] = scalar[r].step
    /\ (r \in state.active) = ~scalar[r].converged

\* What generate returns: each answer where the executor slices it and of the
\* length asked for; a batch without an ignore_eos request on a runner with
\* early_stop, whatever batches ran before it, may end a row short, at the first
\* canvas with an end token and never later.
ResultExact ==
  phase = "return" =>
    \A r \in RowIds :
      LET answer == rows[r].emitted
          got == [i \in 1..Len(answer) |-> Result(r)[PaddedPrompt + i - 1]]
          EosAt == {i \in DOMAIN answer : answer[i] = Eos}
          stops == EarlyStop /\ ~early.ignored
      IN /\ Tuple(got) = answer
         /\ Len(answer) = rows[r].gen \/ (stops /\ EosAt # {})
         /\ stops => \A i \in EosAt : (i - 1) \div Canvas = (Len(answer) - 1) \div Canvas
         /\ \A c \in rows[r].prompt..(PaddedPrompt - 1) : Result(r)[c] = Pad
         /\ rows[r].steps <= MaxSteps * (PaddedGeneration(rows[r].gen) \div Canvas)
=============================================================================
