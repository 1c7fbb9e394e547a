----------------------------- MODULE BlockDecode -----------------------------
(***************************************************************************)
(* The block loop of the LLaDA runners: rows of tokens are prefilled and   *)
(* then decoded block by block, several forward passes per block, in mini  *)
(* batches.  A case (chosen in Init) says which decoder, which runner      *)
(* ("dense", "flashinfer", "fa4") and which loop:                          *)
(*   "buckets"  generate with cache-length buckets (dense, flashinfer);    *)
(*   "batch"    generate in plain mini batches (flashinfer, fa4);          *)
(*   "paged"    one block per plan of the engine (flashinfer, fa4).        *)
(*                                                                         *)
(* Positions are 1-based; start[r] is the number of positions before the   *)
(* active block of row r.  kv[r][i] is the token whose key and value the   *)
(* cache holds at position i (Mask where nothing was written).             *)
(***************************************************************************)
EXTENDS Decoders

CONSTANTS
  Cases,       \* the cases to explore (records, see CaseOK)
  Outputs,     \* [decoder -> set of position outputs the model may produce]
  Eos,         \* eos_ids
  Word         \* the token prompts are made of

VARIABLES
  case,       \* the case of this behaviour
  x,          \* the token array
  start,      \* decoding_start
  kv,         \* the KV cache
  budget,     \* DecodeEditBudget: post_steps, block_iters, _update_calls
  rs,         \* LevenshteinRowState per row
  todo,       \* rows of the current mini batch not yet forwarded
  live,       \* decoding_flag, or pending_seq_ids of the paged loop
  called,     \* active_rows of the paged call
  filled,     \* rows whose prompt was prefilled
  decoded,    \* what the decoder made of the rows being forwarded
  iters,      \* iterations of the paged loop, buckets of the dense one
  pc,         \* what the loop does next
  out,        \* output_ids of each request
  fin,        \* finish reason of each request, or "none"
  committed,  \* positions of finished blocks (start before an early stop moves it)
  idle        \* rows for which the model once predicted the mask (see NoToken)

vars == <<case, x, start, kv, budget, rs, todo, live, called, decoded, iters, pc, out, fin, filled, committed, idle>>

Rows == 1..Len(case.prompts)
Editing == case.decoder = "joint"
RowState == case.decoder = "levenshtein"
Prompt(r) == case.prompts[r]
Aligned(n) == (n \div L) * L
RoundUp(n) == Aligned(n + L - 1)
MaxPrompt == Max(Range(case.prompts))

\* preprocess_inputs: the canvas of generate; of a paged call, the longest block end
Width == RoundUp(MaxPrompt + case.gen)

PromptIn(r) == {i \in Pos : start[r] + i <= Prompt(r)}
Block(r) == [i \in Pos |-> x[r][start[r] + i]]

\* tokens: prompt (Word, one row may hold an eos in its prompt) then masks
Canvas(r, tail) ==
  [i \in 1..Width |-> IF i <= Prompt(r) THEN (IF i = case.promptEos THEN Eos ELSE Word)
                      ELSE IF i <= Prompt(r) + Len(tail) THEN tail[i - Prompt(r)] ELSE Mask]

NoRow == [BeginBlock([i \in Pos |-> Mask], 0) EXCEPT !.start = Width + 1]
FreshBudget == [post |-> [r \in Rows |-> 0], iters |-> [r \in Rows |-> 0], calls |-> 0]

\* DecodeEditBudget.max_block_iters, with the override of the levenshtein decoder
MaxBlockIters == IF RowState THEN MaxStepsPerBlock + 1 ELSE L + MaxPostSteps + 1
\* max_decode_iters of the FlashInfer loop; FA4 uses the budget's own bound
MaxDecodeIters ==
  IF case.runner = "fa4" \/ RowState THEN MaxBlockIters
  ELSE IF Editing THEN L + MaxPostSteps + 1 ELSE L + 1

\* generate: where decoding starts, clipped when the prefill is bounded
FirstStart(r) ==
  IF case.runner = "dense" THEN Min({Aligned(Prompt(r)), case.prefillLimit}) ELSE Aligned(Prompt(r))
\* x.decode_lengths: nothing is decoded for an empty generation
DecodeEnd(r) == IF case.gen > 0 THEN RoundUp(Prompt(r) + case.gen) ELSE FirstStart(r)

\* select_batch_sequences_by_mask_number / _by_order
Masks(r) == Cardinality({i \in 1..Width : x[r][i] = Mask})
SelectBefore(r, s) ==
  IF RowState THEN r < s ELSE Masks(r) > Masks(s) \/ (Masks(r) = Masks(s) /\ r < s)
Select(S) == LET all == SetToSortSeq(S, SelectBefore)
             IN SubSeq(all, 1, Min({Len(all), case.miniBatch}))

\* decompose_batch_size: the largest captured size that fits, again and again
NextPart(n) == IF case.runner # "flashinfer" \/ case.parts = {} THEN n ELSE Max({k \in case.parts : k <= n} \cup {1})

\* align_exp2: the power of two above n
AlignExp2(n) == Min({2^k : k \in {k \in 0..n : 2^k > n}})
\* the cache-length bucket of the shortest active row, capped by max_length
CacheLength(S) ==
  Min({Max({case.cacheAlign, AlignExp2(Min({start[r] : r \in S}) + L)}), Width})

Init ==
  /\ case \in Cases
  /\ x = [r \in Rows |-> Canvas(r, <<>>)]
  /\ start = [r \in Rows |-> FirstStart(r)]
  /\ kv = [r \in Rows |-> [i \in 1..Width |-> Mask]]
  /\ budget = FreshBudget
  /\ rs = [r \in Rows |-> NoRow]
  /\ todo = <<>> /\ live = {} /\ called = {} /\ decoded = <<>> /\ iters = 0
  /\ pc = IF case.mode = "paged" THEN "idle" ELSE "prefill"
  /\ out = [r \in Rows |-> <<>>]
  /\ fin = [r \in Rows |-> "none"]
  /\ filled = {} /\ committed = [r \in Rows |-> 0]
  /\ idle = {}

\* keys and values of the block-aligned part of the prompts of S
FilledKV(S) == [r \in Rows |-> [i \in 1..Width |->
                  IF r \in S /\ i <= start[r] THEN x[r][i] ELSE kv[r][i]]]

\* _prefill_batches: every row with a non-empty prefill, mini batch after mini batch
PrefillBatches ==
  /\ pc = "prefill" /\ case.mode # "paged"
  /\ kv' = FilledKV({r \in Rows : start[r] > 0})
  /\ filled' = Rows
  /\ committed' = start
  /\ live' = {r \in Rows : start[r] + L <= DecodeEnd(r)}
  /\ pc' = "loop"
  /\ UNCHANGED <<case, decoded, x, start, budget, rs, todo, called, iters, out, fin, idle>>

\* rows of a plan's prefill that a runner refuses: FlashInfer those that mix empty
\* and non-empty prompts, FA4 those with an empty one
Refused(S) == /\ \E r \in S : start[r] = 0
              /\ case.runner = "fa4" \/ \E r \in S : start[r] > 0

\* _execute_paged_prefill of the prefill rows of a plan
PagedPrefill ==
  /\ pc = "idle"
  /\ \E S \in SUBSET (Rows \ filled) :
       /\ S # {}
       /\ IF Refused(S)
          THEN pc' = "refused" /\ UNCHANGED <<kv, filled, committed>>
          ELSE /\ kv' = FilledKV(S)
               /\ filled' = filled \cup S
               /\ committed' = [r \in Rows |-> IF r \in S THEN start[r] ELSE committed[r]]
               /\ pc' = "idle"
  /\ UNCHANGED <<case, decoded, x, start, budget, rs, todo, live, called, iters, out, fin, idle>>

\* the inner loop of a bucket runs dry: align_exp2 of what is left
NextBucket ==
  /\ pc = "loop" /\ case.mode = "buckets" /\ live # {} /\ todo = <<>>
  /\ \A r \in live : start[r] + L > iters
  /\ iters' = CacheLength(live)
  /\ UNCHANGED <<case, decoded, x, start, kv, budget, rs, todo, live, called, pc, out, fin,
                 filled, committed, idle>>

\* the next mini batch of a bucket
SelectBucket ==
  LET ready == {r \in live : start[r] + L <= iters}
  IN case.mode = "buckets" /\ ready # {} /\ todo' = Select(ready)
\* the next mini batch of all rows
SelectMaxBatch == case.mode = "batch" /\ live # {} /\ todo' = Select(live)
\* all pending rows of a paged call, while its iterations last
SelectPending == /\ case.mode = "paged" /\ live # {} /\ iters < MaxDecodeIters
                 /\ todo' = SetToSortSeq(live, <)

\* _select_decode_sequences: the rows of the next forward
SelectBatch ==
  /\ pc = "loop" /\ todo = <<>>
  /\ SelectBucket \/ SelectMaxBatch \/ SelectPending
  /\ UNCHANGED <<case, decoded, x, start, kv, budget, rs, live, called, iters, pc, out, fin,
                 filled, committed, idle>>

\* one decoder step on row r, whose forward produced o
Decode(r, o) ==
  LET b == Block(r)
      row == IF rs[r].start # start[r] THEN BeginBlock(b, start[r]) ELSE rs[r]
      allow == budget.post[r] < MaxPostSteps
  IN CASE case.decoder = "threshold" -> [block |-> ThresholdStep(b, o), row |-> rs[r]]
       [] case.decoder = "hierarchy" -> [block |-> HierarchyStep(b, o), row |-> rs[r]]
       [] case.decoder = "joint" -> [block |-> JointStep(b, o, PromptIn(r), allow), row |-> rs[r]]
       [] OTHER -> LevenshteinStep(b, o, PromptIn(r), row)

\* mutant: a block is finished once its forward saw no mask, edits or not
FinishedUnmasked(before, after) == MaskedIn(before) = {}
\* a block is finished when its forward saw no mask and its decoder changed nothing
Finished(before, after) == MaskedIn(before) = {} /\ after = before

\* mutant: edits are counted, iterations are not
UpdateBudgetForgets(S, before, after) ==
  [post |-> [r \in Rows |->
      IF r \in S /\ MaskedIn(before[r]) = {} /\ before[r] # after[r] THEN budget.post[r] + 1
      ELSE IF r \in S /\ Finished(before[r], after[r]) THEN 0 ELSE budget.post[r]],
   iters |-> [r \in Rows |-> 0], calls |-> 0]
\* DecodeEditBudget.update for the rows S of one forward
UpdateBudget(S, before, after) ==
  [post |-> [r \in Rows |->
      IF r \notin S THEN budget.post[r]
      ELSE IF Finished(before[r], after[r]) THEN 0
      ELSE budget.post[r] + (IF MaskedIn(before[r]) = {} THEN 1 ELSE 0)],
   iters |-> [r \in Rows |->
      IF r \notin S THEN budget.iters[r]
      ELSE IF Finished(before[r], after[r]) THEN 0 ELSE budget.iters[r] + 1],
   calls |-> (budget.calls + 1) % MaxBlockIters]
\* the periodic check of the budget
Stuck(b) == b.calls = 0 /\ \E r \in Rows : b.iters[r] >= MaxBlockIters

\* mutant: an eos of the prompt counts
EosHitAnywhere(r, tokens, end) == \E i \in 1..end : i <= Width /\ tokens[i] = Eos
\* generated_eos_hit: an eos among the generated positions of the finished blocks
EosHit(r, tokens, end) == \E i \in (Prompt(r) + 1)..end : i <= Width /\ tokens[i] = Eos

\* the model predicts the mask where the decoder was to fill in a token: everywhere,
\* or, for the hierarchy decoder, which also picks such a position, somewhere
NoToken(b, o) ==
  LET masks == {i \in MaskedIn(b) : Best(o[i], {}) = Mask}
  IN masks # {} /\ (case.decoder = "hierarchy" \/ masks = MaskedIn(b))

\* _decode_selected_batch on one part of the batch, up to the decoder's answer
ForwardPart ==
  /\ pc = "loop" /\ todo # <<>>
  /\ LET part == Range(SubSeq(todo, 1, NextPart(Len(todo))))
     IN \E o \in [part -> [Pos -> Outputs[case.decoder]]] :
          /\ decoded' = [r \in part |-> Decode(r, o[r])]
          /\ idle' = idle \cup {r \in part : NoToken(Block(r), o[r])}
  /\ pc' = "commit"
  /\ UNCHANGED <<case, x, start, kv, budget, rs, todo, live, called, iters, out, fin, filled, committed>>

\* the rest of it: tokens, edit budget, KV commit, block advance, early stop
CommitPart ==
  /\ pc = "commit"
  /\ LET part == DOMAIN decoded
         rest == SubSeq(todo, Cardinality(part) + 1, Len(todo))
         before == [r \in part |-> Block(r)]
         after == [r \in part |-> decoded[r].block]
         done == {r \in part : Finished(before[r], after[r])}
         put(row, r, blk) == [i \in 1..Width |-> IF i - start[r] \in Pos THEN blk[i - start[r]] ELSE row[i]]
         moved(r) == start[r] + (IF r \in done THEN L ELSE 0)
         stops == {r \in done : case.earlyStop /\ EosHit(r, put(x[r], r, after[r]), moved(r))}
         written == IF case.runner = "dense" THEN done ELSE part
     IN /\ x' = [r \in Rows |-> IF r \in part THEN put(x[r], r, after[r]) ELSE x[r]]
        /\ rs' = [r \in Rows |-> IF r \in part THEN decoded[r].row ELSE rs[r]]
        /\ budget' = UpdateBudget(part, before, after)
        /\ kv' = [r \in Rows |-> IF r \in written THEN put(kv[r], r, before[r]) ELSE kv[r]]
        /\ start' = [r \in Rows |-> IF r \in stops THEN Width
                                    ELSE IF r \in part THEN moved(r) ELSE start[r]]
        /\ committed' = [r \in Rows |-> IF r \in done THEN moved(r) ELSE committed[r]]
        /\ IF Stuck(budget') THEN pc' = "stuck" /\ todo' = <<>> ELSE pc' = "loop" /\ todo' = rest
        /\ live' = IF case.mode = "paged" THEN live \ done
                   ELSE {r \in live : start'[r] + L <= DecodeEnd(r) /\ r \notin stops}
        /\ iters' = IF case.mode = "paged" /\ rest = <<>> THEN iters + 1 ELSE iters
  /\ decoded' = <<>>
  /\ UNCHANGED <<case, called, out, fin, filled, idle>>

\* the loop of _execute_paged_decode used up its iterations
LoopExhausted ==
  /\ pc = "loop" /\ case.mode = "paged" /\ todo = <<>>
  /\ live # {} /\ iters >= MaxDecodeIters
  /\ pc' = "stuck"
  /\ UNCHANGED <<case, decoded, x, start, kv, budget, rs, todo, live, called, iters, out, fin, filled, committed, idle>>

Unmasked(s) == SelectSeq(s, LAMBDA t : t # Mask)
Prefix(s, n) == SubSeq(s, 1, Min({n, Len(s)}))
FirstEos(s) == Min({i \in DOMAIN s : s[i] = Eos} \cup {Len(s) + 1})

\* what a request keeps of the tokens generated for it: cut at eos, masks filtered
Kept(s) == IF case.ignoreEos THEN Unmasked(s) ELSE Unmasked(Prefix(s, FirstEos(s) - 1))
HasEos(s) == ~case.ignoreEos /\ FirstEos(s) <= Len(s)

\* the slice execute_batch takes of a row of the output of generate: from the
\* width of the padded prompt, with everything past the row's own end masked
DenseSlice(r) ==
  [i \in 1..case.gen |-> LET at == MaxPrompt + i
                         IN IF at > Width \/ at > Prompt(r) + case.gen THEN Mask ELSE x[r][at]]

\* generate returns, BlockDiffusionExecutor.execute_batch builds the results
CollectBatch ==
  /\ pc = "loop" /\ case.mode # "paged" /\ live = {} /\ todo = <<>>
  /\ out' = [r \in Rows |-> Kept(DenseSlice(r))]
  /\ fin' = [r \in Rows |-> IF HasEos(DenseSlice(r)) THEN "stop" ELSE "length"]
  /\ pc' = "done"
  /\ UNCHANGED <<case, decoded, x, start, kv, budget, rs, todo, live, called, iters, filled, committed, idle>>

\* the engine calls the runner with the decode rows of a plan: tokens are rebuilt
\* from input_ids + output_ids, budget and row state start afresh
PagedCall ==
  /\ pc = "idle"
  /\ \E S \in SUBSET {r \in filled : fin[r] = "none"} :
       /\ S # {}
       /\ live' = S /\ called' = S
       /\ x' = [r \in Rows |-> IF r \in S THEN Canvas(r, out[r]) ELSE x[r]]
       /\ start' = [r \in Rows |-> IF r \in S THEN committed[r] ELSE start[r]]
  /\ budget' = FreshBudget /\ rs' = [r \in Rows |-> NoRow]
  /\ iters' = 0 /\ pc' = "loop"
  /\ UNCHANGED <<case, decoded, kv, todo, out, fin, filled, committed, idle>>

\* mutant: the prompt part of the first block is reported as output
PagedBlockWithPrompt(r) == [i \in 1..L |-> x[r][committed[r] - L + i]]
\* the block a paged call generated for r, without the prompt, cut to the budget
PagedBlock(r) ==
  LET from == Max({committed[r] - L, Prompt(r)})
  IN Prefix([i \in 1..(committed[r] - from) |-> x[r][from + i]], case.gen - Len(out[r]))

\* results of a paged call, one for every active row
PagedResults ==
  /\ pc = "loop" /\ case.mode = "paged" /\ live = {} /\ todo = <<>>
  /\ LET more(r) == Kept(PagedBlock(r))
     IN /\ out' = [r \in Rows |-> IF r \in called THEN out[r] \o more(r) ELSE out[r]]
        /\ fin' = [r \in Rows |->
             IF r \notin called THEN fin[r]
             ELSE IF HasEos(PagedBlock(r)) THEN "stop"
             ELSE IF Len(out[r] \o more(r)) >= case.gen THEN "length" ELSE "none"]
  /\ pc' = IF \E r \in Rows : fin'[r] = "none" THEN "idle" ELSE "done"
  /\ UNCHANGED <<case, decoded, x, start, kv, budget, rs, todo, live, called, iters, filled, committed, idle>>

Over == pc \in {"done", "stuck", "refused"} /\ UNCHANGED vars

Next == \/ PrefillBatches \/ PagedPrefill \/ NextBucket \/ SelectBatch \/ ForwardPart \/ CommitPart \/ LoopExhausted
        \/ CollectBatch \/ PagedCall \/ PagedResults \/ Over

\* every step is a statement of one loop: nothing but its own error stops it
Spec == Init /\ [][Next]_vars /\ WF_vars(Next)

-----------------------------------------------------------------------------
(* The state is well formed; a row that does not converge is noticed at    *)
(* most one check interval after its budget is used up.                    *)
TypeOK ==
  /\ case \in Cases
  /\ \A r \in Rows : /\ DOMAIN x[r] = 1..Width /\ DOMAIN kv[r] = 1..Width
                     /\ start[r] \in 0..Width /\ start[r] % L = 0
                     /\ rs[r].step \in 0..MaxStepsPerBlock
                     /\ budget.iters[r] \in 0..(2 * MaxBlockIters - 1)
                     /\ budget.post[r] \in 0..MaxBlockIters
                     /\ fin[r] \in {"none", "stop", "length"}
  /\ Range(todo) \subseteq live /\ live \subseteq Rows /\ called \subseteq Rows

(* A finished block holds neither mask nor edit token, and the keys and    *)
(* values cached for it are those of the tokens the row holds there now,   *)
(* although edits may rewrite a block after any forward, and a paged call  *)
(* rebuilds its tokens from the output of the calls before.                *)
KVCommitted ==
  \A r \in Rows : \A i \in 1..committed[r] :
    /\ kv[r][i] = x[r][i]
    /\ Prompt(r) < i /\ i <= Width => x[r][i] \notin {Mask} \cup Edits

(* Edits, insertions and deletions never touch a prompt token, also when   *)
(* the prompt ends inside the first decoded block.                         *)
PromptKept == \A r \in Rows : \A i \in 1..Prompt(r) : x[r][i] = Canvas(r, <<>>)[i]

(* Between paged calls the tokens of a running request end where its next  *)
(* block starts, so that input_ids + output_ids put every token back at    *)
(* the position it was decoded at.                                         *)
PagedPositions ==
  pc = "idle" => \A r \in Rows :
    fin[r] = "none" /\ committed[r] > Aligned(Prompt(r)) => Prompt(r) + Len(out[r]) = committed[r]

(* The batched rewrite of DELETE and SPLIT tokens is the scalar one on     *)
(* every block a forward may leave a row with, its prompt and tracked     *)
(* masks included.                                                         *)
EditsAgree ==
  RowState /\ pc = "loop" => \A r \in Range(todo) :
    \A blk \in [Pos -> {Word, Mask, Delete, Split}] :
      LET prompt == PromptIn(r)
          b == Block(r)
      IN (\A i \in prompt : blk[i] = b[i])
           => EditsBatched(blk, b, rs[r].original, prompt) = EditsScalar(blk, b, rs[r].original, prompt)

(* A row stops short of its budget only because it generated an eos (an    *)
(* eos of the prompt does not count), and a block is given up (the         *)
(* RuntimeError of the paged loop or of DecodeEditBudget.update) only when *)
(* the model itself predicted the mask instead of a token to fill in: the  *)
(* bounds on iterations, edits and levenshtein rounds are never too tight, *)
(* whichever way rows are split over captured graphs.                      *)
Complete ==
  /\ pc = "stuck" => idle # {}
  /\ pc = "done" => \A r \in Rows :
    LET generated == (Prompt(r) + 1)..(Prompt(r) + case.gen)
        sawEos == \E i \in (Prompt(r) + 1)..committed[r] : x[r][i] = Eos
    IN IF case.mode = "paged"
       THEN IF fin[r] = "stop" THEN sawEos ELSE Len(out[r]) = case.gen
       ELSE (\A i \in generated : x[r][i] # Mask) \/ (case.earlyStop /\ sawEos)

(* Every decode loop ends, by finishing or by reporting the stuck rows.    *)
Ends == <>(pc \in {"done", "stuck", "refused"})

(* generate leaves each row as prompt plus output, and the consumer slices *)
(* the prompt off: a request is answered with the tokens decoded right     *)
(* after its own prompt, in a batch of prompts of any lengths.             *)
FirstTokensKept ==
  pc = "done" /\ case.mode # "paged" => \A r \in Rows :
    out[r] = Kept([i \in 1..case.gen |-> x[r][Prompt(r) + i]])
=============================================================================
