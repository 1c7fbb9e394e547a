------------------------------ MODULE Decoders ------------------------------
(***************************************************************************)
(* The token selection of the LLaDA decoders, one block of one row at a    *)
(* time: execution/decoders/llada/*.  A decoder reads the logits of a      *)
(* forward pass over the block and rewrites some of its positions.         *)
(*                                                                         *)
(* The logits of a position are abstracted to a record: "order" lists the  *)
(* tokens by decreasing logit, "p" is the softmax confidence of the best   *)
(* one, on a scale of small integers.  Suppressing a token (writing -inf   *)
(* into its column) is taking the best of the others.                      *)
(***************************************************************************)
EXTENDS Naturals, Sequences, FiniteSets, FiniteSetsExt, SequencesExt

CONSTANTS
  L,                 \* block_length
  Mask,              \* mask_id
  Delete, Split,     \* the edit tokens of LLaDA2.2
  Threshold,         \* M2T confidence threshold
  EditingThreshold,  \* T2T confidence threshold
  LowThreshold,      \* low_threshold of the hierarchy decoder
  Steps,             \* steps of the M2T schedule
  MaxPostSteps,      \* max_post_steps
  MaxStepsPerBlock   \* max_steps_per_block

ASSUME DecoderAssumption ==
  /\ L \in Nat \ {0} /\ Steps \in Nat \ {0}
  /\ MaxPostSteps \in Nat /\ MaxStepsPerBlock \in Nat \ {0, 1}
  /\ Cardinality({Mask, Delete, Split}) = 3

Pos == 1..L
Edits == {Delete, Split}

\* argmax of the logits of a position once the columns in ban are -inf
Best(o, ban) == o.order[Min({i \in DOMAIN o.order : o.order[i] \notin ban})]

\* a block as an explicit tuple: the same sequence, evaluated once by TLC
Tuple(s) == <<>> \o s

MaskedIn(b) == {i \in Pos : b[i] = Mask}

\* confidence order of torch.argsort(descending, stable)
MoreConfident(o, i, j) == o[i].p > o[j].p \/ (o[i].p = o[j].p /\ i < j)

\* confidence >= clamp(max confidence, threshold): the best candidates always pass
AboveThreshold(o, cand) ==
  {i \in cand : \A j \in cand : o[i].p >= o[j].p \/ o[i].p >= Threshold}

\* get_transfer_index_threshold: masked positions whose best token is not the mask
ThresholdStep(b, o) ==
  LET cand == {i \in MaskedIn(b) : Best(o[i], {}) # Mask}
      transfer == AboveThreshold(o, cand)
  IN [i \in Pos |-> IF i \in transfer THEN Best(o[i], {}) ELSE b[i]]

\* HierarchyDecoder: the segment of masked positions around i
Segment(b, i) == {j \in MaskedIn(b) : \A k \in Pos :
                    (i <= k /\ k <= j) \/ (j <= k /\ k <= i) => k \in MaskedIn(b)}

\* HierarchyDecoder.get_transfer_index, intersected with the mask by decode
HierarchyStep(b, o) ==
  LET masked == MaskedIn(b)
      segmentBest == {i \in masked : \A j \in Segment(b, i) : o[i].p >= o[j].p}
      transfer == {i \in masked : \/ i \in segmentBest /\ o[i].p > LowThreshold
                                  \/ o[i].p > Threshold
                                  \/ \A j \in masked \ {i} : MoreConfident(o, i, j)}
  IN [i \in Pos |-> IF i \in transfer THEN Best(o[i], {}) ELSE b[i]]

\* mutant: prompt positions of the block may be edited
JointStepOpenPrompt(b, o, prompt, allowEdit) ==
  LET x0(i) == Best(o[i], {Mask})
      m2t == AboveThreshold(o, MaskedIn(b))
      t2t == {i \in Pos \ MaskedIn(b) : allowEdit /\ x0(i) # b[i] /\ o[i].p > EditingThreshold}
  IN [i \in Pos |-> IF i \in m2t \cup t2t THEN x0(i) ELSE b[i]]
\* joint_threshold_update: M2T above the threshold (at least one), T2T while allowed
JointStep(b, o, prompt, allowEdit) ==
  LET x0(i) == Best(o[i], {Mask})
      m2t == AboveThreshold(o, MaskedIn(b))
      t2t == {i \in Pos \ (MaskedIn(b) \cup prompt) :
                allowEdit /\ x0(i) # b[i] /\ o[i].p > EditingThreshold}
  IN [i \in Pos |-> IF i \in m2t \cup t2t THEN x0(i) ELSE b[i]]

-----------------------------------------------------------------------------
(* levenshtein_joint *)

\* apply_edit_operations: the scalar rewrite, left to right, padded or truncated
EditsScalar(blk, old, tracked, prompt) ==
  LET piece(i) ==
        IF i \in prompt THEN << <<blk[i], FALSE>> >>
        ELSE CASE blk[i] = Delete -> <<>>
               [] blk[i] = Split -> << <<Mask, FALSE>>, <<old[i], i \in tracked>> >>
               [] OTHER -> << <<blk[i], i \in tracked>> >>
      upTo[n \in 0..L] == IF n = 0 THEN <<>> ELSE upTo[n - 1] \o piece(n)
      all == upTo[L]
  IN [i \in Pos |-> IF i <= Len(all) THEN all[i] ELSE <<Mask, FALSE>>]

\* mutant: a SPLIT leaves one mask and loses its token
EditsBatchedLostToken(blk, old, tracked, prompt) ==
  LET kept == SelectSeq([i \in Pos |-> i], LAMBDA i : blk[i] # Delete \/ i \in prompt)
  IN [k \in Pos |-> IF k > Len(kept) \/ blk[kept[k]] = Split THEN <<Mask, FALSE>>
                     ELSE <<blk[kept[k]], kept[k] \in tracked \ prompt>>]
\* apply_edit_operations_batched: contributions scattered to prefix-sum offsets
EditsBatched(blk, old, tracked, prompt) ==
  LET count == Tuple([i \in Pos |-> IF i \in prompt THEN 1
                                    ELSE CASE blk[i] = Delete -> 0
                                           [] blk[i] = Split -> 2
                                           [] OTHER -> 1])
      ends[n \in 0..L] == IF n = 0 THEN 0 ELSE ends[n - 1] + count[n]
      first(k) == {i \in Pos : count[i] >= 1 /\ ends[i - 1] + 1 = k}
      second(k) == {i \in Pos : count[i] = 2 /\ ends[i - 1] + 2 = k}
  IN [k \in Pos |->
        IF first(k) # {}
        THEN LET i == CHOOSE j \in first(k) : TRUE
             IN IF count[i] = 2 THEN <<Mask, FALSE>> ELSE <<blk[i], i \in tracked \ prompt>>
        ELSE IF second(k) # {}
        THEN LET i == CHOOSE j \in second(k) : TRUE IN <<old[i], i \in tracked>>
        ELSE <<Mask, FALSE>>]

\* LevenshteinRowState of a row entering a block (_begin_block_rows)
BeginBlock(b, start) ==
  [start |-> start, original |-> MaskedIn(b), initial |-> Cardinality(MaskedIn(b)),
   step |-> 0, post |-> 0, finalized |-> MaskedIn(b) = {}, seen |-> {}]

\* the M2T set: everything past the schedule, else the confident ones, else the floor
ScheduledMasks(o, masked, rs) ==
  LET fresh == Cardinality(masked \ rs.original)
      need == rs.initial \div Steps + (IF rs.step < rs.initial % Steps THEN 1 ELSE 0) + fresh
      high == {i \in masked : o[i].p > Threshold}
      ranked == {i \in masked :
                   Cardinality({j \in masked : MoreConfident(o, j, i)}) < need}
  IN IF rs.step >= Steps THEN masked
     ELSE IF Cardinality(high) >= need THEN high ELSE ranked

\* the round that must leave the block resolved
FinalRound(rs, post, remaining, m2t) ==
  \/ MaxPostSteps > 0 /\ post >= MaxPostSteps
  \/ MaxPostSteps = 0 /\ remaining # {} /\ remaining \subseteq m2t
  \/ rs.step >= MaxStepsPerBlock - 1

EscapeIters == 5

\* one round of the anti-loop escape: swap the token of the least confident change
Resample(blk, b, o, seen) ==
  LET changed == {i \in Pos : blk[i] # b[i]}
      pos == CHOOSE i \in changed : \A j \in changed : o[i].p < o[j].p \/ (o[i].p = o[j].p /\ i <= j)
      top1 == Best(o[pos], {Mask})
  IN IF blk \in seen /\ changed # {}
     THEN Tuple([blk EXCEPT ![pos] = IF @ = top1 THEN Best(o[pos], {Mask, top1}) ELSE top1])
     ELSE blk

Escape(blk, b, o, seen) ==
  LET rounds[n \in 0..EscapeIters] ==
        IF n = 0 THEN {blk} ELSE {Resample(prev, b, o, seen) : prev \in rounds[n - 1]}
  IN CHOOSE last \in rounds[EscapeIters] : TRUE

\* levenshtein_graph_step and commit_row_state: the new block and the new row state
LevenshteinStep(b, o, prompt, rs) ==
  LET masked == MaskedIn(b) \ prompt
      remaining == masked \cap rs.original
      post == IF remaining = {} THEN rs.post + 1 ELSE 0
      x0(i) == Best(o[i], {Mask})
      scheduled == ScheduledMasks(o, masked, rs)
      t2t == {i \in Pos \ (MaskedIn(b) \cup prompt) :
                o[i].p > EditingThreshold /\ x0(i) # b[i]}
      final == FinalRound(rs, post, remaining, scheduled)
      write == t2t \cup (IF final THEN masked ELSE scheduled)
      token(i) == IF final /\ x0(i) \in Edits THEN Best(o[i], {Mask} \cup Edits) ELSE x0(i)
      written == Tuple([i \in Pos |-> IF i \in write THEN token(i) ELSE b[i]])
      blk == IF final THEN written ELSE Escape(written, b, o, rs.seen)
      edited == Tuple(EditsBatched(blk, b, rs.original, prompt))
  IN IF rs.finalized THEN [block |-> b, row |-> rs]
     ELSE [block |-> [i \in Pos |-> edited[i][1]],
           row |-> [rs EXCEPT !.original = {i \in Pos : edited[i][2]},
                              !.step = @ + 1, !.post = post,
                              !.finalized = final, !.seen = @ \cup {blk}]]
=============================================================================
