------------------------------ MODULE Weights ------------------------------
(* How the layer library cuts a checkpoint tensor into the parameter of one *)
(* rank (layers/linear.py, layers/vocab_parallel_embedding.py, the expert   *)
(* maps of model_loader/weight_utils.py), and the arithmetic of the process *)
(* groups.  A tensor is the sequence of the cells along the dimension it is *)
(* sharded on; a cell <<layer, kind, expert, index>> names the head, unit   *)
(* or vocabulary row of the checkpoint it was read from.                    *)
EXTENDS Integers, Sequences, FiniteSets, SequencesExt

CONSTANT VocabPad   \* DEFAULT_VOCAB_PADDING_SIZE (64 in the code)

ASSUME VocabPadAssumption == VocabPad \in Nat \ {0}

\* torch.empty leaves a parameter unset; a masked or padded row is zero.
Empty == <<0, "unset", 0, 0>>
Zero == <<0, "zero", 0, 0>>

\* The checkpoint tensor (layer, kind, expert) with n cells.
Cells(l, kind, e, n) == [i \in 1..n |-> <<l, kind, e, i - 1>>]

Unset(n) == [i \in 1..n |-> Empty]

Narrow(t, start, size) == SubSeq(t, start + 1, start + size)

Copied(p, offset, t) ==
  [i \in 1..Len(p) |-> IF i > offset /\ i <= offset + Len(t) THEN t[i - offset] ELSE p[i]]

MaxOf(a, b) == IF a >= b THEN a ELSE b

MinOf(a, b) == IF a <= b THEN a ELSE b

----------------------------------------------------------------------------
(* Process groups.  world is the number of ranks, dp the attention data     *)
(* parallelism, ep the expert parallelism.                                  *)

AttentionTpSize(world, dp) == world \div dp

AttentionTpRank(r, world, dp) == r % AttentionTpSize(world, dp)

ExpertRank(r, ep) == r % MaxOf(1, ep)

MoeTpSize(world, ep) == IF ep <= 1 THEN world ELSE MaxOf(1, world \div ep)

----------------------------------------------------------------------------
(* Linear layers.                                                           *)

\* ReplicatedLinear: every rank copies the whole tensor.
ReplicatedLoad(p, t) == Copied(p, 0, t)

\* RowParallelLinear: the input dimension, one slice per rank.
RowSize(n, tp) == n \div tp

RowLoad(p, t, r) == Copied(p, 0, Narrow(t, r * Len(p), Len(p)))

\* MergedColumnParallelLinear over the two matrices gate and up of n units.
MergedSize(n, tp) == 2 * (n \div tp)

MergedLoad(p, t, shard, n, r, tp) ==
  LET size == n \div tp
      offset == (shard * n) \div tp
  IN Copied(p, offset, Narrow(t, r * size, size))

\* QKVParallelLinear: what a rank holds when there are fewer key heads than ranks.
KvHeads(kv, tp) == IF tp >= kv THEN 1 ELSE kv \div tp

KvReplicas(kv, tp) == IF tp >= kv THEN tp \div kv ELSE 1

QkvSize(heads, kv, tp) == (heads \div tp) + 2 * KvHeads(kv, tp)

QkvOffset(shard, heads, kv, tp) ==
  CASE shard = "q" -> 0
    [] shard = "k" -> heads \div tp
    [] shard = "v" -> (heads \div tp) + KvHeads(kv, tp)

QkvShardSize(shard, heads, kv, tp) == IF shard = "q" THEN heads \div tp ELSE KvHeads(kv, tp)

QkvShardId(shard, r, kv, tp) == IF shard = "q" THEN r ELSE r \div KvReplicas(kv, tp)

QkvLoad(p, t, shard, heads, kv, r, tp) ==
  LET size == QkvShardSize(shard, heads, kv, tp)
  IN Copied(p, QkvOffset(shard, heads, kv, tp),
            Narrow(t, QkvShardId(shard, r, kv, tp) * size, size))

----------------------------------------------------------------------------
(* The vocabulary dimension.  The models add no rows of their own (LoRA), so *)
(* the added part of every shard is empty.                                   *)

PadVocab(v) == ((v + VocabPad - 1) \div VocabPad) * VocabPad

\* num_org_elements_padded: the rows of one rank.
VocabRows(v, tp) == PadVocab(v) \div tp

\* The half-open range of token ids rank r holds, the padding removed.
VocabIndices(v, r, tp) ==
  [start |-> MinOf(r * VocabRows(v, tp), v), end |-> MinOf((r + 1) * VocabRows(v, tp), v)]

VocabLoad(p, t, v, r, tp) ==
  LET ix == VocabIndices(v, r, tp)
      rows == Narrow(t, ix.start, ix.end - ix.start)
  IN [i \in 1..Len(p) |-> IF i <= Len(rows) THEN rows[i] ELSE Zero]

\* get_masked_input_and_mask and the lookup: the row of token id, or zero.
VocabLookup(p, id, v, r, tp) ==
  LET ix == VocabIndices(v, r, tp)
      held == tp = 1 \/ (id >= ix.start /\ id < ix.end)
  IN IF held THEN p[(IF tp = 1 THEN id ELSE id - ix.start) + 1] ELSE Zero

\* get_sharded_to_full_mapping: the positions of the tokens in the gathered
\* logits, then those of the padding.
ShardedToFull(v, tp) ==
  LET Held(r) == VocabIndices(v, r, tp).end - VocabIndices(v, r, tp).start
      base(r) == [i \in 1..Held(r) |-> r * VocabRows(v, tp) + i - 1]
      padding(r) == [i \in 1..(VocabRows(v, tp) - Held(r)) |->
                        r * VocabRows(v, tp) + Held(r) + i - 1]
  IN FlattenSeq([r \in 1..tp |-> base(r - 1)]) \o FlattenSeq([r \in 1..tp |-> padding(r - 1)])

\* _get_logits: gather the local rows, reorder them and cut the padding.  One
\* rank holds every row in place and has no mapping.
GatheredLogits(parts, v, tp) ==
  LET all == FlattenSeq(parts)
      order == ShardedToFull(v, tp)
  IN Narrow(IF tp = 1 THEN all ELSE [i \in 1..Len(all) |-> all[order[i] + 1]], 0, v)

----------------------------------------------------------------------------
(* Experts.  emap[e] is the expert-parallel rank of expert e (from 0).       *)

\* load_expert_mappings without a map file.
DefaultMap(experts, ep) == [e \in 0..(experts - 1) |-> e \div (experts \div ep)]

\* per_gpu_expert_mapping: the experts of rank r in ascending order.
LocalExperts(emap, r) == SelectSeq([i \in 1..Cardinality(DOMAIN emap) |-> i - 1],
                                   LAMBDA e : emap[e] = r)

\* per_gpu_inverse_mapping: the local index of a global expert, or -1.
LocalIndex(emap, r, e) ==
  LET mine == LocalExperts(emap, r)
  IN IF \E i \in DOMAIN mine : mine[i] = e THEN (CHOOSE i \in DOMAIN mine : mine[i] = e) - 1 ELSE -1

\* _load_w13 and _load_w2 of an unsplit expert (moe_tp_size = 1).
ExpertLoad(p, t) == Copied(p, 0, Narrow(t, 0, Len(p)))

=============================================================================
