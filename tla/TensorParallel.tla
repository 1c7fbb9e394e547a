--------------------------- MODULE TensorParallel ---------------------------
(* One model on several ranks: the launch checks, the checkpoint read into  *)
(* every rank's parameters, and one forward pass with its collectives.      *)
(*                                                                          *)
(* A value on a rank is a bag of terms per token.  A term                   *)
(* <<layer, op, a, b, d, o>> is the contribution of one head, one unit of an*)
(* MLP or one unit of an expert, named by the checkpoint cells it           *)
(* multiplies.  Adding is the union of bags, an all-reduce adds over ranks, *)
(* so a contribution that is lost, added twice or built from another head's *)
(* weights is visible.  A value that has passed a norm is a term of its own,*)
(* and `normed' keeps what every norm was given.                            *)
EXTENDS Weights, Routing, Bags

CONSTANTS
  Configs,      \* the launches: model, sizes, parallelism, checkpoint
  NumTokens,    \* tokens of the forward pass
  ScoreTables,  \* router scores by token and expert
  Bias,         \* the router's correction bias by expert
  ChunkSize,    \* CHUNK_SIZE of fused_experts_impl (65536 in the code)
  BlockM        \* BLOCK_SIZE_M of the expert kernel

ASSUME SizesAssumption == /\ NumTokens \in Nat \ {0}
                          /\ ChunkSize \in Nat \ {0}
                          /\ BlockM \in Nat \ {0}

VARIABLES
  c,          \* the configuration
  phase,      \* launch, loading, ready, embedded, attended, done, refused
  unread,     \* checkpoint tensors still to be read
  noted,      \* what the loader remembers of the tensors it has read
  params,     \* params[r][name]: the parameter `name' of rank r
  layer,      \* the layer being computed
  ids,        \* the input token of every position
  soft,       \* the positions with continuous embeddings mixed in
  routes,     \* routes[l]: the experts of every token
  hidden,     \* hidden[r][t]
  residual,   \* residual[r][t]
  normed,     \* <<tag, layer, rank, token, bag>>: the inputs of the norms
  logits      \* logits[r]: the rows of the head in the order of the token ids

vars == <<c, phase, unread, noted, params, layer, ids, soft, routes, hidden, residual, normed, logits>>

Tokens == 0..(NumTokens - 1)

World(cf) == cf.tp * cf.dp

Ranks == 0..(World(c) - 1)

Layers(cf) == DOMAIN cf.layers

Tp(cf) == World(cf)

ATp(cf) == AttentionTpSize(World(cf), cf.dp)

ARank(cf, r) == AttentionTpRank(r, World(cf), cf.dp)

HasMoe(cf, l) == cf.layers[l] = "sparse" \/ cf.model = "gemma"

HasMlp(cf, l) == cf.layers[l] /= "sparse"

(* enable_moe_dense_fully_dp: with DP attention the dense MLP is not split. *)
MlpTp(cf) == IF cf.model = "llada" /\ cf.dp > 1 THEN 1 ELSE Tp(cf)

SharedTp(cf) == IF cf.ep > 1 THEN 1 ELSE Tp(cf)

----------------------------------------------------------------------------
(* Launch.                                                                  *)

LocalLaunchValid(cf) == IF cf.dp > 1 THEN cf.dp = cf.ep ELSE cf.tp = cf.ep

DistributedValid(cf) == cf.experts % cf.ep = 0

BlockRoutingAligned(cf) == cf.routing = "block" => NumTokens % cf.blockSize = 0

LaunchValid(cf) == LocalLaunchValid(cf) /\ DistributedValid(cf) /\ BlockRoutingAligned(cf)

(* The divisions and assertions of the constructors.                        *)
HeadsValid(cf) == cf.heads % ATp(cf) = 0

KeyHeadsValid(cf) == IF ATp(cf) >= cf.kv THEN ATp(cf) % cf.kv = 0 ELSE cf.kv % ATp(cf) = 0

LayersValid(cf) ==
  /\ HeadsValid(cf) /\ KeyHeadsValid(cf)
  /\ cf.units % MlpTp(cf) = 0
  /\ PadVocab(cf.vocab) % Tp(cf) = 0

(* LayerScatterModes.                                                       *)
MlpMode(cf, l) ==
  CASE cf.layers[l] = "sparse" -> IF cf.dp > 1 /\ cf.ep = cf.dp THEN "TP_ATTN_FULL" ELSE "FULL"
    [] OTHER -> IF cf.dp > 1 THEN "SCATTERED" ELSE "FULL"

MiddleResidualMode(cf, l) == IF MlpMode(cf, l) = "SCATTERED" THEN "SCATTERED" ELSE "TP_ATTN_FULL"

LayerOutputMode(cf, l) ==
  IF l = Len(cf.layers) \/ MlpMode(cf, l) /= "SCATTERED" THEN "TP_ATTN_FULL" ELSE "SCATTERED"

LayerInputMode(cf, l) == IF l = 1 THEN "TP_ATTN_FULL" ELSE LayerOutputMode(cf, l - 1)

GroupSize(cf, mode) ==
  CASE mode = "SCATTERED" -> 1 [] mode = "TP_ATTN_FULL" -> ATp(cf) [] mode = "FULL" -> Tp(cf)

SameGroup(cf, a, b) == GroupSize(cf, a) = GroupSize(cf, b)

(* The three functions of a LayerCommunicator.                              *)
SimpleFn(cf, in, out) ==
  IF SameGroup(cf, in, out) THEN "trivial"
  ELSE IF in = "SCATTERED" /\ out = "TP_ATTN_FULL" THEN "all_gather" ELSE "refused"

NormFn(cf, in, resIn, out, resOut) ==
  IF SameGroup(cf, in, out) /\ SameGroup(cf, resIn, resOut) /\ ATp(cf) = 1 THEN "simple"
  ELSE CASE in = "TP_ATTN_FULL" /\ out = "FULL" /\ resOut = "TP_ATTN_FULL" -> "gather"
         [] in = "TP_ATTN_FULL" /\ out = "SCATTERED" /\ resOut = "SCATTERED" -> "scatter"
         [] OTHER -> "refused"

PairFn(cf, in, res, out) ==
  IF SameGroup(cf, in, out) /\ SameGroup(cf, res, out) THEN "trivial"
  ELSE CASE in = "FULL" /\ res = "TP_ATTN_FULL" /\ out = "TP_ATTN_FULL" -> "scatter_hidden"
         [] in = "SCATTERED" /\ res = "SCATTERED" /\ out = "TP_ATTN_FULL" -> "gather"
         [] in = "TP_ATTN_FULL" /\ res = "TP_ATTN_FULL" /\ out = "SCATTERED" -> "scatter"
         [] OTHER -> "refused"

PrepareAttn(cf, l) == SimpleFn(cf, LayerInputMode(cf, l), "TP_ATTN_FULL")

PrepareMlp(cf, l) == NormFn(cf, "TP_ATTN_FULL", LayerInputMode(cf, l), MlpMode(cf, l), MiddleResidualMode(cf, l))

Postprocess(cf, l) == PairFn(cf, MlpMode(cf, l), MiddleResidualMode(cf, l), LayerOutputMode(cf, l))

CommunicatorValid(cf) ==
  cf.model = "llada" =>
    \A l \in Layers(cf) : "refused" \notin {PrepareAttn(cf, l), PrepareMlp(cf, l), Postprocess(cf, l)}

----------------------------------------------------------------------------
(* The checkpoint: the tensors of each model, and their cells.              *)

LladaLayerSources(cf, l) ==
  {<<l, k, 0>> : k \in {"qkv", "o"}} \cup
  (IF cf.layers[l] = "dense" THEN {<<l, k, 0>> : k \in {"g", "u", "d"}}
   ELSE {<<l, k, 0>> : k \in {"sg", "su", "sd"}} \cup
        IF cf.stacked THEN {<<l, "w1", 0>>, <<l, "w2", 0>>}
        ELSE {<<l, k, e>> : k \in {"eg", "eu", "ed"}, e \in 0..(cf.experts - 1)})

(* nemotron_weight_plan.                                                    *)
NemotronLayerSources(cf, l) == {<<l, k, 0>> : k \in {"q", "k", "v", "o", "g", "u", "d"}}

GemmaLayerSources(cf, l) ==
  {<<l, k, 0>> : k \in {"q", "k", "o", "g", "u", "d", "w1", "w2"}} \cup
  IF cf.layers[l] = "full" THEN {} ELSE {<<l, "v", 0>>}

LayerSources(cf, l) ==
  CASE cf.model = "llada" -> LladaLayerSources(cf, l)
    [] cf.model = "nemotron" -> NemotronLayerSources(cf, l)
    [] cf.model = "gemma" -> GemmaLayerSources(cf, l)

Sources(cf) ==
  {<<0, "embed", 0>>, <<0, "norm", 0>>} \cup
  (IF cf.model = "gemma" THEN {} ELSE {<<0, "head", 0>>}) \cup
  UNION {LayerSources(cf, l) : l \in Layers(cf)}

OnDisk(cf) == (Sources(cf) \ cf.missing) \cup cf.extra

(* The full tensor of a source, in cells.                                   *)
Full(cf, s) ==
  LET l == s[1]  kind == s[2]  e == s[3]
      stack(kinds) == FlattenSeq([i \in 1..cf.experts |->
                        FlattenSeq([k \in DOMAIN kinds |-> Cells(l, kinds[k], i - 1, cf.moeUnits)])])
  IN CASE kind \in {"embed", "head"} -> Cells(0, kind, 0, cf.vocab)
       [] kind = "norm" -> Cells(0, kind, 0, 1)
       [] kind \in {"q", "o"} -> Cells(l, kind, 0, cf.heads)
       [] kind \in {"k", "v"} -> Cells(l, kind, 0, cf.kv)
       [] kind = "qkv" -> Cells(l, "q", 0, cf.heads) \o Cells(l, "k", 0, cf.kv) \o Cells(l, "v", 0, cf.kv)
       [] kind \in {"g", "u", "d"} -> Cells(l, kind, 0, cf.units)
       [] kind \in {"sg", "su", "sd", "eg", "eu", "ed"} -> Cells(l, kind, e, cf.moeUnits)
       [] kind = "w1" -> stack(<<"eg", "eu">>)
       [] kind = "w2" -> stack(<<"ed">>)

(* The parameters of a rank, and their local sizes.                         *)
LocalCount(cf) == cf.experts \div cf.ep

ParamSize(cf, p) ==
  CASE p[2] \in {"embed", "full", "head"} -> VocabRows(cf.vocab, Tp(cf))
    [] p[2] = "norm" -> 1
    [] p[2] = "qkv" -> QkvSize(cf.heads, cf.kv, ATp(cf))
    [] p[2] = "o" -> RowSize(cf.heads, ATp(cf))
    [] p[2] = "gate_up" -> MergedSize(cf.units, MlpTp(cf))
    [] p[2] = "down" -> RowSize(cf.units, MlpTp(cf))
    [] p[2] = "sgate_up" -> MergedSize(cf.moeUnits, SharedTp(cf))
    [] p[2] = "sdown" -> RowSize(cf.moeUnits, SharedTp(cf))
    [] p[2] = "w13" -> 2 * cf.moeUnits
    [] p[2] = "w2" -> cf.moeUnits

ParamNames(cf) ==
  {<<0, "embed", 0>>, <<0, "norm", 0>>} \cup
  (IF cf.model = "gemma" THEN {} ELSE {<<0, "head", 0>>}) \cup
  (IF cf.model = "llada" THEN {<<0, "full", 0>>} ELSE {}) \cup
  UNION {{<<l, k, 0>> : k \in {"qkv", "o"}} \cup
         (IF HasMlp(cf, l) THEN {<<l, "gate_up", 0>>, <<l, "down", 0>>} ELSE {}) \cup
         (IF cf.layers[l] = "sparse" THEN {<<l, "sgate_up", 0>>, <<l, "sdown", 0>>} ELSE {}) \cup
         (IF HasMoe(cf, l) THEN {<<l, k, i>> : k \in {"w13", "w2"}, i \in 0..(LocalCount(cf) - 1)} ELSE {})
         : l \in Layers(cf)}

Fresh(cf) == [p \in ParamNames(cf) |-> Unset(ParamSize(cf, p))]

(* get_moe_expert_parallel_rank and the expert map a rank computes with.    *)
ExpertMap(cf) == IF cf.model = "llada" THEN cf.emap ELSE DefaultMap(cf.experts, cf.ep)

----------------------------------------------------------------------------
(* Nemotron and Gemma: each tensor goes through its parameter's loader.     *)

(* The destination of a source and the slice of it the source fills.        *)
Destination(s) ==
  CASE s[2] \in {"q", "k", "v"} -> <<s[1], "qkv", 0>>
    [] s[2] \in {"g", "u"} -> <<s[1], "gate_up", 0>>
    [] s[2] = "d" -> <<s[1], "down", 0>>
    [] s[2] = "w1" -> <<s[1], "w13", 0>>
    [] OTHER -> s

(* What the parameter p of rank r becomes when the loader is given the      *)
(* tensor t as the slice `shard' of p.                                      *)
WeightLoader(cf, r, p, old, t, shard) ==
  CASE p[2] \in {"embed", "head"} -> VocabLoad(old, t, cf.vocab, r, Tp(cf))
    [] p[2] = "norm" -> ReplicatedLoad(old, t)
    [] p[2] = "qkv" -> QkvLoad(old, t, shard, cf.heads, cf.kv, ARank(cf, r), ATp(cf))
    [] p[2] = "o" -> RowLoad(old, t, ARank(cf, r))
    [] p[2] = "gate_up" -> MergedLoad(old, t, IF shard = "g" THEN 0 ELSE 1, cf.units, r, Tp(cf))
    [] p[2] = "down" -> RowLoad(old, t, r)

(* Gemma: the experts of one rank out of the stacked tensor.                *)
GemmaExperts(cf, r, s, name) ==
  LET width == IF s[2] = "w1" THEN 2 * cf.moeUnits ELSE cf.moeUnits
      start == ExpertRank(r, cf.ep) * LocalCount(cf)
  IN ExpertLoad(Unset(width), Narrow(Full(cf, s), (start + name[3]) * width, width))

(* The key projection of a full-attention layer of Gemma is its value too.  *)
Shards(cf, s) ==
  IF cf.model = "gemma" /\ s[2] = "k" /\ cf.layers[s[1]] = "full" THEN {"k", "v"} ELSE {s[2]}

(* The parameter `name' of rank r after the tensor s has been read.         *)
AfterTensor(cf, r, old, s, name) ==
  CASE s[2] \in {"w1", "w2"} /\ s[1] = name[1] /\ Destination(s)[2] = name[2] ->
         GemmaExperts(cf, r, s, name)
    [] s[2] \notin {"w1", "w2"} /\ name = Destination(s) ->
         FoldSet(LAMBDA sh, p : WeightLoader(cf, r, name, p, Full(cf, s), sh), old, Shards(cf, s))
    [] OTHER -> old

Streamed(cf, ps, S) ==
  [r \in DOMAIN ps |-> [name \in DOMAIN ps[r] |->
     FoldSet(LAMBDA s, p : AfterTensor(cf, r, p, s, name), ps[r][name], S)]]

(* What the loaders keep of a tensor: Nemotron the source, Gemma the        *)
(* destination; a name neither knows is unexpected.                         *)
Known(cf, s) == s \in Sources(cf)

(* Mutant: Nemotron keeps destinations too.                                 *)
DestinationNoted(cf, s) == Destination(s)

Noted(cf, s) == IF cf.model = "nemotron" THEN s ELSE Destination(s)

Required(cf) == {Noted(cf, s) : s \in Sources(cf)}

----------------------------------------------------------------------------
(* LLaDA: the tensors are staged per rank, then fused and sharded at once.  *)

(* _read_state_dict_for_current_rank keeps a rank's own experts.            *)
StagedFor(cf, r, S) ==
  {s \in S : s[2] \in {"eg", "eu", "ed"} => cf.emap[s[3]] = ExpertRank(r, cf.ep)}

(* _update_state_dict_for_fusemoe: every local expert needs its three       *)
(* tensors once one gate is there; a lookup that fails raises KeyError.     *)
ExpertsStaged(cf, r, l, S) ==
  LET gates == {s \in StagedFor(cf, r, S) : s[1] = l /\ s[2] = "eg"}
  IN gates /= {} =>
       \A i \in DOMAIN LocalExperts(cf.emap, ExpertRank(r, cf.ep)) :
         LET e == LocalExperts(cf.emap, ExpertRank(r, cf.ep))[i]
         IN {<<l, k, e>> : k \in {"eg", "eu", "ed"}} \subseteq S

KeysPresent(cf, r, S) ==
  /\ <<0, "embed", 0>> \in S
  /\ \A l \in Layers(cf) :
       /\ <<l, "g", 0>> \in S => <<l, "u", 0>> \in S
       /\ <<l, "sg", 0>> \in S => <<l, "su", 0>> \in S
       /\ <<l, "w1", 0>> \in S => <<l, "w2", 0>> \in S
       /\ ExpertsStaged(cf, r, l, S)

(* The local expert i of layer l: gate and up joined, or the rows of the    *)
(* tensors stacked on disk.                                                 *)
FusedExpert(cf, r, l, i, S, which) ==
  LET e == LocalExperts(cf.emap, ExpertRank(r, cf.ep))[i + 1]
      width == IF which = "w13" THEN 2 * cf.moeUnits ELSE cf.moeUnits
      disk == IF which = "w13" THEN <<l, "w1", 0>> ELSE <<l, "w2", 0>>
  IN IF disk \in S THEN Narrow(Full(cf, disk), e * width, width)
     ELSE IF <<l, "eg", e>> \notin S THEN Unset(width)
     ELSE IF which = "w13" THEN Full(cf, <<l, "eg", e>>) \o Full(cf, <<l, "eu", e>>)
     ELSE Full(cf, <<l, "ed", e>>)

(* _transform_common_layer_weights: the slices of gate and up, joined.      *)
JoinedSlices(cf, l, gate, up, r, tp) ==
  LET part == Len(Full(cf, <<l, gate, 0>>)) \div tp
  IN Narrow(Full(cf, <<l, gate, 0>>), r * part, part) \o Narrow(Full(cf, <<l, up, 0>>), r * part, part)

(* apply_state_dicts: a tensor of another shape is narrowed by the rank.    *)
Applied(cf, t, size, r) == IF Len(t) = size THEN t ELSE Narrow(t, r * size, size)

(* apply_state_dicts on query_key_value, r the attention rank.              *)
AppliedQkv(cf, t, r) ==
  LET atp == ATp(cf)
      q == cf.heads \div atp
      part == IF atp > cf.kv THEN 1 ELSE cf.kv \div atp
      at == IF atp > cf.kv THEN r \div (atp \div cf.kv) ELSE r
  IN IF Len(t) = QkvSize(cf.heads, cf.kv, atp) THEN t
     ELSE Narrow(t, r * q, q) \o Narrow(t, cf.heads + at * part, part)
            \o Narrow(t, cf.heads + cf.kv + at * part, part)

(* The parameter `name' of rank r once the staged tensors S are applied; a  *)
(* parameter without a tensor keeps what it has.                            *)
LladaParam(cf, r, S, name) ==
  LET l == name[1]
      size == ParamSize(cf, name)
      From(src, t) == IF src \in S THEN t ELSE Unset(size)
  IN CASE name[2] \in {"embed", "full"} ->
            VocabLoad(Unset(size), Full(cf, <<0, "embed", 0>>), cf.vocab, r, Tp(cf))
       [] name[2] = "head" -> From(name, VocabLoad(Unset(size), Full(cf, name), cf.vocab, r, Tp(cf)))
       [] name[2] = "norm" -> From(name, Full(cf, name))
       [] name[2] = "qkv" -> From(name, AppliedQkv(cf, Full(cf, name), ARank(cf, r)))
       [] name[2] = "o" -> From(name, Applied(cf, Full(cf, name), size, r))
       [] name[2] = "gate_up" -> From(<<l, "g", 0>>, JoinedSlices(cf, l, "g", "u", IF MlpTp(cf) = 1 THEN 0 ELSE r, MlpTp(cf)))
       [] name[2] = "down" -> From(<<l, "d", 0>>, Applied(cf, Full(cf, <<l, "d", 0>>), size, r))
       [] name[2] = "sgate_up" -> From(<<l, "sg", 0>>, JoinedSlices(cf, l, "sg", "su", 0, SharedTp(cf)))
       [] name[2] = "sdown" -> From(<<l, "sd", 0>>, Applied(cf, Full(cf, <<l, "sd", 0>>), size, r))
       [] name[2] \in {"w13", "w2"} -> FusedExpert(cf, r, l, name[3], S, name[2])

----------------------------------------------------------------------------
(* Loading.                                                                 *)

Init ==
  /\ c \in Configs
  /\ phase = "launch"
  /\ unread = {} /\ noted = {} /\ params = <<>>
  /\ layer = 0 /\ ids = <<>> /\ soft = {} /\ routes = <<>>
  /\ hidden = <<>> /\ residual = <<>> /\ normed = {} /\ logits = <<>>

Refuse == phase' = "refused" /\ UNCHANGED <<c, unread, noted, params, layer, ids, soft, routes, hidden, residual, normed, logits>>

(* Launch the ranks and build the model, or refuse the configuration.       *)
Launch ==
  /\ phase = "launch"
  /\ IF LaunchValid(c) /\ LayersValid(c) /\ CommunicatorValid(c)
       THEN /\ phase' = "loading"
            /\ unread' = OnDisk(c)
            /\ params' = [r \in Ranks |-> Fresh(c)]
            /\ UNCHANGED <<c, noted, layer, ids, soft, routes, hidden, residual, normed, logits>>
       ELSE Refuse

(* Read one shard file: the tensors of the kinds in the split, or the rest. *)
ReadShard ==
  /\ phase = "loading" /\ unread /= {}
  /\ \E S \in {{s \in unread : s[2] \in c.split}, {s \in unread : s[2] \notin c.split}} \ {{}} :
       /\ unread' = unread \ S
       /\ noted' = noted \cup (IF c.model = "llada" THEN S ELSE {Noted(c, s) : s \in S})
       /\ params' = IF c.model = "llada" THEN params
                    ELSE Streamed(c, params, {s \in S : Known(c, s)})
  /\ UNCHANGED <<c, phase, layer, ids, soft, routes, hidden, residual, normed, logits>>

(* The end of load_model: the completeness check, or LLaDA's whole fusion.  *)
Finish ==
  /\ phase = "loading" /\ unread = {}
  /\ IF IF c.model = "llada" THEN \A r \in Ranks : KeysPresent(c, r, noted)
        ELSE noted = Required(c)
       THEN /\ phase' = "ready"
            /\ params' = IF c.model = "llada"
                           THEN [r \in Ranks |-> [n \in ParamNames(c) |-> LladaParam(c, r, noted, n)]]
                           ELSE params
            /\ UNCHANGED <<c, unread, noted, layer, ids, soft, routes, hidden, residual, normed, logits>>
       ELSE Refuse

----------------------------------------------------------------------------
(* The forward pass.                                                        *)

None == <<0, "none", 0, 0>>

BagOf(seq) == [x \in Range(seq) |-> Cardinality({i \in DOMAIN seq : seq[i] = x})]

(* A product with a zero row contributes nothing.                           *)
Contribution(seq) == BagOf(SelectSeq(seq, LAMBDA x : Zero \notin {x[3], x[4], x[5], x[6]}))

Added(a, b) == [r \in Ranks |-> [t \in Tokens |-> a[r][t] (+) b[r][t]]]

AllReduce(h) ==
  LET sum == [t \in Tokens |-> FoldSet(LAMBDA r, b : b (+) h[r][t], EmptyBag, Ranks)]
  IN [r \in Ranks |-> sum]

ReducedIf(cond, h) == IF cond THEN AllReduce(h) ELSE h

Given(tag, l, h) == {<<tag, l, r, t, h[r][t]>> : r \in Ranks, t \in Tokens}

(* A value that left the norm `tag' of layer l.                             *)
Normal(tag, l) == [r \in Ranks |-> [t \in Tokens |-> BagOf(<< <<l, tag, None, None, None, None>> >>)]]

(* The lookup of the input tokens, reduced over the ranks.                  *)
TokenRows(name) ==
  ReducedIf(Tp(c) > 1, [r \in Ranks |-> [t \in Tokens |->
    Contribution(<< <<0, "token", VocabLookup(params[r][name], ids'[t], c.vocab, r, Tp(c)), None, None, None>> >>)]])

(* H2Embed: probabilities times the rows the rank holds.                    *)
SoftRows ==
  AllReduce([r \in Ranks |->
    LET ix == VocabIndices(c.vocab, r, Tp(c))
        rows == [i \in 1..(ix.end - ix.start) |->
                   <<0, "soft", params[r][<<0, "full", 0>>][i], <<0, "prob", 0, ix.start + i - 1>>, None, None>>]
    IN [t \in Tokens |-> IF t \in soft' THEN Contribution(rows) ELSE EmptyBag]])

Embed ==
  /\ phase = "ready"
  /\ ids' \in [Tokens -> 0..(c.vocab - 1)]
  /\ soft' \in IF c.model = "llada" THEN {{}, {0}} ELSE {{}}
  /\ hidden' = IF soft' = {} THEN TokenRows(<<0, "embed", 0>>)
               ELSE Added(TokenRows(<<0, "full", 0>>), SoftRows)
  /\ residual' = [r \in Ranks |-> [t \in Tokens |-> EmptyBag]]
  /\ phase' = "embedded" /\ layer' = 1
  /\ UNCHANGED <<c, unread, noted, params, routes, normed, logits>>

(* The heads of rank r, each with its key head, through the output rows.    *)
Heads(l, r) ==
  LET qkv == params[r][<<l, "qkv", 0>>]
      n == c.heads \div ATp(c)
      g == n \div KvHeads(c.kv, ATp(c))
      Key(i) == qkv[n + ((i - 1) \div g) + 1]
      Value(i) == IF c.layers[l] = "full" THEN Key(i)
                  ELSE qkv[n + KvHeads(c.kv, ATp(c)) + ((i - 1) \div g) + 1]
  IN Contribution([i \in 1..n |-> <<l, "attn", qkv[i], Key(i), Value(i), params[r][<<l, "o", 0>>][i]>>])

AttentionOut(l) == [r \in Ranks |-> LET out == Heads(l, r) IN [t \in Tokens |-> out]]

(* LLaDA: prepare_attn, attention without a reduction, prepare_mlp, which   *)
(* reduces when its function is `gather'.                                   *)
LladaAttention ==
  /\ c.model = "llada"
  /\ residual' = Added(hidden, residual)
  /\ hidden' = ReducedIf(PrepareMlp(c, layer) = "gather", AttentionOut(layer))
  /\ normed' = normed \cup Given("input", layer, residual')

NemotronAttention ==
  /\ c.model = "nemotron"
  /\ residual' = hidden
  /\ hidden' = Added(hidden, ReducedIf(ATp(c) > 1, AttentionOut(layer)))
  /\ normed' = normed \cup Given("input", layer, hidden)

GemmaAttention ==
  /\ c.model = "gemma"
  /\ residual' = hidden
  /\ hidden' = Added(Normal("post_attn", layer), hidden)
  /\ normed' = normed \cup Given("input", layer, hidden)
                      \cup Given("post_attn", layer, ReducedIf(ATp(c) > 1, AttentionOut(layer)))

Attention ==
  /\ phase = "embedded" /\ layer <= Len(c.layers)
  /\ LladaAttention \/ NemotronAttention \/ GemmaAttention
  /\ phase' = "attended"
  /\ UNCHANGED <<c, unread, noted, params, layer, ids, soft, routes, logits>>

(* A gated MLP: the rank's units of gate, up and down.                      *)
Mlp(l, gu, dn) ==
  [r \in Ranks |->
    LET n == Len(params[r][<<l, dn, 0>>])
        out == Contribution([i \in 1..n |-> <<l, "mlp", params[r][<<l, gu, 0>>][i],
                  params[r][<<l, gu, 0>>][n + i], params[r][<<l, dn, 0>>][i], None>>])
    IN [t \in Tokens |-> out]]

LladaDense(l) == ReducedIf(MlpTp(c) > 1, Mlp(l, "gate_up", "down"))

NemotronMlp(l) == ReducedIf(Tp(c) > 1, Mlp(l, "gate_up", "down"))

GemmaMlp(l) == ReducedIf(Tp(c) > 1, Mlp(l, "gate_up", "down"))

SharedExperts(l) == Mlp(l, "sgate_up", "sdown")

(* The experts of every token of the pass.                                  *)
Routes(scores) ==
  LET Each(options) == {f \in [Tokens -> SUBSET (0..(c.experts - 1))] : \A t \in Tokens : f[t] \in options[t]}
      blocks == {{t \in Tokens : t \div c.blockSize = b} : b \in 0..((NumTokens - 1) \div c.blockSize)}
  IN CASE c.routing = "block" ->
            LET per == UNION {BlockTopK(scores, Bias, c.top, B, c.capacity) : B \in blocks}
            IN {f \in [Tokens -> UNION {Range(g) : g \in per}] : \A B \in blocks : Restrict(f, B) \in per}
       [] c.routing = "grouped" -> Each([t \in Tokens |-> GroupedTopK(scores[t], c.top, c.groups, c.keptGroups)])
       [] c.routing = "biased" -> Each([t \in Tokens |-> BiasedGroupedTopK(scores[t], Bias, c.top, c.groups, c.keptGroups)])
       [] c.routing = "plain" -> Each([t \in Tokens |-> PlainTopK(scores[t], c.top)])

(* The slots <<token, choice>> of a chunk, with the rank's local expert.    *)
Slots(r, chunk, route) ==
  LET of == [t \in Tokens |-> SetToSeq(route[t])]
  IN FlattenSeq([j \in DOMAIN chunk |-> [k \in 1..c.top |->
       [token |-> chunk[j], at |-> <<j, k>>, expert |-> LocalIndex(ExpertMap(c), ExpertRank(r, c.ep), of[chunk[j]][k])]]])

(* moe_align_block_size: the slots sorted by expert, -1 first, each expert  *)
(* cut into blocks of at most BlockM (the padding of a block is masked).    *)
Aligned(slots) ==
  LET Of(e) == SelectSeq(slots, LAMBDA s : s.expert = e)
      Cut(q, e) == [b \in 1..((Len(q) + BlockM - 1) \div BlockM) |->
                      [expert |-> e, slots |-> SubSeq(q, (b - 1) * BlockM + 1, MinOf(b * BlockM, Len(q)))]]
  IN FlattenSeq([i \in 1..(LocalCount(c) + 1) |-> Cut(Of(i - 2), i - 2)])

(* One launch of the kernel over the blocks: the rows it writes.  A block   *)
(* of an expert of another rank is written with zeros.                      *)
KernelRows(blocks, cache, row) ==
  [at \in DOMAIN cache |->
     LET hit == {b \in DOMAIN blocks : \E i \in DOMAIN blocks[b].slots : blocks[b].slots[i].at = at}
     IN IF hit = {} THEN cache[at] ELSE row[at, blocks[CHOOSE b \in hit : TRUE].expert]]

(* fused_experts_impl on one chunk: two kernels over one buffer.            *)
ChunkStep(l, r, route, chunk, cache) ==
  LET E == -1..(LocalCount(c) - 1)
      n == c.moeUnits
      blocks == Aligned(Slots(r, chunk, route))
      up == [x \in (DOMAIN cache) \X E |-> [i \in 1..n |->
               IF x[2] = -1 THEN <<l, "moe", Zero, Zero, None, None>>
               ELSE LET w == params[r][<<l, "w13", x[2]>>] IN <<l, "moe", w[i], w[n + i], None, None>>]]
      cache1 == KernelRows(blocks, cache, up)
      down == [x \in (DOMAIN cache) \X E |-> [i \in 1..n |->
                 IF x[2] = -1 THEN <<l, "moe", Zero, Zero, None, None>>
                 ELSE [cache1[x[1]][i] EXCEPT ![5] = params[r][<<l, "w2", x[2]>>][i]]]]
  IN KernelRows(blocks, cache1, down)

(* The chunks of the pass, in order; the last one may be empty.             *)
Chunks ==
  LET All == [k \in 1..(NumTokens \div ChunkSize + 1) |->
                [j \in 1..MaxOf(0, MinOf(k * ChunkSize, NumTokens) - (k - 1) * ChunkSize) |-> (k - 1) * ChunkSize + j - 1]]
  IN SelectSeq(All, LAMBDA q : q /= <<>>)

(* The sum over the choices of the token in row j of the cache.             *)
SumReduce(cache, j) == Contribution(FlattenSeq([k \in 1..c.top |-> cache[j, k]]))

(* fused_experts_impl: chunk after chunk through one intermediate cache.    *)
Experts(l, route) ==
  [r \in Ranks |->
    LET rows == MinOf(NumTokens, ChunkSize)
        fresh == [at \in (1..rows) \X (1..c.top) |-> [i \in 1..c.moeUnits |-> <<l, "stale", None, None, None, None>>]]
        Step(acc, chunk) ==
          LET cache == ChunkStep(l, r, route, chunk, acc.cache)
          IN [cache |-> cache,
              out |-> [t \in Tokens |-> IF \E j \in DOMAIN chunk : chunk[j] = t
                                        THEN SumReduce(cache, CHOOSE j \in DOMAIN chunk : chunk[j] = t) ELSE acc.out[t]]]
    IN FoldLeft(Step, [cache |-> fresh, out |-> [t \in Tokens |-> EmptyBag]], Chunks).out]

(* Mutant: the shared expert is added before the reduction.                 *)
SharedBeforeReduce(router, shared) == ReducedIf(Tp(c) > 1, Added(router, shared))

(* forward_normal of the LLaDA sparse block.                                *)
SparseOut(router, shared) ==
  IF c.ep > 1 THEN Added(AllReduce(router), shared)
  ELSE ReducedIf(Tp(c) > 1, Added(router, shared))

(* FusedMoE with reduce_results.                                            *)
GemmaMoe(l, route) == ReducedIf(MoeTpSize(World(c), c.ep) > 1 \/ c.ep > 1, Experts(l, route))

LladaFeedForward(l, route) ==
  /\ c.model = "llada"
  /\ normed' = normed \cup Given("post_attn", l, Added(hidden, residual))
  /\ residual' = Added(hidden, residual)
  /\ hidden' = IF c.layers[l] = "sparse" THEN SparseOut(Experts(l, route), SharedExperts(l))
               ELSE LladaDense(l)

NemotronFeedForward(l) ==
  /\ c.model = "nemotron"
  /\ normed' = normed \cup Given("post_attn", l, hidden)
  /\ residual' = hidden
  /\ hidden' = Added(hidden, NemotronMlp(l))

GemmaFeedForward(l, route) ==
  /\ c.model = "gemma"
  /\ \E mix \in {Added(Normal("post_ff_1", l), Normal("post_ff_2", l))} :
       /\ normed' = normed \cup Given("pre_ff", l, hidden)
                           \cup Given("post_ff_1", l, GemmaMlp(l))
                           \cup Given("post_ff_2", l, GemmaMoe(l, route))
                           \cup Given("post_ff", l, mix)
       /\ residual' = hidden
       /\ hidden' = Added(Normal("post_ff", l), hidden)

FeedForward ==
  /\ phase = "attended"
  /\ \E scores \in ScoreTables : \E route \in IF HasMoe(c, layer) THEN Routes(scores) ELSE {[t \in Tokens |-> {}]} :
       /\ routes' = Append(routes, route)
       /\ LladaFeedForward(layer, route) \/ NemotronFeedForward(layer) \/ GemmaFeedForward(layer, route)
  /\ phase' = "embedded" /\ layer' = layer + 1
  /\ UNCHANGED <<c, unread, noted, params, ids, soft, logits>>

(* Gemma ties the head to the embedding.                                    *)
HeadParam == IF c.model = "gemma" THEN <<0, "embed", 0>> ELSE <<0, "head", 0>>

(* The final norm and _get_logits: every rank gathers every rank's rows.    *)
Logits ==
  /\ phase = "embedded" /\ layer > Len(c.layers)
  /\ normed' = normed \cup Given("final", 0, IF c.model = "llada" THEN Added(hidden, residual) ELSE hidden)
  /\ logits' = [r \in Ranks |-> GatheredLogits([q \in 1..Tp(c) |-> params[q - 1][HeadParam]], c.vocab, Tp(c))]
  /\ phase' = "done"
  /\ UNCHANGED <<c, unread, noted, params, layer, ids, soft, routes, hidden, residual>>

Next == Launch \/ ReadShard \/ Finish \/ Embed \/ Attention \/ FeedForward \/ Logits

Spec == Init /\ [][Next]_vars

----------------------------------------------------------------------------
(* The same pass on one rank with the whole checkpoint.                     *)

Once(S) == [x \in S |-> 1]

Cell(l, kind, e, i) == <<l, kind, e, i>>

RefEmbed(t) ==
  Once({<<0, "token", Cell(0, "embed", 0, ids[t]), None, None, None>>} \cup
       IF t \notin soft THEN {}
       ELSE {<<0, "soft", Cell(0, "embed", 0, v), Cell(0, "prob", 0, v), None, None>> : v \in 0..(c.vocab - 1)})

RefAttention(l) ==
  Once({LET j == i \div (c.heads \div c.kv)
            key == Cell(l, "k", 0, j)
        IN <<l, "attn", Cell(l, "q", 0, i), key, IF c.layers[l] = "full" THEN key ELSE Cell(l, "v", 0, j), Cell(l, "o", 0, i)>>
        : i \in 0..(c.heads - 1)})

RefMlp(l, g, u, d, n) ==
  Once({<<l, "mlp", Cell(l, g, 0, i), Cell(l, u, 0, i), Cell(l, d, 0, i), None>> : i \in 0..(n - 1)})

RefExperts(l, t) ==
  Once({<<l, "moe", Cell(l, "eg", e, i), Cell(l, "eu", e, i), Cell(l, "ed", e, i), None>>
        : e \in routes[l][t], i \in 0..(c.moeUnits - 1)})

RefFeedForward(l, t) ==
  IF c.layers[l] = "sparse"
    THEN RefExperts(l, t) (+) RefMlp(l, "sg", "su", "sd", c.moeUnits)
    ELSE RefMlp(l, "g", "u", "d", c.units)

RefNormal(tag, l) == Once({<<l, tag, None, None, None, None>>})

(* The stream before layer l, and after the attention of layer l.           *)
RefStream(l, t) ==
  FoldSet(LAMBDA m, b : b (+) IF c.model = "gemma" THEN RefNormal("post_attn", m) (+) RefNormal("post_ff", m)
                              ELSE RefAttention(m) (+) RefFeedForward(m, t),
          RefEmbed(t), 1..(l - 1))

RefMiddle(l, t) == RefStream(l, t) (+) IF c.model = "gemma" THEN RefNormal("post_attn", l) ELSE RefAttention(l)

RefGiven(tag, l, t) ==
  CASE tag = "input" -> RefStream(l, t)
    [] tag = "post_attn" -> IF c.model = "gemma" THEN RefAttention(l) ELSE RefMiddle(l, t)
    [] tag = "pre_ff" -> RefMiddle(l, t)
    [] tag = "post_ff_1" -> RefMlp(l, "g", "u", "d", c.units)
    [] tag = "post_ff_2" -> RefExperts(l, t)
    [] tag = "post_ff" -> RefNormal("post_ff_1", l) (+) RefNormal("post_ff_2", l)
    [] tag = "final" -> RefStream(Len(c.layers) + 1, t)

(* With a complete checkpoint every norm of every rank is given what the    *)
(* model on one rank computes: no head, unit or expert is lost, counted per *)
(* rank or multiplied with another's weights, whatever the parallelism, the *)
(* replication of key heads, the expert map and the chunks; and every rank  *)
(* gets the logits of every token in the order of the token ids.            *)
ForwardExact ==
  c.missing = {} =>
    /\ \A g \in normed : g[5] = RefGiven(g[1], g[2], g[4])
    /\ phase = "done" => \A r \in Ranks :
         logits[r] = Cells(0, IF c.model = "gemma" THEN "embed" ELSE "head", 0, c.vocab)

(* A model that starts serving has every parameter written when its loader  *)
(* counts source tensors (Nemotron), or when the checkpoint was complete;   *)
(* and a complete checkpoint of a valid launch is never turned away.        *)
AcceptedComplete ==
  /\ phase = "ready" /\ (c.model = "nemotron" \/ c.missing = {}) =>
       \A r \in Ranks : \A p \in DOMAIN params[r] : Empty \notin Range(params[r][p])
  /\ phase = "refused" => ~LaunchValid(c) \/ ~LayersValid(c) \/ ~CommunicatorValid(c)
                            \/ c.missing /= {} \/ c.extra /= {}

(* Every token gets its top experts, and no more experts are used than the  *)
(* routing allows: a block stays within the capacity, a token within the    *)
(* groups kept.                                                             *)
RoutedWithin ==
  \A l \in DOMAIN routes : HasMoe(c, l) =>
    /\ \A t \in Tokens : Cardinality(routes[l][t]) = c.top
    /\ c.routing = "block" =>
         \A b \in 0..((NumTokens - 1) \div c.blockSize) :
           Cardinality(UNION {routes[l][t] : t \in {u \in Tokens : u \div c.blockSize = b}}) <= c.capacity
    /\ c.routing \in {"grouped", "biased"} =>
         \A t \in Tokens : Cardinality({Group(e, c.experts, c.groups) : e \in routes[l][t]}) <= c.keptGroups

=============================================================================
