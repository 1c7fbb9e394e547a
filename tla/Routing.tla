------------------------------ MODULE Routing ------------------------------
(* The choice of experts (layers/moe/topk.py and llada2_block_routing_topk). *)
(* Scores are small integers; torch.topk may return any k of the largest     *)
(* when scores are equal, so every operator returns the set of outcomes.     *)
EXTENDS Integers, FiniteSets, FiniteSetsExt, Functions

NegInf == -1000

TopSets(score, k) ==
  {S \in kSubset(k, DOMAIN score) : \A a \in S, b \in DOMAIN score \ S : score[a] >= score[b]}

Masked(score, kept, value) == [e \in DOMAIN score |-> IF e \in kept THEN score[e] ELSE value]

Group(e, experts, groups) == e \div (experts \div groups)

Members(g, experts, groups) == {e \in 0..(experts - 1) : Group(e, experts, groups) = g}

Biased(score, bias) == [e \in DOMAIN score |-> score[e] + bias[e]]

\* fused_topk (softmax scores).
PlainTopK(score, k) == TopSets(score, k)

\* grouped_topk_gpu: groups ranked by their best score, the others masked to 0.
GroupedTopK(score, k, groups, kept) ==
  LET n == Cardinality(DOMAIN score)
      best == [g \in 0..(groups - 1) |-> Max({score[e] : e \in Members(g, n, groups)})]
  IN UNION {TopSets(Masked(score, UNION {Members(g, n, groups) : g \in G}, 0), k)
            : G \in TopSets(best, kept)}

\* Mutant: the masked experts keep score 0, above a negative biased score.
ZeroMaskTopK(score, bias, k, groups, kept) ==
  LET n == Cardinality(DOMAIN score)
      choice == Biased(score, bias)
      top2(g) == CHOOSE S \in kSubset(2, Members(g, n, groups)) :
                    \A a \in S, b \in Members(g, n, groups) \ S : choice[a] >= choice[b]
      best == [g \in 0..(groups - 1) |-> FoldFunctionOnSet(+, 0, choice, top2(g))]
  IN UNION {TopSets(Masked(choice, UNION {Members(g, n, groups) : g \in G}, 0), k)
            : G \in TopSets(best, kept)}

\* biased_grouped_topk_impl: groups ranked by the sum of their two best biased
\* scores, the others masked to minus infinity.
BiasedGroupedTopK(score, bias, k, groups, kept) ==
  LET n == Cardinality(DOMAIN score)
      choice == Biased(score, bias)
      top2(g) == CHOOSE S \in kSubset(2, Members(g, n, groups)) :
                    \A a \in S, b \in Members(g, n, groups) \ S : choice[a] >= choice[b]
      best == [g \in 0..(groups - 1) |-> FoldFunctionOnSet(+, 0, choice, top2(g))]
  IN UNION {TopSets(Masked(choice, UNION {Members(g, n, groups) : g \in G}, NegInf), k)
            : G \in TopSets(best, kept)}

\* llada2_block_routing_topk: the experts one routing block may use.
BlockAllowed(scores, bias, block, capacity) ==
  LET experts == DOMAIN bias
      top == [e \in experts |-> Max({Biased(scores[t], bias)[e] : t \in block})]
  IN TopSets(top, capacity)

\* One assignment of k experts to every token of the block, per allowed set.
BlockTopK(scores, bias, k, block, capacity) ==
  UNION {LET options == [t \in block |-> TopSets(Masked(Biased(scores[t], bias), A, NegInf), k)]
         IN {f \in [block -> UNION Range(options)] : \A t \in block : f[t] \in options[t]}
         : A \in BlockAllowed(scores, bias, block, capacity)}

=============================================================================
