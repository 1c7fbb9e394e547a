-------------------------- MODULE MCTensorParallel --------------------------
(* Launches of the three models on one, two and four ranks.                 *)
EXTENDS TensorParallel

MCTokens == 2

MCBias == [e \in 0..3 |-> <<0, -3, 1, -2>>[e + 1]]

MCScores ==
  {[t \in 0..1 |-> [e \in 0..3 |-> tab[t + 1][e + 1]]] :
     tab \in { << <<4, 3, 2, 1>>, <<1, 2, 3, 4>> >>, << <<2, 2, 1, 1>>, <<1, 1, 1, 3>> >> }}

Llada ==
  [model |-> "llada", tp |-> 1, dp |-> 1, ep |-> 1, heads |-> 4, kv |-> 2, units |-> 4, vocab |-> 3,
   layers |-> <<"dense", "sparse">>, experts |-> 4, moeUnits |-> 1, top |-> 2, routing |-> "block",
   blockSize |-> 2, capacity |-> 3, groups |-> 2, keptGroups |-> 1, emap |-> DefaultMap(4, 1),
   stacked |-> FALSE, missing |-> {}, extra |-> {}, split |-> {"eg", "q", "g", "w1", "embed"}]

OnRanks(cf, tp, dp) ==
  LET n == IF dp > 1 THEN dp ELSE tp
  IN [cf EXCEPT !.tp = tp, !.dp = dp, !.ep = n, !.emap = DefaultMap(4, n)]

Swapped == [e \in 0..3 |-> <<1, 0, 1, 0>>[e + 1]]

Nemotron == [Llada EXCEPT !.model = "nemotron", !.layers = <<"dense", "dense">>, !.experts = 0,
                          !.routing = "plain", !.emap = <<>>]

NemotronOn(n) == [Nemotron EXCEPT !.tp = n, !.ep = n]

Gemma == [Llada EXCEPT !.model = "gemma", !.layers = <<"sliding", "full">>, !.routing = "plain"]

GemmaOn(n) == [Gemma EXCEPT !.tp = n, !.ep = n]

MCConfigs ==
  { Llada, OnRanks(Llada, 2, 1), OnRanks(Llada, 4, 1), OnRanks(Llada, 1, 2),
    [OnRanks(Llada, 2, 1) EXCEPT !.tp = 2, !.dp = 2],
    [OnRanks(Llada, 2, 1) EXCEPT !.ep = 1],
    [OnRanks(Llada, 2, 1) EXCEPT !.emap = Swapped, !.routing = "grouped"],
    [OnRanks(Llada, 2, 1) EXCEPT !.emap = Swapped, !.stacked = TRUE, !.routing = "biased"],
    [Llada EXCEPT !.routing = "plain", !.vocab = 4],
    [Llada EXCEPT !.blockSize = 3],
    [OnRanks(Llada, 2, 1) EXCEPT !.missing = {<<2, "ed", 1>>}],
    [OnRanks(Llada, 2, 1) EXCEPT !.missing = {<<1, "o", 0>>}],
    [OnRanks(Llada, 2, 1) EXCEPT !.missing = {<<1, "u", 0>>}],
    NemotronOn(1), NemotronOn(2), NemotronOn(4),
    [NemotronOn(2) EXCEPT !.missing = {<<1, "v", 0>>}],
    [NemotronOn(2) EXCEPT !.extra = {<<1, "bias", 0>>}],
    GemmaOn(1), GemmaOn(2), GemmaOn(4),
    [GemmaOn(2) EXCEPT !.missing = {<<1, "u", 0>>}],
    [GemmaOn(2) EXCEPT !.missing = {<<1, "d", 0>>}] }

=============================================================================
