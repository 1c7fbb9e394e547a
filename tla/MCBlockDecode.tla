---------------------------- MODULE MCBlockDecode ----------------------------
(* Small cases of BlockDecode: blocks of two, one or two rows, one or two   *)
(* blocks to generate, or none (a caller of generate outside the server).   *)
EXTENDS BlockDecode

CONSTANTS tokA, tokB

Case(decoder, runner, mode, prompts, gen) ==
  [decoder |-> decoder, runner |-> runner, mode |-> mode, prompts |-> prompts, gen |-> gen,
   promptEos |-> 0, prefillLimit |-> 8, miniBatch |-> 2, parts |-> {},
   earlyStop |-> TRUE, ignoreEos |-> FALSE, cacheAlign |-> 0]

\* position outputs: tokens in order of logit, with a confidence
Out(tokens, ps) == {[order |-> <<t, CHOOSE u \in {tokA, tokB} : u # t>>, p |-> p] : t \in tokens, p \in ps}
LevOut == {[order |-> o, p |-> p] :
             o \in {<<tokA, tokB>>, <<tokB, tokA>>, <<Delete, tokA, tokB>>, <<Split, tokB, tokA>>}, p \in {0, 1}}
MCOutputs == [threshold |-> Out({tokA, Eos, Mask}, {0, 1}), hierarchy |-> Out({tokA, Mask}, {0, 1, 2}),
              joint |-> Out({tokA, tokB}, {0, 1}), levenshtein |-> LevOut]

MCCases ==
  { [Case("threshold", "flashinfer", "paged", <<1, 2>>, 2) EXCEPT !.parts = {1}],
    [Case("threshold", "dense", "buckets", <<3, 1>>, 2) EXCEPT !.promptEos = 1, !.miniBatch = 1],
    [Case("threshold", "flashinfer", "paged", <<1>>, 3) EXCEPT !.ignoreEos = TRUE, !.earlyStop = FALSE],
    [Case("hierarchy", "fa4", "paged", <<3>>, 2) EXCEPT !.promptEos = 2],
    Case("joint", "fa4", "paged", <<3, 1>>, 2),
    Case("joint", "dense", "buckets", <<1, 2>>, 1),
    Case("threshold", "dense", "buckets", <<3>>, 0),
    [Case("joint", "fa4", "batch", <<1, 0>>, 2) EXCEPT !.miniBatch = 1],
    [Case("joint", "dense", "buckets", <<3>>, 1) EXCEPT !.prefillLimit = 0],
    [Case("levenshtein", "dense", "buckets", <<3>>, 1) EXCEPT !.prefillLimit = 0],
    Case("levenshtein", "flashinfer", "batch", <<2>>, 2),
    Case("levenshtein", "flashinfer", "paged", <<1>>, 2) }

\* a FIFO batch of two prompts of different lengths
MixedLengths == {Case("threshold", "dense", "buckets", <<3, 1>>, 2)}
=============================================================================
