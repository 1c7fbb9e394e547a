------------------------------ MODULE Nemotron ------------------------------
(***************************************************************************)
(* The Nemotron runners.  Unlike LLaDA, a block starts right after the     *)
(* whole prompt, its first position is the seed sampled by the previous    *)
(* causal forward, and only causal forwards commit keys and values.        *)
(*   mode "block": denoise the block, then one causal commit;              *)
(*   mode "spec":  the denoised block is a draft, the causal forward       *)
(*                 verifies it and only the accepted part is kept;         *)
(*   path "dense": one row after the other, denoising writes no KV;        *)
(*   path "batch": generate of the paged runners;                          *)
(*   path "online": one block or one speculation per plan of the engine.   *)
(* Rows share nothing, so the steps of a launch are taken row by row.      *)
(* The causal model is a function `next' of the last token, chosen in Init *)
(* (temperature 0); denoising outputs are arbitrary.                       *)
(***************************************************************************)
EXTENDS Integers, Sequences, FiniteSets, SequencesExt, FiniteSetsExt, TLC, Filters

CONSTANTS
  Cases,      \* records: mode, path, prompts, gens, stop, think (-1: no budget)
  Word, Eos, End, Mask,
  L,          \* block_length
  MaxSteps,   \* max_denoise_steps
  Threshold   \* confidences are 1..Threshold

VARIABLES case, next, row, kv, out, fin, filled, seeds, prefixes, blocks,
          acquired, reserve, called, pc

vars == <<case, next, row, kv, out, fin, filled, seeds, prefixes, blocks,
          acquired, reserve, called, pc>>
\* what only the online path keeps between two plans
requests == <<out, fin, filled, seeds, prefixes, blocks, acquired, reserve, called>>

Tokens == {Word, Eos, End}
NoToken == "none"

\* the checkpoint's mask is no token a prediction can be, nor is a missing seed
ASSUME TokenAssumption == Mask \notin Tokens /\ NoToken \notin Tokens
ASSUME LengthAssumption == L \in Nat \ {0}

\* What the engine and the runners accept: rows of one length each, no empty prompt
\* (_prefill raises), at least one token to generate online (processor.py), a budget
\* that is not negative (ThinkingBudget), and room in a draft for its marker.
ASSUME CaseAssumption ==
  \A c \in Cases :
    /\ c.mode \in {"block", "spec"} /\ c.path \in {"dense", "batch", "online"}
    /\ c.prompts \in Seq(Nat \ {0}) /\ Len(c.prompts) > 0
    /\ c.gens \in Seq(Nat) /\ Len(c.gens) = Len(c.prompts)
    /\ c.stop \in Seq(BOOLEAN) /\ Len(c.stop) = Len(c.prompts)
    /\ c.path = "online" => \A r \in DOMAIN c.gens : c.gens[r] > 0
    /\ c.think \in Int /\ c.think >= -1
    /\ c.mode = "spec" /\ c.think >= 0 => L > 1

Pos == 1..L
Rows == 1..Len(case.prompts)
Prompt(r) == case.prompts[r]
Speculative == case.mode = "spec"
Online == case.path = "online"
Width(r) == Prompt(r) + case.gens[r] + 2 * L

\* sample_tokens of the causal logits at a position holding t; what follows an
\* unresolved position is never used
Sample(t) == IF t = Mask THEN Word ELSE next[t]

-----------------------------------------------------------------------------
(* NemotronThresholdDecoder and ThinkingBudget                             *)

Masked(block) == {i \in Pos : block[i] = Mask}

\* select: every masked position at the threshold, and the first most confident one
Transfer(block, conf) ==
  LET masked == Masked(block)
      best == {i \in masked : \A j \in masked : conf[j] < conf[i] \/ (conf[j] = conf[i] /\ i <= j)}
  IN {i \in masked : conf[i] >= Threshold} \cup best

Step(block, predicted) == [i \in Pos |-> IF i \in DOMAIN predicted THEN predicted[i] ELSE block[i]]

\* mutant: any end of sequence ends the block
EosTerminalAnywhere(block) == \E i \in Pos : block[i] = Eos
EosTerminal(block) == \E i \in Pos : block[i] = Eos /\ \A j \in 1..(i - 1) : block[j] # Mask

Enabled == case.think >= 0
Satisfied(tokens) == ~Enabled \/ End \in Range(tokens)

\* block_injection_offset, and the block it is applied to
InjectionDue(before) == Enabled /\ before + L > case.think
InjectionOffset(before) == Max({0, case.think - before})

ForceNextToken(count) == Enabled /\ count > case.think

Seeded(seed) == <<seed>> \o [i \in 1..(L - 1) |-> Mask]

ApplyThinkingBudget(block, produced) ==
  IF Satisfied(produced) \/ Satisfied(block) \/ ~InjectionDue(Len(produced)) THEN block
  ELSE [block EXCEPT ![InjectionOffset(Len(produced)) + 1] = End]

Forced(produced) == IF ForceNextToken(Len(produced)) /\ ~Satisfied(produced) THEN 1 ELSE 0

-----------------------------------------------------------------------------
(* Rows                                                                    *)

NoRow == [st |-> "idle", prefix |-> 0, block |-> Seeded(Mask), seed |-> Mask, steps |-> 0,
          emitted |-> <<>>, forced |-> 0, term |-> FALSE]

\* a RowState at the start of a block; the dense loop denoises only what is masked
BlockRow(r, prefix, seed, produced, emitted) ==
  LET b == ApplyThinkingBudget(Seeded(seed), produced)
      term == case.stop[r] /\ EosTerminal(b)
  IN [st |-> IF term \/ (case.path = "dense" /\ Masked(b) = {}) THEN "commit" ELSE "denoise",
      prefix |-> prefix, block |-> b, seed |-> seed, steps |-> 0,
      emitted |-> emitted, forced |-> 0, term |-> term]

\* a SpecRow at the start of a draft; the marker goes after the seed
SpecRow(prefix, seed, forced, emitted) ==
  LET b == IF forced = 1 THEN [Seeded(seed) EXCEPT ![2] = End] ELSE Seeded(seed)
  IN [st |-> IF case.path = "dense" /\ Masked(b) = {} THEN "verify" ELSE "denoise",
      prefix |-> prefix, block |-> b, seed |-> seed, steps |-> 0,
      emitted |-> emitted, forced |-> forced, term |-> FALSE]

\* the prefill seed is the first token a speculation emits, unless it ends the row;
\* generate of the paged runner drafts the first block without a marker
FirstSpecRow(r, seed, gen) ==
  LET forced == IF case.path = "batch" THEN 0 ELSE Forced(<<seed>>)
      ends == case.stop[r] /\ seed = Eos
  IN IF ends \/ gen <= 1
     THEN [SpecRow(Prompt(r), seed, forced, <<seed>>) EXCEPT !.st = "done", !.term = ends]
     ELSE SpecRow(Prompt(r), seed, forced, <<seed>>)

\* keys and values a forward pass writes for the tokens ts from position from + 1 on
Written(r, from, ts) ==
  [i \in DOMAIN kv[r] |-> IF i \in (from + 1)..(from + Len(ts)) THEN ts[i - from] ELSE kv[r][i]]
PromptTokens(n) == [i \in 1..n |-> Word]
\* _denoise of the dense runner returns no cache, that of the paged ones writes pages
KVAfterDenoise(r) == IF case.path = "dense" THEN kv[r] ELSE Written(r, row[r].prefix, row[r].block)
\* _commit: the keys and values of the block itself
KVAfterCausal(r) == Written(r, row[r].prefix, row[r].block)

Init ==
  /\ case \in Cases
  /\ next \in [Tokens -> Tokens]
  /\ row = [r \in Rows |-> NoRow]
  /\ kv = [r \in Rows |-> [i \in 1..Width(r) |-> Mask]]
  /\ out = [r \in Rows |-> <<>>] /\ fin = [r \in Rows |-> "none"]
  /\ filled = [r \in Rows |-> 0]
  /\ seeds = [r \in Rows |-> NoToken] /\ prefixes = [r \in Rows |-> 0]
  /\ blocks = [r \in Rows |-> 0]
  /\ acquired = [r \in Rows |-> 0] /\ reserve = [r \in Rows |-> 0]
  /\ called = {}
  /\ pc = IF Online THEN "idle" ELSE "prefill"

\* the causal prefill of a row and its first block; a row with nothing to generate is done
PrefillRow(r) ==
  LET seed == Sample(Word) IN
  IF case.gens[r] = 0 /\ ~(Speculative /\ case.path = "batch")
  THEN [NoRow EXCEPT !.st = "done", !.prefix = Prompt(r)]
  ELSE IF Speculative THEN FirstSpecRow(r, seed, case.gens[r])
  ELSE BlockRow(r, Prompt(r), seed, <<>>, <<>>)

\* generate: the dense runner takes one row at a time
OfflineRows == IF case.path = "dense" THEN {Min({r \in Rows : fin[r] = "none"})} ELSE Rows

Prefill ==
  /\ pc = "prefill"
  /\ LET S == OfflineRows
     IN /\ row' = [r \in Rows |-> IF r \in S THEN PrefillRow(r) ELSE row[r]]
        /\ kv' = [r \in Rows |-> IF r \in S THEN Written(r, 0, PromptTokens(Prompt(r))) ELSE kv[r]]
        /\ called' = S
        /\ filled' = [r \in Rows |-> IF r \in S THEN Prompt(r) ELSE filled[r]]
  /\ pc' = "loop"
  /\ UNCHANGED <<case, next, out, fin, seeds, prefixes, blocks, acquired, reserve>>

-----------------------------------------------------------------------------
(* The loops: _denoise_block, _draft_block, _run_block_loop,               *)
(* _run_speculation                                                        *)

Launched(r, st) == pc = "loop" /\ r \in called /\ row[r].st = st

Exhausted(steps) == steps >= MaxSteps

\* one denoising forward; it raises for everybody when the steps are used up
Denoise(r) ==
  /\ Launched(r, "denoise")
  /\ \E conf \in [Masked(row[r].block) -> 1..Threshold] :
     \E predicted \in [Transfer(row[r].block, conf) -> Tokens \cup {Mask}] :
       LET b == Step(row[r].block, predicted)
           term == ~Speculative /\ case.stop[r] /\ EosTerminal(b)
           steps == row[r].steps + 1
           ready == Masked(b) = {} \/ term
       IN /\ row' = [row EXCEPT ![r].block = b, ![r].steps = steps, ![r].term = term,
                                ![r].st = IF ready THEN (IF Speculative THEN "verify" ELSE "commit") ELSE @]
          /\ pc' = IF ~ready /\ Exhausted(steps) THEN "raised" ELSE pc
  /\ kv' = [kv EXCEPT ![r] = KVAfterDenoise(r)]
  /\ UNCHANGED <<case, next, requests>>

\* block_budget: whole blocks for the offline paths, one block for a plan
BlockBudget(r) == IF Online THEN 1 ELSE (case.gens[r] + L - 1) \div L

\* the causal forward of a block, its keys and values and the next seed
Commit(r) ==
  /\ Launched(r, "commit")
  /\ LET w == row[r]
         prefix == w.prefix + L
         emitted == w.emitted \o w.block
         seed == Sample(w.block[L])
     IN /\ kv' = [kv EXCEPT ![r] = KVAfterCausal(r)]
        /\ row' = [row EXCEPT ![r] =
             IF w.term \/ Len(emitted) \div L >= BlockBudget(r)
             THEN [w EXCEPT !.st = "done", !.prefix = prefix, !.seed = seed, !.emitted = emitted]
             ELSE BlockRow(r, prefix, seed, emitted, emitted)]
  /\ UNCHANGED <<case, next, requests, pc>>

\* mutant: the draft is taken as it is
AcceptedUnverified(verified, drafted, forced) == Tail(drafted) \o <<verified[L]>>
\* accepted_tokens: the forced tokens, the matching draft, the verifier's bonus token
AcceptedTokens(verified, drafted, forced) ==
  LET ok == {n \in forced..(L - 1) : \A i \in (forced + 1)..n : verified[i] = drafted[i + 1]}
      n == Max(ok)
  IN [i \in 1..(n + 1) |-> IF i <= forced THEN drafted[i + 1] ELSE verified[i]]

\* tokens up to and with the first end of sequence, when it stops the row
UntilEos(tokens, stop) ==
  LET hits == {i \in DOMAIN tokens : tokens[i] = Eos}
  IN IF stop /\ hits # {} THEN SubSeq(tokens, 1, Min(hits)) ELSE tokens

\* mutant: the whole verified block joins the prefix
AdvanceBlock(w, tokens) == w.prefix + L
Advance(w, tokens) == w.prefix + Len(tokens)

\* the causal forward over a draft; the rejected tail is overwritten later
Verify(r) ==
  /\ Launched(r, "verify")
  /\ LET w == row[r]
         verified == [i \in Pos |-> Sample(w.block[i])]
         tokens == AcceptedTokens(verified, w.block, w.forced)
         prefix == Advance(w, tokens)
         seed == tokens[Len(tokens)]
         emitted == w.emitted \o UntilEos(tokens, case.stop[r])
         term == case.stop[r] /\ Eos \in Range(tokens)
     IN /\ kv' = [kv EXCEPT ![r] = KVAfterCausal(r)]
        /\ row' = [row EXCEPT ![r] =
             IF term \/ Online \/ Len(emitted) >= case.gens[r]
             THEN [w EXCEPT !.st = "done", !.prefix = prefix, !.seed = seed,
                            !.emitted = emitted, !.term = term, !.forced = 0]
             ELSE SpecRow(prefix, seed, Forced(emitted), emitted)]
  /\ UNCHANGED <<case, next, requests, pc>>

-----------------------------------------------------------------------------
(* What is returned                                                        *)

Kept(tokens, stop) == Without(tokens, {Mask} \cup {t \in {Eos} : stop})
Taken(r, room) == SubSeq(row[r].emitted, 1, Min({room, Len(row[r].emitted)}))

\* mutant: the loop waits for rows the plan does not hold
LoopDoneAll == pc = "loop" /\ \A r \in Rows : row[r].st = "done"
LoopDone == pc = "loop" /\ \A r \in called : row[r].st = "done"

\* what generate returns for a row, after the executor's filter
Returned(r) == Kept(UntilEos(Taken(r, case.gens[r]), case.stop[r]), case.stop[r])

Assemble ==
  /\ LoopDone /\ ~Online
  /\ out' = [r \in Rows |-> IF r \in called THEN Returned(r) ELSE out[r]]
  /\ fin' = [r \in Rows |->
               IF r \notin called THEN fin[r]
               ELSE IF case.stop[r] /\ Eos \in Range(Taken(r, case.gens[r])) THEN "stop" ELSE "length"]
  /\ pc' = IF \E r \in Rows \ called : fin[r] = "none" THEN "prefill" ELSE "done"
  /\ UNCHANGED <<case, next, row, kv, filled, seeds, prefixes, blocks, acquired, reserve, called>>

-----------------------------------------------------------------------------
(* Plans of the engine                                                     *)

\* the seed a prefill recorded also fixes where speculation starts
RecordedPrefix(r) == IF Speculative THEN Prompt(r) ELSE 0

\* _plan_prefill of one request: only the chunk that reaches the prompt's end
\* yields a seed.  The scheduler acquires the chunk, with the first one also a block.
PlanPrefill(r, n) ==
  /\ Online /\ pc = "idle" /\ fin[r] = "none"
  /\ n \in 1..(Prompt(r) - filled[r])
  /\ kv' = [kv EXCEPT ![r] = Written(r, filled[r], PromptTokens(n))]
  /\ filled' = [filled EXCEPT ![r] = @ + n]
  /\ acquired' = [acquired EXCEPT ![r] = @ + n + (IF filled[r] = 0 THEN L ELSE 0)]
  /\ IF filled[r] + n < Prompt(r)
     THEN UNCHANGED <<seeds, prefixes, reserve>>
     ELSE /\ seeds' = [seeds EXCEPT ![r] = Sample(Word)]
          /\ prefixes' = [prefixes EXCEPT ![r] = RecordedPrefix(r)]
          /\ reserve' = [reserve EXCEPT ![r] = L]
  /\ UNCHANGED <<case, next, row, out, fin, blocks, called, pc>>

\* Abort in the engine: the request is finished and its runner state released
Abort(r) ==
  /\ Online /\ pc = "idle" /\ fin[r] = "none" /\ filled[r] = Prompt(r)
  /\ fin' = [fin EXCEPT ![r] = "abort"]
  /\ seeds' = [seeds EXCEPT ![r] = NoToken] /\ prefixes' = [prefixes EXCEPT ![r] = 0]
  /\ UNCHANGED <<case, next, row, kv, out, filled, blocks, acquired, reserve, called, pc>>

\* mutant: no look at the requests aborted since the plan
SkippedNever(r) == FALSE
Skipped(r) == fin[r] # "none"

BlockPrefix(r) == Prompt(r) + blocks[r] * L
Room(r) == case.gens[r] - Len(out[r])

\* the row a plan starts for r
PlannedRow(r) ==
  IF ~Speculative THEN BlockRow(r, BlockPrefix(r), seeds[r], out[r], <<>>)
  ELSE IF prefixes[r] = Prompt(r) /\ out[r] = <<>>
       THEN FirstSpecRow(r, seeds[r], Max({1, Room(r)}))
       ELSE SpecRow(prefixes[r], seeds[r], Forced(out[r]), <<>>)

\* execute_paged_forward_plan for decode rows; the plan may hold requests aborted
\* after it was made.  The scheduler has acquired their reserve.
PlanDecode(S) ==
  /\ Online /\ pc = "idle" /\ S # {}
  /\ \A r \in S : filled[r] = Prompt(r) /\ fin[r] \in {"none", "abort"}
  /\ \E r \in S : fin[r] = "none"
  /\ LET rows == {r \in S : ~Skipped(r)} IN
     /\ called' = rows
     /\ acquired' = [r \in Rows |-> IF r \in rows THEN acquired[r] + reserve[r] ELSE acquired[r]]
     /\ reserve' = [r \in Rows |-> IF r \in rows THEN L ELSE reserve[r]]
     /\ IF \E r \in rows : seeds[r] = NoToken
        THEN pc' = "noseed" /\ UNCHANGED row
        ELSE /\ row' = [r \in Rows |-> IF r \in rows THEN PlannedRow(r) ELSE row[r]]
             /\ pc' = "loop"
  /\ UNCHANGED <<case, next, kv, out, fin, filled, seeds, prefixes, blocks>>

\* mutant: one token per speculation
ReserveOne(r) == IF Speculative THEN 1 ELSE L
\* reserve_tokens of a result that does not finish its request
Reserve(r) == IF Speculative THEN row[r].prefix - prefixes[r] ELSE L

BeforeEos(tokens, stop) ==
  LET t == UntilEos(tokens, stop) IN IF stop /\ t # <<>> /\ t[Len(t)] = Eos THEN Front(t) ELSE t

\* results of a plan; finished requests are released
Publish ==
  /\ LoopDone /\ Online
  /\ LET taken == [r \in Rows |-> Taken(r, Max({0, Room(r)}))]
         new == [r \in Rows |-> IF r \in called THEN Kept(BeforeEos(taken[r], case.stop[r]), case.stop[r])
                                ELSE <<>>]
         reason == [r \in Rows |->
                      IF r \notin called THEN fin[r]
                      ELSE IF case.stop[r] /\ Eos \in Range(taken[r]) THEN "stop"
                      ELSE IF Len(out[r]) + Len(new[r]) >= case.gens[r] THEN "length" ELSE "none"]
     IN /\ out' = [r \in Rows |-> out[r] \o new[r]]
        /\ fin' = reason
        /\ blocks' = [r \in Rows |-> IF r \in called /\ ~Speculative THEN blocks[r] + 1 ELSE blocks[r]]
        /\ seeds' = [r \in Rows |-> IF r \notin called THEN seeds[r]
                                    ELSE IF reason[r] # "none" THEN NoToken ELSE row[r].seed]
        /\ prefixes' = [r \in Rows |-> IF r \notin called \/ ~Speculative THEN prefixes[r]
                                       ELSE IF reason[r] # "none" THEN 0 ELSE row[r].prefix]
        /\ reserve' = [r \in Rows |-> IF r \in called /\ reason[r] = "none" /\ Reserve(r) > 0
                                      THEN Reserve(r) ELSE reserve[r]]
        /\ pc' = IF \A r \in Rows : reason[r] # "none" THEN "done" ELSE "idle"
  /\ called' = {}
  /\ UNCHANGED <<case, next, row, kv, filled, acquired>>

Stopped == pc \in {"done", "raised"} \/ \A r \in Rows : fin[r] # "none"

LoopStep == (\E r \in Rows : Denoise(r) \/ Commit(r) \/ Verify(r)) \/ Assemble \/ Publish
Plan == \E r \in Rows : (\E n \in 1..3 : PlanPrefill(r, n)) \/ PlanDecode({r})

Next ==
  \/ Prefill
  \/ LoopStep
  \/ \E r \in Rows : Abort(r) \/ \E n \in 1..3 : PlanPrefill(r, n)
  \/ \E S \in SUBSET Rows : PlanDecode(S)

\* The runner's loop never waits, and the engine plans while a request is unfinished.
Fairness == WF_vars(Prefill) /\ WF_vars(LoopStep) /\ WF_vars(Plan)
Spec == Init /\ [][Next]_vars /\ Fairness

-----------------------------------------------------------------------------
(* Properties                                                              *)

TypeOK ==
  /\ pc \in {"prefill", "idle", "loop", "raised", "noseed", "done"}
  /\ \A r \in Rows :
       /\ row[r].st \in {"idle", "denoise", "commit", "verify", "done"}
       /\ Range(row[r].block) \subseteq Tokens \cup {Mask}
       /\ row[r].steps \in 0..MaxSteps
       /\ fin[r] \in {"none", "stop", "length", "abort"}
       /\ DOMAIN kv[r] = 1..Width(r)

\* every token generated so far, published or not, and how far the prefix reaches
Known(r) == IF ~Online THEN row[r].emitted
            ELSE IF r \in called THEN out[r] \o row[r].emitted ELSE out[r]
Prefix(r) == IF r \in called THEN row[r].prefix
             ELSE IF Speculative THEN prefixes[r] ELSE BlockPrefix(r)
Begun(r) == filled[r] = Prompt(r) /\ fin[r] = "none" /\ (r \in called => pc # "noseed")

\* The keys and values of the committed prefix are those of the prompt and of the
\* tokens generated, at the position each has in the output: what denoising, drafts
\* and rejected tails wrote is beyond it.  A speculation commits all but its last
\* token (block_diffusion.py, "every emitted token but the last").
KVExact ==
  \A r \in Rows : Begun(r) =>
    LET known == Known(r)
        n == Prefix(r) - Prompt(r)
    IN /\ \A i \in 1..Prompt(r) : kv[r][i] = Word
       /\ \A i \in 1..Min({n, Len(known)}) : kv[r][Prompt(r) + i] = known[i]
       /\ ~row[r].term /\ known # <<>> => Len(known) = n + (IF Speculative THEN 1 ELSE 0)

\* The marker may stand at position i of the output without the model having said so
MarkerDue(known, i) ==
  /\ Enabled /\ known[i] = End
  /\ i > case.think
  /\ End \notin Range(SubSeq(known, 1, i - 1))

\* A row that goes on thinking gets the marker: at the budget in block diffusion,
\* after the block that exceeds it in self-speculation (ThinkingBudget).
MarkerInTime ==
  \A r \in Rows :
    LET due == case.think + 1 + (IF Speculative THEN L ELSE 0)
    IN Enabled /\ Len(out[r]) >= due => End \in Range(SubSeq(out[r], 1, due))

\* Self-speculation is lossless: whatever the drafts were, every token is the causal
\* model's answer to the one before it, but for a marker that is due, which comes
\* in time; of a block the same holds for the seed it starts with
\* (accepted_tokens, _run_block_loop).
Causal ==
  /\ MarkerInTime
  /\ \A r \in Rows : \A i \in 1..Len(Known(r)) :
    LET known == Known(r) IN
    Speculative \/ i % L = 1 =>
      \/ known[i] = Sample(IF i = 1 THEN Word ELSE known[i - 1])
      \/ MarkerDue(known, i)

\* Every launch of a plan stays within the tokens the scheduler acquired pages for,
\* although a speculation reserves only what it accepted (_plan_speculate).
Covered ==
  \A r \in called : Online /\ pc = "loop" /\ row[r].st # "done" => row[r].prefix + L <= acquired[r]

\* A request ends at its length or at an end of sequence that nothing undecided
\* precedes: filtering masks out of a result never shortens it.
Lengths ==
  \A r \in Rows :
    /\ LoopDone /\ r \in called =>
         Mask \notin Range(UntilEos(Taken(r, Max({0, Room(r)})), case.stop[r]))
    /\ Mask \notin Range(out[r])
    /\ case.stop[r] => Eos \notin Range(out[r])
    /\ fin[r] = "length" => Len(out[r]) = case.gens[r]
    /\ fin[r] = "stop" => Len(out[r]) < case.gens[r]

\* A decode row of a plan always has the seed of its prefill, although a request may
\* be aborted and released between the plan and its execution (_plan_decode).
SeedKept == pc # "noseed"

\* Every generation ends: blocks resolve or use up their steps, a verification
\* always accepts a token.
Ends == <>Stopped
=============================================================================
