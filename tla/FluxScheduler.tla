---------------------------- MODULE FluxScheduler ----------------------------
(***************************************************************************)
(* The C++ scheduler of FluxServe (flux-scheduler/csrc) in the             *)
(* configuration PagedSchedulerAdapter builds: one device page pool, no    *)
(* host tier (disable_l2_cache), prefix matching off                       *)
(* (disable_prefix_cache), prefill and decode not mixed, and               *)
(* decode_input_tokens = page_size = block length.                         *)
(*                                                                         *)
(* Three entry points change its state and none of them overlaps another:  *)
(* SubmitRequests, NextExecutionPlan and Advance.  A plan is a loop over   *)
(* the candidates; it is one atomic call, and `planning' keeps the other   *)
(* entry points out while the model takes it candidate by candidate.       *)
(***************************************************************************)
EXTENDS Integers, FiniteSets

CONSTANTS
    Requests,            \* request ids; their order is the order of the ids
    Pages,               \* device page ids 1 .. total_pages - 1
    PageSize,            \* page_size, and decode_input_tokens
    MaxBatchSize,        \* max_batch_size, also the size of the slot pool
    MaxScheduledTokens,  \* token budget of one plan
    PromptLens,          \* prompt lengths a client may submit
    FullPromptPrefill,   \* TRUE: prefill the whole prompt, not its aligned floor
    MaxBlocks            \* bound: decode blocks after which a request is done

ASSUME RequestsAssumption == Requests \subseteq Nat /\ IsFiniteSet(Requests)
ASSUME PagesAssumption == IsFiniteSet(Pages)
ASSUME PageSizeAssumption == PageSize \in Nat \ {0}
ASSUME LimitsAssumption ==
    /\ MaxBatchSize \in Nat \ {0}
    /\ MaxScheduledTokens \in Nat \ {0}
    /\ MaxScheduledTokens % PageSize = 0      \* launch.py refuses anything else
    /\ MaxBlocks \in Nat \ {0}
ASSUME PromptAssumption == PromptLens \subseteq Nat \ {0}
ASSUME FullPromptAssumption == FullPromptPrefill \in BOOLEAN

VARIABLES
    req,       \* what the scheduler keeps of each request (fsm state, counters)
    local,     \* pages owned by each request's LocalKVAllocator
    free,      \* PageAllocator::free_pages_
    tree,      \* pages owned by the prefix cache; none of them is ever locked
    planning,  \* TRUE inside NextExecutionPlan
    todo,      \* candidates the loop has not visited
    order,     \* sort class of each candidate; 0: its first chunk was empty
    budget,    \* token_budget
    opKind,    \* operation of each request in the plan being built or executed
    opPages,   \* occupied_pages of that operation, copied when it was made
    fault      \* an allocator call threw

vars == <<req, local, free, tree, planning, todo, order, budget, opKind,
          opPages, fault>>

-----------------------------------------------------------------------------
(* Phases of the request FSM that this configuration reaches, plus         *)
(* "absent" for an id that is not a key of requests_.                      *)

Phase == {"absent", "Submitted", "Prefilling", "PrefillDone", "Decoding",
          "Retracted", "Finished"}
Live == Phase \ {"absent", "Finished"}

\* phases whose state object owns a ReqPoolIndex
SlotPhase == {"Prefilling", "PrefillDone", "Decoding"}

\* A request that holds nothing: before its submission and once terminal.
Gone(phase) == [phase |-> phase, tokens |-> 0, prefill |-> 0, window |-> 0,
                blocks |-> 0, tail |-> 0, reserve |-> 0]

Holders == {r \in Requests : req[r].phase \in SlotPhase}
Ops == {r \in Requests : opKind[r] # "none"}
PushedPrefill == \E r \in Requests : opKind[r] = "prefill"

CeilDiv(n) == (n + PageSize - 1) \div PageSize
Max0(n) == IF n > 0 THEN n ELSE 0
MinOf(a, b) == IF a < b THEN a ELSE b

\* GetFullPagedTokens(except_last = true) has one entry per full page.
FullPages(tokens) == (tokens - 1) \div PageSize

\* aligned_prefill_length, or the whole prompt
PrefillLength(len) ==
    IF FullPromptPrefill THEN len ELSE (len \div PageSize) * PageSize

\* Mutants of Acquire: the tail page is forgotten; the tail is not rounded up
\* to a new page.
NewPagesNoTail(n, tail) == CeilDiv(n)
NewTailUnrounded(n, tail) == tail - n

\* LocalKVAllocator::Acquire: pages it allocates and the tail it leaves
NewPages(n, tail) == IF n <= tail THEN 0 ELSE CeilDiv(n - tail)
NewTail(n, tail) ==
    IF n <= tail THEN tail - n
    ELSE LET used == (n - tail) % PageSize
         IN  IF used = 0 THEN 0 ELSE PageSize - used

-----------------------------------------------------------------------------
(* Device memory.                                                          *)

\* EnsureCapacityByEvict: what it may evict to make n pages available.
\* Whole leaves go, so it may evict more than the deficit.
HasCapacity(n) == n <= Cardinality(free) + Cardinality(tree)
Evictions(n) ==
    IF n <= Cardinality(free) THEN {{}}
    ELSE {e \in SUBSET tree : Cardinality(e) >= n - Cardinality(free)}

\* After capacity for `ensured' pages is there, request r acquires n pages.
Acquire(r, ensured, n) ==
    \E e \in Evictions(ensured) :
        LET pool == free \cup e IN
        /\ fault' = (fault \/ n > Cardinality(pool))
        /\ \E s \in SUBSET pool :
            /\ Cardinality(s) = MinOf(n, Cardinality(pool))
            /\ local' = [local EXCEPT ![r] = @ \cup s]
            /\ free' = pool \ s
            /\ tree' = tree \ e

\* The first n pages of r go to the tree; the pages of a prefix the tree
\* already holds come back to the free list, and so does the rest of r's.
InsertAndRelease(r, n) ==
    \E s \in SUBSET local[r] :
        /\ Cardinality(s) = MinOf(n, Cardinality(local[r]))
        /\ \E kept \in SUBSET s :
            /\ Cardinality(s \ kept) <= Cardinality(tree)
            /\ tree' = tree \cup kept
            /\ free' = free \cup (local[r] \ kept)
            /\ local' = [local EXCEPT ![r] = {}]

\* Mutant: the state object is dropped without returning its pages.
ReleaseNothing(r) ==
    /\ local' = [local EXCEPT ![r] = {}]
    /\ UNCHANGED <<free, tree>>

\* ~OwnedPages of the request's allocator
ReleaseAll(r) ==
    /\ free' = free \cup local[r]
    /\ local' = [local EXCEPT ![r] = {}]
    /\ UNCHANGED tree

-----------------------------------------------------------------------------
(* Submission and abort: the calls a client's task makes between plans.    *)

\* Everything but the requests: all pages free, no plan, nothing in flight.
Idle ==
    /\ local = [r \in Requests |-> {}]
    /\ free = Pages
    /\ tree = {}
    /\ planning = FALSE
    /\ todo = {}
    /\ order = [r \in Requests |-> 9]
    /\ budget = 0
    /\ opKind = [r \in Requests |-> "none"]
    /\ opPages = [r \in Requests |-> {}]
    /\ fault = FALSE

Init == Idle /\ req = [r \in Requests |-> Gone("absent")]

planVars == <<planning, todo, order, budget>>

\* A request as SubmitRequests builds it from its spec
NewRequest(len) == [Gone("Submitted") EXCEPT !.tokens = len,
                                             !.prefill = PrefillLength(len)]

\* emplace does nothing when the id is still a key, so a terminal request
\* that no plan has erased yet shadows a new submission of its id.
SubmitRequests(r, len) ==
    /\ ~planning
    /\ req[r].phase = "absent"
    /\ req' = [req EXCEPT ![r] = NewRequest(len)]
    /\ UNCHANGED <<local, free, tree, planVars, opKind, opPages, fault>>

\* AbortEvent drops the state object: pages and slot return at once, even
\* while an operation of the request is being executed.
Abort(r) ==
    /\ ~planning
    /\ req[r].phase \in Live
    /\ req' = [req EXCEPT ![r] = Gone("Finished")]
    /\ ReleaseAll(r)
    /\ UNCHANGED <<planVars, opKind, opPages, fault>>

-----------------------------------------------------------------------------
(* NextExecutionPlan.                                                      *)

Priority(phase) ==
    CASE phase = "Prefilling" -> 1
      [] phase = "Submitted" -> 2
      [] phase \in {"PrefillDone", "Decoding"} -> 3
      [] phase = "Retracted" -> 4
      [] OTHER -> 9

Before(a, b) == order[a] < order[b] \/ (order[a] = order[b] /\ a < b)
IsNext(r) == r \in todo /\ \A q \in todo \ {r} : Before(r, q)

\* Mutant: overlap scheduling, a plan while the previous one is executed.
PlanOverlaps == TRUE

\* The engine asks for a plan only after the results of the previous one.
PreviousPlanDone == Ops = {}

BeginPlan ==
    /\ ~planning
    /\ PreviousPlanDone
    /\ \E r \in Requests : req[r].phase # "absent"
    /\ planning' = TRUE
    /\ req' = [r \in Requests |->
                 IF req[r].phase = "Finished" THEN Gone("absent") ELSE req[r]]
    /\ todo' = {r \in Requests : req[r].phase \in Live}
    /\ order' = [r \in Requests |-> Priority(req[r].phase)]
    /\ budget' = MaxScheduledTokens
    /\ UNCHANGED <<local, free, tree, opKind, opPages, fault>>

\* The loop ends: no candidate left, or one of its three breaks.
LoopDone ==
    \/ todo = {}
    \/ budget <= 0
    \/ Cardinality(Ops) = MaxBatchSize
    \/ PushedPrefill /\ \E r \in todo : IsNext(r) /\ order[r] \in {3, 4}

Visits(r) == planning /\ ~LoopDone /\ IsNext(r)

\* min(remaining, unscheduled)
Chunk(r) == MinOf(budget, req[r].prefill - req[r].window)

\* Mutant: the first chunk forgets the pages of the decode step it reserves.
PagesNeededNoReserve(r) ==
    IF req[r].phase \in {"Submitted", "Prefilling"} THEN CeilDiv(Chunk(r))
    ELSE CeilDiv(Max0(PageSize - req[r].tail))

\* The capacity each schedule* function asks for before it builds its event.
PagesNeeded(r) ==
    CASE req[r].phase = "Submitted" -> CeilDiv(Chunk(r) + PageSize)
      [] req[r].phase = "Prefilling" -> CeilDiv(Chunk(r))
      [] req[r].phase \in {"PrefillDone", "Decoding"} ->
            CeilDiv(Max0(req[r].reserve - req[r].tail))
      [] OTHER -> CeilDiv(PageSize)

NeedsSlot(r) == req[r].phase \in {"Submitted", "Retracted"}

\* Mutant: off by one, the pool counts as exhausted one slot too late.
NoSlotLate(r) == NeedsSlot(r) /\ Cardinality(Holders) > MaxBatchSize
NoSlot(r) == NeedsSlot(r) /\ Cardinality(Holders) >= MaxBatchSize
Admits(r) == Visits(r) /\ ~NoSlot(r) /\ HasCapacity(PagesNeeded(r))

\* push_op: the operation carries the pages the request occupies by now.
PushOp(r, kind, length) ==
    /\ opKind' = [opKind EXCEPT ![r] = kind]
    /\ opPages' = [opPages EXCEPT ![r] = local'[r]]
    /\ budget' = budget - length
    /\ todo' = todo \ {r}
    /\ UNCHANGED <<planning, order>>

\* Where a prefill chunk of n tokens leaves r: the last chunk completes the
\* prompt and fixes the reserve of the first decode.
AfterChunk(r, n, tail) ==
    LET end == req[r].window + n
        last == end = req[r].prefill
    IN  [req[r] EXCEPT !.phase = IF last THEN "PrefillDone" ELSE "Prefilling",
                       !.window = end,
                       !.tail = tail,
                       !.reserve = IF last THEN PageSize ELSE 0]

\* First chunk: pages for the chunk, then for one decode step, then a slot.
\* An empty chunk pushes no operation; the request is decoded right away.
SchedulePrefillFirstChunk(r) ==
    LET n == Chunk(r)
        tail == NewTail(n, 0)
    IN  /\ req[r].phase = "Submitted"
        /\ Admits(r)
        /\ Acquire(r, PagesNeeded(r),
                   NewPages(n, 0) + NewPages(PageSize, tail))
        /\ req' = [req EXCEPT ![r] = AfterChunk(r, n, NewTail(PageSize, tail))]
        /\ \/ /\ n > 0
              /\ PushOp(r, "prefill", n)
           \/ /\ n = 0
              /\ order' = [order EXCEPT ![r] = 0]
              /\ UNCHANGED <<planning, todo, budget, opKind, opPages>>

SchedulePrefill(r) ==
    LET n == Chunk(r) IN
    /\ req[r].phase = "Prefilling"
    /\ Admits(r)
    /\ Acquire(r, PagesNeeded(r), NewPages(n, req[r].tail))
    /\ req' = [req EXCEPT ![r] = AfterChunk(r, n, NewTail(n, req[r].tail))]
    /\ PushOp(r, "prefill", n)

\* A decode step acquires the reserve of the previous event and leaves one
\* block of its own for the next.
ScheduleDecode(r) ==
    LET reserve == req[r].reserve IN
    /\ req[r].phase \in {"PrefillDone", "Decoding"}
    /\ Admits(r)
    /\ Acquire(r, PagesNeeded(r), NewPages(reserve, req[r].tail))
    /\ req' = [req EXCEPT ![r] =
                 [@ EXCEPT !.phase = "Decoding",
                           !.tail = NewTail(reserve, req[r].tail),
                           !.reserve = PageSize]]
    /\ PushOp(r, "decode", PageSize)

\* A retracted request kept its local pages; it takes a slot again.
ScheduleDecodeFromRetracted(r) ==
    /\ req[r].phase = "Retracted"
    /\ Admits(r)
    /\ Acquire(r, PagesNeeded(r), NewPages(PageSize, req[r].tail))
    /\ req' = [req EXCEPT ![r] =
                 [@ EXCEPT !.phase = "Decoding",
                           !.tail = NewTail(PageSize, req[r].tail),
                           !.reserve = PageSize]]
    /\ PushOp(r, "decode", PageSize)

\* No slot: the candidate is passed over before any eviction.
SkipNoSlot(r) ==
    /\ Visits(r)
    /\ NoSlot(r)
    /\ todo' = todo \ {r}
    /\ UNCHANGED <<req, local, free, tree, planning, order, budget, opKind,
                   opPages, fault>>

\* Too few pages: the eviction has run anyway and emptied the cache.
SkipNoPages(r) ==
    /\ Visits(r)
    /\ ~NoSlot(r)
    /\ ~HasCapacity(PagesNeeded(r))
    /\ free' = free \cup tree
    /\ tree' = {}
    /\ todo' = todo \ {r}
    /\ UNCHANGED <<req, local, planning, order, budget, opKind, opPages, fault>>

RetractCandidates ==
    {r \in Requests : req[r].phase \in {"PrefillDone", "Decoding"}}

\* max_element over the sorted candidates: the first of the longest
Victim(r) ==
    /\ r \in RetractCandidates
    /\ \A q \in RetractCandidates \ {r} :
        \/ req[q].tokens < req[r].tokens
        \/ req[q].tokens = req[r].tokens /\ Before(r, q)

PlanOver ==
    /\ planning' = FALSE
    /\ todo' = {}
    /\ order' = [r \in Requests |-> 9]
    /\ budget' = 0
    /\ UNCHANGED <<opKind, opPages>>

ReturnPlan ==
    /\ planning
    /\ LoopDone
    /\ Ops # {} \/ RetractCandidates = {}
    /\ PlanOver
    /\ UNCHANGED <<req, local, free, tree, fault>>

\* Pages scheduleRetract moves into the cache, clamped to those r has
RetractPages(r) == MinOf(FullPages(req[r].tokens), Cardinality(local[r]))

\* There is no host page to move full pages to, so the victim that has one
\* is aborted; nobody is told.
RetractAborts(r) ==
    /\ planning
    /\ LoopDone
    /\ Ops = {}
    /\ Victim(r)
    /\ RetractPages(r) > 0
    /\ InsertAndRelease(r, RetractPages(r))
    /\ req' = [req EXCEPT ![r] = Gone("Finished")]
    /\ PlanOver
    /\ UNCHANGED fault

\* Nothing to transfer: the victim gives up its slot and keeps its pages.
RetractKeepsPages(r) ==
    /\ planning
    /\ LoopDone
    /\ Ops = {}
    /\ Victim(r)
    /\ RetractPages(r) = 0
    /\ req' = [req EXCEPT ![r] = [@ EXCEPT !.phase = "Retracted",
                                           !.reserve = 0]]
    /\ PlanOver
    /\ UNCHANGED <<local, free, tree, fault>>

-----------------------------------------------------------------------------
(* Advance: the results of the executed plan.  The engine delivers them in *)
(* one call; the events of different requests touch nothing in common, so  *)
(* one action per request gives the same outcomes.                         *)

ClearOp(r) ==
    /\ opKind' = [opKind EXCEPT ![r] = "none"]
    /\ opPages' = [opPages EXCEPT ![r] = {}]

\* A prefill result carries no token and no reserve.
PrefillResult(r) ==
    /\ ~planning
    /\ opKind[r] = "prefill"
    /\ req[r].phase \in Live
    /\ ClearOp(r)
    /\ UNCHANGED <<req, local, free, tree, planVars, fault>>

\* Tokens one decoded block may append: the first block of a floor-aligned
\* prompt starts inside the prompt's unaligned tail.
Room(r) ==
    IF req[r].blocks = 0 THEN req[r].prefill + PageSize - req[r].tokens
    ELSE PageSize

\* ExtendResult, then UpdateReserveNumTokens
DecodeResult(r, n) ==
    /\ ~planning
    /\ opKind[r] = "decode"
    /\ req[r].phase = "Decoding"
    /\ req[r].blocks + 1 < MaxBlocks
    /\ req' = [req EXCEPT ![r] = [@ EXCEPT !.tokens = req[r].tokens + n,
                                           !.blocks = req[r].blocks + 1,
                                           !.reserve = PageSize]]
    /\ ClearOp(r)
    /\ UNCHANGED <<local, free, tree, planVars, fault>>

\* ExtendResult, then Finish: full pages go to the cache, the rest is freed.
FinishResult(r, n) ==
    LET full == FullPages(req[r].tokens + n) IN
    /\ ~planning
    /\ opKind[r] = "decode"
    /\ req[r].phase = "Decoding"
    /\ fault' = (fault \/ full > Cardinality(local[r]))
    /\ InsertAndRelease(r, full)
    /\ req' = [req EXCEPT ![r] = Gone("Finished")]
    /\ ClearOp(r)
    /\ UNCHANGED planVars

\* The request was aborted while its operation ran: its result is ignored.
StaleResult(r) ==
    /\ ~planning
    /\ opKind[r] # "none"
    /\ req[r].phase \notin Live
    /\ ClearOp(r)
    /\ UNCHANGED <<req, local, free, tree, planVars, fault>>

-----------------------------------------------------------------------------
Client(r) == (\E len \in PromptLens : SubmitRequests(r, len)) \/ Abort(r)

PlanStep ==
    \/ BeginPlan
    \/ ReturnPlan
    \/ \E r \in Requests :
        \/ SchedulePrefillFirstChunk(r)
        \/ SchedulePrefill(r)
        \/ ScheduleDecode(r)
        \/ ScheduleDecodeFromRetracted(r)
        \/ SkipNoSlot(r)
        \/ SkipNoPages(r)
        \/ RetractAborts(r)
        \/ RetractKeepsPages(r)

Result(r) ==
    \/ PrefillResult(r)
    \/ \E n \in 0 .. Room(r) : DecodeResult(r, n) \/ FinishResult(r, n)
    \/ StaleResult(r)

Next ==
    \/ PlanStep
    \/ \E r \in Requests : Client(r) \/ Result(r)

Spec == Init /\ [][Next]_vars

\* The engine loop plans as long as it has requests, and every operation it
\* executes comes back with a result or an exception.
Fairness == WF_vars(PlanStep) /\ \A r \in Requests : WF_vars(Result(r))
-----------------------------------------------------------------------------
(* Properties.                                                             *)

ReqType == [phase : Phase, tokens : Nat, prefill : Nat, window : Nat,
            blocks : Nat, tail : Nat, reserve : Nat]

\* Types of the scheduler's state.
TypeOK ==
    /\ req \in [Requests -> ReqType]
    /\ local \in [Requests -> SUBSET Pages]
    /\ free \in SUBSET Pages
    /\ tree \in SUBSET Pages
    /\ planning \in BOOLEAN
    /\ todo \in SUBSET Requests
    /\ order \in [Requests -> {0, 1, 2, 3, 4, 9}]
    /\ budget \in Int
    /\ opKind \in [Requests -> {"none", "prefill", "decode"}]
    /\ opPages \in [Requests -> SUBSET Pages]
    /\ fault \in BOOLEAN

\* Each device page has exactly one owner: the free list, the cache or one
\* request's allocator.
OneOwner ==
    /\ free \cup tree \cup UNION {local[r] : r \in Requests} = Pages
    /\ free \cap tree = {}
    /\ \A r \in Requests :
        /\ local[r] \cap (free \cup tree) = {}
        /\ \A q \in Requests \ {r} : local[r] \cap local[q] = {}

\* A request that is neither running nor retracted owns no page.
NoIdleOwner ==
    \A r \in Requests :
        req[r].phase \notin SlotPhase \cup {"Retracted"} => local[r] = {}

\* What check_device_mem verifies under DEBUG_MEM, in every state and not
\* only after a plan: no page is lost, shared or left with a request that
\* ended.
PagesAccounted == OneOwner /\ NoIdleOwner

\* The pages an operation writes while it is executed are never handed to
\* another request or published in the cache, whatever aborts, finishes or
\* submissions happen meanwhile: a request that leaves during the forward
\* only returns its pages to the free list.
FlightExclusive ==
    \A r \in Ops :
        /\ opPages[r] \cap tree = {}
        /\ \A q \in Requests \ {r} : opPages[r] \cap local[q] = {}

\* Every position an operation writes has a page in its occupied_pages:
\* the tokens prefilled so far, or the block being decoded.
OpCovered ==
    \A r \in Ops :
        req[r].phase \in Live =>
            Cardinality(opPages[r]) * PageSize >=
                IF opKind[r] = "prefill" THEN req[r].window
                ELSE req[r].prefill + (req[r].blocks + 1) * PageSize

\* No allocator call throws: EnsureCapacityByEvict asked for at least what
\* Acquire takes, and Finish publishes no more pages than the request owns.
NoFault == ~fault

\* The slot pool is never overdrawn, retractions and resumptions included.
SlotsBounded == Cardinality(Holders) <= MaxBatchSize

\* How many tokens the pages of a request have been acquired for.
Acquired(r) == Cardinality(local[r]) * PageSize - req[r].tail

\* The exact page account of each request: a prefill holds its window and
\* one block more; a decode in flight holds the blocks decoded, the one
\* being decoded and one block more. So every position an operation writes
\* has a page.
CapacityExact ==
  /\ OpCovered
  /\ \A r \in Requests :
        LET q == req[r]
            decoded == q.prefill + (q.blocks + 1) * PageSize
        IN  /\ q.phase \in {"Prefilling", "PrefillDone"} =>
                    Acquired(r) = q.window + PageSize
            /\ q.phase = "Decoding" =>
                    Acquired(r) = IF opKind[r] = "decode"
                                  THEN decoded + PageSize ELSE decoded
            /\ q.phase = "Retracted" => Acquired(r) = decoded
            /\ q.phase \in Live =>
                    q.tokens <= q.prefill +
                        (IF q.blocks = 0 THEN 1 ELSE q.blocks) * PageSize

\* With pages for every slot, each request ends: prefill-first planning, the
\* order of the ids, the token budget and the slot pool starve nobody once
\* clients stop submitting.
EveryRequestEnds ==
    \A r \in Requests :
        req[r].phase \in Live ~> req[r].phase \notin Live

\* Does not hold. The branch that decodes says: "If mixed-batch is disabled,
\* skip ALL decode if any prefill was scheduled this round" (forward.cpp:465);
\* a prompt shorter than a page is decoded in another branch (:454).
NoMixedPlan ==
    ~ \E r, q \in Requests : opKind[r] = "prefill" /\ opKind[q] = "decode"
=============================================================================
