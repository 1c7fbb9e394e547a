# A TLA+ verification of FluxServe

FluxServe serves diffusion language models: requests arrive over HTTP, an
asynchronous engine hands them to a scheduler (FIFO in Python, or paged in C++), and
runners on one or several GPUs prefill their prompts and decode them block by block
into a paged KV cache, eagerly or through CUDA graphs. This directory holds TLA+
models of the parts of it that keep state or place data, the TLC runs that check them
and the TLAPS proofs about them. `PROJECT.json` maps every definition to the lines it
models, and lists components, runs, mutants, hazards, findings and theorems.

## 1. The system

All paths are relative to `src/`. *Scheduler* is `flux-scheduler/csrc`, the rest is
under `python/fluxserve/backend`.

| component | state it keeps | operations | correct when |
|---|---|---|---|
| C++ scheduler (`scheduler/`) | `requests_`, the plan under construction | `SubmitRequests`, `NextExecutionPlan`, `Advance` | a plan respects slots, token budget and pages; plans do not overlap; nobody starves |
| request FSM (`fsm/`) | one state object per request, which owns its pages and its slot | events of prefill, decode, retraction, finish, abort | every transition is defined and returns what the old state owned |
| allocators (`resource/allocator/`) | free pages, per-request pages and tail, slot pool | `Acquire`, `Insert`, destructors | each page and slot has one owner; capacity asked for is capacity taken |
| prefix cache (`resource/kv_prefix_cache`, `radix_tree`) | tree of published pages | match, insert, evict | no page is in two places |
| host tiers, cache groups, hybrid cache | transfers in flight, tables per group | write-back, load-back, prefetch, commit | a transfer's nodes outlive it |
| scheduler adapters (`engine/scheduler_adapter.py`) | `_active`, FIFO queue | `submit`, `next_plan`, `next_batch`, `advance_forward`, `finish`, `abort` | agrees with the scheduler on who is there |
| `AsyncLLM` (`engine/async_llm.py`) | `_states`, executor lock, loop task, background tasks | `generate_request`, `abort`, plan loop, FIFO loop | each request gets one final output, and everything it holds is given back |
| distributed executor, launcher (`engine/distributed_executor.py`, `distributed/launch.py`) | commands in flight, one slot table per rank, process states | broadcast, worker loop, supervision | all ranks run the same commands; a failure stops the server |
| HTTP server (`entrypoints/http_server.py`) | connections, replay registry | streaming, replay, eviction | a replay sees what the first reader saw; everybody who stays is served |
| LLaDA runners and decoders (`execution/runners/llada`, `decoders/llada`) | token arrays, block starts, edit budgets, KV | block loops, prefill, paged calls | blocks end resolved, with the KV of their final tokens |
| Nemotron runner and decoder | seeds, prefixes, reservations, KV | denoise, commit, draft, verify, plan calls | speculation is lossless, what is rejected is never read |
| diffusion-gemma runner and decoder | canvases, history, cache rows, graphs | prefill, denoise, commit | dense, paged and graph runners agree |
| paged KV cache, graph runners (`managers/kvcache`, `execution/*cuda_graph_runner.py`, `layers/attention`) | pool, page tables, static buffers of graphs | slot mapping, metadata, capture, replay | each request keeps its own keys and reads only them |
| layers, models, loader (`layers`, `models`, `model_loader`) | parameters per rank | load, forward with collectives, expert routing | the sharded pass computes what one rank would |
| rotary embedding, quantisation, kernels, CLI, bench | - | numerical code, I/O | - |

**How they interact.** A handler calls `generate_request`, which files a
`RequestState` in `_states`, submits to the adapter and wakes the loop. Under the FIFO
policy the loop takes a batch and runs it to its end. Under the paged policy it asks
for a plan, runs it in the worker thread under `_executor_lock`, applies the results to
the states still filed, tells the scheduler (`Advance`) and asks for the next plan. The
scheduler builds a plan in one call: it erases requests that ended, visits the
candidates in an order of priority, acquires pages and slots for each and, if nothing
could be scheduled, retracts the longest. With several ranks every executor call is
broadcast first, and each rank keeps its own slot table. The runner writes the page
lists of the plan into the cache's page table, launches the model over it (padded to a
captured graph where there is one) and lets the decoder rewrite the block. A client
that disconnects makes `abort` tell the scheduler at once and start a detached task
that releases the runner's slot under the lock.

**What is hard.** Everything on the event loop interleaves at awaits; the worker
thread executes a plan while clients submit and abort. An abort returns pages that
are being written; scheduler slot and runner slot are freed at different times; a
result, a failure and an abort race for the same client; ids can come from an
`x-request-id` header and therefore repeat. Ranks keep tables nobody compares and one
of them may fail alone. Graph buffers and the rejected part of a speculation outlive
the launch that wrote them. Blocks, prompts, pages, windows and shards meet at every
possible remainder. `hazards` in `PROJECT.json` lists each of these at its line with
the properties that watch it.

## 2. Modules

| module | models | role |
|---|---|---|
| `FluxScheduler` | the C++ scheduler, FSM, allocators and (as a set of pages) the prefix cache | component |
| `SchedulerContract` | what the engine may rely on: who is known, who holds a slot, what is in flight | abstract specification |
| `FluxRefinement` | `FluxScheduler` implements `SchedulerContract` | refinement |
| `AsyncEngine` | `AsyncLLM` with `PagedSchedulerAdapter`, the executor lock and the runner's slots, over `SchedulerContract` | composition |
| `HttpServer` | HTTP handlers and replay registry over both loops of `AsyncLLM` | composition |
| `Cluster` | rank 0, the workers, their slot tables and the supervising process | component |
| `Decoders` | the LLaDA decoders as operators on one block | pure algorithms |
| `BlockDecode` | the block loops of the LLaDA runners, over `Decoders` | component |
| `Nemotron` | block diffusion and self-speculation, dense, batched and online | component |
| `Gemma` | the diffusion-gemma runners, decoder and windows | component |
| `PagedKV` | page tables, slot mapping, CSR and FA4 metadata, masks | pure algorithms |
| `PagedGraphs` | launches of LLaDA and Nemotron over a page pool, eager and by graph replay | component |
| `Weights`, `Routing` | which slice of a tensor a rank loads; the choice of experts | pure algorithms |
| `TensorParallel` | launch checks, checkpoint loading, one sharded forward pass | component |
| `Filters` | a list comprehension with a filter, row numbers in order | pure algorithms |
| `FluxSchedulerProofs`, `FluxRefinementProofs` | - | theorems on the scheduler and its contract |
| `AsyncEngineProofs`, `ClusterProofs`, `HttpServerProofs` | - | theorems on the engine, the ranks and the server |
| `NemotronProofs`, `GemmaProofs` | - | theorems on the Nemotron and the Gemma runners |
| `Counting` | - | lemmas the proofs share: least elements, bijections with `1..n`, the size of a union |
| `MC*` | - | TLC instances: cases, symmetry, id assignments, configurations |

The engine model uses the contract and not the scheduler: the two together would be
far too large for TLC, and the refinement is what makes the split sound. In the
refinement a plan in progress is hidden: the contract sees who was live and who held a
slot when the call started, which `order`, the sort class of every candidate, still
records. Only the erasure of terminal requests shows at the start of the call
(`Forget`); `AsyncEngine` takes it together with the plan, since the call is one
synchronous step of the event loop. The same split separates the runners from the engine: a runner model takes the plans the
scheduler may make as nondeterministic choices.

### FluxScheduler

The configuration is the one `PagedSchedulerAdapter` builds: `disable_l2_cache`,
`disable_prefix_cache`, no mixed batches, `decode_input_tokens = page_size = block
length`. State: `req[r]` is the FSM state with the counters the scheduler reads
(`tokens` of the token container, `prefill` length to prefill, `window` prefilled so
far, `blocks` decoded, `tail` free positions in the last page, `reserve`
`reserve_num_tokens_in_next_schedule_event`); `local`, `free` and `tree` are the
owners of device pages; `opKind` and `opPages` are the operations of the plan being
built or executed, with the page list copied into them.

| action | code |
|---|---|
| `SubmitRequests`, `Abort` | `Scheduler::SubmitRequests`, `AbortEvent` |
| `BeginPlan` | erase of terminal requests, candidate list and sort |
| `SchedulePrefillFirstChunk`, `SchedulePrefill`, `ScheduleDecode`, `ScheduleDecodeFromRetracted` | the four `schedule*` functions, the event they apply and `push_op` |
| `SkipNoSlot`, `SkipNoPages` | their early returns, before and after eviction |
| `ReturnPlan`, `RetractAborts`, `RetractKeepsPages` | the end of `newForwardOperation`, `newRetractOperation` |
| `PrefillResult`, `DecodeResult`, `FinishResult`, `StaleResult` | `Advance` with `ExtendResult`, `UpdateReserveNumTokens`, `Finish`, or for a request that is gone |

Abstractions. A plan is one call in the code; the model takes it candidate by
candidate, and `planning` keeps the other entry points out, so no interleaving is
added. Token ids are left out: whether a finished request's pages duplicate ones the
tree holds is a choice (`InsertAndRelease`). Nodes are never locked in this
configuration, so the tree is a set of pages, and an eviction may take more than was
needed because whole leaves go. An allocator call that would throw sets `fault`
instead of ending the process. `UpdateReserveNumTokens`, `Finish` and the other events
of one `Advance` touch disjoint requests and are one action per request. A request is
done after at most `MaxBlocks` blocks, the bound for `max_new_tokens`.

### AsyncEngine

An action is the code between two awaits that can suspend. `client` is where each
`generate_request` is, `reply` the final output in its queue (it is put there in the
step that sets `finished_reason`), `owner` is `_states`, `active` the adapter's set,
`known`, `held`, `ops` the scheduler. `jobs` is the queue of `_executor_lock`: its
head holds the lock, and `asyncio.Lock` is first come first served. `pc` is the plan
loop: `idle` where it awaits work, `forward`, `apply` and `release` where it awaits
the lock or the worker, and `plan` where it goes from a result to the next plan
without suspending, so that nothing else on the event loop runs.

| action | code |
|---|---|
| `Submit`, `Receive`, `Disconnect` | `generate_request`: up to its first wait, its end, its cancellation with `abort` |
| `AbortTask` | `_abort` up to its wait for the lock |
| `PlanForward`, `DropOperation`, `PlanEmpty`, `LoopWaits` | the plan loop up to the forward, for an operation without states, for an empty plan, and without requests |
| `ForwardReturns`, `ForwardRaises`, `ForwardNoSlot` | `execute_paged_forward_plan` in the worker: normal, with an exception, with `_paged_slot` raising |
| `ApplyResults`, `FailStates` | the loop after the forward: results, `advance_forward`, `finish`; `_fail_states` |
| `Release` | `release_paged_requests` |

Abstractions. A detached `_abort` task may start arbitrarily late, which includes
every order of asyncio's ready queue. When the loop has awaited a release it is
`idle` and may be preceded by any other coroutine. Execution is in the worker thread
(`offload_execution`, the server's setting); the FIFO loop is in `HttpServer`, shutdown
in `Cluster`. The worker thread passes over a row whose state
it sees finished; it looks at some point between plan and return, so an abort
meanwhile may or may not take the row's result away (`ForwardReturns`). Operations of one plan are the set of their requests.

### HttpServer

A client is one connection; an entry of the registry and a request of the engine are
named by the client that created them. An action is what one task does between two
awaits. The engine runs one of its two policies (`paged`). Under FIFO a request has one
output, its last. Under the paged policy a forward operation has, for each request of it,
the final output or a chunk of text; `Chunks` holds the texts a request may have before
its final one, its length being the bound. A pass that has neither for a request (a part
of a prompt) changes nothing in this module.

| action | code |
|---|---|
| `Connect`, `Acquire` | the handler up to the stream, `ReplayRegistry.acquire` with expiry and `_evict`, the 409 of a key used with another body |
| `ReadEvent`, `Subscribe`, `SubscriberGets` | the three parts of a keyed stream: what is recorded, the subscription, the queue |
| `Submit`, `TakeChunk`, `TakeOutput` | the coroutine that iterates `generate_request`, for a connection or for `produce()`: `publish` of a chunk, and `publish` of the last events with `finish` |
| `Disconnect`, `AbortTask` | cancellation, `abort`, `_abort` |
| `NextBatch`, `BatchReturns`, `BatchFails` | `_run_fifo_loop` with `next_batch`, `finish` and its error path |
| `ForwardOp`, `ForwardReturns`, `ForwardFails` | `_run_execution_plan_loop` and `_execute_forward_op`, results by request id, `_fail_states`; which requests an operation has is any choice |

A stream grows while connections join it: between two chunks the producer waits for the
queue, and a reader may catch up, subscribe or go. The last events (the final output, the
timing and `[DONE]`) and `finish` are one step, because nothing is awaited between them:
`generate_request` has broken out of its loop, and `publish` and `finish` are not
coroutines. A producer that finds several outputs in its queue publishes them without
waiting; the model takes them one at a time, which allows more interleavings. A client
without a key that disconnects while a chunk is being sent only drops the generator: the
`CancelledError` does not reach `generate_request`, nothing is aborted and the request
runs to its end unread (second case of `Disconnect`). Time-to-live is an expiry of any
set of finished entries; the registry's byte limit is a number of events (`MaxEvents`).

### Cluster

A command is a record of its kind and of its prefill and decode rows. `queue` is the
executor lock. The server makes plans (`Plan`) or takes FIFO batches (`Generate`,
`_run_fifo_loop`), a choice of `Init`; a batch is one call that takes no slot, runs every
row it was given, finished or not, and is followed by no release. Rank 0 broadcasts (`Broadcast`), each rank takes the commands in order
(`RunStartup`, `RunRelease`, `RunShutdown`, `EnterForward`), and a forward is one
rendezvous (`Forward`): every rank that entered it leaves it together, `ForwardRaises`
lets it fail on some ranks or on all, `SlotLimit` is `_paged_slot` raising. A rank
whose peers failed stays in the collective until the watchdog of the communication
library (`Watchdog`, external) ends it. `Signal`, `ShutdownWorkers`, `JoinReturns`,
`JoinRaises` and `GraceOver` are the launcher up to `_stop_remaining_processes`, which is
four steps: `Terminate` sends SIGTERM to whoever is left, `WaitOver` ends the joins,
`KillRemaining` kills the processes one after the other and `NoneRemains` ends the
supervision. A worker may end on SIGTERM at any time meanwhile or not at all (`TermEnds`,
external, without fairness), rank 0 starts to drain, and the ranks go on with what they
were doing. Rows are sets: the order of the rows and their page lists, which the payload
copies, are not told apart.

### Decoders and BlockDecode

The logits of a position are abstracted to the order of its tokens and a small integer
confidence; suppressing a column is taking the best of the others. `BlockDecode` picks
in `Init` a case (decoder, runner, loop, prompts) and then follows one of the loops:
`PrefillBatches`, `NextBucket`, `SelectBatch`, `ForwardPart`, `CommitPart`,
`LoopExhausted`, `CollectBatch` for `generate`, `PagedPrefill`, `PagedCall`,
`PagedResults` for a plan of the engine. `kv[r][i]` is the token whose key the cache
holds, so that a stale key is visible. The input processor asks for at least one token;
the case of an empty generation is a call of `generate` from outside the server. A forward is one step for the rows of a mini
batch or a graph part, with every output of `Outputs` for every position.

### Nemotron

The causal model is a function from the last token to the next, chosen in `Init`
(sampling at temperature 0); denoising predictions and confidences are free. Actions:
`Prefill`, the loop of a launch (`Denoise`, `Commit`, `Verify`, ended by `Assemble`
offline and `Publish` online), and for the online path `PlanPrefill`, `PlanDecode` and
`Abort`.
`acquired` and `reserve` mirror what the scheduler acquires for a request. The causal
model is assumed never to answer with the mask token (`Sample`), which nothing in
`sample_tokens` (`decoders/nemotron.py:103-104`) rules out. A model that did so would have
the executor filter the token out of its answer, and `Lengths` and `LengthsAlways` would
not hold; a denoising prediction may be the mask.

### PagedKV and PagedGraphs

Only addresses: a slot of the pool holds the request and position whose key was written
there last. `Submit`, `Schedule` and `Finish` recycle pages as the scheduler does,
`Generate` is the offline path with fixed rows; `PrefillForward` and `DecodeForward` are
the launches of the nine configurations (ragged, paged, decomposed and padded graphs,
FA4 with and without graphs, Nemotron eager and with both kinds of graph). A graph entry
keeps its buffers between launches; `seen` records what each query of the last launch
read.

### Gemma

`Generate`, `Prefill`, `Denoise`, `Commit` and `Return` of one `execute_batch` after the
other. A batch in which a request has `ignore_eos` switches `early_stop` of the runner off
for its `generate` call, and `Return` restores what was saved (`Restored`): `early` holds
the runner's value, the saved one and whether the batch ignores end tokens. Canvases then
follow a canvas with an end token. The cache is allocated ahead only where the online
runner captures graphs. What each query reads is observed in every launch, the dense
prefill included. A key is its owner, its position and its token; the sliding and the full layer
are observed separately. The scalar decoder runs beside the batched one on the same
predictions.

### Weights, Routing and TensorParallel

A tensor is the sequence of its cells along the dimension it is sharded on, each named
by the checkpoint cell it came from. A value on a rank is a bag of terms, one per head,
MLP unit or expert unit, named by the cells it multiplies; an all-reduce is the bag
union over ranks. So a contribution that is lost, added once per rank or built from
another head's weights is visible, without any arithmetic. `Launch` makes the checks of
the command line and of the layers, `ReadShard` and `Finish` are the loaders, `Embed`,
`Attention`, `FeedForward` and `Logits` the forward pass of the three models, with the
gathers and reductions of `communicator.py`. `Routing` returns the set of outcomes,
because `topk` may break ties either way. `BiasedGroupedTopK` is
`biased_grouped_topk_impl`; on CUDA with a power of two of experts the fused kernel
`moe_fused_gate` is called instead (`topk.py:513-532`), which is taken to compute the
same. `GroupedTopK` masks with 0 as the code does, and its scores are positive in the
run, as those of a softmax; scores that underflow to 0 and tie with masked ones are not
explored.

## 3. Runs

| run | instance | properties | shows |
|---|---|---|---|
| `core` | 3 requests, 6 pages of 2, 2 slots, budget 4, prompts of 1, 2 and 7, 2 blocks | `TypeOK` `PagesAccounted` `FlightExclusive` `NoFault` `SlotsBounded` `ImplementsContract` | pages, slots and capacity through retractions and silent aborts; the scheduler implements the contract |
| `drain` | 3 requests, 7 pages of 2, 2 slots, whole prompts of 2 and 3; no submission after the start | `CapacityExact` `EveryRequestEnds` | page account off page boundaries; nobody starves |
| `engine` | 3 clients, two with the same id, 1 slot | `NoStrandedSlot` `OneFinalOutput` `Answered` | releases, answers, and progress while ids are distinct |
| `server` | 3 connections: retries, foreign payloads, no key; registry of one entry; batches of 2; FIFO, and paged with up to 2 chunks | `StreamFaithful` `RegistryBounded` `StreamsEnd` | replay is complete, the registry keeps its bound, streams end |
| `cluster` | 2 ranks, 3 requests, 2 slots, 2 plans or batches, failures of one or of all ranks | `RowsDifferByAborts` `SlotsAgree` `PlanEnds` `AllStop` | ranks differ only by an abort; a failure or signal stops everything |
| `decode` | 12 cases, blocks of 2, one or two rows | `KVCommitted` `PromptKept` `PagedPositions` `EditsAgree` `Complete` `Ends` | every decoder and loop ends right |
| `nemotron` | every mode and path, blocks of 3, budgets none, 0 and 2 | `KVExact` `Causal` `Covered` `Lengths` `SeedKept` `Ends` | lossless speculation, reservation, lengths |
| `graphs` | 12 configurations, 3 requests, 2 rows, pages of 2 | `KVOwn` `AttendsOwn` `PaddingApart` | keys stay and are read by their owners only |
| `gemma` | dense, paged, graph; two batches of one or two rows, each with or without `ignore_eos` | `KVCommitted` `SeesWindow` `BatchAgrees` `ResultExact` | the runners agree |
| `weights` | 23 launches of three models on 1, 2, 4 ranks | `ForwardExact` `AcceptedComplete` `RoutedWithin` | the sharded model is the model |
| `dense_slice`, `cluster_rows` | see section 5 | `FirstTokensKept`, `RanksAgree` | violated |

`NoFault` says that no allocator call throws, `CapacityExact` that the pages of a
request cover exactly its window and blocks, and every position an operation writes
(`OpCovered`). The comment above each property says what it states and of which code.
The type invariants of the modules other than `FluxScheduler` document the variables;
they hold in the same instances but are not among the runs' properties.

**Why the bounds are enough to be interesting.** In `core` a prompt may be shorter
than a page (its first chunk is empty), exactly one page, or three pages and a half,
which does not fit one budget and is chunked; three requests compete for two slots,
and the pool is too small for two long ones, so evictions, skips, both retractions,
resumption and silent aborts all happen. In `drain` prompts of 2 and 3 share a budget
of 4, so that chunks of one token occur and tails are taken up again. `engine` has more
clients than slots. In `server` the registry is smaller than the number of keys, so
finished entries are evicted while they are read. Two ranks are enough for `cluster`:
its properties compare pairs of ranks. Blocks of 2 in `decode` make prompts end on a
block, inside one and before the first; both editing decoders and a prompt with an end
token are among the cases. Blocks of 3 in `nemotron` let a draft be accepted in whole,
in part or not at all. In `graphs` a third request reuses the pages of one that ended or
was aborted while buckets of three or four rows pad one or two real rows. In `gemma` the
window equals the canvas, the second call needs a larger cache than the first, and
buckets leave padding. In `weights` four heads over two key heads on four ranks
replicate, a vocabulary of three is padded to four, and the chunk and tile sizes are
below the number of tokens. Pages are interchangeable and are a symmetry set in `core`,
which checks no liveness; requests are not, since their order breaks ties. Where a cfg
says `CHECK_DEADLOCK FALSE` the system may really stop: all clients are served, all
requests ended, the forward pass is over.

**Fairness.** `drain`: weak fairness of the plan loop, which asks again as long as
requests are there, and of each result, because every forward returns or raises.
`engine`: weak fairness of the loop, the worker and each task, since event loop and
lock are first come first served; further strong fairness of two things below the
engine: a request that can be planned again and again is eventually planned
(`PlansFor`, which `EveryRequestEnds` shows of the scheduler) and its forward
eventually completes it (`Completes`, because `max_new_tokens` bounds its blocks).
`server`: weak fairness of each reader and coroutine, of abort tasks and of the loop,
which are all tasks of one event loop. `cluster`: weak fairness of each rank's thread,
of a collective all ranks have entered, of the supervisor (which polls with timeouts, and
whose kill cannot be ignored) and of the watchdog; not of a process ending on SIGTERM. `decode` and `nemotron`: weak fairness of the loop's next
statement, and of the engine that plans again while a request is unfinished. Nothing is
assumed of clients, signals or failures. `EveryRequestEnds` needs pages for every slot;
with less memory it is false, see 5.

**Mutants.** Each property of each passing run has a mutant: a variant of one
definition (kept before the original, introduced by a comment with "mutant") under
which TLC finds the property violated.

## 4. Proofs

Each theorem holds for every value of the constants that the named `ASSUME`s allow.
Every inductive invariant below was first checked with TLC on the run of its module.

**The scheduler**, for every set of requests and pages, page size, budget and slot count
(finite sets of natural ids and of pages; positive sizes; a budget that is a multiple of
the page size, which `launch.py` enforces):

- `TypeCorrect` and `PagesAlwaysAccounted`. Neither invariant is inductive alone:
  that pages keep one owner through `Acquire` needs their types, and a plan that
  erases ended requests loses no page only because those own none. `Owners`, the
  conjunction of `TypeOK` and `PagesAccounted`, is inductive. The lemmas
  `AcquireOwners`, `InsertOwners` and `ReleaseOwners` say what the three ways to move
  pages do to ownership; `OwnersStep` turns them into one lemma per action.
- `SlotsAlwaysBounded`. `SlotsBounded` is inductive given `TypeOK`: `SlotsShrink` and
  `SlotsGrow` cover steps that take slots and the scheduling steps, which test the
  pool first.
- `FlightAlwaysExclusive`. `FlightExclusive` says nothing of where a request's pages
  may be once it was aborted, so it is not inductive. `FlightPages` is: the pages of
  an operation are its request's while the plan is built, and its request's or free
  while it is executed; with one owner per page this gives the property. It rests on
  plans not overlapping (`PreviousPlanDone`): nobody acquires before all results are in.
- `CapacityAlwaysExact` and `AllocatorNeverThrows`. `Capacity` joins to `CapacityExact`
  per request, what its state knows of its window, its tail and its reserve between two
  plans (`Counters`), that a request in flight has the state its operation needs
  (`Operation`), and that its pages are as many as its counters say (`Account`). From it
  follows that each call of `Acquire` is covered by the test made before it and that no
  request gives back more than it has, so the same induction
  carries `NoFault`.
- `SchedulerImplementsContract`: `FluxScheduler!Spec => SchedulerContract!Spec` under the
  mapping of `FluxRefinement`, given `MayRetract = TRUE`. The initial states map to initial
  states and each action to a step of the contract or a stutter. The steps need `PlanView`:
  how the operations planned so far, the slots they hold and the states of their requests
  fit together while a plan is being built, where the contract sees nothing until
  `ReturnPlan`.
- `AmpleImplementsContract`: the same under `MayRetract = FALSE`, given `AmplePages`: some
  number of pages holds any prompt with all its blocks and one more, and there are that many
  for each slot. This is the contract the engine is checked and `SlotsNeverStranded` is
  proved over, so the theorem says when that result is one about the server. The invariant
  is `AmpleFor(m)`: every request fits in `m` pages and, while a plan has no operation, no
  holder of a slot was passed over. A full pool then leaves the next candidate its pages
  (`PagesThere`, by the size of a union of at most `MaxBatchSize` sets), so the branch that
  retracts is never reached and a plan comes out empty only when nobody is there.

**The engine**, for every set of clients and finite set of ids, shared ones included:

- `AtMostOneFinalOutput`: the action property `OneFinalOutput`. The three places that
  answer a client (`ApplyResults`, `FailStates`, `AbortTask`) each pass over states
  that are finished. Only the type of `reply` is needed as an invariant.
- `SlotsNeverStranded`: `NoStrandedSlot`, given `MayRetract = FALSE`. With retraction the
  property is false (section 5): the scheduler ends a victim without telling anyone.
  `NoStrandedSlot` only speaks of moments when no release is under way; `QueueWatched`
  follows a request from its place in the adapter's queue through the plan and the locked
  execution to its release, and says at each point who will free its slot.

**The ranks**, for any number of workers, slots and requests, plans or FIFO batches,
whoever crashes or is killed:

- `RowsAlwaysDifferByAborts` and `SlotsAlwaysAgree`. Ranks read one broadcast history at
  their own pace. `CommandsAgree` says that commands with the same number are the same
  command; `OneHistory` ties a rank's slot table to the number of commands it has applied,
  and `SlotsApart` that no two requests share a slot. Agreement of two ranks is then a
  comparison of two places of one history, not of two runs.

**The server**, for every set of clients and keys, policy, number of chunks and registry
limit:

- `ReplaysAlwaysFaithful` and `RegistryAlwaysBounded`. What a connection was sent, what
  waits in its queue and what the stream has published are three sequences changed by
  three actors. `Replays` says of each connection that sent and waiting parts together are
  the published stream, however often it grew since the connection joined (`Faithful`),
  that a finished stream has no producer left (`Producing`), which connections a stream
  feeds (`Reads`), and that the end of the stream is the last thing in a subscriber's queue
  exactly when the stream is finished (`Queued`); `Registry` that a key of the registry names the one stream of that
  key that is not evicted, which is also what the bound on its size needs.

**The Gemma decoder**, for all predictions, any batch, thresholds and canvas:

- `BatchAlwaysAgrees`: `step_batch` gives each row what `step` gives it alone. The batch
  keeps one list of canvases for all rows, in which converged rows go on being recorded, so
  `BatchAgrees` says too little of how the next step ends. `Batched` adds `SameHistory`:
  each active row finds its own history in its column of that list, of the same length.
  The lemmas `RememberKeeps` and `CutKeeps` show that the two ways of forgetting the oldest
  canvas, dropping the head and cutting the tail out, leave the same places, and
  `SingleElement` that the two tests of stability are one. Assumed of the constants: a
  positive stability threshold (the runner adds one to the configured value, 1 by default).

**The Gemma runners**, for any sequence of calls, batches, prompt and generation lengths,
canvas, window, buckets and number of graphs, and whatever the model predicts, dense,
paged and by graph:

- `RunnersInvariant`, and from it `CommittedAlwaysKept`, `WindowAlwaysSeen` and
  `ResultAlwaysExact`, for batches with and without `ignore_eos` in any order.
  `KVCommitted` alone is not inductive: that a commit leaves the key a
  token must have needs the decoder to hand over predictions (`Decoding`: a row that is not
  active any more has one), and that the next canvas starts behind the last needs a row
  that goes on to have taken a whole canvas (`Growing`). `IInv` joins to these what a row is
  between its prompt and its last canvas (`RowFits`: waiting, growing by whole canvases,
  without an end token if the batch stops at one, or ended), that `early_stop` is what the
  batch asks for during it and the configured value between two (`Stopping`), who is active
  in which phase (`Phases`), and what the dense runner keeps: of each layer the last keys
  the window allows (`DenseKept`).
- One launch: `AppendedRow` says that a row's keys go where its metadata says because no
  other row of the launch names its cache row (`DummyRowsApart`: padding takes the rows
  that are not active). `EagerSees` and `GraphSees` show that the mask of the eager runner
  and the window of the kernel, which bounds only the keys before a query, select the same
  keys when no canvas is longer than the window; `DenseSeen` the same for a cache that has
  lost its oldest keys, `DensePromptSeen` for the dense prefill. `PassKeeps` joins the three runners.
- The steps: `StartedRows` and `PromptLaunch` for the prefill, `StepDecodes` for denoising,
  `GrownRows`, `CommittedAfter` and `DenseCommitted` for the commit, `ResultIs` for the
  columns `generate` returns. The bound on the steps follows from the canvases a row has
  taken (`PaddedIs`).
- Assumed of the constants: a positive canvas and step limit, predictions as long as the
  canvas, buckets that are numbers, and calls that are non-empty lists of prompt and
  generation lengths (`generate` refuses negative ones).

**The Nemotron runners**, for any number of rows, prompts and lengths, any block length,
step limit, thinking budget and causal model, and whatever denoising predicts, on the
dense, batched and online paths:

- `RunnersInvariant`, and from it `KVExactAlways`, `CausalAlways`, `CoveredAlways`,
  `LengthsAlways` and `SeedKeptAlways`. The five properties hold each other up: that a
  verification keeps the output causal needs the draft to start with the last token of the
  output, that the next launch is covered needs the prefix to have moved by what was
  reserved, and a seed is kept because a request that ended is never in a plan. `IInv`
  joins them row by row (`RowInv`): a row is fresh or prefilling, waiting for a plan
  (`WaitingRow`), in a launch (`RunningRow`) or ended. Of a launch, `ActiveOK` says what
  the block or the draft starts with, whether a marker is in it in time and how the prefix
  relates to the output; `DoneOK` what a launch may leave behind. Between plans
  `RequestOK` ties seed, prefix and published output together and `Ahead` says that pages
  acquired and reserved reach two blocks beyond the prefix, which is why reserving only
  what was accepted is enough. `Clean` (an undecided position only behind an end of
  sequence that stops the row) is what makes the filter of the executor harmless.
- The argument is about one row: `CommitKeeps`, `VerifyKeeps` and `DenoiseKeeps` take it
  through a step of its launch, `PlannedRowIs` and `PrefillRowIs` start it, `PublishedRow`
  and `AssembledRow` end it, and `RowKept` says that a step leaves the invariant of the
  other rows alone. `AcceptedIs` describes `accepted_tokens`, `OutputIs` what is left of a
  result after cutting and filtering.
- Assumed of the cases (`CaseAssumption`): prompts are not empty, an online request asks
  for at least one token, a budget is not negative, and a draft with a budget has a second
  position for its marker. `CausalAlways` makes an exception of one case, a batch of
  speculating rows with a budget of zero: the marker comes too late there (section 5).
  Its other half, that every token is the model's answer or a marker that is due, is proved
  for that case too (`LosslessOK`).

`Counting` proves by least elements (`LeastNatural`: a non-empty set of naturals has one,
from the well-foundedness of `<`) what the inductions on lengths need, so no theorem takes
an operator as a parameter. Where an operator of the community modules is a fold that the
prover cannot unfold, the model uses an equal definition by index sets (`Without` of
`Filters` for the filter of a sequence, `InOrder` for the sorted rows of a batch). Where
guards of a `CASE` could hold together, TLC would take the first and the prover could not
tell which is meant; such choices are written with `IF`.

**Model-checked only.** Liveness under fairness and ENABLED are outside the prover. So is
what a recursive function or a fold computes for every input: tlapm unfolds neither without
a theorem that takes an operator as a parameter. This holds back the invariants of
`BlockDecode` (`Decoders` merges edits and finds the end of a block by recursive functions),
those of `PagedGraphs` (CSR lists as folds, page choice by sorting)
and of `TensorParallel` (shapes and sums). That every generation ends (`Ends`) is liveness.

## 5. What the models found

Two runs are expected to fail: each states what a comment of the code says and shows
that the code does otherwise.

- `dense_slice`: `execute_batch` (`engine/executor.py:142`) cuts every row of a FIFO
  batch at the longest prompt, while the LLaDA runners decode each row right after its
  own prompt. The shorter row is answered without its first tokens.
- `cluster_rows`: rank 0 leaves out the rows an abort has finished while the plan waited
  for the executor lock (`runners/llada/flashinfer.py:495`); the payload of the other
  ranks has no such flag and they run those rows. `RowsDifferByAborts` shows that this is
  the only way in which ranks can differ.

**Disagreements that have no run of their own.** Each can be seen by adding the named
invariant to the cfg.

- `NoMixedPlan` (`FluxScheduler_core.cfg`): with mixing disabled a plan may hold a
  prefill and a decode, because a prompt shorter than a page is decoded in the branch
  that does not look for an earlier prefill (`forward.cpp:454`; the comment at 465 says
  all decodes are skipped).
- `SlotsSuffice` (`AsyncEngine_pass.cfg`): an abort frees the scheduler's slot at once
  and the runner's later. A plan made in between overdraws the runner's table, and an
  innocent request fails with the message that the scheduler exceeded `max_num_seqs`.
- `NoStrandedSlot` with `MayRetract = TRUE` (`AsyncEngine_pass.cfg`): a victim of
  retraction that has full pages is aborted inside the plan, without a host tier to move
  them to, and nobody is told. Its runner slot is stranded and its client waits until it
  gives up.
- `ActiveScheduled` (`AsyncEngine_pass.cfg`): an id that ended stays a key until the next
  plan. A new request with the same id is taken by the adapter and ignored by the
  scheduler, and its client waits; on an idle server no plan comes to erase the key.
  With two concurrent clients of one `x-request-id` the second takes over the entry of
  `_states`; after the first leaves, the scheduler may plan an operation nobody has a
  state for, which `_execute_forward_op` drops without telling it, again and again, in
  the place of other requests. This is why `Answered` makes an exception of ids sent twice.
- `MarkerInTime` with `Cases <- MCZeroBudget` (`Nemotron_pass.cfg`): the batched
  self-speculation drafts its first block without the marker (`nemotron/fa4.py:1259-1307`),
  while the online path says of the same situation that "a budget of zero forces the
  marker into the first block" (974-976).
- The Gemma loader notes destination parameters (`loader.py:595-622`), so a checkpoint
  that lacks one slice of a fused parameter is accepted; `nemotron_diffusion.py:502-504`
  explains why the Nemotron loader does not do that. `AcceptedComplete` therefore
  speaks of Nemotron where the checkpoint is incomplete.

Three more facts met while modelling. A retracted request with nothing published keeps
all its pages, although `forward_states.h:367` speaks of one tail page. With four pages
and two prompts of a page each the scheduler can reach a state in which prefilling or
retracted requests hold all pages and none of them can be retracted: every plan is empty
from there on. Whether a deployment can get there depends on the profiled page count, so
it is listed as a hazard, and `drain` has pages for every slot. And the error path of the
FIFO loop (`async_llm.py:235-245`) removes the states of a batch by id, also when the id
has been submitted again meanwhile; the `server` run has ids of their own.

## 6. Not modelled

- Host tiers (write-back, load-back, prefetch), the paged cache groups, the hybrid
  prefix cache and prefix matching: switched off by `PagedSchedulerAdapter`.
- `FluxSchedulerAdapter`, the batch interface of the C++ scheduler.
- Rotary embedding, quantised formats, the arithmetic of kernels and of sampling: real
  numbers, out of TLC's reach. What they are given and where their results go is
  modelled in `PagedGraphs` and `TensorParallel`.
- The static decoder (`decoders/llada/static.py`) and the credit-threshold decoder of
  `threshold.py`: decoders beside the four of `Decoders`, with the same interface.
- DeepEP, CPU and other device paths of the layers; LoRA adapters.
- The command line, benchmarks, metrics, profiling and logging: I/O. The constraints
  `launch.py` checks are assumptions or the guard of `Launch`.

## 7. Plan

1. Proofs: `PaddingApart` of `PagedGraphs` with the page lists as functions;
   `RoutedWithin` of `TensorParallel`.
2. `PrefixCache`: the radix tree with node splitting, locks, LRU eviction and the host
   copy, shown to implement the set of pages that `FluxScheduler` uses; then the FSM
   states of the host tier, where an abort during a write-back and `WriteBackDone` of a
   finished request are the hazards.
3. The paged cache groups and the hybrid cache.
4. `HttpServer` over ids sent twice: whose tokens a client of a shared id gets.
