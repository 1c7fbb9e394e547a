----------------------------- MODULE AsyncEngine -----------------------------
(***************************************************************************)
(* AsyncLLM with the paged scheduler (engine/async_llm.py,                 *)
(* engine/scheduler_adapter.py) over the scheduler's contract, and the     *)
(* runner's slot table below it.  The actors are the clients' coroutines,  *)
(* the detached _abort tasks and the plan loop, which all run on one event *)
(* loop and interleave where they await, and the worker thread that        *)
(* executes one call at a time under the executor lock.  An action is the  *)
(* code between two awaits that can suspend.                               *)
(***************************************************************************)
EXTENDS Integers, FiniteSets, Sequences

CONSTANTS
    Clients,     \* calls of generate_request
    Rids,        \* request ids
    RidOf,       \* id of each client's request: x-request-id or a fresh one
    MaxNumSeqs,  \* max_num_seqs: slots of the scheduler and of the runner
    MayRetract,  \* TRUE: the scheduler may run out of pages
    None         \* no RequestState

ASSUME EngineAssumption ==
    /\ IsFiniteSet(Rids)
    /\ RidOf \in [Clients -> Rids]
    /\ MaxNumSeqs \in Nat \ {0}
    /\ MayRetract \in BOOLEAN
    /\ None \notin Clients

VARIABLES
    client,   \* where each client is
    reply,    \* final output in its queue; set together with finished_reason
    owner,    \* _states: the client whose RequestState is filed under an id
    active,   \* PagedSchedulerAdapter._active
    known, held, ops,  \* the scheduler
    pc,       \* the plan loop, see below
    caught,   \* states_by_id of the operation being executed
    outcome,  \* what the worker thread returned
    jobs,     \* holder and waiters of _executor_lock, first come first served
    slots,    \* keys of the runner's _paged_request_slots
    cleanup   \* clients whose _abort task has not started

schedVars == <<known, held, ops>>
loopVars == <<pc, caught, outcome>>
vars == <<client, reply, owner, active, schedVars, loopVars, jobs, slots,
          cleanup>>

Sched == INSTANCE SchedulerContract
             WITH Requests <- Rids, MaxBatchSize <- MaxNumSeqs

\* The loop waits for work (idle) or for the lock and the worker (forward,
\* apply, release), or it has the event loop to itself (plan): it goes from
\* the results of one plan to the next without suspending.
LoopPc == {"idle", "plan", "forward", "apply", "release"}
EventLoopFree == pc # "plan"

NoStates == [r \in Rids |-> None]
Caught == {r \in Rids : caught[r] # None}
Idle == [ok |-> TRUE, done |-> {}]

\* A job under the executor lock, and the loop's or a task's release.
Job(kind, rids, by) == [kind |-> kind, rids |-> rids, by |-> by]

\* Mutant: the release does not wait behind the forward that is running.
EnqueueUnlocked(job) == <<job>> \o jobs

\* asyncio.Lock is fair: a waiter goes before a later acquire.
Enqueue(job) == Append(jobs, job)

Init ==
    /\ client = [c \in Clients |-> "new"]
    /\ reply = [c \in Clients |-> "none"]
    /\ owner = NoStates
    /\ active = {}
    /\ Sched!Init
    /\ pc = "idle"
    /\ caught = NoStates
    /\ outcome = Idle
    /\ jobs = <<>>
    /\ slots = {}
    /\ cleanup = {}

-----------------------------------------------------------------------------
(* Clients.                                                                *)

\* The adapter passes over an id it thinks active, the scheduler one that is
\* still a key; the state is filed in any case.
Submit(c) ==
    LET r == RidOf[c] IN
    /\ EventLoopFree
    /\ client[c] = "new"
    /\ client' = [client EXCEPT ![c] = "waiting"]
    /\ owner' = [owner EXCEPT ![r] = c]
    /\ active' = active \cup {r}
    /\ IF r \notin active /\ known[r] = "absent"
       THEN Sched!Submit(r) ELSE UNCHANGED schedVars
    /\ UNCHANGED <<reply, loopVars, jobs, slots, cleanup>>

\* generate_request takes the final output from the queue and ends.
Receive(c) ==
    /\ EventLoopFree
    /\ client[c] = "waiting"
    /\ reply[c] # "none"
    /\ client' = [client EXCEPT ![c] = "served"]
    /\ UNCHANGED <<reply, owner, active, schedVars, loopVars, jobs, slots,
                   cleanup>>

\* The client's task is cancelled: abort tells the scheduler on the spot and
\* leaves the rest to a task of its own.
Disconnect(c) ==
    LET r == RidOf[c] IN
    /\ EventLoopFree
    /\ client[c] = "waiting"
    /\ client' = [client EXCEPT ![c] = "left"]
    /\ active' = active \ {r}
    /\ IF r \in active /\ known[r] = "live"
       THEN Sched!Abort(r) ELSE UNCHANGED schedVars
    /\ cleanup' = cleanup \cup {c}
    /\ UNCHANGED <<reply, owner, loopVars, jobs, slots>>

\* _abort up to its wait for the executor lock
AbortTask(c) ==
    LET r == RidOf[c] IN
    /\ EventLoopFree
    /\ c \in cleanup
    /\ cleanup' = cleanup \ {c}
    /\ IF owner[r] # None /\ reply[owner[r]] = "none"
       THEN /\ reply' = [reply EXCEPT ![owner[r]] = "abort"]
            /\ owner' = [owner EXCEPT ![r] = None]
       ELSE UNCHANGED <<reply, owner>>
    /\ jobs' = Enqueue(Job("release", {r}, "task"))
    /\ UNCHANGED <<client, active, schedVars, loopVars, slots>>

-----------------------------------------------------------------------------
(* The plan loop.                                                          *)

\* The loop plans when it is not executing and _states is not empty.
MayPlan == pc \in {"idle", "plan"} /\ ops = {} /\ owner # NoStates

\* Otherwise it waits for _new_request_event.
LoopWaits ==
    /\ pc = "plan"
    /\ ops = {}
    /\ owner = NoStates
    /\ pc' = "idle"
    /\ UNCHANGED <<client, reply, owner, active, schedVars, caught, outcome,
                   jobs, slots, cleanup>>

\* A plan with operations: states_by_id is captured and the forward queues
\* for the lock.  With no state for any of them the loop goes on at once.
PlanForward(s, h) ==
    /\ MayPlan
    /\ s # {}
    /\ Sched!Plan(s, h)
    /\ caught' = [r \in Rids |-> IF r \in s THEN owner[r] ELSE None]
    /\ IF \E r \in s : owner[r] # None
       THEN /\ pc' = "forward"
            /\ jobs' = Enqueue(Job("forward", s, "loop"))
       ELSE pc' = "plan" /\ UNCHANGED jobs
    /\ UNCHANGED <<client, reply, owner, active, outcome, slots, cleanup>>

\* The operation nobody has a state for is dropped without any event.
DropOperation ==
    /\ pc = "plan"
    /\ ops # {}
    /\ Sched!Results(ops, {})
    /\ UNCHANGED <<client, reply, owner, active, loopVars, jobs, slots, cleanup>>

\* A plan without operations: the loop waits a millisecond and asks again.
PlanEmpty ==
    /\ MayPlan
    /\ \E h \in SUBSET Rids :
        Sched!Plan({}, h) \/ \E r \in h : Sched!Retract(r, h) \/ Sched!Drop(r, h)
    /\ pc' = "idle"
    /\ UNCHANGED <<client, reply, owner, active, caught, outcome, jobs, slots,
                   cleanup>>

-----------------------------------------------------------------------------
(* The worker thread, for the call at the head of the lock's queue.        *)

ForwardTurn == pc = "forward" /\ jobs # <<>> /\ Head(jobs).kind = "forward"
Wanted == slots \cup ops

\* _paged_slot finds a slot for every row.
SlotsFit == Cardinality(Wanted) <= MaxNumSeqs

\* Every row has its slot and the runner returns.  A finished row gives up
\* its slot; a row whose state is seen to be answered is passed over, but the
\* answer may also come after the thread has looked.
ForwardReturns(done) ==
    /\ ForwardTurn
    /\ SlotsFit
    /\ done \subseteq Caught
    /\ slots' = Wanted \ done
    /\ outcome' = [ok |-> TRUE, done |-> done]
    /\ pc' = "apply"
    /\ UNCHANGED <<client, reply, owner, active, schedVars, caught, jobs, cleanup>>

\* The call raises before it takes a slot, or in the model: then it gives
\* back the slots of its rows.
ForwardRaises ==
    /\ ForwardTurn
    /\ \/ slots' = slots
       \/ SlotsFit /\ slots' = slots \ ops
    /\ outcome' = [ok |-> FALSE, done |-> {}]
    /\ pc' = "apply"
    /\ UNCHANGED <<client, reply, owner, active, schedVars, caught, jobs, cleanup>>

\* _paged_slot finds no slot for a row; the rows before it keep theirs.
ForwardNoSlot ==
    /\ ForwardTurn
    /\ ~SlotsFit
    /\ \E t \in SUBSET Wanted :
        /\ slots \subseteq t
        /\ Cardinality(t) = MaxNumSeqs
        /\ slots' = t
    /\ outcome' = [ok |-> FALSE, done |-> {}]
    /\ pc' = "apply"
    /\ UNCHANGED <<client, reply, owner, active, schedVars, caught, jobs, cleanup>>

\* release_paged_requests; the loop goes on when the release was its own.
Release ==
    /\ jobs # <<>>
    /\ Head(jobs).kind = "release"
    /\ slots' = slots \ Head(jobs).rids
    /\ jobs' = Tail(jobs)
    /\ pc' = IF Head(jobs).by = "loop" THEN "idle" ELSE pc
    /\ UNCHANGED <<client, reply, owner, active, schedVars, caught, outcome,
                   cleanup>>

-----------------------------------------------------------------------------
(* The loop again, with the lock returned.                                 *)

\* The ids leave _states and _active, the outputs go to their queues, and
\* the loop waits for the release of the ids unless there is none.
Settle(ids, who, output) ==
    /\ reply' = [c \in Clients |->
                   IF \E r \in ids : who[r] = c THEN output ELSE reply[c]]
    /\ owner' = [r \in Rids |-> IF r \in ids THEN None ELSE owner[r]]
    /\ active' = active \ ids
    /\ caught' = NoStates
    /\ outcome' = Idle
    /\ IF ids = {}
       THEN pc' = "plan" /\ jobs' = Tail(jobs)
       ELSE /\ pc' = "release"
            /\ jobs' = Append(Tail(jobs), Job("release", ids, "loop"))
    /\ UNCHANGED <<client, slots, cleanup>>

\* finished_ids: results whose id still has an unfinished state filed
FinishedIds ==
    {r \in outcome.done : owner[r] # None /\ reply[owner[r]] = "none"}

\* advance_forward sends one Finish event for each of them.
FinishEvents == FinishedIds \cap Sched!Live

ApplyResults ==
    /\ pc = "apply"
    /\ outcome.ok
    /\ Sched!Results(ops, FinishEvents)
    /\ Settle(FinishedIds, owner, "result")

\* Mutant: a state that is finished already fails again.
FailedIdsAll == Caught

\* _fail_states works on the captured states, finished ones excepted.
FailedIds == {r \in Caught : reply[caught[r]] = "none"}

\* Mutant: the failed requests stay in the scheduler.
AbortedIdsNone == {}

\* Of the failed ids, scheduler.abort passes on the active ones.
AbortedIds == FailedIds \cap active \cap Sched!Live

FailStates ==
    /\ pc = "apply"
    /\ ~outcome.ok
    /\ Sched!Results(ops, AbortedIds)
    /\ Settle(FailedIds, caught, "error")

-----------------------------------------------------------------------------
Serve ==
    \/ \E h \in SUBSET Rids : \E s \in SUBSET h : PlanForward(s, h)
    \/ PlanEmpty
    \/ LoopWaits
    \/ DropOperation
    \/ ApplyResults
    \/ FailStates

Work ==
    \/ \E done \in SUBSET Rids : ForwardReturns(done)
    \/ ForwardRaises
    \/ ForwardNoSlot
    \/ Release

Next ==
    \/ Serve
    \/ Work
    \/ \E c \in Clients : Submit(c) \/ Receive(c) \/ Disconnect(c) \/ AbortTask(c)

Spec == Init /\ [][Next]_vars

PlansFor(r) ==
    \E h \in SUBSET Rids : \E s \in SUBSET h : r \in s /\ PlanForward(s, h)
Completes(r) == \E done \in SUBSET Rids : r \in done /\ ForwardReturns(done)

\* The loop, the worker and the tasks are always run again; the scheduler
\* passes over nobody for ever (EveryRequestEnds) and max_new_tokens bounds
\* the blocks of a request.
Fairness ==
    /\ WF_vars(Serve)
    /\ WF_vars(Work)
    /\ \A c \in Clients : WF_vars(AbortTask(c)) /\ WF_vars(Receive(c))
    /\ \A r \in Rids : SF_vars(PlansFor(r)) /\ SF_vars(Completes(r))

FairSpec == Spec /\ Fairness

-----------------------------------------------------------------------------
(* Properties.                                                             *)

\* Types of the engine's state; the runner's slots are distinct numbers
\* below max_num_seqs.
TypeOK ==
    /\ client \in [Clients -> {"new", "waiting", "served", "left"}]
    /\ reply \in [Clients -> {"none", "result", "error", "abort"}]
    /\ owner \in [Rids -> Clients \cup {None}]
    /\ active \in SUBSET Rids
    /\ known \in [Rids -> {"absent", "live", "finished"}]
    /\ held \in SUBSET Rids
    /\ ops \in SUBSET Rids
    /\ pc \in LoopPc
    /\ caught \in [Rids -> Clients \cup {None}]
    /\ outcome \in [ok : BOOLEAN, done : SUBSET Rids]
    /\ jobs \in Seq([kind : {"forward", "release"}, rids : SUBSET Rids,
                     by : {"loop", "task"}])
    /\ slots \in SUBSET Rids /\ Cardinality(slots) <= MaxNumSeqs
    /\ cleanup \in SUBSET Clients

\* Somebody will still give back the runner slot of r.
ReleaseComing(r) ==
    \/ r \in ops
    \/ \E i \in DOMAIN jobs : jobs[i].kind = "release" /\ r \in jobs[i].rids
    \/ \E c \in cleanup : RidOf[c] = r

\* A runner slot belongs to a request the scheduler still runs, or its
\* release is on the way: "losing that release strands the request's runner
\* slot for the life of the server" (test_engine_release_race.py:62).
NoStrandedSlot ==
    \A r \in slots : known[r] = "live" \/ ReleaseComing(r)

\* Does not hold (scheduler.cpp:160 ignores an id it still holds): an id the
\* adapter took is one the scheduler runs, also when the id was aborted or finished before: test_scheduler_defaults.py:32-36 submits such
\* ids again and asserts that they are scheduled.
ActiveScheduled == \A r \in active : known[r] = "live"

\* Each client gets one final output: a result, an error or an abort that
\* is in its queue is never followed by another.
OneFinalOutput ==
    [][\A c \in Clients : reply[c] # "none" => reply'[c] = reply[c]]_vars

\* Two clients have sent the same id.
IdReused ==
    \E c, d \in Clients :
        c # d /\ RidOf[c] = RidOf[d] /\ "new" \notin {client[c], client[d]}

\* Every client that stays is answered and every runner slot is given back,
\* whoever disconnects and whatever fails, as long as no id is sent twice.
\* (After that an operation nobody has a state for may be planned and dropped
\* for ever, in the place of others.)
Answered ==
    /\ \A c \in Clients :
          (client[c] = "waiting" ~> client[c] # "waiting") \/ <>IdReused
    /\ \A r \in Rids : (r \in slots ~> r \notin slots) \/ <>IdReused

\* Does not hold (abort frees the scheduler's slot before the runner's): the
\* runner raises "paged scheduled more concurrent requests than
\* max_num_seqs" (flashinfer.py:110) only if the scheduler did: the rows of
\* an operation always find a slot.
SlotsSuffice == ForwardTurn => SlotsFit
=============================================================================
