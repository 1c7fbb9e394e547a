------------------------------ MODULE Cluster ------------------------------
(***************************************************************************)
(* A tensor-parallel FluxServe server: rank 0 runs the engine and sends    *)
(* every executor call to the other ranks (distributed_executor.py), all   *)
(* ranks run the paged runner with a slot table of their own, and the      *)
(* parent process supervises them (distributed/launch.py).                 *)
(*                                                                         *)
(* The engine's own interleavings are AsyncEngine's subject; here its      *)
(* clients appear as submissions, aborts and the queue of the executor     *)
(* lock.  A forward is one rendezvous of all ranks: the collectives inside *)
(* it only meet when all ranks run the same rows.                          *)
(***************************************************************************)
EXTENDS Naturals, Sequences, FiniteSets

CONSTANTS NumRanks, Rids, NumSlots, MaxOps, Faults

ASSUME ClusterAssumption ==
    /\ NumRanks \in Nat \ {0, 1} /\ NumSlots \in Nat \ {0}
    /\ MaxOps \in Nat /\ Rids \subseteq Nat
    /\ Faults \subseteq {"all", "one"}

VARIABLES
    paged,      \* the scheduler makes execution plans, not FIFO batches
    status,     \* request -> its place in the engine and the scheduler
    finished,   \* requests whose RequestState.finished is set on rank 0
    queue,      \* calls holding or awaiting the executor lock, holder first
    loop,       \* the plan loop: "idle" or "busy" awaiting its call
    ops,        \* calls made so far, bounded by MaxOps
    pc,         \* rank -> what it does
    rows,       \* rank -> the rows its forward runs
    slots,      \* rank -> _paged_request_slots, 0 for none
    done,       \* rank -> commands completed
    chan,       \* worker -> commands broadcast and not yet completed
    sup,        \* what the supervisor does, see Supervisor
    signalled,  \* shutdown_requested_at is set
    draining    \* rank 0's uvicorn was told to stop

engineVars == <<paged, status, finished, queue, loop, ops>>
rankVars == <<pc, rows, slots, done, chan>>
supVars == <<sup, signalled, draining>>
vars == <<engineVars, rankVars, supVars>>

Ranks == 0 .. NumRanks - 1
Workers == Ranks \ {0}
Over == {"exited", "failed"}
Alive(r) == pc[r] \notin Over

StartupCommand == [kind |-> "startup", pre |-> {}, dec |-> {}, loop |-> FALSE]
ShutdownCommand == [StartupCommand EXCEPT !.kind = "shutdown"]
GenerateCommand(batch) == [kind |-> "generate", pre |-> batch, dec |-> {}, loop |-> TRUE]
PlanCommand(pre, dec) == [kind |-> "plan", pre |-> pre, dec |-> dec, loop |-> TRUE]
ReleaseCommand(ids, l) == [kind |-> "release", pre |-> ids, dec |-> {}, loop |-> l]
OpRows(c) == c.pre \cup c.dec
Launches == {"plan", "generate"}

Init ==
    /\ paged \in BOOLEAN
    /\ status = [r \in Rids |-> "queued"] /\ finished = {}
    /\ queue = <<StartupCommand>> /\ loop = "idle" /\ ops = 0
    /\ pc = [r \in Ranks |-> "idle"]
    /\ rows = [r \in Ranks |-> {}]
    /\ slots = [r \in Ranks |-> [q \in Rids |-> 0]]
    /\ done = [r \in Ranks |-> 0] /\ chan = [w \in Workers |-> <<>>]
    /\ sup = "join" /\ signalled = FALSE /\ draining = FALSE

-----------------------------------------------------------------------------
(* Rank 0's event loop. *)

Admitted == {r \in Rids : status[r] \in {"prefill", "decoding"}}

LoopFree == Alive(0) /\ ~draining /\ loop = "idle" /\ ops < MaxOps

(* The scheduler plans the prefill of requests it has slots for, or blocks *)
(* of admitted ones (no mixing); the plan loop captures the states of the  *)
(* rows and queues for the executor lock.                                  *)
Plan(sub) ==
    /\ paged /\ LoopFree /\ sub # {}
    /\ \/ /\ \A r \in sub : status[r] = "queued"
          /\ Cardinality(Admitted \cup sub) <= NumSlots
          /\ status' = [r \in Rids |-> IF r \in sub THEN "prefill" ELSE status[r]]
          /\ queue' = Append(queue, PlanCommand(sub, {}))
       \/ /\ \A r \in sub : status[r] = "decoding"
          /\ queue' = Append(queue, PlanCommand({}, sub))
          /\ UNCHANGED status
    /\ loop' = "busy" /\ ops' = ops + 1
    /\ UNCHANGED <<paged, finished, rankVars, supVars>>

(* _run_fifo_loop: a batch of queued requests goes through the whole       *)
(* generation in one call of execute_batch.                                *)
Generate(batch) ==
    /\ ~paged /\ LoopFree /\ batch # {}
    /\ \A r \in batch : status[r] = "queued"
    /\ status' = [r \in Rids |-> IF r \in batch THEN "decoding" ELSE status[r]]
    /\ queue' = Append(queue, GenerateCommand(batch))
    /\ loop' = "busy" /\ ops' = ops + 1
    /\ UNCHANGED <<paged, finished, rankVars, supVars>>

(* A client disconnects, perhaps while its plan waits for the lock or      *)
(* runs.  The scheduler forgets the request at once; a task of its own     *)
(* finishes and pops the state and queues for the lock to release it.      *)
Abort(r) ==
    /\ Alive(0) /\ r \in Admitted
    /\ status' = [status EXCEPT ![r] = "aborting"]
    /\ UNCHANGED <<paged, finished, queue, loop, ops, rankVars, supVars>>

AbortTask(r) ==
    /\ Alive(0) /\ status[r] = "aborting"
    /\ status' = [status EXCEPT ![r] = "gone"]
    /\ finished' = finished \cup {r}
    /\ queue' = Append(queue, ReleaseCommand({r}, FALSE))
    /\ UNCHANGED <<paged, loop, ops, rankVars, supVars>>

(* The thread of the lock's holder broadcasts the call, then runs it. *)
Broadcast ==
    /\ pc[0] = "idle" /\ queue # <<>>
    /\ ~(draining /\ Head(queue).kind \in Launches)
    /\ chan' = [w \in Workers |-> Append(chan[w], Head(queue))]
    /\ pc' = [pc EXCEPT ![0] = "run"]
    /\ UNCHANGED <<engineVars, rows, slots, done, supVars>>

(* run_worker_loop takes the next command when it has completed the last. *)
Command(r) == IF r = 0 THEN Head(queue) ELSE Head(chan[r])
Runs(r, kind) ==
    /\ IF r = 0 THEN pc[0] = "run" ELSE pc[r] = "idle" /\ chan[r] # <<>>
    /\ Command(r).kind = kind
RunsLaunch(r) == \E kind \in Launches : Runs(r, kind)

-----------------------------------------------------------------------------
(* What a rank does with a command. *)

FreeSlots(t) == (1 .. NumSlots) \ {t[q] : q \in Rids}

(* _paged_slot for the rows of the operation in the plan's order: each new *)
(* request takes the lowest free slot.  A generation has a cache of its    *)
(* own and takes none.                                                     *)
NewRows(t, c) == {q \in OpRows(c) : c.kind = "plan" /\ t[q] = 0}
NthFree(t, n) == CHOOSE s \in FreeSlots(t) : Cardinality({f \in FreeSlots(t) : f < s}) = n
RankAmong(S, q) == Cardinality({p \in S : p < q})
TakeSlots(t, c) ==
    [q \in Rids |->
        IF q \in NewRows(t, c) /\ RankAmong(NewRows(t, c), q) < Cardinality(FreeSlots(t))
        THEN NthFree(t, RankAmong(NewRows(t, c), q)) ELSE t[q]]
Fits(t, c) == Cardinality(NewRows(t, c)) <= Cardinality(FreeSlots(t))

Without(t, ids) == [q \in Rids |-> IF q \in ids THEN 0 ELSE t[q]]

\* mutant: rank 0 looks at the scheduler instead of at the state
ActiveRowsAdmitted(r, c) == c.pre \cup (IF r = 0 THEN c.dec \cap Admitted ELSE c.dec)

(* active_rows: rank 0 leaves out the rows of a decode whose state is      *)
(* finished; the payload a worker decodes carries no such flag.  A prefill *)
(* and execute_batch run every row they are given.                         *)
ActiveRows(r, c) == c.pre \cup (IF r = 0 THEN c.dec \ finished ELSE c.dec)

\* mutant: the loop waits for a release that a failed plan never queues
CallOverAfterRelease(ids) ==
    /\ queue' = Tail(queue)
    /\ loop' = IF Head(queue).loop /\ Head(queue).kind = "release" THEN "idle" ELSE loop

(* The engine's side of a call that ended: the next waiter has the lock,   *)
(* the plan loop goes on after its own release; the FIFO loop releases     *)
(* nothing.                                                                *)
CallOver(ids) ==
    /\ queue' = IF Head(queue).kind = "plan" /\ ids # {}
                THEN Append(Tail(queue), ReleaseCommand(ids, TRUE)) ELSE Tail(queue)
    /\ loop' = IF Head(queue).loop /\ ~(Head(queue).kind = "plan" /\ ids # {}) THEN "idle" ELSE loop

Completed(R) == chan' = [w \in Workers |-> IF w \in R THEN Tail(chan[w]) ELSE chan[w]]

Return(r) ==
    /\ pc' = [pc EXCEPT ![r] = "idle"] /\ done' = [done EXCEPT ![r] = @ + 1]
    /\ Completed({r})

RunStartup(r) ==
    /\ Runs(r, "startup")
    /\ Return(r)
    /\ IF r = 0 THEN CallOver({}) ELSE UNCHANGED <<queue, loop>>
    /\ UNCHANGED <<paged, status, finished, ops, rows, slots, supVars>>

\* mutant: only rank 0 releases
RunReleaseRankZero(r) ==
    /\ Runs(r, "release")
    /\ slots' = [slots EXCEPT ![0] = IF r = 0 THEN Without(@, Command(r).pre) ELSE @]
    /\ Return(r)
    /\ IF r = 0 THEN CallOver({}) ELSE UNCHANGED <<queue, loop>>
    /\ UNCHANGED <<paged, status, finished, ops, rows, supVars>>

RunRelease(r) ==
    /\ Runs(r, "release")
    /\ slots' = [slots EXCEPT ![r] = Without(@, Command(r).pre)]
    /\ Return(r)
    /\ IF r = 0 THEN CallOver({}) ELSE UNCHANGED <<queue, loop>>
    /\ UNCHANGED <<paged, status, finished, ops, rows, supVars>>

RunShutdown(w) ==
    /\ w # 0 /\ Runs(w, "shutdown")
    /\ pc' = [pc EXCEPT ![w] = "exited"]
    /\ UNCHANGED <<engineVars, rows, slots, done, chan, supVars>>

(* execute_paged_forward_plan, or execute_batch, up to the first           *)
(* collective.  A rank with no active row returns without a forward.       *)
EnterForward(r) ==
    /\ RunsLaunch(r) /\ Fits(slots[r], Command(r))
    /\ slots' = [slots EXCEPT ![r] = TakeSlots(@, Command(r))]
    /\ rows' = [rows EXCEPT ![r] = ActiveRows(r, Command(r))]
    /\ IF ActiveRows(r, Command(r)) # {}
       THEN pc' = [pc EXCEPT ![r] = "forward"] /\ UNCHANGED <<done, chan, queue, loop>>
       ELSE Return(r) /\ IF r = 0 THEN CallOver({}) ELSE UNCHANGED <<queue, loop>>
    /\ UNCHANGED <<paged, status, finished, ops, supVars>>

(* An exception: rank 0 fails the states of the operation, a worker's      *)
(* leaves run_worker_loop and ends its process.                            *)
Raised(R) ==
    /\ pc' = [r \in Ranks |-> IF r \notin R THEN pc[r] ELSE IF r = 0 THEN "idle" ELSE "failed"]
    /\ done' = [r \in Ranks |-> IF r \in R THEN done[r] + 1 ELSE done[r]]
    /\ Completed(R)
    /\ IF 0 \in R
       THEN /\ status' = [q \in Rids |-> IF q \in OpRows(Command(0)) /\ status[q] # "aborting" THEN "gone" ELSE status[q]]
            /\ finished' = finished \cup OpRows(Command(0))
            /\ CallOver(OpRows(Command(0)) \ finished)
       ELSE UNCHANGED <<status, finished, queue, loop>>

(* _paged_slot raises before the try: the slots taken so far stay. *)
SlotLimit(r) ==
    /\ Runs(r, "plan") /\ ~Fits(slots[r], Command(r))
    /\ slots' = [slots EXCEPT ![r] = TakeSlots(@, Command(r))]
    /\ Raised({r})
    /\ UNCHANGED <<paged, ops, rows, supVars>>

Meeting == \A r \in Ranks : pc[r] = "forward" /\ rows[r] = rows[0] /\ done[r] = done[0]

(* All ranks run the rows through the model together and end them alike, a *)
(* generation all of them; rank 0 applies the results to the requests that *)
(* are still there.                                                        *)
Forward(fin) ==
    /\ Meeting /\ fin \subseteq rows[0]
    /\ IF paged THEN fin \subseteq Command(0).dec ELSE fin = rows[0]
    /\ slots' = [r \in Ranks |-> Without(slots[r], fin)]
    /\ pc' = [r \in Ranks |-> "idle"] /\ done' = [r \in Ranks |-> done[r] + 1]
    /\ Completed(Ranks)
    /\ status' = [q \in Rids |-> IF q \in fin /\ status[q] # "aborting" THEN "gone"
                    ELSE IF q \in rows[0] /\ status[q] = "prefill" THEN "decoding" ELSE status[q]]
    /\ finished' = finished \cup fin
    /\ CallOver(fin \ finished)
    /\ UNCHANGED <<paged, ops, rows, supVars>>

(* The forward raises on every rank (a block that does not finish) or on   *)
(* one (its device fails); the slots of the operation are released there.  *)
ForwardRaises(R) ==
    /\ Meeting
    /\ ("all" \in Faults /\ R = Ranks) \/ ("one" \in Faults /\ Cardinality(R) = 1)
    /\ slots' = [r \in Ranks |-> IF r \in R THEN Without(slots[r], OpRows(Command(r))) ELSE slots[r]]
    /\ Raised(R)
    /\ UNCHANGED <<paged, ops, rows, supVars>>

(* A rank in a collective its peers will not enter. *)
Stuck(r) ==
    /\ pc[r] = "forward"
    /\ \E p \in Ranks : ~Alive(p) \/ done[p] > done[r] \/ (pc[p] = "forward" /\ rows[p] # rows[r])

(* NCCL's watchdog ends the process of a rank whose collective times out.  *)
Watchdog(r) ==
    /\ Stuck(r)
    /\ pc' = [pc EXCEPT ![r] = "failed"]
    /\ UNCHANGED <<engineVars, rows, slots, done, chan, supVars>>

-----------------------------------------------------------------------------
(* Shutdown. *)

(* uvicorn's run returned: the worker thread is idle, the workers are told *)
(* to stop and the process ends.                                           *)
ShutdownWorkers ==
    /\ draining /\ pc[0] = "idle"
    /\ chan' = [w \in Workers |-> Append(chan[w], ShutdownCommand)]
    /\ pc' = [pc EXCEPT ![0] = "exited"]
    /\ UNCHANGED <<engineVars, rows, slots, done, supVars>>

(* request_shutdown: SIGTERM is passed on to rank 0, SIGINT reaches it by  *)
(* itself and the other ranks ignore it.                                   *)
Signal ==
    /\ sup # "done" /\ ~signalled
    /\ signalled' = TRUE /\ draining' = (draining \/ Alive(0))
    /\ UNCHANGED <<engineVars, rankVars, sup>>

(* join returns when every process ended well and raises as soon as one    *)
(* failed.                                                                 *)
JoinReturns ==
    /\ sup = "join" /\ \A r \in Ranks : pc[r] = "exited"
    /\ sup' = "stopping" /\ UNCHANGED <<engineVars, rankVars, signalled, draining>>

JoinRaises ==
    /\ sup = "join" /\ \E r \in Ranks : pc[r] = "failed"
    /\ sup' = "stopping" /\ UNCHANGED <<engineVars, rankVars, signalled, draining>>

(* The grace period is over or a second signal came. *)
GraceOver ==
    /\ sup = "join" /\ signalled
    /\ sup' = "stopping" /\ UNCHANGED <<engineVars, rankVars, signalled, draining>>

(* _stop_remaining_processes: every process that is left gets a SIGTERM,   *)
(* on which rank 0's uvicorn drains and a worker ends, if it gets to it    *)
(* within the five seconds; then those still alive are killed one by one.  *)
Terminate ==
    /\ sup = "stopping"
    /\ sup' = "terminated" /\ draining' = (draining \/ Alive(0))
    /\ UNCHANGED <<engineVars, rankVars, signalled>>

TermEnds(w) ==
    /\ w # 0 /\ Alive(w) /\ sup \in {"terminated", "killing"}
    /\ pc' = [pc EXCEPT ![w] = "exited"]
    /\ UNCHANGED <<engineVars, rows, slots, done, chan, supVars>>

\* mutant: the processes that outlive the wait are not killed
WaitOverNoKill ==
    /\ sup = "terminated"
    /\ sup' = "done" /\ UNCHANGED <<engineVars, rankVars, signalled, draining>>

(* The joins returned or timed out, or a second signal cut them short. *)
WaitOver ==
    /\ sup = "terminated"
    /\ sup' = "killing" /\ UNCHANGED <<engineVars, rankVars, signalled, draining>>

KillRemaining(r) ==
    /\ sup = "killing" /\ Alive(r) /\ \A p \in Ranks : p < r => ~Alive(p)
    /\ pc' = [pc EXCEPT ![r] = "exited"]
    /\ UNCHANGED <<engineVars, rows, slots, done, chan, supVars>>

NoneRemains ==
    /\ sup = "killing" /\ \A r \in Ranks : ~Alive(r)
    /\ sup' = "done" /\ UNCHANGED <<engineVars, rankVars, signalled, draining>>

Finished == sup = "done" /\ UNCHANGED vars

Engine == \/ \E r \in Rids : Abort(r) \/ AbortTask(r)
          \/ \E sub \in SUBSET Rids : Plan(sub) \/ Generate(sub)
          \/ Broadcast \/ ShutdownWorkers
Run(r) == RunStartup(r) \/ RunRelease(r) \/ RunShutdown(r) \/ EnterForward(r) \/ SlotLimit(r)
Together == (\E fin \in SUBSET Rids : Forward(fin)) \/ (\E R \in SUBSET Ranks : ForwardRaises(R))
Supervisor == \/ JoinReturns \/ JoinRaises \/ GraceOver \/ Terminate \/ WaitOver
              \/ (\E r \in Ranks : KillRemaining(r)) \/ NoneRemains

Next == Engine \/ (\E r \in Ranks : Run(r) \/ Watchdog(r) \/ TermEnds(r)) \/ Together
        \/ Signal \/ Supervisor \/ Finished

(* The ranks' threads run on, a collective everybody entered ends, a       *)
(* timeout expires, and the supervisor polls.  Nothing obliges uvicorn to  *)
(* return, clients to come or signals to be sent.                          *)
Fairness ==
    /\ WF_vars(Broadcast) /\ WF_vars(Together) /\ WF_vars(Supervisor)
    /\ \A r \in Ranks : WF_vars(Run(r)) /\ WF_vars(Watchdog(r))

Spec == Init /\ [][Next]_vars /\ Fairness

-----------------------------------------------------------------------------
(* Properties. *)

Commands == [kind : {"startup", "release", "shutdown"} \cup Launches,
            pre : SUBSET Rids, dec : SUBSET Rids, loop : BOOLEAN]

(* Types; the lock's queue is never longer than its users, and a slot      *)
(* number is one of the runner's (_paged_slot).                            *)
TypeOK ==
    /\ status \in [Rids -> {"queued", "prefill", "decoding", "aborting", "gone"}]
    /\ finished \subseteq Rids /\ loop \in {"idle", "busy"} /\ ops \in 0 .. MaxOps
    /\ Len(queue) <= 2 + Cardinality(Rids) /\ \A i \in DOMAIN queue : queue[i] \in Commands
    /\ pc \in [Ranks -> {"idle", "run", "forward"} \cup Over]
    /\ rows \in [Ranks -> SUBSET Rids]
    /\ slots \in [Ranks -> [Rids -> 0 .. NumSlots]]
    /\ \A w \in Workers : \A i \in DOMAIN chan[w] : chan[w][i] \in Commands
    /\ paged \in BOOLEAN /\ sup \in {"join", "stopping", "terminated", "killing", "done"}
    /\ signalled \in BOOLEAN /\ draining \in BOOLEAN

(* Ranks that are in the forward of the same command run the same rows, so *)
(* that their collectives match (active_rows of _execute_paged_decode,     *)
(* _state_to_payload).                                                     *)
RanksAgree ==
    \A a, b \in Ranks : pc[a] = "forward" /\ pc[b] = "forward" /\ done[a] = done[b]
                        => rows[a] = rows[b]

(* Rows only differ by requests that were aborted: nothing else, not a     *)
(* failure, a release or a finish, makes the ranks disagree about the rows *)
(* of a command (_make_forward_plan_command, _make_generate_command).      *)
RowsDifferByAborts ==
    \A a, b \in Ranks : pc[a] = "forward" /\ pc[b] = "forward" /\ done[a] = done[b]
                        => rows[a] \ rows[b] \subseteq finished

(* Ranks that completed the same commands hold the same slot table, in     *)
(* which no two requests share a slot: no failure, release or finish is    *)
(* seen by one rank only (_paged_slot, release_requests).                  *)
SlotsAgree ==
    /\ \A a, b \in Ranks : pc[a] = "idle" /\ pc[b] = "idle" /\ done[a] = done[b]
                           => slots[a] = slots[b]
    /\ \A r \in Ranks : \A p, q \in Rids :
          p # q /\ slots[r][p] # 0 => slots[r][p] # slots[r][q]

(* A plan or a batch does not hang: the loop gets an answer or the server  *)
(* stops, also when a forward fails on one rank and leaves the others in a *)
(* collective.                                                             *)
PlanEnds == loop = "busy" ~> loop = "idle" \/ sup = "done"

(* A rank that fails, or a signal, takes the whole server down, and no     *)
(* rank is left alive, whatever it is blocked in (_supervise_processes,    *)
(* _stop_remaining_processes).                                             *)
AllStop ==
    (signalled \/ \E r \in Ranks : pc[r] = "failed")
        ~> sup = "done" /\ \A r \in Ranks : ~Alive(r)

=============================================================================
