-------------------------- MODULE SchedulerContract --------------------------
(***************************************************************************)
(* What the C++ scheduler promises the engine above it, and nothing about  *)
(* how: who is known to it, who holds one of its slots, and which          *)
(* operations it has handed out and not got back.  FluxScheduler           *)
(* implements it (FluxRefinement); AsyncEngine is built on it.             *)
(***************************************************************************)
EXTENDS Integers, FiniteSets

CONSTANTS
    Requests,      \* request ids
    MaxBatchSize,  \* size of the slot pool, and of a plan
    MayRetract     \* FALSE: there are pages for every slot

VARIABLES
    known,  \* keys of requests_ and whether each is terminal
    held,   \* requests that hold a slot
    ops     \* requests of the plan that is being executed

vars == <<known, held, ops>>

Live == {r \in Requests : known[r] = "live"}

Init ==
    /\ known = [r \in Requests |-> "absent"]
    /\ held = {}
    /\ ops = {}

\* An id that is still a key is not submitted again.
Submit(r) ==
    /\ known[r] = "absent"
    /\ known' = [known EXCEPT ![r] = "live"]
    /\ UNCHANGED <<held, ops>>

\* At any time between calls, the request's operation in flight or not.
Abort(r) ==
    /\ r \in Live
    /\ known' = [known EXCEPT ![r] = "finished"]
    /\ held' = held \ {r}
    /\ UNCHANGED ops

\* Every plan first forgets the requests that ended.
Erased == [r \in Requests |->
              IF known[r] = "finished" THEN "absent" ELSE known[r]]

\* ... before it looks at anybody else.
Forget ==
    /\ ops = {}
    /\ known' = Erased
    /\ UNCHANGED <<held, ops>>

\* Holders after a plan: nobody loses a slot and the pool suffices.
Admitted(h) ==
    /\ held \subseteq h
    /\ h \subseteq Live
    /\ Cardinality(h) <= MaxBatchSize

\* Operations s go to requests that hold a slot, one plan at a time, and a
\* plan is empty only when nobody is there or memory is short.
Plan(s, h) ==
    /\ ops = {}
    /\ Admitted(h)
    /\ s \subseteq h
    /\ s = {} => MayRetract \/ Live = {}
    /\ known' = Erased
    /\ held' = h
    /\ ops' = s

\* A plan without operations takes the slot of one request ...
Retract(r, h) ==
    /\ MayRetract
    /\ ops = {}
    /\ Admitted(h)
    /\ r \in h
    /\ known' = Erased
    /\ held' = h \ {r}
    /\ UNCHANGED ops

\* ... or ends it without a word to the engine.
Drop(r, h) ==
    /\ MayRetract
    /\ ops = {}
    /\ Admitted(h)
    /\ r \in h
    /\ known' = [Erased EXCEPT ![r] = "finished"]
    /\ held' = h \ {r}
    /\ UNCHANGED ops

\* Results of the operations of rs; those of `done' end their request.
Results(rs, done) ==
    /\ rs \subseteq ops
    /\ done \subseteq rs \cap Live
    /\ known' = [r \in Requests |->
                   IF r \in done THEN "finished" ELSE known[r]]
    /\ held' = held \ done
    /\ ops' = ops \ rs

Next ==
    \/ Forget
    \/ \E r \in Requests : Submit(r) \/ Abort(r)
    \/ \E h \in SUBSET Requests :
        \/ \E s \in SUBSET h : Plan(s, h)
        \/ \E r \in h : Retract(r, h) \/ Drop(r, h)
    \/ \E rs \in SUBSET ops : \E done \in SUBSET rs : Results(rs, done)

Spec == Init /\ [][Next]_vars
=============================================================================
