----------------------------- MODULE HttpServer -----------------------------
(***************************************************************************)
(* The HTTP server (entrypoints/http_server.py) over the engine            *)
(* (async_llm.py): streaming requests, some with an x-idempotency-key      *)
(* whose events are kept in the replay registry and handed to every        *)
(* connection with that key.  Under the default FIFO policy a request has  *)
(* one output; under the paged policy every forward operation may have a   *)
(* chunk of text for it before its final output.                           *)
(*                                                                         *)
(* A client stands for one connection.  An entry of the registry, like a   *)
(* request of the engine, is named by the client that created it.  The     *)
(* steps between two awaits of one task are one action.                    *)
(***************************************************************************)
EXTENDS Naturals, Sequences, SequencesExt, FiniteSets, Filters

CONSTANTS
    Clients, Setups, MaxBatch, MaxEntries, MaxEvents,
    Chunks  \* the texts of a request before its final output (paged)

None == 0

ASSUME ServerAssumption ==
    /\ Clients \subseteq Nat \ {None}
    /\ MaxBatch \in Nat \ {0} /\ MaxEntries \in Nat /\ MaxEvents \in Nat
    /\ \A s \in Setups : DOMAIN s.req = Clients /\ s.paged \in BOOLEAN
    /\ Chunks \in Seq(ToSet(Chunks))
    /\ ToSet(Chunks) \cap {"text", "error", "DONE", "eof"} = {}

VARIABLES
    req,      \* client -> its x-request-id, x-idempotency-key and body
    conn,     \* client -> its connection
    ent,      \* client -> the entry it reads, None if it reads none
    got,      \* client -> the events it was sent
    subq,     \* client -> its subscriber queue
    reg,      \* the registry: entries in OrderedDict order
    events,   \* entry -> its events
    complete, \* entries that are finished
    subs,     \* entry -> its subscribers
    task,     \* client -> the coroutine iterating generate_request for it
    states,   \* rid -> the request in AsyncLLM._states, None if there is none
    ended,    \* requests whose RequestState.finished is set
    outq,     \* request -> its output queue
    paged,    \* whether the scheduler uses execution plans
    passes,   \* request -> the chunks it was given so far (paged)
    active,   \* the rids the scheduler knows, _active
    fifo,     \* DefaultSchedulerAdapter._queue
    batch,    \* the requests the executor runs
    aborts    \* rids whose _abort task has not run yet

httpVars == <<req, conn, ent, got, subq, reg, events, complete, subs>>
engineVars == <<states, ended, outq, paged, passes, active, fifo, batch, aborts>>
vars == <<httpVars, task, engineVars>>

Rids == UNION {{s.req[c].rid : c \in Clients} : s \in Setups}
Keyed == {c \in Clients : req[c].key \notin {"none", "absent"}}
InRegistry == {reg[i] : i \in DOMAIN reg}
EntryOf(k) == IF \E e \in InRegistry : req[e].key = k
              THEN CHOOSE e \in InRegistry : req[e].key = k ELSE None

Init ==
    /\ \E s \in Setups : req = s.req /\ paged = s.paged
    /\ conn = [c \in Clients |-> "new"] /\ ent = [c \in Clients |-> None]
    /\ got = [c \in Clients |-> <<>>] /\ subq = [c \in Clients |-> <<>>]
    /\ reg = <<>> /\ events = [c \in Clients |-> <<>>]
    /\ complete = {} /\ subs = [c \in Clients |-> {}]
    /\ task = [c \in Clients |-> "none"]
    /\ states = [r \in Rids |-> None] /\ ended = {} /\ outq = [c \in Clients |-> <<>>]
    /\ passes = [c \in Clients |-> 0]
    /\ active = {} /\ fifo = <<>> /\ batch = {} /\ aborts = {}

-----------------------------------------------------------------------------
(* RequestReplayRegistry. *)

NumEvents(es, ev) == Len(FlattenSeq([i \in DOMAIN es |-> ev[es[i]]]))

\* mutant: nothing is evicted
TrimNothing(es, ev, done) == es

(* _evict after the entries past their ttl are gone: the oldest entries go *)
(* while there are too many entries or bytes, up to the first unfinished.  *)
Trim(es, ev, done) ==
    LET Rest(n) == SubSeq(es, n + 1, Len(es))
        Over(n) == Len(Rest(n)) > MaxEntries \/ NumEvents(Rest(n), ev) > MaxEvents
        Stops(n) == n = Len(es) \/ ~Over(n) \/ es[n + 1] \notin done
    IN  Rest(CHOOSE n \in 0 .. Len(es) : Stops(n) /\ \A k \in 0 .. n - 1 : ~Stops(k))

Evict(es, ev, done, expired) == Trim(Without(es, done \cap expired), ev, done)

Moved(es, e) == Append(Without(es, {e}), e)

-----------------------------------------------------------------------------
(* The handlers. *)

(* stream_response.  Without a key the stream is the request's own; with   *)
(* one, a key in use for another payload is refused at once.               *)
Connect(c) ==
    /\ conn[c] = "new" /\ req[c].key # "absent"
    /\ IF c \notin Keyed
       THEN conn' = [conn EXCEPT ![c] = "direct"] /\ task' = [task EXCEPT ![c] = "start"]
       ELSE /\ conn' = [conn EXCEPT ![c] =
                 IF EntryOf(req[c].key) # None /\ req[EntryOf(req[c].key)].payload # req[c].payload
                 THEN "refused" ELSE "starting"]
            /\ UNCHANGED task
    /\ UNCHANGED <<req, ent, got, subq, reg, events, complete, subs, engineVars>>

(* replayable_stream begins: another stream may have taken the key since.  *)
(* The owner of a new entry starts the producer task.                      *)
Acquire(c, expired) ==
    /\ conn[c] = "starting"
    /\ LET es == Evict(reg, events, complete, expired)
           e == IF \E x \in ToSet(es) : req[x].key = req[c].key
                THEN CHOOSE x \in ToSet(es) : req[x].key = req[c].key ELSE None
       IN  \/ /\ e # None /\ req[e].payload # req[c].payload
              /\ got' = [got EXCEPT ![c] = <<"error">>]
              /\ conn' = [conn EXCEPT ![c] = "refused"]
              /\ reg' = es /\ UNCHANGED <<ent, task>>
           \/ /\ e # None /\ req[e].payload = req[c].payload
              /\ reg' = Moved(es, e) /\ ent' = [ent EXCEPT ![c] = e]
              /\ conn' = [conn EXCEPT ![c] = "reading"]
              /\ UNCHANGED <<got, task>>
           \/ /\ e = None
              /\ reg' = Append(es, c) /\ ent' = [ent EXCEPT ![c] = c]
              /\ conn' = [conn EXCEPT ![c] = "reading"]
              /\ task' = [task EXCEPT ![c] = "start"] /\ UNCHANGED got
    /\ UNCHANGED <<req, subq, events, complete, subs, engineVars>>

(* The loop over entry.events, which grows while events are sent. *)
ReadEvent(c) ==
    /\ conn[c] = "reading" /\ Len(got[c]) < Len(events[ent[c]])
    /\ got' = [got EXCEPT ![c] = Append(@, events[ent[c]][Len(@) + 1])]
    /\ UNCHANGED <<req, conn, ent, subq, reg, events, complete, subs, task, engineVars>>

\* mutant: a subscriber misses what was published before it
SubscribeAtStart(c) ==
    /\ conn[c] = "reading"
    /\ conn' = [conn EXCEPT ![c] = IF ent[c] \in complete THEN "done" ELSE "subscribed"]
    /\ subs' = [subs EXCEPT ![ent[c]] = IF ent[c] \in complete THEN @ ELSE @ \cup {c}]
    /\ UNCHANGED <<req, ent, got, subq, reg, events, complete, task, engineVars>>

(* At its end the stream returns if the entry is finished and subscribes   *)
(* otherwise, with no await between the last event and the subscription.   *)
Subscribe(c) ==
    /\ conn[c] = "reading" /\ Len(got[c]) = Len(events[ent[c]])
    /\ conn' = [conn EXCEPT ![c] = IF ent[c] \in complete THEN "done" ELSE "subscribed"]
    /\ subs' = [subs EXCEPT ![ent[c]] = IF ent[c] \in complete THEN @ ELSE @ \cup {c}]
    /\ UNCHANGED <<req, ent, got, subq, reg, events, complete, task, engineVars>>

SubscriberGets(c) ==
    /\ conn[c] = "subscribed" /\ subq[c] # <<>>
    /\ subq' = [subq EXCEPT ![c] = Tail(@)]
    /\ IF Head(subq[c]) = "eof"
       THEN /\ conn' = [conn EXCEPT ![c] = "done"]
            /\ subs' = [subs EXCEPT ![ent[c]] = @ \ {c}] /\ UNCHANGED got
       ELSE /\ got' = [got EXCEPT ![c] = Append(@, Head(subq[c]))]
            /\ UNCHANGED <<conn, subs>>
    /\ UNCHANGED <<req, ent, reg, events, complete, task, engineVars>>

-----------------------------------------------------------------------------
(* generate_request and stream_completion. *)

(* make_states accepts the request, or its stream is one error. *)
Submit(c) ==
    /\ task[c] = "start"
    /\ task' = [task EXCEPT ![c] = "wait"]
    /\ \/ /\ states' = [states EXCEPT ![req[c].rid] = c]
          /\ active' = active \cup {req[c].rid}
          /\ fifo' = IF paged \/ req[c].rid \in active THEN fifo ELSE Append(fifo, req[c].rid)
          /\ UNCHANGED outq
       \/ /\ outq' = [outq EXCEPT ![c] = Append(@, "error")]
          /\ UNCHANGED <<states, active, fifo>>
    /\ UNCHANGED <<httpVars, ended, paged, passes, batch, aborts>>

ToSubscribers(c, es) ==
    subq' = [s \in Clients |-> IF s \in subs[c] THEN subq[s] \o es ELSE subq[s]]

(* publish: the event is kept, and put in the queue of every subscriber. *)
Publish(c, event) ==
    /\ events' = [events EXCEPT ![c] = Append(@, event)]
    /\ ToSubscribers(c, <<event>>)
    /\ UNCHANGED <<complete, reg>>

\* mutant: the subscribers are not told the end
FinishNoEnd(c, es, expired) ==
    /\ events' = [events EXCEPT ![c] = @ \o es]
    /\ ToSubscribers(c, es)
    /\ complete' = complete \cup {c}
    /\ reg' = Evict(reg, events', complete', expired)

(* The last events of a stream and finish: nothing is awaited between the  *)
(* final output, the timing and [DONE] events and the end of the producer. *)
Finish(c, es, expired) ==
    /\ events' = [events EXCEPT ![c] = @ \o es]
    /\ ToSubscribers(c, es \o <<"eof">>)
    /\ complete' = complete \cup {c}
    /\ reg' = Evict(reg, events', complete', expired)

(* A chunk that is not the last: the producer of an entry publishes it, a  *)
(* stream without a key sends it, and both wait for the next.              *)
TakeChunk(c) ==
    /\ task[c] = "wait" /\ outq[c] # <<>> /\ Head(outq[c]) \in ToSet(Chunks)
    /\ outq' = [outq EXCEPT ![c] = Tail(@)]
    /\ IF c \in Keyed
       THEN Publish(c, Head(outq[c])) /\ UNCHANGED got
       ELSE /\ got' = [got EXCEPT ![c] = Append(@, Head(outq[c]))]
            /\ UNCHANGED <<events, subq, complete, reg>>
    /\ UNCHANGED <<req, conn, ent, subs, task,
                   states, ended, paged, passes, active, fifo, batch, aborts>>

(* The final output ends the stream, with the timing and [DONE] events,    *)
(* one event here.                                                         *)
TakeOutput(c, expired) ==
    /\ task[c] = "wait" /\ outq[c] # <<>> /\ Head(outq[c]) \notin ToSet(Chunks)
    /\ task' = [task EXCEPT ![c] = "over"]
    /\ outq' = [outq EXCEPT ![c] = Tail(@)]
    /\ LET es == <<Head(outq[c]), "DONE">>
       IN  IF c \in Keyed
           THEN Finish(c, es, expired) /\ UNCHANGED <<conn, got>>
           ELSE /\ got' = [got EXCEPT ![c] = @ \o es] /\ conn' = [conn EXCEPT ![c] = "done"]
                /\ UNCHANGED <<events, subq, complete, reg>>
    /\ UNCHANGED <<req, ent, subs, states, ended, paged, passes, active, fifo, batch, aborts>>

(* The client disconnects.  A reader of an entry only goes.  The task of a *)
(* stream of its own is cancelled: where it waits for an output,           *)
(* generate_request aborts; where it sends a chunk, the generator is just  *)
(* dropped and the request goes on unread.                                 *)
Disconnect(c) ==
    /\ conn[c] \in {"direct", "starting", "reading", "subscribed"}
    /\ conn' = [conn EXCEPT ![c] = "gone"]
    /\ subs' = [e \in Clients |-> subs[e] \ {c}]
    /\ subq' = [subq EXCEPT ![c] = <<>>] /\ got' = [got EXCEPT ![c] = <<>>]
    /\ ent' = [ent EXCEPT ![c] = None]
    /\ task' = IF c \in Keyed THEN task ELSE [task EXCEPT ![c] = "over"]
    /\ \/ /\ c \notin Keyed /\ task[c] = "wait"
          /\ active' = active \ {req[c].rid} /\ fifo' = Without(fifo, {req[c].rid})
          /\ aborts' = aborts \cup {req[c].rid}
       \/ /\ c \in Keyed \/ task[c] = "start" \/ got[c] # <<>>
          /\ UNCHANGED <<active, fifo, aborts>>
    /\ UNCHANGED <<req, reg, events, complete, states, ended, outq, paged, passes, batch>>

(* _abort: whatever request has the id now is ended. *)
AbortTask(r) ==
    /\ r \in aborts /\ aborts' = aborts \ {r}
    /\ IF states[r] # None /\ states[r] \notin ended
       THEN /\ ended' = ended \cup {states[r]}
            /\ outq' = [outq EXCEPT ![states[r]] = Append(@, "error")]
            /\ states' = [states EXCEPT ![r] = None]
       ELSE UNCHANGED <<ended, outq, states>>
    /\ UNCHANGED <<httpVars, task, paged, passes, active, fifo, batch>>

-----------------------------------------------------------------------------
(* The loop of the FIFO policy. *)

(* next_batch, and the states it has. *)
NextBatch ==
    /\ ~paged /\ batch = {} /\ fifo # <<>>
    /\ LET n == IF Len(fifo) < MaxBatch THEN Len(fifo) ELSE MaxBatch
       IN  /\ fifo' = SubSeq(fifo, n + 1, Len(fifo))
           /\ batch' = {states[fifo[i]] : i \in 1 .. n} \ {None}
    /\ UNCHANGED <<httpVars, task, states, ended, outq, paged, passes, active, aborts>>

(* finish or abort of the scheduler for the rids of the requests in R,     *)
(* which leave _states.                                                    *)
FinishAll(R) ==
    /\ active' = active \ {req[c].rid : c \in R}
    /\ fifo' = Without(fifo, {req[c].rid : c \in R})
    /\ states' = [r \in Rids |-> IF \E c \in R : req[c].rid = r THEN None ELSE states[r]]
    /\ ended' = ended \cup R

(* Results go to the requests that are still there and unfinished. *)
BatchReturns ==
    /\ ~paged /\ batch # {} /\ batch' = {}
    /\ LET R == {c \in batch : states[req[c].rid] = c /\ c \notin ended}
       IN  /\ outq' = [c \in Clients |-> IF c \in R THEN Append(outq[c], "text") ELSE outq[c]]
           /\ FinishAll(R)
    /\ UNCHANGED <<httpVars, task, paged, passes, aborts>>

(* The error path fails every request of the batch, whoever has its id. *)
BatchFails ==
    /\ ~paged /\ batch # {} /\ batch' = {}
    /\ outq' = [c \in Clients |-> IF c \in batch THEN Append(outq[c], "error") ELSE outq[c]]
    /\ FinishAll(batch)
    /\ UNCHANGED <<httpVars, task, paged, passes, aborts>>

-----------------------------------------------------------------------------
(* The loop of the paged policy. *)

(* A forward operation of a plan, for rids R.  The plan may be older than  *)
(* an abort, and leaves out what no longer is in _states.                  *)
ForwardOp(R) ==
    /\ paged /\ batch = {} /\ R # {} /\ Cardinality(R) <= MaxBatch
    /\ \A r \in R : states[r] # None
    /\ batch' = {states[r] : r \in R}
    /\ UNCHANGED <<httpVars, task, states, ended, outq, paged, passes, active, fifo, aborts>>

(* The results are for whoever has the id now and has not ended: requests  *)
(* in ends are finished, the others go on with a chunk of text each.  (A   *)
(* pass with neither, of a prompt's chunk, changes nothing here.)          *)
Reached == {states[req[c].rid] : c \in batch} \ ({None} \cup ended)

ForwardReturns(ends) ==
    /\ paged /\ batch # {} /\ batch' = {}
    /\ \A c \in Reached \ ends : passes[c] < Len(Chunks)
    /\ passes' = [c \in Clients |-> IF c \in Reached \ ends THEN passes[c] + 1 ELSE passes[c]]
    /\ outq' = [c \in Clients |->
          IF c \in ends THEN Append(outq[c], "text")
          ELSE IF c \in Reached THEN Append(outq[c], Chunks[passes'[c]]) ELSE outq[c]]
    /\ FinishAll(ends)
    /\ UNCHANGED <<httpVars, task, paged, aborts>>

(* _fail_states: an error for every request of the operation that has not  *)
(* ended.                                                                  *)
ForwardFails ==
    /\ paged /\ batch # {} /\ batch' = {}
    /\ outq' = [c \in Clients |-> IF c \in batch \ ended THEN Append(outq[c], "error") ELSE outq[c]]
    /\ FinishAll(batch \ ended)
    /\ UNCHANGED <<httpVars, task, paged, passes, aborts>>

Reader(c) == ReadEvent(c) \/ Subscribe(c) \/ SubscriberGets(c) \/ \E x \in SUBSET complete : Acquire(c, x)
Coroutine(c) == Submit(c) \/ TakeChunk(c) \/ \E x \in SUBSET complete : TakeOutput(c, x)
Loop ==
    \/ NextBatch \/ BatchReturns \/ BatchFails
    \/ \E R \in SUBSET Rids : ForwardOp(R)
    \/ \E ends \in SUBSET Reached : ForwardReturns(ends)
    \/ ForwardFails

Next ==
    \/ \E c \in Clients : Connect(c) \/ Reader(c) \/ Coroutine(c) \/ Disconnect(c)
    \/ \E r \in Rids : AbortTask(r)
    \/ Loop
    \/ /\ \A c \in Clients : conn[c] \in {"new", "done", "refused", "gone"} /\ task[c] \in {"none", "over"}
       /\ aborts = {} /\ UNCHANGED vars

(* Tasks of the event loop run, the loop task and its batches too; clients *)
(* need not come or go.                                                    *)
Fairness ==
    /\ \A c \in Clients : WF_vars(Reader(c)) /\ WF_vars(Coroutine(c))
    /\ \A r \in Rids : WF_vars(AbortTask(r))
    /\ WF_vars(Loop)

Spec == Init /\ [][Next]_vars /\ Fairness

-----------------------------------------------------------------------------
(* Properties. *)

Output == ToSet(Chunks) \cup {"text", "error"}
Event == Output \cup {"DONE"}

(* Types; nothing follows a final output in the queue of a client that     *)
(* waits, and a batch keeps to max_num_seqs (next_batch).                  *)
TypeOK ==
    /\ conn \in [Clients -> {"new", "direct", "starting", "reading", "subscribed",
                             "done", "refused", "gone"}]
    /\ ent \in [Clients -> Clients \cup {None}]
    /\ \A c \in Clients : /\ ToSet(got[c]) \subseteq Event /\ ToSet(events[c]) \subseteq Event
                          /\ ToSet(subq[c]) \subseteq Event \cup {"eof"}
    /\ InRegistry \subseteq Keyed /\ complete \subseteq Keyed
    /\ subs \in [Clients -> SUBSET Clients]
    /\ task \in [Clients -> {"none", "start", "wait", "over"}]
    /\ states \in [Rids -> Clients \cup {None}] /\ ended \subseteq Clients
    /\ \A c \in Clients : ToSet(outq[c]) \subseteq Output
    /\ \A c \in Clients : task[c] = "wait" =>
          \A i \in DOMAIN outq[c] : outq[c][i] \notin ToSet(Chunks) => i = Len(outq[c])
    /\ passes \in [Clients -> 0 .. Len(Chunks)]
    /\ active \subseteq Rids /\ ToSet(fifo) \subseteq Rids /\ aborts \subseteq Rids
    /\ batch \subseteq Clients /\ Cardinality(batch) <= MaxBatch

(* What is queued for a subscriber, up to the end of the stream. *)
Pending(c) == IF subq[c] # <<>> /\ Last(subq[c]) = "eof" THEN Front(subq[c]) ELSE subq[c]

(* Whenever a connection joins an entry, what it was sent and what waits   *)
(* in its queue is the entry's stream from the start, without gap,         *)
(* repetition or reordering, and all of it at the end (replayable_stream,  *)
(* publish, finish).                                                       *)
StreamFaithful ==
    \A c \in Clients : ent[c] # None =>
        /\ IsPrefix(got[c], events[ent[c]])
        /\ conn[c] = "subscribed" => got[c] \o Pending(c) = events[ent[c]]
        /\ conn[c] = "done" => got[c] = events[ent[c]] /\ ent[c] \in complete

(* A key names one generation at a time: no second entry of a key that is  *)
(* still in the registry, and the registry only holds more entries than    *)
(* its limit while a stream in it is not finished (acquire, _evict).       *)
RegistryBounded ==
    /\ \A i, j \in DOMAIN reg : req[reg[i]].key = req[reg[j]].key => i = j
    /\ Len(reg) <= MaxEntries \/ InRegistry \ complete # {}

(* A connection that stays is served to its end, and a keyed generation    *)
(* ends although its first client left (produce).                          *)
StreamsEnd ==
    /\ \A c \in Clients : conn[c] \in {"direct", "starting"} ~> conn[c] \in {"done", "refused", "gone"}
    /\ \A c \in Clients : c \in Keyed /\ task[c] = "start" ~> c \in complete

=============================================================================
