-------------------------- MODULE AsyncEngineProofs --------------------------
(***************************************************************************)
(* Proofs about AsyncEngine, for any clients, ids (shared or not), slots   *)
(* and memory.                                                             *)
(***************************************************************************)
EXTENDS AsyncEngine, FiniteSetTheorems, TLAPS

\* The final outputs in the clients' queues.
ReplyType == reply \in [Clients -> {"none", "result", "error", "abort"}]

\* What a step may do to the queues: nothing, or put a final output where
\* there is none.
RepliesKept ==
    \A c \in Clients : reply[c] # "none" => reply'[c] = reply[c]

\* Settle answers the clients of its ids only, so a queue keeps its final
\* output when all of those are unanswered.
LEMMA SettleReplies ==
    ASSUME ReplyType, NEW ids, NEW who, NEW output,
           output \in {"result", "error"},
           \A r \in ids : reply[who[r]] = "none",
           Settle(ids, who, output)
    PROVE  ReplyType' /\ RepliesKept
  BY DEF ReplyType, Settle, RepliesKept

\* ApplyResults and _fail_states pass over a state that is finished.
LEMMA LoopReplies ==
    ASSUME ReplyType, ApplyResults \/ FailStates
    PROVE  ReplyType' /\ RepliesKept
<1>1. CASE ApplyResults
  BY <1>1, SettleReplies DEF ApplyResults, FinishedIds
<1>2. CASE FailStates
  BY <1>2, SettleReplies DEF FailStates, FailedIds, Caught
<1>3. QED
  BY <1>1, <1>2

\* _abort answers the state it finds under the id unless it is finished.
LEMMA TaskReplies ==
    ASSUME ReplyType, NEW c \in Clients, AbortTask(c)
    PROVE  ReplyType' /\ RepliesKept
  BY DEF ReplyType, AbortTask, RepliesKept

\* No other step touches a queue.
LEMMA OtherReplies ==
    ASSUME ReplyType, [Next]_vars,
           ~(ApplyResults \/ FailStates),
           \A c \in Clients : ~AbortTask(c)
    PROVE  UNCHANGED reply
<1>1. CASE \E c \in Clients : Submit(c) \/ Receive(c) \/ Disconnect(c)
  BY <1>1 DEF Submit, Receive, Disconnect
<1>2. CASE \E h \in SUBSET Rids : \E s \in SUBSET h : PlanForward(s, h)
  BY <1>2 DEF PlanForward
<1>3. CASE PlanEmpty \/ LoopWaits \/ DropOperation
  BY <1>3 DEF PlanEmpty, LoopWaits, DropOperation
<1>4. CASE Work
  BY <1>4 DEF Work, ForwardReturns, ForwardRaises, ForwardNoSlot, Release
<1>5. CASE UNCHANGED vars
  BY <1>5 DEF vars
<1>6. QED
  BY <1>1, <1>2, <1>3, <1>4, <1>5 DEF Next, Serve

\* Every step keeps the final outputs that are there.
LEMMA StepReplies ==
    ASSUME ReplyType, [Next]_vars
    PROVE  ReplyType' /\ RepliesKept
<1>1. CASE ApplyResults \/ FailStates
  BY <1>1, LoopReplies
<1>2. CASE \E c \in Clients : AbortTask(c)
  BY <1>2, TaskReplies
<1>3. CASE ~(ApplyResults \/ FailStates) /\ \A c \in Clients : ~AbortTask(c)
  <2>1. UNCHANGED reply
    BY <1>3, OtherReplies
  <2>2. QED
    BY <2>1 DEF ReplyType, RepliesKept
<1>4. QED
  BY <1>1, <1>2, <1>3

\* Each client gets at most one final output, whatever the interleaving of
\* results, failures and aborts, and even when ids are shared.
THEOREM AtMostOneFinalOutput == Spec => OneFinalOutput
<1>1. Init => ReplyType
  BY DEF Init, ReplyType
<1>2. ReplyType /\ [Next]_vars => ReplyType'
  BY StepReplies
<1>3. ReplyType /\ [Next]_vars => [RepliesKept]_vars
  BY StepReplies
<1>4. QED
  BY <1>1, <1>2, <1>3, PTL DEF Spec, OneFinalOutput, RepliesKept

-----------------------------------------------------------------------------
(* Every runner slot is given back.  The argument is about the executor    *)
(* lock's queue: the loop has at most one call in it, and an id that       *)
(* leaves the scheduler while its operation runs has its release queued    *)
(* behind that operation.                                                  *)

\* The loop's calls in the lock's queue: at most one, the forward while the
\* loop waits for it, its release while it waits for that.
LoopJobs ==
    /\ \A i \in DOMAIN jobs : jobs[i].kind = "forward" =>
            jobs[i].by = "loop" /\ pc \in {"forward", "apply"}
    /\ \A i \in DOMAIN jobs :
            jobs[i].kind = "release" /\ jobs[i].by = "loop" => pc = "release"
    /\ \A i, j \in DOMAIN jobs :
            jobs[i].by = "loop" /\ jobs[j].by = "loop" => i = j
    /\ pc \in {"forward", "apply"} =>
            \E i \in DOMAIN jobs : jobs[i].kind = "forward"
    /\ pc = "apply" => jobs # <<>> /\ jobs[1].kind = "forward"

\* A release of r is in the queue s, and one behind a forward.
ReleaseIn(s, r) ==
    \E i \in DOMAIN s : s[i].kind = "release" /\ r \in s[i].rids
BehindForward(s, r) ==
    \E i, j \in DOMAIN s :
        /\ i < j
        /\ s[i].kind = "forward"
        /\ s[j].kind = "release" /\ r \in s[j].rids

TaskComing(r) == \E c \in cleanup : RidOf[c] = r

\* A row of the operation is live, or aborted with its release to come.
OpsWatched ==
    /\ pc = "plan" => \A r \in ops : known[r] = "live"
    /\ pc \in {"forward", "apply"} =>
          \A r \in ops : known[r] = "live" \/ TaskComing(r) \/ BehindForward(jobs, r)
    /\ pc \in {"idle", "release"} => ops = {}

\* The inductive invariant: QueueWatched by itself, NoStrandedSlot with it.
QueueWatched == LoopJobs /\ OpsWatched

Jobs == [kind : {"forward", "release"}, rids : SUBSET Rids,
         by : {"loop", "task"}]

\* The queue of the lock, one job longer and one job shorter.
LEMMA Queued ==
    ASSUME NEW s \in Seq(Jobs), NEW e \in Jobs
    PROVE  /\ Append(s, e) \in Seq(Jobs)
           /\ DOMAIN Append(s, e) = 1 .. Len(s) + 1
           /\ \A i \in 1 .. Len(s) : Append(s, e)[i] = s[i]
           /\ Append(s, e)[Len(s) + 1] = e
           /\ DOMAIN s = 1 .. Len(s) /\ Len(s) \in Nat
OBVIOUS

LEMMA Taken ==
    ASSUME NEW s \in Seq(Jobs), s # <<>>
    PROVE  /\ Tail(s) \in Seq(Jobs)
           /\ Len(Tail(s)) = Len(s) - 1
           /\ DOMAIN Tail(s) = 1 .. Len(s) - 1
           /\ \A i \in 1 .. Len(s) - 1 : Tail(s)[i] = s[i + 1]
           /\ DOMAIN s = 1 .. Len(s) /\ Len(s) \in Nat \ {0}
           /\ Head(s) = s[1] /\ s[1] \in Jobs
OBVIOUS

\* The runner's slots stay within max_num_seqs when none is added.
LEMMA FewerSlots ==
    ASSUME TypeOK, NEW t \in SUBSET Rids, NEW u \in SUBSET t,
           Cardinality(t) <= MaxNumSeqs
    PROVE  u \in SUBSET Rids /\ Cardinality(u) <= MaxNumSeqs
<1>1. IsFiniteSet(t)
  BY EngineAssumption, FS_Subset
<1>2. Cardinality(u) <= Cardinality(t) /\ Cardinality(t) \in Nat
      /\ Cardinality(u) \in Nat
  BY <1>1, FS_Subset, FS_CardinalityType
<1> QED
  BY <1>2, EngineAssumption

\* Clients and their tasks.
LEMMA ClientTypes ==
    ASSUME TypeOK, NEW c \in Clients,
           Submit(c) \/ Receive(c) \/ Disconnect(c) \/ AbortTask(c)
    PROVE  TypeOK'
<1>0. RidOf[c] \in Rids
  BY EngineAssumption
<1>1. CASE Submit(c)
  BY <1>0, <1>1 DEF TypeOK, Submit, Sched!Submit, schedVars, loopVars
<1>2. CASE Receive(c)
  BY <1>2 DEF TypeOK, Receive, schedVars, loopVars
<1>3. CASE Disconnect(c)
  BY <1>0, <1>3 DEF TypeOK, Disconnect, Sched!Abort, schedVars, loopVars
<1>4. CASE AbortTask(c)
  <2>1. Job("release", {RidOf[c]}, "task") \in Jobs
    BY <1>0 DEF Job, Jobs
  <2>2. jobs' \in Seq(Jobs)
    BY <1>4, <2>1, Queued DEF AbortTask, Enqueue, TypeOK, Jobs
  <2> QED
    BY <1>0, <1>4, <2>2 DEF TypeOK, AbortTask, schedVars, loopVars, Jobs
<1> QED
  BY <1>1, <1>2, <1>3, <1>4

\* Plans.
LEMMA PlanTypes ==
    ASSUME TypeOK, NEW h \in SUBSET Rids, NEW s \in SUBSET h, PlanForward(s, h)
    PROVE  TypeOK'
<1>0. jobs \in Seq(Jobs)
  BY DEF TypeOK, Jobs
<1>1. known' \in [Rids -> {"absent", "live", "finished"}]
  BY DEF TypeOK, PlanForward, Sched!Plan, Sched!Erased
<1>2. held' \in SUBSET Rids /\ ops' \in SUBSET Rids
  BY DEF PlanForward, Sched!Plan
<1>3. Job("forward", s, "loop") \in Jobs
  BY DEF Job, Jobs
<1>4. jobs' \in Seq(Jobs)
  BY <1>0, <1>3, Queued DEF PlanForward, Enqueue
<1>5. caught' \in [Rids -> Clients \cup {None}] /\ pc' \in LoopPc
  BY DEF TypeOK, PlanForward, LoopPc
<1> QED
  BY <1>1, <1>2, <1>4, <1>5 DEF TypeOK, PlanForward, Jobs

LEMMA EmptyTypes ==
    ASSUME TypeOK, PlanEmpty \/ LoopWaits \/ DropOperation
    PROVE  TypeOK'
<1>1. CASE PlanEmpty
  <2>1. /\ known' \in [Rids -> {"absent", "live", "finished"}]
        /\ held' \in SUBSET Rids /\ ops' \in SUBSET Rids
    <3>1. PICK h \in SUBSET Rids :
            Sched!Plan({}, h) \/ \E r \in h : Sched!Retract(r, h) \/ Sched!Drop(r, h)
      BY <1>1 DEF PlanEmpty
    <3> QED
      BY <3>1 DEF TypeOK, Sched!Plan, Sched!Retract, Sched!Drop, Sched!Erased
  <2> QED
    BY <1>1, <2>1 DEF TypeOK, PlanEmpty, LoopPc
<1>2. CASE LoopWaits
  BY <1>2 DEF TypeOK, LoopWaits, LoopPc, schedVars
<1>3. CASE DropOperation
  BY <1>3 DEF TypeOK, DropOperation, Sched!Results, loopVars
<1> QED
  BY <1>1, <1>2, <1>3

\* The worker's calls.
LEMMA WorkTypes ==
    ASSUME TypeOK, Work
    PROVE  TypeOK'
<1>0. Wanted \in SUBSET Rids /\ slots \subseteq Wanted
  BY DEF Wanted, TypeOK
<1>1. ASSUME NEW done \in SUBSET Rids, ForwardReturns(done)
      PROVE  TypeOK'
  <2>1. slots' \in SUBSET Rids /\ Cardinality(slots') <= MaxNumSeqs
    BY <1>0, <1>1, FewerSlots DEF ForwardReturns, SlotsFit
  <2> QED
    BY <1>1, <2>1 DEF TypeOK, ForwardReturns, LoopPc, schedVars
<1>2. CASE ForwardRaises
  <2>1. slots' \in SUBSET Rids /\ Cardinality(slots') <= MaxNumSeqs
    BY <1>2, FewerSlots DEF ForwardRaises, TypeOK
  <2> QED
    BY <1>2, <2>1 DEF TypeOK, ForwardRaises, LoopPc, schedVars
<1>3. CASE ForwardNoSlot
  <2>1. slots' \in SUBSET Rids /\ Cardinality(slots') <= MaxNumSeqs
    BY <1>0, <1>3, EngineAssumption DEF ForwardNoSlot
  <2> QED
    BY <1>3, <2>1 DEF TypeOK, ForwardNoSlot, LoopPc, schedVars
<1>4. CASE Release
  <2>1. slots' \in SUBSET Rids /\ Cardinality(slots') <= MaxNumSeqs
    BY <1>4, FewerSlots DEF Release, TypeOK
  <2>2. jobs' \in Seq(Jobs)
    BY <1>4, Taken DEF Release, TypeOK, Jobs
  <2> QED
    BY <1>4, <2>1, <2>2 DEF TypeOK, Release, LoopPc, schedVars, Jobs
<1> QED
  BY <1>1, <1>2, <1>3, <1>4 DEF Work

\* The end of a call.
LEMMA SettleTypes ==
    ASSUME TypeOK, NEW ids \in SUBSET Rids, NEW who, NEW output,
           output \in {"result", "error"},
           NEW done \in SUBSET Rids, jobs # <<>>,
           Sched!Results(ops, done), Settle(ids, who, output)
    PROVE  TypeOK'
<1>1. /\ known' \in [Rids -> {"absent", "live", "finished"}]
      /\ held' \in SUBSET Rids /\ ops' \in SUBSET Rids
  BY DEF TypeOK, Sched!Results
<1>2. Job("release", ids, "loop") \in Jobs
  BY DEF Job, Jobs
<1>3. jobs' \in Seq(Jobs)
  <2>1. jobs \in Seq(Jobs)
    BY DEF TypeOK, Jobs
  <2>2. Tail(jobs) \in Seq(Jobs)
    BY <2>1, Taken
  <2> QED
    BY <1>2, <2>2, Queued DEF Settle
<1>4. /\ reply' \in [Clients -> {"none", "result", "error", "abort"}]
      /\ owner' \in [Rids -> Clients \cup {None}] /\ active' \in SUBSET Rids
      /\ pc' \in LoopPc /\ caught' \in [Rids -> Clients \cup {None}]
      /\ outcome' \in [ok : BOOLEAN, done : SUBSET Rids]
  BY DEF TypeOK, Settle, LoopPc, NoStates, Idle
<1> QED
  BY <1>1, <1>3, <1>4 DEF TypeOK, Settle, Jobs

LEMMA LoopTypes ==
    ASSUME TypeOK, LoopJobs, ApplyResults \/ FailStates
    PROVE  TypeOK'
<1>1. jobs # <<>>
  BY DEF LoopJobs, ApplyResults, FailStates
<1>2. CASE ApplyResults
  <2>1. FinishedIds \in SUBSET Rids /\ FinishEvents \in SUBSET Rids
    BY DEF FinishedIds, FinishEvents, TypeOK
  <2> QED
    BY <1>1, <1>2, <2>1, SettleTypes DEF ApplyResults
<1>3. CASE FailStates
  <2>1. FailedIds \in SUBSET Rids /\ AbortedIds \in SUBSET Rids
    BY DEF FailedIds, AbortedIds, Caught
  <2> QED
    BY <1>1, <1>3, <2>1, SettleTypes DEF FailStates
<1> QED
  BY <1>2, <1>3

LEMMA StepTypes ==
    ASSUME TypeOK, LoopJobs, [Next]_vars
    PROVE  TypeOK'
<1>1. CASE UNCHANGED vars
  BY <1>1 DEF TypeOK, vars, schedVars, loopVars
<1> QED
  BY <1>1, ClientTypes, PlanTypes, EmptyTypes, WorkTypes, LoopTypes
     DEF Next, Serve

\* A release, and a release behind a forward, stay in the queue when a job
\* joins it, and a release that joins is behind the forward that is there.
LEMMA JobJoins ==
    ASSUME NEW s \in Seq(Jobs), NEW e \in Jobs, NEW r
    PROVE  /\ ReleaseIn(s, r) => ReleaseIn(Append(s, e), r)
           /\ BehindForward(s, r) => BehindForward(Append(s, e), r)
           /\ e.kind = "release" /\ r \in e.rids =>
                /\ ReleaseIn(Append(s, e), r)
                /\ (\E i \in DOMAIN s : s[i].kind = "forward") =>
                       BehindForward(Append(s, e), r)
<1> DEFINE n == Len(s)
           u == Append(s, e)
<1>1. /\ u \in Seq(Jobs) /\ DOMAIN u = 1 .. n + 1 /\ DOMAIN s = 1 .. n
      /\ \A i \in 1 .. n : u[i] = s[i]
      /\ u[n + 1] = e /\ n \in Nat
  BY Queued
<1> HIDE DEF n, u
<1>2. ReleaseIn(s, r) => ReleaseIn(u, r)
  BY <1>1 DEF ReleaseIn
<1>3. BehindForward(s, r) => BehindForward(u, r)
  BY <1>1 DEF BehindForward
<1>4. ASSUME e.kind = "release", r \in e.rids
      PROVE  /\ ReleaseIn(u, r)
             /\ (\E i \in DOMAIN s : s[i].kind = "forward") => BehindForward(u, r)
  <2>1. ReleaseIn(u, r)
    BY <1>1, <1>4 DEF ReleaseIn
  <2>2. ASSUME NEW i \in DOMAIN s, s[i].kind = "forward"
        PROVE  BehindForward(u, r)
    <3>1. i \in DOMAIN u /\ n + 1 \in DOMAIN u /\ i < n + 1
      BY <1>1
    <3>2. u[i].kind = "forward" /\ u[n + 1].kind = "release" /\ r \in u[n + 1].rids
      BY <1>1, <1>4, <2>2
    <3> QED
      BY <3>1, <3>2 DEF BehindForward
  <2> QED
    BY <2>1, <2>2
<1> QED
  BY <1>2, <1>3, <1>4 DEF u

\* They stay when the job at its head leaves, unless it is that release, or
\* that forward: then the release behind it is left.
LEMMA JobLeaves ==
    ASSUME NEW s \in Seq(Jobs), s # <<>>, NEW r
    PROVE  /\ ReleaseIn(s, r) /\ ~(s[1].kind = "release" /\ r \in s[1].rids)
                => ReleaseIn(Tail(s), r)
           /\ BehindForward(s, r) => ReleaseIn(Tail(s), r)
           /\ BehindForward(s, r) /\ s[1].kind # "forward"
                => BehindForward(Tail(s), r)
<1> DEFINE n == Len(s)
           u == Tail(s)
<1>1. /\ DOMAIN u = 1 .. n - 1 /\ DOMAIN s = 1 .. n
      /\ \A i \in 1 .. n - 1 : u[i] = s[i + 1]
      /\ n \in Nat \ {0}
  BY Taken
<1> HIDE DEF n, u
<1>2. ASSUME NEW j \in 2 .. n
      PROVE  j - 1 \in DOMAIN u /\ u[j - 1] = s[j]
  BY <1>1
<1>3. ASSUME NEW j \in 1 .. n, j # 1
      PROVE  j \in 2 .. n
  BY <1>1, <1>3
<1>4. ReleaseIn(s, r) /\ ~(s[1].kind = "release" /\ r \in s[1].rids)
        => ReleaseIn(u, r)
  BY <1>1, <1>2, <1>3 DEF ReleaseIn
<1>5. ASSUME BehindForward(s, r)
      PROVE  ReleaseIn(u, r)
  <2>1. PICK i \in 1 .. n, j \in 1 .. n :
          i < j /\ s[j].kind = "release" /\ r \in s[j].rids
    BY <1>1, <1>5 DEF BehindForward
  <2>2. j \in 2 .. n
    BY <1>1, <2>1
  <2> QED
    BY <1>2, <2>1, <2>2 DEF ReleaseIn
<1>6. ASSUME BehindForward(s, r), s[1].kind # "forward"
      PROVE  BehindForward(u, r)
  <2>1. PICK i \in 1 .. n, j \in 1 .. n :
          /\ i < j /\ s[i].kind = "forward"
          /\ s[j].kind = "release" /\ r \in s[j].rids
    BY <1>1, <1>6 DEF BehindForward
  <2>2. i \in 2 .. n /\ j \in 2 .. n /\ i - 1 < j - 1
    BY <1>1, <1>6, <2>1
  <2>3. /\ i - 1 \in DOMAIN u /\ u[i - 1] = s[i]
        /\ j - 1 \in DOMAIN u /\ u[j - 1] = s[j]
    BY <1>2, <2>2
  <2> QED
    BY <2>1, <2>2, <2>3 DEF BehindForward
<1> QED
  BY <1>4, <1>5, <1>6 DEF u

\* The queue's view of a runner slot that will be given back.
LEMMA ComingIs ==
    ASSUME NEW r
    PROVE  ReleaseComing(r) <=> r \in ops \/ ReleaseIn(jobs, r) \/ TaskComing(r)
BY DEF ReleaseComing, ReleaseIn, TaskComing

-----------------------------------------------------------------------------
(* One lemma per group of steps.                                           *)

\* A step that leaves the loop, the lock's queue and the operation alone.
LEMMA ClientsWatched ==
    ASSUME TypeOK, QueueWatched, NEW c \in Clients,
           Submit(c) \/ Receive(c) \/ Disconnect(c)
    PROVE  QueueWatched' /\ (NoStrandedSlot => NoStrandedSlot')
<1>0. RidOf[c] \in Rids
  BY EngineAssumption
<1>1. UNCHANGED <<pc, jobs, slots, ops>> /\ cleanup \subseteq cleanup' /\ pc # "plan"
  BY DEF Submit, Receive, Disconnect, loopVars, schedVars, EventLoopFree,
         Sched!Submit, Sched!Abort
<1>2. LoopJobs'
  BY <1>1 DEF LoopJobs, QueueWatched
<1>3. ASSUME NEW r \in Rids, known[r] = "live"
      PROVE  known'[r] = "live" \/ TaskComing(r)'
  <2>1. CASE Submit(c) \/ Receive(c)
    BY <1>0, <1>3, <2>1
       DEF Submit, Receive, schedVars, Sched!Submit, TypeOK
  <2>2. CASE Disconnect(c)
    BY <1>0, <1>3, <2>2
       DEF Disconnect, schedVars, Sched!Abort, TypeOK, TaskComing
  <2> QED
    BY <2>1, <2>2
<1>4. \A r : TaskComing(r) => TaskComing(r)'
  BY <1>1 DEF TaskComing
<1>5. OpsWatched'
  BY <1>1, <1>3, <1>4 DEF OpsWatched, QueueWatched, TypeOK
<1>6. ASSUME NoStrandedSlot
      PROVE  NoStrandedSlot'
  <2> SUFFICES ASSUME NEW r \in slots', known'[r] # "live"
               PROVE  ReleaseComing(r)'
    BY DEF NoStrandedSlot
  <2>1. r \in slots /\ r \in Rids
    BY <1>1 DEF TypeOK
  <2>2. known[r] = "live" \/ ReleaseComing(r)
    BY <1>6, <2>1 DEF NoStrandedSlot
  <2>3. CASE known[r] = "live"
    BY <1>3, <2>1, <2>3 DEF ReleaseComing, TaskComing
  <2>4. CASE ReleaseComing(r)
    BY <1>1, <2>4 DEF ReleaseComing
  <2> QED
    BY <2>2, <2>3, <2>4
<1> QED
  BY <1>2, <1>5, <1>6 DEF QueueWatched

\* _abort's task leaves its release in the queue, behind the forward that
\* may be running.
LEMMA TasksWatched ==
    ASSUME TypeOK, QueueWatched, NEW c \in Clients, AbortTask(c)
    PROVE  QueueWatched' /\ (NoStrandedSlot => NoStrandedSlot')
<1> DEFINE e == Job("release", {RidOf[c]}, "task")
<1>0. RidOf[c] \in Rids /\ e \in Jobs /\ jobs \in Seq(Jobs)
      /\ e.kind = "release" /\ e.by = "task" /\ e.rids = {RidOf[c]}
  BY EngineAssumption DEF TypeOK, Job, Jobs
<1>1. /\ UNCHANGED <<pc, slots, ops, known>> /\ cleanup' = cleanup \ {c}
      /\ jobs' = Append(jobs, e)
  BY DEF AbortTask, Enqueue, loopVars, schedVars
<1> HIDE DEF e
<1>2. LoopJobs'
  <2>1. /\ DOMAIN jobs' = 1 .. Len(jobs) + 1 /\ DOMAIN jobs = 1 .. Len(jobs)
        /\ \A i \in 1 .. Len(jobs) : jobs'[i] = jobs[i]
        /\ jobs'[Len(jobs) + 1] = e /\ Len(jobs) \in Nat
        /\ jobs' # <<>>
    BY <1>0, <1>1, Queued
  <2>2. jobs # <<>> => jobs'[1] = jobs[1]
    BY <1>0, <2>1
  <2>3. \A i \in DOMAIN jobs' : i \in DOMAIN jobs \/ jobs'[i] = e
    BY <2>1
  <2>4. \A i \in DOMAIN jobs : i \in DOMAIN jobs' /\ jobs'[i] = jobs[i]
    BY <2>1
  <2> HIDE DEF e
  <2> QED
    BY <1>0, <1>1, <2>1, <2>2, <2>3, <2>4 DEF LoopJobs, QueueWatched
<1>3. ASSUME NEW r, TaskComing(r)
      PROVE  TaskComing(r)' \/ r = RidOf[c]
  BY <1>1, <1>3 DEF TaskComing
<1>4. ReleaseIn(jobs', RidOf[c])
  BY <1>0, <1>1, JobJoins
<1>5. OpsWatched'
  <2>1. ASSUME pc \in {"forward", "apply"}, NEW r \in ops, TaskComing(r)
        PROVE  TaskComing(r)' \/ BehindForward(jobs', r)
    <3>1. \E i \in DOMAIN jobs : jobs[i].kind = "forward"
      BY <2>1 DEF QueueWatched, LoopJobs
    <3> QED
      BY <1>0, <1>1, <1>3, <2>1, <3>1, JobJoins
  <2>2. \A r : BehindForward(jobs, r) => BehindForward(jobs', r)
    BY <1>0, <1>1, JobJoins
  <2> QED
    BY <1>1, <2>1, <2>2 DEF OpsWatched, QueueWatched
<1>6. ASSUME NoStrandedSlot
      PROVE  NoStrandedSlot'
  <2> SUFFICES ASSUME NEW r \in slots', known'[r] # "live"
               PROVE  ReleaseComing(r)'
    BY DEF NoStrandedSlot
  <2>1. ReleaseComing(r)
    BY <1>6, <1>1 DEF NoStrandedSlot
  <2>2. r \in ops \/ ReleaseIn(jobs, r) \/ TaskComing(r)
    BY <2>1, ComingIs
  <2>3. r \in ops' \/ ReleaseIn(jobs', r) \/ TaskComing(r)'
    BY <1>0, <1>1, <1>3, <1>4, <2>2, JobJoins
  <2> QED
    BY <2>3 DEF ReleaseComing, ReleaseIn, TaskComing
<1> QED
  BY <1>2, <1>5, <1>6 DEF QueueWatched

\* The loop has no call in the queue while it is planning.
LEMMA NoLoopJob ==
    ASSUME TypeOK, LoopJobs, pc \in {"idle", "plan"}, NEW i \in DOMAIN jobs
    PROVE  jobs[i].kind = "release" /\ jobs[i].by = "task"
<1>0. jobs \in Seq(Jobs)
  BY DEF TypeOK, Jobs
<1>1. jobs[i] \in Jobs
  BY <1>0
<1> QED
  BY <1>1 DEF LoopJobs, Jobs

\* A plan gives its rows to live requests and queues its forward last.
LEMMA PlanWatched ==
    ASSUME TypeOK, QueueWatched, NEW h \in SUBSET Rids, NEW s \in SUBSET h,
           PlanForward(s, h)
    PROVE  QueueWatched' /\ (NoStrandedSlot => NoStrandedSlot')
<1> DEFINE e == Job("forward", s, "loop")
<1>0. e \in Jobs /\ jobs \in Seq(Jobs) /\ e.kind = "forward" /\ e.by = "loop"
  BY DEF TypeOK, Job, Jobs
<1>1. /\ pc \in {"idle", "plan"} /\ ops = {} /\ ops' = s
      /\ UNCHANGED <<slots, cleanup>>
      /\ \/ pc' = "forward" /\ jobs' = Append(jobs, e)
         \/ pc' = "plan" /\ jobs' = jobs
  BY DEF PlanForward, Enqueue, MayPlan, Sched!Plan
<1>2. \A r \in Rids : known[r] = "live" => known'[r] = "live"
  BY DEF PlanForward, Sched!Plan, Sched!Erased
<1>3. \A r \in s : known'[r] = "live"
  BY <1>2 DEF PlanForward, Sched!Plan, Sched!Admitted, Sched!Live
<1> HIDE DEF e
<1>4. \A i \in DOMAIN jobs : jobs[i].kind = "release" /\ jobs[i].by = "task"
  BY <1>1, NoLoopJob DEF QueueWatched
<1>5. LoopJobs'
  <2>1. CASE pc' = "plan" /\ jobs' = jobs
    BY <1>4, <2>1 DEF LoopJobs
  <2>2. CASE pc' = "forward" /\ jobs' = Append(jobs, e)
    <3>1. /\ DOMAIN jobs' = 1 .. Len(jobs) + 1 /\ DOMAIN jobs = 1 .. Len(jobs)
          /\ \A i \in 1 .. Len(jobs) : jobs'[i] = jobs[i]
          /\ jobs'[Len(jobs) + 1] = e /\ Len(jobs) \in Nat
      BY <1>0, <2>2, Queued
    <3>2. \A i \in DOMAIN jobs' : i = Len(jobs) + 1 \/ i \in DOMAIN jobs
      BY <3>1
    <3>3. Len(jobs) + 1 \in DOMAIN jobs'
      BY <3>1
    <3> HIDE DEF e
    <3> QED
      BY <1>0, <1>4, <2>2, <3>1, <3>2, <3>3 DEF LoopJobs
  <2> QED
    BY <1>1, <2>1, <2>2
<1>6. OpsWatched'
  BY <1>1, <1>3 DEF OpsWatched
<1>7. ASSUME NoStrandedSlot
      PROVE  NoStrandedSlot'
  <2> SUFFICES ASSUME NEW r \in slots', known'[r] # "live"
               PROVE  ReleaseComing(r)'
    BY DEF NoStrandedSlot
  <2>1. r \in Rids /\ known[r] # "live"
    BY <1>1, <1>2 DEF TypeOK
  <2>2. ReleaseIn(jobs, r) \/ TaskComing(r)
    BY <1>7, <1>1, <2>1, ComingIs DEF NoStrandedSlot
  <2>3. ReleaseIn(jobs', r) \/ TaskComing(r)'
    BY <1>0, <1>1, <2>2, JobJoins DEF TaskComing
  <2> QED
    BY <2>3 DEF ReleaseComing, ReleaseIn, TaskComing
<1> QED
  BY <1>5, <1>6, <1>7 DEF QueueWatched

\* The loop finds nothing to run.  The scheduler ends nobody on its own as
\* long as there are pages for every slot.
LEMMA EmptyWatched ==
    ASSUME TypeOK, QueueWatched,
           PlanEmpty \/ LoopWaits \/ DropOperation
    PROVE  /\ QueueWatched'
           /\ MayRetract = FALSE /\ NoStrandedSlot => NoStrandedSlot'
<1>1. /\ pc \in {"idle", "plan"} /\ pc' \in {"idle", "plan"}
      /\ UNCHANGED <<slots, cleanup, jobs>> /\ ops' = {}
  BY DEF PlanEmpty, LoopWaits, DropOperation, MayPlan, loopVars, schedVars,
         Sched!Plan, Sched!Retract, Sched!Drop, Sched!Results
<1>2. MayRetract = FALSE =>
        \A r \in Rids : known[r] = "live" => known'[r] = "live"
  BY DEF PlanEmpty, LoopWaits, DropOperation, schedVars, Sched!Plan,
         Sched!Retract, Sched!Drop, Sched!Results, Sched!Erased
<1>3. \A r \in ops : known[r] = "live"
  BY <1>1 DEF QueueWatched, OpsWatched
<1>4. LoopJobs'
  BY <1>1, NoLoopJob DEF LoopJobs, QueueWatched
<1>5. OpsWatched'
  BY <1>1 DEF OpsWatched
<1>6. ASSUME MayRetract = FALSE, NoStrandedSlot
      PROVE  NoStrandedSlot'
  <2> SUFFICES ASSUME NEW r \in slots', known'[r] # "live"
               PROVE  ReleaseComing(r)'
    BY DEF NoStrandedSlot
  <2>1. r \in Rids /\ known[r] # "live" /\ r \notin ops
    BY <1>1, <1>2, <1>3, <1>6 DEF TypeOK
  <2> QED
    BY <1>6, <1>1, <2>1 DEF NoStrandedSlot, ReleaseComing
<1> QED
  BY <1>4, <1>5, <1>6 DEF QueueWatched

\* The forward takes slots for rows of the operation only.
LEMMA ForwardWatched ==
    ASSUME TypeOK, QueueWatched,
           \/ \E done \in SUBSET Rids : ForwardReturns(done)
           \/ ForwardRaises
           \/ ForwardNoSlot
    PROVE  QueueWatched' /\ (NoStrandedSlot => NoStrandedSlot')
<1>1. /\ pc = "forward" /\ pc' = "apply" /\ jobs # <<>> /\ Head(jobs).kind = "forward"
      /\ UNCHANGED <<cleanup, jobs, known, ops>>
  BY DEF ForwardReturns, ForwardRaises, ForwardNoSlot, ForwardTurn, schedVars
<1>2. slots' \subseteq slots \cup ops
  BY DEF ForwardReturns, ForwardRaises, ForwardNoSlot, Wanted
<1>3. jobs[1].kind = "forward"
  BY <1>1, Taken DEF TypeOK, Jobs
<1>4. LoopJobs'
  BY <1>1, <1>3 DEF LoopJobs, QueueWatched
<1>5. OpsWatched'
  BY <1>1 DEF OpsWatched, QueueWatched, TaskComing
<1>6. ASSUME NoStrandedSlot
      PROVE  NoStrandedSlot'
  BY <1>6, <1>1, <1>2 DEF NoStrandedSlot, ReleaseComing
<1> QED
  BY <1>4, <1>5, <1>6 DEF QueueWatched

\* A release takes its ids' slots with it.
LEMMA ReleaseWatched ==
    ASSUME TypeOK, QueueWatched, Release
    PROVE  QueueWatched' /\ (NoStrandedSlot => NoStrandedSlot')
<1>0. jobs \in Seq(Jobs)
  BY DEF TypeOK, Jobs
<1>1. /\ jobs # <<>> /\ jobs[1].kind = "release" /\ jobs' = Tail(jobs)
      /\ slots' = slots \ jobs[1].rids
      /\ pc' = IF jobs[1].by = "loop" THEN "idle" ELSE pc
      /\ UNCHANGED <<cleanup, known, ops>>
  BY <1>0, Taken DEF Release, schedVars
<1>2. /\ DOMAIN jobs' = 1 .. Len(jobs) - 1 /\ DOMAIN jobs = 1 .. Len(jobs)
      /\ \A i \in DOMAIN jobs' : i + 1 \in DOMAIN jobs /\ jobs'[i] = jobs[i + 1]
      /\ Len(jobs) \in Nat \ {0} /\ 1 \in DOMAIN jobs
  BY <1>0, <1>1, Taken
<1>3. pc # "apply"
  BY <1>1 DEF QueueWatched, LoopJobs
<1>4. jobs[1].by = "loop" => pc = "release"
  BY <1>1, <1>2 DEF QueueWatched, LoopJobs
<1>5. \A i \in DOMAIN jobs : i # 1 => i - 1 \in DOMAIN jobs' /\ jobs'[i - 1] = jobs[i]
  BY <1>2
<1>6. LoopJobs'
  <2>1. ASSUME NEW i \in DOMAIN jobs', jobs'[i].kind = "forward"
        PROVE  jobs'[i].by = "loop" /\ pc' \in {"forward", "apply"}
    BY <1>1, <1>2, <1>4, <2>1 DEF QueueWatched, LoopJobs
  <2>2. ASSUME NEW i \in DOMAIN jobs', NEW j \in DOMAIN jobs',
               jobs'[i].by = "loop", jobs'[j].by = "loop"
        PROVE  i = j
    <3>1. i + 1 = j + 1
      BY <1>2, <2>2 DEF QueueWatched, LoopJobs
    <3> QED
      BY <1>2, <3>1
  <2>3. ASSUME NEW i \in DOMAIN jobs', jobs'[i].kind = "release", jobs'[i].by = "loop"
        PROVE  pc' = "release"
    <3>1. i + 1 # 1
      BY <1>2
    <3>2. jobs[1].by # "loop"
      BY <1>2, <2>3, <3>1 DEF QueueWatched, LoopJobs
    <3> QED
      BY <1>1, <1>2, <2>3, <3>2 DEF QueueWatched, LoopJobs
  <2>4. ASSUME pc' \in {"forward", "apply"}
        PROVE  \E i \in DOMAIN jobs' : jobs'[i].kind = "forward"
    <3>1. PICK i \in DOMAIN jobs : jobs[i].kind = "forward"
      BY <1>1, <2>4 DEF QueueWatched, LoopJobs
    <3> QED
      BY <1>1, <1>5, <3>1
  <2>5. pc' # "apply"
    BY <1>1, <1>3
  <2> QED
    BY <2>1, <2>2, <2>3, <2>4, <2>5 DEF LoopJobs
<1>7. OpsWatched'
  <2>1. \A r : BehindForward(jobs, r) => BehindForward(jobs', r)
    BY <1>0, <1>1, JobLeaves
  <2> QED
    BY <1>1, <1>4, <2>1 DEF OpsWatched, QueueWatched, TaskComing
<1>8. ASSUME NoStrandedSlot
      PROVE  NoStrandedSlot'
  <2> SUFFICES ASSUME NEW r \in slots', known'[r] # "live"
               PROVE  ReleaseComing(r)'
    BY DEF NoStrandedSlot
  <2>1. r \notin jobs[1].rids
    BY <1>1
  <2>2. r \in ops \/ ReleaseIn(jobs, r) \/ TaskComing(r)
    BY <1>8, <1>1, ComingIs DEF NoStrandedSlot
  <2>3. r \in ops' \/ ReleaseIn(jobs', r) \/ TaskComing(r)'
    BY <1>0, <1>1, <2>1, <2>2, JobLeaves DEF TaskComing
  <2> QED
    BY <2>3 DEF ReleaseComing, ReleaseIn, TaskComing
<1> QED
  BY <1>6, <1>7, <1>8 DEF QueueWatched

\* The results end requests whose release is queued in the same step; rows
\* that were aborted have theirs behind the forward that leaves the queue.
LEMMA SettleWatched ==
    ASSUME TypeOK, QueueWatched, pc = "apply",
           NEW ids \in SUBSET Rids, NEW who, NEW output,
           NEW done \in SUBSET ids,
           Sched!Results(ops, done), Settle(ids, who, output)
    PROVE  QueueWatched' /\ (NoStrandedSlot => NoStrandedSlot')
<1> DEFINE e == Job("release", ids, "loop")
           t == Tail(jobs)
<1>0. /\ e \in Jobs /\ jobs \in Seq(Jobs)
      /\ e.kind = "release" /\ e.by = "loop" /\ e.rids = ids
  BY DEF TypeOK, Job, Jobs
<1>1. jobs # <<>> /\ jobs[1].kind = "forward"
  BY DEF QueueWatched, LoopJobs
<1>2. /\ UNCHANGED <<slots, cleanup>>
      /\ ops' = {}
      /\ \/ ids = {} /\ pc' = "plan" /\ jobs' = t
         \/ pc' = "release" /\ jobs' = Append(t, e)
  BY DEF Settle, Sched!Results, TypeOK
<1>3. \A r \in Rids : known[r] = "live" => known'[r] = "live" \/ r \in ids
  BY DEF Sched!Results
<1>4. /\ t \in Seq(Jobs)
      /\ \A i \in DOMAIN t : i + 1 \in DOMAIN jobs /\ i + 1 # 1 /\ t[i] = jobs[i + 1]
      /\ 1 \in DOMAIN jobs
  BY <1>0, <1>1, Taken
<1>5. \A i \in DOMAIN t : t[i].kind = "release" /\ t[i].by = "task"
  <2> SUFFICES ASSUME NEW i \in DOMAIN t
               PROVE  t[i].kind = "release" /\ t[i].by = "task"
    OBVIOUS
  <2>1. jobs[i + 1].by # "loop" /\ jobs[i + 1].kind # "forward"
    BY <1>1, <1>4 DEF QueueWatched, LoopJobs
  <2>2. t[i] \in Jobs
    BY <1>4
  <2> QED
    BY <1>4, <2>1, <2>2 DEF Jobs
<1> HIDE DEF e, t
<1>6. LoopJobs'
  <2>1. CASE ids = {} /\ pc' = "plan" /\ jobs' = t
    BY <1>5, <2>1 DEF LoopJobs
  <2>2. CASE pc' = "release" /\ jobs' = Append(t, e)
    <3>1. /\ DOMAIN jobs' = 1 .. Len(t) + 1 /\ DOMAIN t = 1 .. Len(t)
          /\ \A i \in 1 .. Len(t) : jobs'[i] = t[i]
          /\ jobs'[Len(t) + 1] = e /\ Len(t) \in Nat
      BY <1>0, <1>4, <2>2, Queued
    <3>2. \A i \in DOMAIN jobs' : i = Len(t) + 1 \/ i \in DOMAIN t
      BY <3>1
    <3> QED
      BY <1>0, <1>5, <2>2, <3>1, <3>2 DEF LoopJobs
  <2> QED
    BY <1>2, <2>1, <2>2
<1>7. OpsWatched'
  BY <1>2 DEF OpsWatched
<1>8. \A r : ReleaseIn(t, r) \/ r \in ids => ReleaseIn(Append(t, e), r)
  <2>1. t \in Seq(Jobs)
    BY <1>4
  <2> QED
    BY <1>0, <2>1, JobJoins
<1>9. ASSUME NoStrandedSlot
      PROVE  NoStrandedSlot'
  <2> SUFFICES ASSUME NEW r \in slots', known'[r] # "live"
               PROVE  ReleaseComing(r)'
    BY DEF NoStrandedSlot
  <2>1. r \in Rids /\ r \in slots
    BY <1>2 DEF TypeOK
  <2>2. CASE r \in ids
    <3>1. ReleaseIn(jobs', r)
      BY <1>2, <1>8, <2>2
    <3> QED
      BY <3>1 DEF ReleaseComing, ReleaseIn
  <2>3. CASE r \notin ids
    <3>1. known[r] # "live"
      BY <1>3, <2>1, <2>3
    <3>2. r \in ops \/ ReleaseIn(jobs, r) \/ TaskComing(r)
      BY <1>9, <2>1, <3>1, ComingIs DEF NoStrandedSlot
    <3>3. BehindForward(jobs, r) \/ ReleaseIn(jobs, r) \/ TaskComing(r)
      BY <3>1, <3>2 DEF QueueWatched, OpsWatched
    <3>4. ReleaseIn(t, r) \/ TaskComing(r)
      BY <1>0, <1>1, <3>3, JobLeaves DEF t
    <3>5. ReleaseIn(jobs', r) \/ TaskComing(r)'
      BY <1>2, <1>8, <3>4 DEF TaskComing
    <3> QED
      BY <3>5 DEF ReleaseComing, ReleaseIn, TaskComing
  <2> QED
    BY <2>2, <2>3
<1> QED
  BY <1>6, <1>7, <1>9 DEF QueueWatched

LEMMA StepWatched ==
    ASSUME TypeOK, QueueWatched, [Next]_vars
    PROVE  /\ QueueWatched'
           /\ MayRetract = FALSE /\ NoStrandedSlot => NoStrandedSlot'
<1>1. CASE UNCHANGED vars
  BY <1>1 DEF QueueWatched, LoopJobs, OpsWatched, NoStrandedSlot, vars,
              schedVars, loopVars, TaskComing, BehindForward, ReleaseComing
<1>2. CASE ApplyResults
  <2>1. FinishedIds \in SUBSET Rids /\ FinishEvents \in SUBSET FinishedIds
    BY DEF FinishedIds, FinishEvents, TypeOK
  <2> QED
    BY <1>2, <2>1, SettleWatched DEF ApplyResults
<1>3. CASE FailStates
  <2>1. FailedIds \in SUBSET Rids /\ AbortedIds \in SUBSET FailedIds
    BY DEF FailedIds, AbortedIds, Caught
  <2> QED
    BY <1>3, <2>1, SettleWatched DEF FailStates
<1> QED
  BY <1>1, <1>2, <1>3, ClientsWatched, TasksWatched, PlanWatched,
     EmptyWatched, ForwardWatched, ReleaseWatched
     DEF Next, Serve, Work

LEMMA InitWatched ==
    ASSUME Init
    PROVE  TypeOK /\ QueueWatched /\ NoStrandedSlot
<1>1. Cardinality({}) = 0
  BY FS_EmptySet
<1>2. TypeOK
  BY <1>1, EngineAssumption DEF Init, TypeOK, Sched!Init, LoopPc, NoStates, Idle
<1>3. QueueWatched /\ NoStrandedSlot
  BY DEF Init, QueueWatched, LoopJobs, OpsWatched, NoStrandedSlot, Sched!Init
<1> QED
  BY <1>2, <1>3

\* The runner's slots never outnumber max_num_seqs, and the engine's state
\* keeps its types, whether or not memory may run out.
THEOREM EngineTypes == Spec => []TypeOK
<1>1. Init => TypeOK /\ QueueWatched
  BY InitWatched
<1>2. TypeOK /\ QueueWatched /\ [Next]_vars => (TypeOK /\ QueueWatched)'
  BY StepTypes, StepWatched DEF QueueWatched
<1> QED
  BY <1>1, <1>2, PTL DEF Spec

\* No runner slot is stranded: whoever disconnects, whatever fails and in
\* whatever order the tasks get the executor lock, a slot in the runner's
\* table belongs to a request the scheduler runs or its release is coming.
THEOREM SlotsNeverStranded ==
    ASSUME MayRetract = FALSE
    PROVE  Spec => []NoStrandedSlot
<1> DEFINE Inv == TypeOK /\ QueueWatched /\ NoStrandedSlot
<1>1. Init => Inv
  BY InitWatched
<1>2. Inv /\ [Next]_vars => Inv'
  BY StepTypes, StepWatched DEF QueueWatched
<1>3. Inv => NoStrandedSlot
  OBVIOUS
<1> HIDE DEF Inv
<1> QED
  BY <1>1, <1>2, <1>3, PTL DEF Spec

=============================================================================
