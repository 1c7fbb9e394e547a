---------------------------- MODULE ClusterProofs ----------------------------
(***************************************************************************)
(* Proofs about Cluster: for any number of ranks, requests and slots and   *)
(* whatever fails, the ranks only disagree about the rows of an operation  *)
(* by aborted requests, and ranks that completed the same commands have    *)
(* the same slot table.                                                    *)
(*                                                                         *)
(* The argument is about the log of commands that rank 0 broadcasts.  All  *)
(* channels hold pieces of one log that end at the same place, so a rank's *)
(* command is determined by how many it completed; and there is one table  *)
(* for every number of completed commands.                                 *)
(***************************************************************************)
EXTENDS Cluster, Counting

-----------------------------------------------------------------------------
(* The inductive invariant.                                                *)

\* Commands that are broadcast: a plan or a batch has rows.
LogCommands == {c \in Commands : c.kind \in Launches => OpRows(c) # {}}

Tables == [Rids -> 0 .. NumSlots]

Types ==
    /\ finished \subseteq Rids
    /\ queue \in Seq(LogCommands)
    /\ chan \in [Workers -> Seq(LogCommands)]
    /\ done \in [Ranks -> Nat]
    /\ pc \in [Ranks -> {"idle", "run", "forward"} \cup Over]
    /\ rows \in [Ranks -> SUBSET Rids]
    /\ slots \in [Ranks -> Tables]

\* Rank 0 is executing the call at the head of the lock's queue.
Calling == pc[0] \in {"run", "forward"}

\* A rank in a forward has a plan or a batch for its command.
Calls ==
    /\ Calling => queue # <<>>
    /\ pc[0] = "forward" => Head(queue).kind \in Launches
    /\ \A w \in Workers :
          /\ pc[w] # "run"
          /\ pc[w] = "forward" => chan[w] # <<>> /\ Head(chan[w]).kind \in Launches

\* What of the log a worker has yet to complete, by position, and its end.
Entries(w) == {<<done[w] + i, chan[w][i]>> : i \in DOMAIN chan[w]}
Sent(w) == done[w] + Len(chan[w])

\* One log: workers agree on the positions they both have, and its last
\* command is the one rank 0 runs, or has completed.
Log ==
    /\ \A a, b \in Workers : \A e \in Entries(a), f \in Entries(b) :
          e[1] = f[1] => e[2] = f[2]
    /\ pc[0] = "idle" => \A w \in Workers : Sent(w) = done[0]
    /\ Calling => \A w \in Workers :
          /\ Sent(w) = done[0] + 1
          /\ \A e \in Entries(w) : e[1] = done[0] + 1 => e[2] = Head(queue)

\* A worker that lives does not complete a plan before rank 0.
NoneAhead ==
    Calling /\ Head(queue).kind \in Launches =>
        \A w \in Workers : Alive(w) => done[w] <= done[0]

\* The rows of a forward are those of its command but for aborted ones,
\* which only rank 0 knows.
RowsFollow ==
    \A r \in Ranks : pc[r] = "forward" =>
        /\ rows[r] \subseteq OpRows(Command(r))
        /\ OpRows(Command(r)) \ rows[r] \subseteq finished
        /\ r # 0 => rows[r] = OpRows(Command(r))

CommandsAgree == Types /\ Calls /\ Log /\ NoneAhead /\ RowsFollow

\* No two requests share a slot of the table t.
Apart(t) == \A p, q \in Rids : p # q /\ t[p] # 0 => t[p] # t[q]
SlotsApart == \A r \in Ranks : Apart(slots[r])

-----------------------------------------------------------------------------
(* Slot tables.                                                            *)

\* A new request whose place is below the number of free slots gets one.
LEMMA TakesFree ==
    ASSUME NEW t \in Tables, NEW n \in Nat, n < Cardinality(FreeSlots(t))
    PROVE  /\ NthFree(t, n) \in FreeSlots(t)
           /\ Cardinality(Below(FreeSlots(t), NthFree(t, n))) = n
<1>1. FreeSlots(t) \subseteq 1 .. NumSlots /\ NumSlots \in Nat
  BY ClusterAssumption DEF FreeSlots
<1>2. \E s \in FreeSlots(t) : Cardinality(Below(FreeSlots(t), s)) = n
  BY <1>1, CountTo
<1> QED
  BY <1>2 DEF NthFree, Below

\* _paged_slot hands out free slots of the runner, each once.
LEMMA TakeSlotsApart ==
    ASSUME NEW t \in Tables, NEW c \in Commands
    PROVE  /\ TakeSlots(t, c) \in Tables
           /\ Apart(t) => Apart(TakeSlots(t, c))
<1> DEFINE S == NewRows(t, c)
           F == FreeSlots(t)
           Taker(q) == q \in S /\ RankAmong(S, q) < Cardinality(F)
           u == TakeSlots(t, c)
<1>1. S \subseteq Rids /\ S \in SUBSET Nat
  BY ClusterAssumption DEF NewRows, OpRows, Commands
<1>2. \A q : RankAmong(S, q) = Cardinality(Below(S, q))
  BY DEF RankAmong, Below
<1>3. \A q \in S : RankAmong(S, q) \in Nat
  <2> TAKE q \in S
  <2>1. Below(S, q) \in SUBSET Nat /\ q \in Nat /\ \A s \in Below(S, q) : s <= q
    BY <1>1 DEF Below
  <2>2. IsFiniteSet(Below(S, q))
    BY <2>1, FS_BoundedSetOfNaturals
  <2> QED
    BY <1>2, <2>2, FS_CardinalityType
<1>4. \A q \in Rids : u[q] = IF Taker(q) THEN NthFree(t, RankAmong(S, q)) ELSE t[q]
  BY DEF TakeSlots
<1>5. u = [q \in Rids |-> u[q]]
  BY DEF TakeSlots
<1>6. F \subseteq 1 .. NumSlots /\ \A q \in Rids : t[q] \notin F
  BY DEF FreeSlots
<1> HIDE DEF S, F, u
<1>7. \A q \in Rids : Taker(q) =>
        u[q] \in F /\ Cardinality(Below(F, u[q])) = RankAmong(S, q)
  BY <1>3, <1>4, TakesFree DEF F
<1>8. \A q \in Rids : ~Taker(q) => u[q] = t[q]
  BY <1>4
<1>9. u \in Tables
  <2>1. \A q \in Rids : t[q] \in 0 .. NumSlots
    BY DEF Tables
  <2>2. \A x \in F : x \in 0 .. NumSlots
    BY <1>6, ClusterAssumption
  <2>3. \A q \in Rids : u[q] \in 0 .. NumSlots
    BY <1>7, <1>8, <2>1, <2>2
  <2> QED
    BY <1>5, <2>3 DEF Tables
<1>10. ASSUME NEW p \in Rids, NEW q \in Rids, p # q, Taker(p), Taker(q)
       PROVE  u[p] # u[q]
  <2>1. p \in S /\ q \in S /\ p \in Nat /\ q \in Nat
    BY <1>1, <1>10
  <2>2. RankAmong(S, p) # RankAmong(S, q)
    <3>1. CASE p < q
      BY <1>1, <1>2, <2>1, <3>1, PlacesDiffer
    <3>2. CASE q < p
      BY <1>1, <1>2, <2>1, <3>2, PlacesDiffer
    <3> QED
      BY <1>10, <2>1, <3>1, <3>2
  <2> QED
    BY <1>7, <1>10, <2>2
<1>11. Apart(t) => Apart(u)
  BY <1>6, <1>7, <1>8, <1>10 DEF Apart
<1> QED
  BY <1>9, <1>11 DEF u

\* A release frees slots.
LEMMA WithoutApart ==
    ASSUME NEW t \in Tables, NEW ids
    PROVE  /\ Without(t, ids) \in Tables
           /\ Apart(t) => Apart(Without(t, ids))
<1>1. 0 \in 0 .. NumSlots
  BY ClusterAssumption
<1> QED
  BY <1>1 DEF Without, Tables, Apart

-----------------------------------------------------------------------------
(* The log.                                                                *)

\* Rank 0 is a rank and no worker.
LEMMA RankSets ==
    /\ 0 \in Ranks /\ 0 \notin Workers
    /\ \A w \in Workers : w \in Ranks /\ w # 0
    /\ \A r \in Ranks : r = 0 \/ r \in Workers
BY ClusterAssumption DEF Ranks, Workers

\* A worker's part of the log: where it begins and ends.
LEMMA EntriesWithin ==
    ASSUME Types, NEW w \in Workers
    PROVE  /\ done[w] \in Nat /\ Sent(w) \in Nat /\ done[w] <= Sent(w)
           /\ \A e \in Entries(w) :
                 /\ e[1] \in Nat /\ done[w] < e[1] /\ e[1] <= Sent(w)
                 /\ e[2] \in LogCommands
           /\ chan[w] # <<>> => <<done[w] + 1, Head(chan[w])>> \in Entries(w)
<1>1. /\ chan[w] \in Seq(LogCommands) /\ done[w] \in Nat
      /\ DOMAIN chan[w] = 1 .. Len(chan[w]) /\ Len(chan[w]) \in Nat
  BY DEF Types, Workers
<1>2. ASSUME NEW e \in Entries(w)
      PROVE  /\ e[1] \in Nat /\ done[w] < e[1] /\ e[1] <= Sent(w)
             /\ e[2] \in LogCommands
  <2>1. PICK i \in DOMAIN chan[w] : e = <<done[w] + i, chan[w][i]>>
    BY DEF Entries
  <2>2. e[1] = done[w] + i /\ e[2] = chan[w][i]
    BY <2>1
  <2> QED
    BY <1>1, <2>2 DEF Sent
<1>3. ASSUME chan[w] # <<>>
      PROVE  <<done[w] + 1, Head(chan[w])>> \in Entries(w)
  <2>1. 1 \in DOMAIN chan[w] /\ Head(chan[w]) = chan[w][1]
    BY <1>1, <1>3
  <2> QED
    BY <2>1 DEF Entries
<1> QED
  BY <1>1, <1>2, <1>3 DEF Sent

\* A worker keeps its channel, or it completes its command.
Keeps(w) == done'[w] = done[w] /\ chan'[w] = chan[w]
Completes(w) ==
    /\ chan[w] # <<>>
    /\ done'[w] = done[w] + 1 /\ chan'[w] = Tail(chan[w])

\* Either way the end of the log stays and no entry of it is new.
LEMMA LogShrinks ==
    ASSUME Types, NEW w \in Workers, Keeps(w) \/ Completes(w)
    PROVE  /\ Sent(w)' = Sent(w)
           /\ Entries(w)' \subseteq Entries(w)
           /\ chan'[w] \in Seq(LogCommands) /\ done'[w] \in Nat
<1>1. /\ chan[w] \in Seq(LogCommands) /\ done[w] \in Nat
      /\ DOMAIN chan[w] = 1 .. Len(chan[w]) /\ Len(chan[w]) \in Nat
  BY DEF Types, Workers
<1>2. CASE Keeps(w)
  BY <1>1, <1>2 DEF Keeps, Sent, Entries
<1>3. CASE Completes(w)
  <2>1. /\ chan'[w] \in Seq(LogCommands) /\ Len(chan'[w]) = Len(chan[w]) - 1
        /\ DOMAIN chan'[w] = 1 .. Len(chan[w]) - 1
        /\ \A i \in 1 .. Len(chan[w]) - 1 : chan'[w][i] = chan[w][i + 1]
    BY <1>1, <1>3 DEF Completes
  <2>2. done'[w] = done[w] + 1
    BY <1>3 DEF Completes
  <2> DEFINE n == Len(chan[w])
             m == Len(chan'[w])
  <2>3. Sent(w)' = Sent(w)
    <3>1. n \in Nat /\ m = n - 1 /\ done[w] \in Nat /\ done'[w] = done[w] + 1
      BY <1>1, <2>1, <2>2
    <3>2. Sent(w)' = done'[w] + m /\ Sent(w) = done[w] + n
      BY DEF Sent
    <3> HIDE DEF n, m
    <3> QED
      BY <3>1, <3>2
  <2>4. ASSUME NEW e \in Entries(w)'
        PROVE  e \in Entries(w)
    <3>1. PICK i \in DOMAIN chan'[w] : e = <<done'[w] + i, chan'[w][i]>>
      BY DEF Entries
    <3>2. i \in 1 .. n - 1 /\ n \in Nat /\ chan'[w][i] = chan[w][i + 1]
      BY <1>1, <2>1
    <3>3. i + 1 \in 1 .. n /\ done'[w] + i = done[w] + (i + 1)
      <4> HIDE DEF n
      <4> QED
        BY <1>1, <2>2, <3>2
    <3> QED
      BY <1>1, <3>1, <3>2, <3>3 DEF Entries
  <2> QED
    BY <1>1, <2>1, <2>2, <2>3, <2>4
<1> QED
  BY <1>2, <1>3

\* A broadcast adds one entry at the end.
LEMMA LogGrows ==
    ASSUME Types, NEW w \in Workers, NEW c \in LogCommands,
           done'[w] = done[w], chan'[w] = Append(chan[w], c)
    PROVE  /\ Sent(w)' = Sent(w) + 1
           /\ Entries(w)' \subseteq Entries(w) \cup {<<Sent(w) + 1, c>>}
           /\ chan'[w] \in Seq(LogCommands)
           /\ chan[w] # <<>> => Head(chan'[w]) = Head(chan[w])
<1>1. /\ chan[w] \in Seq(LogCommands) /\ done[w] \in Nat
      /\ DOMAIN chan[w] = 1 .. Len(chan[w]) /\ Len(chan[w]) \in Nat
  BY DEF Types, Workers
<1>2. /\ chan'[w] \in Seq(LogCommands) /\ Len(chan'[w]) = Len(chan[w]) + 1
      /\ DOMAIN chan'[w] = 1 .. Len(chan[w]) + 1
      /\ \A i \in 1 .. Len(chan[w]) : chan'[w][i] = chan[w][i]
      /\ chan'[w][Len(chan[w]) + 1] = c
  BY <1>1
<1>3. Sent(w)' = Sent(w) + 1
  <2> DEFINE n == Len(chan[w])
             m == Len(chan'[w])
  <2>1. n \in Nat /\ m = n + 1 /\ done[w] \in Nat
    BY <1>1, <1>2
  <2>2. Sent(w)' = done[w] + m /\ Sent(w) = done[w] + n
    BY DEF Sent
  <2> HIDE DEF n, m
  <2> QED
    BY <2>1, <2>2
<1>4. ASSUME NEW e \in Entries(w)'
      PROVE  e \in Entries(w) \cup {<<Sent(w) + 1, c>>}
  <2>1. PICK i \in DOMAIN chan'[w] : e = <<done'[w] + i, chan'[w][i]>>
    BY DEF Entries
  <2>2. CASE i \in DOMAIN chan[w]
    BY <1>1, <1>2, <2>1, <2>2 DEF Entries
  <2>3. CASE i = Len(chan[w]) + 1
    <3>1. done'[w] + i = Sent(w) + 1 /\ chan'[w][i] = c
      BY <1>1, <1>2, <2>3 DEF Sent
    <3> QED
      BY <2>1, <3>1
  <2> QED
    BY <1>1, <1>2, <2>2, <2>3
<1>5. chan[w] # <<>> => Head(chan'[w]) = Head(chan[w])
  BY <1>1, <1>2
<1> QED
  BY <1>2, <1>3, <1>4, <1>5

\* The lock's queue: a call that joins it leaves its holder alone.
LEMMA CallJoins ==
    ASSUME NEW q \in Seq(LogCommands), NEW c \in LogCommands
    PROVE  /\ Append(q, c) \in Seq(LogCommands) /\ Append(q, c) # <<>>
           /\ q # <<>> => Head(Append(q, c)) = Head(q)
<1>1. /\ Append(q, c) \in Seq(LogCommands)
      /\ Len(Append(q, c)) = Len(q) + 1 /\ Len(q) \in Nat
      /\ Len(q) # 0 => Append(q, c)[1] = q[1]
  OBVIOUS
<1>2. Append(q, c) # <<>>
  BY <1>1
<1>3. q # <<>> => Head(Append(q, c)) = Head(q)
  BY <1>1, <1>2
<1> QED
  BY <1>1, <1>2, <1>3

\* A rank has a command to run.
HasCommand(r) == IF r = 0 THEN Calling ELSE chan[r] # <<>>

LEMMA CommandType ==
    ASSUME Types, Calls, NEW r \in Ranks, HasCommand(r)
    PROVE  Command(r) \in LogCommands /\ Command(r) \in Commands
<1>1. Command(r) \in LogCommands
  BY RankSets DEF HasCommand, Command, Types, Calls
<1> QED
  BY <1>1 DEF LogCommands

\* Two ranks that completed as many commands have the same one now.
LEMMA SameCommand ==
    ASSUME Types, Log, NEW a \in Ranks, NEW b \in Ranks,
           HasCommand(a), HasCommand(b), done[a] = done[b]
    PROVE  Command(a) = Command(b)
<1>1. \A r \in Ranks : r = 0 \/ r \in Workers
  BY DEF Workers
<1>2. ASSUME NEW w \in Workers, chan[w] # <<>>, Calling, done[w] = done[0]
      PROVE  Head(chan[w]) = Head(queue)
  <2>1. <<done[w] + 1, Head(chan[w])>> \in Entries(w)
    BY <1>2, EntriesWithin
  <2> QED
    BY <1>2, <2>1 DEF Log
<1>3. CASE a \in Workers /\ b \in Workers
  <2>1. a # 0 /\ b # 0
    BY <1>3 DEF Workers
  <2>2. /\ <<done[a] + 1, Head(chan[a])>> \in Entries(a)
        /\ <<done[b] + 1, Head(chan[b])>> \in Entries(b)
    BY <1>3, <2>1, EntriesWithin DEF HasCommand
  <2> QED
    BY <1>3, <2>1, <2>2 DEF Log, Command
<1> QED
  BY <1>1, <1>2, <1>3 DEF HasCommand, Command, Workers

-----------------------------------------------------------------------------
(* What a step does to the log, rank by rank.                              *)

\* Rank 0 goes on with its call or ends its process, or the call ends.
ZeroKeeps ==
    /\ done'[0] = done[0]
    /\ pc'[0] = "idle" => pc[0] = "idle"
    /\ Calling' => Calling /\ Head(queue') = Head(queue)
ZeroCompletes == Calling /\ pc'[0] = "idle" /\ done'[0] = done[0] + 1

\* A worker that lives completes a plan only together with rank 0.
WorkerStep(w) ==
    /\ Alive(w)' => Alive(w)
    /\ \/ Keeps(w)
       \/ Completes(w) /\ (Head(chan[w]).kind \notin Launches \/ ~Alive(w)' \/ ZeroCompletes)

\* A rank in a forward was there before, or has just entered it.
ForwardStep(r) ==
    pc'[r] = "forward" =>
        /\ Command(r)' = Command(r)
        /\ \/ pc[r] = "forward" /\ rows'[r] = rows[r]
           \/ rows'[r] = ActiveRows(r, Command(r))

LEMMA AgreeKept ==
    ASSUME CommandsAgree, Types', Calls', finished \subseteq finished',
           ZeroKeeps \/ ZeroCompletes,
           \A w \in Workers : WorkerStep(w),
           \A r \in Ranks : ForwardStep(r)
    PROVE  /\ CommandsAgree'
           /\ \A w \in Workers : Entries(w)' \subseteq Entries(w)
<1>1. Types /\ Calls /\ Log /\ NoneAhead /\ RowsFollow
  BY DEF CommandsAgree
<1>2. \A w \in Workers : Sent(w)' = Sent(w) /\ Entries(w)' \subseteq Entries(w)
  BY <1>1, LogShrinks DEF WorkerStep
<1>3. Log'
  <2>1. \A a, b \in Workers : \A e \in Entries(a)', f \in Entries(b)' :
          e[1] = f[1] => e[2] = f[2]
    BY <1>1, <1>2 DEF Log
  <2>2. ASSUME pc'[0] = "idle", NEW w \in Workers
        PROVE  Sent(w)' = done'[0]
    BY <1>1, <1>2, <2>2 DEF Log, ZeroKeeps, ZeroCompletes, Calling
  <2>3. ASSUME Calling', NEW w \in Workers
        PROVE  /\ Sent(w)' = done'[0] + 1
               /\ \A e \in Entries(w)' : e[1] = done'[0] + 1 => e[2] = Head(queue')
    <3>1. ZeroKeeps
      BY <2>3 DEF ZeroCompletes, Calling
    <3> QED
      BY <1>1, <1>2, <2>3, <3>1 DEF Log, ZeroKeeps
  <2> QED
    BY <2>1, <2>2, <2>3 DEF Log
<1>4. NoneAhead'
  <2> SUFFICES ASSUME Calling', Head(queue').kind \in Launches,
                      NEW w \in Workers, Alive(w)'
               PROVE  done'[w] <= done'[0]
    BY DEF NoneAhead
  <2>1. ZeroKeeps /\ ~ZeroCompletes
    BY DEF ZeroCompletes, Calling
  <2>2. /\ Calling /\ Head(queue).kind \in Launches /\ Head(queue') = Head(queue)
        /\ Alive(w) /\ done'[0] = done[0]
    BY <2>1 DEF ZeroKeeps, WorkerStep
  <2>3. done[w] <= done[0] /\ done[w] \in Nat /\ done[0] \in Nat
    BY <1>1, <2>2, RankSets DEF NoneAhead, Types
  <2>4. CASE Keeps(w)
    BY <2>2, <2>3, <2>4 DEF Keeps
  <2>5. CASE Completes(w) /\ Head(chan[w]).kind \notin Launches
    <3>1. <<done[w] + 1, Head(chan[w])>> \in Entries(w)
      BY <1>1, <2>5, EntriesWithin DEF Completes
    <3>2. done[w] # done[0]
      BY <1>1, <2>2, <2>5, <3>1 DEF Log
    <3> QED
      BY <2>2, <2>3, <2>5, <3>2 DEF Completes
  <2> QED
    BY <2>1, <2>4, <2>5 DEF WorkerStep
<1>5. RowsFollow'
  <2> SUFFICES ASSUME NEW r \in Ranks, pc'[r] = "forward"
               PROVE  /\ rows'[r] \subseteq OpRows(Command(r)')
                      /\ OpRows(Command(r)') \ rows'[r] \subseteq finished'
                      /\ r # 0 => rows'[r] = OpRows(Command(r)')
    BY DEF RowsFollow, Command
  <2>1. Command(r)' = Command(r)
    BY DEF ForwardStep
  <2>2. CASE pc[r] = "forward" /\ rows'[r] = rows[r]
    BY <1>1, <2>1, <2>2 DEF RowsFollow
  <2>3. CASE rows'[r] = ActiveRows(r, Command(r))
    BY <2>1, <2>3 DEF ActiveRows, OpRows
  <2> QED
    BY <2>2, <2>3 DEF ForwardStep
<1> QED
  BY <1>2, <1>3, <1>4, <1>5 DEF CommandsAgree

-----------------------------------------------------------------------------
(* Steps that end no call.                                                 *)

\* Submissions, plans and aborts only queue for the executor lock.
LEMMA EngineAgrees ==
    ASSUME CommandsAgree, UNCHANGED <<pc, rows, slots, done, chan>>,
           finished' \subseteq Rids, finished \subseteq finished',
           \/ queue' = queue
           \/ \E c \in LogCommands : queue' = Append(queue, c)
    PROVE  CommandsAgree' /\ (Calling => Head(queue') = Head(queue))
<1>1. Types /\ Calls
  BY DEF CommandsAgree
<1>2. /\ queue' \in Seq(LogCommands)
      /\ queue # <<>> => queue' # <<>> /\ Head(queue') = Head(queue)
  BY <1>1, CallJoins DEF Types
<1>3. Types'
  BY <1>1, <1>2 DEF Types
<1>4. Calling => Head(queue') = Head(queue) /\ queue' # <<>>
  BY <1>1, <1>2 DEF Calls
<1>5. Calls'
  BY <1>1, <1>4 DEF Calls, Calling
<1>6. ZeroKeeps
  BY <1>4 DEF ZeroKeeps, Calling
<1>7. \A w \in Workers : WorkerStep(w)
  BY DEF WorkerStep, Keeps, Alive
<1>8. \A r \in Ranks : ForwardStep(r)
  BY <1>4 DEF ForwardStep, Command, Calling
<1> QED
  BY <1>3, <1>4, <1>5, <1>6, <1>7, <1>8, AgreeKept

\* A process ends, or nothing happens to a rank.
LEMMA DeathAgrees ==
    ASSUME CommandsAgree, UNCHANGED <<finished, queue, rows, slots, done, chan>>,
           pc' \in [Ranks -> {"idle", "run", "forward"} \cup Over],
           \A r \in Ranks : pc'[r] = pc[r] \/ pc'[r] \in Over
    PROVE  CommandsAgree'
<1>1. Types /\ Calls
  BY DEF CommandsAgree
<1>2. Types'
  BY <1>1 DEF Types
<1>3. Calls'
  BY <1>1, RankSets DEF Calls, Calling, Over
<1>4. ZeroKeeps
  BY RankSets DEF ZeroKeeps, Calling, Over
<1>5. \A w \in Workers : WorkerStep(w)
  BY RankSets DEF WorkerStep, Keeps, Alive
<1>6. \A r \in Ranks : ForwardStep(r)
  BY DEF ForwardStep, Command, Over
<1> QED
  BY <1>2, <1>3, <1>4, <1>5, <1>6, AgreeKept

\* A command goes to every worker while rank 0 is between calls.
LEMMA AllGrow ==
    ASSUME Types, Log, pc[0] = "idle", NEW c \in LogCommands, done' = done,
           chan' = [w \in Workers |-> Append(chan[w], c)]
    PROVE  /\ chan' \in [Workers -> Seq(LogCommands)]
           /\ \A w \in Workers :
                 /\ Sent(w)' = done[0] + 1 /\ done[w] <= done[0]
                 /\ \A e \in Entries(w) : e[1] \in Nat /\ e[1] <= done[0]
                 /\ \A e \in Entries(w)' :
                       e \in Entries(w) \/ (e[1] = done[0] + 1 /\ e[2] = c)
                 /\ chan[w] # <<>> => Head(chan'[w]) = Head(chan[w])
                 /\ chan'[w] # <<>>
           /\ \A a, b \in Workers : \A e \in Entries(a)', f \in Entries(b)' :
                 e[1] = f[1] => e[2] = f[2]
<1>1. ASSUME NEW w \in Workers
      PROVE  /\ Sent(w)' = done[0] + 1 /\ done[w] <= done[0]
             /\ \A e \in Entries(w) : e[1] \in Nat /\ e[1] <= done[0]
             /\ \A e \in Entries(w)' :
                   e \in Entries(w) \/ (e[1] = done[0] + 1 /\ e[2] = c)
             /\ chan'[w] \in Seq(LogCommands)
             /\ chan[w] # <<>> => Head(chan'[w]) = Head(chan[w])
             /\ chan'[w] # <<>>
  <2>1. Sent(w) = done[0]
    BY DEF Log
  <2>2. chan'[w] = Append(chan[w], c) /\ done'[w] = done[w] /\ chan[w] \in Seq(LogCommands)
    BY DEF Types
  <2>3. /\ Sent(w)' = Sent(w) + 1
        /\ Entries(w)' \subseteq Entries(w) \cup {<<Sent(w) + 1, c>>}
        /\ chan'[w] \in Seq(LogCommands)
    BY <2>2, LogGrows
  <2>4. done[w] <= done[0] /\ \A e \in Entries(w) : e[1] \in Nat /\ e[1] <= done[0]
    BY <2>1, EntriesWithin
  <2> QED
    BY <2>1, <2>2, <2>3, <2>4, CallJoins
<1>2. chan' \in [Workers -> Seq(LogCommands)]
  BY <1>1
<1>3. done[0] \in Nat
  BY RankSets DEF Types
<1>4. ASSUME NEW a \in Workers, NEW b \in Workers,
             NEW e \in Entries(a)', NEW f \in Entries(b)', e[1] = f[1]
      PROVE  e[2] = f[2]
  <2>1. \A g \in Entries(a) \cup Entries(b) : g[1] # done[0] + 1
    BY <1>1, <1>3
  <2>2. /\ e \in Entries(a) \/ (e[1] = done[0] + 1 /\ e[2] = c)
        /\ f \in Entries(b) \/ (f[1] = done[0] + 1 /\ f[2] = c)
    BY <1>1
  <2> QED
    BY <1>4, <2>1, <2>2 DEF Log
<1> QED
  BY <1>1, <1>2, <1>4

\* The holder of the lock broadcasts its call.
LEMMA BroadcastAgrees ==
    ASSUME CommandsAgree, Broadcast
    PROVE  CommandsAgree'
<1> DEFINE c == Head(queue)
<1>1. Types /\ Calls /\ Log /\ NoneAhead /\ RowsFollow
  BY DEF CommandsAgree
<1>2. /\ pc[0] = "idle" /\ queue # <<>> /\ UNCHANGED <<finished, queue, rows, slots, done>>
      /\ chan' = [w \in Workers |-> Append(chan[w], c)]
      /\ pc' = [pc EXCEPT ![0] = "run"]
  BY DEF Broadcast, engineVars
<1>3. c \in LogCommands
  BY <1>1, <1>2 DEF Types
<1>4. /\ pc'[0] = "run" /\ \A w \in Workers : pc'[w] = pc[w]
      /\ pc' \in [Ranks -> {"idle", "run", "forward"} \cup Over]
  BY <1>1, <1>2, RankSets DEF Types
<1> HIDE DEF c
<1>5. /\ chan' \in [Workers -> Seq(LogCommands)]
      /\ \A w \in Workers :
            /\ Sent(w)' = done[0] + 1 /\ done[w] <= done[0]
            /\ \A e \in Entries(w) : e[1] # done[0] + 1
            /\ \A e \in Entries(w)' :
                  e \in Entries(w) \/ (e[1] = done[0] + 1 /\ e[2] = c)
            /\ chan[w] # <<>> => Head(chan'[w]) = Head(chan[w])
            /\ chan'[w] # <<>>
      /\ \A a, b \in Workers : \A e \in Entries(a)', f \in Entries(b)' :
            e[1] = f[1] => e[2] = f[2]
  <2>1. done[0] \in Nat /\ \A n \in Nat : n <= done[0] => n # done[0] + 1
    BY <1>1, RankSets DEF Types
  <2> QED
    BY <1>1, <1>2, <1>3, <2>1, AllGrow
<1>6. Types'
  BY <1>1, <1>2, <1>4, <1>5 DEF Types
<1>7. Calls'
  BY <1>1, <1>2, <1>4, <1>5 DEF Calls, Calling
<1>8. Log'
  <2>1. ASSUME NEW w \in Workers
        PROVE  /\ Sent(w)' = done'[0] + 1
               /\ \A e \in Entries(w)' : e[1] = done'[0] + 1 => e[2] = Head(queue')
    BY <1>2, <1>5 DEF c
  <2> QED
    BY <1>4, <1>5, <2>1 DEF Log
<1>9. NoneAhead'
  BY <1>2, <1>5 DEF NoneAhead
<1>10. RowsFollow'
  <2> SUFFICES ASSUME NEW r \in Ranks, pc'[r] = "forward"
               PROVE  pc[r] = "forward" /\ Command(r)' = Command(r)
    BY <1>1, <1>2 DEF RowsFollow, Command
  <2> QED
    BY <1>1, <1>4, <1>5, RankSets DEF Calls, Command
<1> QED
  BY <1>6, <1>7, <1>8, <1>9, <1>10 DEF CommandsAgree

\* Rank 0 tells the workers to stop and ends.
LEMMA ShutdownAgrees ==
    ASSUME CommandsAgree, ShutdownWorkers
    PROVE  CommandsAgree'
<1> DEFINE c == ShutdownCommand
<1>1. Types /\ Calls /\ Log /\ NoneAhead /\ RowsFollow
  BY DEF CommandsAgree
<1>2. /\ pc[0] = "idle" /\ UNCHANGED <<finished, queue, rows, slots, done>>
      /\ chan' = [w \in Workers |-> Append(chan[w], c)]
      /\ pc' = [pc EXCEPT ![0] = "exited"]
  BY DEF ShutdownWorkers, engineVars
<1>3. c \in LogCommands
  BY DEF ShutdownCommand, StartupCommand, LogCommands, Commands, Launches
<1>4. /\ pc'[0] = "exited" /\ \A w \in Workers : pc'[w] = pc[w]
      /\ pc' \in [Ranks -> {"idle", "run", "forward"} \cup Over]
  BY <1>1, <1>2, RankSets DEF Types, Over
<1> HIDE DEF c
<1>5. /\ chan' \in [Workers -> Seq(LogCommands)]
      /\ \A w \in Workers :
            /\ chan[w] # <<>> => Head(chan'[w]) = Head(chan[w])
            /\ chan'[w] # <<>>
      /\ \A a, b \in Workers : \A e \in Entries(a)', f \in Entries(b)' :
            e[1] = f[1] => e[2] = f[2]
  BY <1>1, <1>2, <1>3, AllGrow
<1>6. Types'
  BY <1>1, <1>2, <1>4, <1>5 DEF Types
<1>7. Calls' /\ NoneAhead'
  BY <1>1, <1>2, <1>4, <1>5 DEF Calls, Calling, NoneAhead
<1>8. Log'
  BY <1>4, <1>5 DEF Log, Calling
<1>9. RowsFollow'
  <2> SUFFICES ASSUME NEW r \in Ranks, pc'[r] = "forward"
               PROVE  pc[r] = "forward" /\ Command(r)' = Command(r)
    BY <1>1, <1>2 DEF RowsFollow, Command
  <2> QED
    BY <1>1, <1>4, <1>5, RankSets DEF Calls, Command
<1> QED
  BY <1>6, <1>7, <1>8, <1>9 DEF CommandsAgree

-----------------------------------------------------------------------------
(* Steps that end a call.                                                  *)

\* The engine's side keeps the lock's queue well formed.
LEMMA CallOverTypes ==
    ASSUME Types, queue # <<>>, NEW ids, ids \subseteq Rids, CallOver(ids)
    PROVE  queue' \in Seq(LogCommands)
<1>1. queue \in Seq(LogCommands)
  BY DEF Types
<1>2. Tail(queue) \in Seq(LogCommands)
  BY <1>1
<1>3. ReleaseCommand(ids, TRUE) \in LogCommands
  BY DEF ReleaseCommand, LogCommands, Commands, Launches
<1> QED
  BY <1>2, <1>3, CallJoins DEF CallOver

\* The ranks of R complete their commands, the others do nothing.
LEMMA CompletedKeeps ==
    ASSUME Types, NEW R, R \subseteq Ranks, Completed(R),
           done' = [r \in Ranks |-> IF r \in R THEN done[r] + 1 ELSE done[r]],
           \A w \in Workers \cap R : chan[w] # <<>>
    PROVE  /\ \A w \in Workers : IF w \in R THEN Completes(w) ELSE Keeps(w)
           /\ chan' \in [Workers -> Seq(LogCommands)] /\ done' \in [Ranks -> Nat]
<1>1. \A w \in Workers : IF w \in R THEN Completes(w) ELSE Keeps(w)
  BY RankSets DEF Completed, Completes, Keeps
<1>2. \A w \in Workers : chan'[w] \in Seq(LogCommands)
  BY <1>1, LogShrinks
<1>3. chan' \in [Workers -> Seq(LogCommands)]
  BY <1>2 DEF Completed
<1>4. done' \in [Ranks -> Nat]
  BY DEF Types
<1> QED
  BY <1>1, <1>3, <1>4

\* A rank completes its command on its own and goes on.
LEMMA ReturnAgrees ==
    ASSUME CommandsAgree, NEW r \in Ranks, HasCommand(r), pc[r] # "forward",
           Alive(r), r # 0 => Command(r).kind \notin Launches,
           Return(r), IF r = 0 THEN CallOver({}) ELSE UNCHANGED queue,
           UNCHANGED finished, rows' \in [Ranks -> SUBSET Rids],
           slots' \in [Ranks -> Tables],
           \A q \in Ranks \ {r} : rows'[q] = rows[q]
    PROVE  /\ CommandsAgree'
           /\ \A w \in Workers : Entries(w)' \subseteq Entries(w)
<1>1. Types /\ Calls
  BY DEF CommandsAgree
<1>2. /\ pc'[r] = "idle" /\ \A q \in Ranks \ {r} : pc'[q] = pc[q]
      /\ pc' \in [Ranks -> {"idle", "run", "forward"} \cup Over]
  BY <1>1 DEF Return, Types
<1>3. done' = [q \in Ranks |-> IF q \in {r} THEN done[q] + 1 ELSE done[q]]
  BY <1>1 DEF Return, Types
<1>4. \A w \in Workers \cap {r} : chan[w] # <<>>
  BY RankSets DEF HasCommand
<1>5. /\ \A w \in Workers : IF w \in {r} THEN Completes(w) ELSE Keeps(w)
      /\ chan' \in [Workers -> Seq(LogCommands)] /\ done' \in [Ranks -> Nat]
  BY <1>1, <1>3, <1>4, CompletedKeeps DEF Return
<1>6. queue' \in Seq(LogCommands)
  BY <1>1, CallOverTypes DEF HasCommand, Calls, Types
<1>7. Types'
  BY <1>1, <1>2, <1>5, <1>6 DEF Types
<1>8. Calls'
  <2>1. ASSUME r # 0
        PROVE  Calling' = Calling /\ queue' = queue /\ pc'[0] = pc[0]
    BY <1>2, <2>1, RankSets DEF Calling
  <2>2. r = 0 => ~Calling' /\ pc'[0] = "idle"
    BY <1>2 DEF Calling
  <2>3. \A w \in Workers : w # r => chan'[w] = chan[w] /\ pc'[w] = pc[w]
    BY <1>2, <1>5, RankSets DEF Keeps
  <2> QED
    BY <1>1, <1>2, <2>1, <2>2, <2>3 DEF Calls
<1>9. ZeroKeeps \/ ZeroCompletes
  BY <1>2, <1>3, RankSets DEF ZeroKeeps, ZeroCompletes, HasCommand, Calling
<1>10. \A w \in Workers : WorkerStep(w)
  BY <1>2, <1>5, RankSets DEF WorkerStep, Alive, Command
<1>11. \A q \in Ranks : ForwardStep(q)
  BY <1>2, <1>5, RankSets DEF ForwardStep, Command, Keeps
<1> QED
  BY <1>7, <1>8, <1>9, <1>10, <1>11, AgreeKept

\* Calls with no forward.
LEMMA RunAgrees ==
    ASSUME CommandsAgree, NEW r \in Ranks, RunStartup(r) \/ RunRelease(r)
    PROVE  CommandsAgree'
<1>1. Types /\ Calls
  BY DEF CommandsAgree
<1>2. /\ HasCommand(r) /\ pc[r] # "forward" /\ Alive(r)
      /\ Command(r).kind \notin Launches
  BY DEF RunStartup, RunRelease, Runs, Launches, HasCommand, Calling, Alive, Over
<1>3. slots' \in [Ranks -> Tables]
  <2>1. CASE RunStartup(r)
    BY <1>1, <2>1 DEF RunStartup, Types
  <2>2. CASE RunRelease(r)
    <3>1. Without(slots[r], Command(r).pre) \in Tables
      BY <1>1, WithoutApart DEF Types
    <3> QED
      BY <1>1, <2>2, <3>1 DEF RunRelease, Types
  <2> QED
    BY <2>1, <2>2
<1>4. /\ Return(r) /\ IF r = 0 THEN CallOver({}) ELSE UNCHANGED queue
      /\ UNCHANGED <<finished, rows>>
  BY DEF RunStartup, RunRelease
<1> QED
  BY <1>1, <1>2, <1>3, <1>4, ReturnAgrees DEF Types

\* A rank enters the forward of a plan, or has no active row.
LEMMA EnterAgrees ==
    ASSUME CommandsAgree, NEW r \in Ranks, EnterForward(r)
    PROVE  CommandsAgree'
<1>1. Types /\ Calls
  BY DEF CommandsAgree
<1>2. /\ HasCommand(r) /\ pc[r] # "forward" /\ Alive(r)
      /\ Command(r).kind \in Launches
  BY DEF EnterForward, RunsLaunch, Runs, HasCommand, Calling, Alive, Over
<1>3. Command(r) \in LogCommands
  BY <1>1, <1>2, CommandType
<1>4. /\ ActiveRows(r, Command(r)) \subseteq Rids
      /\ r # 0 => ActiveRows(r, Command(r)) # {}
  BY <1>2, <1>3 DEF ActiveRows, LogCommands, Commands, OpRows
<1>5. slots' \in [Ranks -> Tables]
  <2>1. TakeSlots(slots[r], Command(r)) \in Tables
    BY <1>1, <1>3, TakeSlotsApart DEF Types, LogCommands
  <2> QED
    BY <1>1, <2>1 DEF EnterForward, Types
<1>6. /\ rows' = [rows EXCEPT ![r] = ActiveRows(r, Command(r))]
      /\ rows' \in [Ranks -> SUBSET Rids]
      /\ UNCHANGED finished
  BY <1>1, <1>4 DEF EnterForward, Types
<1>7. CASE ActiveRows(r, Command(r)) = {}
  <2>1. r = 0 /\ Return(r) /\ CallOver({})
    BY <1>4, <1>7 DEF EnterForward
  <2> QED
    BY <1>1, <1>2, <1>5, <1>6, <2>1, ReturnAgrees DEF Types
<1>8. CASE ActiveRows(r, Command(r)) # {}
  <2>1. pc' = [pc EXCEPT ![r] = "forward"] /\ UNCHANGED <<done, chan, queue>>
    BY <1>8 DEF EnterForward
  <2>2. /\ pc'[r] = "forward" /\ \A q \in Ranks \ {r} : pc'[q] = pc[q]
        /\ pc' \in [Ranks -> {"idle", "run", "forward"} \cup Over]
    BY <1>1, <2>1 DEF Types
  <2>3. Types'
    BY <1>1, <1>5, <1>6, <2>1, <2>2 DEF Types
  <2>4. Calling' = Calling /\ (pc'[0] = "idle" => pc[0] = "idle")
    BY <1>2, <2>2, RankSets DEF Calling, HasCommand
  <2>5. Calls'
    BY <1>1, <1>2, <2>1, <2>2, <2>4, RankSets DEF Calls, HasCommand, Command
  <2>6. ZeroKeeps
    BY <2>1, <2>4 DEF ZeroKeeps
  <2>7. \A w \in Workers : WorkerStep(w)
    BY <1>2, <2>1, <2>2, RankSets DEF WorkerStep, Keeps, Alive
  <2>8. \A q \in Ranks : ForwardStep(q)
    BY <1>1, <1>6, <2>1, <2>2 DEF ForwardStep, Command, Types
  <2> QED
    BY <1>6, <2>3, <2>5, <2>6, <2>7, <2>8, AgreeKept
<1> QED
  BY <1>7, <1>8

\* An exception ends the workers of R and, on rank 0, the call.
LEMMA RaisedAgrees ==
    ASSUME CommandsAgree, NEW R, R \subseteq Ranks,
           \A r \in R : HasCommand(r) /\ Alive(r),
           Raised(R), UNCHANGED rows, slots' \in [Ranks -> Tables]
    PROVE  /\ CommandsAgree'
           /\ \A w \in Workers : Entries(w)' \subseteq Entries(w)
<1>1. Types /\ Calls
  BY DEF CommandsAgree
<1>2. /\ \A r \in Ranks : pc'[r] = IF r \notin R THEN pc[r]
                                  ELSE IF r = 0 THEN "idle" ELSE "failed"
      /\ pc' \in [Ranks -> {"idle", "run", "forward"} \cup Over]
  BY <1>1 DEF Raised, Types, Over
<1>3. /\ \A w \in Workers : IF w \in R THEN Completes(w) ELSE Keeps(w)
      /\ chan' \in [Workers -> Seq(LogCommands)] /\ done' \in [Ranks -> Nat]
  BY <1>1, CompletedKeeps, RankSets DEF Raised, HasCommand
<1>4. 0 \in R => Calling /\ Command(0) \in LogCommands /\ queue # <<>>
  BY <1>1, RankSets DEF HasCommand, Command, Types, Calls
<1>5. OpRows(Command(0)) \subseteq Rids \/ 0 \notin R
  BY <1>4 DEF OpRows, LogCommands, Commands, Launches
<1>6. queue' \in Seq(LogCommands) /\ finished' \subseteq Rids /\ finished \subseteq finished'
  <2>1. CASE 0 \in R
    <3>1. /\ finished' = finished \cup OpRows(Command(0))
          /\ CallOver(OpRows(Command(0)) \ finished)
      BY <2>1 DEF Raised
    <3>2. queue' \in Seq(LogCommands)
      BY <1>1, <1>4, <1>5, <2>1, <3>1, CallOverTypes
    <3> QED
      BY <1>1, <1>5, <2>1, <3>1, <3>2 DEF Types
  <2>2. CASE 0 \notin R
    BY <1>1, <2>2 DEF Raised, Types
  <2> QED
    BY <2>1, <2>2
<1>7. Types'
  BY <1>1, <1>2, <1>3, <1>6 DEF Types
<1>8. 0 \notin R => pc'[0] = pc[0] /\ queue' = queue /\ done'[0] = done[0]
  BY <1>2, RankSets DEF Raised
<1>9. 0 \in R => pc'[0] = "idle" /\ done'[0] = done[0] + 1
  BY <1>2, RankSets DEF Raised
<1>10. \A w \in Workers : w \notin R => chan'[w] = chan[w] /\ pc'[w] = pc[w]
  BY <1>2, <1>3, RankSets DEF Keeps
<1>11. \A w \in Workers : w \in R => pc'[w] = "failed"
  BY <1>2, RankSets
<1>12. Calls'
  BY <1>1, <1>8, <1>9, <1>10, <1>11 DEF Calls, Calling
<1>13. ZeroKeeps \/ ZeroCompletes
  BY <1>4, <1>8, <1>9 DEF ZeroKeeps, ZeroCompletes, Calling
<1>14. \A w \in Workers : WorkerStep(w)
  BY <1>3, <1>10, <1>11 DEF WorkerStep, Alive, Over
<1>15. \A r \in Ranks : ForwardStep(r)
  BY <1>8, <1>9, <1>10, <1>11, RankSets DEF ForwardStep, Command
<1> QED
  BY <1>6, <1>7, <1>12, <1>13, <1>14, <1>15, AgreeKept

LEMMA FaultAgrees ==
    ASSUME CommandsAgree,
           (\E r \in Ranks : SlotLimit(r)) \/ (\E R \in SUBSET Ranks : ForwardRaises(R))
    PROVE  CommandsAgree'
<1>1. Types /\ Calls
  BY DEF CommandsAgree
<1>2. ASSUME NEW r \in Ranks, SlotLimit(r)
      PROVE  CommandsAgree'
  <2>1. HasCommand(r) /\ Alive(r)
    BY <1>2 DEF SlotLimit, Runs, Launches, HasCommand, Calling, Alive, Over
  <2>2. Command(r) \in Commands
    BY <1>1, <2>1, CommandType
  <2>3. slots' \in [Ranks -> Tables]
    <3>1. TakeSlots(slots[r], Command(r)) \in Tables
      BY <1>1, <2>2, TakeSlotsApart DEF Types
    <3> QED
      BY <1>1, <1>2, <3>1 DEF SlotLimit, Types
  <2> QED
    BY <1>2, <2>1, <2>3, RaisedAgrees DEF SlotLimit
<1>3. ASSUME NEW R \in SUBSET Ranks, ForwardRaises(R)
      PROVE  CommandsAgree'
  <2>1. \A r \in R : HasCommand(r) /\ Alive(r)
    BY <1>1, <1>3, RankSets
       DEF ForwardRaises, Meeting, HasCommand, Calling, Alive, Over, Calls
  <2>2. slots' \in [Ranks -> Tables]
    <3>1. \A r \in Ranks : slots[r] \in Tables /\ Without(slots[r], OpRows(Command(r))) \in Tables
      BY <1>1, WithoutApart DEF Types
    <3> QED
      BY <1>3, <3>1 DEF ForwardRaises
  <2> QED
    BY <1>3, <2>1, <2>2, RaisedAgrees DEF ForwardRaises
<1> QED
  BY <1>2, <1>3

\* All ranks complete the same forward.
LEMMA ForwardAgrees ==
    ASSUME CommandsAgree, NEW fin \in SUBSET Rids, Forward(fin)
    PROVE  /\ CommandsAgree'
           /\ \A w \in Workers : Entries(w)' \subseteq Entries(w)
<1>1. Types /\ Calls
  BY DEF CommandsAgree
<1>2. \A r \in Ranks : pc[r] = "forward" /\ pc'[r] = "idle" /\ HasCommand(r)
  BY <1>1, RankSets DEF Forward, Meeting, Calls, HasCommand, Calling
<1>3. done' = [r \in Ranks |-> IF r \in Ranks THEN done[r] + 1 ELSE done[r]]
  BY DEF Forward
<1>4. /\ \A w \in Workers : Completes(w)
      /\ chan' \in [Workers -> Seq(LogCommands)] /\ done' \in [Ranks -> Nat]
  BY <1>1, <1>2, <1>3, CompletedKeeps, RankSets DEF Forward, HasCommand
<1>5. queue' \in Seq(LogCommands)
  <2>1. queue # <<>> /\ fin \ finished \subseteq Rids /\ CallOver(fin \ finished)
    BY <1>1, <1>2, RankSets DEF Forward, HasCommand, Calls
  <2> QED
    BY <1>1, <2>1, CallOverTypes
<1>6. finished' \subseteq Rids /\ finished \subseteq finished'
  BY <1>1 DEF Forward, Types
<1>7. slots' \in [Ranks -> Tables]
  <2>1. \A r \in Ranks : Without(slots[r], fin) \in Tables
    BY <1>1, WithoutApart DEF Types
  <2> QED
    BY <2>1 DEF Forward
<1>8. Types'
  <2>1. pc' \in [Ranks -> {"idle", "run", "forward"} \cup Over] /\ rows' = rows
    BY DEF Forward
  <2> QED
    BY <1>1, <1>4, <1>5, <1>6, <1>7, <2>1 DEF Types
<1>9. Calls'
  BY <1>2, RankSets DEF Calls, Calling
<1>10. ZeroCompletes
  BY <1>2, <1>3, RankSets DEF ZeroCompletes, HasCommand
<1>11. \A w \in Workers : WorkerStep(w)
  BY <1>2, <1>4, <1>10, RankSets DEF WorkerStep, Alive, Over
<1>12. \A r \in Ranks : ForwardStep(r)
  BY <1>2 DEF ForwardStep
<1> QED
  BY <1>6, <1>8, <1>9, <1>10, <1>11, <1>12, AgreeKept

-----------------------------------------------------------------------------
(* The first theorem: rows.                                                *)

LEMMA InitAgrees ==
    ASSUME Init
    PROVE  CommandsAgree /\ SlotsApart
<1>1. Types
  <2>1. StartupCommand \in LogCommands
    BY DEF StartupCommand, LogCommands, Commands, Launches
  <2>2. 0 \in 0 .. NumSlots
    BY ClusterAssumption
  <2>3. \A r \in Ranks : slots[r] \in Tables
    BY <2>2 DEF Init, Tables
  <2> QED
    BY <2>1, <2>3 DEF Init, Types
<1>2. pc[0] = "idle" /\ ~Calling /\ \A r \in Ranks : pc[r] = "idle"
  BY RankSets DEF Init, Calling
<1>3. \A w \in Workers : chan[w] = <<>> /\ done[w] = 0 /\ done[0] = 0
  BY RankSets DEF Init
<1>4. \A w \in Workers : Entries(w) = {} /\ Sent(w) = 0
  BY <1>3 DEF Entries, Sent
<1>5. Calls /\ Log /\ NoneAhead /\ RowsFollow
  BY <1>2, <1>3, <1>4, RankSets DEF Calls, Log, NoneAhead, RowsFollow
<1>6. SlotsApart
  BY DEF Init, SlotsApart, Apart
<1> QED
  BY <1>1, <1>5, <1>6 DEF CommandsAgree

\* What the engine's steps do to the ranks.
LEMMA EngineStep ==
    ASSUME Types,
           (\E sub \in SUBSET Rids : Plan(sub) \/ Generate(sub)) \/ (\E r \in Rids : Abort(r) \/ AbortTask(r))
    PROVE  /\ UNCHANGED <<pc, rows, slots, done, chan>>
           /\ finished' \subseteq Rids /\ finished \subseteq finished'
           /\ \/ queue' = queue
              \/ \E c \in LogCommands : queue' = Append(queue, c)
<1>1. ASSUME NEW sub \in SUBSET Rids, Plan(sub)
      PROVE  \E c \in LogCommands : queue' = Append(queue, c)
  <2>1. PlanCommand(sub, {}) \in LogCommands /\ PlanCommand({}, sub) \in LogCommands
    BY <1>1 DEF Plan, PlanCommand, LogCommands, Commands, OpRows, Launches
  <2> QED
    BY <1>1, <2>1 DEF Plan
<1>2. ASSUME NEW sub \in SUBSET Rids, Generate(sub)
      PROVE  \E c \in LogCommands : queue' = Append(queue, c)
  <2>1. GenerateCommand(sub) \in LogCommands
    BY <1>2 DEF Generate, GenerateCommand, LogCommands, Commands, OpRows, Launches
  <2> QED
    BY <1>2, <2>1 DEF Generate
<1>3. ASSUME NEW r \in Rids, AbortTask(r)
      PROVE  \E c \in LogCommands : queue' = Append(queue, c)
  <2>1. ReleaseCommand({r}, FALSE) \in LogCommands
    BY DEF ReleaseCommand, LogCommands, Commands, Launches
  <2> QED
    BY <1>3, <2>1 DEF AbortTask
<1> QED
  BY <1>1, <1>2, <1>3 DEF Plan, Generate, Abort, AbortTask, rankVars, Types

\* Steps in which processes end, or the supervisor looks on.
Deaths ==
    \/ \E r \in Ranks : RunShutdown(r) \/ Watchdog(r) \/ TermEnds(r)
    \/ Supervisor \/ Signal \/ Finished \/ UNCHANGED vars

LEMMA DeathStep ==
    ASSUME Types, Deaths
    PROVE  /\ UNCHANGED <<finished, queue, rows, slots, done, chan>>
           /\ pc' \in [Ranks -> {"idle", "run", "forward"} \cup Over]
           /\ \A r \in Ranks : pc'[r] = pc[r] \/ pc'[r] \in Over
<1>1. CASE \E r \in Ranks : RunShutdown(r) \/ Watchdog(r) \/ TermEnds(r) \/ KillRemaining(r)
  BY <1>1 DEF RunShutdown, Watchdog, TermEnds, KillRemaining, engineVars, Types, Over
<1>2. CASE \/ JoinReturns \/ JoinRaises \/ GraceOver \/ Terminate \/ WaitOver
           \/ NoneRemains \/ Signal \/ Finished \/ UNCHANGED vars
  BY <1>2 DEF JoinReturns, JoinRaises, GraceOver, Terminate, WaitOver, NoneRemains,
              Signal, Finished, vars, engineVars, rankVars, Types
<1> QED
  BY <1>1, <1>2 DEF Deaths, Supervisor

LEMMA StepAgrees ==
    ASSUME CommandsAgree, [Next]_vars
    PROVE  CommandsAgree'
<1>1. Types
  BY DEF CommandsAgree
<1>2. CASE Deaths
  BY <1>1, <1>2, DeathStep, DeathAgrees
<1>3. CASE (\E sub \in SUBSET Rids : Plan(sub) \/ Generate(sub)) \/ (\E r \in Rids : Abort(r) \/ AbortTask(r))
  BY <1>1, <1>3, EngineStep, EngineAgrees
<1>4. CASE Broadcast \/ ShutdownWorkers
  BY <1>4, BroadcastAgrees, ShutdownAgrees
<1>5. CASE \E r \in Ranks : RunStartup(r) \/ RunRelease(r) \/ EnterForward(r)
  BY <1>5, RunAgrees, EnterAgrees
<1>6. CASE (\E r \in Ranks : SlotLimit(r)) \/ (\E R \in SUBSET Ranks : ForwardRaises(R))
  BY <1>6, FaultAgrees
<1>7. CASE \E fin \in SUBSET Rids : Forward(fin)
  BY <1>7, ForwardAgrees
<1> QED
  BY <1>2, <1>3, <1>4, <1>5, <1>6, <1>7 DEF Next, Engine, Run, Together, Deaths

\* Ranks in the forward of the same command run rows of that command, and
\* leave out none but aborted requests.
LEMMA AgreedRows ==
    ASSUME CommandsAgree
    PROVE  RowsDifferByAborts
<1> SUFFICES ASSUME NEW a \in Ranks, NEW b \in Ranks,
                    pc[a] = "forward", pc[b] = "forward", done[a] = done[b]
             PROVE  rows[a] \ rows[b] \subseteq finished
  BY DEF RowsDifferByAborts
<1>1. HasCommand(a) /\ HasCommand(b)
  BY RankSets DEF CommandsAgree, Calls, HasCommand, Calling
<1>2. Command(a) = Command(b)
  BY <1>1, SameCommand DEF CommandsAgree
<1> QED
  BY <1>2 DEF CommandsAgree, RowsFollow

\* Ranks only disagree about the rows of an operation by requests that were
\* aborted while it waited, whatever fails on the way.
THEOREM RowsAlwaysDifferByAborts == Spec => []RowsDifferByAborts
<1>1. Init => CommandsAgree
  BY InitAgrees
<1>2. CommandsAgree /\ [Next]_vars => CommandsAgree'
  BY StepAgrees
<1>3. CommandsAgree => RowsDifferByAborts
  BY AgreedRows
<1> QED
  BY <1>1, <1>2, <1>3, PTL DEF Spec

-----------------------------------------------------------------------------
(* The second theorem: slots.                                              *)

\* What a step does to the table of a rank.
TableStep(r) ==
    \/ slots'[r] = slots[r]
    \/ \E ids : slots'[r] = Without(slots[r], ids)
    \/ HasCommand(r) /\ slots'[r] = TakeSlots(slots[r], Command(r))

LEMMA TableSteps ==
    ASSUME CommandsAgree, [Next]_vars
    PROVE  \A r \in Ranks : TableStep(r)
<1>1. Types
  BY DEF CommandsAgree
<1>2. CASE Deaths
  BY <1>1, <1>2, DeathStep DEF TableStep
<1>3. CASE (\E sub \in SUBSET Rids : Plan(sub) \/ Generate(sub)) \/ (\E r \in Rids : Abort(r) \/ AbortTask(r))
  BY <1>1, <1>3, EngineStep DEF TableStep
<1>4. CASE Broadcast \/ ShutdownWorkers
  BY <1>4 DEF Broadcast, ShutdownWorkers, TableStep
<1>5. ASSUME NEW r \in Ranks, RunStartup(r) \/ RunRelease(r)
      PROVE  \A q \in Ranks : TableStep(q)
  BY <1>1, <1>5 DEF RunStartup, RunRelease, TableStep, Types
<1>6. ASSUME NEW r \in Ranks, EnterForward(r) \/ SlotLimit(r)
      PROVE  \A q \in Ranks : TableStep(q)
  <2>1. HasCommand(r) /\ slots' = [slots EXCEPT ![r] = TakeSlots(@, Command(r))]
    BY <1>6 DEF EnterForward, SlotLimit, RunsLaunch, Runs, HasCommand, Calling
  <2> QED
    BY <1>1, <2>1 DEF TableStep, Types
<1>7. CASE \E R \in SUBSET Ranks : ForwardRaises(R)
  BY <1>7 DEF ForwardRaises, TableStep
<1>8. CASE \E fin \in SUBSET Rids : Forward(fin)
  BY <1>8 DEF Forward, TableStep
<1> QED
  BY <1>2, <1>3, <1>4, <1>5, <1>6, <1>7, <1>8
     DEF Next, Engine, Run, Together, Deaths

LEMMA StepApart ==
    ASSUME CommandsAgree, SlotsApart, [Next]_vars
    PROVE  SlotsApart'
<1> SUFFICES ASSUME NEW r \in Ranks
             PROVE  Apart(slots'[r])
  BY DEF SlotsApart, Apart
<1>1. Types /\ Calls /\ slots[r] \in Tables /\ Apart(slots[r])
  BY DEF CommandsAgree, Types, SlotsApart
<1>2. CASE slots'[r] = slots[r]
  BY <1>1, <1>2
<1>3. CASE \E ids : slots'[r] = Without(slots[r], ids)
  BY <1>1, <1>3, WithoutApart
<1>4. CASE HasCommand(r) /\ slots'[r] = TakeSlots(slots[r], Command(r))
  BY <1>1, <1>4, CommandType, TakeSlotsApart
<1> QED
  BY <1>2, <1>3, <1>4, TableSteps DEF TableStep

\* The table after n commands, where command n does not depend on results.
Follows(h, n, c) ==
    /\ c.kind = "release" => h[n] = Without(h[n - 1], c.pre)
    /\ c.kind = "startup" => h[n] = h[n - 1]

\* h[n] is the table of every rank that completed n commands, and is what
\* the commands still in the log will make of it.
HistoryBy(h) ==
    /\ h \in [Nat -> Tables]
    /\ \A r \in Ranks : pc[r] \in {"idle", "run"} => slots[r] = h[done[r]]
    /\ \A r \in Ranks : pc[r] = "forward" =>
          slots[r] = TakeSlots(h[done[r]], Command(r))
    /\ \A w \in Workers : \A e \in Entries(w) : Follows(h, e[1], e[2])
    /\ Calling => Follows(h, done[0] + 1, Head(queue))

OneHistory == \E h : HistoryBy(h)

\* A rank that a step leaves alone.
Untouched(r) ==
    /\ pc'[r] = pc[r] /\ done'[r] = done[r] /\ slots'[r] = slots[r]
    /\ pc[r] = "forward" => Command(r)' = Command(r)

\* The history goes on when every rank stays on it.
LEMMA HistoryKept ==
    ASSUME NEW h, HistoryBy(h), \A w \in Workers : Entries(w)' \subseteq Entries(w),
           Calling' => /\ Calling /\ done'[0] = done[0]
                       /\ Head(queue') = Head(queue),
           \A r \in Ranks :
              \/ pc'[r] \in Over
              \/ Untouched(r)
              \/ pc'[r] = "idle" /\ slots'[r] = h[done'[r]]
              \/ /\ pc'[r] = "forward" /\ Command(r)' = Command(r)
                 /\ slots'[r] = TakeSlots(h[done'[r]], Command(r))
    PROVE  HistoryBy(h)'
<1>1. \A r \in Ranks : pc'[r] \in {"idle", "run"} => slots'[r] = h[done'[r]]
  BY DEF HistoryBy, Untouched, Over
<1>2. \A r \in Ranks : pc'[r] = "forward" =>
        slots'[r] = TakeSlots(h[done'[r]], Command(r)')
  BY DEF HistoryBy, Untouched, Over
<1>3. \A w \in Workers : \A e \in Entries(w)' : Follows(h, e[1], e[2])
  BY DEF HistoryBy
<1>4. Calling' => Follows(h, done'[0] + 1, Head(queue'))
  BY DEF HistoryBy
<1> QED
  BY <1>1, <1>2, <1>3, <1>4 DEF HistoryBy, Follows, Command

\* The first rank to complete a plan, rank 0, writes the next table.
LEMMA HistoryGrows ==
    ASSUME CommandsAgree, NEW h, HistoryBy(h), ZeroCompletes,
           Head(queue).kind \in Launches, slots'[0] \in Tables,
           \A w \in Workers : Entries(w)' \subseteq Entries(w),
           \A r \in Ranks :
              \/ pc'[r] \in Over
              \/ r # 0 /\ Untouched(r)
              \/ pc'[r] = "idle" /\ done'[r] = done[0] + 1 /\ slots'[r] = slots'[0]
    PROVE  OneHistory'
<1> DEFINE n == done[0]
<1>1. Types /\ Log /\ NoneAhead /\ Calls
  BY DEF CommandsAgree
<1>2. n \in Nat /\ n + 1 \in Nat /\ h \in [Nat -> Tables]
  BY <1>1, RankSets DEF Types, HistoryBy
<1>3. PICK g : /\ g \in [Nat -> Tables] /\ g[n + 1] = slots'[0]
               /\ \A m \in Nat : m # n + 1 => g[m] = h[m]
  <2> DEFINE f == [h EXCEPT ![n + 1] = slots'[0]]
  <2>1. /\ f \in [Nat -> Tables] /\ f[n + 1] = slots'[0]
        /\ \A m \in Nat : m # n + 1 => f[m] = h[m]
    BY <1>2
  <2> HIDE DEF f
  <2> QED
    BY <2>1
<1>4. \A m \in Nat : m <= n => g[m] = h[m]
  BY <1>2, <1>3
<1>5. ASSUME NEW r \in Ranks, r # 0, Untouched(r), pc[r] \notin Over
      PROVE  g[done[r]] = h[done[r]]
  <2>1. r \in Workers /\ Alive(r) /\ Calling
    BY <1>5, RankSets DEF Alive, ZeroCompletes
  <2>2. done[r] <= n /\ done[r] \in Nat
    BY <1>1, <2>1 DEF NoneAhead, Types
  <2> QED
    BY <1>4, <2>2
<1>6. \A r \in Ranks : pc'[r] \in {"idle", "run"} => slots'[r] = g[done'[r]]
  BY <1>3, <1>5 DEF HistoryBy, Untouched, Over
<1>7. \A r \in Ranks : pc'[r] = "forward" =>
        slots'[r] = TakeSlots(g[done'[r]], Command(r)')
  BY <1>5 DEF HistoryBy, Untouched, Over
<1>8. ASSUME NEW w \in Workers, NEW e \in Entries(w)'
      PROVE  Follows(g, e[1], e[2])
  <2>1. e \in Entries(w) /\ Follows(h, e[1], e[2])
    BY <1>8 DEF HistoryBy
  <2>2. e[1] \in Nat /\ done[w] \in Nat /\ done[w] < e[1] /\ e[1] <= n + 1
    BY <1>1, <2>1, EntriesWithin DEF Log, ZeroCompletes
  <2>3. CASE e[1] = n + 1
    <3>1. e[2].kind \in Launches
      BY <1>1, <2>1, <2>3 DEF Log, ZeroCompletes
    <3> QED
      BY <3>1 DEF Follows, Launches
  <2>4. CASE e[1] # n + 1
    <3>1. e[1] <= n /\ e[1] - 1 \in Nat /\ e[1] - 1 <= n
      BY <1>2, <2>2, <2>4
    <3>2. g[e[1]] = h[e[1]] /\ g[e[1] - 1] = h[e[1] - 1]
      BY <1>4, <2>2, <3>1
    <3> QED
      BY <2>1, <3>2 DEF Follows
  <2> QED
    BY <2>3, <2>4
<1>9. ~Calling'
  BY DEF ZeroCompletes, Calling
<1>10. HistoryBy(g)'
  BY <1>3, <1>6, <1>7, <1>8, <1>9 DEF HistoryBy, Follows, Command
<1> QED
  BY <1>10 DEF OneHistory

\* The engine's steps and the ends of processes write no table.
LEMMA QuietHistory ==
    ASSUME CommandsAgree, OneHistory,
           \/ Deaths
           \/ \E sub \in SUBSET Rids : Plan(sub) \/ Generate(sub)
           \/ \E r \in Rids : Abort(r) \/ AbortTask(r)
    PROVE  OneHistory'
<1>1. Types /\ Calls
  BY DEF CommandsAgree
<1>2. PICK h : HistoryBy(h)
  BY DEF OneHistory
<1>3. UNCHANGED <<slots, done, chan>>
  BY <1>1, DeathStep, EngineStep
<1>4. \A w \in Workers : Entries(w)' \subseteq Entries(w)
  BY <1>3 DEF Entries
<1>5. \A r \in Ranks : pc'[r] = pc[r] \/ pc'[r] \in Over
  BY <1>1, DeathStep, EngineStep
<1>6. Calling => Head(queue') = Head(queue)
  BY <1>1, DeathStep, EngineStep, EngineAgrees
<1>7. Calling' => Calling
  BY <1>5, RankSets DEF Calling, Over
<1>8. \A r \in Ranks : pc'[r] \in Over \/ Untouched(r)
  BY <1>3, <1>5, <1>6, RankSets DEF Untouched, Command, Calling
<1>9. HistoryBy(h)'
  BY <1>2, <1>3, <1>4, <1>6, <1>7, <1>8, HistoryKept
<1> QED
  BY <1>9 DEF OneHistory

\* With a call that is no plan, its broadcast decides the next table.
LEMMA BroadcastHistory ==
    ASSUME CommandsAgree, OneHistory, Broadcast
    PROVE  OneHistory'
<1> DEFINE n == done[0]
           c == Head(queue)
<1>1. Types /\ Log /\ NoneAhead /\ Calls
  BY DEF CommandsAgree
<1>2. /\ pc[0] = "idle" /\ queue # <<>> /\ UNCHANGED <<queue, slots, done>>
      /\ chan' = [w \in Workers |-> Append(chan[w], c)]
      /\ pc' = [pc EXCEPT ![0] = "run"]
  BY DEF Broadcast, engineVars
<1>3. PICK h : HistoryBy(h)
  BY DEF OneHistory
<1>4. n \in Nat /\ n + 1 \in Nat /\ h \in [Nat -> Tables] /\ h[n] \in Tables
  BY <1>1, <1>3, RankSets DEF Types, HistoryBy
<1>5. PICK g : /\ g \in [Nat -> Tables]
               /\ g[n + 1] = IF c.kind = "release" THEN Without(h[n], c.pre) ELSE h[n]
               /\ \A m \in Nat : m # n + 1 => g[m] = h[m]
  <2> DEFINE v == IF c.kind = "release" THEN Without(h[n], c.pre) ELSE h[n]
             f == [h EXCEPT ![n + 1] = v]
  <2>1. v \in Tables
    BY <1>4, WithoutApart
  <2> HIDE DEF v
  <2>2. /\ f \in [Nat -> Tables] /\ f[n + 1] = v
        /\ \A m \in Nat : m # n + 1 => f[m] = h[m]
    BY <1>4, <2>1
  <2> HIDE DEF f
  <2> QED
    BY <2>2 DEF v
<1>6. \A m \in Nat : m <= n => g[m] = h[m]
  BY <1>4, <1>5
<1>7. c \in LogCommands
  BY <1>1, <1>2 DEF Types
<1>8. /\ pc'[0] = "run" /\ \A w \in Workers : pc'[w] = pc[w]
  BY <1>1, <1>2, RankSets DEF Types
<1>9. Follows(g, n + 1, c)
  <2>1. (n + 1) - 1 = n /\ g[n] = h[n]
    BY <1>4, <1>6
  <2> QED
    BY <1>5, <2>1 DEF Follows
<1> HIDE DEF c
<1>10. \A w \in Workers :
         /\ done[w] <= n /\ done[w] \in Nat
         /\ \A e \in Entries(w) : e[1] \in Nat /\ e[1] <= n
         /\ \A e \in Entries(w)' : e \in Entries(w) \/ (e[1] = n + 1 /\ e[2] = c)
         /\ chan[w] # <<>> => Head(chan'[w]) = Head(chan[w])
  BY <1>1, <1>2, <1>7, AllGrow, EntriesWithin
<1>11. \A r \in Ranks : g[done[r]] = h[done[r]]
  BY <1>4, <1>6, <1>10, RankSets
<1>12. \A r \in Ranks : pc'[r] \in {"idle", "run"} => slots'[r] = g[done'[r]]
  BY <1>2, <1>3, <1>8, <1>11, RankSets DEF HistoryBy
<1>13. \A r \in Ranks : pc'[r] = "forward" =>
         slots'[r] = TakeSlots(g[done'[r]], Command(r)')
  <2> SUFFICES ASSUME NEW r \in Ranks, pc'[r] = "forward"
               PROVE  slots'[r] = TakeSlots(g[done'[r]], Command(r)')
    OBVIOUS
  <2>1. r \in Workers /\ r # 0 /\ pc[r] = "forward" /\ chan[r] # <<>>
    BY <1>1, <1>8, RankSets DEF Calls
  <2>2. Command(r)' = Command(r)
    BY <1>10, <2>1 DEF Command
  <2> QED
    BY <1>2, <1>3, <1>11, <2>1, <2>2 DEF HistoryBy
<1>14. ASSUME NEW w \in Workers, NEW e \in Entries(w)'
       PROVE  Follows(g, e[1], e[2])
  <2>1. CASE e[1] = n + 1 /\ e[2] = c
    BY <1>9, <2>1
  <2>2. CASE e \in Entries(w)
    <3>1. e[1] \in Nat /\ e[1] <= n /\ e[1] - 1 \in Nat /\ e[1] - 1 <= n
      <4>1. e[1] \in Nat /\ e[1] <= n /\ done[w] \in Nat /\ done[w] < e[1]
        BY <1>1, <1>10, <2>2, EntriesWithin
      <4> QED
        BY <1>4, <4>1
    <3>2. g[e[1]] = h[e[1]] /\ g[e[1] - 1] = h[e[1] - 1]
      BY <1>6, <3>1
    <3> QED
      BY <1>3, <2>2, <3>2 DEF HistoryBy, Follows
  <2> QED
    BY <1>10, <2>1, <2>2
<1>15. HistoryBy(g)'
  BY <1>2, <1>5, <1>9, <1>12, <1>13, <1>14 DEF HistoryBy, Follows, Command, c
<1> QED
  BY <1>15 DEF OneHistory

LEMMA ShutdownHistory ==
    ASSUME CommandsAgree, OneHistory, ShutdownWorkers
    PROVE  OneHistory'
<1> DEFINE c == ShutdownCommand
<1>1. Types /\ Log /\ NoneAhead /\ Calls
  BY DEF CommandsAgree
<1>2. /\ pc[0] = "idle" /\ UNCHANGED <<queue, slots, done>>
      /\ chan' = [w \in Workers |-> Append(chan[w], c)]
      /\ pc' = [pc EXCEPT ![0] = "exited"]
  BY DEF ShutdownWorkers, engineVars
<1>3. PICK h : HistoryBy(h)
  BY DEF OneHistory
<1>4. c \in LogCommands /\ c.kind = "shutdown"
  BY DEF ShutdownCommand, StartupCommand, LogCommands, Commands, Launches
<1>5. pc'[0] = "exited" /\ \A w \in Workers : pc'[w] = pc[w]
  BY <1>1, <1>2, RankSets DEF Types
<1> HIDE DEF c
<1>6. \A w \in Workers :
        /\ \A e \in Entries(w)' : e \in Entries(w) \/ e[2] = c
        /\ chan[w] # <<>> => Head(chan'[w]) = Head(chan[w])
  BY <1>1, <1>2, <1>4, AllGrow
<1>7. \A r \in Ranks : pc'[r] \in {"idle", "run"} => slots'[r] = h[done'[r]]
  BY <1>2, <1>3, <1>5, RankSets DEF HistoryBy
<1>8. \A r \in Ranks : pc'[r] = "forward" =>
        slots'[r] = TakeSlots(h[done'[r]], Command(r)')
  <2> SUFFICES ASSUME NEW r \in Ranks, pc'[r] = "forward"
               PROVE  slots'[r] = TakeSlots(h[done'[r]], Command(r)')
    OBVIOUS
  <2>1. r \in Workers /\ r # 0 /\ pc[r] = "forward" /\ chan[r] # <<>>
    BY <1>1, <1>5, RankSets DEF Calls
  <2>2. Command(r)' = Command(r)
    BY <1>6, <2>1 DEF Command
  <2> QED
    BY <1>2, <1>3, <2>1, <2>2 DEF HistoryBy
<1>9. \A w \in Workers : \A e \in Entries(w)' : Follows(h, e[1], e[2])
  BY <1>3, <1>4, <1>6 DEF HistoryBy, Follows
<1>10. HistoryBy(h)'
  BY <1>3, <1>5, <1>7, <1>8, <1>9 DEF HistoryBy, Follows, Command, Calling
<1> QED
  BY <1>10 DEF OneHistory

\* A startup or a release leads to the table the history has for it.
LEMMA RunHistory ==
    ASSUME CommandsAgree, OneHistory, NEW r \in Ranks, RunStartup(r) \/ RunRelease(r)
    PROVE  OneHistory'
<1>1. Types /\ Log /\ NoneAhead /\ Calls
  BY DEF CommandsAgree
<1>2. PICK h : HistoryBy(h)
  BY DEF OneHistory
<1>3. HasCommand(r) /\ pc[r] \in {"idle", "run"} /\ Command(r).kind \notin Launches /\ Return(r)
  BY DEF RunStartup, RunRelease, Runs, Launches, HasCommand, Calling
<1>4. /\ pc'[r] = "idle" /\ done'[r] = done[r] + 1
      /\ \A q \in Ranks \ {r} : pc'[q] = pc[q] /\ done'[q] = done[q]
  BY <1>1, <1>3 DEF Return, Types
<1>5. \A w \in Workers : Entries(w)' \subseteq Entries(w)
  <2>1. \A w \in Workers : Keeps(w) \/ Completes(w)
    BY <1>1, <1>3, RankSets DEF Return, Completed, Keeps, Completes, HasCommand, Types
  <2> QED
    BY <1>1, <2>1, LogShrinks
<1>6. Follows(h, done[r] + 1, Command(r))
  <2>1. CASE r = 0
    BY <1>2, <1>3, <2>1 DEF HistoryBy, Command, HasCommand
  <2>2. CASE r # 0
    <3>1. r \in Workers /\ <<done[r] + 1, Head(chan[r])>> \in Entries(r)
      BY <1>1, <1>3, <2>2, RankSets, EntriesWithin DEF HasCommand
    <3> QED
      BY <1>2, <2>2, <3>1 DEF HistoryBy, Command
  <2> QED
    BY <2>1, <2>2
<1>7. slots[r] = h[done[r]] /\ done[r] \in Nat /\ (done[r] + 1) - 1 = done[r]
  BY <1>1, <1>2, <1>3 DEF HistoryBy, Types
<1>8. /\ slots'[r] = h[done'[r]]
      /\ \A q \in Ranks \ {r} : slots'[q] = slots[q]
  <2>1. CASE RunStartup(r)
    BY <1>4, <1>6, <1>7, <2>1 DEF RunStartup, Runs, Follows
  <2>2. CASE RunRelease(r)
    BY <1>1, <1>4, <1>6, <1>7, <2>2 DEF RunRelease, Runs, Follows, Types
  <2> QED
    BY <2>1, <2>2
<1>9. \A q \in Ranks \ {r} : Untouched(q)
  <2>1. \A q \in Ranks \ {r} : Command(q)' = Command(q)
    BY <1>1, <1>3, RankSets
       DEF Return, Completed, Command, RunStartup, RunRelease, Types
  <2> QED
    BY <1>4, <1>8, <2>1 DEF Untouched
<1>10. Calling' => Calling /\ done'[0] = done[0] /\ Head(queue') = Head(queue)
  BY <1>4, RankSets DEF Calling, RunStartup, RunRelease
<1>11. HistoryBy(h)'
  BY <1>2, <1>4, <1>5, <1>8, <1>9, <1>10, HistoryKept
<1> QED
  BY <1>11 DEF OneHistory

\* A rank enters a forward from the table the history has for it; when rank
\* 0 has no active row, it is the first and only one past the plan.
LEMMA EnterHistory ==
    ASSUME CommandsAgree, OneHistory, NEW r \in Ranks, EnterForward(r)
    PROVE  OneHistory'
<1>1. Types /\ Log /\ NoneAhead /\ Calls
  BY DEF CommandsAgree
<1>2. PICK h : HistoryBy(h)
  BY DEF OneHistory
<1>3. /\ HasCommand(r) /\ pc[r] \in {"idle", "run"} /\ Command(r).kind \in Launches
      /\ Command(r) \in LogCommands
  BY <1>1, CommandType DEF EnterForward, RunsLaunch, Runs, HasCommand, Calling
<1>4. /\ slots'[r] = TakeSlots(slots[r], Command(r))
      /\ \A q \in Ranks \ {r} : slots'[q] = slots[q]
      /\ slots[r] = h[done[r]] /\ slots[r] \in Tables
  BY <1>1, <1>2, <1>3 DEF EnterForward, HistoryBy, Types
<1>5. CASE ActiveRows(r, Command(r)) # {}
  <2>1. pc' = [pc EXCEPT ![r] = "forward"] /\ UNCHANGED <<done, chan, queue>>
    BY <1>5 DEF EnterForward
  <2>2. /\ pc'[r] = "forward" /\ \A q \in Ranks \ {r} : pc'[q] = pc[q]
        /\ \A q \in Ranks : Command(q)' = Command(q)
        /\ \A w \in Workers : Entries(w)' = Entries(w)
    BY <1>1, <2>1 DEF Types, Command, Entries
  <2>3. \A q \in Ranks \ {r} : Untouched(q)
    BY <1>4, <2>1, <2>2 DEF Untouched
  <2>4. Calling' => Calling
    BY <1>3, <2>2, RankSets DEF Calling, HasCommand
  <2>5. HistoryBy(h)'
    BY <1>2, <1>4, <2>1, <2>2, <2>3, <2>4, HistoryKept
  <2> QED
    BY <2>5 DEF OneHistory
<1>6. CASE ActiveRows(r, Command(r)) = {}
  <2>1. r = 0
    BY <1>3, <1>6 DEF ActiveRows, LogCommands, OpRows
  <2>2. Return(0) /\ Calling /\ Head(queue).kind \in Launches
    BY <1>3, <1>6, <2>1 DEF EnterForward, HasCommand, Command
  <2>3. /\ pc'[0] = "idle" /\ done'[0] = done[0] + 1
        /\ \A w \in Workers : Keeps(w) /\ pc'[w] = pc[w]
    BY <1>1, <2>2, RankSets DEF Return, Completed, Keeps, Types
  <2>4. ZeroCompletes
    BY <2>2, <2>3 DEF ZeroCompletes
  <2>5. \A w \in Workers : Untouched(w) /\ w # 0
    BY <1>4, <2>1, <2>3, RankSets DEF Untouched, Keeps, Command
  <2>6. slots'[0] \in Tables
    BY <1>3, <1>4, <2>1, TakeSlotsApart DEF LogCommands
  <2>7. \A w \in Workers : Entries(w)' \subseteq Entries(w)
    BY <1>1, <2>3, LogShrinks
  <2> QED
    BY <1>2, <2>2, <2>3, <2>4, <2>5, <2>6, <2>7, RankSets, HistoryGrows
<1> QED
  BY <1>5, <1>6

\* After an exception no worker of R is left, and rank 0 is alone past the
\* plan if it is in R.
LEMMA RaisedHistory ==
    ASSUME CommandsAgree, OneHistory, NEW R, R \subseteq Ranks,
           \A r \in R : HasCommand(r) /\ Alive(r) /\ Command(r).kind \in Launches,
           Raised(R), UNCHANGED rows, slots' \in [Ranks -> Tables],
           \A r \in Ranks \ R : slots'[r] = slots[r]
    PROVE  OneHistory'
<1>1. Types /\ Log /\ NoneAhead /\ Calls
  BY DEF CommandsAgree
<1>2. PICK h : HistoryBy(h)
  BY DEF OneHistory
<1>3. \A r \in Ranks : /\ pc'[r] = IF r \notin R THEN pc[r]
                                  ELSE IF r = 0 THEN "idle" ELSE "failed"
                       /\ done'[r] = IF r \in R THEN done[r] + 1 ELSE done[r]
  BY DEF Raised
<1>4. \A w \in Workers : Entries(w)' \subseteq Entries(w)
  BY RaisedAgrees
<1>5. \A w \in Workers : w \in R => pc'[w] \in Over
  BY <1>3, RankSets DEF Over
<1>6. \A w \in Workers : w \notin R => Untouched(w)
  BY <1>3, RankSets DEF Untouched, Command, Raised, Completed
<1>7. CASE 0 \in R
  <2>1. ZeroCompletes /\ Head(queue).kind \in Launches /\ slots'[0] \in Tables
    BY <1>3, <1>7, RankSets DEF ZeroCompletes, HasCommand, Command
  <2>2. pc'[0] = "idle" /\ done'[0] = done[0] + 1
    BY <1>3, <1>7, RankSets
  <2> QED
    BY <1>2, <1>4, <1>5, <1>6, <2>1, <2>2, RankSets, HistoryGrows
<1>8. CASE 0 \notin R
  <2>1. /\ pc'[0] = pc[0] /\ done'[0] = done[0] /\ queue' = queue
        /\ slots'[0] = slots[0]
    BY <1>3, <1>8, RankSets DEF Raised
  <2>2. Untouched(0) /\ (Calling' => Calling)
    BY <2>1 DEF Untouched, Command, Calling
  <2>3. HistoryBy(h)'
    BY <1>2, <1>4, <1>5, <1>6, <2>1, <2>2, RankSets, HistoryKept
  <2> QED
    BY <2>3 DEF OneHistory
<1> QED
  BY <1>7, <1>8

LEMMA FaultHistory ==
    ASSUME CommandsAgree, OneHistory,
           (\E r \in Ranks : SlotLimit(r)) \/ (\E R \in SUBSET Ranks : ForwardRaises(R))
    PROVE  OneHistory'
<1>1. Types /\ Calls
  BY DEF CommandsAgree
<1>2. slots' \in [Ranks -> Tables]
  BY FaultAgrees DEF CommandsAgree, Types
<1>3. ASSUME NEW r \in Ranks, SlotLimit(r)
      PROVE  OneHistory'
  <2>1. HasCommand(r) /\ Alive(r) /\ Command(r).kind \in Launches
    BY <1>3 DEF SlotLimit, Runs, Launches, HasCommand, Calling, Alive, Over
  <2>2. Raised({r}) /\ UNCHANGED rows /\ \A q \in Ranks \ {r} : slots'[q] = slots[q]
    BY <1>1, <1>3 DEF SlotLimit, Types
  <2> QED
    BY <1>2, <2>1, <2>2, RaisedHistory
<1>4. ASSUME NEW R \in SUBSET Ranks, ForwardRaises(R)
      PROVE  OneHistory'
  <2>1. \A r \in R : HasCommand(r) /\ Alive(r) /\ Command(r).kind \in Launches
    BY <1>1, <1>4, RankSets
       DEF ForwardRaises, Meeting, HasCommand, Calling, Alive, Over, Calls, Command
  <2>2. Raised(R) /\ UNCHANGED rows /\ \A q \in Ranks \ R : slots'[q] = slots[q]
    BY <1>4 DEF ForwardRaises
  <2> QED
    BY <1>2, <2>1, <2>2, RaisedHistory
<1> QED
  BY <1>3, <1>4

\* All ranks leave a forward with the same table.
LEMMA ForwardHistory ==
    ASSUME CommandsAgree, OneHistory, NEW fin \in SUBSET Rids, Forward(fin)
    PROVE  OneHistory'
<1>1. Types /\ Log /\ Calls
  BY DEF CommandsAgree
<1>2. PICK h : HistoryBy(h)
  BY DEF OneHistory
<1>3. \A r \in Ranks : /\ pc[r] = "forward" /\ pc'[r] = "idle" /\ HasCommand(r)
                       /\ done[r] = done[0] /\ done'[r] = done[0] + 1
  BY <1>1, RankSets DEF Forward, Meeting, Calls, HasCommand, Calling
<1>4. \A r \in Ranks : Command(r) = Command(0)
  BY <1>1, <1>3, RankSets, SameCommand
<1>5. \A r \in Ranks : slots[r] = TakeSlots(h[done[0]], Command(0))
  BY <1>2, <1>3, <1>4 DEF HistoryBy
<1>6. \A r \in Ranks : slots'[r] = slots'[0]
  BY <1>5, RankSets DEF Forward
<1>7. /\ \A w \in Workers : Entries(w)' \subseteq Entries(w)
      /\ slots'[0] \in Tables
  BY ForwardAgrees, RankSets DEF CommandsAgree, Types
<1>8. ZeroCompletes /\ Head(queue).kind \in Launches
  BY <1>1, <1>3, RankSets DEF ZeroCompletes, HasCommand, Calls
<1> QED
  BY <1>2, <1>3, <1>6, <1>7, <1>8, RankSets, HistoryGrows

LEMMA StepHistory ==
    ASSUME CommandsAgree, OneHistory, [Next]_vars
    PROVE  OneHistory'
<1>1. CASE \/ Deaths
           \/ \E sub \in SUBSET Rids : Plan(sub) \/ Generate(sub)
           \/ \E r \in Rids : Abort(r) \/ AbortTask(r)
  BY <1>1, QuietHistory
<1>2. CASE Broadcast \/ ShutdownWorkers
  BY <1>2, BroadcastHistory, ShutdownHistory
<1>3. CASE \E r \in Ranks : RunStartup(r) \/ RunRelease(r) \/ EnterForward(r)
  BY <1>3, RunHistory, EnterHistory
<1>4. CASE (\E r \in Ranks : SlotLimit(r)) \/ (\E R \in SUBSET Ranks : ForwardRaises(R))
  BY <1>4, FaultHistory
<1>5. CASE \E fin \in SUBSET Rids : Forward(fin)
  BY <1>5, ForwardHistory
<1> QED
  BY <1>1, <1>2, <1>3, <1>4, <1>5 DEF Next, Engine, Run, Together, Deaths

LEMMA InitHistory ==
    ASSUME Init
    PROVE  OneHistory
<1> DEFINE t == [q \in Rids |-> 0]
           h == [n \in Nat |-> t]
<1>1. t \in Tables
  BY ClusterAssumption DEF Tables
<1>2. pc[0] = "idle" /\ \A r \in Ranks : pc[r] = "idle" /\ slots[r] = t /\ done[r] = 0
  BY RankSets DEF Init
<1>3. \A w \in Workers : Entries(w) = {}
  BY DEF Init, Entries
<1> HIDE DEF t
<1>4. HistoryBy(h)
  BY <1>1, <1>2, <1>3 DEF HistoryBy, Calling
<1> QED
  BY <1>4 DEF OneHistory

\* Ranks that completed the same commands have the same slot table, and no
\* table gives a slot to two requests: no failure, release or finish is seen
\* by one rank only.
THEOREM SlotsAlwaysAgree == Spec => []SlotsAgree
<1> DEFINE Inv == CommandsAgree /\ SlotsApart /\ OneHistory
<1>1. Init => Inv
  BY InitAgrees, InitHistory
<1>2. Inv /\ [Next]_vars => Inv'
  BY StepAgrees, StepApart, StepHistory
<1>3. Inv => SlotsAgree
  BY DEF SlotsAgree, OneHistory, HistoryBy, SlotsApart, Apart
<1> HIDE DEF Inv
<1> QED
  BY <1>1, <1>2, <1>3, PTL DEF Spec

=============================================================================
