------------------------- MODULE FluxSchedulerProofs -------------------------
(***************************************************************************)
(* Proofs about FluxScheduler, for every pool, batch size, page size and   *)
(* set of requests: the owners of pages, the slot pool, the pages of the   *)
(* operations in flight and the page account.                              *)
(***************************************************************************)
EXTENDS FluxScheduler, FiniteSetTheorems, TLAPS

-----------------------------------------------------------------------------
(* Arithmetic of the allocator.                                            *)

\* The tail Acquire leaves is a number of tokens.
LEMMA NewTailType ==
    ASSUME NEW n \in Int, NEW tail \in Nat
    PROVE  NewTail(n, tail) \in Nat
<1> DEFINE used == (n - tail) % PageSize
<1>1. n - tail \in Int /\ PageSize \in Nat /\ PageSize > 0
  BY PageSizeAssumption
<1>2. used \in 0 .. (PageSize - 1)
  BY <1>1
<1>3. PageSize - used \in Nat
  BY <1>1, <1>2
<1> QED
  BY <1>1, <1>2, <1>3 DEF NewTail

\* A chunk never moves the window below zero.
LEMMA ChunkType ==
    ASSUME TypeOK, NEW r \in Requests, budget > 0
    PROVE  Chunk(r) \in Int /\ req[r].window + Chunk(r) \in Nat
BY DEF TypeOK, ReqType, Chunk, MinOf

-----------------------------------------------------------------------------
(* Pages move between owners.                                              *)

\* Acquire moves pages from the free list and the cache to one request.
LEMMA AcquireOwners ==
    ASSUME TypeOK, OneOwner, NEW r \in Requests, NEW n, NEW m,
           Acquire(r, n, m)
    PROVE  /\ OneOwner'
           /\ local' \in [Requests -> SUBSET Pages]
           /\ free' \in SUBSET Pages
           /\ tree' \in SUBSET Pages
           /\ fault' \in BOOLEAN
           /\ \A q \in Requests \ {r} : local'[q] = local[q]
<1>1. PICK e \in SUBSET tree, s \in SUBSET Pages :
        /\ s \subseteq free \cup e
        /\ local' = [local EXCEPT ![r] = @ \cup s]
        /\ free' = (free \cup e) \ s
        /\ tree' = tree \ e
        /\ fault' \in BOOLEAN
  <2>1. PICK e \in Evictions(n) : Acquire(r, n, m)!(e)
    BY DEF Acquire
  <2>2. e \in SUBSET tree
    BY DEF Evictions
  <2> QED
    BY <2>1, <2>2 DEF TypeOK
<1>2. /\ local' \in [Requests -> SUBSET Pages]
      /\ free' \in SUBSET Pages
      /\ tree' \in SUBSET Pages
  BY <1>1 DEF TypeOK
<1>3. /\ local'[r] = local[r] \cup s
      /\ \A q \in Requests \ {r} : local'[q] = local[q]
  BY <1>1 DEF TypeOK
<1>4. free' \cup tree' \cup UNION {local'[q] : q \in Requests} = Pages
  <2>1. UNION {local'[q] : q \in Requests}
          = s \cup UNION {local[q] : q \in Requests}
    BY <1>3
  <2> QED
    BY <1>1, <2>1 DEF OneOwner
<1>5. free' \cap tree' = {}
  BY <1>1 DEF OneOwner
<1>6. ASSUME NEW q \in Requests
      PROVE  /\ local'[q] \cap (free' \cup tree') = {}
             /\ \A p \in Requests \ {q} : local'[q] \cap local'[p] = {}
  <2>1. CASE q = r
    BY <1>1, <1>3, <2>1 DEF OneOwner
  <2>2. CASE q # r
    BY <1>1, <1>3, <2>2 DEF OneOwner
  <2> QED
    BY <2>1, <2>2
<1> QED
  BY <1>1, <1>2, <1>3, <1>4, <1>5, <1>6 DEF OneOwner

\* Finish and retraction move pages of one request to the cache and the
\* free list; the request is left with none.
LEMMA InsertOwners ==
    ASSUME TypeOK, OneOwner, NEW r \in Requests, NEW n,
           InsertAndRelease(r, n)
    PROVE  /\ OneOwner'
           /\ local' \in [Requests -> SUBSET Pages]
           /\ free' \in SUBSET Pages
           /\ tree' \in SUBSET Pages
           /\ local'[r] = {}
           /\ \A q \in Requests \ {r} : local'[q] = local[q]
<1>1. PICK kept \in SUBSET local[r] :
        /\ tree' = tree \cup kept
        /\ free' = free \cup (local[r] \ kept)
        /\ local' = [local EXCEPT ![r] = {}]
  BY DEF InsertAndRelease
<1>2. /\ local' \in [Requests -> SUBSET Pages]
      /\ free' \in SUBSET Pages
      /\ tree' \in SUBSET Pages
  BY <1>1 DEF TypeOK
<1>3. /\ local'[r] = {}
      /\ \A q \in Requests \ {r} : local'[q] = local[q]
  BY <1>1 DEF TypeOK
<1>4. free' \cup tree' \cup UNION {local'[q] : q \in Requests} = Pages
  <2>1. UNION {local[q] : q \in Requests}
          = local[r] \cup UNION {local'[q] : q \in Requests}
    BY <1>3
  <2> QED
    BY <1>1, <2>1 DEF OneOwner
<1>5. free' \cap tree' = {}
  BY <1>1 DEF OneOwner
<1>6. ASSUME NEW q \in Requests
      PROVE  /\ local'[q] \cap (free' \cup tree') = {}
             /\ \A p \in Requests \ {q} : local'[q] \cap local'[p] = {}
  BY <1>1, <1>3 DEF OneOwner
<1> QED
  BY <1>2, <1>3, <1>4, <1>5, <1>6 DEF OneOwner

\* Dropping a request's state object returns all its pages.
LEMMA ReleaseOwners ==
    ASSUME TypeOK, OneOwner, NEW r \in Requests, ReleaseAll(r)
    PROVE  /\ OneOwner'
           /\ local' \in [Requests -> SUBSET Pages]
           /\ free' \in SUBSET Pages
           /\ tree' \in SUBSET Pages
           /\ local'[r] = {}
           /\ \A q \in Requests \ {r} : local'[q] = local[q]
<1>1. /\ tree' = tree
      /\ free' = free \cup local[r]
      /\ local' = [local EXCEPT ![r] = {}]
  BY DEF ReleaseAll
<1>2. /\ local' \in [Requests -> SUBSET Pages]
      /\ free' \in SUBSET Pages
      /\ tree' \in SUBSET Pages
  BY <1>1 DEF TypeOK
<1>3. /\ local'[r] = {}
      /\ \A q \in Requests \ {r} : local'[q] = local[q]
  BY <1>1 DEF TypeOK
<1>4. free' \cup tree' \cup UNION {local'[q] : q \in Requests} = Pages
  <2>1. UNION {local[q] : q \in Requests}
          = local[r] \cup UNION {local'[q] : q \in Requests}
    BY <1>3
  <2> QED
    BY <1>1, <2>1 DEF OneOwner
<1>6. ASSUME NEW q \in Requests
      PROVE  /\ local'[q] \cap (free' \cup tree') = {}
             /\ \A p \in Requests \ {q} : local'[q] \cap local'[p] = {}
  BY <1>1, <1>3 DEF OneOwner
<1> QED
  BY <1>1, <1>2, <1>3, <1>4, <1>6 DEF OneOwner

-----------------------------------------------------------------------------
(* Types and page ownership are inductive together.                        *)

Owners == TypeOK /\ PagesAccounted

\* Pushing an operation keeps the plan's types.
LEMMA PushOpType ==
    ASSUME TypeOK, NEW r \in Requests, NEW kind \in {"prefill", "decode"},
           NEW n \in Int, local' \in [Requests -> SUBSET Pages],
           PushOp(r, kind, n)
    PROVE  /\ planning' \in BOOLEAN
           /\ todo' \in SUBSET Requests
           /\ order' \in [Requests -> {0, 1, 2, 3, 4, 9}]
           /\ budget' \in Int
           /\ opKind' \in [Requests -> {"none", "prefill", "decode"}]
           /\ opPages' \in [Requests -> SUBSET Pages]
BY DEF TypeOK, PushOp

\* The record of a request after a chunk.
LEMMA AfterChunkType ==
    ASSUME TypeOK, NEW r \in Requests, NEW n \in Int, NEW tail \in Nat,
           req[r].window + n \in Nat
    PROVE  /\ AfterChunk(r, n, tail) \in ReqType
           /\ AfterChunk(r, n, tail).phase \in {"PrefillDone", "Prefilling"}
<1>1. req[r] \in ReqType
  BY DEF TypeOK
<1>2. PageSize \in Nat
  BY PageSizeAssumption
<1> QED
  BY <1>1, <1>2 DEF AfterChunk, ReqType, Phase

\* An idle request's record.
LEMMA GoneType ==
    ASSUME NEW p \in Phase
    PROVE  Gone(p) \in ReqType /\ Gone(p).phase = p
BY DEF Gone, ReqType

\* The record a submission creates.
LEMMA NewRequestType ==
    ASSUME NEW len \in PromptLens
    PROVE  NewRequest(len) \in ReqType /\ NewRequest(len).phase = "Submitted"
<1>1. len \in Nat /\ PageSize \in Nat /\ PageSize > 0
  BY PromptAssumption, PageSizeAssumption
<1>2. (len \div PageSize) \in Nat
  BY <1>1
<1>3. PrefillLength(len) \in Nat
  BY <1>1, <1>2 DEF PrefillLength
<1> QED
  BY <1>1, <1>3 DEF NewRequest, Gone, ReqType, Phase

\* At start every page is free.
LEMMA OwnersInit == Init => Owners
<1> SUFFICES ASSUME Init PROVE Owners
  OBVIOUS
<1>1. req \in [Requests -> ReqType] /\ \A r \in Requests : req[r].phase = "absent"
  BY GoneType DEF Init, Phase
<1>2. TypeOK
  <2>1. planning \in BOOLEAN /\ fault \in BOOLEAN
    BY Zenon DEF Init, Idle
  <2>2. /\ local \in [Requests -> SUBSET Pages]
        /\ order \in [Requests -> {0, 1, 2, 3, 4, 9}]
        /\ opKind \in [Requests -> {"none", "prefill", "decode"}]
        /\ opPages \in [Requests -> SUBSET Pages]
    BY DEF Init, Idle
  <2>3. free \in SUBSET Pages /\ tree \in SUBSET Pages
    BY DEF Init, Idle
  <2>4. todo \in SUBSET Requests /\ budget \in Int
    BY DEF Init, Idle
  <2> QED
    BY <1>1, <2>1, <2>2, <2>3, <2>4 DEF TypeOK
<1>3. OneOwner
  BY DEF Init, Idle, OneOwner
<1>4. NoIdleOwner
  BY DEF Init, Idle, NoIdleOwner
<1> QED
  BY <1>2, <1>3, <1>4 DEF Owners, PagesAccounted

\* An action that changes one request's record and leaves every other
\* request's pages alone preserves Owners, whatever becomes of the plan.
LEMMA OwnersStep ==
    ASSUME Owners, NEW r \in Requests, NEW rec \in ReqType,
           req' = [req EXCEPT ![r] = rec],
           OneOwner',
           local' \in [Requests -> SUBSET Pages],
           free' \in SUBSET Pages,
           tree' \in SUBSET Pages,
           \A q \in Requests \ {r} : local'[q] = local[q],
           rec.phase \notin SlotPhase \cup {"Retracted"} => local'[r] = {},
           planning' \in BOOLEAN,
           todo' \in SUBSET Requests,
           order' \in [Requests -> {0, 1, 2, 3, 4, 9}],
           budget' \in Int,
           opKind' \in [Requests -> {"none", "prefill", "decode"}],
           opPages' \in [Requests -> SUBSET Pages],
           fault' \in BOOLEAN
    PROVE  Owners'
<1>1. req' \in [Requests -> ReqType]
  BY DEF Owners, TypeOK
<1>2. TypeOK'
  BY <1>1 DEF TypeOK
<1>3. ASSUME NEW q \in Requests, req'[q].phase \notin SlotPhase \cup {"Retracted"}
      PROVE  local'[q] = {}
  <2>1. CASE q = r
    BY <1>3, <2>1 DEF Owners, TypeOK
  <2>2. CASE q # r
    BY <1>3, <2>2 DEF Owners, TypeOK, PagesAccounted, NoIdleOwner
  <2> QED
    BY <2>1, <2>2
<1>4. NoIdleOwner'
  BY <1>3 DEF NoIdleOwner
<1> QED
  BY <1>2, <1>4 DEF Owners, PagesAccounted
\* SubmitRequests touches no page.
LEMMA OwnersSubmit ==
    ASSUME Owners, NEW r \in Requests, NEW len \in PromptLens,
           SubmitRequests(r, len)
    PROVE  Owners'
<1>1. /\ NewRequest(len) \in ReqType
      /\ NewRequest(len).phase = "Submitted"
  BY NewRequestType
<1>2. local[r] = {}
  BY DEF Owners, PagesAccounted, NoIdleOwner, SubmitRequests, SlotPhase
<1>3. OneOwner'
  BY DEF Owners, PagesAccounted, OneOwner, SubmitRequests
<1>4. /\ req' = [req EXCEPT ![r] = NewRequest(len)]
      /\ UNCHANGED <<local, free, tree, planning, todo, order, budget, opKind,
                     opPages, fault>>
  BY DEF SubmitRequests, planVars
<1> QED
  BY <1>1, <1>2, <1>3, <1>4, OwnersStep DEF Owners, TypeOK

\* AbortEvent returns the pages of its request.
LEMMA OwnersAbort ==
    ASSUME Owners, NEW r \in Requests, Abort(r)
    PROVE  Owners'
<1>1. Gone("Finished") \in ReqType
  BY GoneType DEF Phase
<1>2. /\ req' = [req EXCEPT ![r] = Gone("Finished")]
      /\ ReleaseAll(r)
      /\ UNCHANGED <<planning, todo, order, budget, opKind, opPages, fault>>
  BY DEF Abort, planVars
<1>3. /\ OneOwner'
      /\ local' \in [Requests -> SUBSET Pages]
      /\ free' \in SUBSET Pages
      /\ tree' \in SUBSET Pages
      /\ local'[r] = {}
      /\ \A q \in Requests \ {r} : local'[q] = local[q]
  BY <1>2, ReleaseOwners DEF Owners, PagesAccounted
<1> QED
  BY <1>1, <1>2, <1>3, OwnersStep DEF Owners, TypeOK

\* Erasing terminal requests loses no page: they own none.
LEMMA OwnersBeginPlan ==
    ASSUME Owners, BeginPlan
    PROVE  Owners'
<1>1. /\ planning' = TRUE
      /\ req' = [r \in Requests |->
                   IF req[r].phase = "Finished" THEN Gone("absent") ELSE req[r]]
      /\ todo' \in SUBSET Requests
      /\ order' = [r \in Requests |-> Priority(req[r].phase)]
      /\ budget' = MaxScheduledTokens
      /\ UNCHANGED <<local, free, tree, opKind, opPages, fault>>
  BY DEF BeginPlan
<1>2. Gone("absent") \in ReqType /\ Gone("absent").phase = "absent"
  BY GoneType DEF Phase
<1>3. req' \in [Requests -> ReqType]
  BY <1>1, <1>2 DEF Owners, TypeOK
<1>4. order' \in [Requests -> {0, 1, 2, 3, 4, 9}]
  BY <1>1 DEF Priority
<1>5. budget' \in Int
  BY <1>1, LimitsAssumption
<1>6. planning' \in BOOLEAN
  BY <1>1, Zenon
<1>7. TypeOK'
  BY <1>1, <1>3, <1>4, <1>5, <1>6 DEF Owners, TypeOK
<1>8. OneOwner'
  BY <1>1 DEF Owners, PagesAccounted, OneOwner
<1>9. NoIdleOwner'
  BY <1>1, <1>2 DEF Owners, PagesAccounted, NoIdleOwner, SlotPhase
<1> QED
  BY <1>7, <1>8, <1>9 DEF Owners, PagesAccounted

\* The first chunk acquires its pages before the request leaves Submitted.
LEMMA OwnersFirstChunk ==
    ASSUME Owners, NEW r \in Requests, SchedulePrefillFirstChunk(r)
    PROVE  Owners'
<1> DEFINE n == Chunk(r)
           tail == NewTail(PageSize, NewTail(n, 0))
           rec == AfterChunk(r, n, tail)
<1>1. budget > 0 /\ planning
  BY DEF SchedulePrefillFirstChunk, Admits, Visits, LoopDone, Owners, TypeOK
<1>2. n \in Int /\ req[r].window + n \in Nat
  BY <1>1, ChunkType DEF Owners
<1>3. tail \in Nat
  <2>1. NewTail(n, 0) \in Nat
    BY <1>2, NewTailType
  <2>2. PageSize \in Int
    BY PageSizeAssumption
  <2> QED
    BY <2>1, <2>2, NewTailType
<1>4. rec \in ReqType /\ rec.phase \in {"PrefillDone", "Prefilling"}
  BY <1>2, <1>3, AfterChunkType DEF Owners
<1>5. /\ OneOwner'
      /\ local' \in [Requests -> SUBSET Pages]
      /\ free' \in SUBSET Pages
      /\ tree' \in SUBSET Pages
      /\ fault' \in BOOLEAN
      /\ \A q \in Requests \ {r} : local'[q] = local[q]
  BY AcquireOwners DEF Owners, PagesAccounted, SchedulePrefillFirstChunk
<1>6. /\ planning' \in BOOLEAN
      /\ todo' \in SUBSET Requests
      /\ order' \in [Requests -> {0, 1, 2, 3, 4, 9}]
      /\ budget' \in Int
      /\ opKind' \in [Requests -> {"none", "prefill", "decode"}]
      /\ opPages' \in [Requests -> SUBSET Pages]
  <2>1. CASE PushOp(r, "prefill", n)
    BY <1>2, <1>5, <2>1, PushOpType DEF Owners
  <2>2. CASE /\ order' = [order EXCEPT ![r] = 0]
             /\ UNCHANGED <<planning, todo, budget, opKind, opPages>>
    BY <2>2 DEF Owners, TypeOK
  <2> QED
    BY <2>1, <2>2 DEF SchedulePrefillFirstChunk
<1>7. req' = [req EXCEPT ![r] = rec]
  BY DEF SchedulePrefillFirstChunk
<1>8. rec.phase \in SlotPhase
  BY <1>4 DEF SlotPhase
<1> HIDE DEF n, tail, rec
<1> QED
  BY <1>4, <1>5, <1>6, <1>7, <1>8, OwnersStep

\* The steps that push an operation: pages, record and operation of r.
LEMMA OwnersSchedule ==
    ASSUME Owners, NEW r \in Requests, NEW rec \in ReqType,
           rec.phase \in SlotPhase, req' = [req EXCEPT ![r] = rec],
           NEW a, NEW b, Acquire(r, a, b),
           NEW kind \in {"prefill", "decode"}, NEW n \in Int,
           PushOp(r, kind, n)
    PROVE  Owners'
<1>1. /\ OneOwner'
      /\ local' \in [Requests -> SUBSET Pages]
      /\ free' \in SUBSET Pages
      /\ tree' \in SUBSET Pages
      /\ fault' \in BOOLEAN
      /\ \A q \in Requests \ {r} : local'[q] = local[q]
  BY AcquireOwners DEF Owners, PagesAccounted
<1>2. /\ planning' \in BOOLEAN
      /\ todo' \in SUBSET Requests
      /\ order' \in [Requests -> {0, 1, 2, 3, 4, 9}]
      /\ budget' \in Int
      /\ opKind' \in [Requests -> {"none", "prefill", "decode"}]
      /\ opPages' \in [Requests -> SUBSET Pages]
  BY <1>1, PushOpType DEF Owners
<1> QED
  BY <1>1, <1>2, OwnersStep

\* A further chunk.
LEMMA OwnersPrefill ==
    ASSUME Owners, NEW r \in Requests, SchedulePrefill(r)
    PROVE  Owners'
<1> DEFINE n == Chunk(r)
           tail == NewTail(n, req[r].tail)
           rec == AfterChunk(r, n, tail)
<1>1. budget > 0
  BY DEF SchedulePrefill, Admits, Visits, LoopDone, Owners, TypeOK
<1>2. n \in Int /\ req[r].window + n \in Nat
  BY <1>1, ChunkType DEF Owners
<1>3. tail \in Nat
  BY <1>2, NewTailType DEF Owners, TypeOK, ReqType
<1>4. rec \in ReqType /\ rec.phase \in SlotPhase
  BY <1>2, <1>3, AfterChunkType DEF Owners, SlotPhase
<1>5. /\ req' = [req EXCEPT ![r] = rec]
      /\ Acquire(r, PagesNeeded(r), NewPages(n, req[r].tail))
      /\ PushOp(r, "prefill", n)
  BY DEF SchedulePrefill
<1> HIDE DEF n, tail, rec
<1> QED
  BY <1>2, <1>4, <1>5, OwnersSchedule

\* The record of a request whose decode step is scheduled.
LEMMA DecodingType ==
    ASSUME Owners, NEW r \in Requests, NEW tail \in Nat
    PROVE  LET rec == [req[r] EXCEPT !.phase = "Decoding", !.tail = tail,
                                     !.reserve = PageSize]
           IN  rec \in ReqType /\ rec.phase = "Decoding"
<1>1. req[r] \in ReqType /\ PageSize \in Nat
  BY PageSizeAssumption DEF Owners, TypeOK
<1> QED
  BY <1>1 DEF ReqType, Phase

\* A decode step.
LEMMA OwnersDecode ==
    ASSUME Owners, NEW r \in Requests, ScheduleDecode(r)
    PROVE  Owners'
<1> DEFINE tail == NewTail(req[r].reserve, req[r].tail)
           rec == [req[r] EXCEPT !.phase = "Decoding", !.tail = tail,
                                 !.reserve = PageSize]
<1>1. tail \in Nat
  <2>1. req[r].reserve \in Int /\ req[r].tail \in Nat
    BY DEF Owners, TypeOK, ReqType
  <2> QED
    BY <2>1, NewTailType
<1>2. rec \in ReqType /\ rec.phase \in SlotPhase
  BY <1>1, DecodingType DEF SlotPhase
<1>3. /\ req' = [req EXCEPT ![r] = rec]
      /\ Acquire(r, PagesNeeded(r), NewPages(req[r].reserve, req[r].tail))
      /\ PushOp(r, "decode", PageSize)
  BY DEF ScheduleDecode
<1>4. PageSize \in Int
  BY PageSizeAssumption
<1> HIDE DEF tail, rec
<1> QED
  BY <1>2, <1>3, <1>4, OwnersSchedule

\* A retracted request resumes.
LEMMA OwnersDecodeFromRetracted ==
    ASSUME Owners, NEW r \in Requests, ScheduleDecodeFromRetracted(r)
    PROVE  Owners'
<1> DEFINE tail == NewTail(PageSize, req[r].tail)
           rec == [req[r] EXCEPT !.phase = "Decoding", !.tail = tail,
                                 !.reserve = PageSize]
<1>1. tail \in Nat
  <2>1. PageSize \in Int /\ req[r].tail \in Nat
    BY PageSizeAssumption DEF Owners, TypeOK, ReqType
  <2> QED
    BY <2>1, NewTailType
<1>2. rec \in ReqType /\ rec.phase \in SlotPhase
  BY <1>1, DecodingType DEF SlotPhase
<1>3. /\ req' = [req EXCEPT ![r] = rec]
      /\ Acquire(r, PagesNeeded(r), NewPages(PageSize, req[r].tail))
      /\ PushOp(r, "decode", PageSize)
  BY DEF ScheduleDecodeFromRetracted
<1>4. PageSize \in Int
  BY PageSizeAssumption
<1> HIDE DEF tail, rec
<1> QED
  BY <1>2, <1>3, <1>4, OwnersSchedule

\* A candidate is passed over; an eviction in vain only moves pages.
LEMMA OwnersSkip ==
    ASSUME Owners, NEW r \in Requests, SkipNoSlot(r) \/ SkipNoPages(r)
    PROVE  Owners'
<1>1. /\ UNCHANGED <<req, local, planning, order, budget, opKind, opPages, fault>>
      /\ todo' = todo \ {r}
  BY DEF SkipNoSlot, SkipNoPages
<1>2. \/ UNCHANGED <<free, tree>>
      \/ free' = free \cup tree /\ tree' = {}
  BY DEF SkipNoSlot, SkipNoPages
<1>3. TypeOK'
  BY <1>1, <1>2 DEF Owners, TypeOK
<1>4. OneOwner'
  BY <1>1, <1>2 DEF Owners, PagesAccounted, OneOwner
<1>5. NoIdleOwner'
  BY <1>1 DEF Owners, PagesAccounted, NoIdleOwner
<1> QED
  BY <1>3, <1>4, <1>5 DEF Owners, PagesAccounted

\* The end of a plan resets the loop and leaves its operations.
LEMMA PlanOverType ==
    ASSUME TypeOK, PlanOver
    PROVE  /\ planning' \in BOOLEAN
           /\ todo' \in SUBSET Requests
           /\ order' \in [Requests -> {0, 1, 2, 3, 4, 9}]
           /\ budget' \in Int
           /\ opKind' \in [Requests -> {"none", "prefill", "decode"}]
           /\ opPages' \in [Requests -> SUBSET Pages]
<1>1. planning' \in BOOLEAN
  BY Zenon DEF PlanOver
<1> QED
  BY <1>1 DEF TypeOK, PlanOver

\* The end of a plan moves no page.
LEMMA OwnersReturnPlan ==
    ASSUME Owners, ReturnPlan
    PROVE  Owners'
<1>1. /\ planning' \in BOOLEAN
      /\ todo' \in SUBSET Requests
      /\ order' \in [Requests -> {0, 1, 2, 3, 4, 9}]
      /\ budget' \in Int
      /\ opKind' \in [Requests -> {"none", "prefill", "decode"}]
      /\ opPages' \in [Requests -> SUBSET Pages]
  BY PlanOverType DEF Owners, ReturnPlan
<1>2. UNCHANGED <<req, local, free, tree, fault>>
  BY DEF ReturnPlan
<1>3. TypeOK'
  BY <1>1, <1>2 DEF Owners, TypeOK
<1> QED
  BY <1>2, <1>3 DEF Owners, PagesAccounted, OneOwner, NoIdleOwner

\* A victim with full pages is aborted.
LEMMA OwnersRetractAborts ==
    ASSUME Owners, NEW r \in Requests, RetractAborts(r)
    PROVE  Owners'
<1>1. Gone("Finished") \in ReqType
  BY GoneType DEF Phase
<1>2. /\ OneOwner'
      /\ local' \in [Requests -> SUBSET Pages]
      /\ free' \in SUBSET Pages
      /\ tree' \in SUBSET Pages
      /\ local'[r] = {}
      /\ \A q \in Requests \ {r} : local'[q] = local[q]
  BY InsertOwners DEF Owners, PagesAccounted, RetractAborts
<1>3. /\ planning' \in BOOLEAN
      /\ todo' \in SUBSET Requests
      /\ order' \in [Requests -> {0, 1, 2, 3, 4, 9}]
      /\ budget' \in Int
      /\ opKind' \in [Requests -> {"none", "prefill", "decode"}]
      /\ opPages' \in [Requests -> SUBSET Pages]
  BY PlanOverType DEF Owners, RetractAborts
<1>4. req' = [req EXCEPT ![r] = Gone("Finished")] /\ fault' \in BOOLEAN
  BY DEF RetractAborts, Owners, TypeOK
<1> QED
  BY <1>1, <1>2, <1>3, <1>4, OwnersStep

\* A victim without full pages keeps its own.
LEMMA OwnersRetractKeepsPages ==
    ASSUME Owners, NEW r \in Requests, RetractKeepsPages(r)
    PROVE  Owners'
<1> DEFINE rec == [req[r] EXCEPT !.phase = "Retracted", !.reserve = 0]
<1>1. rec \in ReqType /\ rec.phase = "Retracted"
  <2>1. req[r] \in ReqType
    BY DEF Owners, TypeOK
  <2> QED
    BY <2>1 DEF ReqType, Phase
<1>2. /\ planning' \in BOOLEAN
      /\ todo' \in SUBSET Requests
      /\ order' \in [Requests -> {0, 1, 2, 3, 4, 9}]
      /\ budget' \in Int
      /\ opKind' \in [Requests -> {"none", "prefill", "decode"}]
      /\ opPages' \in [Requests -> SUBSET Pages]
  BY PlanOverType DEF Owners, RetractKeepsPages
<1>3. /\ req' = [req EXCEPT ![r] = rec]
      /\ UNCHANGED <<local, free, tree, fault>>
  BY DEF RetractKeepsPages
<1>4. OneOwner'
  BY <1>3 DEF Owners, PagesAccounted, OneOwner
<1> HIDE DEF rec
<1> QED
  BY <1>1, <1>2, <1>3, <1>4, OwnersStep DEF Owners, TypeOK
-----------------------------------------------------------------------------
(* Results.                                                                *)

\* A result takes the operation away.
LEMMA ClearOpType ==
    ASSUME TypeOK, NEW r \in Requests, ClearOp(r)
    PROVE  /\ opKind' \in [Requests -> {"none", "prefill", "decode"}]
           /\ opPages' \in [Requests -> SUBSET Pages]
BY DEF TypeOK, ClearOp

\* Results that carry nothing.
LEMMA OwnersNoChange ==
    ASSUME Owners, NEW r \in Requests, PrefillResult(r) \/ StaleResult(r)
    PROVE  Owners'
<1>1. /\ UNCHANGED <<req, local, free, tree, planning, todo, order, budget, fault>>
      /\ ClearOp(r)
  BY DEF PrefillResult, StaleResult, planVars
<1>2. /\ opKind' \in [Requests -> {"none", "prefill", "decode"}]
      /\ opPages' \in [Requests -> SUBSET Pages]
  BY <1>1, ClearOpType DEF Owners
<1>3. TypeOK'
  BY <1>1, <1>2 DEF Owners, TypeOK
<1> QED
  BY <1>1, <1>3 DEF Owners, PagesAccounted, OneOwner, NoIdleOwner

\* A decoded block appends tokens.
LEMMA OwnersDecodeResult ==
    ASSUME Owners, NEW r \in Requests, NEW n \in Nat, DecodeResult(r, n)
    PROVE  Owners'
<1> DEFINE rec == [req[r] EXCEPT !.tokens = req[r].tokens + n,
                                 !.blocks = req[r].blocks + 1,
                                 !.reserve = PageSize]
<1>1. rec \in ReqType /\ rec.phase \in SlotPhase
  <2>1. req[r] \in ReqType /\ PageSize \in Nat /\ req[r].phase = "Decoding"
    BY PageSizeAssumption DEF Owners, TypeOK, DecodeResult
  <2>2. req[r].tokens + n \in Nat /\ req[r].blocks + 1 \in Nat
    BY <2>1 DEF ReqType
  <2> QED
    BY <2>1, <2>2 DEF ReqType, SlotPhase
<1>2. /\ req' = [req EXCEPT ![r] = rec]
      /\ UNCHANGED <<local, free, tree, planning, todo, order, budget, fault>>
      /\ ClearOp(r)
  BY DEF DecodeResult, planVars
<1>3. /\ opKind' \in [Requests -> {"none", "prefill", "decode"}]
      /\ opPages' \in [Requests -> SUBSET Pages]
  BY <1>2, ClearOpType DEF Owners
<1>4. OneOwner'
  BY <1>2 DEF Owners, PagesAccounted, OneOwner
<1> HIDE DEF rec
<1> QED
  BY <1>1, <1>2, <1>3, <1>4, OwnersStep DEF Owners, TypeOK

\* A finished request publishes and frees its pages.
LEMMA OwnersFinishResult ==
    ASSUME Owners, NEW r \in Requests, NEW n \in Nat, FinishResult(r, n)
    PROVE  Owners'
<1>1. Gone("Finished") \in ReqType
  BY GoneType DEF Phase
<1>2. /\ OneOwner'
      /\ local' \in [Requests -> SUBSET Pages]
      /\ free' \in SUBSET Pages
      /\ tree' \in SUBSET Pages
      /\ local'[r] = {}
      /\ \A q \in Requests \ {r} : local'[q] = local[q]
  BY InsertOwners DEF Owners, PagesAccounted, FinishResult
<1>3. /\ req' = [req EXCEPT ![r] = Gone("Finished")]
      /\ UNCHANGED <<planning, todo, order, budget>>
      /\ ClearOp(r)
  BY DEF FinishResult, planVars
<1>4. fault' \in BOOLEAN
  BY DEF FinishResult
<1>5. /\ opKind' \in [Requests -> {"none", "prefill", "decode"}]
      /\ opPages' \in [Requests -> SUBSET Pages]
  BY <1>3, ClearOpType DEF Owners
<1> QED
  BY <1>1, <1>2, <1>3, <1>4, <1>5, OwnersStep DEF Owners, TypeOK

-----------------------------------------------------------------------------
\* Every step preserves types and page ownership.
LEMMA OwnersNext == Owners /\ [Next]_vars => Owners'
<1> SUFFICES ASSUME Owners, [Next]_vars PROVE Owners'
  OBVIOUS
<1>1. CASE BeginPlan
  BY <1>1, OwnersBeginPlan
<1>2. CASE ReturnPlan
  BY <1>2, OwnersReturnPlan
<1>3. ASSUME NEW r \in Requests, SchedulePrefillFirstChunk(r) PROVE Owners'
  BY <1>3, OwnersFirstChunk
<1>4. ASSUME NEW r \in Requests, SchedulePrefill(r) PROVE Owners'
  BY <1>4, OwnersPrefill
<1>5. ASSUME NEW r \in Requests, ScheduleDecode(r) PROVE Owners'
  BY <1>5, OwnersDecode
<1>6. ASSUME NEW r \in Requests, ScheduleDecodeFromRetracted(r) PROVE Owners'
  BY <1>6, OwnersDecodeFromRetracted
<1>7. ASSUME NEW r \in Requests, SkipNoSlot(r) \/ SkipNoPages(r) PROVE Owners'
  BY <1>7, OwnersSkip
<1>8. ASSUME NEW r \in Requests, RetractAborts(r) PROVE Owners'
  BY <1>8, OwnersRetractAborts
<1>9. ASSUME NEW r \in Requests, RetractKeepsPages(r) PROVE Owners'
  BY <1>9, OwnersRetractKeepsPages
<1>10. ASSUME NEW r \in Requests, Client(r) PROVE Owners'
  BY <1>10, OwnersSubmit, OwnersAbort DEF Client
<1>11. ASSUME NEW r \in Requests, Result(r) PROVE Owners'
  <2>1. CASE PrefillResult(r) \/ StaleResult(r)
    BY <2>1, OwnersNoChange
  <2>2. ASSUME NEW n \in 0 .. Room(r), DecodeResult(r, n) \/ FinishResult(r, n)
        PROVE  Owners'
    <3>1. n \in Nat
      BY PageSizeAssumption DEF Room, Owners, TypeOK, ReqType
    <3> QED
      BY <2>2, <3>1, OwnersDecodeResult, OwnersFinishResult
  <2> QED
    BY <1>11, <2>1, <2>2 DEF Result
<1>12. CASE UNCHANGED vars
  BY <1>12 DEF vars, Owners, TypeOK, PagesAccounted, OneOwner, NoIdleOwner
<1> QED
  BY <1>1, <1>2, <1>3, <1>4, <1>5, <1>6, <1>7, <1>8, <1>9, <1>10, <1>11, <1>12
     DEF Next, PlanStep

\* Every reachable state of the scheduler is well typed.
THEOREM TypeCorrect == Spec => []TypeOK
<1>1. Owners => TypeOK
  BY DEF Owners
<1> QED
  BY <1>1, OwnersInit, OwnersNext, PTL DEF Spec

\* Device pages are never lost, shared or left with a request that ended:
\* the account check_device_mem keeps, for every pool and every schedule.
THEOREM PagesAlwaysAccounted == Spec => []PagesAccounted
<1>1. Owners => PagesAccounted
  BY DEF Owners
<1> QED
  BY <1>1, OwnersInit, OwnersNext, PTL DEF Spec

-----------------------------------------------------------------------------
(* The slot pool.                                                          *)

\* Requests are finitely many, so their holders can be counted.
LEMMA HoldersFinite ==
    /\ IsFiniteSet(Holders)
    /\ Cardinality(Holders) \in Nat
<1>1. Holders \in SUBSET Requests
  BY DEF Holders
<1> QED
  BY <1>1, RequestsAssumption, FS_Subset, FS_CardinalityType

\* A step that gives nobody a slot.
LEMMA SlotsShrink ==
    ASSUME SlotsBounded, Holders' \subseteq Holders
    PROVE  SlotsBounded'
<1>1. Cardinality(Holders') <= Cardinality(Holders)
  BY HoldersFinite, FS_Subset
<1>2. Cardinality(Holders') \in Nat
  BY HoldersFinite, FS_Subset, FS_CardinalityType
<1> QED
  BY <1>1, <1>2, HoldersFinite, LimitsAssumption DEF SlotsBounded

\* A step that gives r a slot when the pool has one, or keeps r's.
LEMMA SlotsGrow ==
    ASSUME SlotsBounded, NEW r \in Requests,
           Holders' \subseteq Holders \cup {r},
           r \in Holders \/ Cardinality(Holders) < MaxBatchSize
    PROVE  SlotsBounded'
<1>1. /\ IsFiniteSet(Holders \cup {r})
      /\ Cardinality(Holders \cup {r}) <= MaxBatchSize
  <2>1. /\ IsFiniteSet(Holders \cup {r})
        /\ Cardinality(Holders \cup {r}) =
             IF r \in Holders THEN Cardinality(Holders)
             ELSE Cardinality(Holders) + 1
    BY HoldersFinite, FS_AddElement
  <2> QED
    BY <2>1, HoldersFinite, LimitsAssumption DEF SlotsBounded
<1>2. /\ Cardinality(Holders') <= Cardinality(Holders \cup {r})
      /\ Cardinality(Holders') \in Nat
      /\ Cardinality(Holders \cup {r}) \in Nat
  BY <1>1, FS_Subset, FS_CardinalityType
<1> QED
  BY <1>1, <1>2, LimitsAssumption DEF SlotsBounded

\* The steps of the loop that schedule r: a request without a slot passed
\* the test on the pool.
LEMMA SlotsSchedule ==
    ASSUME TypeOK, SlotsBounded, NEW r \in Requests,
           \/ SchedulePrefillFirstChunk(r)
           \/ SchedulePrefill(r)
           \/ ScheduleDecode(r)
           \/ ScheduleDecodeFromRetracted(r)
    PROVE  SlotsBounded'
<1>1. Holders' \subseteq Holders \cup {r}
  BY DEF SchedulePrefillFirstChunk, SchedulePrefill, ScheduleDecode,
         ScheduleDecodeFromRetracted, Holders, TypeOK
<1>2. ~NoSlot(r)
  BY DEF SchedulePrefillFirstChunk, SchedulePrefill, ScheduleDecode,
         ScheduleDecodeFromRetracted, Admits
<1>3. NeedsSlot(r) \/ r \in Holders
  BY DEF SchedulePrefillFirstChunk, SchedulePrefill, ScheduleDecode,
         ScheduleDecodeFromRetracted, NeedsSlot, Holders, SlotPhase
<1>4. r \in Holders \/ Cardinality(Holders) < MaxBatchSize
  BY <1>2, <1>3, HoldersFinite, LimitsAssumption DEF NoSlot
<1> QED
  BY <1>1, <1>4, SlotsGrow

\* No other step gives a slot away.
LEMMA SlotsOther ==
    ASSUME TypeOK, SlotsBounded, [Next]_vars,
           \A r \in Requests : ~ (\/ SchedulePrefillFirstChunk(r)
                                  \/ SchedulePrefill(r)
                                  \/ ScheduleDecode(r)
                                  \/ ScheduleDecodeFromRetracted(r))
    PROVE  SlotsBounded'
<1> SUFFICES Holders' \subseteq Holders
  BY SlotsShrink
<1>1. CASE BeginPlan
  BY <1>1 DEF BeginPlan, Holders, SlotPhase, Gone, TypeOK
<1>2. CASE ReturnPlan \/ UNCHANGED vars
  BY <1>2 DEF ReturnPlan, vars, Holders
<1>3. ASSUME NEW r \in Requests, SkipNoSlot(r) \/ SkipNoPages(r)
      PROVE  Holders' \subseteq Holders
  BY <1>3 DEF SkipNoSlot, SkipNoPages, Holders
<1>4. ASSUME NEW r \in Requests, RetractAborts(r)
      PROVE  Holders' \subseteq Holders
  BY <1>4 DEF RetractAborts, Holders, SlotPhase, Gone, TypeOK
<1>5. ASSUME NEW r \in Requests, RetractKeepsPages(r)
      PROVE  Holders' \subseteq Holders
  BY <1>5 DEF RetractKeepsPages, Holders, SlotPhase, TypeOK
<1>6. ASSUME NEW r \in Requests, Client(r)
      PROVE  Holders' \subseteq Holders
  <2>1. ASSUME NEW len \in PromptLens, SubmitRequests(r, len)
        PROVE  Holders' \subseteq Holders
    <3>1. NewRequest(len).phase = "Submitted"
      BY DEF NewRequest, Gone
    <3> QED
      BY <2>1, <3>1 DEF SubmitRequests, Holders, SlotPhase, TypeOK
  <2>2. CASE Abort(r)
    BY <2>2 DEF Abort, Holders, SlotPhase, Gone, TypeOK
  <2> QED
    BY <1>6, <2>1, <2>2 DEF Client
<1>7. ASSUME NEW r \in Requests, Result(r)
      PROVE  Holders' \subseteq Holders
  <2>1. CASE PrefillResult(r) \/ StaleResult(r)
    BY <2>1 DEF PrefillResult, StaleResult, Holders
  <2>2. ASSUME NEW n \in 0 .. Room(r), DecodeResult(r, n)
        PROVE  Holders' \subseteq Holders
    BY <2>2 DEF DecodeResult, Holders, TypeOK
  <2>3. ASSUME NEW n \in 0 .. Room(r), FinishResult(r, n)
        PROVE  Holders' \subseteq Holders
    BY <2>3 DEF FinishResult, Holders, SlotPhase, Gone, TypeOK
  <2> QED
    BY <1>7, <2>1, <2>2, <2>3 DEF Result
<1> QED
  BY <1>1, <1>2, <1>3, <1>4, <1>5, <1>6, <1>7 DEF Next, PlanStep

\* The slot pool is never overdrawn, in any interleaving of submissions,
\* aborts, plans, retractions and results.
THEOREM SlotsAlwaysBounded == Spec => []SlotsBounded
<1>1. Init => SlotsBounded
  <2>1. ASSUME Init PROVE Holders = {}
    BY <2>1 DEF Init, Holders, SlotPhase, Gone
  <2> QED
    BY <2>1, FS_EmptySet, LimitsAssumption DEF SlotsBounded
<1>2. TypeOK /\ SlotsBounded /\ [Next]_vars => SlotsBounded'
  BY SlotsSchedule, SlotsOther
<1> QED
  BY <1>1, <1>2, TypeCorrect, PTL DEF Spec

-----------------------------------------------------------------------------
(* Pages in flight.                                                        *)

\* Why FlightExclusive holds: while a plan is built the pages of an operation
\* stay with its request, and while it is executed they can only move to the
\* free list, from which nobody takes before the next plan.
FlightPages ==
    \A r \in Requests :
        opKind[r] # "none" =>
            opPages[r] \subseteq local[r] \cup (IF planning THEN {} ELSE free)

\* Pages have one owner, so pages still owned by r or free are nobody else's.
LEMMA FlightPagesSuffice == OneOwner /\ FlightPages => FlightExclusive
<1> SUFFICES ASSUME OneOwner, FlightPages, NEW r \in Ops
             PROVE  /\ opPages[r] \cap tree = {}
                    /\ \A q \in Requests \ {r} : opPages[r] \cap local[q] = {}
  BY DEF FlightExclusive
<1>1. r \in Requests /\ opPages[r] \subseteq local[r] \cup free
  BY DEF FlightPages, Ops
<1>2. local[r] \cap tree = {} /\ free \cap tree = {}
  BY <1>1 DEF OneOwner
<1>3. \A q \in Requests \ {r} :
         local[r] \cap local[q] = {} /\ free \cap local[q] = {}
  BY <1>1 DEF OneOwner
<1> QED
  BY <1>1, <1>2, <1>3

\* Acquire adds pages to one request and takes none from anybody's.
LEMMA AcquireKeeps ==
    ASSUME TypeOK, NEW r \in Requests, NEW n, NEW m, Acquire(r, n, m)
    PROVE  \A q \in Requests : local[q] \subseteq local'[q]
BY DEF Acquire, TypeOK

\* The loop schedules a request: its operation, if one is pushed, carries
\* its own pages.
LEMMA FlightSchedule ==
    ASSUME TypeOK, FlightPages, NEW r \in Requests,
           \/ SchedulePrefillFirstChunk(r)
           \/ SchedulePrefill(r)
           \/ ScheduleDecode(r)
           \/ ScheduleDecodeFromRetracted(r)
    PROVE  FlightPages'
<1>1. planning /\ planning'
  BY DEF SchedulePrefillFirstChunk, SchedulePrefill, ScheduleDecode,
         ScheduleDecodeFromRetracted, Admits, Visits, PushOp
<1>2. \A q \in Requests : local[q] \subseteq local'[q]
  <2>1. \E n, m : Acquire(r, n, m)
    BY DEF SchedulePrefillFirstChunk, SchedulePrefill, ScheduleDecode,
           ScheduleDecodeFromRetracted
  <2> QED
    BY <2>1, AcquireKeeps
<1>3. \/ UNCHANGED <<opKind, opPages>>
      \/ \E kind, length : PushOp(r, kind, length)
  BY DEF SchedulePrefillFirstChunk, SchedulePrefill, ScheduleDecode,
         ScheduleDecodeFromRetracted
<1>4. CASE UNCHANGED <<opKind, opPages>>
  BY <1>1, <1>2, <1>4 DEF FlightPages
<1>5. ASSUME NEW kind, NEW length, PushOp(r, kind, length)
      PROVE  FlightPages'
  BY <1>1, <1>2, <1>5 DEF FlightPages, PushOp, TypeOK
<1> QED
  BY <1>3, <1>4, <1>5

\* A plan begins with nothing in flight; one that retracts has no operation.
LEMMA FlightNoOps ==
    ASSUME Ops = {}, UNCHANGED opKind
    PROVE  FlightPages'
BY DEF Ops, FlightPages

\* Finish and retraction give r's pages away and touch nobody else's; the
\* free list only grows.
LEMMA InsertKeeps ==
    ASSUME TypeOK, NEW r \in Requests, NEW n, InsertAndRelease(r, n)
    PROVE  /\ free \subseteq free'
           /\ \A q \in Requests \ {r} : local'[q] = local[q]
BY DEF InsertAndRelease, TypeOK

\* A result takes r's operation out of flight; the others keep their pages.
LEMMA FlightResult ==
    ASSUME TypeOK, FlightPages, NEW r \in Requests, Result(r)
    PROVE  FlightPages'
<1>1. ~planning /\ ~planning' /\ ClearOp(r)
  <2>1. planning' = planning
    BY DEF Result, PrefillResult, DecodeResult, FinishResult, StaleResult,
           planVars
  <2>2. ~planning /\ ClearOp(r)
    BY DEF Result, PrefillResult, DecodeResult, FinishResult, StaleResult
  <2> QED
    BY <2>1, <2>2, Zenon
<1>2. /\ free \subseteq free'
      /\ \A q \in Requests \ {r} : local'[q] = local[q]
  <2>1. CASE PrefillResult(r) \/ StaleResult(r)
    BY <2>1 DEF PrefillResult, StaleResult
  <2>2. CASE \E n \in 0 .. Room(r) : DecodeResult(r, n)
    BY <2>2 DEF DecodeResult
  <2>3. CASE \E n \in 0 .. Room(r) : FinishResult(r, n)
    BY <2>3, InsertKeeps DEF FinishResult
  <2> QED
    BY <2>1, <2>2, <2>3 DEF Result
<1> QED
  BY <1>1, <1>2 DEF FlightPages, ClearOp, TypeOK

\* An abort during the forward moves the pages to the free list.
LEMMA FlightClient ==
    ASSUME TypeOK, FlightPages, NEW r \in Requests, Client(r)
    PROVE  FlightPages'
<1>1. CASE \E len \in PromptLens : SubmitRequests(r, len)
  BY <1>1 DEF SubmitRequests, planVars, FlightPages
<1>2. CASE Abort(r)
  <2>1. ~planning /\ ~planning' /\ UNCHANGED <<opKind, opPages>>
    BY <1>2 DEF Abort, planVars
  <2>2. \A q \in Requests : local[q] \cup free \subseteq local'[q] \cup free'
    BY <1>2 DEF Abort, ReleaseAll, TypeOK
  <2> QED
    BY <2>1, <2>2 DEF FlightPages
<1> QED
  BY <1>1, <1>2 DEF Client

\* Every step keeps the pages of the operations in flight where they may be.
LEMMA FlightNext == TypeOK /\ FlightPages /\ [Next]_vars => FlightPages'
<1> SUFFICES ASSUME TypeOK, FlightPages, [Next]_vars PROVE FlightPages'
  OBVIOUS
<1>1. CASE BeginPlan
  BY <1>1, FlightNoOps DEF BeginPlan, PreviousPlanDone
<1>2. CASE ReturnPlan
  BY <1>2 DEF ReturnPlan, PlanOver, FlightPages
<1>3. ASSUME NEW r \in Requests,
             \/ SchedulePrefillFirstChunk(r)
             \/ SchedulePrefill(r)
             \/ ScheduleDecode(r)
             \/ ScheduleDecodeFromRetracted(r)
      PROVE  FlightPages'
  BY <1>3, FlightSchedule
<1>4. ASSUME NEW r \in Requests, SkipNoSlot(r) \/ SkipNoPages(r)
      PROVE  FlightPages'
  BY <1>4 DEF SkipNoSlot, SkipNoPages, Visits, FlightPages
<1>5. ASSUME NEW r \in Requests, RetractAborts(r) \/ RetractKeepsPages(r)
      PROVE  FlightPages'
  BY <1>5, FlightNoOps DEF RetractAborts, RetractKeepsPages, PlanOver
<1>6. ASSUME NEW r \in Requests, Client(r) \/ Result(r)
      PROVE  FlightPages'
  BY <1>6, FlightClient, FlightResult
<1>7. CASE UNCHANGED vars
  BY <1>7 DEF vars, FlightPages
<1> QED
  BY <1>1, <1>2, <1>3, <1>4, <1>5, <1>6, <1>7 DEF Next, PlanStep

\* The pages an operation writes are nobody else's until its result is in,
\* whoever is aborted, finished or submitted meanwhile.
THEOREM FlightAlwaysExclusive == Spec => []FlightExclusive
<1>1. Init => FlightPages
  BY DEF Init, Idle, FlightPages
<1>2. PagesAccounted /\ FlightPages => FlightExclusive
  BY FlightPagesSuffice DEF PagesAccounted
<1> QED
  BY <1>1, <1>2, FlightNext, TypeCorrect, PagesAlwaysAccounted, PTL DEF Spec

-----------------------------------------------------------------------------
(* The page account: how many pages each request holds, and why no         *)
(* allocator call throws.  The inductive invariant, request by request.    *)

\* What the counters of a request say in each phase.
Counters(r) ==
    LET q == req[r] IN
    /\ q.tail < PageSize
    /\ q.phase \in {"Submitted", "Prefilling", "PrefillDone"} => q.blocks = 0
    /\ q.phase = "Submitted" => q.window = 0
    /\ q.phase = "Prefilling" => q.window < q.prefill
    /\ q.phase = "PrefillDone" => q.window = q.prefill
    /\ q.phase \in {"PrefillDone", "Decoding"} => q.reserve = PageSize

\* Which operation a request may have in the plan, and with which pages.
Operation(r) ==
    /\ r \in todo => opKind[r] = "none"
    /\ opKind[r] = "prefill" =>
            req[r].phase \in {"Prefilling", "PrefillDone", "Finished"}
    /\ opKind[r] = "decode" => req[r].phase \in {"Decoding", "Finished"}
    /\ opKind[r] # "none" /\ req[r].phase # "Finished" =>
            opPages[r] = local[r]

\* The tokens its pages were acquired for.
Account(r) ==
    LET q == req[r]
        decoded == q.prefill + (q.blocks + 1) * PageSize
    IN  /\ q.phase \in {"Prefilling", "PrefillDone"} =>
                Acquired(r) = q.window + PageSize
        /\ q.phase = "Decoding" =>
                Acquired(r) = IF opKind[r] = "decode"
                              THEN decoded + PageSize ELSE decoded
        /\ q.phase = "Retracted" => Acquired(r) = decoded
        /\ q.phase \in Live =>
                q.tokens <= q.prefill +
                    (IF q.blocks = 0 THEN 1 ELSE q.blocks) * PageSize

Exact(r) == Counters(r) /\ Operation(r) /\ Account(r)

Capacity ==
    /\ \A r \in Requests : Exact(r)
    /\ NoFault

-----------------------------------------------------------------------------
(* Arithmetic of pages.                                                    *)

\* Quotient and remainder.
LEMMA Division ==
    ASSUME NEW n \in Int
    PROVE  /\ n \div PageSize \in Int
           /\ n % PageSize \in 0 .. PageSize - 1
           /\ n = PageSize * (n \div PageSize) + (n % PageSize)
BY PageSizeAssumption

\* CeilDiv rounds up to whole pages.
LEMMA CeilExact ==
    ASSUME NEW n \in Int
    PROVE  /\ CeilDiv(n) \in Int
           /\ n <= CeilDiv(n) * PageSize
           /\ CeilDiv(n) * PageSize < n + PageSize
<1> DEFINE m == n + PageSize - 1
<1>1. m \in Int /\ PageSize \in Nat /\ PageSize > 0
  BY PageSizeAssumption
<1>2. /\ m \div PageSize \in Int
      /\ m % PageSize \in 0 .. PageSize - 1
      /\ m = PageSize * (m \div PageSize) + (m % PageSize)
  BY <1>1, Division
<1> QED
  BY <1>1, <1>2 DEF CeilDiv

\* LocalKVAllocator::Acquire is exact: the pages it takes and the tail it
\* leaves are worth the tokens asked for, less the tail it found.
LEMMA AcquireExact ==
    ASSUME NEW n \in Nat, NEW tail \in Nat, tail < PageSize
    PROVE  /\ NewPages(n, tail) \in Nat
           /\ NewTail(n, tail) \in Nat
           /\ NewTail(n, tail) < PageSize
           /\ NewPages(n, tail) * PageSize - NewTail(n, tail) = n - tail
<1>1. PageSize \in Nat /\ PageSize > 0
  BY PageSizeAssumption
<1>2. CASE n <= tail
  BY <1>1, <1>2 DEF NewPages, NewTail
<1>3. CASE n > tail
  <2> DEFINE d == n - tail
             k == CeilDiv(d)
             q == d \div PageSize
             u == d % PageSize
  <2>1. d \in Int /\ d > 0
    BY <1>3
  <2>2. k \in Int /\ d <= k * PageSize /\ k * PageSize < d + PageSize
    BY <2>1, CeilExact
  <2>3. q \in Int /\ u \in 0 .. PageSize - 1 /\ d = PageSize * q + u
    BY <2>1, Division
  <2>4. /\ NewPages(n, tail) = k
        /\ NewTail(n, tail) = IF u = 0 THEN 0 ELSE PageSize - u
    BY <1>3 DEF NewPages, NewTail
  <2> HIDE DEF k, q, u
  <2>5. k >= 1 /\ k = IF u = 0 THEN q ELSE q + 1
    BY <1>1, <2>1, <2>2, <2>3
  <2> QED
    BY <1>1, <2>1, <2>2, <2>3, <2>4, <2>5
<1> QED
  BY <1>2, <1>3

\* The first chunk and the block it reserves fit the capacity asked for.
LEMMA FirstChunkFits ==
    ASSUME NEW n \in Nat
    PROVE  NewPages(n, 0) + NewPages(PageSize, NewTail(n, 0))
               <= CeilDiv(n + PageSize)
<1> DEFINE a == NewPages(n, 0)
           t == NewTail(n, 0)
           b == NewPages(PageSize, t)
           c == CeilDiv(n + PageSize)
<1>1. PageSize \in Nat /\ PageSize > 0
  BY PageSizeAssumption
<1>2. a \in Nat /\ t \in Nat /\ t < PageSize /\ a * PageSize - t = n
  BY <1>1, AcquireExact
<1>3. /\ b \in Nat
      /\ NewTail(PageSize, t) \in Nat
      /\ NewTail(PageSize, t) < PageSize
      /\ b * PageSize - NewTail(PageSize, t) = PageSize - t
  BY <1>1, <1>2, AcquireExact
<1>4. c \in Int /\ n + PageSize <= c * PageSize
  BY <1>1, CeilExact
<1> HIDE DEF a, b, c, t
<1>5. (a + b) * PageSize < (c + 1) * PageSize
  BY <1>1, <1>2, <1>3, <1>4
<1> QED
  BY <1>1, <1>2, <1>3, <1>4, <1>5 DEF a, b, c, t

\* Any other request for capacity covers what is acquired.
LEMMA AcquireFits ==
    ASSUME NEW n \in Nat, NEW tail \in Nat, tail < PageSize
    PROVE  /\ NewPages(n, tail) <= CeilDiv(n)
           /\ NewPages(n, tail) <= CeilDiv(Max0(n - tail))
<1>1. PageSize \in Nat /\ PageSize > 0
  BY PageSizeAssumption
<1>2. /\ NewPages(n, tail) \in Nat
      /\ NewTail(n, tail) \in Nat
      /\ NewTail(n, tail) < PageSize
      /\ NewPages(n, tail) * PageSize - NewTail(n, tail) = n - tail
  BY AcquireExact
<1>3. CeilDiv(n) \in Int /\ n <= CeilDiv(n) * PageSize
  BY CeilExact
<1>4. /\ Max0(n - tail) \in Nat
      /\ n - tail <= Max0(n - tail)
  BY DEF Max0
<1>5. /\ CeilDiv(Max0(n - tail)) \in Int
      /\ Max0(n - tail) <= CeilDiv(Max0(n - tail)) * PageSize
  BY <1>4, CeilExact
<1>6. NewPages(n, tail) <= CeilDiv(n)
  BY <1>1, <1>2, <1>3
<1>7. NewPages(n, tail) <= CeilDiv(Max0(n - tail))
  BY <1>1, <1>2, <1>4, <1>5
<1> QED
  BY <1>6, <1>7

\* The full pages of what a request has decoded are among those acquired.
LEMMA FullPagesFit ==
    ASSUME NEW tokens \in Nat, NEW pages \in Nat, tokens <= pages * PageSize
    PROVE  FullPages(tokens) <= pages
<1>1. PageSize \in Nat /\ PageSize > 0
  BY PageSizeAssumption
<1>2. /\ FullPages(tokens) \in Int
      /\ tokens - 1 >= PageSize * FullPages(tokens)
  BY <1>1, Division DEF FullPages
<1> QED
  BY <1>1, <1>2

\* aligned_prefill_length leaves less than a page of the prompt.
LEMMA PrefillLengthBound ==
    ASSUME NEW len \in PromptLens
    PROVE  PrefillLength(len) \in Nat /\ len <= PrefillLength(len) + PageSize
<1>1. len \in Nat /\ PageSize \in Nat /\ PageSize > 0
  BY PromptAssumption, PageSizeAssumption
<1>2. /\ len \div PageSize \in Int
      /\ len % PageSize \in 0 .. PageSize - 1
      /\ len = PageSize * (len \div PageSize) + (len % PageSize)
  BY <1>1, Division
<1>3. len \div PageSize \in Nat
  BY <1>1
<1> QED
  BY <1>1, <1>2, <1>3 DEF PrefillLength

-----------------------------------------------------------------------------
(* Cardinalities of page sets.                                             *)

\* Pages are finitely many, so every set of them can be counted.
LEMMA PagesFinite ==
    ASSUME NEW S \in SUBSET Pages
    PROVE  IsFiniteSet(S) /\ Cardinality(S) \in Nat
BY PagesAssumption, FS_Subset, FS_CardinalityType

\* Disjoint sets of pages add up.
LEMMA PagesDisjoint ==
    ASSUME NEW S \in SUBSET Pages, NEW T \in SUBSET Pages, S \cap T = {}
    PROVE  Cardinality(S \cup T) = Cardinality(S) + Cardinality(T)
<1>1. Cardinality(S \cap T) = 0
  BY FS_EmptySet
<1>2. /\ IsFiniteSet(S) /\ Cardinality(S) \in Nat
      /\ IsFiniteSet(T) /\ Cardinality(T) \in Nat
  BY PagesFinite
<1>3. Cardinality(S \cup T) =
        Cardinality(S) + Cardinality(T) - Cardinality(S \cap T)
  BY <1>2, FS_Union
<1> QED
  BY <1>1, <1>2, <1>3

\* After EnsureCapacityByEvict succeeded for n pages, the pool has them.
LEMMA EvictionsSuffice ==
    ASSUME TypeOK, OneOwner, NEW n \in Int, NEW e \in Evictions(n)
    PROVE  /\ e \in SUBSET tree
           /\ free \cup e \in SUBSET Pages
           /\ n <= Cardinality(free \cup e)
<1>1. e \in SUBSET tree /\ e \in SUBSET Pages /\ free \in SUBSET Pages
  BY DEF Evictions, TypeOK
<1>2. Cardinality(free \cup e) = Cardinality(free) + Cardinality(e)
  BY <1>1, PagesDisjoint DEF OneOwner
<1>3. Cardinality(free) \in Nat /\ Cardinality(e) \in Nat
  BY <1>1, PagesFinite
<1>4. n <= Cardinality(free) + Cardinality(e)
  <2>1. CASE n <= Cardinality(free)
    BY <1>3, <2>1
  <2>2. CASE ~ (n <= Cardinality(free))
    <3>1. Cardinality(e) >= n - Cardinality(free)
      BY <2>2 DEF Evictions
    <3> QED
      BY <1>3, <3>1
  <2> QED
    BY <2>1, <2>2
<1> QED
  BY <1>1, <1>2, <1>4

\* An acquisition that capacity was ensured for does not throw and adds
\* exactly the pages it asked for.
LEMMA AcquireCount ==
    ASSUME TypeOK, OneOwner, NoFault, NEW r \in Requests,
           NEW n \in Int, NEW m \in Nat, m <= n, Acquire(r, n, m)
    PROVE  /\ NoFault'
           /\ Cardinality(local'[r]) = Cardinality(local[r]) + m
           /\ Cardinality(local[r]) \in Nat
           /\ \A q \in Requests \ {r} : local'[q] = local[q]
<1>1. PICK e \in Evictions(n) : Acquire(r, n, m)!(e)
  BY DEF Acquire
<1> DEFINE pool == free \cup e
<1>2. e \in SUBSET tree /\ pool \in SUBSET Pages /\ n <= Cardinality(pool)
  BY EvictionsSuffice
<1>3. Cardinality(pool) \in Nat
  BY <1>2, PagesFinite
<1>4. PICK s \in SUBSET pool :
        /\ Cardinality(s) = MinOf(m, Cardinality(pool))
        /\ local' = [local EXCEPT ![r] = @ \cup s]
  BY <1>1
<1>5. ~ (m > Cardinality(pool))
  BY <1>2, <1>3
<1>6. Cardinality(s) = m
  BY <1>2, <1>3, <1>4 DEF MinOf
<1>7. NoFault'
  <2>1. fault' = (fault \/ m > Cardinality(pool))
    BY <1>1
  <2> QED
    BY <1>5, <2>1, Zenon DEF NoFault
<1>8. /\ local'[r] = local[r] \cup s
      /\ \A q \in Requests \ {r} : local'[q] = local[q]
  BY <1>4 DEF TypeOK
<1>9. local[r] \in SUBSET Pages /\ s \in SUBSET Pages /\ local[r] \cap s = {}
  BY <1>2, <1>4 DEF TypeOK, OneOwner
<1>10. Cardinality(local[r] \cup s) = Cardinality(local[r]) + Cardinality(s)
  BY <1>9, PagesDisjoint
<1> QED
  BY <1>6, <1>7, <1>8, <1>9, <1>10, PagesFinite

-----------------------------------------------------------------------------
(* Every step preserves the account.                                       *)

\* Nothing of q changes, and q does not become a candidate.
Same(q) ==
    /\ req'[q] = req[q]
    /\ local'[q] = local[q]
    /\ opKind'[q] = opKind[q]
    /\ opPages'[q] = opPages[q]
    /\ q \in todo' => q \in todo

\* What does not change stays exact.
LEMMA ExactFrame ==
    ASSUME NEW q, Exact(q), Same(q)
    PROVE  Exact(q)'
BY DEF Exact, Counters, Operation, Account, Acquired, Same

\* A step of one request.
LEMMA CapacityStep ==
    ASSUME Capacity, NEW r \in Requests, Exact(r)', NoFault',
           \A q \in Requests \ {r} : Same(q)
    PROVE  Capacity'
<1>1. \A q \in Requests : Exact(q)'
  BY ExactFrame DEF Capacity
<1> QED
  BY <1>1 DEF Capacity

\* At start there is no request.
LEMMA CapacityInit == Init => Capacity
<1> SUFFICES ASSUME Init, NEW r \in Requests PROVE Exact(r) /\ NoFault
  BY DEF Capacity, Init, Idle, NoFault
<1>1. req[r] = Gone("absent") /\ opKind[r] = "none" /\ PageSize > 0
  BY PageSizeAssumption DEF Init, Idle
<1>2. Exact(r)
  BY <1>1 DEF Exact, Counters, Operation, Account, Gone, Live
<1>3. NoFault
  BY Zenon DEF Init, Idle, NoFault
<1> QED
  BY <1>2, <1>3

\* A new request holds nothing and its prompt fits the account.
LEMMA CapacitySubmit ==
    ASSUME Owners, Capacity, NEW r \in Requests, NEW len \in PromptLens,
           SubmitRequests(r, len)
    PROVE  Capacity'
<1>1. \A q \in Requests \ {r} : Same(q)
  BY DEF SubmitRequests, planVars, Same, Owners, TypeOK
<1>2. NoFault'
  BY DEF SubmitRequests, Capacity, NoFault
<1>3. /\ req'[r] = NewRequest(len)
      /\ opKind'[r] = opKind[r] /\ todo' = todo
  BY DEF SubmitRequests, planVars, Owners, TypeOK
<1>4. opKind[r] = "none"
  BY DEF SubmitRequests, Capacity, Exact, Operation, Owners, TypeOK
<1>5. PrefillLength(len) \in Nat /\ len <= PrefillLength(len) + PageSize
  BY PrefillLengthBound
<1>6. PageSize \in Nat /\ PageSize > 0
  BY PageSizeAssumption
<1>7. /\ NewRequest(len).phase = "Submitted"
      /\ NewRequest(len).tokens = len
      /\ NewRequest(len).prefill = PrefillLength(len)
      /\ NewRequest(len).window = 0
      /\ NewRequest(len).blocks = 0
      /\ NewRequest(len).tail = 0
  BY DEF NewRequest, Gone
<1>8. Exact(r)'
  BY <1>3, <1>4, <1>5, <1>6, <1>7 DEF Exact, Counters, Operation, Account
<1> QED
  BY <1>1, <1>2, <1>8, CapacityStep

\* A request that ended has nothing to account for.
LEMMA GoneExact ==
    ASSUME NEW r \in Requests, req'[r] = Gone("Finished"),
           r \in todo' => opKind'[r] = "none"
    PROVE  Exact(r)'
<1>1. PageSize > 0
  BY PageSizeAssumption
<1> QED
  BY <1>1 DEF Exact, Counters, Operation, Account, Gone, Live

\* An abort, also of a request whose operation is being executed.
LEMMA CapacityAbort ==
    ASSUME Owners, Capacity, NEW r \in Requests, Abort(r)
    PROVE  Capacity'
<1>1. \A q \in Requests \ {r} : Same(q)
  BY DEF Abort, ReleaseAll, planVars, Same, Owners, TypeOK
<1>2. NoFault'
  BY DEF Abort, Capacity, NoFault
<1>3. /\ req'[r] = Gone("Finished")
      /\ opKind'[r] = opKind[r] /\ todo' = todo
  BY DEF Abort, planVars, Owners, TypeOK
<1>4. r \in todo' => opKind'[r] = "none"
  BY <1>3 DEF Capacity, Exact, Operation
<1>5. Exact(r)'
  BY <1>3, <1>4, GoneExact
<1> QED
  BY <1>1, <1>2, <1>5, CapacityStep

\* The start of a plan erases terminal requests and makes the others
\* candidates; none of them has an operation.
LEMMA CapacityBeginPlan ==
    ASSUME Owners, Capacity, BeginPlan
    PROVE  Capacity'
<1>1. NoFault'
  BY DEF BeginPlan, Capacity, NoFault
<1>2. ASSUME NEW r \in Requests
      PROVE  Exact(r)'
  <2>1. opKind[r] = "none" /\ opKind'[r] = "none" /\ local'[r] = local[r]
    BY DEF BeginPlan, PreviousPlanDone, Ops
  <2>2. CASE req[r].phase = "Finished"
    <3>1. req'[r] = Gone("absent") /\ PageSize > 0
      BY <2>2, PageSizeAssumption DEF BeginPlan
    <3> QED
      BY <2>1, <3>1 DEF Exact, Counters, Operation, Account, Gone, Live
  <2>3. CASE req[r].phase # "Finished"
    <3>1. req'[r] = req[r]
      BY <2>3 DEF BeginPlan
    <3> QED
      BY <2>1, <3>1
         DEF Capacity, Exact, Counters, Operation, Account, Acquired
  <2> QED
    BY <2>2, <2>3
<1> QED
  BY <1>1, <1>2 DEF Capacity

\* A candidate is passed over.
LEMMA CapacitySkip ==
    ASSUME Owners, Capacity, NEW r \in Requests, SkipNoSlot(r) \/ SkipNoPages(r)
    PROVE  Capacity'
<1>1. \A q \in Requests : Same(q)
  BY DEF SkipNoSlot, SkipNoPages, Same
<1>2. NoFault'
  BY DEF SkipNoSlot, SkipNoPages, Capacity, NoFault
<1>3. Exact(r)'
  BY <1>1, ExactFrame DEF Capacity
<1> QED
  BY <1>1, <1>2, <1>3, CapacityStep

\* A plan returns its operations.
LEMMA CapacityReturnPlan ==
    ASSUME Owners, Capacity, ReturnPlan
    PROVE  Capacity'
<1>1. \A q \in Requests : Same(q)
  BY DEF ReturnPlan, PlanOver, Same
<1>2. NoFault'
  BY DEF ReturnPlan, Capacity, NoFault
<1> QED
  BY <1>1, <1>2, ExactFrame DEF Capacity

\* A victim with full pages is aborted.
LEMMA CapacityRetractAborts ==
    ASSUME Owners, Capacity, NEW r \in Requests, RetractAborts(r)
    PROVE  Capacity'
<1>1. \A q \in Requests \ {r} : local'[q] = local[q]
  BY InsertOwners DEF RetractAborts, Owners, PagesAccounted
<1>2. /\ req' = [req EXCEPT ![r] = Gone("Finished")]
      /\ todo' = {}
      /\ UNCHANGED <<opKind, opPages, fault>>
  BY DEF RetractAborts, PlanOver
<1>3. \A q \in Requests \ {r} : Same(q)
  BY <1>1, <1>2 DEF Same, Owners, TypeOK
<1>4. Exact(r)'
  BY <1>2, GoneExact DEF Owners, TypeOK
<1> QED
  BY <1>2, <1>3, <1>4, CapacityStep DEF Capacity, NoFault

\* A victim that keeps its pages has those of the blocks decoded and of the
\* one reserved.
LEMMA CapacityRetractKeepsPages ==
    ASSUME Owners, Capacity, NEW r \in Requests, RetractKeepsPages(r)
    PROVE  Capacity'
<1>1. /\ req' = [req EXCEPT ![r] = [@ EXCEPT !.phase = "Retracted",
                                             !.reserve = 0]]
      /\ todo' = {}
      /\ UNCHANGED <<local, opKind, opPages, fault>>
  BY DEF RetractKeepsPages, PlanOver
<1>2. \A q \in Requests \ {r} : Same(q)
  BY <1>1 DEF Same, Owners, TypeOK
<1>3. req[r].phase \in {"PrefillDone", "Decoding"} /\ opKind[r] = "none"
  BY DEF RetractKeepsPages, Victim, RetractCandidates, Ops
<1>4. /\ req'[r].phase = "Retracted"
      /\ req'[r].tokens = req[r].tokens
      /\ req'[r].prefill = req[r].prefill
      /\ req'[r].window = req[r].window
      /\ req'[r].blocks = req[r].blocks
      /\ req'[r].tail = req[r].tail
  BY <1>1 DEF Owners, TypeOK, ReqType
<1>5. /\ req[r].prefill \in Nat /\ req[r].blocks \in Nat
      /\ PageSize \in Nat
  BY PageSizeAssumption DEF Owners, TypeOK, ReqType
<1>6. Counters(r) /\ Account(r)
  BY DEF Capacity, Exact
<1>7. Counters(r)' /\ Operation(r)'
  BY <1>1, <1>3, <1>4, <1>6 DEF Counters, Operation
<1>8. Acquired(r)' = Acquired(r)
  BY <1>1, <1>4 DEF Acquired
<1>9. Account(r)'
  BY <1>3, <1>4, <1>5, <1>6, <1>8 DEF Account, Counters, Live, Phase
<1> QED
  BY <1>1, <1>2, <1>7, <1>9, CapacityStep DEF Capacity, NoFault, Exact

-----------------------------------------------------------------------------
(* The steps of the plan loop that acquire pages.                          *)

\* What pushing an operation does to r and to the others.
LEMMA PushEffect ==
    ASSUME TypeOK, NEW r \in Requests, NEW rec, NEW kind, NEW length,
           req' = [req EXCEPT ![r] = rec],
           \A q \in Requests \ {r} : local'[q] = local[q],
           PushOp(r, kind, length)
    PROVE  /\ \A q \in Requests \ {r} : Same(q)
           /\ req'[r] = rec
           /\ opKind'[r] = kind
           /\ opPages'[r] = local'[r]
           /\ r \notin todo'
BY DEF PushOp, TypeOK, Same

\* A chunk is a number of tokens, at most what is left of the prompt, and
\* empty only when nothing is left.
LEMMA ChunkExact ==
    ASSUME TypeOK, NEW r \in Requests, Visits(r),
           req[r].window <= req[r].prefill
    PROVE  /\ Chunk(r) \in Nat
           /\ req[r].window + Chunk(r) <= req[r].prefill
           /\ Chunk(r) = 0 => req[r].window = req[r].prefill
BY DEF TypeOK, ReqType, Chunk, MinOf, Visits, LoopDone

\* The record after a chunk.
LEMMA AfterChunkExact ==
    ASSUME TypeOK, NEW r \in Requests, NEW n \in Nat, NEW tail \in Nat,
           tail < PageSize, req[r].blocks = 0,
           req[r].window + n <= req[r].prefill,
           req'[r] = AfterChunk(r, n, tail)
    PROVE  /\ Counters(r)'
           /\ req'[r].phase \in {"Prefilling", "PrefillDone"}
           /\ req'[r].window = req[r].window + n
           /\ req'[r].tail = tail
           /\ req'[r].blocks = 0
           /\ req'[r].tokens = req[r].tokens
           /\ req'[r].prefill = req[r].prefill
<1>1. req[r] \in ReqType /\ PageSize \in Nat
  BY PageSizeAssumption DEF TypeOK
<1>2. /\ req'[r].phase = IF req[r].window + n = req[r].prefill
                         THEN "PrefillDone" ELSE "Prefilling"
      /\ req'[r].window = req[r].window + n
      /\ req'[r].tail = tail
      /\ req'[r].blocks = 0
      /\ req'[r].tokens = req[r].tokens
      /\ req'[r].prefill = req[r].prefill
      /\ req'[r].reserve = IF req[r].window + n = req[r].prefill
                           THEN PageSize ELSE 0
  BY <1>1 DEF AfterChunk, ReqType
<1>3. req[r].window \in Nat /\ req[r].prefill \in Nat
  BY <1>1 DEF ReqType
<1> QED
  BY <1>2, <1>3 DEF Counters

\* A chunk whose tokens its pages were acquired for keeps the account.
LEMMA ChunkAccount ==
    ASSUME TypeOK, NEW r \in Requests, Account(r), req[r].phase \in Live,
           req'[r].phase \in {"Prefilling", "PrefillDone"},
           req[r].blocks = 0, req'[r].blocks = 0,
           req'[r].tokens = req[r].tokens,
           req'[r].prefill = req[r].prefill,
           Acquired(r)' = req'[r].window + PageSize
    PROVE  Account(r)'
BY DEF Account

\* The first chunk: pages for the chunk, then for a block.
LEMMA CapacityFirstChunk ==
    ASSUME Owners, Capacity, NEW r \in Requests, SchedulePrefillFirstChunk(r)
    PROVE  Capacity'
<1> DEFINE n == Chunk(r)
           t == NewTail(n, 0)
           tail == NewTail(PageSize, t)
           a == NewPages(n, 0)
           b == NewPages(PageSize, t)
<1>1. /\ req[r].phase = "Submitted" /\ Visits(r)
      /\ req' = [req EXCEPT ![r] = AfterChunk(r, n, tail)]
      /\ Acquire(r, PagesNeeded(r), a + b)
  BY DEF SchedulePrefillFirstChunk, Admits
<1>2. /\ req[r].window = 0 /\ req[r].blocks = 0 /\ req[r].prefill \in Nat
      /\ PageSize \in Nat /\ PageSize > 0
  BY <1>1, PageSizeAssumption
     DEF Capacity, Exact, Counters, Owners, TypeOK, ReqType
<1>3. n \in Nat /\ req[r].window + n <= req[r].prefill
  BY <1>1, <1>2, ChunkExact DEF Owners
<1>4. a \in Nat /\ t \in Nat /\ t < PageSize /\ a * PageSize - t = n
  BY <1>2, <1>3, AcquireExact
<1>5. /\ b \in Nat /\ tail \in Nat /\ tail < PageSize
      /\ b * PageSize - tail = PageSize - t
  BY <1>2, <1>4, AcquireExact
<1>6. /\ a + b <= PagesNeeded(r) /\ PagesNeeded(r) \in Int
  <2>1. PagesNeeded(r) = CeilDiv(n + PageSize)
    BY <1>1 DEF PagesNeeded
  <2>2. a + b <= CeilDiv(n + PageSize)
    BY <1>3, FirstChunkFits
  <2>3. CeilDiv(n + PageSize) \in Int
    BY <1>2, <1>3, CeilExact
  <2> QED
    BY <2>1, <2>2, <2>3
<1> HIDE DEF n, t, tail, a, b
<1>7. /\ NoFault'
      /\ Cardinality(local'[r]) = Cardinality(local[r]) + (a + b)
      /\ \A q \in Requests \ {r} : local'[q] = local[q]
  <2>1. a + b \in Nat
    BY <1>4, <1>5
  <2> QED
    BY <1>1, <1>6, <2>1, AcquireCount DEF Owners, PagesAccounted, Capacity
<1>8. Cardinality(local[r]) = 0
  BY <1>1, FS_EmptySet DEF Owners, PagesAccounted, NoIdleOwner, SlotPhase
<1>9. req'[r] = AfterChunk(r, n, tail)
  BY <1>1 DEF Owners, TypeOK
<1>10. /\ Counters(r)'
       /\ req'[r].phase \in {"Prefilling", "PrefillDone"}
       /\ req'[r].window = n
       /\ req'[r].tail = tail
       /\ req'[r].blocks = 0
       /\ req'[r].tokens = req[r].tokens
       /\ req'[r].prefill = req[r].prefill
  BY <1>2, <1>3, <1>5, <1>9, AfterChunkExact DEF Owners
<1>11. Acquired(r)' = req'[r].window + PageSize
  BY <1>2, <1>3, <1>4, <1>5, <1>7, <1>8, <1>10 DEF Acquired
<1>12. Account(r)'
  BY <1>1, <1>2, <1>10, <1>11, ChunkAccount
     DEF Owners, Capacity, Exact, Live, Phase
<1>13. (\A q \in Requests \ {r} : Same(q)) /\ Operation(r)'
  <2>1. CASE PushOp(r, "prefill", n)
    <3>1. /\ \A q \in Requests \ {r} : Same(q)
          /\ opKind'[r] = "prefill"
          /\ opPages'[r] = local'[r]
          /\ r \notin todo'
      BY <1>1, <1>7, <2>1, PushEffect DEF Owners
    <3> QED
      BY <1>10, <3>1 DEF Operation
  <2>2. CASE UNCHANGED <<todo, opKind, opPages>>
    <3>1. opKind[r] = "none"
      BY <1>1 DEF Capacity, Exact, Operation, Visits, IsNext
    <3>2. \A q \in Requests \ {r} : Same(q)
      BY <1>1, <1>7, <2>2 DEF Same, Owners, TypeOK
    <3> QED
      BY <2>2, <3>1, <3>2 DEF Operation
  <2> QED
    BY <2>1, <2>2 DEF SchedulePrefillFirstChunk, n
<1> QED
  BY <1>7, <1>10, <1>12, <1>13, CapacityStep DEF Exact

\* A further chunk extends the pages of the first.
LEMMA CapacityPrefill ==
    ASSUME Owners, Capacity, NEW r \in Requests, SchedulePrefill(r)
    PROVE  Capacity'
<1> DEFINE n == Chunk(r)
           old == req[r].tail
           tail == NewTail(n, old)
           a == NewPages(n, old)
<1>1. /\ req[r].phase = "Prefilling" /\ Visits(r)
      /\ req' = [req EXCEPT ![r] = AfterChunk(r, n, tail)]
      /\ Acquire(r, PagesNeeded(r), a)
      /\ PushOp(r, "prefill", n)
  BY DEF SchedulePrefill, Admits
<1>2. /\ req[r].window < req[r].prefill /\ req[r].blocks = 0
      /\ old < PageSize /\ Acquired(r) = req[r].window + PageSize
  BY <1>1 DEF Capacity, Exact, Counters, Account
<1>3. /\ req[r].window \in Nat /\ req[r].prefill \in Nat /\ old \in Nat
      /\ PageSize \in Nat /\ PageSize > 0
  BY PageSizeAssumption DEF Owners, TypeOK, ReqType
<1>4. n \in Nat /\ req[r].window + n <= req[r].prefill
  BY <1>1, <1>2, <1>3, ChunkExact DEF Owners
<1>5. /\ a \in Nat /\ tail \in Nat /\ tail < PageSize
      /\ a * PageSize - tail = n - old
  BY <1>2, <1>3, <1>4, AcquireExact
<1>6. a <= PagesNeeded(r) /\ PagesNeeded(r) \in Int
  <2>1. PagesNeeded(r) = CeilDiv(n)
    BY <1>1 DEF PagesNeeded
  <2> QED
    BY <1>2, <1>3, <1>4, <2>1, AcquireFits, CeilExact
<1> HIDE DEF n, old, tail, a
<1>7. /\ NoFault'
      /\ Cardinality(local'[r]) = Cardinality(local[r]) + a
      /\ Cardinality(local[r]) \in Nat
      /\ \A q \in Requests \ {r} : local'[q] = local[q]
  BY <1>1, <1>5, <1>6, AcquireCount DEF Owners, PagesAccounted, Capacity
<1>8. /\ \A q \in Requests \ {r} : Same(q)
      /\ req'[r] = AfterChunk(r, n, tail)
      /\ opKind'[r] = "prefill"
      /\ opPages'[r] = local'[r]
      /\ r \notin todo'
  BY <1>1, <1>7, PushEffect DEF Owners
<1>9. /\ Counters(r)'
      /\ req'[r].phase \in {"Prefilling", "PrefillDone"}
      /\ req'[r].window = req[r].window + n
      /\ req'[r].tail = tail
      /\ req'[r].blocks = 0
      /\ req'[r].tokens = req[r].tokens
      /\ req'[r].prefill = req[r].prefill
  BY <1>2, <1>4, <1>5, <1>8, AfterChunkExact DEF Owners
<1>10. Acquired(r)' = req'[r].window + PageSize
  <2>1. (Cardinality(local[r]) + a) * PageSize
          = Cardinality(local[r]) * PageSize + a * PageSize
    BY <1>3, <1>5, <1>7
  <2>3. Cardinality(local[r]) * PageSize - old = req[r].window + PageSize
    BY <1>2 DEF Acquired, old
  <2>4. /\ Cardinality(local[r]) * PageSize \in Int
        /\ a * PageSize \in Int
    BY <1>3, <1>5, <1>7
  <2>5. PICK x, y : x = Cardinality(local[r]) * PageSize /\ y = a * PageSize
    OBVIOUS
  <2>6. x \in Int /\ y \in Int /\ x - old = req[r].window + PageSize /\ y - tail = n - old
    BY <1>5, <2>3, <2>4, <2>5, Zenon
  <2>7. Acquired(r)' = (x + y) - tail
    <3>1. (Cardinality(local[r]) + a) * PageSize = x + y
      BY <2>1, <2>5, Zenon
    <3>2. Cardinality(local'[r]) * PageSize = x + y
      BY <1>7, <3>1, Zenon
    <3>3. req'[r].tail = tail
      BY <1>9
    <3> QED
      BY <3>2, <3>3 DEF Acquired
  <2>8. /\ tail \in Int /\ n \in Int /\ old \in Int
        /\ req[r].window \in Int /\ PageSize \in Int
    BY <1>3, <1>4, <1>5
  <2>9. (x + y) - tail = (req[r].window + n) + PageSize
    BY <2>6, <2>8
  <2> QED
    BY <1>9, <2>7, <2>9, Zenon
<1>11. Account(r)'
  BY <1>1, <1>2, <1>9, <1>10, ChunkAccount
     DEF Owners, Capacity, Exact, Live, Phase
<1>12. Operation(r)'
  BY <1>8, <1>9 DEF Operation
<1> QED
  BY <1>7, <1>8, <1>9, <1>11, <1>12, CapacityStep DEF Exact

\* A decode step, first or later or after a retraction, acquires one block.
LEMMA CapacityBlock ==
    ASSUME Owners, Capacity, NEW r \in Requests,
           ScheduleDecode(r) \/ ScheduleDecodeFromRetracted(r)
    PROVE  Capacity'
<1> DEFINE old == req[r].tail
           tail == NewTail(PageSize, old)
           a == NewPages(PageSize, old)
<1>1. /\ req[r].phase \in {"PrefillDone", "Decoding", "Retracted"} /\ Visits(r)
      /\ req' = [req EXCEPT ![r] = [@ EXCEPT !.phase = "Decoding",
                                             !.tail = tail,
                                             !.reserve = PageSize]]
      /\ Acquire(r, PagesNeeded(r), a)
      /\ PushOp(r, "decode", PageSize)
  <2>1. CASE ScheduleDecode(r)
    <3>1. req[r].phase \in {"PrefillDone", "Decoding"}
      BY <2>1 DEF ScheduleDecode
    <3>2. req[r].reserve = PageSize
      BY <3>1 DEF Capacity, Exact, Counters
    <3> QED
      BY <2>1, <3>1, <3>2 DEF ScheduleDecode, Admits
  <2>2. CASE ScheduleDecodeFromRetracted(r)
    BY <2>2 DEF ScheduleDecodeFromRetracted, Admits
  <2> QED
    BY <2>1, <2>2
<1>2. /\ req[r].prefill \in Nat /\ req[r].blocks \in Nat /\ old \in Nat
      /\ req[r].tokens \in Nat /\ req[r].window \in Nat
      /\ PageSize \in Nat /\ PageSize > 0
  BY PageSizeAssumption DEF Owners, TypeOK, ReqType
<1>3. opKind[r] = "none" /\ old < PageSize
  BY <1>1 DEF Capacity, Exact, Operation, Counters, Visits, IsNext
<1>4. Acquired(r) = req[r].prefill + (req[r].blocks + 1) * PageSize
  BY <1>1, <1>2, <1>3 DEF Capacity, Exact, Counters, Account
<1>5. /\ a \in Nat /\ tail \in Nat /\ tail < PageSize
      /\ a * PageSize - tail = PageSize - old
  BY <1>2, <1>3, AcquireExact
<1>6. a <= PagesNeeded(r) /\ PagesNeeded(r) \in Int
  <2>1. PagesNeeded(r) \in {CeilDiv(PageSize), CeilDiv(Max0(PageSize - old))}
    BY <1>1 DEF PagesNeeded, Capacity, Exact, Counters
  <2>2. Max0(PageSize - old) \in Int
    BY <1>2 DEF Max0
  <2> QED
    BY <1>2, <1>3, <2>1, <2>2, AcquireFits, CeilExact
<1> HIDE DEF old, tail, a
<1>7. /\ NoFault'
      /\ Cardinality(local'[r]) = Cardinality(local[r]) + a
      /\ Cardinality(local[r]) \in Nat
      /\ \A q \in Requests \ {r} : local'[q] = local[q]
  BY <1>1, <1>5, <1>6, AcquireCount DEF Owners, PagesAccounted, Capacity
<1>8. /\ \A q \in Requests \ {r} : Same(q)
      /\ req'[r] = [req[r] EXCEPT !.phase = "Decoding", !.tail = tail,
                                  !.reserve = PageSize]
      /\ opKind'[r] = "decode"
      /\ opPages'[r] = local'[r]
      /\ r \notin todo'
  BY <1>1, <1>7, PushEffect DEF Owners
<1>9. /\ req'[r].phase = "Decoding"
      /\ req'[r].tail = tail
      /\ req'[r].reserve = PageSize
      /\ req'[r].blocks = req[r].blocks
      /\ req'[r].tokens = req[r].tokens
      /\ req'[r].prefill = req[r].prefill
  BY <1>8 DEF Owners, TypeOK, ReqType
<1>10. Acquired(r)' = req'[r].prefill + (req'[r].blocks + 1) * PageSize + PageSize
  BY <1>2, <1>4, <1>5, <1>7, <1>9 DEF Acquired, old
<1>11. Account(r)'
  BY <1>1, <1>8, <1>9, <1>10 DEF Capacity, Exact, Account, Live, Phase
<1>12. Operation(r)' /\ Counters(r)'
  BY <1>5, <1>8, <1>9 DEF Operation, Counters
<1> QED
  BY <1>7, <1>8, <1>11, <1>12, CapacityStep DEF Exact

-----------------------------------------------------------------------------
(* Results.                                                                *)

\* A result clears the operation of its request and of nobody else.
LEMMA ClearEffect ==
    ASSUME TypeOK, NEW r \in Requests, ClearOp(r)
    PROVE  /\ opKind'[r] = "none"
           /\ \A q \in Requests \ {r} :
                opKind'[q] = opKind[q] /\ opPages'[q] = opPages[q]
BY DEF ClearOp, TypeOK

\* A prefill result, and one of a request that was aborted meanwhile.
LEMMA CapacityNoChange ==
    ASSUME Owners, Capacity, NEW r \in Requests,
           PrefillResult(r) \/ StaleResult(r)
    PROVE  Capacity'
<1>1. /\ UNCHANGED <<req, local, todo, fault>>
      /\ ClearOp(r)
  BY DEF PrefillResult, StaleResult, planVars
<1>2. /\ opKind'[r] = "none"
      /\ \A q \in Requests \ {r} : Same(q)
  BY <1>1, ClearEffect DEF Same, Owners
<1>3. req[r].phase # "Decoding" \/ opKind[r] # "decode"
  BY DEF PrefillResult, StaleResult, Live, Phase
<1>4. Counters(r)' /\ Operation(r)'
  BY <1>1, <1>2 DEF Capacity, Exact, Counters, Operation
<1>5. Account(r)'
  BY <1>1, <1>2, <1>3 DEF Capacity, Exact, Account, Acquired
<1> QED
  BY <1>1, <1>2, <1>4, <1>5, CapacityStep DEF Exact, Capacity, NoFault

\* The tokens a block appends stay within the blocks decoded.
LEMMA RoomBound ==
    ASSUME Owners, Capacity, NEW r \in Requests, req[r].phase = "Decoding",
           NEW n \in 0 .. Room(r)
    PROVE  /\ n \in Nat
           /\ req[r].tokens + n
                <= req[r].prefill + (req[r].blocks + 1) * PageSize
<1>1. /\ req[r].prefill \in Nat /\ req[r].blocks \in Nat
      /\ req[r].tokens \in Nat /\ PageSize \in Nat
  BY PageSizeAssumption DEF Owners, TypeOK, ReqType
<1>2. req[r].tokens <= req[r].prefill +
          (IF req[r].blocks = 0 THEN 1 ELSE req[r].blocks) * PageSize
  BY DEF Capacity, Exact, Account, Live, Phase
<1>3. CASE req[r].blocks = 0
  BY <1>1, <1>2, <1>3 DEF Room
<1>4. CASE req[r].blocks # 0
  <2>1. n <= PageSize /\ n \in Nat
    BY <1>1, <1>4 DEF Room
  <2>2. (req[r].blocks + 1) * PageSize = req[r].blocks * PageSize + PageSize
    BY <1>1
  <2>3. req[r].blocks * PageSize \in Int
    BY <1>1
  <2> QED
    BY <1>1, <1>2, <1>4, <2>1, <2>2, <2>3
<1> QED
  BY <1>3, <1>4

\* A decoded block: the one in flight becomes one of those decoded.
LEMMA CapacityDecodeResult ==
    ASSUME Owners, Capacity, NEW r \in Requests, NEW n \in 0 .. Room(r),
           DecodeResult(r, n)
    PROVE  Capacity'
<1>1. /\ req[r].phase = "Decoding" /\ opKind[r] = "decode"
      /\ req' = [req EXCEPT ![r] = [@ EXCEPT !.tokens = req[r].tokens + n,
                                             !.blocks = req[r].blocks + 1,
                                             !.reserve = PageSize]]
      /\ UNCHANGED <<local, todo, fault>>
      /\ ClearOp(r)
  BY DEF DecodeResult, planVars
<1>2. /\ opKind'[r] = "none"
      /\ \A q \in Requests \ {r} : Same(q)
  BY <1>1, ClearEffect DEF Same, Owners, TypeOK
<1>3. /\ req[r].prefill \in Nat /\ req[r].blocks \in Nat
      /\ req[r].tokens \in Nat /\ PageSize \in Nat
  BY PageSizeAssumption DEF Owners, TypeOK, ReqType
<1>4. /\ req'[r].phase = "Decoding"
      /\ req'[r].tokens = req[r].tokens + n
      /\ req'[r].blocks = req[r].blocks + 1
      /\ req'[r].reserve = PageSize
      /\ req'[r].prefill = req[r].prefill
      /\ req'[r].tail = req[r].tail
  BY <1>1 DEF Owners, TypeOK, ReqType
<1>5. Counters(r)' /\ Operation(r)'
  BY <1>1, <1>2, <1>4 DEF Capacity, Exact, Counters, Operation
<1>6. /\ Acquired(r)' = Acquired(r)
      /\ Acquired(r) = req[r].prefill + (req[r].blocks + 1) * PageSize + PageSize
  BY <1>1, <1>4 DEF Capacity, Exact, Account, Acquired
<1>7. (req[r].blocks + 1 + 1) * PageSize = (req[r].blocks + 1) * PageSize + PageSize
  BY <1>3
<1>8. req[r].tokens + n <= req[r].prefill + (req[r].blocks + 1) * PageSize
  BY <1>1, RoomBound
<1>9. Account(r)'
  <2>1. (req[r].blocks + 1) * PageSize \in Int
    BY <1>3
  <2> QED
    BY <1>2, <1>3, <1>4, <1>6, <1>7, <1>8, <2>1 DEF Account
<1> QED
  BY <1>1, <1>2, <1>5, <1>9, CapacityStep DEF Exact, Capacity, NoFault

\* Finish publishes full pages, all of which the request has.
LEMMA CapacityFinishResult ==
    ASSUME Owners, Capacity, NEW r \in Requests, NEW n \in 0 .. Room(r),
           FinishResult(r, n)
    PROVE  Capacity'
<1> DEFINE full == FullPages(req[r].tokens + n)
           pages == Cardinality(local[r])
<1>1. /\ req[r].phase = "Decoding" /\ opKind[r] = "decode"
      /\ req' = [req EXCEPT ![r] = Gone("Finished")]
      /\ fault' = (fault \/ full > pages)
      /\ InsertAndRelease(r, full)
      /\ todo' = todo
      /\ ClearOp(r)
  BY DEF FinishResult, planVars
<1>2. \A q \in Requests \ {r} : local'[q] = local[q]
  BY <1>1, InsertOwners DEF Owners, PagesAccounted
<1>3. /\ opKind'[r] = "none"
      /\ \A q \in Requests \ {r} : Same(q)
  BY <1>1, <1>2, ClearEffect DEF Same, Owners, TypeOK
<1>4. Exact(r)'
  BY <1>1, <1>3, GoneExact DEF Owners, TypeOK
<1>5. /\ req[r].prefill \in Nat /\ req[r].blocks \in Nat
      /\ req[r].tokens \in Nat /\ req[r].tail \in Nat /\ PageSize \in Nat
  BY PageSizeAssumption DEF Owners, TypeOK, ReqType
<1>6. pages \in Nat
  BY PagesFinite DEF Owners, TypeOK
<1>7. /\ n \in Nat
      /\ req[r].tokens + n <= req[r].prefill + (req[r].blocks + 1) * PageSize
  BY <1>1, RoomBound
<1>8. pages * PageSize - req[r].tail
        = req[r].prefill + (req[r].blocks + 1) * PageSize + PageSize
  BY <1>1 DEF Capacity, Exact, Account, Acquired
<1>9. req[r].tokens + n <= pages * PageSize
  <2>1. (req[r].blocks + 1) * PageSize \in Int /\ pages * PageSize \in Int
    BY <1>5, <1>6
  <2> HIDE DEF pages
  <2> QED
    BY <1>5, <1>7, <1>8, <2>1
<1>10. ~ (full > pages)
  <2>1. full <= pages
    BY <1>5, <1>6, <1>7, <1>9, FullPagesFit
  <2>2. full \in Int
    BY <1>5, <1>7, Division DEF FullPages
  <2> QED
    BY <1>6, <2>1, <2>2
<1>11. NoFault'
  BY <1>1, <1>10, Zenon DEF Capacity, NoFault
<1> QED
  BY <1>3, <1>4, <1>11, CapacityStep

-----------------------------------------------------------------------------
\* Every step preserves the account.
LEMMA CapacityNext == Owners /\ Capacity /\ [Next]_vars => Capacity'
<1> SUFFICES ASSUME Owners, Capacity, [Next]_vars PROVE Capacity'
  OBVIOUS
<1>1. CASE BeginPlan
  BY <1>1, CapacityBeginPlan
<1>2. CASE ReturnPlan
  BY <1>2, CapacityReturnPlan
<1>3. ASSUME NEW r \in Requests, SchedulePrefillFirstChunk(r) PROVE Capacity'
  BY <1>3, CapacityFirstChunk
<1>4. ASSUME NEW r \in Requests, SchedulePrefill(r) PROVE Capacity'
  BY <1>4, CapacityPrefill
<1>5. ASSUME NEW r \in Requests,
             ScheduleDecode(r) \/ ScheduleDecodeFromRetracted(r)
      PROVE  Capacity'
  BY <1>5, CapacityBlock
<1>6. ASSUME NEW r \in Requests, SkipNoSlot(r) \/ SkipNoPages(r)
      PROVE  Capacity'
  BY <1>6, CapacitySkip
<1>7. ASSUME NEW r \in Requests, RetractAborts(r) PROVE Capacity'
  BY <1>7, CapacityRetractAborts
<1>8. ASSUME NEW r \in Requests, RetractKeepsPages(r) PROVE Capacity'
  BY <1>8, CapacityRetractKeepsPages
<1>9. ASSUME NEW r \in Requests, Client(r) PROVE Capacity'
  BY <1>9, CapacitySubmit, CapacityAbort DEF Client
<1>10. ASSUME NEW r \in Requests, Result(r) PROVE Capacity'
  BY <1>10, CapacityNoChange, CapacityDecodeResult, CapacityFinishResult
     DEF Result
<1>11. CASE UNCHANGED vars
  <2>1. \A q \in Requests : Same(q)
    BY <1>11 DEF vars, Same
  <2> QED
    BY <1>11, <2>1, ExactFrame DEF Capacity, NoFault, vars
<1> QED
  BY <1>1, <1>2, <1>3, <1>4, <1>5, <1>6, <1>7, <1>8, <1>9, <1>10, <1>11
     DEF Next, PlanStep

\* The account implies that the pages of an operation cover what it writes.
LEMMA CapacitySuffices == Owners /\ Capacity => CapacityExact
<1> SUFFICES ASSUME Owners, Capacity PROVE CapacityExact
  OBVIOUS
<1>1. ASSUME NEW r \in Ops, req[r].phase \in Live
      PROVE  Cardinality(opPages[r]) * PageSize >=
                IF opKind[r] = "prefill" THEN req[r].window
                ELSE req[r].prefill + (req[r].blocks + 1) * PageSize
  <2>1. r \in Requests /\ opKind[r] \in {"prefill", "decode"}
    BY DEF Ops, Owners, TypeOK
  <2>2. /\ req[r].prefill \in Nat /\ req[r].blocks \in Nat
        /\ req[r].tail \in Nat /\ req[r].window \in Nat /\ PageSize \in Nat
    BY <2>1, PageSizeAssumption DEF Owners, TypeOK, ReqType
  <2>3. Cardinality(local[r]) \in Nat
    BY <2>1, PagesFinite DEF Owners, TypeOK
  <2>4. opPages[r] = local[r]
    BY <1>1, <2>1 DEF Capacity, Exact, Operation, Live, Phase
  <2>5. (req[r].blocks + 1) * PageSize \in Int
        /\ Cardinality(local[r]) * PageSize \in Int
    BY <2>2, <2>3
  <2>6. CASE opKind[r] = "prefill"
    <3>1. Acquired(r) = req[r].window + PageSize
      BY <1>1, <2>1, <2>6 DEF Capacity, Exact, Operation, Account, Live, Phase
    <3> QED
      BY <2>2, <2>4, <2>5, <2>6, <3>1 DEF Acquired
  <2>7. CASE opKind[r] = "decode"
    <3>1. Acquired(r)
            = req[r].prefill + (req[r].blocks + 1) * PageSize + PageSize
      BY <1>1, <2>1, <2>7 DEF Capacity, Exact, Operation, Account, Live, Phase
    <3> QED
      BY <2>2, <2>4, <2>5, <2>7, <3>1 DEF Acquired
  <2> QED
    BY <2>1, <2>6, <2>7
<1>2. OpCovered
  BY <1>1 DEF OpCovered
<1> QED
  BY <1>2 DEF CapacityExact, Capacity, Exact, Account

\* The page account of every request is exact and every position an
\* operation writes has a page: for every page size, token budget, prompt
\* and pool, in every interleaving of plans, retractions, aborts, results.
THEOREM CapacityAlwaysExact == Spec => []CapacityExact
  BY OwnersInit, OwnersNext, CapacityInit, CapacityNext, CapacitySuffices, PTL
     DEF Spec

\* No allocator call throws: the capacity NextExecutionPlan ensures is what
\* its events acquire, and Finish publishes no more pages than there are.
THEOREM AllocatorNeverThrows == Spec => []NoFault
<1>1. Capacity => NoFault
  BY DEF Capacity
<1> QED
  BY <1>1, OwnersInit, OwnersNext, CapacityInit, CapacityNext, PTL DEF Spec
=============================================================================
