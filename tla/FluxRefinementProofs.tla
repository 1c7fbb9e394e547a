------------------------ MODULE FluxRefinementProofs ------------------------
(***************************************************************************)
(* FluxScheduler implements SchedulerContract for every set of requests:   *)
(* for every pool when the contract allows for pages running out, and the  *)
(* contract without retraction when there are pages for every slot.        *)
(***************************************************************************)
EXTENDS FluxRefinement, FluxSchedulerProofs, Counting

\* While a plan is built: nobody has ended, the classes are those of the
\* candidates, whoever had a slot has it still, and operations go to holders.
PlanView ==
    planning => \A r \in Requests :
        /\ req[r].phase # "Finished"
        /\ order[r] = 9 <=> req[r].phase = "absent"
        /\ req[r].phase = "Submitted" => order[r] = 2
        /\ order[r] \in {1, 3} => req[r].phase \in SlotPhase
        /\ opKind[r] # "none" => req[r].phase \in SlotPhase

\* The four steps that schedule a request.
Schedules(r) ==
    \/ SchedulePrefillFirstChunk(r)
    \/ SchedulePrefill(r)
    \/ ScheduleDecode(r)
    \/ ScheduleDecodeFromRetracted(r)

\* What those steps do to the view: r holds a slot afterwards, its class
\* stays or goes from 2 to 0, and no other request changes.
LEMMA ScheduleView ==
    ASSUME TypeOK, PlanView, NEW r \in Requests, Schedules(r)
    PROVE  /\ planning /\ planning'
           /\ req'[r].phase \in SlotPhase
           /\ req[r].phase \in Live
           /\ \A q \in Requests \ {r} :
                /\ req'[q] = req[q]
                /\ order'[q] = order[q]
                /\ opKind'[q] = opKind[q]
           /\ \/ order'[r] = order[r]
              \/ req[r].phase = "Submitted" /\ order'[r] = 0
<1>1. planning /\ planning'
  BY DEF Schedules, SchedulePrefillFirstChunk, SchedulePrefill, ScheduleDecode,
         ScheduleDecodeFromRetracted, Admits, Visits, PushOp
<1>2. \A q \in Requests \ {r} : req'[q] = req[q]
  BY DEF Schedules, SchedulePrefillFirstChunk, SchedulePrefill, ScheduleDecode,
         ScheduleDecodeFromRetracted, TypeOK
<1>3. req'[r].phase \in SlotPhase /\ req[r].phase \in Live
  <2>1. req[r] \in ReqType
    BY DEF TypeOK
  <2>2. ASSUME NEW n, NEW tail, req'[r] = AfterChunk(r, n, tail)
        PROVE  req'[r].phase \in SlotPhase
    BY <2>1, <2>2 DEF AfterChunk, ReqType, SlotPhase
  <2>3. CASE SchedulePrefillFirstChunk(r) \/ SchedulePrefill(r)
    <3>1. req[r].phase \in {"Submitted", "Prefilling"}
      BY <2>3 DEF SchedulePrefillFirstChunk, SchedulePrefill
    <3>2. \E n, tail : req'[r] = AfterChunk(r, n, tail)
      BY <2>3 DEF SchedulePrefillFirstChunk, SchedulePrefill, TypeOK
    <3> QED
      BY <2>2, <3>1, <3>2 DEF Live, Phase
  <2>4. CASE ScheduleDecode(r) \/ ScheduleDecodeFromRetracted(r)
    <3>1. req[r].phase \in {"PrefillDone", "Decoding", "Retracted"}
      BY <2>4 DEF ScheduleDecode, ScheduleDecodeFromRetracted
    <3>2. \E tail : req'[r] = [req[r] EXCEPT !.phase = "Decoding",
                                             !.tail = tail,
                                             !.reserve = PageSize]
      BY <2>4 DEF ScheduleDecode, ScheduleDecodeFromRetracted, TypeOK
    <3>3. req'[r].phase = "Decoding"
      BY <2>1, <3>2 DEF ReqType
    <3> QED
      BY <3>1, <3>3 DEF Live, Phase, SlotPhase
  <2> QED
    BY <2>3, <2>4 DEF Schedules
<1>4. /\ \A q \in Requests \ {r} :
            order'[q] = order[q] /\ opKind'[q] = opKind[q]
      /\ \/ order'[r] = order[r]
         \/ req[r].phase = "Submitted" /\ order'[r] = 0
  BY DEF Schedules, SchedulePrefillFirstChunk, SchedulePrefill, ScheduleDecode,
         ScheduleDecodeFromRetracted, PushOp, TypeOK
<1> QED
  BY <1>1, <1>2, <1>3, <1>4

\* A scheduling step keeps the view and is invisible to the contract.
LEMMA ScheduleHidden ==
    ASSUME TypeOK, PlanView, NEW r \in Requests, Schedules(r)
    PROVE  PlanView' /\ UNCHANGED <<SeenKnown, SeenHeld, SeenOps>>
<1>1. /\ planning /\ planning'
      /\ req'[r].phase \in SlotPhase
      /\ req[r].phase \in Live
      /\ \A q \in Requests \ {r} :
           /\ req'[q] = req[q]
           /\ order'[q] = order[q]
           /\ opKind'[q] = opKind[q]
      /\ \/ order'[r] = order[r]
         \/ req[r].phase = "Submitted" /\ order'[r] = 0
  BY ScheduleView
<1>2. order[r] # 9 /\ order'[r] # 9
  BY <1>1 DEF PlanView, Live
<1>3. PlanView'
  BY <1>1, <1>2 DEF PlanView, SlotPhase
<1>4. /\ HeldBefore' = HeldBefore
      /\ \A q \in Requests : KnownBefore(order'[q]) = KnownBefore(order[q])
  BY <1>1, <1>2 DEF PlanView, HeldBefore, KnownBefore
<1> QED
  BY <1>1, <1>3, <1>4 DEF SeenKnown, SeenHeld, SeenOps

\* A candidate is passed over.
LEMMA SkipHidden ==
    ASSUME TypeOK, PlanView, NEW r \in Requests, SkipNoSlot(r) \/ SkipNoPages(r)
    PROVE  PlanView' /\ UNCHANGED <<SeenKnown, SeenHeld, SeenOps>>
<1>1. UNCHANGED <<req, planning, order, opKind>>
  BY DEF SkipNoSlot, SkipNoPages
<1> QED
  BY <1>1 DEF PlanView, SeenKnown, SeenHeld, SeenOps, HeldBefore, Holders, Ops

\* A plan starts by forgetting the requests that ended.
LEMMA BeginForgets ==
    ASSUME TypeOK, PlanView, BeginPlan
    PROVE  PlanView' /\ Contract!Forget
<1>1. ~planning /\ planning' /\ Ops = {}
  BY DEF BeginPlan, PreviousPlanDone
<1>2. \A r \in Requests :
        /\ req'[r].phase = IF req[r].phase = "Finished" THEN "absent"
                           ELSE req[r].phase
        /\ order'[r] = Priority(req[r].phase)
        /\ opKind'[r] = "none"
        /\ req[r].phase \in Phase
  BY <1>1 DEF BeginPlan, Gone, TypeOK, ReqType, Ops
<1>3. PlanView'
  BY <1>2 DEF PlanView, Priority, SlotPhase, Phase
<1>4. SeenKnown' = [r \in Requests |->
                      IF SeenKnown[r] = "finished" THEN "absent" ELSE SeenKnown[r]]
  BY <1>1, <1>2 DEF SeenKnown, KnownBefore, KnownAs, Priority, Phase
<1>5. SeenHeld' = SeenHeld
  BY <1>1, <1>2 DEF SeenHeld, HeldBefore, Holders, Priority, SlotPhase, Phase
<1>6. SeenOps = {} /\ SeenOps' = {}
  BY <1>1 DEF SeenOps
<1> QED
  BY <1>3, <1>4, <1>5, <1>6 DEF Contract!Forget, Contract!Erased

\* The contract counts with a FiniteSets of its own.
LEMMA SameCardinality ==
    ASSUME NEW S
    PROVE  Contract!Cardinality(S) = Cardinality(S)
BY DEF Contract!Cardinality, Cardinality, Contract!IsFiniteSet, IsFiniteSet

\* The holders a plan leaves behind may be those of a contract's plan.
LEMMA HoldersAdmitted ==
    ASSUME TypeOK, SlotsBounded, PlanView, planning
    PROVE  /\ Contract!Admitted(Holders)
           /\ Holders \in SUBSET Requests
           /\ \A r \in Requests : SeenKnown[r] # "finished"
           /\ Contract!Erased = SeenKnown
<1>1. /\ SeenHeld = HeldBefore
      /\ \A r \in Requests : SeenKnown[r] = KnownBefore(order[r])
      /\ SeenKnown = [r \in Requests |-> SeenKnown[r]]
  BY DEF SeenHeld, SeenKnown
<1>2. SeenHeld \subseteq Holders
  BY <1>1 DEF PlanView, HeldBefore, Holders
<1>3. Holders \subseteq {r \in Requests : SeenKnown[r] = "live"}
  BY <1>1 DEF PlanView, Holders, SlotPhase, KnownBefore
<1>4. \A r \in Requests : SeenKnown[r] # "finished"
  BY <1>1 DEF KnownBefore
<1>5. Contract!Erased = SeenKnown
  BY <1>1, <1>4 DEF Contract!Erased
<1> QED
  BY <1>2, <1>3, <1>4, <1>5, SameCardinality
     DEF Contract!Admitted, Contract!Live, SlotsBounded, Holders

\* After a plan the contract sees every request's phase.
LEMMA SeenBetweenPlans ==
    ASSUME ~planning
    PROVE  /\ SeenKnown = [r \in Requests |-> KnownAs(req[r].phase)]
           /\ SeenHeld = Holders
           /\ SeenOps = Ops
BY DEF SeenKnown, SeenHeld, SeenOps

\* While a plan is built, a request is live for the contract when it is one.
LEMMA SeenPhase ==
    ASSUME PlanView, planning, NEW r \in Requests
    PROVE  SeenKnown[r] = KnownAs(req[r].phase)
BY DEF PlanView, SeenKnown, KnownBefore, KnownAs

\* Memory is never short: a plan is empty only when nobody is there, and
\* nobody is retracted.
NeverShort ==
    /\ ReturnPlan /\ Ops = {} => \A r \in Requests : req[r].phase \notin Live
    /\ \A r \in Requests : ~RetractAborts(r) /\ ~RetractKeepsPages(r)

\* A plan returns.
LEMMA ReturnPlans ==
    ASSUME MayRetract = TRUE \/ NeverShort,
           TypeOK, SlotsBounded, PlanView, ReturnPlan
    PROVE  PlanView' /\ Contract!Next
<1>1. planning /\ ~planning' /\ UNCHANGED <<req, opKind>>
  BY DEF ReturnPlan, PlanOver
<1>2. PlanView'
  BY <1>1 DEF PlanView
<1>3. Holders' = Holders /\ Ops' = Ops /\ Ops \in SUBSET Holders
  BY <1>1 DEF PlanView, Holders, Ops
<1>4. SeenOps = {} /\ SeenOps' = Ops /\ SeenHeld' = Holders
  BY <1>1, <1>3 DEF SeenOps, SeenHeld
<1>5. SeenKnown' = SeenKnown
  <2>1. SeenKnown' = [r \in Requests |-> KnownAs(req[r].phase)]
    BY <1>1 DEF SeenKnown
  <2>2. SeenKnown = [r \in Requests |-> SeenKnown[r]]
    BY DEF SeenKnown
  <2> QED
    BY <1>1, <2>1, <2>2, SeenPhase
<1>6. Ops = {} => MayRetract \/ Contract!Live = {}
  <2> SUFFICES ASSUME Ops = {}, NeverShort PROVE Contract!Live = {}
    OBVIOUS
  <2>1. \A r \in Requests : SeenKnown[r] # "live"
    BY <1>1, SeenPhase DEF NeverShort, KnownAs, Live, TypeOK, ReqType
  <2> QED
    BY <2>1 DEF Contract!Live
<1>7. Contract!Plan(Ops, Holders)
  BY <1>1, <1>3, <1>4, <1>5, <1>6, HoldersAdmitted DEF Contract!Plan
<1> QED
  BY <1>1, <1>2, <1>3, <1>7, HoldersAdmitted DEF Contract!Next

\* A plan without operations takes somebody's slot.
LEMMA RetractKeepsRetracts ==
    ASSUME MayRetract = TRUE, TypeOK, SlotsBounded, PlanView,
           NEW r \in Requests, RetractKeepsPages(r)
    PROVE  PlanView' /\ Contract!Next
<1>1. /\ planning /\ ~planning' /\ Ops = {} /\ UNCHANGED opKind
      /\ r \in Holders
      /\ req' = [req EXCEPT ![r] = [@ EXCEPT !.phase = "Retracted",
                                             !.reserve = 0]]
  BY DEF RetractKeepsPages, PlanOver, Victim, RetractCandidates, Holders,
         SlotPhase
<1>2. /\ req'[r].phase = "Retracted" /\ req[r].phase \in SlotPhase
      /\ \A q \in Requests \ {r} : req'[q] = req[q]
  BY <1>1 DEF TypeOK, ReqType, Holders
<1>3. PlanView'
  BY <1>1 DEF PlanView
<1>4. /\ SeenOps = {} /\ SeenOps' = {}
      /\ SeenHeld' = Holders \ {r}
  BY <1>1, <1>2 DEF SeenOps, SeenHeld, Ops, Holders, SlotPhase
<1>5. SeenKnown' = SeenKnown
  <2>1. SeenKnown' = [q \in Requests |-> KnownAs(req'[q].phase)]
    BY <1>1 DEF SeenKnown
  <2>2. SeenKnown = [q \in Requests |-> SeenKnown[q]]
    BY DEF SeenKnown
  <2>3. \A q \in Requests : KnownAs(req'[q].phase) = KnownAs(req[q].phase)
    BY <1>2 DEF KnownAs, SlotPhase
  <2> QED
    BY <1>1, <2>1, <2>2, <2>3, SeenPhase
<1>6. Contract!Retract(r, Holders)
  BY <1>1, <1>4, <1>5, HoldersAdmitted DEF Contract!Retract
<1> QED
  BY <1>1, <1>3, <1>6, HoldersAdmitted DEF Contract!Next

\* A plan without operations ends a request and tells nobody.
LEMMA RetractAbortsDrops ==
    ASSUME MayRetract = TRUE, TypeOK, SlotsBounded, PlanView,
           NEW r \in Requests, RetractAborts(r)
    PROVE  PlanView' /\ Contract!Next
<1>1. /\ planning /\ ~planning' /\ Ops = {} /\ UNCHANGED opKind
      /\ r \in Holders
      /\ req' = [req EXCEPT ![r] = Gone("Finished")]
  BY DEF RetractAborts, PlanOver, Victim, RetractCandidates, Holders, SlotPhase
<1>2. /\ req'[r].phase = "Finished"
      /\ \A q \in Requests \ {r} : req'[q] = req[q]
  BY <1>1 DEF TypeOK, Gone
<1>3. PlanView'
  BY <1>1 DEF PlanView
<1>4. /\ SeenOps = {} /\ SeenOps' = {}
      /\ SeenHeld' = Holders \ {r}
  BY <1>1, <1>2 DEF SeenOps, SeenHeld, Ops, Holders, SlotPhase
<1>5. SeenKnown' = [SeenKnown EXCEPT ![r] = "finished"]
  <2>1. SeenKnown' = [q \in Requests |-> KnownAs(req'[q].phase)]
    BY <1>1 DEF SeenKnown
  <2>2. SeenKnown = [q \in Requests |-> SeenKnown[q]]
    BY DEF SeenKnown
  <2>3. /\ KnownAs(req'[r].phase) = "finished"
        /\ \A q \in Requests \ {r} : KnownAs(req'[q].phase) = SeenKnown[q]
    BY <1>1, <1>2, SeenPhase DEF KnownAs
  <2> QED
    BY <2>1, <2>2, <2>3
<1>6. Contract!Drop(r, Holders)
  BY <1>1, <1>4, <1>5, HoldersAdmitted DEF Contract!Drop
<1> QED
  BY <1>1, <1>3, <1>6, HoldersAdmitted DEF Contract!Next

-----------------------------------------------------------------------------
(* Between plans.                                                          *)

\* A step between plans that changes one request's record, seen by the
\* contract.
LEMMA SeenStep ==
    ASSUME TypeOK, NEW r \in Requests, NEW rec, ~planning, ~planning',
           req' = [req EXCEPT ![r] = rec]
    PROVE  /\ SeenKnown' = [SeenKnown EXCEPT ![r] = KnownAs(rec.phase)]
           /\ SeenKnown = [q \in Requests |-> KnownAs(req[q].phase)]
           /\ SeenHeld' = IF rec.phase \in SlotPhase
                          THEN SeenHeld \cup {r} ELSE SeenHeld \ {r}
           /\ SeenOps = Ops /\ SeenOps' = Ops'
<1>1. req'[r] = rec /\ \A q \in Requests \ {r} : req'[q] = req[q]
  BY DEF TypeOK
<1>2. /\ SeenKnown = [q \in Requests |-> KnownAs(req[q].phase)]
      /\ SeenKnown' = [q \in Requests |-> KnownAs(req'[q].phase)]
  BY DEF SeenKnown
<1>3. SeenHeld = Holders /\ SeenHeld' = Holders'
  BY DEF SeenHeld
<1>4. SeenOps = Ops /\ SeenOps' = Ops'
  BY DEF SeenOps
<1> QED
  BY <1>1, <1>2, <1>3, <1>4 DEF Holders

\* Submissions and aborts.
LEMMA ClientSteps ==
    ASSUME TypeOK, PlanView, NEW r \in Requests, Client(r)
    PROVE  PlanView' /\ Contract!Next
<1>1. ~planning /\ ~planning' /\ Ops' = Ops
  BY DEF Client, SubmitRequests, Abort, planVars, Ops
<1>2. PlanView'
  BY <1>1 DEF PlanView
<1>3. ASSUME NEW len \in PromptLens, SubmitRequests(r, len)
      PROVE  Contract!Submit(r)
  <2>1. req[r].phase = "absent" /\ req' = [req EXCEPT ![r] = NewRequest(len)]
    BY <1>3 DEF SubmitRequests
  <2>2. NewRequest(len).phase = "Submitted"
    BY DEF NewRequest, Gone
  <2>3. /\ SeenKnown' = [SeenKnown EXCEPT ![r] = "live"]
        /\ SeenKnown[r] = "absent"
        /\ SeenHeld' = SeenHeld \ {r}
        /\ SeenOps' = SeenOps
    BY <1>1, <2>1, <2>2, SeenStep DEF KnownAs, SlotPhase
  <2>4. r \notin SeenHeld
    BY <1>1, <2>1 DEF SeenHeld, Holders, SlotPhase
  <2> QED
    BY <2>3, <2>4 DEF Contract!Submit
<1>4. CASE Abort(r)
  <2>1. req[r].phase \in Live /\ req' = [req EXCEPT ![r] = Gone("Finished")]
    BY <1>4 DEF Abort
  <2>2. Gone("Finished").phase = "Finished"
    BY DEF Gone
  <2>3. /\ SeenKnown' = [SeenKnown EXCEPT ![r] = "finished"]
        /\ SeenKnown[r] = "live"
        /\ SeenHeld' = SeenHeld \ {r}
        /\ SeenOps' = SeenOps
    BY <1>1, <2>1, <2>2, SeenStep DEF KnownAs, SlotPhase, Live
  <2> QED
    BY <1>2, <2>3 DEF Contract!Abort, Contract!Live, Contract!Next
<1> QED
  BY <1>2, <1>3, <1>4 DEF Client, Contract!Next

\* A result takes one operation back and may end its request.
LEMMA ResultSteps ==
    ASSUME TypeOK, PlanView, NEW r \in Requests, Result(r)
    PROVE  PlanView' /\ Contract!Next
<1>1. ~planning /\ ~planning' /\ ClearOp(r) /\ opKind[r] # "none"
  <2>1. ~planning /\ ClearOp(r) /\ opKind[r] # "none"
    BY DEF Result, PrefillResult, DecodeResult, FinishResult, StaleResult
  <2>2. planning' = planning
    BY DEF Result, PrefillResult, DecodeResult, FinishResult, StaleResult,
           planVars
  <2> QED
    BY <2>1, <2>2, Zenon
<1>2. PlanView'
  BY <1>1 DEF PlanView
<1>3. r \in Ops /\ Ops' = Ops \ {r}
  BY <1>1 DEF ClearOp, Ops, TypeOK
<1>4. SeenOps = Ops /\ SeenOps' = Ops \ {r}
  BY <1>1, <1>3 DEF SeenOps
<1>5. SeenKnown = [q \in Requests |-> SeenKnown[q]]
  BY DEF SeenKnown
<1>6. CASE SeenKnown' = SeenKnown /\ SeenHeld' = SeenHeld
  <2>1. Contract!Results({r}, {})
    BY <1>3, <1>4, <1>5, <1>6 DEF Contract!Results
  <2> QED
    BY <1>2, <1>3, <1>4, <2>1 DEF Contract!Next
<1>7. CASE PrefillResult(r) \/ StaleResult(r)
  <2>1. req' = req
    BY <1>7 DEF PrefillResult, StaleResult
  <2> QED
    BY <1>1, <1>6, <2>1 DEF SeenKnown, SeenHeld, Holders
<1>8. ASSUME NEW n \in 0 .. Room(r), DecodeResult(r, n)
      PROVE  PlanView' /\ Contract!Next
  <2>1. \A q \in Requests : req'[q].phase = req[q].phase
    BY <1>8 DEF DecodeResult, TypeOK, ReqType
  <2> QED
    BY <1>1, <1>6, <2>1 DEF SeenKnown, SeenHeld, Holders
<1>9. ASSUME NEW n \in 0 .. Room(r), FinishResult(r, n)
      PROVE  PlanView' /\ Contract!Next
  <2>1. req[r].phase = "Decoding" /\ req' = [req EXCEPT ![r] = Gone("Finished")]
    BY <1>9 DEF FinishResult
  <2>2. Gone("Finished").phase = "Finished"
    BY DEF Gone
  <2>3. /\ SeenKnown' = [SeenKnown EXCEPT ![r] = "finished"]
        /\ SeenKnown[r] = "live"
        /\ SeenHeld' = SeenHeld \ {r}
    BY <1>1, <2>1, <2>2, SeenStep DEF KnownAs, SlotPhase
  <2>4. SeenKnown' = [q \in Requests |->
                        IF q \in {r} THEN "finished" ELSE SeenKnown[q]]
    BY <1>5, <2>3
  <2>5. Contract!Results({r}, {r})
    BY <1>3, <1>4, <2>3, <2>4 DEF Contract!Results, Contract!Live
  <2> QED
    BY <1>2, <1>3, <1>4, <2>5 DEF Contract!Next
<1> QED
  BY <1>7, <1>8, <1>9 DEF Result

-----------------------------------------------------------------------------
\* Every step of the scheduler is a step of the contract or none.
LEMMA RefinementStep ==
    ASSUME MayRetract = TRUE \/ NeverShort,
           TypeOK, SlotsBounded, PlanView, [Next]_vars
    PROVE  PlanView' /\ [Contract!Next]_(Contract!vars)
<1>1. CASE BeginPlan
  BY <1>1, BeginForgets DEF Contract!Next
<1>2. CASE ReturnPlan
  BY <1>2, ReturnPlans
<1>3. ASSUME NEW r \in Requests, Schedules(r)
      PROVE  PlanView' /\ [Contract!Next]_(Contract!vars)
  BY <1>3, ScheduleHidden DEF Contract!vars
<1>4. ASSUME NEW r \in Requests, SkipNoSlot(r) \/ SkipNoPages(r)
      PROVE  PlanView' /\ [Contract!Next]_(Contract!vars)
  BY <1>4, SkipHidden DEF Contract!vars
<1>5. ASSUME NEW r \in Requests, RetractAborts(r) \/ RetractKeepsPages(r)
      PROVE  PlanView' /\ [Contract!Next]_(Contract!vars)
  BY <1>5, RetractAbortsDrops, RetractKeepsRetracts DEF NeverShort
<1>6. ASSUME NEW r \in Requests, Client(r) \/ Result(r)
      PROVE  PlanView' /\ [Contract!Next]_(Contract!vars)
  BY <1>6, ClientSteps, ResultSteps
<1>7. CASE UNCHANGED vars
  BY <1>7 DEF vars, PlanView, Contract!vars, SeenKnown, SeenHeld, SeenOps,
              HeldBefore, Holders, Ops
<1> QED
  BY <1>1, <1>2, <1>3, <1>4, <1>5, <1>6, <1>7 DEF Next, PlanStep, Schedules

\* The scheduler starts where the contract does.
LEMMA RefinementInit == Init => PlanView /\ Contract!Init
<1> SUFFICES ASSUME Init PROVE PlanView /\ Contract!Init
  OBVIOUS
<1>1. ~planning /\ \A r \in Requests : req[r].phase = "absent" /\ opKind[r] = "none"
  BY DEF Init, Idle, Gone
<1>2. /\ SeenKnown = [r \in Requests |-> "absent"]
      /\ SeenHeld = {} /\ SeenOps = {}
  BY <1>1 DEF SeenKnown, KnownAs, SeenHeld, Holders, SlotPhase, SeenOps, Ops
<1> QED
  BY <1>1, <1>2 DEF PlanView, Contract!Init

\* The scheduler implements the contract the engine is built on, for every
\* number of pages, slots and requests: plans never overlap, operations go
\* to holders of at most max_batch_size slots, and a request loses its slot
\* or ends only by an abort, a result or a retraction.
THEOREM SchedulerImplementsContract ==
    ASSUME MayRetract = TRUE
    PROVE  Spec => ImplementsContract
<1>1. TypeOK /\ SlotsBounded /\ PlanView /\ [Next]_vars
        => PlanView' /\ [Contract!Next]_(Contract!vars)
  BY RefinementStep
<1> QED
  BY <1>1, RefinementInit, TypeCorrect, SlotsAlwaysBounded, PTL
     DEF Spec, ImplementsContract, Contract!Spec

-----------------------------------------------------------------------------
(* Pages for every slot.                                                   *)

\* m pages hold a prompt, the longest answer and the block reserved ahead.
HoldsRequest(m) ==
    \A len \in PromptLens :
        PrefillLength(len) + (MaxBlocks + 1) * PageSize <= m * PageSize

AmplePages ==
    \E m \in Nat : HoldsRequest(m) /\ MaxBatchSize * m <= Cardinality(Pages)

\* What a request may still come to is within m pages.
Fits(r, m) ==
    /\ req[r].phase # "Retracted"
    /\ req[r].phase \in Live =>
          /\ req[r].blocks < MaxBlocks
          /\ req[r].prefill + (MaxBlocks + 1) * PageSize <= m * PageSize

\* As long as a plan is empty, no holder was passed over, and others only
\* because of the holders.
NobodyPassed ==
    planning =>
        /\ \A r \in todo : req[r].phase \in Live
        /\ Ops = {} =>
              /\ budget = MaxScheduledTokens
              /\ Holders \subseteq todo
              /\ Holders = {} => \A r \in Requests : req[r].phase \in Live => r \in todo

AmpleFor(m) == NobodyPassed /\ \A r \in Requests : Fits(r, m)

\* Whole pages from tokens.
LEMMA PagesWithin ==
    ASSUME NEW c \in Int, NEW m \in Int, c * PageSize < m * PageSize + PageSize
    PROVE  c <= m
<1>1. PageSize \in Nat /\ PageSize > 0
  BY PageSizeAssumption
<1> SUFFICES ASSUME m + 1 <= c PROVE FALSE
  OBVIOUS
<1>2. (m + 1) * PageSize <= c * PageSize
  BY <1>1
<1>3. (m + 1) * PageSize = m * PageSize + PageSize
  BY <1>1
<1> QED
  BY <1>1, <1>2, <1>3

\* Facts about the numbers of a live request.
LEMMA FitsNumbers ==
    ASSUME TypeOK, NEW m \in Nat, NEW r \in Requests, Fits(r, m), req[r].phase \in Live
    PROVE  /\ PageSize \in Nat /\ PageSize > 0 /\ m * PageSize \in Nat
           /\ req[r].prefill \in Nat /\ req[r].window \in Nat /\ req[r].tail \in Nat
           /\ req[r].blocks \in Nat /\ req[r].blocks * PageSize \in Nat
           /\ Cardinality(local[r]) \in Nat
           /\ Cardinality(local[r]) * PageSize \in Nat
           /\ (req[r].blocks + 1) * PageSize = req[r].blocks * PageSize + PageSize
           /\ req[r].prefill + req[r].blocks * PageSize + 2 * PageSize <= m * PageSize
<1>1. /\ PageSize \in Nat /\ PageSize > 0 /\ MaxBlocks \in Nat
  BY PageSizeAssumption, LimitsAssumption
<1>2. /\ req[r].prefill \in Nat /\ req[r].window \in Nat /\ req[r].tail \in Nat
      /\ req[r].blocks \in Nat
  BY DEF TypeOK, ReqType
<1>3. Cardinality(local[r]) \in Nat
  BY PagesFinite DEF TypeOK
<1>4. /\ req[r].blocks + 1 <= MaxBlocks
      /\ req[r].prefill + (MaxBlocks + 1) * PageSize <= m * PageSize
  BY <1>1, <1>2 DEF Fits
<1>5. (req[r].blocks + 2) * PageSize <= (MaxBlocks + 1) * PageSize
  BY <1>1, <1>2, <1>4
<1>6. /\ (req[r].blocks + 2) * PageSize = req[r].blocks * PageSize + 2 * PageSize
      /\ (req[r].blocks + 1) * PageSize = req[r].blocks * PageSize + PageSize
      /\ req[r].blocks * PageSize \in Nat
      /\ m * PageSize \in Nat
      /\ (MaxBlocks + 1) * PageSize \in Nat
      /\ Cardinality(local[r]) * PageSize \in Nat
  BY <1>1, <1>2, <1>3
<1> QED
  BY <1>1, <1>2, <1>3, <1>4, <1>5, <1>6

\* A holder has at most its m pages.
LEMMA HolderFits ==
    ASSUME TypeOK, Capacity, NEW m \in Nat, NEW r \in Requests, Fits(r, m), r \in Holders
    PROVE  IsFiniteSet(local[r]) /\ Cardinality(local[r]) <= m
<1> DEFINE c == Cardinality(local[r])
<1>1. req[r].phase \in SlotPhase /\ req[r].phase \in Live
  BY DEF Holders, SlotPhase, Live, Phase
<1>2. /\ PageSize \in Nat /\ PageSize > 0 /\ m * PageSize \in Nat
      /\ req[r].prefill \in Nat /\ req[r].window \in Nat /\ req[r].tail \in Nat
      /\ req[r].blocks \in Nat /\ req[r].blocks * PageSize \in Nat
      /\ c \in Nat /\ c * PageSize \in Nat
      /\ (req[r].blocks + 1) * PageSize = req[r].blocks * PageSize + PageSize
      /\ req[r].prefill + req[r].blocks * PageSize + 2 * PageSize <= m * PageSize
  BY <1>1, FitsNumbers
<1>3. Counters(r) /\ Account(r)
  BY DEF Capacity, Exact
<1>4. req[r].tail < PageSize
  BY <1>3 DEF Counters
<1>5. c * PageSize <= req[r].prefill + (req[r].blocks + 1) * PageSize + PageSize + req[r].tail
  <2>1. CASE req[r].phase \in {"Prefilling", "PrefillDone"}
    <3>1. req[r].window < req[r].prefill \/ req[r].window = req[r].prefill
      BY <1>3, <2>1 DEF Counters
    <3>2. c * PageSize - req[r].tail = req[r].window + PageSize
      BY <1>3, <2>1 DEF Account, Acquired
    <3> HIDE DEF c
    <3> QED
      BY <1>2, <3>1, <3>2
  <2>2. CASE req[r].phase = "Decoding"
    <3>1. \/ c * PageSize - req[r].tail = req[r].prefill + (req[r].blocks + 1) * PageSize + PageSize
          \/ c * PageSize - req[r].tail = req[r].prefill + (req[r].blocks + 1) * PageSize
      BY <1>3, <2>2 DEF Account, Acquired
    <3> QED
      BY <1>2, <3>1
  <2> QED
    BY <1>1, <2>1, <2>2 DEF SlotPhase
<1>6. c * PageSize < m * PageSize + PageSize
  BY <1>2, <1>4, <1>5
<1>7. c <= m
  BY <1>2, <1>6, PagesWithin
<1> QED
  BY <1>7, PagesFinite DEF TypeOK

\* With what it asks for, a candidate stays within its m pages.
LEMMA NeedFits ==
    ASSUME TypeOK, PagesAccounted, Capacity, NEW m \in Nat, NEW r \in Requests,
           Fits(r, m), req[r].phase \in Live, Visits(r)
    PROVE  /\ PagesNeeded(r) \in Int
           /\ Cardinality(local[r]) \in Nat
           /\ Cardinality(local[r]) + PagesNeeded(r) <= m
<1> DEFINE c == Cardinality(local[r])
           n == PagesNeeded(r)
<1>1. /\ PageSize \in Nat /\ PageSize > 0 /\ m * PageSize \in Nat
      /\ req[r].prefill \in Nat /\ req[r].window \in Nat /\ req[r].tail \in Nat
      /\ req[r].blocks \in Nat /\ req[r].blocks * PageSize \in Nat
      /\ c \in Nat /\ c * PageSize \in Nat
      /\ (req[r].blocks + 1) * PageSize = req[r].blocks * PageSize + PageSize
      /\ req[r].prefill + req[r].blocks * PageSize + 2 * PageSize <= m * PageSize
  BY FitsNumbers
<1>2. Counters(r) /\ Operation(r) /\ Account(r)
  BY DEF Capacity, Exact
<1>3. req[r].tail < PageSize /\ opKind[r] = "none"
  BY <1>2 DEF Counters, Operation, Visits, IsNext
<1>4. req[r].phase \in {"Submitted", "Prefilling", "PrefillDone", "Decoding"}
  BY DEF Fits, Live, Phase
<1>5. /\ n \in Int
      /\ n * PageSize + c * PageSize < m * PageSize + PageSize
  <2>1. CASE req[r].phase = "Submitted"
    <3>1. c = 0
      BY <2>1, FS_EmptySet DEF PagesAccounted, NoIdleOwner, SlotPhase
    <3>2. Chunk(r) \in Nat /\ Chunk(r) <= req[r].prefill
      <4>1. req[r].window = 0
        BY <1>2, <2>1 DEF Counters
      <4> QED
        BY <1>1, <4>1, ChunkExact
    <3>3. n \in Int /\ n * PageSize < Chunk(r) + PageSize + PageSize
      BY <1>1, <2>1, <3>2, CeilExact DEF PagesNeeded
    <3>4. c * PageSize = 0
      BY <1>1, <3>1
    <3>5. n * PageSize \in Int
      BY <1>1, <3>3
    <3>6. req[r].prefill + 2 * PageSize <= m * PageSize
      BY <1>1
    <3> HIDE DEF n, c
    <3>7. n * PageSize < m * PageSize
      BY <1>1, <3>2, <3>3, <3>5, <3>6
    <3> QED
      BY <1>1, <3>3, <3>4, <3>5, <3>7
  <2>2. CASE req[r].phase = "Prefilling"
    <3>1. c * PageSize - req[r].tail = req[r].window + PageSize /\ req[r].window < req[r].prefill
      BY <1>2, <2>2 DEF Counters, Account, Acquired
    <3>2. Chunk(r) \in Nat /\ req[r].window + Chunk(r) <= req[r].prefill
      BY <1>1, <3>1, ChunkExact
    <3>3. n \in Int /\ n * PageSize < Chunk(r) + PageSize
      BY <1>1, <2>2, <3>2, CeilExact DEF PagesNeeded
    <3> HIDE DEF n
    <3> QED
      BY <1>1, <1>3, <3>1, <3>2, <3>3
  <2>3. CASE req[r].phase \in {"PrefillDone", "Decoding"}
    <3>1. c * PageSize - req[r].tail <= req[r].prefill + (req[r].blocks + 1) * PageSize
      <4>1. CASE req[r].phase = "PrefillDone"
        <5>1. req[r].window = req[r].prefill /\ Acquired(r) = req[r].window + PageSize
          BY <1>2, <4>1 DEF Counters, Account
        <5> QED
          BY <1>1, <5>1 DEF Acquired
      <4>2. CASE req[r].phase = "Decoding"
        <5>1. Acquired(r) = req[r].prefill + (req[r].blocks + 1) * PageSize
          BY <1>2, <1>3, <4>2 DEF Account
        <5> QED
          BY <1>1, <5>1 DEF Acquired
      <4> QED
        BY <2>3, <4>1, <4>2
    <3>2. req[r].reserve = PageSize /\ Max0(PageSize - req[r].tail) = PageSize - req[r].tail
      <4>1. req[r].reserve = PageSize
        BY <1>2, <2>3 DEF Counters
      <4>2. PageSize - req[r].tail > 0
        BY <1>1, <1>3
      <4> QED
        BY <4>1, <4>2 DEF Max0
    <3>3. n = CeilDiv(PageSize - req[r].tail)
      BY <2>3, <3>2 DEF PagesNeeded
    <3>4. n \in Int /\ n * PageSize < PageSize - req[r].tail + PageSize
      BY <1>1, <3>3, CeilExact
    <3> HIDE DEF n
    <3> QED
      BY <1>1, <1>3, <3>1, <3>4
  <2> QED
    BY <1>4, <2>1, <2>2, <2>3
<1> HIDE DEF n, c
<1>6. (n + c) * PageSize = n * PageSize + c * PageSize /\ n + c \in Int
  BY <1>1, <1>5
<1>7. n + c <= m
  BY <1>5, <1>6, PagesWithin
<1> QED
  BY <1>1, <1>5, <1>7 DEF n, c

\* The others leave enough: no candidate with a slot meets a lack of pages.
LEMMA PagesThere ==
    ASSUME TypeOK, PagesAccounted, SlotsBounded, Capacity, NEW m \in Nat,
           MaxBatchSize * m <= Cardinality(Pages),
           \A q \in Requests : Fits(q, m),
           NEW r \in Requests, req[r].phase \in Live, Visits(r), ~NoSlot(r)
    PROVE  HasCapacity(PagesNeeded(r))
<1> DEFINE Others == Holders \ {r}
           Taken == UNION {local[q] : q \in Others}
<1>1. /\ IsFiniteSet(Others) /\ Cardinality(Others) \in Nat
      /\ Cardinality(Others) <= MaxBatchSize - 1
  <2>1. IsFiniteSet(Holders) /\ Cardinality(Holders) \in Nat /\ MaxBatchSize \in Nat
    BY HoldersFinite, LimitsAssumption
  <2>2. CASE r \in Holders
    <3>1. IsFiniteSet(Others) /\ Cardinality(Others) = Cardinality(Holders) - 1
      BY <2>1, <2>2, FS_RemoveElement
    <3>2. Cardinality(Others) \in Nat
      BY <3>1, FS_CardinalityType
    <3> HIDE DEF Others
    <3> QED
      BY <2>1, <3>1, <3>2 DEF SlotsBounded
  <2>3. CASE r \notin Holders
    <3>1. Others = Holders
      BY <2>3
    <3>2. req[r].phase = "Submitted"
      BY <2>3 DEF Holders, SlotPhase, Live, Phase, Fits
    <3>3. ~(Cardinality(Holders) >= MaxBatchSize)
      BY <3>2 DEF NoSlot, NeedsSlot
    <3>4. Cardinality(Holders) <= MaxBatchSize - 1
      BY <2>1, <3>3
    <3> QED
      BY <2>1, <3>1, <3>4
  <2> QED
    BY <2>2, <2>3
<1>2. \A q \in Others : IsFiniteSet(local[q]) /\ Cardinality(local[q]) <= m
  BY HolderFits DEF Holders
<1>3. IsFiniteSet(Taken) /\ Cardinality(Taken) <= Cardinality(Others) * m
  <2> HIDE DEF Others
  <2> QED
    BY <1>1, <1>2, UnionBound
<1>4. Pages = (free \cup tree) \cup (Taken \cup local[r])
  <2>1. \A q \in Requests : q \notin Holders => local[q] = {}
    BY DEF PagesAccounted, NoIdleOwner, Fits, Holders
  <2>2. UNION {local[q] : q \in Requests} = Taken \cup local[r]
    BY <2>1 DEF Holders
  <2> QED
    BY <2>2 DEF PagesAccounted, OneOwner
<1>5. /\ free \in SUBSET Pages /\ tree \in SUBSET Pages
      /\ Taken \in SUBSET Pages /\ local[r] \in SUBSET Pages
  BY <1>4 DEF TypeOK
<1> HIDE DEF Taken, Others
<1>6. /\ Cardinality(Pages) <= Cardinality(free) + Cardinality(tree)
                               + (Cardinality(Taken) + Cardinality(local[r]))
      /\ Cardinality(free) \in Nat /\ Cardinality(tree) \in Nat
      /\ Cardinality(Taken) \in Nat
  <2>1. \A S, T \in SUBSET Pages :
            /\ S \cup T \in SUBSET Pages
            /\ Cardinality(S) \in Nat /\ Cardinality(T) \in Nat
            /\ Cardinality(S \cup T) \in Nat
            /\ Cardinality(S \cup T) <= Cardinality(S) + Cardinality(T)
    <3> TAKE S, T \in SUBSET Pages
    <3>1. /\ IsFiniteSet(S) /\ Cardinality(S) \in Nat
          /\ IsFiniteSet(T) /\ Cardinality(T) \in Nat
          /\ S \cup T \in SUBSET Pages /\ Cardinality(S \cup T) \in Nat
          /\ Cardinality(S \cap T) \in Nat
      BY PagesFinite
    <3>2. Cardinality(S \cup T) = Cardinality(S) + Cardinality(T) - Cardinality(S \cap T)
      BY <3>1, FS_Union
    <3> QED
      BY <3>1, <3>2
  <2>2. /\ free \cup tree \in SUBSET Pages /\ Taken \cup local[r] \in SUBSET Pages
        /\ Cardinality(free \cup tree) <= Cardinality(free) + Cardinality(tree)
        /\ Cardinality(Taken \cup local[r]) <= Cardinality(Taken) + Cardinality(local[r])
        /\ Cardinality(free) \in Nat /\ Cardinality(tree) \in Nat
        /\ Cardinality(Taken) \in Nat /\ Cardinality(local[r]) \in Nat
        /\ Cardinality(free \cup tree) \in Nat /\ Cardinality(Taken \cup local[r]) \in Nat
    BY <1>5, <2>1
  <2>3. Cardinality(Pages) <= Cardinality(free \cup tree) + Cardinality(Taken \cup local[r])
    BY <1>4, <2>1, <2>2
  <2>4. Cardinality(Pages) \in Nat
    BY PagesFinite
  <2> QED
    BY <2>2, <2>3, <2>4
<1>7. /\ PagesNeeded(r) \in Int /\ Cardinality(local[r]) \in Nat
      /\ Cardinality(local[r]) + PagesNeeded(r) <= m
  BY NeedFits
<1>8. Cardinality(Others) * m <= (MaxBatchSize - 1) * m
  BY <1>1, LimitsAssumption
<1>9. (MaxBatchSize - 1) * m = MaxBatchSize * m - m
  BY LimitsAssumption
<1>10. MaxBatchSize * m \in Nat /\ Cardinality(Others) * m \in Nat /\ Cardinality(Pages) \in Nat
  BY <1>1, LimitsAssumption, PagesFinite
<1>11. PagesNeeded(r) <= Cardinality(free) + Cardinality(tree)
  <2> HIDE DEF PagesNeeded
  <2> QED
    BY <1>3, <1>6, <1>7, <1>8, <1>9, <1>10
<1> QED
  BY <1>11 DEF HasCapacity

\* A plan whose loop is over without an operation has visited everybody.
LEMMA EmptyPlan ==
    ASSUME TypeOK, NobodyPassed, planning, LoopDone, Ops = {}
    PROVE  todo = {} /\ Holders = {} /\ \A r \in Requests : req[r].phase \notin Live
<1>1. budget > 0 /\ MaxBatchSize # 0
  BY LimitsAssumption DEF NobodyPassed
<1>2. Cardinality(Ops) = 0
  BY FS_EmptySet
<1>3. ~PushedPrefill
  BY DEF PushedPrefill, Ops
<1>4. todo = {}
  <2>1. ~(budget <= 0)
    BY <1>1, LimitsAssumption DEF NobodyPassed
  <2> QED
    BY <1>1, <1>2, <1>3, <2>1 DEF LoopDone
<1> QED
  BY <1>4 DEF NobodyPassed

\* Nobody else than r changes, and r still fits.
LEMMA FitsStep ==
    ASSUME NEW m, NEW r \in Requests, \A q \in Requests : Fits(q, m),
           \A q \in Requests \ {r} : req'[q] = req[q],
           \/ req'[r].phase \in {"absent", "Finished"}
           \/ /\ req'[r].phase # "Retracted" /\ req[r].phase \in Live
              /\ req'[r].blocks = req[r].blocks
              /\ req'[r].prefill = req[r].prefill
    PROVE  \A q \in Requests : Fits(q, m)'
<1>1. \A q \in Requests \ {r} : Fits(q, m)'
  BY DEF Fits
<1>2. Fits(r, m)'
  BY DEF Fits, Live
<1> QED
  BY <1>1, <1>2

\* The loop schedules a request.
LEMMA AmpleSchedule ==
    ASSUME TypeOK, NEW m, AmpleFor(m), NEW r \in Requests, Schedules(r)
    PROVE  AmpleFor(m)'
<1>1. /\ planning /\ planning' /\ r \in todo
      /\ req[r].phase \in Live
  BY DEF Schedules, SchedulePrefillFirstChunk, SchedulePrefill, ScheduleDecode,
         ScheduleDecodeFromRetracted, Admits, Visits, PushOp, IsNext, AmpleFor, NobodyPassed
<1>2. /\ \A q \in Requests \ {r} : req'[q] = req[q]
      /\ req'[r].phase \in SlotPhase
      /\ req'[r].blocks = req[r].blocks /\ req'[r].prefill = req[r].prefill
  <2>1. req[r] \in ReqType
    BY DEF TypeOK
  <2>2. ASSUME NEW n, NEW tail, req' = [req EXCEPT ![r] = AfterChunk(r, n, tail)]
        PROVE  /\ \A q \in Requests \ {r} : req'[q] = req[q]
               /\ req'[r].phase \in SlotPhase
               /\ req'[r].blocks = req[r].blocks /\ req'[r].prefill = req[r].prefill
    BY <2>1, <2>2 DEF AfterChunk, ReqType, SlotPhase, TypeOK
  <2>3. ASSUME NEW tail,
               req' = [req EXCEPT ![r] = [@ EXCEPT !.phase = "Decoding",
                                                   !.tail = tail,
                                                   !.reserve = PageSize]]
        PROVE  /\ \A q \in Requests \ {r} : req'[q] = req[q]
               /\ req'[r].phase \in SlotPhase
               /\ req'[r].blocks = req[r].blocks /\ req'[r].prefill = req[r].prefill
    BY <2>1, <2>3 DEF ReqType, SlotPhase, TypeOK
  <2>4. CASE SchedulePrefillFirstChunk(r) \/ SchedulePrefill(r)
    <3>1. \E n, tail : req' = [req EXCEPT ![r] = AfterChunk(r, n, tail)]
      BY <2>4 DEF SchedulePrefillFirstChunk, SchedulePrefill
    <3> QED
      BY <2>2, <3>1
  <2>5. CASE ScheduleDecode(r) \/ ScheduleDecodeFromRetracted(r)
    <3>1. \E tail : req' = [req EXCEPT ![r] = [@ EXCEPT !.phase = "Decoding",
                                                        !.tail = tail,
                                                        !.reserve = PageSize]]
      BY <2>5 DEF ScheduleDecode, ScheduleDecodeFromRetracted
    <3> QED
      BY <2>3, <3>1
  <2> QED
    BY <2>4, <2>5 DEF Schedules
<1>3. \A q \in Requests : Fits(q, m)'
  BY <1>1, <1>2, FitsStep DEF AmpleFor, SlotPhase
<1>4. \A q \in todo : req'[q].phase \in Live
  BY <1>1, <1>2 DEF AmpleFor, NobodyPassed, Live, Phase, SlotPhase, TypeOK
<1>5. \/ todo' \subseteq todo /\ Ops' # {}
      \/ UNCHANGED <<todo, budget, opKind>>
  <2>1. ASSUME NEW kind \in {"prefill", "decode"}, NEW length, PushOp(r, kind, length)
        PROVE  todo' \subseteq todo /\ Ops' # {}
    <3>1. opKind'[r] = kind
      BY <2>1 DEF PushOp, TypeOK
    <3> QED
      BY <2>1, <3>1 DEF PushOp, Ops
  <2> QED
    BY <2>1 DEF Schedules, SchedulePrefillFirstChunk, SchedulePrefill,
                ScheduleDecode, ScheduleDecodeFromRetracted
<1>6. CASE todo' \subseteq todo /\ Ops' # {}
  BY <1>3, <1>4, <1>6 DEF AmpleFor, NobodyPassed
<1>7. CASE UNCHANGED <<todo, budget, opKind>>
  <2>1. Ops' = Ops /\ Holders' = Holders \cup {r}
    BY <1>2, <1>7 DEF Ops, Holders
  <2> QED
    BY <1>1, <1>3, <1>4, <1>7, <2>1 DEF AmpleFor, NobodyPassed
<1> QED
  BY <1>5, <1>6, <1>7

\* A candidate is passed over for want of a slot only.
LEMMA AmpleSkip ==
    ASSUME TypeOK, PagesAccounted, SlotsBounded, Capacity, NEW m \in Nat,
           MaxBatchSize * m <= Cardinality(Pages), AmpleFor(m),
           NEW r \in Requests, SkipNoSlot(r) \/ SkipNoPages(r)
    PROVE  AmpleFor(m)'
<1>1. r \in todo /\ planning /\ Visits(r)
  BY DEF SkipNoSlot, SkipNoPages, Visits, IsNext
<1>2. req[r].phase \in Live
  BY <1>1 DEF AmpleFor, NobodyPassed
<1>3. ~SkipNoPages(r)
  BY <1>1, <1>2, PagesThere DEF SkipNoPages, AmpleFor
<1>4. SkipNoSlot(r)
  BY <1>3
<1>5. Holders # {}
  <2>1. Cardinality(Holders) >= MaxBatchSize
    BY <1>4 DEF SkipNoSlot, NoSlot
  <2>2. Cardinality({}) = 0 /\ ~(0 >= MaxBatchSize)
    BY FS_EmptySet, LimitsAssumption
  <2> QED
    BY <2>1, <2>2
<1>6. r \notin Holders
  BY <1>4 DEF SkipNoSlot, NoSlot, NeedsSlot, Holders, SlotPhase
<1>7. UNCHANGED <<req, planning, budget, opKind>> /\ todo' = todo \ {r}
  BY <1>4 DEF SkipNoSlot
<1>8. Holders' = Holders /\ Ops' = Ops /\ \A q \in Requests : Fits(q, m)'
  BY <1>7 DEF Holders, Ops, AmpleFor, Fits
<1> QED
  BY <1>5, <1>6, <1>7, <1>8 DEF AmpleFor, NobodyPassed

\* A plan begins with all live requests.
LEMMA AmpleBegin ==
    ASSUME TypeOK, NEW m, AmpleFor(m), BeginPlan
    PROVE  AmpleFor(m)'
<1>1. /\ todo' = {r \in Requests : req[r].phase \in Live}
      /\ budget' = MaxScheduledTokens
      /\ \A r \in Requests : req'[r] = IF req[r].phase = "Finished" THEN Gone("absent")
                                       ELSE req[r]
  BY DEF BeginPlan
<1>2. \A r \in Requests : /\ req'[r].phase \in Live => req[r].phase \in Live
                          /\ req[r].phase \in Live => req'[r].phase = req[r].phase
                          /\ req[r].phase \in Phase
  BY <1>1 DEF Gone, Live, TypeOK, ReqType
<1>3. \A r \in Requests : Fits(r, m)'
  BY <1>1 DEF AmpleFor, Fits, Gone, Live
<1>4. NobodyPassed'
  <2>1. \A r \in todo' : req'[r].phase \in Live
    BY <1>1, <1>2
  <2>2. \A r \in Requests : req'[r].phase \in Live => r \in todo'
    BY <1>1, <1>2
  <2>3. Holders' \subseteq todo'
    BY <2>2 DEF Holders, SlotPhase, Live, Phase
  <2> QED
    BY <1>1, <2>1, <2>2, <2>3 DEF NobodyPassed
<1> QED
  BY <1>3, <1>4 DEF AmpleFor

\* Between plans.
LEMMA AmpleBetween ==
    ASSUME TypeOK, NEW m \in Nat, HoldsRequest(m), AmpleFor(m),
           NEW r \in Requests, Client(r) \/ Result(r)
    PROVE  AmpleFor(m)'
<1>1. ~planning'
  BY DEF Client, Result, SubmitRequests, Abort, PrefillResult, DecodeResult,
         FinishResult, StaleResult, planVars
<1>2. NobodyPassed'
  BY <1>1 DEF NobodyPassed
<1> SUFFICES \A q \in Requests : Fits(q, m)'
  BY <1>2 DEF AmpleFor
<1>3. \A q \in Requests : Fits(q, m)
  BY DEF AmpleFor
<1>4. ASSUME NEW len \in PromptLens, SubmitRequests(r, len)
      PROVE  \A q \in Requests : Fits(q, m)'
  <2>1. req'[r] = NewRequest(len) /\ \A q \in Requests \ {r} : req'[q] = req[q]
    BY <1>4 DEF SubmitRequests, TypeOK
  <2>2. /\ req'[r].phase = "Submitted" /\ req'[r].blocks = 0
        /\ req'[r].prefill = PrefillLength(len)
    BY <2>1 DEF NewRequest, Gone
  <2>3. 0 < MaxBlocks
    BY LimitsAssumption
  <2>4. Fits(r, m)'
    BY <2>2, <2>3 DEF Fits, HoldsRequest
  <2> QED
    BY <1>3, <2>1, <2>4 DEF Fits
<1>5. CASE Abort(r)
  <2>1. req'[r].phase = "Finished" /\ \A q \in Requests \ {r} : req'[q] = req[q]
    BY <1>5 DEF Abort, Gone, TypeOK
  <2> QED
    BY <1>3, <2>1, FitsStep
<1>6. CASE PrefillResult(r) \/ StaleResult(r)
  BY <1>3, <1>6 DEF PrefillResult, StaleResult, Fits
<1>7. ASSUME NEW n \in 0 .. Room(r), DecodeResult(r, n)
      PROVE  \A q \in Requests : Fits(q, m)'
  <2>1. req[r] \in ReqType /\ req[r].phase = "Decoding" /\ req[r].blocks + 1 < MaxBlocks
    BY <1>7 DEF DecodeResult, TypeOK
  <2>2. req' = [req EXCEPT ![r] = [@ EXCEPT !.tokens = req[r].tokens + n,
                                            !.blocks = req[r].blocks + 1,
                                            !.reserve = PageSize]]
    BY <1>7 DEF DecodeResult
  <2>3. /\ req'[r].phase = "Decoding" /\ req'[r].blocks = req[r].blocks + 1
        /\ req'[r].prefill = req[r].prefill
        /\ \A q \in Requests \ {r} : req'[q] = req[q]
    BY <2>1, <2>2 DEF ReqType, TypeOK
  <2>4. Fits(r, m)'
    BY <1>3, <2>1, <2>3 DEF Fits, Live, Phase
  <2> QED
    BY <1>3, <2>3, <2>4 DEF Fits
<1>8. ASSUME NEW n \in 0 .. Room(r), FinishResult(r, n)
      PROVE  \A q \in Requests : Fits(q, m)'
  <2>1. req'[r].phase = "Finished" /\ \A q \in Requests \ {r} : req'[q] = req[q]
    BY <1>8 DEF FinishResult, Gone, TypeOK
  <2> QED
    BY <1>3, <2>1, FitsStep
<1> QED
  BY <1>4, <1>5, <1>6, <1>7, <1>8 DEF Client, Result

\* With pages for every slot nobody is retracted.
LEMMA AmpleNeverShort ==
    ASSUME TypeOK, NEW m, AmpleFor(m)
    PROVE  NeverShort
<1>1. NobodyPassed
  BY DEF AmpleFor
<1>2. ReturnPlan /\ Ops = {} => \A r \in Requests : req[r].phase \notin Live
  BY <1>1, EmptyPlan DEF ReturnPlan
<1>3. ASSUME NEW r \in Requests, RetractAborts(r) \/ RetractKeepsPages(r)
      PROVE  FALSE
  <2>1. planning /\ LoopDone /\ Ops = {} /\ r \in Holders
    BY <1>3 DEF RetractAborts, RetractKeepsPages, Victim, RetractCandidates,
                Holders, SlotPhase
  <2> QED
    BY <1>1, <2>1, EmptyPlan
<1> QED
  BY <1>2, <1>3 DEF NeverShort

LEMMA AmpleNext ==
    ASSUME TypeOK, PagesAccounted, SlotsBounded, Capacity, NEW m \in Nat,
           HoldsRequest(m), MaxBatchSize * m <= Cardinality(Pages), AmpleFor(m),
           [Next]_vars
    PROVE  AmpleFor(m)'
<1>1. CASE BeginPlan
  BY <1>1, AmpleBegin
<1>2. CASE ReturnPlan
  BY <1>2 DEF ReturnPlan, PlanOver, AmpleFor, NobodyPassed, Fits
<1>3. ASSUME NEW r \in Requests, Schedules(r)
      PROVE  AmpleFor(m)'
  BY <1>3, AmpleSchedule
<1>4. ASSUME NEW r \in Requests, SkipNoSlot(r) \/ SkipNoPages(r)
      PROVE  AmpleFor(m)'
  BY <1>4, AmpleSkip
<1>5. ASSUME NEW r \in Requests, RetractAborts(r) \/ RetractKeepsPages(r)
      PROVE  AmpleFor(m)'
  BY <1>5, AmpleNeverShort DEF NeverShort
<1>6. ASSUME NEW r \in Requests, Client(r) \/ Result(r)
      PROVE  AmpleFor(m)'
  BY <1>6, AmpleBetween
<1>7. CASE UNCHANGED vars
  BY <1>7 DEF vars, AmpleFor, NobodyPassed, Fits, Ops, Holders
<1> QED
  BY <1>1, <1>2, <1>3, <1>4, <1>5, <1>6, <1>7 DEF Next, PlanStep, Schedules

\* With pages for every slot the scheduler implements the stronger contract,
\* the one the engine is checked over: nobody ends or loses its slot but by
\* an abort or a result, and a plan gives somebody an operation as long as
\* anybody is there, whatever the budget, the prompts and the order.
THEOREM AmpleImplementsContract ==
    ASSUME MayRetract = FALSE, AmplePages
    PROVE  Spec => ImplementsContract
<1>1. PICK m \in Nat : HoldsRequest(m) /\ MaxBatchSize * m <= Cardinality(Pages)
  BY DEF AmplePages
<1>2. Init => AmpleFor(m)
  BY DEF Init, Idle, Gone, AmpleFor, NobodyPassed, Fits, Live
<1>3. /\ TypeOK /\ PagesAccounted /\ SlotsBounded /\ Capacity /\ AmpleFor(m)
      /\ PlanView /\ [Next]_vars
      => AmpleFor(m)' /\ PlanView' /\ [Contract!Next]_(Contract!vars)
  BY <1>1, AmpleNext, AmpleNeverShort, RefinementStep
<1>4. Owners => TypeOK /\ PagesAccounted
  BY DEF Owners
<1> QED
  BY <1>2, <1>3, <1>4, RefinementInit, OwnersInit, OwnersNext, CapacityInit,
     CapacityNext, SlotsAlwaysBounded, PTL
     DEF Spec, ImplementsContract, Contract!Spec
=============================================================================
