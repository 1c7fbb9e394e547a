--------------------------- MODULE FluxRefinement ---------------------------
(***************************************************************************)
(* FluxScheduler implements SchedulerContract.  A plan is one call for its *)
(* caller, so the contract sees the scheduler as the call found it until   *)
(* the call returns.  What it found is still there while it runs: `order'  *)
(* keeps the sort class, hence the phase, of every candidate.              *)
(***************************************************************************)
EXTENDS FluxScheduler

CONSTANT MayRetract

KnownAs(phase) ==
    CASE phase = "absent" -> "absent"
      [] phase = "Finished" -> "finished"
      [] OTHER -> "live"

\* Class 9 is nobody's: those that ended are forgotten as the call starts.
KnownBefore(class) == IF class = 9 THEN "absent" ELSE "live"

\* The classes of SlotPhase: prefilling, and decoding or about to.
HeldBefore == {r \in Requests : order[r] \in {1, 3}}

SeenKnown == [r \in Requests |-> IF planning THEN KnownBefore(order[r])
                                 ELSE KnownAs(req[r].phase)]
SeenHeld == IF planning THEN HeldBefore ELSE Holders
SeenOps == IF planning THEN {} ELSE Ops

Contract == INSTANCE SchedulerContract
                WITH known <- SeenKnown, held <- SeenHeld, ops <- SeenOps

\* What the engine relies on: plans never overlap, operations go to holders
\* of one of max_batch_size slots, nobody loses a slot or ends but by an
\* abort, a result or, when pages may run out, a retraction.
ImplementsContract == Contract!Spec
=============================================================================
