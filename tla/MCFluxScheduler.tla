--------------------------- MODULE MCFluxScheduler ---------------------------
(* Small instances of FluxScheduler for TLC.                               *)
EXTENDS FluxScheduler, TLC

\* Pages are interchangeable: no operator orders or names them.
PageSymmetry == Permutations(Pages)

-----------------------------------------------------------------------------
(* Draining: the clients have submitted what they will, and only abort.    *)

DrainInit ==
    /\ Idle
    /\ req \in [Requests -> {Gone("absent")} \cup {NewRequest(len) : len \in PromptLens}]

DrainNext == PlanStep \/ \E r \in Requests : Abort(r) \/ Result(r)

DrainSpec == DrainInit /\ [][DrainNext]_vars /\ Fairness
=============================================================================
