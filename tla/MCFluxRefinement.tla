-------------------------- MODULE MCFluxRefinement --------------------------
(* Small instances of FluxRefinement for TLC.                              *)
EXTENDS FluxRefinement, TLC

\* Pages are interchangeable: no operator orders or names them.
PageSymmetry == Permutations(Pages)
=============================================================================
