----------------------------- MODULE MCCluster -----------------------------
(* Two ranks, three requests for two slots. *)
EXTENDS Cluster
=============================================================================
