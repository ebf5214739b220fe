-------------------------- MODULE MCWorkspaceCluster --------------------------
(* Model checking of WorkspaceCluster.  Requests come one after the other,  *)
(* so one handler and one workflow per request are enough.                  *)
EXTENDS WorkspaceCluster, TLC

Symmetry == Permutations(Rows) \cup Permutations(Wfs)
=============================================================================
