----------------------------- MODULE MCWorkspace -----------------------------
(* Model checking of Workspace: small sets of rows, workflows and handlers. *)
EXTENDS Workspace, TLC

Symmetry == Permutations(Rows) \cup Permutations(Wfs) \cup Permutations(Reqs)
=============================================================================
