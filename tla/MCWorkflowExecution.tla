------------------------- MODULE MCWorkflowExecution -------------------------
(* Model checking of WorkflowExecution on small sets.                       *)
EXTENDS WorkflowExecution, TLC

Symmetry == Permutations(Namespaces) \cup Permutations(Names) \cup
            Permutations(Wfs) \cup Permutations(Reqs)

(* A bound: what is lost is lost in a cluster of one namespace.             *)
LossesInOneNamespace == losses > 0 => \A w, v \in Created : wf[w].ns = wf[v].ns

BoundedSpec == Init /\ [][Next /\ LossesInOneNamespace']_vars
=============================================================================
