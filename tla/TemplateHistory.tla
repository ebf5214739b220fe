---------------------------- MODULE TemplateHistory ----------------------------
(***************************************************************************)
(* What the workflow templates of one uid promise: one template at a time  *)
(* is live, a template that was retired stays retired, and the versions of *)
(* a template are a history that only grows at its end.                    *)
(***************************************************************************)
EXTENDS Naturals

CONSTANTS Templates, Numbers

VARIABLES
    stage,      \* stage[t] \in {"Absent", "Live", "Archived"}
    history     \* history[t]: the versions of t

Live == {t \in Templates : stage[t] = "Live"}

Init ==
    /\ stage = [t \in Templates |-> "Absent"]
    /\ history = [t \in Templates |-> {}]

(* A template appears with its first version.                               *)
Found(t, n) ==
    /\ Live = {}
    /\ stage[t] = "Absent"
    /\ stage' = [stage EXCEPT ![t] = "Live"]
    /\ history' = [history EXCEPT ![t] = {n}]

(* A later version; one that was under way may still arrive at a template   *)
(* retired in the meantime.                                                 *)
Publish(t, n) ==
    /\ stage[t] # "Absent"
    /\ \A k \in history[t] : k < n
    /\ history' = [history EXCEPT ![t] = @ \cup {n}]
    /\ UNCHANGED stage

Retire ==
    /\ stage' = [t \in Templates |-> IF t \in Live THEN "Archived" ELSE stage[t]]
    /\ UNCHANGED history

Next ==
    \/ \E t \in Templates, n \in Numbers : Found(t, n) \/ Publish(t, n)
    \/ Retire

Spec == Init /\ [][Next]_<<stage, history>>
=============================================================================
