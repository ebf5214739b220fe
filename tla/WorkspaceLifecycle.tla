-------------------------- MODULE WorkspaceLifecycle --------------------------
(***************************************************************************)
(* What a workspace promises its users: which phase may follow which, and  *)
(* that a workspace never stays in a transitional phase.  One uid; a new   *)
(* row is opened only when no earlier one is live.                         *)
(***************************************************************************)
CONSTANT Rows

VARIABLE phase      \* phase[r]: "Absent" until row r exists

Live(r) == phase[r] \notin {"Absent", "Terminated"}

(* How each transitional phase may end. *)
Outcomes == [Launching   |-> {"Running", "Failed to launch"},
             Updating    |-> {"Running", "Failed to update"},
             Pausing     |-> {"Paused", "Failed to pause"},
             Terminating |-> {"Terminated", "Failed to terminate"}]

Settled(r) == Live(r) /\ phase[r] \notin DOMAIN Outcomes

Become(r, p) == phase' = [phase EXCEPT ![r] = p]

Init == phase = [r \in Rows |-> "Absent"]

Open(r) ==
    /\ phase[r] = "Absent"
    /\ \A s \in Rows : ~Live(s)
    /\ Become(r, "Launching")

Order(r) ==
    /\ Settled(r)
    /\ \E p \in DOMAIN Outcomes : Become(r, p)

Resolve(r) ==
    /\ phase[r] \in DOMAIN Outcomes
    /\ \E p \in Outcomes[phase[r]] : Become(r, p)

(* A failure reported after the phase has settled leaves the bare status.   *)
FailLate(r) ==
    /\ Settled(r)
    /\ Become(r, "Failed")

(* A delayed copy of the report that settled the phase hides that failure.  *)
ReportLate(r) ==
    /\ phase[r] = "Failed"
    /\ \E q \in DOMAIN Outcomes : \E p \in Outcomes[q] \ {"Terminated"} : Become(r, p)

Next == \E r \in Rows : Open(r) \/ Order(r) \/ Resolve(r) \/ FailLate(r) \/ ReportLate(r)

Safety == Init /\ [][Next]_phase

Spec ==
    /\ Safety
    /\ \A r \in Rows : WF_phase(Resolve(r))
=============================================================================
