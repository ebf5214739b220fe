--------------------------- MODULE WorkspaceCluster ---------------------------
(***************************************************************************)
(* Workspace together with the cluster its workflows act on, for users who *)
(* take one action at a time on a server that is not interrupted between   *)
(* starting a workflow and writing the phase:                              *)
(*   - a request starts only when nothing of the previous one is under way;*)
(*   - a workflow needs longer to start than the server to write a row;    *)
(*   - fewer status calls are lost than curl makes attempts.               *)
(* Tasks, workflows and calls still fail, are lost, repeated and retried.  *)
(***************************************************************************)
EXTENDS Workspace

ASSUME LossesAssumption == MaxLosses < MaxTries

VARIABLE k8s    \* the resources of this uid that exist in the cluster

cvars == <<vars, k8s>>

(* sys-resource-action is "apply" or "delete"; applying the stateful set    *)
(* also makes its volume claim, which deleting the set leaves behind.       *)
KeepClaims(act, t) ==
    CASE act \in {"create", "update"} /\ t = "stateful-set" -> k8s \cup {t, "pvc"}
      [] act \in {"create", "update"} /\ t # "stateful-set" -> k8s \cup {t}
      [] OTHER                                              -> k8s \ ({t} \ {"pvc"})

Effect(act, t) ==
    CASE act \in {"create", "update"} /\ t = "stateful-set" -> k8s \cup {t, "pvc"}
      [] act \in {"create", "update"} /\ t # "stateful-set" -> k8s \cup {t}
      [] OTHER                                              -> k8s \ {t}

CInit == Init /\ k8s = {}

Begin(q) ==
    /\ Quiet
    /\ CreateRead(q) \/ RetryRead(q) \/ \E op \in Actions : ActionRead(q, op)
    /\ UNCHANGED k8s

Continue(q) ==
    /\ Reread(q) \/ LaunchWorkflow(q) \/ InsertRow(q) \/ RestartRow(q) \/ WritePhase(q)
    /\ UNCHANGED k8s

Break(q) ==
    /\ req[q].pc # "write"
    /\ Abort(q)
    /\ UNCHANGED k8s

Unhurried(w) == \A q \in Reqs : req[q].wf # w

(* A resource task may fail with or without having changed the cluster.     *)
Work(w) ==
    /\ Unhurried(w)
    /\ \/ TaskSucceeds(w) /\ k8s' = Effect(wf[w].act, wf[w].stage)
       \/ TaskFails(w) /\ k8s' \in {k8s, Effect(wf[w].act, wf[w].stage)}
       \/ PostExecutionSucceeds(w) /\ UNCHANGED k8s
       \/ PostExecutionFails(w) /\ UNCHANGED k8s
       \/ SendCall(w) /\ UNCHANGED k8s
       \/ GiveUp(w) /\ UNCHANGED k8s

Handle(c) ==
    /\ HandleSucceeded(c) \/ HandleFailed(c) \/ HandlePhase(c)
    /\ UNCHANGED k8s

Lose(c) ==
    /\ LoseCall(c) \/ CutConnection(c)
    /\ UNCHANGED k8s

CNext ==
    \/ \E q \in Reqs : Begin(q) \/ Continue(q) \/ Break(q)
    \/ \E w \in Wfs : Work(w)
    \/ \E c \in calls : Handle(c) \/ Lose(c)

(* A method that has begun goes on, Argo runs the tasks that are ready, and *)
(* the server handles the calls that reach it.  Users need do nothing.      *)
Fairness ==
    /\ \A q \in Reqs : WF_cvars(Continue(q))
    /\ \A w \in Wfs : WF_cvars(Work(w))
    /\ \A w \in Wfs : WF_cvars(\E c \in calls : c.wf = w /\ Handle(c))

CSpec == CInit /\ [][CNext]_cvars

FairSpec == CSpec /\ Fairness
-----------------------------------------------------------------------------
(* Whenever nothing is under way the table tells the truth about the        *)
(* cluster: a running workspace has all of its resources, a paused one at   *)
(* most its volume claim, and with no live row nothing is left behind.      *)
PhaseMatchesCluster ==
    Quiet =>
        /\ \A r \in Rows : rows[r].phase = "Running" => k8s = Resource
        /\ \A r \in Rows : rows[r].phase = "Paused" => k8s \subseteq {"pvc"}
        /\ (\A r \in Rows : ~Live(r)) => k8s = {}

(* The times the API reports belong to the phase: whichever actions, and    *)
(* failures, came before, a paused workspace has a pause time and no start  *)
(* time, a running one has no pause time, a terminated one its end only.    *)
TimesMatchPhase ==
    \A r \in Rows :
        LET row == rows[r] IN
        /\ row.phase \in {"Pausing", "Paused", "Failed to pause"} =>
             row.paused /\ ~row.started
        /\ row.phase \in {"Launching", "Updating", "Running"} => ~row.paused
        /\ row.phase \in {"Terminating", "Terminated", "Failed to terminate"} =>
             row.terminated /\ ~row.started /\ ~row.paused

(* Every row goes through the phases of the abstract life cycle, and leaves *)
(* each transitional phase: the SQL guards, the order of workflow and       *)
(* write, and the retries of the calls implement it.                        *)
Lifecycle == INSTANCE WorkspaceLifecycle
    WITH phase <- [r \in Rows |-> rows[r].phase]

ImplementsLifecycle == Lifecycle!Spec

(* RetryLastWorkspaceAction "will attempt the last action on the workspace  *)
(* again": what it issues is an action that was issued before and failed.   *)
RetryRepeatsFailedAction ==
    [][\A q \in Reqs : RetryRead(q) =>
        \E w \in Created :
            /\ wf[w].status = "Failed"
            /\ \/ wf[w].by = req'[q].op
               \/ wf[w].by = "create" /\ req'[q].op = "start"]_cvars
=============================================================================
