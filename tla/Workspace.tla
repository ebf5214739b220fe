------------------------------ MODULE Workspace ------------------------------
(***************************************************************************)
(* The life of the workspaces that share one (namespace, uid): the rows of *)
(* the workspaces table, the API requests that run concurrently on them,   *)
(* the Argo workflows those requests start, and the status calls the       *)
(* workflows make back to the server.                                      *)
(*                                                                         *)
(* A request reads the row, creates a workflow, and only then writes the   *)
(* row; the workflow changes the cluster and reports a phase through a     *)
(* retried HTTP call; its exit handler reports the workflow's own status.  *)
(* All of them interleave, and nothing but SQL guards orders their writes. *)
(***************************************************************************)
EXTENDS Naturals, FiniteSets

CONSTANTS
    Rows,           \* primary keys of the workspaces table
    Wfs,            \* names Argo gives to workflows; bounds how many are made
    Reqs,           \* request handlers the server runs at the same time
    Actions,        \* the actions users ask for, besides creating and retrying
    NoRow, NoWf,    \* "no row", "no workflow"
    MaxTries,       \* attempts curl makes at one status call
    MaxLosses,      \* bound on lost calls, lost replies and cut connections
    PostExecution   \* does the workspace template have a postExecutionWorkflow?

ASSUME WorkspaceAssumption ==
    /\ NoRow \notin Rows
    /\ NoWf \notin Wfs
    /\ Actions \subseteq {"update", "pause", "resume", "delete"}
    /\ MaxTries \in Nat \ {0}
    /\ MaxLosses \in Nat
    /\ PostExecution \in BOOLEAN

VARIABLES
    rows,     \* the table: row id -> record; phase "Absent" before the INSERT
    req,      \* request handler -> where it is in its method
    wf,       \* Argo's workflows
    calls,    \* status calls on the wire or being handled by the server
    losses    \* how many losses have happened (a bound, not program state)

vars == <<rows, req, wf, calls, losses>>
-----------------------------------------------------------------------------
(* Phases.  "Failed" stands for the literal Argo statuses Failed and Error. *)

Transitional == {"Launching", "Updating", "Pausing", "Terminating"}
Reported     == {"Running", "Paused", "Terminated"}
FailedTo     == {"Failed to launch", "Failed to resume", "Failed to pause",
                 "Failed to terminate", "Failed to update"}
Phase        == Transitional \cup Reported \cup FailedTo \cup {"Failed"}

Row == [phase : Phase \cup {"Absent"}, started : BOOLEAN,
        paused : BOOLEAN, terminated : BOOLEAN]

(* The predicate every query of the table carries: phase <> 'Terminated'. *)
AnyStored(r) == rows[r].phase # "Absent"
Live(r) == rows[r].phase \notin {"Absent", "Terminated"}

(* The column values an UPDATE to phase ph writes. *)
KeepPausedAt(row, ph) ==
    [phase      |-> ph,
     started    |-> (row.started \/ ph = "Launching") /\ ph \notin {"Pausing", "Terminating"},
     paused     |-> (row.paused \/ ph = "Pausing") /\ ph \notin {"Updating", "Terminating"},
     terminated |-> row.terminated \/ ph = "Terminating"]

StatusFields(row, ph) ==
    [phase      |-> ph,
     started    |-> CASE ph = "Launching"                  -> TRUE
                      [] ph \in {"Pausing", "Terminating"} -> FALSE
                      [] OTHER                             -> row.started,
     paused     |-> CASE ph = "Pausing"                                  -> TRUE
                      [] ph \in {"Launching", "Updating", "Terminating"} -> FALSE
                      [] OTHER                                           -> row.paused,
     terminated |-> row.terminated \/ ph = "Terminating"]

(* UPDATE workspaces SET ... WHERE uid = ... AND phase <> 'Terminated'. *)
UnguardedUpdate(ph) ==
    rows' = [r \in Rows |-> IF AnyStored(r) THEN StatusFields(rows[r], ph) ELSE rows[r]]

UpdateStatus(ph) ==
    rows' = [r \in Rows |-> IF Live(r) THEN StatusFields(rows[r], ph) ELSE rows[r]]

(* The partial unique index on (uid, namespace): r may become live. *)
NoIndex(r) == TRUE
IndexAllows(r) == \A s \in Rows \ {r} : ~Live(s)
-----------------------------------------------------------------------------
(* The workflow a request starts: sys-workspace-action, and its DAG.        *)

Act == {"create", "update", "pause", "delete"}
Op  == {"create", "start", "resume", "update", "pause", "delete"}

ActOf(op) == IF op \in {"create", "start", "resume"} THEN "create" ELSE op

PhaseOf(op) ==
    CASE op \in {"create", "start", "resume"} -> "Launching"
      [] op = "update"                        -> "Updating"
      [] op = "pause"                         -> "Pausing"
      [] op = "delete"                        -> "Terminating"

MisspeltPhase(act) ==
    CASE act \in {"create", "update"} -> "Running"
      [] act = "pause"                -> "Paused"
      [] act = "delete"               -> "Deleted"

TargetPhase(act) ==
    CASE act \in {"create", "update"} -> "Running"
      [] act = "pause"                -> "Paused"
      [] act = "delete"               -> "Terminated"

(* "routes" stands for the tasks service and virtual-service, and           *)
(* "stateful-set" for those that apply (and wait for) or delete the         *)
(* stateful set and the Workspace resource.                                 *)
Resource == {"routes", "stateful-set", "pvc"}
Task     == Resource \cup {"set-phase", "post-execution"}
Stage    == Task \cup {"exit", "done"}

(* The task that depends on t in the DAG of action act. *)
PhaseBeforePVC(act, t) ==
    CASE t = "routes"         -> "stateful-set"
      [] t = "stateful-set"   -> "set-phase"
      [] t = "pvc"            -> "exit"
      [] t = "set-phase"      -> IF act = "delete" THEN "pvc" ELSE "exit"
      [] t = "post-execution" -> "exit"

NextTask(act, t) ==
    CASE t = "routes"         -> "stateful-set"
      [] t = "stateful-set"   -> IF act = "delete" THEN "pvc" ELSE "set-phase"
      [] t = "pvc"            -> "set-phase"
      [] t = "set-phase"      -> IF PostExecution THEN "post-execution" ELSE "exit"
      [] t = "post-execution" -> "exit"

Workflow == [act : Act, by : Op, stage : Stage \cup {"unused"}, done : SUBSET Task,
             status : {"Running", "Succeeded", "Failed"},
             waiting : BOOLEAN, tries : 0..MaxTries]

Unused == [act |-> "create", by |-> "create", stage |-> "unused", done |-> {},
           status |-> "Running", waiting |-> FALSE, tries |-> MaxTries]

Created == {w \in Wfs : wf[w].stage # "unused"}

CallOf(at, phases) ==
    [wf : Wfs, task : {"set-phase", "exit"}, try : 1..MaxTries, at : {at}, phase : phases]

(* A failure that has been decided waits for its UPDATE.                    *)
Call == CallOf("arrived", Reported \cup {"Succeeded", "Failed"})
          \cup CallOf("decided", FailedTo \cup {"Failed"})

Idle == [op |-> "create", pc |-> "idle", row |-> NoRow, wf |-> NoWf]

Request == [op : Op, pc : {"idle", "reread", "launch", "write"},
            row : Rows \cup {NoRow}, wf : Wfs \cup {NoWf}]

TypeOK ==
    /\ rows \in [Rows -> Row]
    /\ req \in [Reqs -> Request]
    /\ wf \in [Wfs -> Workflow]
    /\ calls \in SUBSET Call
    /\ losses \in 0..MaxLosses

Init ==
    /\ rows = [r \in Rows |-> [phase |-> "Absent", started |-> FALSE,
                               paused |-> FALSE, terminated |-> FALSE]]
    /\ req = [q \in Reqs |-> Idle]
    /\ wf = [w \in Wfs |-> Unused]
    /\ calls = {}
    /\ losses = 0
-----------------------------------------------------------------------------
(* Requests.  Each starts by reading the row (GetWorkspace).                *)

Goto(q, pc) == req' = [req EXCEPT ![q].pc = pc]

Finish(q) == req' = [req EXCEPT ![q] = Idle]

(* CreateWorkspace goes on only when no live row has this uid. *)
CreateRead(q) ==
    /\ req[q].pc = "idle"
    /\ \A r \in Rows : ~Live(r)
    /\ req' = [req EXCEPT ![q] = [Idle EXCEPT !.op = "create", !.pc = "launch"]]
    /\ UNCHANGED <<rows, wf, calls, losses>>

(* UpdateWorkspace, PauseWorkspace, ResumeWorkspace, DeleteWorkspace and    *)
(* ArchiveWorkspace go on whatever the phase of the live row is.            *)
ActionRead(q, op) ==
    /\ req[q].pc = "idle"
    /\ \E r \in Rows :
        /\ Live(r)
        /\ req' = [req EXCEPT ![q] = [op |-> op, pc |-> "launch", row |-> r, wf |-> NoWf]]
    /\ UNCHANGED <<rows, wf, calls, losses>>

(* RetryLastWorkspaceAction chooses the action from the phase it reads.     *)
RetryOp(phase) ==
    CASE phase = "Failed to launch"    -> "start"
      [] phase = "Failed to pause"     -> "pause"
      [] phase = "Failed to resume"    -> "resume"
      [] phase = "Failed to terminate" -> "delete"
      [] phase = "Failed to update"    -> "update"

(* StartWorkspace keeps the row it was given; the others read it again.     *)
RetryRead(q) ==
    /\ req[q].pc = "idle"
    /\ \E r \in Rows :
        /\ Live(r)
        /\ rows[r].phase \in FailedTo
        /\ LET op == RetryOp(rows[r].phase) IN
            req' = [req EXCEPT ![q] =
                [op |-> op, pc |-> IF op = "start" THEN "launch" ELSE "reread",
                 row |-> r, wf |-> NoWf]]
    /\ UNCHANGED <<rows, wf, calls, losses>>

Reread(q) ==
    /\ req[q].pc = "reread"
    /\ IF \E r \in Rows : Live(r) THEN Goto(q, "launch") ELSE Finish(q)
    /\ UNCHANGED <<rows, wf, calls, losses>>

(* CreateWorkflowExecution: the workflow exists from here on. *)
LaunchWorkflow(q) ==
    /\ req[q].pc = "launch"
    /\ \E w \in Wfs \ Created :
        /\ wf' = [wf EXCEPT ![w] = [Unused EXCEPT !.act = ActOf(req[q].op),
                                                  !.by = req[q].op, !.stage = "routes"]]
        /\ req' = [req EXCEPT ![q].pc = "write", ![q].wf = w]
    /\ UNCHANGED <<rows, calls, losses>>

(* The INSERT of createWorkspace; the unique index may refuse it, and the   *)
(* workflow then stays without a row.                                       *)
InsertRow(q) ==
    /\ req[q].pc = "write"
    /\ req[q].op = "create"
    /\ \E r \in Rows :
        /\ rows[r].phase = "Absent"
        /\ IF IndexAllows(r)
           THEN rows' = [rows EXCEPT ![r] = [phase |-> "Launching", started |-> TRUE,
                                             paused |-> FALSE, terminated |-> FALSE]]
           ELSE rows' = rows
    /\ Finish(q)
    /\ UNCHANGED <<wf, calls, losses>>

(* The UPDATE of startWorkspace: by primary key, whatever the row is now.   *)
RestartRow(q) ==
    /\ req[q].pc = "write"
    /\ req[q].op = "start"
    /\ LET r == req[q].row IN
        IF IndexAllows(r)
        THEN rows' = [rows EXCEPT ![r].phase = "Launching", ![r].started = TRUE]
        ELSE rows' = rows
    /\ Finish(q)
    /\ UNCHANGED <<wf, calls, losses>>

(* The UPDATE of updateWorkspace: by uid; updating no row is not an error.  *)
WritePhase(q) ==
    /\ req[q].pc = "write"
    /\ req[q].op \notin {"create", "start"}
    /\ UpdateStatus(PhaseOf(req[q].op))
    /\ Finish(q)
    /\ UNCHANGED <<wf, calls, losses>>

(* A call the method makes returns an error or panics, or the server stops: *)
(* the method ends, and what it has done stays done.                        *)
Abort(q) ==
    /\ req[q].pc # "idle"
    /\ Finish(q)
    /\ UNCHANGED <<rows, wf, calls, losses>>
-----------------------------------------------------------------------------
(* Argo runs the DAG.  Tasks follow each other; a failed task omits all     *)
(* that depend on it, and the exit handler runs with status Failed.  What   *)
(* the tasks do to the cluster is in WorkspaceCluster.                      *)

Goes(w, to) ==
    wf' = [wf EXCEPT ![w].stage = to, ![w].tries = MaxTries,
                     ![w].done = @ \cup {wf[w].stage},
                     ![w].status = IF to = "exit" THEN "Succeeded" ELSE @]

Fails(w) ==
    wf' = [wf EXCEPT ![w].stage = "exit", ![w].tries = MaxTries, ![w].status = "Failed"]

TaskSucceeds(w) ==
    /\ wf[w].stage \in Resource
    /\ Goes(w, NextTask(wf[w].act, wf[w].stage))
    /\ UNCHANGED <<rows, req, calls, losses>>

TaskFails(w) ==
    /\ wf[w].stage \in Resource
    /\ Fails(w)
    /\ UNCHANGED <<rows, req, calls, losses>>

PostExecutionSucceeds(w) ==
    /\ wf[w].stage = "post-execution"
    /\ Goes(w, "exit")
    /\ UNCHANGED <<rows, req, calls, losses>>

PostExecutionFails(w) ==
    /\ wf[w].stage = "post-execution"
    /\ Fails(w)
    /\ UNCHANGED <<rows, req, calls, losses>>

(* curl PUT .../status, from the set-phase task and from the exit handler.  *)
SendCall(w) ==
    /\ wf[w].stage \in {"set-phase", "exit"}
    /\ ~wf[w].waiting
    /\ wf[w].tries > 0
    /\ wf' = [wf EXCEPT ![w].waiting = TRUE]
    /\ calls' = calls \cup
        {[wf |-> w, task |-> wf[w].stage, try |-> wf[w].tries, at |-> "arrived",
          phase |-> IF wf[w].stage = "exit" THEN wf[w].status
                                            ELSE TargetPhase(wf[w].act)]}
    /\ UNCHANGED <<rows, req, losses>>

(* After the last attempt the task fails; a failed exit handler is final.   *)
GiveUp(w) ==
    /\ wf[w].stage \in {"set-phase", "exit"}
    /\ ~wf[w].waiting
    /\ wf[w].tries = 0
    /\ IF wf[w].stage = "set-phase"
       THEN Fails(w)
       ELSE wf' = [wf EXCEPT ![w].stage = "done"]
    /\ UNCHANGED <<rows, req, calls, losses>>
-----------------------------------------------------------------------------
(* The server's UpdateWorkspaceStatus, and the answer curl waits for.       *)

Awaited(c) ==
    /\ wf[c.wf].waiting
    /\ wf[c.wf].stage = c.task
    /\ wf[c.wf].tries = c.try

Advanced(f) ==
    IF f.stage = "exit"
    THEN [f EXCEPT !.stage = "done", !.waiting = FALSE]
    ELSE LET to == NextTask(f.act, "set-phase") IN
         [f EXCEPT !.stage = to, !.waiting = FALSE, !.tries = MaxTries,
                   !.done = @ \cup {"set-phase"},
                   !.status = IF to = "exit" THEN "Succeeded" ELSE @]

TriedInVain(f) == [f EXCEPT !.waiting = FALSE, !.tries = @ - 1]

(* The answer reaches curl, or is lost on the way and curl tries again.     *)
AnswerErrorAfterWrite(c, ok) ==
    /\ wf' = IF Awaited(c) THEN [wf EXCEPT ![c.wf] = TriedInVain(@)] ELSE wf
    /\ UNCHANGED losses

Answer(c, ok) ==
    \/ /\ wf' = IF Awaited(c)
                THEN [wf EXCEPT ![c.wf] = IF ok THEN Advanced(@) ELSE TriedInVain(@)]
                ELSE wf
       /\ UNCHANGED losses
    \/ /\ Awaited(c)
       /\ losses < MaxLosses
       /\ losses' = losses + 1
       /\ wf' = [wf EXCEPT ![c.wf] = TriedInVain(@)]

(* "A succeeded status is passed in when a DAG succeeds": nothing to do.    *)
HandleSucceeded(c) ==
    /\ c.phase = "Succeeded"
    /\ calls' = calls \ {c}
    /\ Answer(c, TRUE)
    /\ UNCHANGED <<rows, req>>

SwappedFailurePhase(row) ==
    CASE row.phase \in {"Launching", "Updating"} -> "Failed to launch"
      [] row.phase = "Terminating"               -> "Failed to pause"
      [] row.phase = "Pausing"                   -> "Failed to terminate"
      [] OTHER                                   -> "Failed"

FailurePhase(row) ==
    CASE row.phase = "Launching" /\ ~row.paused -> "Failed to launch"
      [] row.phase = "Launching" /\ row.paused  -> "Failed to resume"
      [] row.phase = "Pausing"                  -> "Failed to pause"
      [] row.phase = "Terminating"              -> "Failed to terminate"
      [] row.phase = "Updating"                 -> "Failed to update"
      [] OTHER                                  -> "Failed"

(* Failed: the phase to write is decided from a row read beforehand; when   *)
(* there is no live row the handler panics and the call is answered 500.    *)
HandleFailed(c) ==
    /\ c.at = "arrived"
    /\ c.phase = "Failed"
    /\ \/ \E r \in Rows :
            /\ Live(r)
            /\ calls' = (calls \ {c}) \cup
                {[c EXCEPT !.at = "decided", !.phase = FailurePhase(rows[r])]}
            /\ UNCHANGED <<wf, losses>>
       \/ /\ \A r \in Rows : ~Live(r)
          /\ calls' = calls \ {c}
          /\ Answer(c, FALSE)
    /\ UNCHANGED <<rows, req>>

(* Every other phase is written as it came; no row updated is NotFound.     *)
HandlePhase(c) ==
    /\ c.at = "decided" \/ c.phase \in Reported
    /\ UpdateStatus(c.phase)
    /\ calls' = calls \ {c}
    /\ Answer(c, \E r \in Rows : Live(r))
    /\ UNCHANGED <<req>>

(* The call never arrives, or the server stops while handling it. *)
LoseCall(c) ==
    /\ losses < MaxLosses
    /\ losses' = losses + 1
    /\ calls' = calls \ {c}
    /\ wf' = IF Awaited(c) THEN [wf EXCEPT ![c.wf] = TriedInVain(@)] ELSE wf
    /\ UNCHANGED <<rows, req>>

(* The connection is cut; curl tries again while the server goes on.        *)
CutConnection(c) ==
    /\ losses < MaxLosses
    /\ Awaited(c)
    /\ losses' = losses + 1
    /\ wf' = [wf EXCEPT ![c.wf] = TriedInVain(@)]
    /\ UNCHANGED <<rows, req, calls>>
-----------------------------------------------------------------------------
RequestStep(q) ==
    \/ CreateRead(q)
    \/ \E op \in Actions : ActionRead(q, op)
    \/ RetryRead(q)
    \/ Reread(q)
    \/ LaunchWorkflow(q)
    \/ InsertRow(q)
    \/ RestartRow(q)
    \/ WritePhase(q)
    \/ Abort(q)

WorkflowStep(w) ==
    \/ TaskSucceeds(w)
    \/ TaskFails(w)
    \/ PostExecutionSucceeds(w)
    \/ PostExecutionFails(w)
    \/ SendCall(w)
    \/ GiveUp(w)

CallStep(c) ==
    \/ HandleSucceeded(c)
    \/ HandleFailed(c)
    \/ HandlePhase(c)
    \/ LoseCall(c)
    \/ CutConnection(c)

Next ==
    \/ \E q \in Reqs : RequestStep(q)
    \/ \E w \in Wfs : WorkflowStep(w)
    \/ \E c \in calls : CallStep(c)

Spec == Init /\ [][Next]_vars
-----------------------------------------------------------------------------
(* Properties of every interleaving.                                        *)

(* The table never holds two live rows of one uid, although CreateWorkspace *)
(* checks and inserts in two steps and a retry by primary key may bring a   *)
(* terminated row back to life.                                             *)
AtMostOneLive == \A r, s \in Rows : Live(r) /\ Live(s) => r = s

Performed(acts, tasks) ==
    \E w \in Created : wf[w].act \in acts /\ tasks \subseteq wf[w].done

(* A phase is never ahead of the work it stands for: a transitional phase   *)
(* has a workflow that was started for it, Running, Paused and Terminated   *)
(* have one that carried out every resource task of its action.             *)
PhaseHasWorkflow ==
    \A r \in Rows :
        LET phase == rows[r].phase IN
        /\ phase = "Launching"   => Performed({"create"}, {})
        /\ phase = "Updating"    => Performed({"update"}, {})
        /\ phase = "Pausing"     => Performed({"pause"}, {})
        /\ phase = "Terminating" => Performed({"delete"}, {})
        /\ phase = "Running"     => Performed({"create", "update"}, Resource \ {"pvc"})
        /\ phase = "Paused"      => Performed({"pause"}, Resource \ {"pvc"})
        /\ phase = "Terminated"  => Performed({"delete"}, Resource)

(* A failure phase names an action that was started, and is only recorded   *)
(* once some workflow of the workspace has failed, however late the call    *)
(* that records it is handled.                                              *)
FailureHasWorkflow ==
    \A r \in Rows :
        LET phase == rows[r].phase IN
        /\ phase \in FailedTo \cup {"Failed"} => \E w \in Created : wf[w].status = "Failed"
        /\ phase \in {"Failed to launch", "Failed to resume"} => Performed({"create"}, {})
        /\ phase = "Failed to update"    => Performed({"update"}, {})
        /\ phase = "Failed to pause"     => Performed({"pause"}, {})
        /\ phase = "Failed to terminate" => Performed({"delete"}, {})

(* Whatever phase a user reads, good or bad, some workflow that was started *)
(* for the workspace has earned it, in spite of overlapping requests, lost  *)
(* calls and calls that reach the successor of a terminated workspace.      *)
PhasesEarned == PhaseHasWorkflow /\ FailureHasWorkflow

(* A resume that fails is never what records "Failed to resume": the phase  *)
(* needs a retried launch that raced a pause, since the write that resumes  *)
(* a workspace also clears the paused_at it would be recognised by.         *)
ResumeFailureNeedsRestart ==
    \A r \in Rows :
        rows[r].phase = "Failed to resume" =>
            \E w, v \in Created : wf[w].by = "start" /\ wf[v].by = "pause"

(* Only a repeated failure turns a phase that RetryLastWorkspaceAction       *)
(* understands into the bare "Failed", which it refuses: the exit handler's  *)
(* call handled twice because an answer was lost, or a second workflow.      *)
FailureOverwrittenOnlyByAnother ==
    [][\A r \in Rows :
        rows[r].phase \in FailedTo /\ rows'[r].phase = "Failed" =>
            \/ losses > 0
            \/ \E w, v \in Created :
                w # v /\ wf[w].status = "Failed" /\ wf[v].status = "Failed"]_vars

(* A terminated row stays as it is, whatever calls and requests are still   *)
(* under way, but for the one writer that addresses it by primary key: the  *)
(* retry of a failed launch that was read before the row was terminated.    *)
OnlyRestartRevives ==
    [][\A r \in Rows :
        rows[r].phase = "Terminated" /\ rows'[r] # rows[r] =>
            \E q \in Reqs : RestartRow(q) /\ req[q].row = r]_vars

(* Nothing is under way: no request, no workflow, no call. *)
Quiet ==
    /\ \A q \in Reqs : req[q].pc = "idle"
    /\ \A w \in Wfs : wf[w].stage \in {"unused", "done"}
    /\ calls = {}

(* What the code says of a Succeeded status: "We don't need to do anything  *)
(* in this case".  Then, once every workflow has succeeded and nothing is   *)
(* under way or was ever lost, no workspace waits in a transitional phase.  *)
SucceededNeedsNothing ==
    Quiet /\ losses = 0 /\ (\A w \in Created : wf[w].status = "Succeeded") =>
        \A r \in Rows : rows[r].phase \notin Transitional
-----------------------------------------------------------------------------
(* The inductive invariant behind these properties: what the two steps of   *)
(* a request, a workflow's progress and a call in flight say of each other. *)

Prepared(f) ==
    /\ {"routes", "stateful-set"} \subseteq f.done
    /\ f.act = "delete" => "pvc" \in f.done

(* A request about to write the row has started the workflow it writes for. *)
RequestInv ==
    \A q \in Reqs :
        /\ req[q].pc = "write" =>
            /\ req[q].wf \in Created
            /\ wf[req[q].wf].act = ActOf(req[q].op)
            /\ wf[req[q].wf].by = req[q].op
        /\ req[q].op = "start" => req[q].row \in Rows

(* A workflow reports a phase only after the resource tasks of its action.  *)
WorkflowInv ==
    \A w \in Created :
        /\ wf[w].stage = "stateful-set" => "routes" \in wf[w].done
        /\ wf[w].stage = "pvc" => {"routes", "stateful-set"} \subseteq wf[w].done
        /\ wf[w].stage = "set-phase" => Prepared(wf[w])
        /\ wf[w].status # "Running" <=> wf[w].stage \in {"exit", "done"}

Excused(phase) ==
    /\ phase \in {"Failed to launch", "Failed to resume"} => Performed({"create"}, {})
    /\ phase = "Failed to update"    => Performed({"update"}, {})
    /\ phase = "Failed to pause"     => Performed({"pause"}, {})
    /\ phase = "Failed to terminate" => Performed({"delete"}, {})
    /\ phase = "Failed to resume" =>
        \E w, v \in Created : wf[w].by = "start" /\ wf[v].by = "pause"

(* A call carries what its workflow has done, or a failure that happened.   *)
CallInv ==
    \A c \in calls :
        /\ c.wf \in Created
        /\ c.phase \in Reported =>
            c.phase = TargetPhase(wf[c.wf].act) /\ Prepared(wf[c.wf])
        /\ c.phase \in FailedTo \cup {"Failed"} => wf[c.wf].status = "Failed"
        /\ Excused(c.phase)

(* Only a pause sets paused_at, and only a restart keeps it while launching.*)
RowInv ==
    \A r \in Rows :
        /\ Excused(rows[r].phase)
        /\ rows[r].paused => \E w \in Created : wf[w].by = "pause"
        /\ rows[r].paused /\ rows[r].phase = "Launching" =>
            \E w \in Created : wf[w].by = "start"

IInv ==
    /\ TypeOK
    /\ AtMostOneLive
    /\ RequestInv
    /\ WorkflowInv
    /\ CallInv
    /\ RowInv
    /\ PhaseHasWorkflow
    /\ FailureHasWorkflow
=============================================================================
