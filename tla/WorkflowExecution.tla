-------------------------- MODULE WorkflowExecution --------------------------
(***************************************************************************)
(* The rows of workflow_executions, the Argo workflows they stand for, the *)
(* requests that create, terminate, archive and resubmit them, and the     *)
(* calls by which workflows report that they have started and finished.    *)
(*                                                                         *)
(* A row and its workflow are two objects in two stores: requests change   *)
(* one and then the other, workflows report by name, cron workflows insert *)
(* their own row, and the statements that record what is reported do not   *)
(* all carry the same guards.                                              *)
(***************************************************************************)
EXTENDS Naturals, FiniteSets

CONSTANTS
    Namespaces,
    Names,          \* names of executions: the unique uid of a row
    Wfs,            \* Argo workflows; bounds how many are made
    Reqs,           \* request handlers the server runs at the same time
    Origins,        \* how workflows come about: "request", "cron", "resubmit"
    None,           \* no namespace, no name
    MaxTries,       \* attempts curl makes at one call
    MaxLosses       \* bound on lost calls, lost answers and cut connections

ASSUME ExecutionAssumption ==
    /\ None \notin Namespaces \cup Names
    /\ Origins \subseteq {"request", "cron", "resubmit"}
    /\ MaxTries \in Nat \ {0}
    /\ MaxLosses \in Nat

VARIABLES
    row,      \* the table: uid -> record; phase "Absent" before the INSERT
    wf,       \* Argo's workflows, deleted ones included
    req,      \* request handler -> the second half of its method, if any
    calls,    \* calls on the wire or being handled by the server
    losses    \* how many losses have happened (a bound, not program state)

vars == <<row, wf, req, calls, losses>>
-----------------------------------------------------------------------------
Phase == {"Pending", "Running", "Succeeded", "Failed", "Terminated"}

Row == [phase : Phase \cup {"Absent"}, ns : Namespaces \cup {None}, archived : BOOLEAN]

Absent == [phase |-> "Absent", ns |-> None, archived |-> FALSE]

Stored(n) == row[n].phase # "Absent"

(* "start" is the injected first task, "work" the template's own, "exit"    *)
(* the exit handler.  The first call of a workflow updates its row, or, for *)
(* the runs of a cron workflow, inserts it.                                 *)
Workflow == [name : Names \cup {None}, ns : Namespaces \cup {None},
             first : {"update", "insert"},
             stage : {"unused", "start", "work", "exit", "done", "deleted"},
             status : {"Running", "Succeeded", "Failed", "Error"},
             stopped : BOOLEAN, waiting : BOOLEAN, tries : 0..MaxTries]

Unused == [name |-> None, ns |-> None, first |-> "update", stage |-> "unused",
           status |-> "Running", stopped |-> FALSE, waiting |-> FALSE, tries |-> MaxTries]

Created == {w \in Wfs : wf[w].stage # "unused"}

(* The Argo workflow of this name, if it has not been deleted. *)
Present(ns, n) ==
    {w \in Created : wf[w].ns = ns /\ wf[w].name = n /\ wf[w].stage # "deleted"}

Call == [wf : Wfs, task : {"start", "exit"}, try : 1..MaxTries, at : {"arrived", "found"}]

Idle == [pc |-> "idle", ns |-> None, name |-> None]

Request == [pc : {"idle", "insert", "stop", "delete"}, ns : Namespaces \cup {None},
            name : Names \cup {None}]

TypeOK ==
    /\ row \in [Names -> Row]
    /\ wf \in [Wfs -> Workflow]
    /\ req \in [Reqs -> Request]
    /\ calls \in SUBSET Call
    /\ losses \in 0..MaxLosses

Init ==
    /\ row = [n \in Names |-> Absent]
    /\ wf = [w \in Wfs |-> Unused]
    /\ req = [q \in Reqs |-> Idle]
    /\ calls = {}
    /\ losses = 0
-----------------------------------------------------------------------------
(* Requests.                                                                *)

Launch(first, ns, n) ==
    \E w \in Wfs \ Created :
        wf' = [wf EXCEPT ![w] = [Unused EXCEPT !.name = n, !.ns = ns,
                                               !.first = first, !.stage = "start"]]

Continue(q, pc, ns, n) == req' = [req EXCEPT ![q] = [pc |-> pc, ns |-> ns, name |-> n]]

Finish(q) == req' = [req EXCEPT ![q] = Idle]

(* No row and no workflow has had this name: what Argo generates. *)
Fresh(n) == ~Stored(n) /\ \A w \in Created : wf[w].name # n

(* createWorkflow: Argo refuses a name it has in this namespace. *)
CreateArgo(q) ==
    /\ "request" \in Origins
    /\ req[q].pc = "idle"
    /\ \E ns \in Namespaces, n \in Names :
        /\ Present(ns, n) = {}
        /\ Launch("update", ns, n)
        /\ Continue(q, "insert", ns, n)
    /\ UNCHANGED <<row, calls, losses>>

(* createWorkflowExecutionDB: the uid is unique over all namespaces; when   *)
(* it is taken the workflow stays without a row of its own.                 *)
InsertRow(q) ==
    /\ req[q].pc = "insert"
    /\ row' = IF Stored(req[q].name) THEN row
              ELSE [row EXCEPT ![req[q].name] =
                        [Absent EXCEPT !.phase = "Pending", !.ns = req[q].ns]]
    /\ Finish(q)
    /\ UNCHANGED <<wf, calls, losses>>

(* An UPDATE ... WHERE uid AND namespace. *)
Matches(ns, n) == Stored(n) /\ row[n].ns = ns

(* What a user can see, of either store. *)
Known(ns, n) == Matches(ns, n) \/ Present(ns, n) # {}

(* TerminateWorkflowExecution: first the row, whatever its phase is ...     *)
MarkTerminated(q) ==
    /\ req[q].pc = "idle"
    /\ \E ns \in Namespaces, n \in Names :
        /\ Known(ns, n)
        /\ row' = IF Matches(ns, n)
                  THEN [row EXCEPT ![n].phase = "Terminated"] ELSE row
        /\ Continue(q, "stop", ns, n)
    /\ UNCHANGED <<wf, calls, losses>>

(* ... then the workflow: Argo fails what is running and goes to the exit   *)
(* handler.                                                                 *)
StopArgo(q) ==
    /\ req[q].pc = "stop"
    /\ wf' = [w \in Wfs |->
                IF w \in Present(req[q].ns, req[q].name) /\ wf[w].stage \in {"start", "work"}
                THEN [wf[w] EXCEPT !.stopped = TRUE] ELSE wf[w]]
    /\ Finish(q)
    /\ UNCHANGED <<row, calls, losses>>

(* ArchiveWorkflowExecution, from archiving a template or ending a cron     *)
(* workflow: first the row, then the workflow; "not found" is no error.     *)
MarkArchived(q) ==
    /\ req[q].pc = "idle"
    /\ \E ns \in Namespaces, n \in Names :
        /\ Stored(n) /\ Known(ns, n)
        /\ row' = IF Matches(ns, n) THEN [row EXCEPT ![n].archived = TRUE] ELSE row
        /\ Continue(q, "delete", ns, n)
    /\ UNCHANGED <<wf, calls, losses>>

DeleteArgo(q) ==
    /\ req[q].pc = "delete"
    /\ wf' = [w \in Wfs |-> IF w \in Present(req[q].ns, req[q].name)
                            THEN [wf[w] EXCEPT !.stage = "deleted", !.waiting = FALSE]
                            ELSE wf[w]]
    /\ Finish(q)
    /\ UNCHANGED <<row, calls, losses>>

(* ResubmitWorkflowExecution makes a workflow like w, and no row.           *)
Resubmit(q) ==
    /\ "resubmit" \in Origins
    /\ req[q].pc = "idle"
    /\ \E w \in Created, n \in Names :
        /\ wf[w].stage # "deleted"
        /\ Fresh(n)
        /\ Launch(wf[w].first, wf[w].ns, n)
    /\ UNCHANGED <<row, req, calls, losses>>

(* The second half of the method fails, or the server stops before it.      *)
Abort(q) ==
    /\ req[q].pc # "idle"
    /\ Finish(q)
    /\ UNCHANGED <<row, wf, calls, losses>>
-----------------------------------------------------------------------------
(* Argo.                                                                    *)

(* A cron workflow is due. *)
CronRun ==
    /\ "cron" \in Origins
    /\ \E ns \in Namespaces, n \in Names : Fresh(n) /\ Launch("insert", ns, n)
    /\ UNCHANGED <<row, req, calls, losses>>

Fails(w) ==
    \E status \in {"Failed", "Error"} :
        wf' = [wf EXCEPT ![w].stage = "exit", ![w].status = status,
                         ![w].waiting = FALSE, ![w].tries = MaxTries]

WorkSucceeds(w) ==
    /\ wf[w].stage = "work"
    /\ ~wf[w].stopped
    /\ wf' = [wf EXCEPT ![w].stage = "exit", ![w].status = "Succeeded"]
    /\ UNCHANGED <<row, req, calls, losses>>

WorkFails(w) ==
    /\ \/ wf[w].stage = "work"
       \/ wf[w].stage = "start" /\ wf[w].stopped
    /\ Fails(w)
    /\ UNCHANGED <<row, req, calls, losses>>

(* curl that never gives up, wrongly. *)
SendUntilAnswered(w) ==
    /\ wf[w].stage \in {"start", "exit"}
    /\ ~wf[w].waiting
    /\ wf' = [wf EXCEPT ![w].waiting = TRUE]
    /\ calls' = calls \cup
        {[wf |-> w, task |-> wf[w].stage, try |-> wf[w].tries, at |-> "arrived"]}
    /\ UNCHANGED <<row, req, losses>>

(* curl from sys-send-status, sys-send-init-stats or sys-send-exit-stats.   *)
SendCall(w) ==
    /\ wf[w].stage \in {"start", "exit"}
    /\ ~wf[w].waiting
    /\ wf[w].tries > 0
    /\ wf' = [wf EXCEPT ![w].waiting = TRUE]
    /\ calls' = calls \cup
        {[wf |-> w, task |-> wf[w].stage, try |-> wf[w].tries, at |-> "arrived"]}
    /\ UNCHANGED <<row, req, losses>>

GiveUp(w) ==
    /\ wf[w].stage \in {"start", "exit"}
    /\ ~wf[w].waiting
    /\ wf[w].tries = 0
    /\ IF wf[w].stage = "start" THEN Fails(w)
       ELSE wf' = [wf EXCEPT ![w].stage = "done"]
    /\ UNCHANGED <<row, req, calls, losses>>
-----------------------------------------------------------------------------
(* The server's handlers of these calls.                                    *)

Awaited(c) ==
    /\ wf[c.wf].waiting
    /\ wf[c.wf].stage = c.task
    /\ wf[c.wf].tries = c.try

Advanced(f) ==
    [f EXCEPT !.stage = IF @ = "start" THEN "work" ELSE "done",
              !.waiting = FALSE, !.tries = MaxTries]

TriedInVain(f) == [f EXCEPT !.waiting = FALSE, !.tries = @ - 1]

(* The answer reaches curl, or is lost on the way and curl tries again.     *)
Answer(c, ok) ==
    \/ /\ wf' = IF Awaited(c)
                THEN [wf EXCEPT ![c.wf] = IF ok THEN Advanced(@) ELSE TriedInVain(@)]
                ELSE wf
       /\ UNCHANGED losses
    \/ /\ Awaited(c)
       /\ losses < MaxLosses
       /\ losses' = losses + 1
       /\ wf' = [wf EXCEPT ![c.wf] = TriedInVain(@)]

(* Updating no row as an error, wrongly. *)
RunningNeedsRow(c) ==
    LET n == wf[c.wf].name IN
    /\ c.task = "start"
    /\ wf[c.wf].first = "update"
    /\ row' = IF Matches(wf[c.wf].ns, n)
              THEN [row EXCEPT ![n].phase = "Running"] ELSE row
    /\ calls' = calls \ {c}
    /\ Answer(c, Matches(wf[c.wf].ns, n))
    /\ UNCHANGED req

(* UpdateWorkflowExecutionStatus with Running: no guard on the phase, and   *)
(* updating no row is no error.                                             *)
HandleRunning(c) ==
    LET n == wf[c.wf].name IN
    /\ c.task = "start"
    /\ wf[c.wf].first = "update"
    /\ row' = IF Matches(wf[c.wf].ns, n)
              THEN [row EXCEPT ![n].phase = "Running"] ELSE row
    /\ calls' = calls \ {c}
    /\ Answer(c, TRUE)
    /\ UNCHANGED req

(* CronStartWorkflowExecutionStatisticInsert: an INSERT, refused when the   *)
(* row exists; the cron workflow it belongs to may be gone as well.         *)
HandleCronStart(c) ==
    LET n == wf[c.wf].name IN
    /\ c.task = "start"
    /\ wf[c.wf].first = "insert"
    /\ calls' = calls \ {c}
    /\ \/ /\ ~Stored(n)
          /\ row' = [row EXCEPT ![n] = [Absent EXCEPT !.phase = "Running",
                                                      !.ns = wf[c.wf].ns]]
          /\ Answer(c, TRUE)
       \/ /\ Answer(c, FALSE)
          /\ UNCHANGED row
    /\ UNCHANGED req

(* AddWorkflowExecutionStatistics first looks the workflow up in Argo ...   *)
HandleExit(c) ==
    /\ c.task = "exit"
    /\ c.at = "arrived"
    /\ IF Present(wf[c.wf].ns, wf[c.wf].name) # {}
       THEN /\ calls' = (calls \ {c}) \cup {[c EXCEPT !.at = "found"]}
            /\ UNCHANGED <<wf, losses>>
       ELSE /\ calls' = calls \ {c}
            /\ Answer(c, FALSE)
    /\ UNCHANGED <<row, req>>

(* Three mistakes: an error taken for a success, no guard, no name.         *)
Optimistic(status) == IF status = "Failed" THEN "Failed" ELSE "Succeeded"

Outcome(status) == IF status = "Succeeded" THEN "Succeeded" ELSE "Failed"

Finished(r, w) ==
    [r EXCEPT !.phase = Outcome(wf[w].status), !.ns = wf[w].ns]

(* ... and then updates by name only, sparing what has been terminated.     *)
FinishUnguarded(w) ==
    row' = [n \in Names |->
                IF Stored(n) /\ n = wf[w].name THEN Finished(row[n], w) ELSE row[n]]

FinishEveryName(w) ==
    row' = [n \in Names |->
                IF Stored(n) /\ row[n].phase # "Terminated" THEN Finished(row[n], w) ELSE row[n]]

FinishRow(w) ==
    row' = [n \in Names |->
                IF Stored(n) /\ n = wf[w].name /\ row[n].phase # "Terminated"
                THEN Finished(row[n], w) ELSE row[n]]

HandleFound(c) ==
    /\ c.at = "found"
    /\ FinishRow(c.wf)
    /\ calls' = calls \ {c}
    /\ Answer(c, TRUE)
    /\ UNCHANGED req

(* The call never arrives, or the server stops while handling it. *)
LoseCall(c) ==
    /\ losses < MaxLosses
    /\ losses' = losses + 1
    /\ calls' = calls \ {c}
    /\ wf' = IF Awaited(c) THEN [wf EXCEPT ![c.wf] = TriedInVain(@)] ELSE wf
    /\ UNCHANGED <<row, req>>

(* The connection is cut; curl tries again while the server goes on.        *)
CutConnection(c) ==
    /\ losses < MaxLosses
    /\ Awaited(c)
    /\ losses' = losses + 1
    /\ wf' = [wf EXCEPT ![c.wf] = TriedInVain(@)]
    /\ UNCHANGED <<row, req, calls>>
-----------------------------------------------------------------------------
RequestStep(q) ==
    \/ CreateArgo(q)
    \/ InsertRow(q)
    \/ MarkTerminated(q)
    \/ StopArgo(q)
    \/ MarkArchived(q)
    \/ DeleteArgo(q)
    \/ Resubmit(q)
    \/ Abort(q)

WorkflowStep(w) ==
    \/ WorkSucceeds(w)
    \/ WorkFails(w)
    \/ SendCall(w)
    \/ GiveUp(w)

CallStep(c) ==
    \/ HandleRunning(c)
    \/ HandleCronStart(c)
    \/ HandleExit(c)
    \/ HandleFound(c)
    \/ LoseCall(c)
    \/ CutConnection(c)

Next ==
    \/ \E q \in Reqs : RequestStep(q)
    \/ CronRun
    \/ \E w \in Wfs : WorkflowStep(w)
    \/ \E c \in calls : CallStep(c)

Spec == Init /\ [][Next]_vars
-----------------------------------------------------------------------------
(* A row never says more than a workflow of its name, in the namespace it   *)
(* is listed under, has done: it exists only after that workflow, and is    *)
(* Succeeded or Failed only if that workflow has ended so.                  *)
RowFollowsWorkflow ==
    \A n \in Names : Stored(n) =>
        \E w \in Created :
            /\ wf[w].name = n /\ wf[w].ns = row[n].ns
            /\ row[n].phase = "Succeeded" => wf[w].status = "Succeeded"
            /\ row[n].phase = "Failed" => wf[w].status \in {"Failed", "Error"}

(* The update by name only of a finished workflow takes a row away from its *)
(* namespace; but never when only one namespace has used that name.         *)
OnlyNamesakesMoveRows ==
    [][\A n \in Names :
        Stored(n) /\ row'[n].ns # row[n].ns =>
            \E w, v \in Created :
                wf[w].name = n /\ wf[v].name = n /\ wf[w].ns # wf[v].ns]_vars

(* Nothing but a workflow's report that it has started changes a row that   *)
(* was marked terminated, however many reports that it has ended follow.    *)
OnlyStartOverwritesTerminated ==
    [][\A n \in Names :
        row[n].phase = "Terminated" /\ row'[n].phase # "Terminated" =>
            /\ row'[n].phase = "Running"
            /\ \E c \in calls : c.task = "start" /\ wf[c.wf].name = n /\ c \notin calls']_vars

(* A workflow that is there gives up a call only when as many losses have   *)
(* happened as it has attempts: nothing the server answers uses them up,    *)
(* row or no row.  The first call of a cron run is the exception: its       *)
(* INSERT is refused when it is repeated.                                   *)
RetriesAbsorbLosses ==
    [][\A w \in Wfs :
        GiveUp(w) /\ ~(wf[w].stage = "start" /\ wf[w].first = "insert") =>
            losses >= MaxTries]_vars

Quiet ==
    /\ \A q \in Reqs : req[q].pc = "idle"
    /\ \A w \in Wfs : wf[w].stage \in {"unused", "done", "deleted"}
    /\ calls = {}

(* Once nothing is under way and if nothing was lost, a row shows how its   *)
(* workflow ended, unless it was terminated or inserted after the last call.*)
QuietAgrees ==
    Quiet /\ losses = 0 =>
        \A w \in Created :
            LET n == wf[w].name IN
            /\ wf[w].stage = "done" /\ ~wf[w].stopped
            /\ \A v \in Created \ {w} : wf[v].name # n
            /\ row[n].phase \notin {"Absent", "Pending", "Terminated"}
            => row[n].phase = Outcome(wf[w].status)

(* "marks a workflows execution as terminated in DB": the mark stays.       *)
TerminateMarks ==
    [][\A n \in Names : row[n].phase = "Terminated" => row'[n].phase = "Terminated"]_vars
-----------------------------------------------------------------------------
(* The inductive invariant behind RowFollowsWorkflow: what a request that   *)
(* is about to insert, and a call that reports an end, rest on.             *)

RequestInv ==
    \A q \in Reqs : req[q].pc = "insert" =>
        \E w \in Created : wf[w].name = req[q].name /\ wf[w].ns = req[q].ns

WorkflowInv ==
    \A w \in Created :
        /\ wf[w].name \in Names /\ wf[w].ns \in Namespaces
        /\ wf[w].stage \in {"exit", "done"} => wf[w].status # "Running"
        /\ wf[w].stage \in {"start", "work"} => wf[w].status = "Running"

CallInv ==
    \A c \in calls :
        /\ c.wf \in Created
        /\ c.at = "found" => c.task = "exit"
        /\ c.task = "exit" => wf[c.wf].status # "Running"

(* An attempt is used up by a loss, in every task but a cron run's first.   *)
TriesInv ==
    \A w \in Created :
        \/ wf[w].stage \in {"work", "exit"}
        \/ wf[w].stage = "start" /\ wf[w].first = "update"
        => MaxTries <= wf[w].tries + losses

IInv ==
    /\ TypeOK
    /\ RequestInv
    /\ WorkflowInv
    /\ CallInv
    /\ TriesInv
    /\ RowFollowsWorkflow
=============================================================================
