------------------------------ MODULE CronWorkflow ------------------------------
(***************************************************************************)
(* Cron workflows: the row in PostgreSQL, the cron workflow in Argo that   *)
(* starts runs by the clock, the row of each run, and the workflow         *)
(* templates they hang on (pkg/cron_workflow.go, and the parts of          *)
(* pkg/workflow_template.go and pkg/workflow_execution.go that touch them).*)
(***************************************************************************)
EXTENDS Naturals, FiniteSets

CONSTANTS
    Crons,              \* cron workflows that may come to exist; Argo gives fresh names
    CronTemplates,      \* workflow templates, live at first
    Schedules,          \* what a manifest says
    CronRuns,           \* workflows that crons may start
    CronHandlers,       \* request goroutines
    MaxCronWrites,      \* bound: updates of cron workflows
    MaxCronFaults,      \* bound: requests that fail or die half way
    NoCron, NoTemplate, NoSchedule

ASSUME CronAssumption ==
    /\ {MaxCronWrites, MaxCronFaults} \subseteq Nat
    /\ NoCron \notin Crons /\ NoTemplate \notin CronTemplates /\ NoSchedule \notin Schedules

VARIABLES
    cronRow,        \* cronRow[c] = [state, manifest]
    cronArgo,       \* cronArgo[c] = [there, manifest, write]: write is the resource version
    cronOf,         \* cronOf[c]: its template, once it is asked for
    cronTemplate,   \* cronTemplate[t]: not archived
    cronRun,        \* cronRun[i] = [by, state, cron, late]: the run's starter and its row's
                    \* cron; late is history: the row came when that cron's runs were listed
    cronReq,        \* the request each handler serves
    cronWrites,
    cronFaults,
    cronMixed       \* history: templates two requests of which have overlapped

cronVars == <<cronRow, cronArgo, cronOf, cronTemplate, cronRun, cronReq, cronWrites, cronFaults, cronMixed>>

CronIdle == [op |-> "idle", step |-> "idle", template |-> NoTemplate, cron |-> NoCron, row |-> NoCron,
             schedule |-> NoSchedule, write |-> 0, todo |-> {}]

CronInit ==
    /\ cronRow = [c \in Crons |-> [state |-> "None", manifest |-> NoSchedule]]
    /\ cronArgo = [c \in Crons |-> [there |-> FALSE, manifest |-> NoSchedule, write |-> 0]]
    /\ cronOf = [c \in Crons |-> NoTemplate]
    /\ cronTemplate = [t \in CronTemplates |-> TRUE]
    /\ cronRun = [i \in CronRuns |-> [by |-> NoCron, state |-> "None", cron |-> NoCron, late |-> FALSE]]
    /\ cronReq = [h \in CronHandlers |-> CronIdle]
    /\ cronWrites = 0
    /\ cronFaults = 0
    /\ cronMixed = {}

(* The crons of a template that its queries select.                         *)
LiveCrons(t) == {c \in Crons : cronOf[c] = t /\ cronRow[c].state = "Live"}

CronAt(h, op, step) == cronReq[h].op = op /\ cronReq[h].step = step
CronMove(h, step) == cronReq' = [cronReq EXCEPT ![h].step = step]
CronDone(h) == cronReq' = [cronReq EXCEPT ![h] = CronIdle]
CronQuiet(t) == \A h \in CronHandlers : cronReq[h].template # t

CronStart(h, r) ==
    /\ cronReq[h] = CronIdle
    /\ cronReq' = [cronReq EXCEPT ![h] = r]
    /\ cronMixed' = IF CronQuiet(r.template) THEN cronMixed ELSE cronMixed \cup {r.template}

Keep(c, s) == cronRow' = [cronRow EXCEPT ![c].state = s]
----------------------------------------------------------------------------
(* CreateCronWorkflow: Argo first, then the row.                            *)

AskCron(h, c, t, s) ==
    /\ cronOf[c] = NoTemplate
    /\ cronTemplate[t]
    /\ CronStart(h, [CronIdle EXCEPT !.op = "create", !.step = "argo", !.template = t, !.cron = c, !.schedule = s])
    /\ cronOf' = [cronOf EXCEPT ![c] = t]
    /\ UNCHANGED <<cronRow, cronArgo, cronTemplate, cronRun, cronWrites, cronFaults>>

CreateArgoCron(h) ==
    /\ CronAt(h, "create", "argo")
    /\ cronArgo' = [cronArgo EXCEPT ![cronReq[h].cron] =
                      [there |-> TRUE, manifest |-> cronReq[h].schedule, write |-> 0]]
    /\ CronMove(h, "row")
    /\ UNCHANGED <<cronRow, cronOf, cronTemplate, cronRun, cronWrites, cronFaults, cronMixed>>

InsertCron(h) ==
    /\ CronAt(h, "create", "row")
    /\ cronRow' = [cronRow EXCEPT ![cronReq[h].cron] = [state |-> "Live", manifest |-> cronReq[h].schedule]]
    /\ CronDone(h)
    /\ UNCHANGED <<cronArgo, cronOf, cronTemplate, cronRun, cronWrites, cronFaults, cronMixed>>
----------------------------------------------------------------------------
(* UpdateCronWorkflow.  The row it will write is the first the database     *)
(* finds for the template, which is any of them.                            *)

FindCronRow(h, c, s) ==
    /\ cronWrites < MaxCronWrites
    /\ cronRow[c].state # "None"
    /\ \E d \in LiveCrons(cronOf[c]) :
         CronStart(h, [CronIdle EXCEPT !.op = "update", !.step = "get", !.template = cronOf[c],
                                       !.cron = c, !.row = d, !.schedule = s])
    /\ cronWrites' = cronWrites + 1
    /\ UNCHANGED <<cronRow, cronArgo, cronOf, cronTemplate, cronRun, cronFaults>>

GetArgoCron(h) ==
    /\ CronAt(h, "update", "get")
    /\ LET c == cronReq[h].cron IN
       IF cronArgo[c].there /\ cronTemplate[cronOf[c]]
       THEN cronReq' = [cronReq EXCEPT ![h].step = "put", ![h].write = cronArgo[c].write]
       ELSE CronDone(h)
    /\ UNCHANGED <<cronRow, cronArgo, cronOf, cronTemplate, cronRun, cronWrites, cronFaults, cronMixed>>

(* For contrast: the row keeps the manifest it had.                         *)
PutAndDone(h) ==
    /\ CronAt(h, "update", "put")
    /\ LET c == cronReq[h].cron IN
       IF cronArgo[c].there /\ cronArgo[c].write = cronReq[h].write
       THEN cronArgo' = [cronArgo EXCEPT ![c] = [there |-> TRUE, manifest |-> cronReq[h].schedule,
                                                write |-> cronReq[h].write + 1]]
       ELSE UNCHANGED cronArgo
    /\ CronDone(h)
    /\ UNCHANGED <<cronRow, cronOf, cronTemplate, cronRun, cronWrites, cronFaults, cronMixed>>

(* The Update is refused if the object has changed since it was read.       *)
PutArgoCron(h) ==
    /\ CronAt(h, "update", "put")
    /\ LET c == cronReq[h].cron IN
       IF cronArgo[c].there /\ cronArgo[c].write = cronReq[h].write
       THEN /\ cronArgo' = [cronArgo EXCEPT ![c] = [there |-> TRUE, manifest |-> cronReq[h].schedule,
                                                   write |-> cronReq[h].write + 1]]
            /\ CronMove(h, "row")
       ELSE CronDone(h) /\ UNCHANGED cronArgo
    /\ UNCHANGED <<cronRow, cronOf, cronTemplate, cronRun, cronWrites, cronFaults, cronMixed>>

WriteCronRow(h) ==
    /\ CronAt(h, "update", "row")
    /\ cronRow' = [cronRow EXCEPT ![cronReq[h].row].manifest = cronReq[h].schedule]
    /\ CronDone(h)
    /\ UNCHANGED <<cronArgo, cronOf, cronTemplate, cronRun, cronWrites, cronFaults, cronMixed>>
----------------------------------------------------------------------------
(* TerminateCronWorkflow, what the server's delete calls.                   *)

DeleteCron(h, c) ==
    /\ cronRow[c].state # "None"
    /\ CronStart(h, [CronIdle EXCEPT !.op = "terminate", !.step = "find", !.template = cronOf[c], !.cron = c])
    /\ cronArgo' = [cronArgo EXCEPT ![c].there = FALSE]
    /\ UNCHANGED <<cronRow, cronOf, cronTemplate, cronRun, cronWrites, cronFaults>>

RunsOf(c) == {i \in CronRuns : cronRun[i].cron = c /\ cronRun[i].state = "Row"}

(* For contrast: the runs are left alone.                                   *)
FindNoRuns(h) ==
    /\ CronAt(h, "terminate", "find")
    /\ IF cronRow[cronReq[h].cron].state = "Live" THEN CronMove(h, "runs") ELSE CronDone(h)
    /\ UNCHANGED <<cronRow, cronArgo, cronOf, cronTemplate, cronRun, cronWrites, cronFaults, cronMixed>>

(* The live row of that name, and then its runs.                            *)
FindRuns(h) ==
    /\ CronAt(h, "terminate", "find")
    /\ IF cronRow[cronReq[h].cron].state = "Live"
       THEN cronReq' = [cronReq EXCEPT ![h].step = "runs", ![h].todo = RunsOf(cronReq[h].cron)]
       ELSE CronDone(h)
    /\ UNCHANGED <<cronRow, cronArgo, cronOf, cronTemplate, cronRun, cronWrites, cronFaults, cronMixed>>

ArchiveRun(h) ==
    /\ CronAt(h, "terminate", "runs")
    /\ \E i \in cronReq[h].todo :
         /\ cronRun' = [cronRun EXCEPT ![i].state = "Archived"]
         /\ cronReq' = [cronReq EXCEPT ![h].todo = @ \ {i}]
    /\ UNCHANGED <<cronRow, cronArgo, cronOf, cronTemplate, cronWrites, cronFaults, cronMixed>>

MarkTerminatedCron(h) ==
    /\ CronAt(h, "terminate", "runs")
    /\ cronReq[h].todo = {}
    /\ Keep(cronReq[h].cron, "Archived")
    /\ CronDone(h)
    /\ UNCHANGED <<cronArgo, cronOf, cronTemplate, cronRun, cronWrites, cronFaults, cronMixed>>
----------------------------------------------------------------------------
(* ArchiveWorkflowTemplate: its crons one by one, each by                   *)
(* ArchiveCronWorkflow, then its runs, then the template.                   *)

(* For contrast: the crons of the template are not looked for.              *)
ArchiveTemplateOnly(h, t) ==
    /\ cronTemplate[t]
    /\ CronStart(h, [CronIdle EXCEPT !.op = "archive", !.step = "next", !.template = t])
    /\ UNCHANGED <<cronRow, cronArgo, cronOf, cronTemplate, cronRun, cronWrites, cronFaults>>

ArchiveTemplate(h, t) ==
    /\ cronTemplate[t]
    /\ CronStart(h, [CronIdle EXCEPT !.op = "archive", !.step = "next", !.template = t, !.todo = LiveCrons(t)])
    /\ UNCHANGED <<cronRow, cronArgo, cronOf, cronTemplate, cronRun, cronWrites, cronFaults>>

(* For contrast: the row is left to a clean-up that never comes.            *)
DeleteArgoCronOnly(h) ==
    /\ CronAt(h, "archive", "next")
    /\ \E c \in cronReq[h].todo :
         /\ cronArgo' = [cronArgo EXCEPT ![c].there = FALSE]
         /\ cronReq' = [cronReq EXCEPT ![h].todo = @ \ {c}]
    /\ UNCHANGED <<cronRow, cronOf, cronTemplate, cronRun, cronWrites, cronFaults, cronMixed>>

(* A cron that Argo does not find is passed over, its row as it is.         *)
DeleteArgoCron(h) ==
    /\ CronAt(h, "archive", "next")
    /\ \E c \in cronReq[h].todo :
         /\ cronArgo' = [cronArgo EXCEPT ![c].there = FALSE]
         /\ cronReq' = IF cronArgo[c].there
                       THEN [cronReq EXCEPT ![h].step = "mark", ![h].cron = c, ![h].todo = @ \ {c}]
                       ELSE [cronReq EXCEPT ![h].todo = @ \ {c}]
    /\ UNCHANGED <<cronRow, cronOf, cronTemplate, cronRun, cronWrites, cronFaults, cronMixed>>

MarkArchivedCron(h) ==
    /\ CronAt(h, "archive", "mark")
    /\ Keep(cronReq[h].cron, "Archived")
    /\ CronMove(h, "next")
    /\ UNCHANGED <<cronArgo, cronOf, cronTemplate, cronRun, cronWrites, cronFaults, cronMixed>>

(* The executions are listed and archived until a listing is empty.         *)
ArchiveRuns(h) ==
    /\ CronAt(h, "archive", "next")
    /\ cronReq[h].todo = {}
    /\ cronRun' = [i \in CronRuns |->
                     IF cronRun[i].state = "Row" /\ cronOf[cronRun[i].cron] = cronReq[h].template
                     THEN [cronRun[i] EXCEPT !.state = "Archived"] ELSE cronRun[i]]
    /\ CronMove(h, "template")
    /\ UNCHANGED <<cronRow, cronArgo, cronOf, cronTemplate, cronWrites, cronFaults, cronMixed>>

MarkTemplate(h) ==
    /\ CronAt(h, "archive", "template")
    /\ cronTemplate' = [cronTemplate EXCEPT ![cronReq[h].template] = FALSE]
    /\ CronDone(h)
    /\ UNCHANGED <<cronRow, cronArgo, cronOf, cronRun, cronWrites, cronFaults, cronMixed>>
----------------------------------------------------------------------------
(* The clock: Argo starts a run, whose first call inserts its row; the row  *)
(* is credited to the first live cron of the template, whoever started it.  *)

CronFires(c, i) ==
    /\ cronArgo[c].there
    /\ cronRun[i].state = "None"
    /\ cronRun' = [cronRun EXCEPT ![i] = [cronRun[i] EXCEPT !.by = c, !.state = "Calling"]]
    /\ UNCHANGED <<cronRow, cronArgo, cronOf, cronTemplate, cronReq, cronWrites, cronFaults, cronMixed>>

InsertRun(i) ==
    /\ cronRun[i].state = "Calling"
    /\ LET live == LiveCrons(cronOf[cronRun[i].by]) IN
       \/ \E d \in live :
            cronRun' = [cronRun EXCEPT ![i].state = "Row", ![i].cron = d,
                          ![i].late = \E h \in CronHandlers : cronReq[h].cron = d /\ cronReq[h].step = "runs"]
       \/ live = {} /\ cronRun' = [cronRun EXCEPT ![i].state = "Refused"]
    /\ UNCHANGED <<cronRow, cronArgo, cronOf, cronTemplate, cronReq, cronWrites, cronFaults, cronMixed>>

(* A call of a request fails, or the server stops.                          *)
CronBreakOff(h) ==
    /\ cronReq[h] # CronIdle
    /\ cronFaults < MaxCronFaults
    /\ cronFaults' = cronFaults + 1
    /\ CronDone(h)
    /\ UNCHANGED <<cronRow, cronArgo, cronOf, cronTemplate, cronRun, cronWrites, cronMixed>>

CronNext ==
    \/ \E h \in CronHandlers :
         \/ \E c \in Crons, s \in Schedules : \/ FindCronRow(h, c, s)
                                              \/ \E t \in CronTemplates : AskCron(h, c, t, s)
         \/ \E c \in Crons : DeleteCron(h, c)
         \/ \E t \in CronTemplates : ArchiveTemplate(h, t)
         \/ CreateArgoCron(h) \/ InsertCron(h)
         \/ GetArgoCron(h) \/ PutArgoCron(h) \/ WriteCronRow(h)
         \/ FindRuns(h) \/ ArchiveRun(h) \/ MarkTerminatedCron(h)
         \/ DeleteArgoCron(h) \/ MarkArchivedCron(h) \/ ArchiveRuns(h) \/ MarkTemplate(h)
         \/ CronBreakOff(h)
    \/ \E i \in CronRuns : InsertRun(i) \/ \E c \in Crons : CronFires(c, i)

CronSpec == CronInit /\ [][CronNext]_cronVars
----------------------------------------------------------------------------
CronTypeOK ==
    /\ cronRow \in [Crons -> [state : {"None", "Live", "Archived"}, manifest : Schedules \cup {NoSchedule}]]
    /\ cronArgo \in [Crons -> [there : BOOLEAN, manifest : Schedules \cup {NoSchedule}, write : 0..MaxCronWrites]]
    /\ cronOf \in [Crons -> CronTemplates \cup {NoTemplate}]
    /\ cronTemplate \in [CronTemplates -> BOOLEAN]
    /\ cronRun \in [CronRuns -> [by : Crons \cup {NoCron}, state : {"None", "Calling", "Row", "Refused", "Archived"},
                                 cron : Crons \cup {NoCron}, late : BOOLEAN]]
    /\ DOMAIN cronReq = CronHandlers
    /\ cronWrites \in 0..MaxCronWrites
    /\ cronFaults \in 0..MaxCronFaults
    /\ cronMixed \subseteq CronTemplates

(* When no request of a template is under way and none has failed, a cron   *)
(* is live in the database exactly if Argo starts runs for it, whatever     *)
(* deletions, updates and archivings have overlapped.                       *)
RowsLiveInArgo ==
    cronFaults = 0 =>
        \A t \in CronTemplates : CronQuiet(t) =>
            \A c \in Crons : cronOf[c] = t => (cronRow[c].state = "Live" <=> cronArgo[c].there)

(* The manifest a user reads is the one Argo follows, if the template never *)
(* had another cron and its requests did not overlap: with another cron the *)
(* update may be written into the row of that one.                          *)
SchedulesAgree ==
    cronFaults = 0 =>
        \A t \in CronTemplates : CronQuiet(t) /\ t \notin cronMixed =>
            \A c \in Crons : cronArgo[c].there /\ {d \in Crons : cronOf[d] = t} = {c} =>
                cronArgo[c].manifest = cronRow[c].manifest

(* What the API says of a cron workflow, that it exists and when it runs,   *)
(* is what Argo does, under the conditions of the two parts.                *)
CronAgrees == RowsLiveInArgo /\ SchedulesAgree

(* An archived template starts no runs, unless a request for one of its     *)
(* crons overlapped the archiving or the database lost a cron Argo has.     *)
NoCronOutlives ==
    \A t \in CronTemplates : ~cronTemplate[t] /\ t \notin cronMixed /\ cronFaults = 0 =>
        \A c \in Crons : cronOf[c] = t => ~cronArgo[c].there

(* The runs of a cron that has ended are archived, but for those whose row  *)
(* was inserted after the request that ended it had listed them.            *)
RunsEndWithCron ==
    cronFaults = 0 =>
        \A i \in CronRuns : cronRun[i].state = "Row" =>
            LET c == cronRun[i].cron IN
            cronRow[c].state = "Archived" /\ CronQuiet(cronOf[c]) => cronRun[i].late

(* What is archived leaves nothing behind that goes on: no schedule of an   *)
(* archived template in Argo, no row of a run of an archived cron, under    *)
(* the conditions of the two parts.                                         *)
NothingOutlives == NoCronOutlives /\ RunsEndWithCron
=============================================================================
