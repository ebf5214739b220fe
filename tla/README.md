# Onepanel in TLA+

Onepanel is a server between users and Kubernetes. It stores *workspaces*,
*workflow executions*, *templates* and *cron workflows* in PostgreSQL, starts
Argo workflows that change the cluster, and is called back by those workflows
over HTTP. The hard part of the program is that a database row, an Argo object
and the cluster are changed by different actors in separate steps: requests that
run concurrently, workflows, retried callbacks, and a server that can stop
between two statements. This project models those steps, checks them with TLC and
proves the central invariants with TLAPS.

## Inventory

Every component, the state it keeps, its operations, and what makes it hard.

| component | state | operations | interacts with | what must hold |
|---|---|---|---|---|
| Workspaces (`pkg/workspace.go`, `server/workspace_server.go`) | table `workspaces` (phase and times, unique live uid) | create, update, pause, resume, delete/archive, retry last action, status call | creates workflows; called by them | one live row per uid; a phase never ahead of the work; no phase that is never left; table agrees with cluster |
| Workspace DAG (`pkg/workspace_template.go` 518-806) | the generated workflow | resource tasks, set-phase tasks, post-execution workflow, exit handler | Kubernetes; status call | phase reported only after the resources are changed; failures reported |
| Workflow executions (`pkg/workflow_execution.go`, `server/workflow_server.go`) | table `workflow_executions`, Argo workflows | create, clone, terminate, archive, retry, resubmit, suspend, resume, status and statistics calls, metrics | Argo; called by workflows | row follows the workflow; terminated stays terminated; metrics not lost |
| Workflow templates (`pkg/workflow_template.go`) | tables `workflow_templates`, `workflow_template_versions`; labelled Argo templates | create, new version, archive, generate, clone | Argo; executions; cron workflows | exactly one latest version, the same in both stores; archived means gone |
| Workspace templates (`pkg/workspace_template.go`) | tables `workspace_templates`, `workspace_template_versions` | create, update, archive | workflow templates (own transaction), workspaces | version refers to a workflow template version; none archived under a running workspace |
| Cron workflows (`pkg/cron_workflow.go`) | table `cron_workflows`, Argo cron workflows | create, update, terminate, archive; runs insert executions | Argo; executions | row and Argo object agree; one row per run |
| Parameters, metrics, DAG injection (`pkg/types.go`, parts of `workspace.go`, `workflow_execution.go`) | none | merge, add, inject | all of the above | order and precedence of merged values; every root task depends on the injected one |
| Watches and logs (`pkg/workflow_execution.go` 1207-1605) | goroutine, unbuffered channel | watch, send, close | gRPC stream | a stream ends, and not before its workflow; a goroutine ends when its client is gone |
| Configuration (`main.go`, `pkg/config.go`) | cached configuration, reload channel | load, clear, reload | all servers | after the last change the server runs with it |
| Secrets (`pkg/secret.go`) | Kubernetes secret | add, update, delete key | Kubernetes | an acknowledged key is there |
| Labels (`pkg/labels.go`) | label columns and Kubernetes labels | add, replace, delete | database, Kubernetes | both agree, values included |
| Namespaces (`pkg/namespace.go`) | a dozen Kubernetes objects | create | Kubernetes, templates | all or nothing visible |
| Migrations (`db/go`, `main.go`) | table of what ran, the system templates of every namespace | one operation per template and namespace; stop, fail, run again | templates, namespaces | an upgrade ends; every namespace has what a new one would get, but for the variables filled in |
| Pagination, filters (`pkg/util`) | none | page arithmetic | listings | pages cover the list once |
| Authentication, inference services, files, services, gateway | none of their own | delegate | Kubernetes, S3/GCS | not modelled: see the end |

Workspaces come first: theirs is the largest state machine, it is spread over three
actors (request handlers, Argo, callbacks), and only the SQL guards order them.

## Modules

| module | models |
|---|---|
| `Workspace` | rows, requests, workflows and calls of one (namespace, uid), every interleaving |
| `MCWorkspace` | symmetry sets for TLC |
| `WorkspaceProofs` | the inductive invariant of `Workspace` and the theorems that follow from it |
| `WorkspaceLifecycle` | abstract specification: the phases a workspace goes through, and that none of the transitional ones is kept |
| `WorkspaceCluster` | `Workspace` with the cluster's resources, for users who take one action at a time; implements `WorkspaceLifecycle` |
| `WorkspaceClusterProofs` | the inductive invariant of `WorkspaceCluster`, and that its phases follow `WorkspaceLifecycle` |
| `MCWorkspaceCluster` | symmetry sets for TLC |
| `WorkflowExecution` | rows of executions, Argo's workflows, the requests that create, terminate, archive and resubmit, and the calls of workflows |
| `MCWorkflowExecution` | symmetry sets and a bound for TLC |
| `WorkflowExecutionProofs` | its inductive invariant and the theorems that follow from it |
| `WorkflowTemplate` | the templates of one uid: rows, versions, Argo templates and the requests over both |
| `TemplateHistory` | abstract specification: a template is found, publishes ever newer versions and is retired |
| `WorkflowTemplateProofs` | the inductive invariant of `WorkflowTemplate`, and that it implements `TemplateHistory` |
| `WorkspaceTemplate` | workspace templates with their workflow templates and the workspaces made from them |
| `WorkspaceTemplateProofs` | the inductive invariant of `WorkspaceTemplate`, the theorems that follow from it, and that its workflow templates follow `TemplateHistory` |
| `CronWorkflow` | cron workflows in both stores, their runs, and the templates they hang on |
| `CronWorkflowProofs` | the two inductive invariants of `CronWorkflow`, and its types |
| `Secret`, `Labels` | the keys of a Kubernetes secret; the labels of a row and of its object |
| `StoreProofs` | the inductive invariants of `Secret`, `Labels` and `Metrics`, and the types of `MCStores` |
| `Migration` | the system templates through the migrations of several releases, and in new namespaces |
| `ConfigReload` | the configuration, the informer and the loop over servers |
| `Metrics` | the metrics of an execution and the two requests that write them |
| `Injection` | the tasks put into a workflow's two DAGs, and Argo running them |
| `ExecutionWatch` | a watched workflow, the goroutine, the stream and its client |
| `RequestProofs` | the inductive invariants of `Injection`, `ExecutionWatch`, `ConfigReload` and `Migration`, what the table of migrations adds up to, and the types of `MCRequests` |
| `MCRequests`, `MCStores` | the modules above side by side, for TLC: a behaviour moves one of them |

### Workspace

`rows` is the table restricted to one uid: several primary keys, because a
terminated workspace keeps its row and a new one of the same name gets another.
A row keeps its phase and whether `started_at`, `paused_at` and `terminated_at` are
set; `updated_at` and the parameters are abstracted, no property tells them apart.
`Live` is the predicate `phase <> 'Terminated'` of `GetWorkspace` and of every
update but one. `IndexAllows` is the partial unique index.

`req[q]` is a request handler between two statements:

| code | actions |
|---|---|
| `CreateWorkspace` 491-545, `createWorkspace` 201-293 | `CreateRead`, `LaunchWorkflow`, `InsertRow` |
| `updateWorkspace` 776-852, with update, pause, resume, delete, archive | `ActionRead`, `LaunchWorkflow`, `WritePhase` |
| `RetryLastWorkspaceAction`, then one of the methods above | `RetryRead`, `Reread`, `LaunchWorkflow`, `WritePhase` |
| the same, then `StartWorkspace` 549-598, `startWorkspace` 406-489 | `RetryRead`, `LaunchWorkflow`, `RestartRow` |
| an error return, a panic, a stop of the server | `Abort` |

`wf[w]` is an Argo workflow: the action it was created for (`act` is the parameter
`sys-workspace-action`, `by` the method that created it), the task it has reached,
the tasks that succeeded, its status, and the attempts its current curl has left.
`NextTask` is the dependency chain of the generated DAG; the DAG is a chain for each action
since the when-conditions skip the other branch. `"routes"` stands for the tasks
`service` and `virtual-service` and for the injected `sys-send-status` before them; `"stateful-set"`
for create, wait and Workspace resource, or for their deletion. A failed task omits
what depends on it, and the exit handler reports `Failed`.

`calls` are status calls that reached the server. They are a set: nothing orders
them. A call that reports a failure is handled in two steps (`HandleFailed` reads the
row and decides, `HandlePhase` writes), as `UpdateWorkspaceStatus` does; a nil row
makes the handler panic and the call is answered as an error. `Answer`,
`LoseCall` and `CutConnection` are the network: the answer is lost, the call is lost
or the server stops, the connection is cut while the server goes on. In each case
curl tries again, so a call may be handled more than once and after its workflow
went on.

### WorkspaceCluster

Adds `k8s`, the resources of this uid that exist: applying the stateful set also
makes its volume claim, and deleting the set leaves the claim behind, which is why the
delete workflow has a task for it. A failing resource task may or may not have had its
effect. Three assumptions, each a conjunct of the module, tell it from `Workspace`:
a request begins only when nothing is under way (`Begin`), a workflow
needs longer to start a pod than the server to write one row (`Unhurried`; the
handler does not break off between the two, `Break`), and fewer calls are lost than curl makes attempts
(`LossesAssumption`, ten attempts in the code). The first two are what the code relies on without
enforcing; `Workspace` and the runs `workspace_races`, `workspace_revive` and
`workspace_succeeded` show what happens without them.

### WorkspaceLifecycle

The phases alone. A workspace is opened when none of its uid is live, may be
ordered into any of the four transitional phases once it has settled, and leaves a
transitional phase for its success or its failure. Two late events are part of what
the code offers and so of the abstraction: a failure after the phase has settled
(the post-execution workflow, or a failure call handled twice) leaves the bare status `Failed`, and a delayed copy of the
report that settled the phase may hide it again: of the success, or of the failure itself when three copies of one failure call are under way, for which
it takes three attempts. Liveness is weak fairness of `Resolve`: no
transitional phase is for ever.

### WorkflowExecution

`row[n]` is the row whose unique `uid` is `n` (`"Absent"` before its INSERT): phase, namespace
and `is_archived`. The times, parameters, labels and metrics are left out. `wf[w]` is an Argo
workflow: its name and namespace, whether its first task updates the row
(`sys-send-status`) or inserts it (`sys-send-init-stats`, the runs of a cron workflow), the
stage it is in, and the attempts curl has left. `req[q]` is a request between its two
stores.

| code | actions |
|---|---|
| `createWorkflow` 549-597, `createWorkflowExecutionDB` 988-1017 | `CreateArgo`, `InsertRow` |
| `TerminateWorkflowExecution` 1664-1683 | `MarkTerminated`, `StopArgo` |
| `ArchiveWorkflowExecution` 443-465 | `MarkArchived`, `DeleteArgo` |
| `ResubmitWorkflowExecution` 1622-1641 | `Resubmit` |
| the cron controller, `injectInitHandler...` 2062-2097 | `CronRun` |
| `UpdateWorkflowExecutionStatus` 2201-2223 | `HandleRunning` |
| `CronStartWorkflowExecutionStatisticInsert` 1038-1084 | `HandleCronStart` |
| `AddWorkflowExecutionStatistics` (workflow_server.go 192-211), then `FinishWorkflowExecutionStatisticViaExitHandler` 1019-1036 | `HandleExit`, `HandleFound` |

The three statements that record what a workflow reports differ in their WHERE, and
`Matches`, `Stored` and `FinishRow` keep the difference: uid and namespace without a guard, an
INSERT, name alone and not Terminated. `HandleExit` looks the workflow up in Argo
before the UPDATE, so an archived workflow is answered with an error. The network is that of
`Workspace`. Names that Argo generates are `Fresh`; a user may choose one that another namespace
has used. The server's retry, suspend and resume methods have no caller and are not
modelled.

### WorkflowTemplate

`flowRow` and `flowVersion` hold what is committed of the two tables, `flowArgo[n]` the Argo
template of version `n` and whether it is labelled latest. Versions are numbered by the clock
(`createWorkflowTemplateVersionDB` 136), so a request gets its number inside its
transaction: `NumberVersion`. A transaction is READ COMMITTED. `OutdateVersions` is the
moment the `UPDATE ... SET is_latest = false` takes its snapshot, `LockVersions` the moment it owns the rows;
between the two another transaction may commit a version it does not see.

| code | actions |
|---|---|
| `createWorkflowTemplate` 214-286 | `CreateFlow`, `InsertFlow`, `CreateArgoTemplate`, `CommitFlow`, `CommitFlowFails` |
| `CreateWorkflowTemplateVersion` 646-748 | `AddVersion`, `OutdateVersions`, `LockVersions`, `ReadLatest`, `CreateArgoTemplate`, `UnlabelOlder`, `CommitVersion` |
| `ArchiveWorkflowTemplate` 940-1050 | `FindFlow`, `ListVersions`, `DeleteVersion`, `MarkArchived` |
| an error return, a stop of the server | `BreakOff` |

Kubernetes refuses an update whose resource version is old, which is the second disjunct of `UnlabelOlder`.
`flowRaced` and `flowBegun` are history variables of the properties. An archive answers with success when Argo does not know a
template it wants to delete (1025); `ArchiveEndsArchived` says when nothing is live after the answer all the same.

### WorkspaceTemplate

Row ids are numbers here, since the code mixes the id of a template with the id of its version
(`ListSpaces`). Its workflow template is `tplFlow`, what `WorkflowTemplate` shows of one: a live template and a growing set
of version numbers. Creating commits that template first, then the row, and archives the first again
when the row is refused (`InsertTemplate`); updating appends to the workflow template
(`AppendVersion`) before it commits its own version (`CommitTplVersion`). `ArchiveRequest` is the guard of the server,
`FindTemplate` to `ArchiveFlow` what it protects. Workspaces are created in three steps meanwhile, the template read in the first
and its version in the second.

That `tplFlow` may stand for `WorkflowTemplate` is not left to the reader: `FlowsImplementHistory` says that the workflow templates of each uid (`FlowStage`,
`FlowNumbers`) go through the steps of `TemplateHistory`, the same abstract specification that `WorkflowTemplate` implements.

### CronWorkflow

A cron has a row, an object in Argo with a resource version, and runs. `AskCron`, `CreateArgoCron`, `InsertCron` are
`CreateCronWorkflow`; `FindCronRow` (the row is *any* live row of the template, as the query has it), `GetArgoCron`,
`PutArgoCron`, `WriteCronRow` are `UpdateCronWorkflow`; `DeleteCron`, `FindRuns`, `ArchiveRun`, `MarkTerminatedCron` are
`TerminateCronWorkflow`; `ArchiveTemplate` to `MarkTemplate` are the loops of `ArchiveWorkflowTemplate` over the crons and runs
of a template. `CronFires` is Argo's clock, `InsertRun` the first call of a run, which is credited to the first live cron of the
template, whoever started it. `late` marks the rows that came after the list of `FindRuns`.

### Secret and Labels

Both read an object and write it later. A JSON patch carries nothing of what was read, and the choice
between `add /data` and `add /data/key` (secret.go 240-299) is made from the read: `PatchAdd`.
An update of an object's labels is refused when the object has changed since it was read (`UpdateObject`).

Labels have values. `ReplaceLabels` commits the row (`WriteRow`) and then reads the object and merges into it; `AddLabels` only does the
latter. `MergeLabels` overwrites the value of a key and removes none, so the order in which requests reach the object matters, and
need not be the order in which they wrote the row. `LabelsFollow` is therefore one-sided, and names what parts the two all the same: a request
that was answered with an error or wrote the row of a namesake in another namespace (the UPDATE selects by uid alone), both in `labApart`,
and a request that overlapped the write of the row, or an `AddLabels` after it, with another value for the same key (`labOver`).

### Migration

Every file of `db/go` is a sequence of operations (`Up...`), each carried out in every namespace (`ApplyTo`):
create, create if absent, update to a file, describe, archive if unused. A manifest is identified by the date of
its file. goose runs the first migration that is not recorded and records it at its end; each opens a client of its own, so
goose's transaction undoes nothing. The migrations up to 20201001070806 also ask the table of the SQL migrations, where an
older server recorded them; an old server ran no others (`ChecksOldTable`, in `MigrationAssumption`). `CreateNamespace` applies
the files of `db/yaml` instead, in the order of their names, so that the newest is what stays: `NewestFile`, among the
files that the release ships, which are those its migrations write (`WritersOf`). `FileAfter` is what the last of the first migrations to
write a template has written.

A template keeps what was put in place of the variables of its file. A migration replaces three (db.go:204-208, `Written`), a
new namespace one (data.go:88-91, `FromFile`): `repository` is the kind of artifact repository it names, `pools` says whether the node
pools were filled in or left as variables. `LikeNew` compares an upgraded namespace with one that would be made now and
says exactly where they differ: the node pools where a migration wrote the file, and the repository where a migration asked
for it once for all namespaces (`AskedOnce`, `migCached`: the client's cache has no namespace in its key; the two migrations that read the
configuration themselves do not use it).

`Succeeds` has the errors of an operation. A migration that creates fails when the name is taken (a template that was
archived has released it); one that updates needs a live template; a template with two versions labelled latest (`"Broken"`, left by `VersionBreaksOff` or
`UserBreaks` between the two calls to Argo of a new version) makes whatever asks for the latest fail; and whatever needs the node pool options of the configuration
(`NeedsPools`) fails without them: a workspace template's parameters (workspace_template.go:186), a manifest in
`ReplaceRuntimeVariablesInManifest` (db.go:200), a template that is read back (workflow_template.go:54). While the server is up, users archive, create, version and
run the system templates or their namesakes (`UserArchives`, `UserCreates`, `UserVersions`, `UserRuns`), and an administrator changes the configuration
(`ChangePools`). `migAccidents` names those of these events that can make a migration fail, and `NeverStuck` says that nothing else does.

### Metrics and Injection

`metRow` is the JSON column. `ReadMetrics` is `GetWorkflowExecution`, which both requests begin with, and `WriteMetrics` the
UPDATE of the whole column; `MergeMetrics` is `Metrics.Merge`, which adds one metric after the other (`AddMetric`); an input is any list, names
repeated or not. `metAnswered` is what the column would be, as a set, if each request were one step.

`Injection` starts from a valid template: a DAG, written in either order, perhaps an exit handler, perhaps an interactive sidecar. Each
injection of `createWorkflow` (549-565) or `buildCronWorkflowDefinition` (376-380) is an action, `SidecarAccess` one turn of the loop of
`injectAccessForSidecars`. Then Argo runs what came out (`RunTask`, `LeaveDag`), task by task and with failures, so that the properties are
about what happens and not about the form of the document.

### ConfigReload and ExecutionWatch

Both are goroutines around an unbuffered channel. In `ConfigReload` the informer's callback waits on `stopCh` until the loop,
which may be loading, receives, and meanwhile is told of nothing; `NoChangeForgotten` says that no change it was told of gets lost on the way. `s.Stop()` before `Serve` has begun makes `Serve` fail and the process start again. In
`ExecutionWatch` the goroutine ranges over the events of a watch, sends each, and opens another watch when this one is
closed and the workflow, read once more, has not finished. When that cannot be opened, `watcher` is nil and `watcher.Stop()` (workflow_execution.go:1329)
panics in a goroutine that nothing recovers: the server ends before the channel is closed, and the client is cut off (`"panicked"`, `"cut"`).

## Runs

| run | checks | shows |
|---|---|---|
| `workspace_races` | `AtMostOneLive`, `PhasesEarned` (`PhaseHasWorkflow`, `FailureHasWorkflow`), `IInv`, `FailureOverwrittenOnlyByAnother` | two handlers, two workflows, two rows, one loss, all interleavings |
| `workspace_revive` | `OnlyRestartRevives` | a retried launch against deletes, three workflows |
| `workspace_cluster` | `PhaseMatchesCluster`, `TimesMatchPhase`, `ResumeFailureNeedsRestart`, `ImplementsLifecycle` | one action at a time over three workflows, with failures, a loss and a post-execution workflow; with fairness |
| `workspace_succeeded` (violation) | `SucceededNeedsNothing` | a pause whose workflow reports before the phase is written stays Pausing |
| `workspace_retry` (violation) | `RetryRepeatsFailedAction` | a failed resume is retried as a launch |
| `executions` | `RowFollowsWorkflow`, `QuietAgrees`, `IInv`, `OnlyNamesakesMoveRows`, `OnlyStartOverwritesTerminated`, `RetriesAbsorbLosses` | two workflows, however made, in two namespaces, and a request between its two stores; in one namespace also a loss and the repeated call |
| `execution_terminate` (violation) | `TerminateMarks` | an execution terminated before its first call is handled is Running again |
| `requests` | `Injection`: `TasksInOrder` (`CallFirst`, `RoutesFirst`, `RoutesUndone`), `ExecutionCompletes` (`RefusedOnlyFor`, `DagProceeds`, `EndReported`); `WorkflowTemplate`: `NewestIsLatest`, `VersionRunnable`, `FlowAgrees`, `ArchiveEndsArchived`, `ArchiveCompletes`, `ImplementsHistory`; `Migration`: `NeverStuck`, `LikeNew`; `ConfigReload`: `NoChangeForgotten`, `ServerConverges`; `ExecutionWatch`: `LastSeen`, `WatchEnds`; `RequestsTypeOK` | two rows of a uid and three versions; a new database or one of an old server, three releases, two namespaces; four versions of the configuration and a crash; a watch that may be disturbed at any time; every DAG of two tasks with up to two sidecars |
| `stores` | `WorkspaceTemplate`: `TemplatesAgree` (`LatestCorrespond`, `NameFree`), `NotStranded`, `FlowsImplementHistory`; `CronWorkflow`: `CronAgrees` (`RowsLiveInArgo`, `SchedulesAgree`), `NothingOutlives` (`NoCronOutlives`, `RunsEndWithCron`); `Secret`: `AdditionsKept`; `Labels`: `LabelsFollow`; `Metrics`: `MetricsAsAnswered`; `StoresTypeOK` | requests over two stores, or that write what they have read, that overlap, and one that breaks off |
| `one_latest` (violation) | `OneLatest` | two versions added together are both marked latest |
| `archives_its_own` (violation) | `ArchivesItsOwn` | archiving a template terminates another template's workspace |
| `own_repository` (violation) | `OwnRepository` | a migration writes the first namespace's repository type into the templates of the second |

Bounds. Two handlers are what a race needs, and `RequestStep`s of a third act on
the same single row in the same ways. Two rows make a terminated
workspace and its successor; only one can be live. Two workflows suffice for two
requests that collide; three let a row be created, fail, be deleted and be launched
again by a request that read it before. Two attempts and one loss give the
repeated call. A third copy of a call, which takes three attempts, is left to the theorems; it is where proving the refinement of
`WorkspaceLifecycle` showed that this did not yet allow a late copy of a failure. `workspace_revive` drops losses and
the other actions to afford the third workflow: only a retried launch and a delete
are needed for the row to end and return. `workspace_cluster` has one handler because its users do not
act concurrently; three workflows reach every ordered pair of actions after a
creation.

For executions, two workflows and two names in two namespaces give the namesake, the
resubmission and the cron run; one handler suffices since what interferes with a
request are the calls. What is lost is lost where all workflows are in one namespace
(`BoundedSpec`), so that both are affordable: one loss over two attempts, which
is a repetition of every call at every later point. The theorems lift both bounds.

`requests` and `stores` check modules that share no variable in one run: `focus`, fixed at the start, says which
of them moves, so that their state spaces are added and not multiplied. For workflow templates two rows make an archived template
and its successor, and three versions one that exists and two that are added to it together. Releases 22, 42 and 55 of the
migrations, over databases with 0 or 22 of them done, put each kind of operation before, at and after an upgrade; two
namespaces and two kinds of repository show an answer that is cached for the wrong one. `MaxMigAccidents` is one: after a first accident `NeverStuck` and `LikeNew` have nothing left to
say, and users' versions, which are counted with them, are of one kind. Two crons on one template give the row that belongs to the other, a second handler the
overlap; the single run is enough because no step looks at two. Three requests on a secret let a third key in between
two first ones. Two names, two values and two requests of up to two metrics make a name that is there twice and is then overridden; the theorem lifts the bounds. Two tasks make an
entrypoint with one root or two, and a first task that is not a root; two sidecars make the second one's route join the first one's. One fault at any point is what a crash is; a second starts from a state the first has reached. The theorems lift these bounds for
every module in the two runs.

Several properties name what they leave out (`flowRaced`, `cronMixed`, a fault): those are the states in which the code has
no repair, and each was met as a counterexample before it was excluded. `SchedulesAgree` holds only while a template
has had one cron, because an update writes into the first live row of the template. `FlowAgrees` holds only without failures: a
request that fails between labelling the new Argo template and unlabelling the old leaves two latest, and every later version is refused.

Deadlock is not checked: with a bounded number of workflows the system may stop, and
an idle server is a legal end.

Symmetry is used in the safety runs only, over rows, workflows and handlers, which
no action tells apart.

Fairness (`WorkspaceCluster!Fairness`) is weak fairness of: a handler that has begun
(a goroutine the Go scheduler runs; every external call it makes has a timeout), of a
workflow's next task (Argo's controller reconciles until the workflow is finished), and of handling a call
that reached the server (each call has its own goroutine). Users, losses and
failures are not fair: nobody has to act and nothing has to go wrong. `FlowSpec` is fair to each request's next step
(`FlowAdvance`), which `ArchiveCompletes` needs; locks are held by requests that are fair themselves. `ReloadSpec` is fair to the loop, to
`Serve` and to the informer, three goroutines; `WatchSpec` to the goroutine of the watch. Nothing is assumed of
Argo, of Kubernetes' watches or of clients.

## What the runs found

*A workspace that never leaves a transitional phase.* `updateWorkspace` creates the
workflow (workspace.go:834) and writes the phase afterwards (841-849). A workflow that
reports in between has its `Paused` overwritten by `Pausing`, and the `Succeeded` that
follows is ignored: "We don't need to do anything in this case" (workspace.go:639). The same holds
for update, resume, delete and for a retried launch. It needs a handler that is slow between the two statements, which the
abstract life cycle therefore assumes away.

*A retry that is not the last action.* `RetryLastWorkspaceAction` promises "the last action
on the workspace again" (workspace_server.go:367). Writing `Launching` on a resume clears `paused_at`
(workspace.go:110), the column by which a failing resume would be recognised (652), so a failed
resume becomes "Failed to launch" and is retried by `StartWorkspace`. That the phase
"Failed to resume" needs a retried launch and a pause is `ResumeFailureNeedsRestart`, proved below.

*A terminated execution that runs again.* The comment on `TerminateWorkflowExecution` says it
"marks a workflows execution as terminated in DB" (workflow_execution.go:1663). The update for
the call `Running` (2210-2217) has no guard on the phase, unlike the one at 1030: when
that call is under way, or repeated after a lost answer, the row is Running again
and the exit handler records Failed. `OnlyStartOverwritesTerminated` shows that this is the
only way to lose the mark.

*Two latest versions.* "It marks any older workflow template versions as not latest"
(workflow_template.go:642). The UPDATE that does so waits for a concurrent request on the same template, but
does not see the version it has inserted. `NewestIsLatest`, proved below, says what is left: the newest is always marked, so a
query ordered by version is right.

*A template archives another's workspaces.* `ArchiveWorkspaceTemplate` (workspace_template.go:1308) passes the id of
the template's version where `ListWorkspacesByTemplateID` compares the id of a template. With two templates the workspaces of
one are terminated when the other, whose version has that id, is archived.

*Another namespace's repository.* "GetArtifactRepositoryType returns the configured artifact repository type for the given namespace"
(client.go:180). It keeps the answer in the client's cache without the namespace (183-198), and a migration asks one client for every namespace it
loops over: where the first stores in S3 and the second in GCS, the second gets templates for S3.

Met on the way, without a run of their own: `GetCronWorkflow` (cron_workflow.go:236) looks for a workflow template with the cron's uid;
`DeleteCronWorkflowLabel` (295) stores nothing; changes of the configuration's *secret* are not watched; the report of an execution's end is not sent when deleting a sidecar's route fails
(workflow_execution.go:832); of two additions of metrics at a time one is lost (2235); a cron workflow whose entrypoint begins with two
tasks gets its first call twice, since 2085 appends it inside the loop over them, and Argo refuses the run when it is due; the statistics
count `'Failed to update'` (workspace.go:895) where "Failed to upgrade" is stored (workspace_types.go:29); a new namespace keeps
`{{.NodePoolLabel}}` in its templates, which migrations replace and `createNamespaceTemplates` does not; a watch that cannot be opened again
ends the server (workflow_execution.go:1329); `AddLabels` writes the object and not the row, so that the next reader of either sees different values; and an
upgrade that fails because of a user's template, a version that was broken off or a missing option fails at every later start.

## Proofs

`WorkspaceProofs` proves, for every set of rows, workflows, handlers
and actions, every number of attempts and losses, and with or without a post-execution workflow (`WorkspaceAssumption` is
all that is assumed):

| theorem | property |
|---|---|
| `TypeCorrect` | `[]TypeOK` |
| `Invariant` | `[]IInv` |
| `OneLiveRow` | `[]AtMostOneLive` |
| `PhasesAreBacked` | `[]PhaseHasWorkflow` |
| `FailuresAreBacked` | `[]FailureHasWorkflow` |
| `PhasesAreEarned` | `[]PhasesEarned`: the two together |
| `ResumeFailuresNeedRestart` | `[]ResumeFailureNeedsRestart` |
| `TerminatedIsFinal` | `OnlyRestartRevives` |
| `FailuresAreOverwritten` | `FailureOverwrittenOnlyByAnother` |

`PhaseHasWorkflow` alone is not inductive: a row becomes `Paused` because a call says so, the
call says so because its workflow reached the task that sends it, and the workflow
reached it through the resource tasks. `IInv` states one such link per actor:
`RequestInv` (a request about to write has started the workflow it writes for),
`WorkflowInv` (the stage a workflow is in implies the tasks it has done),
`CallInv` (a call carries what its workflow has done, or a failure that happened), `RowInv`
(why `paused_at` may be set). The argument rests on one fact, the lemma that
workflows never forget: a step only adds tasks to `done`, never changes `act` or
`by`, and a status that is final stays. Whatever a row, a call or a request was
justified by before a step therefore justifies it afterwards, and each action only has to
justify what it writes. `IInv` restates these conjuncts per item (`RowOK`, `CallOK`,
`RequestOK`), and one lemma per group of actions (requests, workflows, calls) preserves them.

`FailureOverwrittenOnlyByAnother` needs more while nothing is lost (`Lossless`): a workflow then has one call at a time, which it waits for, and
when a failure phase has been written its workflow is done. The call that writes over it belongs to another.

`WorkspaceClusterProofs` proves, from `LossesAssumption` (fewer calls are lost than curl makes attempts) besides:

| theorem | property |
|---|---|
| `ClusterInvariant` | `[]ClusterInv` |
| `PhasesMatchCluster` | `[]PhaseMatchesCluster` |
| `TimesMatchPhases` | `[]TimesMatchPhase` |
| `FollowsLifecycle` | `Lifecycle!Safety`, the safety part of `ImplementsLifecycle` |

`PhaseMatchesCluster` speaks of moments when nothing is under way, so what is needed is what holds in between. `ClusterInv` says that one thing is under way at a
time: a request, which still finds what it has read (`Turn`), or a workflow (`Busy`), whose `Story` ties four pieces of state
together. The cluster still has what its tasks brought (`Brought`); the live row is at the phase of its action, at the success or the failure of that, or at the bare
`Failed`, with the times to match (`RowTold`); every call in flight fits that row (`CallFits`); and no attempt was used up but by a loss (`Paid`), so that neither the
task nor the exit handler gives up while the row is live. A failure phase needs a workflow that failed before reporting its phase (`FailedEarly`), a success one that had reached the
report (`Reporting`): the two exclude each other, which is why late copies of a call never mix the outcomes of an action. When the workflow and its calls are gone, its
story leaves table and cluster `AtRest` (`EndsAtRest`). `Writes` lists what a call may find when it writes, and each entry is a step of the life cycle.

`WorkflowExecutionProofs` proves, under `ExecutionAssumption` and for every set of
namespaces, names, workflows and handlers and every bound:

| theorem | property |
|---|---|
| `Invariant` | `[]IInv` |
| `RowsFollow` | `[]RowFollowsWorkflow` |
| `OnlyLossesExhaust` | `RetriesAbsorbLosses` |
| `TerminationOverwritten` | `OnlyStartOverwritesTerminated` |
| `NamesakesMoveRows` | `OnlyNamesakesMoveRows` |
| `LosslessInvariant` | `[](losses = 0 => LosslessInv)` |
| `QuietRowsAgree` | `[]QuietAgrees` |

A row may say Succeeded because a call was found to be of a workflow that ended so (`CallInv`), and
exists because a request that has made the workflow inserted it (`RequestInv`); names, namespaces and final
statuses never change (`Keeps`). `TriesInv` counts attempts against losses, from the task before a
call on: an answer of the server never uses one up, because a call that is still awaited belongs to a
workflow Argo still has.

`LosslessInv` is the second invariant, of the runs in which no call or answer has been lost. Every call in flight is
the one its workflow waits for, unless that was deleted or was stopped in its first task, whose call goes on without it (`CallsAwaited`), and the
report of an end is in flight once (`OneExitCall`). So no report of the start is still to come when a workflow that was not stopped
has ended, and `EndsShown` holds from the answer to the report on and not only at rest: of what may happen to that row afterwards,
only a termination changes its phase. A second workflow of the name would break this, as `OnlyNamesakesMoveRows` shows. TLC has checked this invariant
with the constants of `Executions.cfg` for one namespace and, without losses, for two.

`WorkflowTemplateProofs`, under `FlowAssumption`, for any set of rows, finite set of handlers and any bounds:

| theorem | property |
|---|---|
| `FlowInvariant` | `[]FlowInv` |
| `NewestStaysLatest` | `[]NewestIsLatest` |
| `VersionsStayRunnable` | `[]VersionRunnable` |
| `RowsImplementHistory` | `ImplementsHistory` |
| `FlowOrderInvariant` | `[]FlowOrder` |
| `ArgoStaysInStep` | `[]FlowAgrees` |
| `ArchivesEndArchived` | `ArchiveEndsArchived` |

The newest version is latest because the last to commit has the largest number, and that because whoever has a number
holds the lock (`FlowApart`) or the only pending row (`Inserted`): numbers are committed in the order in which they are given.
`FlowRequestOK` ties a request's number to the clock and to its Argo template. The refinement maps a row's
state to its stage and its committed versions to its history; every step is `Found`, `Publish`, `Retire` or a stutter,
and that a version published is newer than all before is the same argument.

`FlowInv` says nothing of which template Argo labels latest, and cannot: after a failure, or when an archive overlaps another request,
nothing mends the difference. `FlowOrder` holds while neither has happened (`Orderly`). Argo then has the committed versions of the live
row, without those an archive has deleted and with the one that is being made (`ArgoFollows`), and labels the newest unless a
request is between committing a version and moving the label. `FlowTurn` is why: an archive is alone, and the template that will lose its label is that of
the newest version committed; that at most one request has a number then follows (`OnlyMaker`). It is also why an archive that has been answered has archived: in such a state
every template it listed is still in Argo when it comes to delete it (`ListedIsThere`), so "not found", the answer that ends an archive early, is not given.

`StoreProofs`, for any keys, namespaces, names and values of metrics, request goroutines and bounds:

| theorem | property |
|---|---|
| `AddedKeysStay` | `[]AdditionsKept` |
| `ObjectsFollowRows` | `[]LabelsFollow` |
| `MetricsAreAsAnswered` | `[]MetricsAsAnswered` |
| `StoresTypes` | `[]StoresTypeOK` |

A key that was promised is there because only a request that read no data replaces the map, and one that could do so after the promise has
been noted as an overlap. A label of a row is on the object with the row's value, or is carried by a request that is still under way, or some request that `labOver` has
noted has put another value in its place: the update of the object is refused unless what was read is still there (`fresh`), so what a merge writes over is what the invariant
already accounts for.

For metrics, a request that nobody overlapped writes over the column it has read, so what is left is what `Merge` makes of two lists:
`MergeAppends` (without override the entries are those of both) and `MergeOverrides` (with it, an entry stays if the input has not its name, and of the
input the last of each name is there). `MergeMetrics` is a recursive function, and that it exists at all is the first thing to prove (`MergedExists`). What would be
inductions over the input are arguments about the first index at which the claim fails (`LeastNumber`), which exists by the library's
well-foundedness of `<`.

`CronWorkflowProofs`, under `CronAssumption`, for any sets of cron workflows, templates, runs and request goroutines and any bounds:

| theorem | property |
|---|---|
| `CronInvariant` | `[]CronInv` |
| `RowsStayLiveInArgo` | `[]RowsLiveInArgo`, a part of `CronAgrees` |
| `RunsAreArchived` | `[]RunsEndWithCron` |
| `CronOnceInvariant` | `[]CronOnce` |
| `SchedulesStayEqual` | `[]SchedulesAgree`, the other part |
| `CronsStayAgreed` | `[]CronAgrees` |
| `NoCronIsLeft` | `[]NoCronOutlives` |
| `NothingIsLeft` | `[]NothingOutlives`: this and `RunsAreArchived` together |
| `CronTypes` | `[]CronTypeOK` |

Database and Argo may differ on a cron workflow only while a request is on its way to mend it: `CronStoreOK` says that a live row
without a cron in Argo belongs to a request that is ending it (`Ending`), and a cron in Argo without a row to the one that is
creating it (`Creating`), of which `CronApart` allows one per cron. `CronRequestOK` says what each request has behind it at each step.
Without a failure, `CronRunOK` says the same of a run whose cron has ended: it came too late to be listed, or the request that archives the template has still to archive it.

`CronInv` holds whatever overlaps; that schedules agree, and that Argo keeps no cron of an archived template, needs requests that come one at
a time. `CronAlone` says that two requests of a template have been noted, so on a template that is not mixed a step finds only its own request, and
`Course` says what that one has behind it: the template is still live, Argo has been told the schedule that will be written, and an archival has still to end
every cron that Argo has. A step is then a matter of one template (`OnceKept`), the others being framed (`OnceFramed`), and the row an update writes is
the row of the template's only cron. `CronTypes` is more than a matter of types where it bounds a counter: Argo's resource version stays within the writes
that requests have begun, since each of them puts at most once (`CronCounted`).

`WorkspaceTemplateProofs`, under `TplAssumption`, for any sets of uids and workspaces, finite set of request goroutines and any bounds:

| theorem | property |
|---|---|
| `TplInvariant` | `[]TplInv` |
| `TplTypes` | `[]TplTypeOK` |
| `LatestStaysNewest` | `[]LatestCorrespond` |
| `NamesStayFree` | `[]NameFree` |
| `TemplatesStayAgreed` | `[]TemplatesAgree`: the two together |
| `NoneStranded` | `[]NotStranded` |
| `FlowsFollowHistory` | `FlowsImplementHistory` |

A template and its workflow template agree only between requests, so `TplInv` says for each step of a request how far it has brought
its uid (`Story`): a creation has made the only live workflow template, with the one version it is about to insert; an update has appended the
newest version, and then holds exactly the rows marked latest; an archival that has marked the row has the workflow template still to archive. A uid whose one request is not
`Halfway` is `Settled`, which is what the two properties say. A step of another uid leaves a story as it is (`UidAlone`, `StoryFramed`), and
`TplApart` notes two requests of the same uid. `NotStranded` needs no story, failures included: a request that archives has found no workspace of its
uid, and a workspace is inserted from a row that is still live, unless the two have overlapped. That ids are not given twice is a matter of counting:
`TplCounted` keeps the used ids without gaps and reserves a version number for every request that will take one. The same counting makes the refinement of
`TemplateHistory` go through, failures and overlaps included: the next id is one no workflow template has (`HistoryFound`), the next number is ahead of all
(`HistoryPublishes`), and archiving by uid, in the clean-up of a refused creation as in an archive, retires what is live and nothing else (`HistoryRetires`).

`RequestProofs`, under `InjectionAssumption`, `WatchAssumption`, `ReloadAssumption` and `MigrationAssumption`, for templates of any number of tasks, any number of unread events,
versions of the configuration and crashes, and any namespaces, repositories, releases deployed in order and migrations an old server ran:

| theorem | property |
|---|---|
| `InjectionInvariant` | `[]InjInv` |
| `TasksStayInOrder` | `[]TasksInOrder` |
| `ExecutionsComplete` | `[]ExecutionCompletes` |
| `WatchTypes` | `[]WatchTypeOK` |
| `StreamsSeeTheEnd` | `[]LastSeen` |
| `ChangesReachTheLoop` | `[]NoChangeForgotten` |
| `QuietServesLast` | when nothing is left to do, the last version is served, or the informer began with it |
| `MigrationInvariant` | `[]MigInv` |
| `UpgradesEnd` | `[]NeverStuck` |
| `UpgradedIsLikeNew` | `[]LikeNew` |
| `RequestsTypes` | `[]RequestsTypeOK` |

`InjInv` describes the two DAGs between injections. The user's tasks keep their places and wait only for tasks on one side of them, for the call and for
routes (`UserTasks`); once the call is in, each of them waits for something, which is why none can run before the call. A service waits for the call, a
route for its service, the first task for every route, and no longer for the call (`InjectedTasks`): `OnRoute` drops the call from what the first task waits for,
which is right only because the first route brings it back. `ExitInv` says the same of the exit handler, whose report waits for the deletion of every
route that was added. `RanInOrder` follows: a task runs when what it waits for is done.

That an execution never stands still (`DagRunnable`) needs more than one step of dependencies. Argo can run the call, else a service, else a route; with these done, it can run
the leftmost or the rightmost of the user's tasks that are left, whichever side the others wait for. Such a task exists because a nonempty set of natural
numbers has a least element (`LeastNumber`, from the library's well-foundedness of `<`), so no induction over the DAG is needed. A valid template is not refused because
names differ (`NamesDiffer`) and a DAG of different names has as many names as tasks (`AsManyNames`); the exception is the call put in twice for a cron workflow.
TLC has checked `InjInv` on every template of up to three tasks.

`LastSeen` holds because in an undisturbed watch the unread events continue what the client has seen, the last of them is the workflow's phase, and the goroutine
leaves its loop only over a finished one.

`NoChangeForgotten` is inductive with the types: the callback sends what it has noticed and notices nothing more until the loop has received, and the loop loads after
it has received. What it does not cover is the change the informer finds at its first list, which no callback reports. `QuietServesLast` is what this leaves of
`ServerConverges` without fairness: a server that waits before an informer that is up to date has the last version, but for that one.

The migrations are one long table, and the proof has two halves. The first is about the table alone. `Table` goes through its 55 lines: every template is created by one migration
(`Born`) and only changed by later ones, no migration touches a template twice, its files have its own date but for three lines (`NoLaterThan`,
`NoEarlierThan`), and versions grow. Hence the last migration to write a template writes its newest file (`NewestIsLast`): the fact that `createNamespaceTemplates` relies on,
which one migration with an old file would break. The second is about the upgrade. Until something unexpected happens,
`MigInv` says that every template of every enabled namespace is where the recorded migrations have left it (`InStep`), or one migration further when the one under way
has been applied to it (`Applied`), or when it was stopped and did not create; where a user has made a version, only that it is live. A migration that finds its template in step cannot fail, which is `NeverStuck`;
a server that is up has nothing under way, which with `NewestIsLast` gives the files of `LikeNew`. `AsWritten` gives the rest and needs no such condition: every template has in place of its variables
what the path that wrote it fills in (`Filled`), after accidents too, and the files an old server knew name no node pools (`OldFiles`). What the old server recorded counts only up to `Reached`, since the migrations that it may have
run are those that ask its table (`OldAsked`). TLC has checked `MigInv` with the
constants of `Requests.cfg` and, without accidents, over eight releases and three old servers, among them every line with a date that is not its own.

Only model-checked: liveness. That transitional phases of `WorkspaceLifecycle` end (the rest of `ImplementsLifecycle`), `ArchiveCompletes`,
`ServerConverges` and `WatchEnds` rest on fairness, which is beyond the prover, as is `ENABLED`. Of each the safety half is proved: `FollowsLifecycle`, that the phases that do follow
are the right ones; `ArchivesEndArchived`, that an archive that ends has archived; `QuietServesLast`, that a server at rest has the configuration; `StreamsSeeTheEnd`,
that a stream that ends has shown the end. Every invariant and every action property of the passing runs is proved. The six runs that expect a violation have no theorem.

## Plan

What is left, in this order:

1. `WorkspaceTemplate` over the steps of `WorkflowTemplate`, with their failures in between, instead of over `TemplateHistory`, which both implement.
2. `WorkflowExecution` and `CronWorkflow` composed over the same rows.

## Not modelled

Authentication and authorization (each decision is a Kubernetes access review; access control is outside the scope of this project), inference
services (one Kubernetes call per operation), files (S3 and GCS), services and
routing (reads only), the generated API, the gateway and its converters. Listings, counts and statistics are queries and change
nothing; so are logs. `DeleteLabels` reads a table that a migration dropped and always fails. The SQL migrations are
modelled by the schema they leave, not as steps.

The modules map to the code with state. About half of the repository's code is generated from the protocol
buffers (`api/gen`), and most of the rest of `pkg` and `server` converts messages, builds queries or builds manifests; a
model of those would repeat their text and say nothing that an interleaving or a failure could break.
