------------------------------ MODULE Injection ------------------------------
(***************************************************************************)
(* The tasks the server puts into a workflow before it gives it to Argo:   *)
(* the calls that report the start and the end of the execution, and the   *)
(* services and routes of interactive sidecars, made before and deleted    *)
(* after (pkg/workflow_execution.go, pkg/cron_workflow.go).  Argo then     *)
(* runs the two DAGs, the entrypoint's and the exit handler's.             *)
(***************************************************************************)
EXTENDS Naturals, Sequences, FiniteSets

CONSTANTS MaxTasks      \* bound: tasks in the entrypoint of a template

ASSUME InjectionAssumption == MaxTasks \in Nat \ {0}

VARIABLES
    injKind,        \* "execution", or "cron": a run of a cron workflow
    injDag,         \* the tasks of the entrypoint, in the order of the manifest
    injExit,        \* the tasks of the exit handler, none if there is none
    injMounts,      \* a template of the workflow mounts volumes
    injSidecars,    \* interactive sidecars still to be made accessible: has each a port?
    injStep,
    injDone, injFailed      \* tasks Argo has run

injVars == <<injKind, injDag, injExit, injMounts, injSidecars, injStep, injDone, injFailed>>

UserTask(i) == <<"task", i>>
UserExit    == <<"exit", 0>>
SendStatus  == <<"sys-send-status", 0>>
SendInit    == <<"sys-send-init-stats", 0>>
SendExit    == <<"sys-send-exit-stats", 0>>
AddService(s)    == <<"sys-add-service", s>>
AddRoute(s)      == <<"sys-add-virtual-service", s>>
DeleteService(s) == <<"sys-delete-service", s>>
DeleteRoute(s)   == <<"sys-delete-virtual-service", s>>

DagTask(name, deps) == [name |-> name, deps |-> deps]
NamesOf(dag) == {dag[i].name : i \in DOMAIN dag}
Roots(dag) == {i \in DOMAIN dag : dag[i].deps = {}}

(* The DAGs of valid templates: each task depends on some of those written  *)
(* before it, or on some of those written after it.                         *)
Backward(n) == {d \in [1..n -> SUBSET (1..n)] : \A k \in 1..n : d[k] \subseteq 1..(k - 1)}
Forward(n)  == {d \in [1..n -> SUBSET (1..n)] : \A k \in 1..n : d[k] \subseteq (k + 1)..n}

UserDags ==
    {[i \in DOMAIN d |-> DagTask(UserTask(i), {UserTask(j) : j \in d[i]})] :
        d \in UNION {Backward(n) \cup Forward(n) : n \in 1..MaxTasks}}

InjectionInit ==
    /\ injKind \in {"execution", "cron"}
    /\ injDag \in UserDags
    /\ injExit \in {<<>>, <<DagTask(UserExit, {})>>}
    /\ injMounts \in BOOLEAN
    /\ injSidecars \in {<<>>, <<TRUE>>, <<FALSE>>}
    /\ injStep = IF injKind = "execution" THEN "filesyncer" ELSE "exit"
    /\ injDone = {} /\ injFailed = {}
----------------------------------------------------------------------------
(* createWorkflow, one injection after the other.                           *)

FilesyncerSidecar ==
    /\ injStep = "filesyncer"
    /\ injSidecars' = IF injMounts THEN Append(injSidecars, TRUE) ELSE injSidecars
    /\ injStep' = "status"
    /\ UNCHANGED <<injKind, injDag, injExit, injMounts, injDone, injFailed>>

(* Every task that depends on none waits for the call.                      *)
AfterCall(dag, call) ==
    [i \in DOMAIN dag |-> IF i \in Roots(dag) THEN DagTask(dag[i].name, {call}) ELSE dag[i]]

(* For contrast: only the first of them waits.                              *)
FirstAfterCall(dag, call) ==
    LET first == CHOOSE i \in Roots(dag) : \A j \in Roots(dag) : i <= j IN
    [dag EXCEPT ![first].deps = {call}]

(* For contrast: the call is appended once for every root.                  *)
StatusCallerPerRoot ==
    /\ injStep = "status"
    /\ injDag' = AfterCall(injDag, SendStatus)
                 \o [i \in 1..Cardinality(Roots(injDag)) |-> DagTask(SendStatus, {})]
    /\ injStep' = "exit"
    /\ UNCHANGED <<injKind, injExit, injMounts, injSidecars, injDone, injFailed>>

StatusCaller ==
    /\ injStep = "status"
    /\ injDag' = Append(AfterCall(injDag, SendStatus), DagTask(SendStatus, {}))
    /\ injStep' = "exit"
    /\ UNCHANGED <<injKind, injExit, injMounts, injSidecars, injDone, injFailed>>

(* For contrast: an exit handler of the user's replaces the report.         *)
ExitOnlyIfNone ==
    /\ injStep = "exit"
    /\ injExit' = IF injExit = <<>> THEN <<DagTask(SendExit, {})>> ELSE injExit
    /\ injStep' = IF injKind = "execution" THEN "access" ELSE "init"
    /\ UNCHANGED <<injKind, injDag, injMounts, injSidecars, injDone, injFailed>>

ExitStatistic ==
    /\ injStep = "exit"
    /\ injExit' = Append(injExit, DagTask(SendExit, {}))
    /\ injStep' = IF injKind = "execution" THEN "access" ELSE "init"
    /\ UNCHANGED <<injKind, injDag, injMounts, injSidecars, injDone, injFailed>>

(* The task is appended inside the loop, so once for every root.  A cron    *)
(* workflow's sidecars are not made accessible.                             *)
InitStatistic ==
    /\ injStep = "init"
    /\ injDag' = AfterCall(injDag, SendInit)
                 \o [i \in 1..Cardinality(Roots(injDag)) |-> DagTask(SendInit, {})]
    /\ injStep' = "submit"
    /\ UNCHANGED <<injKind, injExit, injMounts, injSidecars, injDone, injFailed>>

(* For contrast: the route is not waited for.                               *)
NotOnRoute(deps, route) == deps

(* What the first task depends on, in place of the call or besides others.  *)
OnRoute(deps, route) == IF SendStatus \in deps THEN {route} ELSE deps \cup {route}

(* For contrast: the report does not wait for the deletions.                *)
EndAtOnce(exit, route) == exit

(* The end is reported after the route is deleted.                          *)
EndAfter(exit, route) ==
    [i \in DOMAIN exit |-> IF exit[i].name = SendExit
                           THEN DagTask(SendExit, exit[i].deps \cup {route}) ELSE exit[i]]

(* For contrast: the last task waits for the route, which is the call.      *)
LastWaits ==
    /\ injStep = "access" /\ injSidecars # <<>> /\ Head(injSidecars)
    /\ LET s == Len(injSidecars) IN
       /\ injDag' = [injDag EXCEPT ![Len(injDag)].deps = OnRoute(@, AddRoute(s))]
                    \o <<DagTask(AddService(s), {SendStatus}), DagTask(AddRoute(s), {AddService(s)})>>
       /\ injExit' = EndAfter(injExit \o <<DagTask(DeleteService(s), {}),
                                           DagTask(DeleteRoute(s), {DeleteService(s)})>>, DeleteRoute(s))
    /\ injSidecars' = Tail(injSidecars)
    /\ UNCHANGED <<injKind, injMounts, injStep, injDone, injFailed>>

(* injectAccessForSidecars, one sidecar of its loop.                        *)
SidecarAccess ==
    /\ injStep = "access" /\ injSidecars # <<>> /\ Head(injSidecars)
    /\ LET s == Len(injSidecars) IN
       /\ injDag' = [injDag EXCEPT ![1].deps = OnRoute(@, AddRoute(s))]
                    \o <<DagTask(AddService(s), {SendStatus}), DagTask(AddRoute(s), {AddService(s)})>>
       /\ injExit' = EndAfter(injExit \o <<DagTask(DeleteService(s), {}),
                                           DagTask(DeleteRoute(s), {DeleteService(s)})>>, DeleteRoute(s))
    /\ injSidecars' = Tail(injSidecars)
    /\ UNCHANGED <<injKind, injMounts, injStep, injDone, injFailed>>

NoPort ==
    /\ injStep = "access" /\ injSidecars # <<>> /\ ~Head(injSidecars)
    /\ injStep' = "refused"
    /\ UNCHANGED <<injKind, injDag, injExit, injMounts, injSidecars, injDone, injFailed>>
----------------------------------------------------------------------------
(* Argo.  It refuses a DAG in which two tasks have one name, and starts     *)
(* nothing more when a task has failed.                                     *)

Submit ==
    /\ injStep = "submit" \/ (injStep = "access" /\ injSidecars = <<>>)
    /\ injStep' = IF Cardinality(NamesOf(injDag)) = Len(injDag) THEN "entry" ELSE "refused"
    /\ UNCHANGED <<injKind, injDag, injExit, injMounts, injSidecars, injDone, injFailed>>

Ran == injDone \cup injFailed

Runnable(dag) == {i \in DOMAIN dag : dag[i].name \notin Ran /\ dag[i].deps \subseteq injDone}

RunTask(dag) ==
    /\ \E i \in Runnable(dag) :
         \/ injDone' = injDone \cup {dag[i].name} /\ UNCHANGED injFailed
         \/ injFailed' = injFailed \cup {dag[i].name} /\ UNCHANGED injDone
    /\ UNCHANGED <<injKind, injDag, injExit, injMounts, injSidecars, injStep>>

(* All tasks have run, or one has failed: the exit handler, and the end.    *)
LeaveDag(dag) ==
    /\ NamesOf(dag) \subseteq injDone \/ NamesOf(dag) \cap injFailed # {}
    /\ injStep' = IF injStep = "entry" THEN "onExit" ELSE "end"
    /\ UNCHANGED <<injKind, injDag, injExit, injMounts, injSidecars, injDone, injFailed>>

InjectionNext ==
    \/ FilesyncerSidecar \/ StatusCaller \/ ExitStatistic \/ InitStatistic
    \/ SidecarAccess \/ NoPort \/ Submit
    \/ injStep = "entry" /\ (RunTask(injDag) \/ LeaveDag(injDag))
    \/ injStep = "onExit" /\ (RunTask(injExit) \/ LeaveDag(injExit))

InjectionSpec == InjectionInit /\ [][InjectionNext]_injVars
----------------------------------------------------------------------------
Sidecars == 1..2

InjectionTypeOK ==
    /\ injKind \in {"execution", "cron"}
    /\ injStep \in {"filesyncer", "status", "exit", "init", "access", "submit", "refused", "entry", "onExit", "end"}
    /\ Ran \subseteq NamesOf(injDag) \cup NamesOf(injExit)
    /\ injDone \cap injFailed = {}

(* Nothing of the user's runs before the execution is reported as started,  *)
(* whichever tasks the entrypoint begins with.                              *)
CallFirst ==
    (\E i \in 1..MaxTasks : UserTask(i) \in Ran) =>
        (IF injKind = "cron" THEN SendInit ELSE SendStatus) \in injDone

(* The first task of the manifest, and so what depends on it, finds every   *)
(* sidecar of the workflow reachable.                                       *)
RoutesFirst ==
    injDag[1].name \in Ran =>
        \A s \in Sidecars : AddRoute(s) \in NamesOf(injDag) => AddRoute(s) \in injDone

(* The server records the end of an execution after the exit handler has    *)
(* deleted every service and route the workflow made.                       *)
RoutesUndone ==
    SendExit \in Ran =>
        \A s \in Sidecars : /\ AddService(s) \in injDone => DeleteService(s) \in injDone
                            /\ AddRoute(s) \in injDone => DeleteRoute(s) \in injDone

(* Every execution that ends reports it, unless something in its exit       *)
(* handler failed; a user's own handler does not displace the report.       *)
EndReported ==
    injStep = "end" => SendExit \in injDone \/ NamesOf(injExit) \cap injFailed # {}

(* The injected dependencies leave Argo a task to run until all have run.   *)
DagProceeds ==
    /\ injStep = "entry" /\ injFailed = {} => Runnable(injDag) # {} \/ NamesOf(injDag) \subseteq injDone
    /\ injStep = "onExit" /\ NamesOf(injExit) \cap injFailed = {} =>
         Runnable(injExit) # {} \/ NamesOf(injExit) \subseteq injDone

(* A valid template is refused for a sidecar without a port only, or, as a  *)
(* cron workflow, for beginning with more than one task.                    *)
RefusedOnlyFor ==
    injStep = "refused" => \/ injKind = "execution" /\ injSidecars # <<>> /\ ~Head(injSidecars)
                           \/ injKind = "cron" /\ Cardinality({i \in DOMAIN injDag : injDag[i].deps = {SendInit}}) > 1

(* Whichever tasks a workflow begins with and however many sidecars it has, *)
(* the call comes before the user's tasks, the routes before the tasks that *)
(* may use them, and the report of the end after the routes are deleted.    *)
TasksInOrder == CallFirst /\ RoutesFirst /\ RoutesUndone

(* The execution of a valid template is accepted, but for the two cases     *)
(* above, runs until a task fails or all have run, and reports its end.     *)
ExecutionCompletes == RefusedOnlyFor /\ DagProceeds /\ EndReported
=============================================================================
