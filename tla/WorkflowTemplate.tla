---------------------------- MODULE WorkflowTemplate ----------------------------
(***************************************************************************)
(* The workflow templates of one uid in one namespace: the rows in         *)
(* PostgreSQL, the Argo template of every version, and the requests that   *)
(* create a template, add a version or archive it (pkg/workflow_template). *)
(*                                                                         *)
(* Requests run in goroutines of their own and interleave between any two  *)
(* calls they make.  A transaction is READ COMMITTED: a statement sees the *)
(* rows committed before it starts, an UPDATE waits for a row another      *)
(* transaction has updated.  Versions are numbered by the clock.           *)
(***************************************************************************)
EXTENDS Naturals, FiniteSets

CONSTANTS
    FlowRows,           \* rows of workflow_templates that may come to exist
    FlowHandlers,       \* request goroutines
    MaxFlowVersions,    \* bound: versions ever numbered
    MaxFlowFaults,      \* bound: requests that fail or die half way
    NoRow

ASSUME FlowAssumption ==
    /\ MaxFlowVersions \in Nat \ {0}
    /\ MaxFlowFaults \in Nat
    /\ NoRow \notin FlowRows
    /\ IsFiniteSet(FlowHandlers)

FlowNumbers == 1..MaxFlowVersions

VARIABLES
    flowRow,        \* flowRow[t] \in {"Absent", "Live", "Archived"}, committed
    flowVersion,    \* flowVersion[n] = [row, latest]: the committed version n
    flowArgo,       \* flowArgo[n] \in {"None", "Plain", "Latest"}: Argo template of n
    flowClock,      \* the last number given
    flowReq,        \* flowReq[h]: the request h serves and how far it has come
    flowFaults,     \* requests broken off so far
    flowRaced,      \* history: an archive has overlapped another request
    flowBegun       \* history: templates an archive has begun to take apart

flowVars == <<flowRow, flowVersion, flowArgo, flowClock, flowReq, flowFaults, flowRaced, flowBegun>>

FlowIdle == [op |-> "idle", step |-> "idle", row |-> NoRow, number |-> 0, seen |-> {}, older |-> 0]

FlowInit ==
    /\ flowRow = [t \in FlowRows |-> "Absent"]
    /\ flowVersion = [n \in FlowNumbers |-> [row |-> NoRow, latest |-> FALSE]]
    /\ flowArgo = [n \in FlowNumbers |-> "None"]
    /\ flowClock = 0
    /\ flowReq = [h \in FlowHandlers |-> FlowIdle]
    /\ flowFaults = 0
    /\ flowRaced = FALSE
    /\ flowBegun = {}

LiveRows == {t \in FlowRows : flowRow[t] = "Live"}
VersionsOf(t) == {n \in FlowNumbers : flowVersion[n].row = t}
LatestInArgo == {n \in FlowNumbers : flowArgo[n] = "Latest"}
FlowQuiet == \A h \in FlowHandlers : flowReq[h] = FlowIdle

FlowAt(h, op, step) == flowReq[h].op = op /\ flowReq[h].step = step
FlowMove(h, step) == flowReq' = [flowReq EXCEPT ![h].step = step]
FlowDone(h) == flowReq' = [flowReq EXCEPT ![h] = FlowIdle]

Overlaps(op) ==
    \/ \E g \in FlowHandlers : flowReq[g].op = "archive"
    \/ op = "archive" /\ \E g \in FlowHandlers : flowReq[g] # FlowIdle

(* The request h starts; an archive that overlaps another request is noted. *)
FlowStart(h, op, step, t) ==
    /\ flowReq[h] = FlowIdle
    /\ flowReq' = [flowReq EXCEPT ![h] = [FlowIdle EXCEPT !.op = op, !.step = step, !.row = t]]
    /\ flowRaced' = (flowRaced \/ Overlaps(op))

(* Bound: a request starts only if a number is left for it.                 *)
Unnumbered == {g \in FlowHandlers : flowReq[g].step \in {"insert", "outdate", "lock"}}
NumberLeft == flowClock + Cardinality(Unnumbered) < MaxFlowVersions

NumberVersion(h, step) ==
    /\ flowClock' = flowClock + 1
    /\ flowReq' = [flowReq EXCEPT ![h].step = step, ![h].number = flowClock + 1]

----------------------------------------------------------------------------
(* createWorkflowTemplate.                                                  *)

Inserted(g) == flowReq[g].op = "create" /\ flowReq[g].step # "insert"

(* Another transaction has inserted its row for the uid and not yet ended.  *)
InsertPending == \E g \in FlowHandlers : Inserted(g)

CreateFlow(h, t) ==
    /\ flowRow[t] = "Absent"
    /\ \A g \in FlowHandlers : flowReq[g].row # t
    /\ NumberLeft
    /\ FlowStart(h, "create", "insert", t)
    /\ UNCHANGED <<flowRow, flowVersion, flowArgo, flowClock, flowFaults, flowBegun>>

(* The INSERT of the row and of its version; the partial unique index makes *)
(* it wait for a pending row and refuse a second live one.                  *)
InsertFlow(h) ==
    /\ FlowAt(h, "create", "insert")
    /\ ~InsertPending
    /\ \/ /\ LiveRows = {}
          /\ NumberVersion(h, "argo")
       \/ /\ LiveRows # {}
          /\ FlowDone(h)
          /\ UNCHANGED flowClock
    /\ UNCHANGED <<flowRow, flowVersion, flowArgo, flowFaults, flowRaced, flowBegun>>

(* For contrast: an error of Create is logged and ignored.                  *)
CreateArgoUnchecked(h) ==
    /\ flowReq[h].step = "argo"
    /\ \/ flowArgo' = [flowArgo EXCEPT ![flowReq[h].number] = "Latest"]
       \/ flowFaults < MaxFlowFaults /\ UNCHANGED flowArgo
    /\ FlowMove(h, IF flowReq[h].op = "create" THEN "commit" ELSE "unlabel")
    /\ flowFaults' = flowFaults + IF flowArgo' = flowArgo THEN 1 ELSE 0
    /\ UNCHANGED <<flowRow, flowVersion, flowClock, flowRaced, flowBegun>>

(* Also the Create of a new version; both label their template latest.      *)
CreateArgoTemplate(h) ==
    /\ flowReq[h].step = "argo"
    /\ flowArgo' = [flowArgo EXCEPT ![flowReq[h].number] = "Latest"]
    /\ FlowMove(h, IF flowReq[h].op = "create" THEN "commit" ELSE "unlabel")
    /\ UNCHANGED <<flowRow, flowVersion, flowClock, flowFaults, flowRaced, flowBegun>>

CommitFlow(h) ==
    /\ FlowAt(h, "create", "commit")
    /\ flowRow' = [flowRow EXCEPT ![flowReq[h].row] = "Live"]
    /\ flowVersion' = [flowVersion EXCEPT ![flowReq[h].number] =
                         [row |-> flowReq[h].row, latest |-> TRUE]]
    /\ FlowDone(h)
    /\ UNCHANGED <<flowArgo, flowClock, flowFaults, flowRaced, flowBegun>>

(* The commit fails: the Argo template is deleted again.                    *)
CommitFlowFails(h) ==
    /\ FlowAt(h, "create", "commit")
    /\ flowFaults < MaxFlowFaults
    /\ flowFaults' = flowFaults + 1
    /\ flowArgo' = [flowArgo EXCEPT ![flowReq[h].number] = "None"]
    /\ FlowDone(h)
    /\ UNCHANGED <<flowRow, flowVersion, flowClock, flowRaced, flowBegun>>

----------------------------------------------------------------------------
(* CreateWorkflowTemplateVersion.                                           *)

AddVersion(h, t) ==
    /\ t \in LiveRows
    /\ NumberLeft
    /\ FlowStart(h, "version", "outdate", t)
    /\ UNCHANGED <<flowRow, flowVersion, flowArgo, flowClock, flowFaults, flowBegun>>

(* UPDATE ... SET is_latest = false begins: the rows it can see.            *)
OutdateVersions(h) ==
    /\ FlowAt(h, "version", "outdate")
    /\ flowReq' = [flowReq EXCEPT ![h].step = "lock", ![h].seen = VersionsOf(flowReq[h].row)]
    /\ UNCHANGED <<flowRow, flowVersion, flowArgo, flowClock, flowFaults, flowRaced, flowBegun>>

(* For contrast: the versions are read without locking them.                *)
HoldsNothing(g, t) == FALSE

HoldsVersions(g, t) ==
    /\ flowReq[g].op = "version"
    /\ flowReq[g].row = t
    /\ flowReq[g].step \in {"latest", "argo", "unlabel", "commit"}

(* It owns the rows once no other transaction does; then the INSERT.        *)
LockVersions(h) ==
    /\ FlowAt(h, "version", "lock")
    /\ \A g \in FlowHandlers : ~HoldsVersions(g, flowReq[h].row)
    /\ NumberVersion(h, "latest")
    /\ UNCHANGED <<flowRow, flowVersion, flowArgo, flowFaults, flowRaced, flowBegun>>

(* getArgoWorkflowTemplate wants exactly one template labelled latest.      *)
ReadLatest(h) ==
    /\ FlowAt(h, "version", "latest")
    /\ \/ \E n \in FlowNumbers :
            /\ LatestInArgo = {n}
            /\ flowReq' = [flowReq EXCEPT ![h].step = "argo", ![h].older = n]
       \/ /\ Cardinality(LatestInArgo) # 1
          /\ FlowDone(h)
    /\ UNCHANGED <<flowRow, flowVersion, flowArgo, flowClock, flowFaults, flowRaced, flowBegun>>

(* For contrast: a refused Update is tried again with what was read before. *)
UnlabelAgain(h) ==
    /\ FlowAt(h, "version", "unlabel")
    /\ flowArgo[flowReq[h].older] = "Latest"
    /\ flowArgo' = [flowArgo EXCEPT ![flowReq[h].older] = "Plain"]
    /\ FlowMove(h, "commit")
    /\ UNCHANGED <<flowRow, flowVersion, flowClock, flowFaults, flowRaced, flowBegun>>

(* The Update carries the resource version of the template that was read:   *)
(* it is refused once that template has changed or is gone.                 *)
UnlabelOlder(h) ==
    /\ FlowAt(h, "version", "unlabel")
    /\ \/ /\ flowArgo[flowReq[h].older] = "Latest"
          /\ flowArgo' = [flowArgo EXCEPT ![flowReq[h].older] = "Plain"]
          /\ FlowMove(h, "commit")
       \/ /\ flowArgo[flowReq[h].older] # "Latest"
          /\ FlowDone(h)
          /\ UNCHANGED flowArgo
    /\ UNCHANGED <<flowRow, flowVersion, flowClock, flowFaults, flowRaced, flowBegun>>

(* For contrast: the new version is inserted before the others are outdated.*)
CommitThenOutdate(h) ==
    /\ FlowAt(h, "version", "commit")
    /\ flowVersion' = [n \in FlowNumbers |->
                         IF n = flowReq[h].number THEN [row |-> flowReq[h].row, latest |-> FALSE]
                         ELSE IF n \in flowReq[h].seen THEN [flowVersion[n] EXCEPT !.latest = FALSE]
                         ELSE flowVersion[n]]
    /\ FlowDone(h)
    /\ UNCHANGED <<flowRow, flowArgo, flowClock, flowFaults, flowRaced, flowBegun>>

CommitVersion(h) ==
    /\ FlowAt(h, "version", "commit")
    /\ flowVersion' = [n \in FlowNumbers |->
                         IF n = flowReq[h].number THEN [row |-> flowReq[h].row, latest |-> TRUE]
                         ELSE IF n \in flowReq[h].seen THEN [flowVersion[n] EXCEPT !.latest = FALSE]
                         ELSE flowVersion[n]]
    /\ FlowDone(h)
    /\ UNCHANGED <<flowRow, flowArgo, flowClock, flowFaults, flowRaced, flowBegun>>

----------------------------------------------------------------------------
(* ArchiveWorkflowTemplate.  Its cron workflows and executions have modules *)
(* of their own (CronWorkflow, WorkflowExecution).                          *)

(* getLatestWorkflowTemplate: a live row with a latest version, and one     *)
(* Argo template labelled latest.                                           *)
FindFlow(h) ==
    /\ \E t \in LiveRows :
         /\ \E n \in VersionsOf(t) : flowVersion[n].latest
         /\ Cardinality(LatestInArgo) = 1
         /\ FlowStart(h, "archive", "list", t)
    /\ UNCHANGED <<flowRow, flowVersion, flowArgo, flowClock, flowFaults, flowBegun>>

(* For contrast: the versions of archived rows of the uid are listed too.   *)
ListAllVersions(h) ==
    /\ FlowAt(h, "archive", "list")
    /\ flowReq' = [flowReq EXCEPT ![h].step = "delete",
                                  ![h].seen = {n \in FlowNumbers : flowVersion[n].row # NoRow}]
    /\ flowBegun' = flowBegun \cup LiveRows
    /\ UNCHANGED <<flowRow, flowVersion, flowArgo, flowClock, flowFaults, flowRaced>>

(* listWorkflowTemplateVersions selects by uid, of live rows, anew.         *)
ListVersions(h) ==
    /\ FlowAt(h, "archive", "list")
    /\ flowReq' = [flowReq EXCEPT ![h].step = "delete",
                                  ![h].seen = UNION {VersionsOf(t) : t \in LiveRows}]
    /\ flowBegun' = flowBegun \cup LiveRows
    /\ UNCHANGED <<flowRow, flowVersion, flowArgo, flowClock, flowFaults, flowRaced>>

(* The versions come by the time their transactions began, which need not   *)
(* be the order of their numbers.  One that Argo does not find ends the     *)
(* request, which answers true.                                             *)
DeleteVersion(h) ==
    /\ FlowAt(h, "archive", "delete")
    /\ \E n \in flowReq[h].seen :
         IF flowArgo[n] = "None"
         THEN FlowDone(h) /\ UNCHANGED flowArgo
         ELSE /\ flowArgo' = [flowArgo EXCEPT ![n] = "None"]
              /\ flowReq' = [flowReq EXCEPT ![h].seen = @ \ {n}]
    /\ UNCHANGED <<flowRow, flowVersion, flowClock, flowFaults, flowRaced, flowBegun>>

(* For contrast: the row is deleted, and free to be inserted again.         *)
MarkAbsent(h) ==
    /\ FlowAt(h, "archive", "delete")
    /\ flowReq[h].seen = {}
    /\ flowRow' = [t \in FlowRows |-> IF t \in LiveRows THEN "Absent" ELSE flowRow[t]]
    /\ FlowDone(h)
    /\ UNCHANGED <<flowVersion, flowArgo, flowClock, flowFaults, flowRaced, flowBegun>>

(* The UPDATE selects by uid and namespace.                                 *)
MarkArchived(h) ==
    /\ FlowAt(h, "archive", "delete")
    /\ flowReq[h].seen = {}
    /\ flowRow' = [t \in FlowRows |-> IF t \in LiveRows THEN "Archived" ELSE flowRow[t]]
    /\ FlowDone(h)
    /\ UNCHANGED <<flowVersion, flowArgo, flowClock, flowFaults, flowRaced, flowBegun>>

----------------------------------------------------------------------------
(* A call fails, or the server stops: the transaction is rolled back and    *)
(* what Argo was told stays.                                                *)
BreakOff(h) ==
    /\ flowReq[h] # FlowIdle
    /\ flowFaults < MaxFlowFaults
    /\ flowFaults' = flowFaults + 1
    /\ FlowDone(h)
    /\ UNCHANGED <<flowRow, flowVersion, flowArgo, flowClock, flowRaced, flowBegun>>

FlowAdvance(h) ==
    \/ InsertFlow(h) \/ CreateArgoTemplate(h) \/ CommitFlow(h)
    \/ OutdateVersions(h) \/ LockVersions(h) \/ ReadLatest(h) \/ UnlabelOlder(h) \/ CommitVersion(h)
    \/ ListVersions(h) \/ DeleteVersion(h) \/ MarkArchived(h)

FlowNext ==
    \E h \in FlowHandlers :
       \/ \E t \in FlowRows : CreateFlow(h, t) \/ AddVersion(h, t)
       \/ FindFlow(h)
       \/ FlowAdvance(h) \/ CommitFlowFails(h) \/ BreakOff(h)

(* A goroutine whose next step can be taken takes it; users start nothing   *)
(* they do not want to.                                                     *)
FlowSpec ==
    /\ FlowInit
    /\ [][FlowNext]_flowVars
    /\ \A h \in FlowHandlers : WF_flowVars(FlowAdvance(h))
----------------------------------------------------------------------------
FlowRequests == [op : {"idle", "create", "version", "archive"},
                 step : {"idle", "insert", "argo", "commit", "outdate", "lock", "latest", "unlabel",
                         "list", "delete"},
                 row : FlowRows \cup {NoRow}, number : 0..MaxFlowVersions,
                 seen : SUBSET FlowNumbers, older : 0..MaxFlowVersions]

FlowTypeOK ==
    /\ flowRow \in [FlowRows -> {"Absent", "Live", "Archived"}]
    /\ flowVersion \in [FlowNumbers -> [row : FlowRows \cup {NoRow}, latest : BOOLEAN]]
    /\ flowArgo \in [FlowNumbers -> {"None", "Plain", "Latest"}]
    /\ flowClock \in 0..MaxFlowVersions
    /\ flowReq \in [FlowHandlers -> FlowRequests]
    /\ flowFaults \in 0..MaxFlowFaults
    /\ flowRaced \in BOOLEAN
    /\ flowBegun \subseteq FlowRows

(* However updates overlap and fail, the newest version of a live template  *)
(* is marked latest: a reader of "latest" never finds a template without    *)
(* one, and never only an older one.                                        *)
NewestIsLatest ==
    \A t \in LiveRows : \E n \in VersionsOf(t) :
        flowVersion[n].latest /\ \A k \in VersionsOf(t) : k <= n

(* A version users can choose has its Argo template until an archive of     *)
(* its template has begun, whatever was broken off: Argo is written first.  *)
VersionRunnable ==
    \A t \in LiveRows \ flowBegun : \A n \in VersionsOf(t) : flowArgo[n] # "None"

(* When nothing is under way, nothing failed and no archive overlapped      *)
(* another request, Argo holds exactly the versions of the live template    *)
(* and labels the newest of them, and no other, latest.                     *)
FlowAgrees ==
    FlowQuiet /\ flowFaults = 0 /\ ~flowRaced =>
        \A n \in FlowNumbers :
            LET live == flowVersion[n].row \in LiveRows IN
            /\ flowArgo[n] # "None" <=> live
            /\ flowArgo[n] = "Latest" <=> live /\ \A k \in VersionsOf(flowVersion[n].row) : k <= n

(* Requests never wait for each other for ever, and an archive leaves no    *)
(* live template unless a failure or another request came in between.       *)
ArchiveCompletes ==
    \A h \in FlowHandlers :
        /\ flowReq[h] # FlowIdle ~> flowReq[h] = FlowIdle
        /\ flowReq[h].op = "archive" ~> LiveRows = {} \/ flowFaults > 0 \/ flowRaced

(* An archive answers true also where it stops at a version Argo does not   *)
(* find (workflow_template.go:1025): that happens only after a failure,     *)
(* or when another request came in between.  Otherwise nothing is live when *)
(* it has answered.                                                         *)
ArchiveEndsArchived ==
    [][\A h \in FlowHandlers :
          flowReq[h].op = "archive" /\ flowReq'[h] = FlowIdle =>
              LiveRows' = {} \/ flowFaults' > 0 \/ flowRaced']_flowVars

(* The rows implement TemplateHistory.                                      *)
History == INSTANCE TemplateHistory WITH
    Templates <- FlowRows, Numbers <- FlowNumbers, stage <- flowRow, history <- [t \in FlowRows |-> VersionsOf(t)]
ImplementsHistory == History!Spec

(* "It marks any older workflow template versions as not latest": a live    *)
(* template has one latest version.                                         *)
OneLatest ==
    \A t \in LiveRows : Cardinality({n \in VersionsOf(t) : flowVersion[n].latest}) <= 1
----------------------------------------------------------------------------
(* The inductive invariant behind NewestIsLatest, VersionRunnable and       *)
(* ImplementsHistory.                                                       *)

(* The bound is never overdrawn.                                            *)
FlowRoom == flowClock + Cardinality(Unnumbered) <= MaxFlowVersions

Numbered(g) == Inserted(g) \/ HoldsVersions(g, flowReq[g].row)

(* A row under creation is not there yet, and once it is inserted no other  *)
(* is live; versions are added to a template that is or was live; a number  *)
(* that was given is ahead of the versions and has its Argo template when   *)
(* the request says so; an archive takes apart what it has begun.           *)
FlowRequestOK(g) ==
    /\ flowReq[g].op = "create" =>
         /\ flowReq[g].row \in FlowRows /\ flowRow[flowReq[g].row] = "Absent"
         /\ Inserted(g) => LiveRows = {}
    /\ flowReq[g].op = "version" =>
         /\ flowReq[g].row \in FlowRows /\ flowRow[flowReq[g].row] # "Absent"
         /\ flowReq[g].seen \subseteq VersionsOf(flowReq[g].row)
    /\ Numbered(g) =>
         /\ flowReq[g].number \in 1..flowClock
         /\ flowVersion[flowReq[g].number].row = NoRow
         /\ \A n \in VersionsOf(flowReq[g].row) : n < flowReq[g].number
         /\ flowReq[g].step \in {"unlabel", "commit"} => flowArgo[flowReq[g].number] # "None"
    /\ flowReq[g].op = "archive" =>
         \A n \in flowReq[g].seen : flowVersion[n].row \in flowBegun

(* A row under creation belongs to one request, a row that is inserted is   *)
(* the only one, and requests with a number are apart in number and row.    *)
FlowApart(g, h) ==
    /\ flowReq[g].op = "create" => flowReq[h].row # flowReq[g].row
    /\ ~(Inserted(g) /\ Inserted(h))
    /\ Numbered(g) /\ Numbered(h) =>
         flowReq[g].number # flowReq[h].number /\ flowReq[g].row # flowReq[h].row

FlowStoreOK ==
    /\ \A n \in FlowNumbers : flowVersion[n].row # NoRow => n <= flowClock
    /\ \A t \in FlowRows : flowRow[t] = "Absent" => VersionsOf(t) = {}

FlowInv ==
    /\ FlowTypeOK /\ FlowRoom /\ FlowStoreOK
    /\ \A g \in FlowHandlers : FlowRequestOK(g) /\ \A h \in FlowHandlers \ {g} : FlowApart(g, h)
    /\ NewestIsLatest /\ VersionRunnable
=============================================================================
