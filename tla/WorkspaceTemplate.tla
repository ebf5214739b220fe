--------------------------- MODULE WorkspaceTemplate ---------------------------
(***************************************************************************)
(* Workspace templates of one namespace and the three things each of them  *)
(* keeps in step: its row and version rows, the workflow template that is  *)
(* generated from it under the same uid, and the workspaces made from it   *)
(* (pkg/workspace_template.go).                                            *)
(*                                                                         *)
(* Row ids are modelled as the numbers the sequences of the two tables     *)
(* give, because the code mixes the two up.  The workflow template is seen *)
(* through what WorkflowTemplate shows of it: one live template of a uid,  *)
(* a growing set of versions of which the newest is the latest.            *)
(***************************************************************************)
EXTENDS Naturals, FiniteSets, FiniteSetsExt

CONSTANTS
    TplUids,            \* uids, which follow from the names
    TplSpaces,          \* workspaces that may come to exist
    TplHandlers,        \* request goroutines
    MaxTplRows,         \* bound: rows of workspace_templates
    MaxTplVersions,     \* bound: versions, of all templates
    MaxTplFaults,       \* bound: requests that fail or die half way
    NoUid, NoSpace

ASSUME TplAssumption ==
    /\ {MaxTplRows, MaxTplVersions, MaxTplFaults} \subseteq Nat
    /\ IsFiniteSet(TplHandlers)
    /\ NoUid \notin TplUids /\ NoSpace \notin TplSpaces

TplRows == 1..MaxTplRows
TplVersions == 1..MaxTplVersions

VARIABLES
    tplRow,         \* tplRow[r] = [uid, live, flow]: row r of workspace_templates
    tplVersion,     \* tplVersion[v] = [row, number, latest]: version row v
    tplFlow,        \* tplFlow[f] = [uid, live, numbers]: generated workflow template f
    tplClock,       \* last version number given
    tplSpace,       \* tplSpace[w] = [row, state]
    tplReq,         \* the request each handler serves
    tplFaults,
    tplRaced        \* history: uids two requests of which have overlapped

tplVars == <<tplRow, tplVersion, tplFlow, tplClock, tplSpace, tplReq, tplFaults, tplRaced>>

TplIdle == [op |-> "idle", step |-> "idle", uid |-> NoUid, id |-> 0, number |-> 0,
            seen |-> {}, space |-> NoSpace]

TplInit ==
    /\ tplRow = [r \in TplRows |-> [uid |-> NoUid, live |-> FALSE, flow |-> 0]]
    /\ tplVersion = [v \in TplVersions |-> [row |-> 0, number |-> 0, latest |-> FALSE]]
    /\ tplFlow = [f \in TplVersions |-> [uid |-> NoUid, live |-> FALSE, numbers |-> {}]]
    /\ tplClock = 0
    /\ tplSpace = [w \in TplSpaces |-> [row |-> 0, state |-> "None"]]
    /\ tplReq = [h \in TplHandlers |-> TplIdle]
    /\ tplFaults = 0
    /\ tplRaced = {}

LiveTpl(u) == {r \in TplRows : tplRow[r].live /\ tplRow[r].uid = u}
LiveFlow(u) == {f \in TplVersions : tplFlow[f].live /\ tplFlow[f].uid = u}
VersionRows(r) == {v \in TplVersions : tplVersion[v].row = r}
LatestRows(r) == {v \in VersionRows(r) : tplVersion[v].latest}

(* The next id of a table's sequence.                                       *)
FreeRow == Cardinality({r \in TplRows : tplRow[r].uid # NoUid}) + 1
FreeVersion == Cardinality({v \in TplVersions : tplVersion[v].row # 0}) + 1
FreeFlow == Cardinality({f \in TplVersions : tplFlow[f].uid # NoUid}) + 1

TplQuiet(u) == \A h \in TplHandlers : tplReq[h].uid # u

TplAt(h, op, step) == tplReq[h].op = op /\ tplReq[h].step = step
TplMove(h, step) == tplReq' = [tplReq EXCEPT ![h].step = step]
TplDone(h) == tplReq' = [tplReq EXCEPT ![h] = TplIdle]

TplStart(h, op, step, u, w) ==
    /\ tplReq[h] = TplIdle
    /\ tplReq' = [tplReq EXCEPT ![h] =
                    [TplIdle EXCEPT !.op = op, !.step = step, !.uid = u, !.space = w]]
    /\ tplRaced' = IF TplQuiet(u) THEN tplRaced ELSE tplRaced \cup {u}

(* Bound: a request that makes a version starts only if one is left for it. *)
VersionLeft ==
    tplClock + Cardinality({h \in TplHandlers : tplReq[h].op \in {"create", "update"}
                                             /\ tplReq[h].number = 0}) < MaxTplVersions
----------------------------------------------------------------------------
(* createWorkspaceTemplate, reached from CreateWorkspaceTemplate.           *)

CheckName(h, u) ==
    /\ LiveTpl(u) = {}
    /\ VersionLeft /\ FreeRow <= MaxTplRows
    /\ TplStart(h, "create", "flow", u, NoSpace)
    /\ UNCHANGED <<tplRow, tplVersion, tplFlow, tplClock, tplSpace, tplFaults>>

(* For contrast: the check of the name is relied on here as well.           *)
MakeFlowUnchecked(h) ==
    /\ TplAt(h, "create", "flow")
    /\ tplClock' = tplClock + 1
    /\ tplFlow' = [tplFlow EXCEPT ![FreeFlow] =
                     [uid |-> tplReq[h].uid, live |-> TRUE, numbers |-> {tplClock + 1}]]
    /\ tplReq' = [tplReq EXCEPT ![h].step = "row", ![h].id = FreeFlow, ![h].number = tplClock + 1]
    /\ UNCHANGED <<tplRow, tplVersion, tplSpace, tplFaults, tplRaced>>

MakeFlow(h) ==
    /\ TplAt(h, "create", "flow")
    /\ \/ /\ LiveFlow(tplReq[h].uid) = {}
          /\ tplClock' = tplClock + 1
          /\ tplFlow' = [tplFlow EXCEPT ![FreeFlow] =
                           [uid |-> tplReq[h].uid, live |-> TRUE, numbers |-> {tplClock + 1}]]
          /\ tplReq' = [tplReq EXCEPT ![h].step = "row", ![h].id = FreeFlow, ![h].number = tplClock + 1]
       \/ /\ LiveFlow(tplReq[h].uid) # {}
          /\ TplDone(h)
          /\ UNCHANGED <<tplFlow, tplClock>>
    /\ UNCHANGED <<tplRow, tplVersion, tplSpace, tplFaults, tplRaced>>

RetireFlow(u) == tplFlow' = [f \in TplVersions |-> IF f \in LiveFlow(u) THEN [tplFlow[f] EXCEPT !.live = FALSE]
                                                                        ELSE tplFlow[f]]

(* For contrast: the error is returned without the clean-up.                *)
InsertNoCleanup(h) ==
    /\ TplAt(h, "create", "row")
    /\ LET u == tplReq[h].uid IN
       \/ /\ LiveTpl(u) = {} /\ FreeRow <= MaxTplRows
          /\ tplRow' = [tplRow EXCEPT ![FreeRow] = [uid |-> u, live |-> TRUE, flow |-> tplReq[h].id]]
          /\ tplVersion' = [tplVersion EXCEPT ![FreeVersion] =
                              [row |-> FreeRow, number |-> tplReq[h].number, latest |-> TRUE]]
       \/ UNCHANGED <<tplRow, tplVersion>>
    /\ TplDone(h)
    /\ UNCHANGED <<tplFlow, tplClock, tplSpace, tplFaults, tplRaced>>

(* Row and first version in one transaction.  When it fails (the unique     *)
(* index, or the database) the workflow template is archived again.         *)
InsertTemplate(h) ==
    /\ TplAt(h, "create", "row")
    /\ LET u == tplReq[h].uid IN
       \/ /\ LiveTpl(u) = {} /\ FreeRow <= MaxTplRows
          /\ tplRow' = [tplRow EXCEPT ![FreeRow] = [uid |-> u, live |-> TRUE, flow |-> tplReq[h].id]]
          /\ tplVersion' = [tplVersion EXCEPT ![FreeVersion] =
                              [row |-> FreeRow, number |-> tplReq[h].number, latest |-> TRUE]]
          /\ UNCHANGED tplFlow
       \/ RetireFlow(u) /\ UNCHANGED <<tplRow, tplVersion>>
    /\ TplDone(h)
    /\ UNCHANGED <<tplClock, tplSpace, tplFaults, tplRaced>>
----------------------------------------------------------------------------
(* UpdateWorkspaceTemplate: the workflow template's version is committed    *)
(* before the workspace template's.                                         *)

ReadTemplate(h, u) ==
    /\ VersionLeft
    /\ TplStart(h, "update", "version", u, NoSpace)
    /\ UNCHANGED <<tplRow, tplVersion, tplFlow, tplClock, tplSpace, tplFaults>>

(* GetWorkspaceTemplate, then CreateWorkflowTemplateVersion by uid.         *)
AppendVersion(h) ==
    /\ TplAt(h, "update", "version")
    /\ \/ \E r \in LiveTpl(tplReq[h].uid), f \in LiveFlow(tplReq[h].uid) :
            /\ tplClock' = tplClock + 1
            /\ tplFlow' = [tplFlow EXCEPT ![f].numbers = @ \cup {tplClock + 1}]
            /\ tplReq' = [tplReq EXCEPT ![h].step = "outdate", ![h].id = r, ![h].number = tplClock + 1]
       \/ /\ LiveTpl(tplReq[h].uid) = {} \/ LiveFlow(tplReq[h].uid) = {}
          /\ TplDone(h)
          /\ UNCHANGED <<tplFlow, tplClock>>
    /\ UNCHANGED <<tplRow, tplVersion, tplSpace, tplFaults, tplRaced>>

(* The UPDATE sees the versions marked latest so far.  Two of them may wait *)
(* for each other's commit, which changes nothing here.                     *)
OutdateLatest(h) ==
    /\ TplAt(h, "update", "outdate")
    /\ tplReq' = [tplReq EXCEPT ![h].step = "commit", ![h].seen = LatestRows(tplReq[h].id)]
    /\ UNCHANGED <<tplRow, tplVersion, tplFlow, tplClock, tplSpace, tplFaults, tplRaced>>

(* For contrast: the earlier versions keep their mark.                      *)
CommitKeepsLatest(h) ==
    /\ TplAt(h, "update", "commit")
    /\ tplVersion' = [tplVersion EXCEPT ![FreeVersion] =
                        [row |-> tplReq[h].id, number |-> tplReq[h].number, latest |-> TRUE]]
    /\ TplDone(h)
    /\ UNCHANGED <<tplRow, tplFlow, tplClock, tplSpace, tplFaults, tplRaced>>

CommitTplVersion(h) ==
    /\ TplAt(h, "update", "commit")
    /\ tplVersion' = [v \in TplVersions |->
                        IF v = FreeVersion THEN [row |-> tplReq[h].id, number |-> tplReq[h].number, latest |-> TRUE]
                        ELSE IF v \in tplReq[h].seen THEN [tplVersion[v] EXCEPT !.latest = FALSE]
                        ELSE tplVersion[v]]
    /\ TplDone(h)
    /\ UNCHANGED <<tplRow, tplFlow, tplClock, tplSpace, tplFaults, tplRaced>>
----------------------------------------------------------------------------
(* CreateWorkspace, as far as its template goes, and the end of a workspace.*)

AskWorkspace(h, w, u) ==
    /\ tplSpace[w].state = "None"
    /\ \A g \in TplHandlers : tplReq[g].space # w
    /\ TplStart(h, "workspace", "read", u, w)
    /\ UNCHANGED <<tplRow, tplVersion, tplFlow, tplClock, tplSpace, tplFaults>>

(* For contrast: the id of the version row is taken for the template's.     *)
ReadVersionForWorkspace(h) ==
    /\ TplAt(h, "workspace", "read")
    /\ \/ \E r \in LiveTpl(tplReq[h].uid) : \E v \in LatestRows(r) :
            /\ LiveFlow(tplReq[h].uid) # {}
            /\ tplReq' = [tplReq EXCEPT ![h].step = "insert", ![h].id = v]
       \/ /\ LiveTpl(tplReq[h].uid) = {} \/ LiveFlow(tplReq[h].uid) = {}
          /\ TplDone(h)
    /\ UNCHANGED <<tplRow, tplVersion, tplFlow, tplClock, tplSpace, tplFaults, tplRaced>>

(* The template is read; the workflow template must be there to launch.     *)
ReadForWorkspace(h) ==
    /\ TplAt(h, "workspace", "read")
    /\ \/ \E r \in LiveTpl(tplReq[h].uid) :
            /\ LiveFlow(tplReq[h].uid) # {}
            /\ tplReq' = [tplReq EXCEPT ![h].step = "insert", ![h].id = r]
       \/ /\ LiveTpl(tplReq[h].uid) = {} \/ LiveFlow(tplReq[h].uid) = {}
          /\ TplDone(h)
    /\ UNCHANGED <<tplRow, tplVersion, tplFlow, tplClock, tplSpace, tplFaults, tplRaced>>

InsertWorkspace(h) ==
    /\ TplAt(h, "workspace", "insert")
    /\ tplSpace' = [tplSpace EXCEPT ![tplReq[h].space] = [row |-> tplReq[h].id, state |-> "Live"]]
    /\ TplDone(h)
    /\ UNCHANGED <<tplRow, tplVersion, tplFlow, tplClock, tplFaults, tplRaced>>

EndWorkspace(w) ==
    /\ \/ /\ tplSpace[w].state = "Live"
          /\ tplSpace' = [tplSpace EXCEPT ![w].state = "Terminating"]
       \/ /\ tplSpace[w].state = "Terminating"
          /\ tplSpace' = [tplSpace EXCEPT ![w].state = "Terminated"]
    /\ UNCHANGED <<tplRow, tplVersion, tplFlow, tplClock, tplReq, tplFaults, tplRaced>>
----------------------------------------------------------------------------
(* ArchiveWorkspaceTemplate, with the server's check before it.             *)

SpacesOf(u) == {w \in TplSpaces : tplSpace[w].state \in {"Live", "Terminating"}
                               /\ tplRow[tplSpace[w].row].uid = u}

(* For contrast: a terminating and a live workspace are not told apart from *)
(* a terminated one.                                                        *)
NoRunning(u) == TRUE

HasNoRunning(u) == SpacesOf(u) = {}

ArchiveRequest(h, u) ==
    /\ HasNoRunning(u)
    /\ TplStart(h, "archive", "find", u, NoSpace)
    /\ UNCHANGED <<tplRow, tplVersion, tplFlow, tplClock, tplSpace, tplFaults>>

(* GetWorkspaceTemplate of the latest version; what it gives as the id is   *)
(* the id of the version row.                                               *)
FindTemplate(h) ==
    /\ TplAt(h, "archive", "find")
    /\ \/ \E r \in LiveTpl(tplReq[h].uid) : \E v \in LatestRows(r) :
            tplReq' = [tplReq EXCEPT ![h].step = "list", ![h].id = v]
       \/ /\ \A r \in LiveTpl(tplReq[h].uid) : LatestRows(r) = {}
          /\ TplDone(h)
    /\ UNCHANGED <<tplRow, tplVersion, tplFlow, tplClock, tplSpace, tplFaults, tplRaced>>

(* ListWorkspacesByTemplateID compares it with the ids of templates.        *)
ListSpaces(h) ==
    /\ TplAt(h, "archive", "list")
    /\ tplReq' = [tplReq EXCEPT
          ![h].step = "spaces",
          ![h].seen = {w \in TplSpaces : tplSpace[w].state \in {"Live", "Terminating"}
                                      /\ tplSpace[w].row = tplReq[h].id}]
    /\ UNCHANGED <<tplRow, tplVersion, tplFlow, tplClock, tplSpace, tplFaults, tplRaced>>

ArchiveSpace(h, w) ==
    /\ TplAt(h, "archive", "spaces")
    /\ w \in tplReq[h].seen
    /\ tplSpace' = IF tplSpace[w].state = "Live" THEN [tplSpace EXCEPT ![w].state = "Terminating"]
                                                 ELSE tplSpace
    /\ tplReq' = [tplReq EXCEPT ![h].seen = @ \ {w}]
    /\ UNCHANGED <<tplRow, tplVersion, tplFlow, tplClock, tplFaults, tplRaced>>

ArchiveRow(h) ==
    /\ TplAt(h, "archive", "spaces")
    /\ tplReq[h].seen = {}
    /\ tplRow' = [r \in TplRows |-> IF r \in LiveTpl(tplReq[h].uid) THEN [tplRow[r] EXCEPT !.live = FALSE]
                                                                    ELSE tplRow[r]]
    /\ TplMove(h, "flow")
    /\ UNCHANGED <<tplVersion, tplFlow, tplClock, tplSpace, tplFaults, tplRaced>>

ArchiveFlow(h) ==
    /\ TplAt(h, "archive", "flow")
    /\ RetireFlow(tplReq[h].uid)
    /\ TplDone(h)
    /\ UNCHANGED <<tplRow, tplVersion, tplClock, tplSpace, tplFaults, tplRaced>>
----------------------------------------------------------------------------
(* A call fails, or the server stops; what was committed before stays.      *)
TplBreakOff(h) ==
    /\ tplReq[h] # TplIdle
    /\ tplFaults < MaxTplFaults
    /\ tplFaults' = tplFaults + 1
    /\ TplDone(h)
    /\ UNCHANGED <<tplRow, tplVersion, tplFlow, tplClock, tplSpace, tplRaced>>

TplNext ==
    \/ \E h \in TplHandlers :
         \/ \E u \in TplUids : \/ CheckName(h, u) \/ ReadTemplate(h, u) \/ ArchiveRequest(h, u)
                               \/ \E w \in TplSpaces : AskWorkspace(h, w, u)
         \/ MakeFlow(h) \/ InsertTemplate(h)
         \/ AppendVersion(h) \/ OutdateLatest(h) \/ CommitTplVersion(h)
         \/ ReadForWorkspace(h) \/ InsertWorkspace(h)
         \/ FindTemplate(h) \/ ListSpaces(h) \/ ArchiveRow(h) \/ ArchiveFlow(h)
         \/ \E w \in TplSpaces : ArchiveSpace(h, w)
         \/ TplBreakOff(h)
    \/ \E w \in TplSpaces : EndWorkspace(w)

TplSpec == TplInit /\ [][TplNext]_tplVars
----------------------------------------------------------------------------
TplTypeOK ==
    /\ tplRow \in [TplRows -> [uid : TplUids \cup {NoUid}, live : BOOLEAN, flow : 0..MaxTplVersions]]
    /\ tplVersion \in [TplVersions -> [row : 0..MaxTplRows, number : 0..MaxTplVersions, latest : BOOLEAN]]
    /\ tplFlow \in [TplVersions -> [uid : TplUids \cup {NoUid}, live : BOOLEAN, numbers : SUBSET TplVersions]]
    /\ tplClock \in 0..MaxTplVersions
    /\ tplSpace \in [TplSpaces -> [row : 0..MaxTplRows, state : {"None", "Live", "Terminating", "Terminated"}]]
    /\ DOMAIN tplReq = TplHandlers
    /\ tplFaults \in 0..MaxTplFaults
    /\ tplRaced \subseteq TplUids

TplSound(u) == TplQuiet(u) /\ tplFaults = 0 /\ u \notin tplRaced

(* With no failure and no overlapping requests for its uid, a live template *)
(* has one latest version, and that is the newest version of its own live   *)
(* workflow template: the form users fill in is the one that runs.          *)
LatestCorrespond ==
    \A u \in TplUids : TplSound(u) =>
        \A r \in LiveTpl(u) : \E v \in VersionRows(r) :
            /\ LatestRows(r) = {v}
            /\ LiveFlow(u) = {tplRow[r].flow}
            /\ tplVersion[v].number = Max(tplFlow[tplRow[r].flow].numbers)

(* Under the same conditions a uid without a live template has no live      *)
(* workflow template either, so that the name can be used again.            *)
NameFree ==
    \A u \in TplUids : TplSound(u) /\ LiveTpl(u) = {} => LiveFlow(u) = {}

(* The two tables that a creation, an update and an archiving change one    *)
(* after the other say the same of a uid, live template or not.             *)
TemplatesAgree == LatestCorrespond /\ NameFree

(* The check before archiving keeps live workspaces from losing their       *)
(* template, failures or not, unless requests for the uid overlapped.       *)
NotStranded ==
    \A w \in TplSpaces : tplSpace[w].state = "Live" =>
        tplRow[tplSpace[w].row].live \/ tplRow[tplSpace[w].row].uid \in tplRaced

(* "ListWorkspacesByTemplateID will return all the workspaces for a given   *)
(* workspace template id", and those archiving a template archives.         *)
ArchivesItsOwn ==
    [][\A h \in TplHandlers, w \in TplSpaces :
         ArchiveSpace(h, w) => tplRow[tplSpace[w].row].uid = tplReq[h].uid]_tplVars

(* The workflow templates generated under a uid, as a TemplateHistory.      *)
FlowStage(u) ==
    [f \in TplVersions |-> IF tplFlow[f].uid # u THEN "Absent"
                           ELSE IF tplFlow[f].live THEN "Live" ELSE "Archived"]
FlowNumbers(u) ==
    [f \in TplVersions |-> IF tplFlow[f].uid = u THEN tplFlow[f].numbers ELSE {}]

FlowHistory(u) == INSTANCE TemplateHistory WITH
    Templates <- TplVersions, Numbers <- TplVersions,
    stage <- FlowStage(u), history <- FlowNumbers(u)

(* However the requests for workspace templates overlap or fail, what they  *)
(* ask for of the workflow templates of a uid is what WorkflowTemplate is   *)
(* shown to provide: one live at a time, none revived, versions in order.   *)
FlowsImplementHistory ==
    /\ \A u \in TplUids : FlowHistory(u)!Init
    /\ [][\A u \in TplUids :
            UNCHANGED <<FlowStage(u), FlowNumbers(u)>> \/ FlowHistory(u)!Next]_tplVars
=============================================================================
