------------------------ MODULE WorkspaceClusterProofs ------------------------
(***************************************************************************)
(* For users who take one action at a time: the table tells the truth      *)
(* about the cluster, and every row follows the abstract life cycle, for   *)
(* any number of attempts of which fewer are lost.                         *)
(*                                                                         *)
(* Between two actions the table and the cluster are AtRest.  An action    *)
(* that has been read rests on that (Turn) until its phase is written;     *)
(* from then on the row, the calls and the cluster tell one Story, that of *)
(* its workflow, until the workflow and its calls are gone.                *)
(***************************************************************************)
EXTENDS WorkspaceCluster, WorkspaceProofs

(* A workflow is busy until it has ended and its calls have been handled.   *)
Busy(w) ==
    \/ wf[w].stage \notin {"unused", "done"}
    \/ \E c \in calls : c.wf = w

SomeLive == \E r \in Rows : Live(r)
AllIdle == \A q \in Reqs : req[q].pc = "idle"

(* The table and the cluster between two actions.                           *)
AtRest ==
    /\ \A r \in Rows : rows[r].phase \notin Transitional
    /\ \A r \in Rows : rows[r].phase = "Running" => k8s = Resource
    /\ \A r \in Rows : rows[r].phase = "Paused" => k8s \subseteq {"pvc"}
    /\ ~SomeLive => k8s = {}

(* A request under way is the only one, and what it has read still holds.   *)
Turn(q) ==
    req[q].pc # "idle" =>
        /\ AtRest
        /\ calls = {}
        /\ \A p \in Reqs : req[p].pc # "idle" => p = q
        /\ \A w \in Wfs : Busy(w) => req[q].pc = "write" /\ w = req[q].wf
        /\ req[q].pc = "write" =>
             wf[req[q].wf].stage = "routes" /\ wf[req[q].wf].done = {}
        /\ req[q].op = "create" <=> ~SomeLive
        /\ req[q].op = "start" => rows[req[q].row].phase = "Failed to launch"
        /\ req[q].pc = "reread" => req[q].op \notin {"create", "start"}

(* TimesMatchPhase, and what a failed launch leaves for its retry.          *)
Timed(row) ==
    /\ row.phase \in {"Pausing", "Paused", "Failed to pause"} => row.paused /\ ~row.started
    /\ row.phase \in {"Launching", "Updating", "Running", "Failed to launch"} => ~row.paused
    /\ row.phase \in {"Terminating", "Terminated", "Failed to terminate"} =>
         row.terminated /\ ~row.started /\ ~row.paused
    /\ row.phase # "Failed to resume"

FailureOf(act) ==
    CASE act = "create" -> "Failed to launch"
      [] act = "update" -> "Failed to update"
      [] act = "pause"  -> "Failed to pause"
      [] act = "delete" -> "Failed to terminate"

TimedFor(act, row) ==
    /\ act \in {"create", "update"} => ~row.paused
    /\ act = "pause" => row.paused /\ ~row.started
    /\ act = "delete" => row.terminated /\ ~row.started /\ ~row.paused

(* What a workflow has done to the cluster is still so.                     *)
Brought(f, cluster) ==
    /\ f.act \in {"create", "update"} =>
         /\ "routes" \in f.done => "routes" \in cluster
         /\ "stateful-set" \in f.done => {"stateful-set", "pvc"} \subseteq cluster
    /\ f.act \in {"pause", "delete"} =>
         /\ "routes" \in f.done => "routes" \notin cluster
         /\ "stateful-set" \in f.done => "stateful-set" \notin cluster
    /\ f.act = "delete" /\ "pvc" \in f.done => "pvc" \notin cluster

Reporting(f) == f.stage = "set-phase" \/ "set-phase" \in f.done
FailedEarly(f) == f.status = "Failed" /\ "set-phase" \notin f.done

(* The live row, as far as its workflow has come.                           *)
RowTold(row, f) ==
    /\ row.phase \in {PhaseOf(f.act), TargetPhase(f.act), FailureOf(f.act), "Failed"}
    /\ TimedFor(f.act, row)
    /\ "set-phase" \in f.done => f.act # "delete" /\ row.phase \in {TargetPhase(f.act), "Failed"}
    /\ row.phase = PhaseOf(f.act) => f.stage # "done"
    /\ row.phase = TargetPhase(f.act) => Prepared(f) /\ Reporting(f)
    /\ row.phase = FailureOf(f.act) => FailedEarly(f)
    /\ row.phase = "Failed" => f.status = "Failed"

(* A call of the workflow, against the row it will write.                   *)
CallFits(c, row, f) ==
    /\ c.at = "decided" /\ c.phase = "Failed" => row.phase # PhaseOf(f.act)
    /\ c.at = "decided" /\ c.phase # "Failed" => c.phase = FailureOf(f.act) /\ FailedEarly(f)
    /\ c.phase \in Reported => Reporting(f)

Paid(f, lost) == f.stage \in {"set-phase", "exit"} => f.tries + lost >= MaxTries

Story(w) ==
    /\ Brought(wf[w], k8s)
    /\ SomeLive => Paid(wf[w], losses)
    /\ \A r \in Rows : Live(r) =>
         /\ RowTold(rows[r], wf[w])
         /\ \A c \in calls : CallFits(c, rows[r], wf[w])
    /\ ~SomeLive => wf[w].act = "delete" /\ Prepared(wf[w])

OneStory ==
    AllIdle =>
        /\ \A v, w \in Wfs : Busy(v) /\ Busy(w) => v = w
        /\ \A w \in Wfs : Busy(w) => Story(w)
        /\ (\A w \in Wfs : ~Busy(w)) => AtRest

ClusterInv ==
    /\ Good
    /\ \A w \in Wfs : Told(wf[w])
    /\ \A c \in calls : CallTold(c)
    /\ k8s \subseteq Resource
    /\ \A r \in Rows : Timed(rows[r])
    /\ \A q \in Reqs : Turn(q)
    /\ OneStory
-----------------------------------------------------------------------------
(* Steps of the composition are steps of Workspace.                         *)
LEMMA ClusterSteps ==
    ASSUME ClusterInv, [CNext]_cvars
    PROVE  /\ [Next]_vars
           /\ Good'
           /\ \A w \in Wfs : Told(wf'[w])
           /\ \A c \in calls' : CallTold(c)'
<1>1. [Next]_vars
  BY DEF CNext, cvars, Begin, Continue, Break, Work, Handle, Lose, Next, RequestStep,
         WorkflowStep, CallStep
<1>2. QED
  BY <1>1, NextGood, ToldKept, CallsToldKept DEF ClusterInv

LEMMA ClusterTypes ==
    ASSUME Good
    PROVE  /\ rows \in [Rows -> Row] /\ wf \in [Wfs -> Workflow] /\ req \in [Reqs -> Request]
           /\ \A c \in calls : /\ c \in Call /\ c.wf \in Created /\ c.wf \in Wfs
                               /\ c.task \in {"set-phase", "exit"}
           /\ losses \in Nat /\ losses <= MaxLosses /\ MaxTries \in Nat /\ losses < MaxTries
BY WorkspaceAssumption, LossesAssumption DEF Good, TypeOK, Call, CallOf, CallOK, Created

(* While a workflow is at work, or a call under way, no request is.         *)
LEMMA OthersIdle ==
    ASSUME ClusterInv, NEW w \in Wfs, Busy(w), \/ \A q \in Reqs : req[q].wf # w
                                               \/ calls # {}
    PROVE  AllIdle /\ Story(w) /\ \A v \in Wfs \ {w} : ~Busy(v)
<1>1. AllIdle
  BY DEF ClusterInv, Turn, AllIdle
<1>2. QED
  BY <1>1 DEF ClusterInv, OneStory

(* When the story of a workflow ends, everything is at rest.                *)
LEMMA EndsAtRest ==
    ASSUME Good', k8s' \subseteq Resource, NEW w \in Wfs, Story(w)', wf'[w].stage = "done"
    PROVE  AtRest'
<1> DEFINE f == wf'[w]
<1>1. f \in Workflow /\ rows' \in [Rows -> Row]
  BY DEF Good, TypeOK
<1>2. Prepared(f) => {"routes", "stateful-set"} \subseteq f.done /\ (f.act = "delete" => "pvc" \in f.done)
  BY DEF Prepared
<1>3. ASSUME NEW r \in Rows, Live(r)'
      PROVE  /\ rows'[r].phase \notin Transitional
             /\ rows'[r].phase = "Running" => k8s' = Resource
             /\ rows'[r].phase = "Paused" => k8s' \subseteq {"pvc"}
  <2>1. RowTold(rows'[r], f) /\ Brought(wf[w], k8s)'
    BY <1>3 DEF Story
  <2>2. f.act \in Act /\ f.stage = "done"
    BY <1>1 DEF Workflow
  <2>3. rows'[r].phase # PhaseOf(f.act)
    BY <2>1, <2>2 DEF RowTold
  <2>4. rows'[r].phase \in {TargetPhase(f.act), FailureOf(f.act), "Failed"}
    BY <2>1, <2>3 DEF RowTold
  <2>5. rows'[r].phase \notin Transitional
    BY <2>2, <2>4 DEF Act, TargetPhase, FailureOf, Transitional
  <2>6. ASSUME rows'[r].phase \in {"Running", "Paused"}
        PROVE  rows'[r].phase = TargetPhase(f.act) /\ Prepared(f)
    BY <2>1, <2>2, <2>4, <2>6 DEF RowTold, Act, FailureOf
  <2>7. rows'[r].phase = "Running" => k8s' = Resource
    <3> SUFFICES ASSUME rows'[r].phase = "Running" PROVE k8s' = Resource
      OBVIOUS
    <3>1. f.act \in {"create", "update"}
      BY <2>2, <2>6 DEF Act, TargetPhase
    <3>2. {"routes", "stateful-set", "pvc"} \subseteq k8s'
      BY <1>2, <2>1, <2>6, <3>1 DEF Brought
    <3>3. QED
      BY <3>2 DEF Resource
  <2>8. rows'[r].phase = "Paused" => k8s' \subseteq {"pvc"}
    <3> SUFFICES ASSUME rows'[r].phase = "Paused" PROVE k8s' \subseteq {"pvc"}
      OBVIOUS
    <3>1. f.act = "pause"
      BY <2>2, <2>6 DEF Act, TargetPhase
    <3>2. "routes" \notin k8s' /\ "stateful-set" \notin k8s'
      BY <1>2, <2>1, <2>6, <3>1 DEF Brought
    <3>3. QED
      BY <3>2 DEF Resource
  <2>9. QED
    BY <2>5, <2>7, <2>8
<1>4. ASSUME ~SomeLive' PROVE k8s' = {}
  <2>1. Brought(wf[w], k8s)' /\ Prepared(f) /\ f.act = "delete"
    BY <1>4 DEF Story
  <2>2. QED
    BY <1>2, <2>1 DEF Brought, Resource
<1>5. \A r \in Rows : ~Live(r)' => rows'[r].phase \notin Transitional \cup {"Running", "Paused"}
  BY DEF Live, Transitional
<1>6. QED
  BY <1>3, <1>4, <1>5 DEF AtRest

(* A step of the workflow whose turn it is goes on with its story.          *)
LEMMA StoryGoesOn ==
    ASSUME ClusterInv, Good', NEW w \in Wfs, AllIdle, \A v \in Wfs \ {w} : ~Busy(v),
           req' = req, k8s' \subseteq Resource,
           \A v \in Wfs \ {w} : wf'[v] = wf[v],
           \A c \in calls' : c \in calls \/ c.wf = w,
           w \in Created, Kept, Story(w)'
    PROVE  OneStory' /\ \A q \in Reqs : Turn(q)'
<1>1. \A v \in Wfs \ {w} : ~Busy(v)'
  BY DEF Busy
<1>2. AllIdle' /\ \A q \in Reqs : Turn(q)'
  BY DEF AllIdle, Turn
<1>3. ASSUME ~Busy(w)' PROVE AtRest'
  <2>1. wf'[w].stage = "done"
    BY <1>3 DEF Busy, Kept, Keeps
  <2>2. QED
    BY <2>1, EndsAtRest
<1>4. QED
  BY <1>1, <1>2, <1>3 DEF OneStory
-----------------------------------------------------------------------------
(* Requests.                                                                *)
LEMMA BeginKept ==
    ASSUME ClusterInv, NEW q \in Reqs, Begin(q)
    PROVE  /\ \A r \in Rows : Timed(rows'[r])
           /\ k8s' \subseteq Resource
           /\ \A p \in Reqs : Turn(p)'
           /\ OneStory'
<1>1. /\ AllIdle /\ calls = {} /\ \A w \in Wfs : ~Busy(w)
      /\ rows' = rows /\ wf' = wf /\ calls' = calls /\ k8s' = k8s
  BY DEF Begin, Quiet, AllIdle, Busy, CreateRead, RetryRead, ActionRead
<1>2. AtRest /\ AtRest'
  BY <1>1 DEF ClusterInv, OneStory, AtRest, SomeLive, Live
<1>3. \A w \in Wfs : ~Busy(w)'
  BY <1>1 DEF Busy
<1>4. req \in [Reqs -> Request]
  BY ClusterTypes DEF ClusterInv
<1>5. /\ \A p \in Reqs \ {q} : req'[p] = req[p]
      /\ req'[q].pc \in {"launch", "reread"}
      /\ req'[q].op = "create" <=> ~SomeLive
      /\ req'[q].op = "start" => rows[req'[q].row].phase = "Failed to launch"
      /\ req'[q].pc = "reread" => req'[q].op \notin {"create", "start"}
  <2>1. CASE CreateRead(q)
    BY <1>4, <2>1 DEF CreateRead, Idle, SomeLive
  <2>2. CASE \E op \in Actions : ActionRead(q, op)
    <3>1. PICK op \in Actions, r \in Rows :
            /\ Live(r)
            /\ req' = [req EXCEPT ![q] = [op |-> op, pc |-> "launch", row |-> r, wf |-> NoWf]]
      BY <2>2 DEF ActionRead
    <3>2. op \notin {"create", "start"}
      BY WorkspaceAssumption
    <3>3. QED
      BY <1>4, <3>1, <3>2 DEF SomeLive
  <2>3. CASE RetryRead(q)
    <3>1. PICK r \in Rows :
            /\ Live(r) /\ rows[r].phase \in FailedTo
            /\ req' = [req EXCEPT ![q] =
                 [op |-> RetryOp(rows[r].phase),
                  pc |-> IF RetryOp(rows[r].phase) = "start" THEN "launch" ELSE "reread",
                  row |-> r, wf |-> NoWf]]
      BY <2>3 DEF RetryRead
    <3>2. /\ RetryOp(rows[r].phase) # "create"
          /\ RetryOp(rows[r].phase) = "start" => rows[r].phase = "Failed to launch"
      BY <3>1 DEF RetryOp, FailedTo
    <3>3. QED
      BY <1>4, <3>1, <3>2 DEF SomeLive
  <2>4. QED
    BY <2>1, <2>2, <2>3 DEF Begin
<1>6. SomeLive' <=> SomeLive
  BY <1>1 DEF SomeLive, Live
<1>7. \A p \in Reqs : Turn(p)'
  BY <1>1, <1>2, <1>3, <1>5, <1>6 DEF Turn, AllIdle
<1>8. ~AllIdle'
  BY <1>5 DEF AllIdle
<1>9. QED
  BY <1>1, <1>7, <1>8 DEF ClusterInv, OneStory

(* A request that ends before it has made a workflow leaves things at rest. *)
LEMMA FinishedAtRest ==
    ASSUME ClusterInv, NEW q \in Reqs, req[q].pc \notin {"idle", "write"}, Finish(q),
           rows' = rows, wf' = wf, calls' = calls, k8s' = k8s
    PROVE  OneStory' /\ \A p \in Reqs : Turn(p)'
<1>1. Turn(q) /\ req \in [Reqs -> Request]
  BY ClusterTypes DEF ClusterInv
<1>2. AtRest /\ \A w \in Wfs : ~Busy(w)
  BY <1>1 DEF Turn
<1>3. AtRest' /\ \A w \in Wfs : ~Busy(w)'
  BY <1>2 DEF AtRest, Busy, SomeLive, Live
<1>4. AllIdle'
  BY <1>1 DEF Turn, AllIdle, Finish, Idle
<1>5. QED
  BY <1>3, <1>4 DEF OneStory, Turn, AllIdle

(* The phase is written for a workflow that has not begun: its story begins. *)
LEMMA StoryBegins ==
    ASSUME ClusterInv, NEW q \in Reqs, req[q].pc = "write", Finish(q),
           wf' = wf, calls' = calls, k8s' = k8s, NEW w, w = req[q].wf,
           \E r \in Rows : Live(r)',
           \A r \in Rows : Live(r)' =>
               rows'[r].phase = PhaseOf(wf[w].act) /\ TimedFor(wf[w].act, rows'[r])
    PROVE  OneStory' /\ \A p \in Reqs : Turn(p)'
<1>1. Turn(q) /\ RequestOK(req[q]) /\ req \in [Reqs -> Request] /\ wf \in [Wfs -> Workflow]
  BY ClusterTypes DEF ClusterInv, Good
<1>2. /\ w \in Wfs /\ wf[w].stage = "routes" /\ wf[w].done = {} /\ calls = {}
      /\ \A v \in Wfs : Busy(v) => v = w
  BY <1>1 DEF Turn, RequestOK, Created
<1>3. AllIdle'
  BY <1>1 DEF Turn, AllIdle, Finish, Idle
<1>4. \A v \in Wfs : Busy(v)' <=> v = w
  BY <1>2 DEF Busy
<1>5. wf[w].act \in Act
  BY <1>1, <1>2 DEF Workflow
<1>6. /\ PhaseOf(wf[w].act) # TargetPhase(wf[w].act)
      /\ PhaseOf(wf[w].act) # FailureOf(wf[w].act)
      /\ PhaseOf(wf[w].act) # "Failed"
  BY <1>5 DEF Act, PhaseOf, TargetPhase, FailureOf
<1>7. \A r \in Rows : Live(r)' => RowTold(rows'[r], wf'[w])
  BY <1>2, <1>6 DEF RowTold
<1>8. SomeLive'
  BY DEF SomeLive
<1>9. Story(w)'
  BY <1>2, <1>7, <1>8 DEF Story, Brought, Paid
<1>10. QED
  BY <1>2, <1>3, <1>4, <1>9 DEF OneStory, Turn, AllIdle

(* The row an action writes, and the times it sets.                         *)
LEMMA WrittenFields ==
    ASSUME NEW row \in Row, NEW ph \in Phase
    PROVE  /\ StatusFields(row, ph).phase = ph
           /\ ph \notin Transitional =>
                /\ StatusFields(row, ph).paused = row.paused
                /\ StatusFields(row, ph).started = row.started
                /\ StatusFields(row, ph).terminated = row.terminated
           /\ ph \in {"Launching", "Updating"} => ~StatusFields(row, ph).paused
           /\ ph = "Pausing" => StatusFields(row, ph).paused /\ ~StatusFields(row, ph).started
           /\ ph = "Terminating" =>
                /\ StatusFields(row, ph).terminated
                /\ ~StatusFields(row, ph).started /\ ~StatusFields(row, ph).paused
<1> DEFINE new == StatusFields(row, ph)
<1>1. CASE ph \notin Transitional
  <2>1. ph \notin {"Launching", "Updating", "Pausing", "Terminating"}
    BY <1>1 DEF Transitional
  <2>2. new.phase = ph /\ new.started = row.started /\ new.paused = row.paused
    BY <2>1 DEF StatusFields
  <2>3. new.terminated = (row.terminated \/ ph = "Terminating") /\ row.terminated \in BOOLEAN
    BY DEF StatusFields, Row
  <2>4. QED
    BY <2>1, <2>2, <2>3
<1>2. CASE ph = "Launching"
  BY <1>2 DEF StatusFields, Transitional
<1>3. CASE ph = "Updating"
  <2>1. new.phase = "Updating" /\ new.paused = FALSE
    BY <1>3 DEF StatusFields
  <2>2. QED
    BY <1>3, <2>1 DEF Transitional
<1>4. CASE ph = "Pausing"
  BY <1>4 DEF StatusFields, Transitional
<1>5. CASE ph = "Terminating"
  <2>1. new.phase = "Terminating" /\ new.terminated = TRUE /\ new.started = FALSE /\ new.paused = FALSE
    BY <1>5 DEF StatusFields, Row
  <2>2. QED
    BY <1>5, <2>1 DEF Transitional
<1>6. QED
  BY <1>1, <1>2, <1>3, <1>4, <1>5 DEF Transitional

LEMMA WriteKept ==
    ASSUME ClusterInv, NEW q \in Reqs, InsertRow(q) \/ RestartRow(q) \/ WritePhase(q), k8s' = k8s
    PROVE  /\ \A r \in Rows : Timed(rows'[r])
           /\ OneStory' /\ \A p \in Reqs : Turn(p)'
<1> DEFINE w == req[q].wf
<1>1. /\ rows \in [Rows -> Row] /\ req[q] \in Request /\ req[q].pc = "write"
      /\ Finish(q) /\ wf' = wf /\ calls' = calls
  BY ClusterTypes DEF ClusterInv, InsertRow, RestartRow, WritePhase
<1>2. /\ Turn(q) /\ RequestOK(req[q]) /\ AtMostOneLive
      /\ \A r \in Rows : Timed(rows[r])
  BY DEF ClusterInv, Good
<1>3. wf[w].act = ActOf(req[q].op) /\ (req[q].op = "create" <=> ~SomeLive)
  BY <1>1, <1>2 DEF RequestOK, Turn
<1>4. CASE InsertRow(q)
  <2>1. PICK r \in Rows :
          /\ rows[r].phase = "Absent"
          /\ IF IndexAllows(r)
             THEN rows' = [rows EXCEPT ![r] = [phase |-> "Launching", started |-> TRUE,
                                               paused |-> FALSE, terminated |-> FALSE]]
             ELSE rows' = rows
    BY <1>4 DEF InsertRow
  <2>2. req[q].op = "create" /\ wf[w].act = "create" /\ \A s \in Rows : ~Live(s)
    BY <1>3, <1>4 DEF InsertRow, ActOf, SomeLive
  <2>3. rows' = [rows EXCEPT ![r] = [phase |-> "Launching", started |-> TRUE,
                                     paused |-> FALSE, terminated |-> FALSE]]
    BY <2>1, <2>2 DEF IndexAllows
  <2>4. /\ rows'[r].phase = "Launching" /\ ~rows'[r].paused
        /\ \A s \in Rows \ {r} : rows'[s] = rows[s]
    BY <1>1, <2>3
  <2>5. \A s \in Rows : Timed(rows'[s])
    BY <1>2, <2>4 DEF Timed
  <2>6. \A s \in Rows : Live(s)' <=> s = r
    BY <2>2, <2>4 DEF Live
  <2>7. \A s \in Rows : Live(s)' =>
          rows'[s].phase = PhaseOf(wf[w].act) /\ TimedFor(wf[w].act, rows'[s])
    BY <2>2, <2>4, <2>6 DEF PhaseOf, TimedFor
  <2>8. QED
    BY <1>1, <2>5, <2>6, <2>7, StoryBegins
<1>5. CASE RestartRow(q)
  <2> DEFINE r == req[q].row
  <2>1. r \in Rows /\ rows[r].phase = "Failed to launch" /\ req[q].op = "start"
    BY <1>1, <1>2, <1>5 DEF RestartRow, RequestOK, Turn
  <2>2. Live(r) /\ \A s \in Rows \ {r} : ~Live(s)
    BY <1>2, <2>1 DEF AtMostOneLive, Live
  <2>3. rows' = [rows EXCEPT ![r].phase = "Launching", ![r].started = TRUE]
    BY <1>5, <2>2 DEF RestartRow, IndexAllows
  <2>4. /\ rows'[r].phase = "Launching" /\ ~rows'[r].paused
        /\ \A s \in Rows \ {r} : rows'[s] = rows[s]
    <3>1. rows[r] \in Row /\ ~rows[r].paused
      BY <1>1, <1>2, <2>1 DEF Timed
    <3>2. QED
      BY <1>1, <2>1, <2>3, <3>1 DEF Row
  <2>5. \A s \in Rows : Timed(rows'[s])
    BY <1>2, <2>4 DEF Timed
  <2>6. \A s \in Rows : Live(s)' <=> s = r
    BY <2>1, <2>2, <2>4 DEF Live
  <2>7. wf[w].act = "create"
    BY <1>3, <2>1 DEF ActOf
  <2>8. \A s \in Rows : Live(s)' =>
          rows'[s].phase = PhaseOf(wf[w].act) /\ TimedFor(wf[w].act, rows'[s])
    BY <2>4, <2>6, <2>7 DEF PhaseOf, TimedFor
  <2>9. QED
    BY <1>1, <2>1, <2>5, <2>6, <2>8, StoryBegins
<1>6. CASE WritePhase(q)
  <2>1. PICK ph : ph = PhaseOf(req[q].op)
    OBVIOUS
  <2>2. /\ ph \in Transitional /\ ph \in Phase /\ ph = PhaseOf(wf[w].act)
        /\ wf[w].act = "create" => ph = "Launching"
        /\ wf[w].act = "update" => ph = "Updating"
        /\ wf[w].act = "pause" => ph = "Pausing"
        /\ wf[w].act = "delete" => ph = "Terminating"
    <3>1. req[q].op \in Op
      BY <1>1 DEF Request
    <3>2. QED
      BY <1>3, <2>1, <3>1 DEF PhaseOf, ActOf, Op, Transitional, Phase
  <2>3. SomeLive /\ UpdateStatus(ph)
    BY <1>3, <1>6, <2>1 DEF WritePhase
  <2>4. \A r \in Rows : /\ Live(r) => rows'[r] = StatusFields(rows[r], ph)
                        /\ ~Live(r) => rows'[r] = rows[r]
    BY <2>3 DEF UpdateStatus
  <2>5. ASSUME NEW r \in Rows, Live(r)
        PROVE  /\ rows'[r].phase = ph
               /\ ph \in {"Launching", "Updating"} => ~rows'[r].paused
               /\ ph = "Pausing" => rows'[r].paused /\ ~rows'[r].started
               /\ ph = "Terminating" => rows'[r].terminated /\ ~rows'[r].started /\ ~rows'[r].paused
    <3>1. rows[r] \in Row
      BY <1>1
    <3>2. QED
      BY <2>2, <2>4, <2>5, <3>1, WrittenFields
  <2>6. \A r \in Rows : Timed(rows'[r])
    BY <1>2, <2>2, <2>4, <2>5 DEF Timed, Transitional
  <2>7. \A r \in Rows : Live(r)' <=> Live(r)
    BY <2>2, <2>4, <2>5 DEF Live, Transitional
  <2>8. \A r \in Rows : Live(r)' =>
          rows'[r].phase = PhaseOf(wf[w].act) /\ TimedFor(wf[w].act, rows'[r])
    BY <2>2, <2>5, <2>7 DEF TimedFor, Transitional
  <2>9. \E r \in Rows : Live(r)'
    BY <2>3, <2>7 DEF SomeLive
  <2>10. QED
    BY <1>1, <2>6, <2>8, <2>9, StoryBegins
<1>7. QED
  BY <1>4, <1>5, <1>6

LEMMA LaunchKept ==
    ASSUME ClusterInv, NEW q \in Reqs, LaunchWorkflow(q), k8s' = k8s
    PROVE  OneStory' /\ \A p \in Reqs : Turn(p)'
<1>1. PICK w \in Wfs \ Created :
        /\ wf' = [wf EXCEPT ![w] = [Unused EXCEPT !.act = ActOf(req[q].op),
                                                  !.by = req[q].op, !.stage = "routes"]]
        /\ req' = [req EXCEPT ![q].pc = "write", ![q].wf = w]
  BY DEF LaunchWorkflow
<1>2. /\ wf \in [Wfs -> Workflow] /\ req \in [Reqs -> Request]
      /\ rows' = rows /\ calls' = calls /\ req[q].pc = "launch"
  BY ClusterTypes DEF ClusterInv, LaunchWorkflow
<1>3. Turn(q)
  BY DEF ClusterInv
<1>4. AtRest /\ calls = {} /\ \A v \in Wfs : ~Busy(v)
  BY <1>2, <1>3 DEF Turn
<1>5. /\ wf'[w].stage = "routes" /\ wf'[w].done = {}
      /\ \A v \in Wfs \ {w} : wf'[v] = wf[v]
  BY <1>1, <1>2 DEF Unused
<1>6. \A v \in Wfs : Busy(v)' => v = w
  BY <1>2, <1>4, <1>5 DEF Busy
<1>7. /\ req'[q].pc = "write" /\ req'[q].wf = w /\ req'[q].op = req[q].op /\ req'[q].row = req[q].row
      /\ \A p \in Reqs \ {q} : req'[p] = req[p]
  <2>1. req[q] \in Request
    BY <1>2
  <2>2. QED
    BY <1>1, <1>2, <2>1 DEF Request
<1>8. AtRest' /\ (SomeLive' <=> SomeLive)
  BY <1>2, <1>4 DEF AtRest, SomeLive, Live
<1>9. \A p \in Reqs \ {q} : req'[p].pc = "idle"
  BY <1>2, <1>3, <1>7 DEF Turn
<1>10. Turn(q)'
  BY <1>2, <1>3, <1>4, <1>5, <1>6, <1>7, <1>8, <1>9 DEF Turn
<1>11. QED
  BY <1>7, <1>9, <1>10 DEF Turn, OneStory, AllIdle

LEMMA ContinueKept ==
    ASSUME ClusterInv, NEW q \in Reqs, Continue(q) \/ Break(q)
    PROVE  /\ \A r \in Rows : Timed(rows'[r])
           /\ k8s' \subseteq Resource
           /\ \A p \in Reqs : Turn(p)'
           /\ OneStory'
<1>1. k8s' = k8s /\ k8s \subseteq Resource /\ \A r \in Rows : Timed(rows[r])
  BY DEF Continue, Break, ClusterInv
<1>2. CASE InsertRow(q) \/ RestartRow(q) \/ WritePhase(q)
  BY <1>1, <1>2, WriteKept
<1>3. CASE LaunchWorkflow(q)
  BY <1>1, <1>3, LaunchKept DEF LaunchWorkflow
<1>4. CASE Break(q)
  BY <1>1, <1>4, FinishedAtRest DEF Break, Abort
<1>5. CASE Reread(q)
  <2>1. /\ Turn(q) /\ req[q].pc = "reread" /\ req \in [Reqs -> Request]
        /\ rows' = rows /\ wf' = wf /\ calls' = calls
    BY <1>5, ClusterTypes DEF Reread, ClusterInv
  <2>2. SomeLive
    BY <2>1 DEF Turn
  <2>3. req' = [req EXCEPT ![q].pc = "launch"]
    BY <1>5, <2>2 DEF Reread, Goto, SomeLive
  <2>4. /\ req'[q].pc = "launch" /\ req'[q].op = req[q].op /\ req'[q].row = req[q].row
        /\ \A p \in Reqs \ {q} : req'[p] = req[p]
    <3>1. req[q] \in Request
      BY <2>1
    <3>2. QED
      BY <2>1, <2>3, <3>1 DEF Request
  <2>5. AtRest' /\ (SomeLive' <=> SomeLive) /\ \A w \in Wfs : Busy(w)' <=> Busy(w)
    BY <1>1, <2>1 DEF Turn, AtRest, SomeLive, Live, Busy
  <2>6. \A p \in Reqs : Turn(p)'
    BY <2>1, <2>4, <2>5 DEF Turn
  <2>7. QED
    BY <1>1, <2>1, <2>4, <2>6 DEF OneStory, AllIdle
<1>6. QED
  BY <1>2, <1>3, <1>4, <1>5 DEF Continue
-----------------------------------------------------------------------------
(* Argo runs the tasks of the workflow whose turn it is.                    *)
LEMMA EffectBrings ==
    ASSUME NEW f \in Workflow, NEW t \in Resource, Brought(f, k8s), k8s \subseteq Resource,
           k8s' \in {k8s, Effect(f.act, t)}
    PROVE  /\ k8s' \subseteq Resource
           /\ Brought(f, k8s')
           /\ k8s' = Effect(f.act, t) => Brought([f EXCEPT !.done = @ \cup {t}], k8s')
<1>1. CASE f.act \in {"create", "update"}
  <2>1. Effect(f.act, t) = IF t = "stateful-set" THEN k8s \cup {t, "pvc"} ELSE k8s \cup {t}
    BY <1>1 DEF Effect
  <2>2. QED
    BY <1>1, <2>1 DEF Brought, Resource, Workflow
<1>2. CASE f.act \notin {"create", "update"}
  <2>1. Effect(f.act, t) = k8s \ {t}
    BY <1>2 DEF Effect
  <2>2. QED
    BY <1>2, <2>1 DEF Brought, Resource, Workflow
<1>3. QED
  BY <1>1, <1>2

(* A workflow that is not heard of any differently tells the same story.    *)
LEMMA StoryFrame ==
    ASSUME Good, NEW w \in Wfs, Story(w), rows' = rows,
           wf'[w].act = wf[w].act, Brought(wf'[w], k8s'),
           wf[w].done \subseteq wf'[w].done,
           "set-phase" \in wf'[w].done => "set-phase" \in wf[w].done,
           Reporting(wf[w]) => Reporting(wf'[w]),
           wf[w].status = "Failed" => wf'[w].status = "Failed",
           wf'[w].stage = "done" /\ wf[w].stage # "done" => ~SomeLive,
           SomeLive => Paid(wf'[w], losses'),
           \A c \in calls' : \/ c \in calls
                             \/ c.at = "arrived" /\ (c.phase \in Reported => Reporting(wf'[w]))
    PROVE  Story(w)'
<1>1. SomeLive' <=> SomeLive
  BY DEF SomeLive, Live
<1>2. ASSUME NEW r \in Rows, Live(r)'
      PROVE  RowTold(rows'[r], wf'[w]) /\ \A c \in calls' : CallFits(c, rows'[r], wf'[w])
  <2>1. Live(r) /\ SomeLive /\ RowTold(rows[r], wf[w])
    BY <1>2 DEF Live, SomeLive, Story
  <2>2. TimedFor(wf'[w].act, rows'[r])
    BY <2>1 DEF RowTold
  <2>3. Prepared(wf[w]) => Prepared(wf'[w])
    BY DEF Prepared
  <2>4. RowTold(rows'[r], wf'[w])
    BY <2>1, <2>2, <2>3 DEF RowTold, FailedEarly
  <2>5. \A c \in calls : CallFits(c, rows[r], wf[w])
    BY <2>1 DEF Story
  <2>6. \A c \in calls : CallFits(c, rows'[r], wf'[w])
    BY <2>5 DEF CallFits, FailedEarly
  <2>7. QED
    BY <2>4, <2>6 DEF CallFits
<1>3. ~SomeLive => wf'[w].act = "delete" /\ Prepared(wf'[w])
  BY DEF Story, Prepared
<1>4. QED
  BY <1>1, <1>2, <1>3 DEF Story

LEMMA WorkStory ==
    ASSUME ClusterInv, NEW w \in Wfs, Work(w)
    PROVE  Story(w)' /\ k8s' \subseteq Resource /\ AllIdle /\ \A v \in Wfs \ {w} : ~Busy(v)
<1> DEFINE f == wf[w]  g == wf'[w]
<1>1. /\ f \in Workflow /\ w \in Created /\ wf \in [Wfs -> Workflow] /\ losses \in Nat /\ losses < MaxTries
      /\ MaxTries \in Nat
      /\ rows' = rows /\ WorkflowStep(w)
  BY ClusterTypes, TaskGives DEF ClusterInv, Work, WorkflowStep, TaskSucceeds, TaskFails,
         PostExecutionSucceeds, PostExecutionFails, SendCall, GiveUp
<1>2. f.stage \notin {"unused", "done"}
  BY <1>1 DEF WorkflowStep, TaskSucceeds, TaskFails, PostExecutionSucceeds,
         PostExecutionFails, SendCall, GiveUp, Resource
<1>3. AllIdle /\ Story(w) /\ \A v \in Wfs \ {w} : ~Busy(v)
  BY <1>2, OthersIdle DEF Work, Unhurried, Busy
<1>4. /\ Brought(f, k8s) /\ k8s \subseteq Resource /\ Good /\ Told(f)
      /\ f.status # "Running" <=> f.stage \in {"exit", "done"}
  BY <1>1, <1>3 DEF Story, ClusterInv, Good, WorkflowInv
<1>5. CASE TaskSucceeds(w) /\ k8s' = Effect(f.act, f.stage)
  <2>1. f.stage \in Resource /\ calls' = calls /\ losses' = losses
    BY <1>5 DEF TaskSucceeds
  <2>2. NextTask(f.act, f.stage) \notin {"exit", "done"}
    BY <2>1 DEF NextTask, Resource
  <2>3. /\ g.act = f.act /\ g.done = f.done \cup {f.stage} /\ g.tries = MaxTries
        /\ g.status = f.status /\ g.stage = NextTask(f.act, f.stage)
    BY <1>1, <1>5, <2>2 DEF TaskSucceeds, Goes, Workflow
  <2>4. Brought([f EXCEPT !.done = @ \cup {f.stage}], k8s') /\ k8s' \subseteq Resource
    BY <1>1, <1>4, <1>5, <2>1, EffectBrings
  <2>5. Brought(g, k8s')
    <3>1. [f EXCEPT !.done = @ \cup {f.stage}].done = g.done /\ [f EXCEPT !.done = @ \cup {f.stage}].act = g.act
      BY <1>1, <2>3 DEF Workflow
    <3>2. QED
      BY <2>4, <3>1 DEF Brought
  <2>6. /\ "set-phase" \in g.done => "set-phase" \in f.done
        /\ Reporting(f) => Reporting(g)
        /\ Paid(g, losses')
    BY <1>1, <2>1, <2>3 DEF Reporting, Resource, Paid
  <2>7. QED
    BY <1>1, <1>2, <1>3, <1>4, <2>1, <2>2, <2>3, <2>4, <2>5, <2>6, StoryFrame
<1>6. CASE TaskFails(w) /\ k8s' \in {k8s, Effect(f.act, f.stage)}
  <2>1. f.stage \in Resource /\ calls' = calls /\ losses' = losses
    BY <1>6 DEF TaskFails
  <2>2. /\ g.act = f.act /\ g.done = f.done /\ g.tries = MaxTries
        /\ g.status = "Failed" /\ g.stage = "exit"
    BY <1>1, <1>6 DEF TaskFails, Fails, Workflow
  <2>3. Brought(f, k8s') /\ k8s' \subseteq Resource
    BY <1>1, <1>4, <1>6, <2>1, EffectBrings
  <2>4. Brought(g, k8s')
    BY <2>2, <2>3 DEF Brought
  <2>5. Paid(g, losses') /\ (Reporting(f) => Reporting(g))
    BY <1>1, <2>1, <2>2 DEF Reporting, Resource, Paid
  <2>6. QED
    BY <1>1, <1>2, <1>3, <1>4, <2>1, <2>2, <2>3, <2>4, <2>5, StoryFrame
<1>7. ASSUME k8s' = k8s, g.act = f.act, g.done \ {"post-execution"} = f.done \ {"post-execution"}
      PROVE  Brought(g, k8s')
  BY <1>4, <1>7 DEF Brought
<1>8. CASE (PostExecutionSucceeds(w) \/ PostExecutionFails(w)) /\ UNCHANGED k8s
  <2>1. f.stage = "post-execution" /\ calls' = calls /\ losses' = losses /\ f.status = "Running"
    BY <1>4, <1>8 DEF PostExecutionSucceeds, PostExecutionFails
  <2>2. /\ g.act = f.act /\ f.done \subseteq g.done /\ g.done \subseteq f.done \cup {"post-execution"}
        /\ g.tries = MaxTries /\ g.stage = "exit"
    BY <1>1, <1>8, <2>1 DEF PostExecutionSucceeds, PostExecutionFails, Goes, Fails, Workflow
  <2>3. Brought(g, k8s')
    BY <1>7, <1>8, <2>2
  <2>4. /\ Paid(g, losses') /\ (Reporting(f) => Reporting(g))
        /\ "set-phase" \in g.done => "set-phase" \in f.done
    BY <1>1, <2>1, <2>2 DEF Reporting, Paid
  <2>5. QED
    BY <1>1, <1>2, <1>3, <1>4, <1>8, <2>1, <2>2, <2>3, <2>4, StoryFrame
<1>9. CASE SendCall(w) /\ UNCHANGED k8s
  <2>1. /\ g.act = f.act /\ g.done = f.done /\ g.tries = f.tries
        /\ g.status = f.status /\ g.stage = f.stage /\ losses' = losses
    BY <1>1, <1>9 DEF SendCall, Workflow
  <2>2. \A c \in calls' : \/ c \in calls
                          \/ c.at = "arrived" /\ (c.phase \in Reported => f.stage = "set-phase")
    <3>1. f.stage = "exit" => f.status \notin Reported
      BY <1>1, <1>4 DEF Workflow, Reported
    <3>2. f.stage \in {"set-phase", "exit"}
      BY <1>9 DEF SendCall
    <3>3. QED
      BY <1>9, <3>1, <3>2 DEF SendCall
  <2>3. Brought(g, k8s')
    BY <1>7, <1>9, <2>1
  <2>4. SomeLive => Paid(wf'[w], losses')
    BY <1>3, <2>1 DEF Story, Paid
  <2>5. QED
    BY <1>1, <1>2, <1>3, <1>4, <1>9, <2>1, <2>2, <2>3, <2>4, StoryFrame DEF Reporting
<1>10. CASE GiveUp(w) /\ UNCHANGED k8s
  <2>1. ~SomeLive
    <3>1. f.tries = 0 /\ f.stage \in {"set-phase", "exit"}
      BY <1>10 DEF GiveUp
    <3>2. QED
      BY <1>1, <1>3, <3>1 DEF Story, Paid
  <2>2. /\ g.act = f.act /\ g.done = f.done
        /\ f.status = "Failed" => g.status = "Failed"
        /\ calls' = calls
    BY <1>1, <1>10 DEF GiveUp, Fails, Workflow
  <2>3. Brought(g, k8s')
    BY <1>7, <1>10, <2>2
  <2>4. ~SomeLive'
    BY <1>1, <2>1 DEF SomeLive, Live
  <2>5. Story(w)'
    BY <1>3, <2>1, <2>2, <2>3, <2>4 DEF Story, SomeLive, Prepared
  <2>6. QED
    BY <1>3, <1>4, <1>10, <2>5
<1>11. QED
  BY <1>5, <1>6, <1>8, <1>9, <1>10 DEF Work

LEMMA WorkKept ==
    ASSUME ClusterInv, NEW w \in Wfs, Work(w), Good', Kept
    PROVE  /\ \A r \in Rows : Timed(rows'[r])
           /\ k8s' \subseteq Resource
           /\ \A p \in Reqs : Turn(p)'
           /\ OneStory'
<1>1. Story(w)' /\ k8s' \subseteq Resource /\ AllIdle /\ \A v \in Wfs \ {w} : ~Busy(v)
  BY WorkStory
<1>2. WorkflowStep(w) /\ req' = req /\ rows' = rows
  BY DEF Work, WorkflowStep, TaskSucceeds, TaskFails,
         PostExecutionSucceeds, PostExecutionFails, SendCall, GiveUp
<1>3. w \in Created /\ \A v \in Wfs \ {w} : wf'[v] = wf[v]
  BY <1>2, TaskGives DEF ClusterInv
<1>4. \A c \in calls' : c \in calls \/ c.wf = w
  BY <1>2 DEF WorkflowStep, TaskSucceeds, TaskFails,
         PostExecutionSucceeds, PostExecutionFails, SendCall, GiveUp
<1>5. OneStory' /\ \A p \in Reqs : Turn(p)'
  BY <1>1, <1>2, <1>3, <1>4, StoryGoesOn
<1>6. QED
  BY <1>1, <1>2, <1>5 DEF ClusterInv
-----------------------------------------------------------------------------
(* The server handles the calls of the workflow whose turn it is.           *)

(* What is known of a call that is being handled.                           *)
LEMMA CallFacts ==
    ASSUME ClusterInv, NEW c \in calls
    PROVE  /\ AllIdle /\ Story(c.wf) /\ \A v \in Wfs \ {c.wf} : ~Busy(v)
           /\ c \in Call /\ c.wf \in Wfs /\ c.wf \in Created /\ CallOK(c) /\ CallTold(c)
           /\ wf[c.wf] \in Workflow /\ wf[c.wf].act \in Act /\ Told(wf[c.wf])
           /\ wf[c.wf].status # "Running" <=> wf[c.wf].stage \in {"exit", "done"}
           /\ c.at = "decided" => c.phase \in FailedTo \cup {"Failed"}
           /\ c.phase \in FailedTo => c.at = "decided"
<1>1. c \in Call /\ c.wf \in Wfs /\ c.wf \in Created /\ CallOK(c) /\ CallTold(c)
  BY ClusterTypes DEF ClusterInv, Good
<1>2. Busy(c.wf)
  BY DEF Busy
<1>3. AllIdle /\ Story(c.wf) /\ \A v \in Wfs \ {c.wf} : ~Busy(v)
  BY <1>1, <1>2, OthersIdle
<1>4. wf[c.wf] \in Workflow /\ wf[c.wf].act \in Act /\ Told(wf[c.wf])
  BY <1>1, ClusterTypes DEF ClusterInv, Workflow
<1>5. wf[c.wf].status # "Running" <=> wf[c.wf].stage \in {"exit", "done"}
  BY <1>1 DEF ClusterInv, Good, WorkflowInv
<1>6. /\ c.at = "decided" => c.phase \in FailedTo \cup {"Failed"}
      /\ c.phase \in FailedTo => c.at = "decided"
  BY <1>1 DEF Call, CallOf, FailedTo, Reported
<1>7. QED
  BY <1>1, <1>3, <1>4, <1>5, <1>6

(* Where no row is live, nothing but the workflow's own end is told.        *)
LEMMA DeadStory ==
    ASSUME ClusterInv, NEW c \in calls, CallStep(c), k8s' = k8s, ~SomeLive, ~SomeLive'
    PROVE  Story(c.wf)'
<1>1. Story(c.wf) /\ c.wf \in Wfs /\ Good
  BY CallFacts DEF ClusterInv
<1>2. /\ wf'[c.wf].act = wf[c.wf].act
      /\ wf'[c.wf].done \in {wf[c.wf].done, wf[c.wf].done \cup {"set-phase"}}
  BY <1>1, CallGives DEF Unanswered, Ended, Reported1
<1>3. Brought(wf'[c.wf], k8s')
  BY <1>1, <1>2 DEF Story, Brought
<1>4. QED
  BY <1>1, <1>2, <1>3 DEF Story, SomeLive, Prepared

(* A call that is lost, or answered "Succeeded", leaves the row alone.      *)
LEMMA QuietCallStory ==
    ASSUME ClusterInv, NEW c \in calls, HandleSucceeded(c) \/ LoseCall(c) \/ CutConnection(c),
           k8s' = k8s
    PROVE  Story(c.wf)'
<1> DEFINE w == c.wf  f == wf[w]  g == wf'[w]
<1>1. /\ Story(w) /\ w \in Wfs /\ Good /\ f \in Workflow /\ Told(f) /\ CallTold(c)
      /\ losses \in Nat /\ MaxTries \in Nat
  BY CallFacts, ClusterTypes DEF ClusterInv
<1>2. rows' = rows /\ calls' \subseteq calls
  BY DEF HandleSucceeded, LoseCall, CutConnection
<1>3. CASE ~SomeLive
  <2>1. ~SomeLive'
    BY <1>2, <1>3 DEF SomeLive, Live
  <2>2. QED
    BY <1>3, <2>1, DeadStory DEF CallStep
<1>4. CASE SomeLive /\ Unanswered(f, g)
  <2>1. g.tries + losses' >= f.tries + losses
    <3>1. CASE HandleSucceeded(c)
      <4>1. g.tries + losses' = f.tries + losses
        BY <1>1, <1>4, <3>1, AnswerGives DEF HandleSucceeded, Unanswered, Ended, Reported1
      <4>2. f.tries \in Nat
        BY <1>1 DEF Workflow
      <4>3. QED
        BY <1>1, <4>1, <4>2
    <3>2. QED
      BY <1>1, <3>1, LossGives
  <2>2. Paid(f, losses)
    BY <1>1, <1>4 DEF Story
  <2>3. g.tries \in Nat /\ f.tries \in Nat /\ losses' \in Nat
    <3>1. Good'
      <4>1. [CNext]_cvars
        BY DEF CNext, Handle, Lose
      <4>2. QED
        BY <4>1, ClusterSteps
    <3>2. wf'[w] \in Workflow /\ losses' \in Nat
      BY <1>1, <3>1, WorkspaceAssumption DEF Good, TypeOK
    <3>3. QED
      BY <1>1, <3>2 DEF Workflow
  <2>4. Paid(g, losses')
    BY <1>1, <1>4, <2>1, <2>2, <2>3 DEF Paid, Unanswered
  <2>5. Brought(g, k8s')
    BY <1>1, <1>4 DEF Story, Brought, Unanswered
  <2>6. Reporting(f) => Reporting(g)
    BY <1>4 DEF Reporting, Unanswered
  <2>7. QED
    BY <1>1, <1>2, <1>4, <2>4, <2>5, <2>6, StoryFrame DEF Unanswered
<1>5. CASE SomeLive /\ ~Unanswered(f, g)
  <2>1. HandleSucceeded(c)
    BY <1>1, <1>5, LossGives
  <2>2. Awaited(c) /\ c.task = "exit" /\ f.status = "Succeeded"
    BY <1>1, <1>5, <2>1, AnswerGives DEF HandleSucceeded, CallTold
  <2>3. Ended(f, g)
    BY <1>1, <1>5, <2>1, <2>2, AnswerGives DEF HandleSucceeded, Reported1, Awaited
  <2>4. "set-phase" \in f.done
    BY <1>1, <2>2 DEF Told
  <2>5. Brought(g, k8s') /\ Paid(g, losses')
    BY <1>1, <2>3 DEF Story, Brought, Ended, Paid
  <2>6. SomeLive' <=> SomeLive
    BY <1>2 DEF SomeLive, Live
  <2>7. ASSUME NEW r \in Rows, Live(r)'
        PROVE  RowTold(rows'[r], g) /\ \A d \in calls' : CallFits(d, rows'[r], g)
    <3>1. rows'[r] = rows[r] /\ RowTold(rows[r], f) /\ \A d \in calls : CallFits(d, rows[r], f)
      BY <1>1, <1>2, <2>7 DEF Story, Live
    <3>2. f.act \in Act
      BY <1>1 DEF Workflow
    <3>3. rows[r].phase # PhaseOf(f.act)
      BY <2>4, <3>1, <3>2 DEF RowTold, PhaseOf, TargetPhase, Act
    <3>4. RowTold(rows'[r], g)
      BY <2>3, <2>4, <3>1, <3>3 DEF RowTold, Ended, FailedEarly, Prepared, Reporting
    <3>5. \A d \in calls : CallFits(d, rows'[r], g)
      BY <2>3, <2>4, <3>1, <3>3 DEF CallFits, Ended, FailedEarly, Reporting
    <3>6. QED
      BY <1>2, <3>4, <3>5
  <2>8. QED
    BY <1>5, <2>5, <2>6, <2>7 DEF Story
<1>6. QED
  BY <1>3, <1>4, <1>5

(* The phase a failure is decided to have is that of the action.            *)
LEMMA DecidedStory ==
    ASSUME ClusterInv, NEW c \in calls, HandleFailed(c), k8s' = k8s, SomeLive
    PROVE  Story(c.wf)'
<1> DEFINE w == c.wf  f == wf[w]
<1>1. /\ Story(w) /\ w \in Wfs /\ Good /\ f \in Workflow /\ f.act \in Act /\ CallOK(c) /\ c \in Call
      /\ AtMostOneLive
  BY CallFacts DEF ClusterInv, Good
<1>2. PICK s \in Rows :
        /\ Live(s)
        /\ calls' = (calls \ {c}) \cup
             {[c EXCEPT !.at = "decided", !.phase = FailurePhase(rows[s])]}
        /\ wf' = wf /\ losses' = losses /\ rows' = rows /\ c.phase = "Failed"
  BY DEF HandleFailed, SomeLive
<1>3. PICK d : /\ d = [c EXCEPT !.at = "decided", !.phase = FailurePhase(rows[s])]
               /\ calls' = (calls \ {c}) \cup {d}
  BY <1>2
<1>4. d.at = "decided" /\ d.phase = FailurePhase(rows[s])
  BY <1>1, <1>3 DEF Call, CallOf
<1>5. RowTold(rows[s], f) /\ Timed(rows[s]) /\ f.status = "Failed"
  BY <1>1, <1>2 DEF Story, ClusterInv, CallOK
<1>6. CallFits(d, rows[s], f)
  <2>1. d.phase \notin Reported
    BY <1>4 DEF FailurePhase, Reported
  <2>2. CASE rows[s].phase \in Transitional
    <3>1. rows[s].phase = PhaseOf(f.act)
      BY <1>1, <1>5, <2>2 DEF RowTold, Transitional, TargetPhase, FailureOf, Act
    <3>2. "set-phase" \notin f.done
      BY <1>1, <1>5, <2>2 DEF RowTold, Transitional, TargetPhase, Act
    <3>3. rows[s].phase = "Launching" => ~rows[s].paused
      BY <1>5 DEF Timed
    <3>4. d.phase = FailureOf(f.act) /\ d.phase # "Failed"
      BY <1>1, <1>4, <3>1, <3>3 DEF FailurePhase, FailureOf, PhaseOf, Act
    <3>5. QED
      BY <1>5, <2>1, <3>2, <3>4 DEF CallFits, FailedEarly
  <2>3. CASE rows[s].phase \notin Transitional
    <3>1. d.phase = "Failed"
      BY <1>4, <2>3 DEF FailurePhase, Transitional
    <3>2. rows[s].phase # PhaseOf(f.act)
      BY <1>1, <2>3 DEF PhaseOf, Transitional, Act
    <3>3. QED
      BY <2>1, <3>1, <3>2 DEF CallFits
  <2>4. QED
    BY <2>2, <2>3
<1>7. SomeLive' /\ \A r \in Rows : Live(r)' => r = s
  BY <1>1, <1>2 DEF SomeLive, Live, AtMostOneLive
<1>8. \A r \in Rows : Live(r)' =>
        RowTold(rows'[r], wf'[w]) /\ \A e \in calls' : CallFits(e, rows'[r], wf'[w])
  BY <1>1, <1>2, <1>3, <1>5, <1>6, <1>7 DEF Story
<1>9. QED
  BY <1>1, <1>2, <1>7, <1>8 DEF Story

(* What a call finds when it writes, and what it may write over what.       *)
Writes(c, r) ==
    LET f == wf[c.wf] IN
    \/ /\ c.phase = TargetPhase(f.act) /\ c.task = "set-phase"
       /\ Prepared(f) /\ Reporting(f) /\ ~FailedEarly(f)
       /\ rows[r].phase \in {PhaseOf(f.act), TargetPhase(f.act), "Failed"}
       /\ f.act = "delete" => rows[r].phase = "Terminating"
    \/ /\ c.phase = FailureOf(f.act) /\ c.task = "exit"
       /\ FailedEarly(f)
       /\ rows[r].phase \in {PhaseOf(f.act), FailureOf(f.act), "Failed"}
    \/ /\ c.phase = "Failed" /\ c.task = "exit"
       /\ f.status = "Failed"
       /\ rows[r].phase \in {TargetPhase(f.act), FailureOf(f.act), "Failed"}

LEMMA PhaseWrites ==
    ASSUME ClusterInv, NEW c \in calls, HandlePhase(c), SomeLive
    PROVE  \E r \in Rows :
             /\ Live(r) /\ Writes(c, r) /\ RowTold(rows[r], wf[c.wf])
             /\ rows'[r] = StatusFields(rows[r], c.phase)
             /\ \A s \in Rows \ {r} : ~Live(s) /\ rows'[s] = rows[s]
<1> DEFINE w == c.wf  f == wf[w]
<1>1. /\ Story(w) /\ w \in Wfs /\ f \in Workflow /\ f.act \in Act /\ CallOK(c) /\ CallTold(c) /\ c \in Call
      /\ AtMostOneLive
      /\ c.at = "decided" => c.phase \in FailedTo \cup {"Failed"}
      /\ c.phase \in FailedTo => c.at = "decided"
      /\ f.status # "Running" <=> f.stage \in {"exit", "done"}
  BY CallFacts DEF ClusterInv, Good
<1>2. PICK r \in Rows : Live(r)
  BY DEF SomeLive
<1>3. /\ rows'[r] = StatusFields(rows[r], c.phase)
      /\ \A s \in Rows \ {r} : ~Live(s) /\ rows'[s] = rows[s]
  BY <1>1, <1>2 DEF HandlePhase, UpdateStatus, AtMostOneLive
<1>4. RowTold(rows[r], f) /\ CallFits(c, rows[r], f)
  BY <1>1, <1>2 DEF Story
<1>5. /\ rows[r].phase \in {PhaseOf(f.act), TargetPhase(f.act), FailureOf(f.act), "Failed"}
      /\ rows[r].phase # "Terminated"
  BY <1>2, <1>4 DEF RowTold, Live
<1>6. CASE c.phase \in Reported
  <2>1. /\ c.phase = TargetPhase(f.act) /\ Prepared(f) /\ c.task = "set-phase" /\ Reporting(f)
    BY <1>1, <1>4, <1>6 DEF CallOK, CallTold, CallFits
  <2>2. ~FailedEarly(f)
    BY <1>1, <2>1 DEF Reporting, FailedEarly
  <2>3. rows[r].phase # FailureOf(f.act)
    BY <1>4, <2>2 DEF RowTold
  <2>4. ASSUME f.act = "delete" PROVE rows[r].phase = "Terminating"
    <3>1. "set-phase" \notin f.done /\ f.stage = "set-phase"
      BY <1>4, <2>1, <2>4 DEF RowTold, Reporting
    <3>2. rows[r].phase # "Failed"
      BY <1>1, <1>4, <3>1 DEF RowTold
    <3>3. QED
      BY <1>5, <2>3, <2>4, <3>2 DEF TargetPhase, PhaseOf, FailureOf
  <2>5. QED
    BY <1>2, <1>3, <1>4, <1>5, <2>1, <2>2, <2>3, <2>4 DEF Writes
<1>7. CASE c.phase \notin Reported
  <2>1. c.at = "decided" /\ c.phase \in FailedTo \cup {"Failed"} /\ c.task = "exit" /\ f.status = "Failed"
    BY <1>1, <1>7 DEF HandlePhase, CallTold, CallOK
  <2>2. CASE c.phase = "Failed"
    <3>1. rows[r].phase # PhaseOf(f.act)
      BY <1>4, <2>1, <2>2 DEF CallFits
    <3>2. QED
      BY <1>2, <1>3, <1>4, <1>5, <2>1, <2>2, <3>1 DEF Writes
  <2>3. CASE c.phase # "Failed"
    <3>1. c.phase = FailureOf(f.act) /\ FailedEarly(f)
      BY <1>4, <2>1, <2>3 DEF CallFits
    <3>2. rows[r].phase = TargetPhase(f.act) => Reporting(f)
      BY <1>4 DEF RowTold
    <3>3. ~Reporting(f)
      BY <1>1, <3>1 DEF Reporting, FailedEarly
    <3>4. QED
      BY <1>2, <1>3, <1>4, <1>5, <2>1, <3>1, <3>2, <3>3 DEF Writes
  <2>4. QED
    BY <2>2, <2>3
<1>8. QED
  BY <1>6, <1>7

LEMMA PhaseStory ==
    ASSUME ClusterInv, NEW c \in calls, HandlePhase(c), k8s' = k8s, SomeLive
    PROVE  Story(c.wf)' /\ \A r \in Rows : Timed(rows'[r])
<1> DEFINE w == c.wf  f == wf[w]  g == wf'[w]
<1>1. /\ Story(w) /\ w \in Wfs /\ f \in Workflow /\ f.act \in Act
      /\ f.status # "Running" <=> f.stage \in {"exit", "done"}
      /\ Good /\ losses \in Nat /\ MaxTries \in Nat /\ rows \in [Rows -> Row]
      /\ \A r \in Rows : Timed(rows[r])
  BY CallFacts, ClusterTypes DEF ClusterInv
<1>2. PICK r \in Rows :
        /\ Live(r) /\ Writes(c, r) /\ RowTold(rows[r], wf[c.wf])
        /\ rows'[r] = StatusFields(rows[r], c.phase)
        /\ \A s \in Rows \ {r} : ~Live(s) /\ rows'[s] = rows[s]
  BY PhaseWrites
<1>3. calls' = calls \ {c} /\ Answer(c, TRUE)
  <2>1. (\E s \in Rows : Live(s)) = TRUE
    BY DEF SomeLive
  <2>2. QED
    BY <2>1 DEF HandlePhase
<1>4. \/ Unanswered(f, g) /\ g.tries + losses' = f.tries + losses
      \/ c.task = "exit" /\ Ended(f, g)
      \/ c.task = "set-phase" /\ Reported1(f, g) /\ losses' = losses
  BY <1>1, <1>3, AnswerGives DEF Awaited, Ended, Reported1
<1>5. /\ g.act = f.act /\ g.done \in {f.done, f.done \cup {"set-phase"}}
      /\ f.status = "Failed" /\ f.stage # "set-phase" => g.status = "Failed"
  BY <1>4 DEF Unanswered, Ended, Reported1
<1>6. Brought(g, k8s')
  BY <1>1, <1>5 DEF Story, Brought
<1>7. Paid(g, losses')
  <2>1. Paid(f, losses) /\ f.tries \in Nat
    BY <1>1 DEF Story, Workflow
  <2>2. CASE Reported1(f, g) /\ losses' = losses
    BY <1>1, <2>2 DEF Paid, Reported1
  <2>3. CASE Ended(f, g)
    BY <2>3 DEF Paid, Ended
  <2>4. CASE Unanswered(f, g) /\ g.tries + losses' = f.tries + losses
    BY <1>1, <2>1, <2>4 DEF Paid, Unanswered
  <2>5. QED
    BY <1>4, <2>2, <2>3, <2>4
<1>8. /\ c.phase \notin Transitional /\ c.phase # "Absent" /\ c.phase \in Phase
      /\ c.phase # "Failed to resume" /\ c.phase # PhaseOf(f.act)
  BY <1>1, <1>2 DEF Writes, TargetPhase, FailureOf, PhaseOf, Act, Transitional, Phase, Reported, FailedTo
<1>9. /\ rows'[r].phase = c.phase /\ rows'[r].paused = rows[r].paused
      /\ rows'[r].started = rows[r].started /\ rows'[r].terminated = rows[r].terminated
  <2>1. PICK row, ph : row = rows[r] /\ ph = c.phase
    OBVIOUS
  <2>2. row \in Row /\ ph \in Phase /\ rows'[r] = StatusFields(row, ph) /\ ph \notin Transitional
    BY <1>1, <1>2, <1>8, <2>1
  <2>3. QED
    BY <2>1, <2>2, WrittenFields
<1>10. TimedFor(f.act, rows'[r])
  BY <1>2, <1>9 DEF RowTold, TimedFor
<1>11. \A s \in Rows : Timed(rows'[s])
  <2>1. Timed(rows'[r])
    <3>1. c.phase \in {TargetPhase(f.act), FailureOf(f.act), "Failed"}
      BY <1>2 DEF Writes
    <3>2. QED
      BY <1>1, <1>9, <1>10, <3>1 DEF Timed, TimedFor, TargetPhase, FailureOf, Act
  <2>2. QED
    BY <1>1, <1>2, <2>1
<1>12. \A s \in Rows : Live(s)' <=> s = r /\ c.phase # "Terminated"
  BY <1>2, <1>8, <1>9 DEF Live
<1>13. CASE c.phase = "Terminated"
  <2>1. f.act = "delete" /\ Prepared(f)
    BY <1>1, <1>2, <1>13 DEF Writes, TargetPhase, FailureOf, Act
  <2>2. ~SomeLive'
    BY <1>12, <1>13 DEF SomeLive
  <2>3. g.act = "delete" /\ Prepared(g)
    BY <1>5, <2>1 DEF Prepared
  <2>4. QED
    BY <1>6, <1>11, <2>2, <2>3 DEF Story, SomeLive
<1>14. CASE c.phase # "Terminated"
  <2>1. /\ TargetPhase(f.act) # FailureOf(f.act) /\ TargetPhase(f.act) # "Failed"
        /\ FailureOf(f.act) # "Failed" /\ FailureOf(f.act) \notin Reported /\ "Failed" \notin Reported
        /\ f.act = "delete" => TargetPhase(f.act) = "Terminated"
    BY <1>1 DEF TargetPhase, FailureOf, Act, Reported
  <2>2. \A d \in calls : CallFits(d, rows[r], f)
    BY <1>1, <1>2 DEF Story
  <2>3. CASE c.phase = TargetPhase(f.act) /\ c.task = "set-phase"
    <3>1. Prepared(f) /\ Reporting(f) /\ ~FailedEarly(f) /\ f.act # "delete"
      BY <1>2, <1>14, <2>1, <2>3 DEF Writes
    <3>2. Prepared(g) /\ Reporting(g)
      BY <1>4, <1>5, <2>3, <3>1 DEF Prepared, Reporting, Unanswered, Reported1
    <3>3. RowTold(rows'[r], g)
      BY <1>5, <1>8, <1>9, <1>10, <2>1, <2>3, <3>1, <3>2 DEF RowTold
    <3>4. \A d \in calls' : CallFits(d, rows'[r], g)
      BY <1>3, <1>5, <1>8, <1>9, <2>2, <3>1, <3>2 DEF CallFits
    <3>5. QED
      BY <1>6, <1>7, <1>11, <1>12, <1>14, <3>3, <3>4 DEF Story, SomeLive
  <2>4. CASE c.task = "exit"
    <3>1. /\ f.status = "Failed" /\ g.status = "Failed" /\ g.done = f.done /\ g.act = f.act
          /\ g.stage \in {f.stage, "done"}
      BY <1>2, <1>4, <2>1, <2>4 DEF Writes, FailedEarly, Unanswered, Ended
    <3>2. /\ c.phase \in {FailureOf(f.act), "Failed"}
          /\ c.phase = FailureOf(f.act) => FailedEarly(f)
      BY <1>2, <2>1, <2>4 DEF Writes
    <3>3. "set-phase" \in f.done => c.phase = "Failed" /\ f.act # "delete"
      BY <1>2, <3>2 DEF FailedEarly, RowTold
    <3>4. FailedEarly(g) <=> FailedEarly(f)
      BY <3>1 DEF FailedEarly
    <3>5. Reporting(f) => Reporting(g)
      BY <1>1, <3>1 DEF Reporting
    <3>6. RowTold(rows'[r], g)
      BY <1>8, <1>9, <1>10, <2>1, <3>1, <3>2, <3>3, <3>4 DEF RowTold
    <3>7. \A d \in calls' : CallFits(d, rows'[r], g)
      BY <1>3, <1>8, <1>9, <2>2, <3>1, <3>4, <3>5 DEF CallFits
    <3>8. QED
      BY <1>6, <1>7, <1>11, <1>12, <1>14, <3>6, <3>7 DEF Story, SomeLive
  <2>5. QED
    BY <1>2, <2>3, <2>4 DEF Writes
<1>15. QED
  BY <1>13, <1>14

LEMMA CallsClusterKept ==
    ASSUME ClusterInv, NEW c \in calls, Handle(c) \/ Lose(c), Good', Kept
    PROVE  /\ \A r \in Rows : Timed(rows'[r])
           /\ k8s' \subseteq Resource
           /\ \A p \in Reqs : Turn(p)'
           /\ OneStory'
<1>1. /\ AllIdle /\ \A v \in Wfs \ {c.wf} : ~Busy(v)
      /\ c \in Call /\ c.wf \in Wfs /\ c.wf \in Created
  BY CallFacts
<1>2. k8s' = k8s /\ k8s \subseteq Resource /\ CallStep(c) /\ req' = req
  BY DEF Handle, Lose, CallStep, HandleSucceeded, HandleFailed, HandlePhase, LoseCall, CutConnection,
         ClusterInv
<1>3. CASE HandleSucceeded(c) \/ LoseCall(c) \/ CutConnection(c)
  <2>1. rows' = rows /\ calls' \subseteq calls
    BY <1>3 DEF HandleSucceeded, LoseCall, CutConnection
  <2>2. Story(c.wf)'
    BY <1>2, <1>3, QuietCallStory
  <2>3. \A v \in Wfs \ {c.wf} : wf'[v] = wf[v]
    BY <1>2, CallGives DEF ClusterInv
  <2>4. OneStory' /\ \A q \in Reqs : Turn(q)'
    BY <1>1, <1>2, <2>1, <2>2, <2>3, StoryGoesOn
  <2>5. QED
    BY <1>2, <2>1, <2>4 DEF ClusterInv
<1>4. \A v \in Wfs \ {c.wf} : wf'[v] = wf[v]
  BY <1>2, CallGives DEF ClusterInv
<1>5. CASE HandleFailed(c)
  <2>1. rows' = rows
    BY <1>5 DEF HandleFailed
  <2>2. \A d \in calls' : d \in calls \/ d.wf = c.wf
    <3>1. \A r \in Rows : [c EXCEPT !.at = "decided", !.phase = FailurePhase(rows[r])].wf = c.wf
      BY <1>1 DEF Call, CallOf
    <3>2. QED
      BY <1>5, <3>1 DEF HandleFailed
  <2>3. Story(c.wf)'
    <3>1. CASE SomeLive
      BY <1>2, <1>5, <3>1, DecidedStory
    <3>2. CASE ~SomeLive
      <4>1. ~SomeLive'
        BY <2>1, <3>2 DEF SomeLive, Live
      <4>2. QED
        BY <1>2, <3>2, <4>1, DeadStory
    <3>3. QED
      BY <3>1, <3>2
  <2>4. OneStory' /\ \A q \in Reqs : Turn(q)'
    BY <1>1, <1>2, <1>4, <2>2, <2>3, StoryGoesOn
  <2>5. QED
    BY <1>2, <2>1, <2>4 DEF ClusterInv
<1>6. CASE HandlePhase(c)
  <2>1. calls' \subseteq calls
    BY <1>6 DEF HandlePhase
  <2>2. Story(c.wf)' /\ \A r \in Rows : Timed(rows'[r])
    <3>1. CASE SomeLive
      BY <1>2, <1>6, <3>1, PhaseStory
    <3>2. CASE ~SomeLive
      <4>1. \A r \in Rows : rows'[r] = rows[r]
        BY <1>6, <3>2 DEF HandlePhase, UpdateStatus, SomeLive
      <4>2. ~SomeLive'
        BY <3>2, <4>1 DEF SomeLive, Live
      <4>3. QED
        BY <1>2, <3>2, <4>1, <4>2, DeadStory DEF ClusterInv
    <3>3. QED
      BY <3>1, <3>2
  <2>3. OneStory' /\ \A q \in Reqs : Turn(q)'
    BY <1>1, <1>2, <1>4, <2>1, <2>2, StoryGoesOn
  <2>4. QED
    BY <1>2, <2>2, <2>3
<1>7. QED
  BY <1>3, <1>5, <1>6 DEF Handle, Lose
-----------------------------------------------------------------------------
(* The invariant is inductive.                                              *)
LEMMA ClusterStarts == CInit => ClusterInv
<1> SUFFICES ASSUME CInit PROVE ClusterInv
  OBVIOUS
<1>1. Good
  BY InitGood DEF CInit
<1>2. /\ \A r \in Rows : rows[r].phase = "Absent"
      /\ \A q \in Reqs : req[q].pc = "idle"
      /\ \A w \in Wfs : wf[w].stage = "unused" /\ wf[w].status = "Running"
      /\ calls = {} /\ k8s = {}
  BY DEF CInit, Init, Idle, Unused
<1>3. AtRest
  BY <1>2 DEF AtRest, Transitional
<1>4. \A w \in Wfs : Told(wf[w]) /\ ~Busy(w)
  BY <1>2 DEF Told, Busy
<1>5. OneStory /\ \A q \in Reqs : Turn(q)
  BY <1>2, <1>3, <1>4 DEF OneStory, Turn
<1>6. \A r \in Rows : Timed(rows[r])
  BY <1>2 DEF Timed
<1>7. QED
  BY <1>1, <1>2, <1>4, <1>5, <1>6 DEF ClusterInv

LEMMA ClusterKept == ClusterInv /\ [CNext]_cvars => ClusterInv'
<1> SUFFICES ASSUME ClusterInv, [CNext]_cvars PROVE ClusterInv'
  OBVIOUS
<1>1. /\ [Next]_vars
      /\ Good'
      /\ \A w \in Wfs : Told(wf'[w])
      /\ \A c \in calls' : CallTold(c)'
  BY ClusterSteps
<1>2. Kept
  BY <1>1, StepKeeps DEF ClusterInv, Good
<1>3. /\ \A r \in Rows : Timed(rows'[r])
      /\ k8s' \subseteq Resource
      /\ \A p \in Reqs : Turn(p)'
      /\ OneStory'
  <2>1. CASE \E q \in Reqs : Begin(q)
    BY <2>1, BeginKept
  <2>2. CASE \E q \in Reqs : Continue(q) \/ Break(q)
    BY <2>2, ContinueKept
  <2>3. CASE \E w \in Wfs : Work(w)
    BY <1>1, <1>2, <2>3, WorkKept
  <2>4. CASE \E c \in calls : Handle(c) \/ Lose(c)
    BY <1>1, <1>2, <2>4, CallsClusterKept
  <2>5. CASE UNCHANGED cvars
    <3>1. rows' = rows /\ req' = req /\ wf' = wf /\ calls' = calls /\ losses' = losses /\ k8s' = k8s
      BY <2>5 DEF cvars, vars
    <3>2. \A w \in Wfs : (Busy(w)' <=> Busy(w)) /\ (Story(w) => Story(w)')
      BY <3>1 DEF Busy, Story, SomeLive, Live
    <3>3. (AtRest => AtRest') /\ (AllIdle' <=> AllIdle) /\ (SomeLive' <=> SomeLive)
      BY <3>1 DEF AtRest, SomeLive, Live, AllIdle
    <3>4. \A q \in Reqs : Turn(q)'
      BY <3>1, <3>2, <3>3 DEF ClusterInv, Turn
    <3>5. OneStory'
      BY <3>2, <3>3 DEF ClusterInv, OneStory
    <3>6. QED
      BY <3>1, <3>4, <3>5 DEF ClusterInv
  <2>6. QED
    BY <2>1, <2>2, <2>3, <2>4, <2>5 DEF CNext
<1>4. QED
  BY <1>1, <1>3 DEF ClusterInv

(* Rows, requests, workflows, calls and the cluster tell one story at a     *)
(* time, whatever tasks, workflows and calls fail on the way.               *)
THEOREM ClusterInvariant == CSpec => []ClusterInv
BY ClusterStarts, ClusterKept, PTL DEF CSpec

(* Whenever nothing is under way a running workspace has all of its         *)
(* resources, a paused one at most its volume claim, and without a live row *)
(* nothing is left in the cluster.                                          *)
THEOREM PhasesMatchCluster == CSpec => []PhaseMatchesCluster
<1>1. ClusterInv => PhaseMatchesCluster
  <2> SUFFICES ASSUME ClusterInv, Quiet PROVE AtRest
    BY DEF PhaseMatchesCluster, AtRest, SomeLive
  <2>1. AllIdle /\ \A w \in Wfs : ~Busy(w)
    BY DEF Quiet, AllIdle, Busy
  <2>2. QED
    BY <2>1 DEF ClusterInv, OneStory
<1>2. QED
  BY <1>1, ClusterInvariant, PTL

(* The times the API reports belong to the phase, whichever actions and     *)
(* failures came before.                                                    *)
THEOREM TimesMatchPhases == CSpec => []TimesMatchPhase
<1>1. ClusterInv => TimesMatchPhase
  BY DEF ClusterInv, Timed, TimesMatchPhase
<1>2. QED
  BY <1>1, ClusterInvariant, PTL
-----------------------------------------------------------------------------
(* Every step is a step of the abstract life cycle or leaves the phases.    *)

Phases == [r \in Rows |-> rows[r].phase]

LEMMA BecomePhase ==
    ASSUME NEW r \in Rows, NEW p, rows'[r].phase = p,
           \A s \in Rows \ {r} : rows'[s].phase = rows[s].phase
    PROVE  Lifecycle!Become(r, p)
BY DEF Lifecycle!Become

LEMMA WriteFollows ==
    ASSUME ClusterInv, NEW q \in Reqs, InsertRow(q) \/ RestartRow(q) \/ WritePhase(q)
    PROVE  Lifecycle!Next \/ Phases' = Phases
<1>1. /\ rows \in [Rows -> Row] /\ req[q] \in Request /\ req[q].pc = "write"
      /\ Turn(q) /\ RequestOK(req[q]) /\ AtMostOneLive
  BY ClusterTypes DEF ClusterInv, Good, InsertRow, RestartRow, WritePhase
<1>2. /\ req[q].op = "create" <=> ~SomeLive
      /\ \A r \in Rows : rows[r].phase \notin Transitional
  BY <1>1 DEF Turn, AtRest
<1>3. \A r \in Rows : Live(r) <=> Lifecycle!Live(r)
  BY DEF Live, Lifecycle!Live
<1>4. DOMAIN Lifecycle!Outcomes = Transitional
  BY DEF Lifecycle!Outcomes, Transitional
<1>5. ASSUME NEW r \in Rows, Live(r), NEW p \in Transitional, rows'[r].phase = p,
             \A s \in Rows \ {r} : rows'[s].phase = rows[s].phase
      PROVE  Lifecycle!Next
  <2>1. Lifecycle!Settled(r)
    BY <1>2, <1>3, <1>4, <1>5 DEF Lifecycle!Settled
  <2>2. Lifecycle!Become(r, p)
    BY <1>5, BecomePhase
  <2>3. Lifecycle!Order(r)
    BY <1>4, <2>1, <2>2 DEF Lifecycle!Order
  <2>4. QED
    BY <2>3 DEF Lifecycle!Next
<1>6. CASE InsertRow(q)
  <2>1. PICK r \in Rows :
          /\ rows[r].phase = "Absent"
          /\ \/ rows' = [rows EXCEPT ![r] = [phase |-> "Launching", started |-> TRUE,
                                               paused |-> FALSE, terminated |-> FALSE]]
             \/ rows' = rows
    BY <1>6 DEF InsertRow
  <2>2. CASE rows' = rows
    BY <2>2 DEF Phases
  <2>3. CASE rows' # rows
    <3>1. rows'[r].phase = "Launching" /\ \A s \in Rows \ {r} : rows'[s].phase = rows[s].phase
      BY <1>1, <2>1, <2>3
    <3>2. Lifecycle!Become(r, "Launching")
      BY <3>1, BecomePhase
    <3>3. \A s \in Rows : ~Lifecycle!Live(s)
      BY <1>2, <1>3, <1>6 DEF InsertRow, SomeLive
    <3>4. Lifecycle!Open(r)
      BY <2>1, <3>2, <3>3 DEF Lifecycle!Open
    <3>5. QED
      BY <3>4 DEF Lifecycle!Next
  <2>4. QED
    BY <2>2, <2>3
<1>7. CASE RestartRow(q)
  <2>1. req[q].row \in Rows /\ rows[req[q].row].phase = "Failed to launch"
    BY <1>1, <1>7 DEF RestartRow, RequestOK, Turn
  <2>2. Live(req[q].row) /\ rows[req[q].row] \in Row
    BY <1>1, <2>1 DEF Live
  <2>3. CASE rows' = rows
    BY <2>3 DEF Phases
  <2>4. CASE rows' # rows
    <3>1. rows' = [rows EXCEPT ![req[q].row].phase = "Launching", ![req[q].row].started = TRUE]
      BY <1>7, <2>4 DEF RestartRow
    <3>2. /\ rows'[req[q].row].phase = "Launching"
          /\ \A s \in Rows \ {req[q].row} : rows'[s].phase = rows[s].phase
      BY <1>1, <2>1, <2>2, <3>1 DEF Row
    <3>3. "Launching" \in Transitional
      BY DEF Transitional
    <3>4. QED
      BY <1>5, <2>1, <2>2, <3>2, <3>3
  <2>5. QED
    BY <2>3, <2>4
<1>8. CASE WritePhase(q)
  <2>1. PICK ph : ph = PhaseOf(req[q].op)
    OBVIOUS
  <2>2. ph \in Transitional /\ UpdateStatus(ph)
    BY <1>1, <1>8, <2>1 DEF WritePhase, PhaseOf, Request, Op, Transitional
  <2>3. PICK r \in Rows : Live(r)
    BY <1>2, <1>8 DEF WritePhase, SomeLive
  <2>4. \A s \in Rows \ {r} : ~Live(s)
    BY <1>1, <2>3 DEF AtMostOneLive
  <2>5. rows'[r] = StatusFields(rows[r], ph) /\ \A s \in Rows \ {r} : rows'[s] = rows[s]
    BY <2>2, <2>3, <2>4 DEF UpdateStatus
  <2>6. rows'[r].phase = ph
    BY <2>5 DEF StatusFields
  <2>7. QED
    BY <1>5, <2>2, <2>3, <2>5, <2>6
<1>9. QED
  BY <1>6, <1>7, <1>8

LEMMA CallFollows ==
    ASSUME ClusterInv, NEW c \in calls, HandlePhase(c)
    PROVE  Lifecycle!Next \/ Phases' = Phases
<1>1. CASE ~SomeLive
  <2>1. \A r \in Rows : rows'[r] = rows[r]
    BY <1>1 DEF HandlePhase, UpdateStatus, SomeLive
  <2>2. QED
    BY <2>1 DEF Phases
<1>2. CASE SomeLive
  <2> DEFINE act == wf[c.wf].act
  <2>1. PICK r \in Rows :
          /\ Live(r) /\ Writes(c, r)
          /\ rows'[r] = StatusFields(rows[r], c.phase)
          /\ \A s \in Rows \ {r} : rows'[s] = rows[s]
    BY <1>2, PhaseWrites
  <2>2. PICK p : p = c.phase
    OBVIOUS
  <2>3. rows'[r].phase = p
    BY <2>1, <2>2 DEF StatusFields
  <2>4. Lifecycle!Become(r, p)
    BY <2>1, <2>3, BecomePhase
  <2>5. act \in Act
    BY CallFacts
  <2>6. /\ Phases[r] = rows[r].phase
        /\ Lifecycle!Live(r)
        /\ DOMAIN Lifecycle!Outcomes = Transitional
        /\ PhaseOf(act) \in Transitional
        /\ Lifecycle!Outcomes[PhaseOf(act)] = {TargetPhase(act), FailureOf(act)}
    <3>1. /\ DOMAIN Lifecycle!Outcomes = Transitional
          /\ Lifecycle!Outcomes["Launching"] = {"Running", "Failed to launch"}
          /\ Lifecycle!Outcomes["Updating"] = {"Running", "Failed to update"}
          /\ Lifecycle!Outcomes["Pausing"] = {"Paused", "Failed to pause"}
          /\ Lifecycle!Outcomes["Terminating"] = {"Terminated", "Failed to terminate"}
      BY DEF Lifecycle!Outcomes, Transitional
    <3>2. /\ PhaseOf(act) \in Transitional
          /\ Lifecycle!Outcomes[PhaseOf(act)] = {TargetPhase(act), FailureOf(act)}
      BY <2>5, <3>1 DEF Act, PhaseOf, TargetPhase, FailureOf, Transitional
    <3>3. Phases[r] = rows[r].phase /\ Lifecycle!Live(r)
      BY <2>1 DEF Phases, Live, Lifecycle!Live
    <3>4. QED
      BY <3>1, <3>2, <3>3
  <2>7. CASE rows[r].phase = p
    <3>1. \A s \in Rows : rows'[s].phase = rows[s].phase
      BY <2>1, <2>3, <2>7
    <3>2. QED
      BY <3>1 DEF Phases
  <2>8. CASE rows[r].phase = PhaseOf(act) /\ p \in {TargetPhase(act), FailureOf(act)}
    <3>1. Lifecycle!Resolve(r)
      BY <2>4, <2>6, <2>8 DEF Lifecycle!Resolve
    <3>2. QED
      BY <3>1 DEF Lifecycle!Next
  <2>9. CASE rows[r].phase \in {TargetPhase(act), FailureOf(act)} /\ p = "Failed"
    <3>1. rows[r].phase \notin Transitional
      BY <2>5, <2>9 DEF TargetPhase, FailureOf, Act, Transitional
    <3>2. Lifecycle!FailLate(r)
      BY <2>4, <2>6, <2>9, <3>1 DEF Lifecycle!FailLate, Lifecycle!Settled
    <3>3. QED
      BY <3>2 DEF Lifecycle!Next
  <2>10. CASE rows[r].phase = "Failed" /\ p \in {TargetPhase(act), FailureOf(act)} /\ p # "Terminated"
    <3>1. Lifecycle!ReportLate(r)
      BY <2>4, <2>6, <2>10 DEF Lifecycle!ReportLate
    <3>2. QED
      BY <3>1 DEF Lifecycle!Next
  <2>11. /\ TargetPhase(act) = "Terminated" => act = "delete"
         /\ FailureOf(act) # "Terminated" /\ TargetPhase(act) # "Failed" /\ FailureOf(act) # "Failed"
    BY <2>5 DEF TargetPhase, FailureOf, Act
  <2>12. QED
    BY <2>1, <2>2, <2>7, <2>8, <2>9, <2>10, <2>11 DEF Writes
<1>3. QED
  BY <1>1, <1>2

(* Users see only the phase changes the abstract life cycle allows: an      *)
(* action is ordered on a settled workspace, ends as that action may end,   *)
(* and nothing but a late failure, or a late copy of the report, follows.   *)
THEOREM FollowsLifecycle == CSpec => Lifecycle!Safety
<1>1. CInit => Lifecycle!Init
  BY DEF CInit, Init, Lifecycle!Init
<1>2. ASSUME ClusterInv, [CNext]_cvars
      PROVE  Lifecycle!Next \/ Phases' = Phases
  <2>1. CASE rows' = rows
    BY <2>1 DEF Phases
  <2>2. CASE \E q \in Reqs : InsertRow(q) \/ RestartRow(q) \/ WritePhase(q)
    BY <1>2, <2>2, WriteFollows
  <2>3. CASE \E c \in calls : HandlePhase(c)
    BY <1>2, <2>3, CallFollows
  <2>4. CASE \E q \in Reqs : Begin(q)
    BY <2>1, <2>4 DEF Begin, CreateRead, RetryRead, ActionRead
  <2>5. CASE \E q \in Reqs : Continue(q) \/ Break(q)
    BY <2>1, <2>2, <2>5 DEF Continue, Break, Reread, LaunchWorkflow, Abort
  <2>6. CASE \E w \in Wfs : Work(w)
    BY <2>1, <2>6 DEF Work, TaskSucceeds, TaskFails, PostExecutionSucceeds, PostExecutionFails,
                      SendCall, GiveUp
  <2>7. CASE \E c \in calls : Handle(c) \/ Lose(c)
    BY <2>1, <2>3, <2>7 DEF Handle, Lose, HandleSucceeded, HandleFailed, LoseCall, CutConnection
  <2>8. QED
    BY <1>2, <2>1, <2>4, <2>5, <2>6, <2>7 DEF CNext, cvars, vars
<1>3. ClusterInv /\ [CNext]_cvars => [Lifecycle!Next]_Phases
  BY <1>2
<1>4. QED
  BY <1>1, <1>3, ClusterInvariant, PTL DEF CSpec, Lifecycle!Safety, Phases
=============================================================================
