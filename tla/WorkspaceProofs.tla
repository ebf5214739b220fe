--------------------------- MODULE WorkspaceProofs ---------------------------
(***************************************************************************)
(* Proofs, for every set of rows, workflows and handlers and every bound,  *)
(* of the invariants of Workspace.                                         *)
(*                                                                         *)
(* A workflow never forgets what it did (Kept), so what a row, a call or a *)
(* request says of the workflows stays true while it is not written; what  *)
(* remains is to see that every write is justified by the request or the   *)
(* call that makes it.                                                     *)
(***************************************************************************)
EXTENDS Workspace, TLAPS

(* The two outcomes of a status call leave a well-typed workflow.           *)
LEMMA AnswerType ==
    ASSUME TypeOK, NEW c \in calls, NEW ok \in BOOLEAN, Answer(c, ok)
    PROVE  wf' \in [Wfs -> Workflow] /\ losses' \in 0..MaxLosses
<1> USE WorkspaceAssumption
<1>1. c \in Call /\ c.wf \in Wfs /\ c.try \in 1..MaxTries
  BY DEF TypeOK, Call, CallOf
<1>2. wf[c.wf] \in Workflow
  BY <1>1 DEF TypeOK
<1>3. ASSUME Awaited(c)  PROVE  TriedInVain(wf[c.wf]) \in Workflow
  <2>1. wf[c.wf].tries - 1 \in 0..MaxTries
    BY <1>1, <1>3 DEF Awaited
  <2>2. QED
    BY <1>2, <2>1 DEF TriedInVain, Workflow
<1>4. ASSUME Awaited(c)  PROVE  Advanced(wf[c.wf]) \in Workflow
  <2>1. NextTask(wf[c.wf].act, "set-phase") \in Stage
    BY DEF NextTask, Stage, Task
  <2>2. "set-phase" \in Task /\ "done" \in Stage
    BY DEF Stage, Task
  <2>3. MaxTries \in 0..MaxTries
    OBVIOUS
  <2>4. QED
    BY <1>2, <2>1, <2>2, <2>3 DEF Advanced, Workflow
<1>5. wf' \in [Wfs -> Workflow]
  BY <1>1, <1>2, <1>3, <1>4 DEF Answer, TypeOK
<1>6. losses' \in 0..MaxLosses
  BY DEF Answer, TypeOK
<1>7. QED
  BY <1>5, <1>6

(* An UPDATE of the status columns leaves a well-typed table.               *)
LEMMA UpdateStatusType ==
    ASSUME TypeOK, NEW ph \in Phase, UpdateStatus(ph)
    PROVE  rows' \in [Rows -> Row]
<1>1. \A r \in Rows : StatusFields(rows[r], ph) \in Row
  BY DEF StatusFields, Row, TypeOK
<1>2. QED
  BY <1>1 DEF UpdateStatus, TypeOK

LEMMA RequestType ==
    ASSUME TypeOK, NEW q \in Reqs, RequestStep(q)
    PROVE  TypeOK'
<1> USE WorkspaceAssumption
<1> USE DEF TypeOK
<1>1. Idle \in Request
  BY DEF Idle, Request, Op
<1>2. ASSUME Finish(q)  PROVE  req' \in [Reqs -> Request]
  BY <1>1, <1>2 DEF Finish
<1>3. CASE CreateRead(q)
  BY <1>1, <1>3 DEF CreateRead, Request, Op, Idle
<1>4. CASE \E op \in Actions : ActionRead(q, op)
  BY <1>4 DEF ActionRead, Request, Op
<1>5. CASE RetryRead(q)
  <2>1. \A p \in FailedTo : RetryOp(p) \in Op
    BY DEF RetryOp, FailedTo, Op
  <2>2. QED
    BY <1>5, <2>1 DEF RetryRead, Request
<1>6. CASE Reread(q)
  BY <1>2, <1>6 DEF Reread, Goto, Request
<1>7. CASE LaunchWorkflow(q)
  <2>1. PICK w \in Wfs \ Created :
          /\ wf' = [wf EXCEPT ![w] = [Unused EXCEPT !.act = ActOf(req[q].op),
                                                  !.by = req[q].op, !.stage = "routes"]]
          /\ req' = [req EXCEPT ![q].pc = "write", ![q].wf = w]
    BY <1>7 DEF LaunchWorkflow
  <2>2. req[q] \in Request /\ req[q].op \in Op
    BY DEF Request
  <2>3. ActOf(req[q].op) \in Act
    BY <2>2 DEF ActOf, Op, Act
  <2>4. "routes" \in Stage /\ MaxTries \in 0..MaxTries
    BY DEF Stage, Task, Resource
  <2>5. [Unused EXCEPT !.act = ActOf(req[q].op), !.by = req[q].op, !.stage = "routes"]
           \in Workflow
    BY <2>2, <2>3, <2>4 DEF Unused, Workflow
  <2>6. wf' \in [Wfs -> Workflow]
    BY <2>1, <2>5
  <2>7. req' \in [Reqs -> Request]
    BY <2>1, <2>2 DEF Request
  <2>8. QED
    BY <1>7, <2>6, <2>7 DEF LaunchWorkflow
<1>8. CASE InsertRow(q)
  <2> DEFINE new == [phase |-> "Launching", started |-> TRUE, paused |-> FALSE,
                     terminated |-> FALSE]
  <2>1. new \in Row
    BY DEF Row, Phase, Transitional
  <2>2. PICK r \in Rows :
          rows' = IF IndexAllows(r) THEN [rows EXCEPT ![r] = new] ELSE rows
    BY <1>8 DEF InsertRow
  <2> HIDE DEF new
  <2>3. rows' \in [Rows -> Row]
    BY <2>1, <2>2
  <2>4. QED
    BY <1>2, <1>8, <2>3 DEF InsertRow
<1>9. CASE RestartRow(q)
  BY <1>2, <1>9 DEF RestartRow, Row, Phase, Transitional
<1>10. CASE WritePhase(q)
  <2>1. PhaseOf(req[q].op) \in Phase
    BY DEF PhaseOf, Phase, Transitional, Request, Op
  <2>2. QED
    BY <1>2, <1>10, <2>1, UpdateStatusType DEF WritePhase
<1>11. CASE Abort(q)
  BY <1>2, <1>11 DEF Abort
<1>12. QED
  BY <1>3, <1>4, <1>5, <1>6, <1>7, <1>8, <1>9, <1>10, <1>11 DEF RequestStep

LEMMA WorkflowType ==
    ASSUME TypeOK, NEW w \in Wfs, WorkflowStep(w)
    PROVE  TypeOK'
<1> USE WorkspaceAssumption
<1> USE DEF TypeOK
<1>0. wf[w] \in Workflow /\ wf[w].act \in Act /\ MaxTries \in 0..MaxTries
  BY DEF Workflow
<1>1. ASSUME NEW to \in Stage, wf[w].stage \in Task, Goes(w, to)
      PROVE  wf' \in [Wfs -> Workflow]
  <2> DEFINE o == wf[w]
             n == [o EXCEPT !.stage = to, !.tries = MaxTries, !.done = @ \cup {o.stage},
                            !.status = IF to = "exit" THEN "Succeeded" ELSE @]
  <2>1. n \in Workflow
    <3>1. o \in Workflow /\ o.stage \in Task /\ to \in Stage /\ MaxTries \in 0..MaxTries
      BY <1>0, <1>1
    <3> HIDE DEF o
    <3>2. QED
      BY <3>1 DEF Workflow
  <2>2. wf' = [wf EXCEPT ![w] = n]
    BY <1>1 DEF Goes
  <2> HIDE DEF n
  <2>3. QED
    BY <2>1, <2>2
<1>2. ASSUME Fails(w)  PROVE  wf' \in [Wfs -> Workflow]
  BY <1>0, <1>2 DEF Fails, Workflow, Stage
<1>3. CASE TaskSucceeds(w)
  <2>1. NextTask(wf[w].act, wf[w].stage) \in Stage
    BY <1>3 DEF TaskSucceeds, NextTask, Stage, Task, Resource
  <2>2. wf[w].stage \in Task
    BY <1>3 DEF TaskSucceeds, Task
  <2>3. QED
    BY <1>1, <1>3, <2>1, <2>2 DEF TaskSucceeds
<1>4. CASE TaskFails(w)
  BY <1>2, <1>4 DEF TaskFails
<1>5. CASE PostExecutionSucceeds(w)
  BY <1>1, <1>5 DEF PostExecutionSucceeds, Stage, Task
<1>6. CASE PostExecutionFails(w)
  BY <1>2, <1>6 DEF PostExecutionFails
<1>7. CASE SendCall(w)
  <2> DEFINE c == [wf |-> w, task |-> wf[w].stage, try |-> wf[w].tries, at |-> "arrived",
                   phase |-> IF wf[w].stage = "exit" THEN wf[w].status
                                                     ELSE TargetPhase(wf[w].act)]
  <2>1. wf[w].tries \in 1..MaxTries /\ wf[w].stage \in {"set-phase", "exit"}
    BY <1>0, <1>7 DEF SendCall, Workflow
  <2>2. wf[w].status \in Reported \cup {"Succeeded", "Failed"}
    BY <1>0 DEF Workflow, Reported
  <2>3. TargetPhase(wf[w].act) \in Reported
    BY <1>0 DEF TargetPhase, Reported, Act
  <2>4. c \in Call
    BY <2>1, <2>2, <2>3 DEF Call, CallOf
  <2>5. calls' = calls \cup {c}
    BY <1>7 DEF SendCall
  <2>6. wf' \in [Wfs -> Workflow]
    BY <1>0, <1>7 DEF SendCall, Workflow
  <2>7. QED
    BY <1>7, <2>4, <2>5, <2>6 DEF SendCall
<1>8. CASE GiveUp(w)
  <2>1. CASE wf[w].stage = "set-phase"
    BY <1>2, <1>8, <2>1 DEF GiveUp
  <2>2. CASE wf[w].stage # "set-phase"
    BY <1>0, <1>8, <2>2 DEF GiveUp, Workflow, Stage
  <2>3. QED
    BY <2>1, <2>2
<1>9. QED
  BY <1>3, <1>4, <1>5, <1>6, <1>7, <1>8 DEF WorkflowStep

LEMMA CallType ==
    ASSUME TypeOK, NEW c \in calls, CallStep(c)
    PROVE  TypeOK'
<1> USE WorkspaceAssumption
<1>1. c \in Call /\ c.wf \in Wfs /\ c.try \in 1..MaxTries
  BY DEF TypeOK, Call, CallOf
<1>2. ASSUME NEW ok \in BOOLEAN, Answer(c, ok)
      PROVE  wf' \in [Wfs -> Workflow] /\ losses' \in 0..MaxLosses
  BY <1>2, AnswerType
<1>3. wf \in [Wfs -> Workflow] /\ (Awaited(c) => TriedInVain(wf[c.wf]) \in Workflow)
  <2>1. wf[c.wf] \in Workflow
    BY <1>1 DEF TypeOK
  <2>2. Awaited(c) => wf[c.wf].tries - 1 \in 0..MaxTries
    BY <1>1 DEF Awaited
  <2>3. QED
    BY <2>1, <2>2 DEF TriedInVain, Workflow, TypeOK
<1>4. CASE HandleSucceeded(c)
  BY <1>2, <1>4 DEF HandleSucceeded, TypeOK
<1>5. CASE HandleFailed(c)
  <2>1. \A row : FailurePhase(row) \in FailedTo \cup {"Failed"}
    BY DEF FailurePhase, FailedTo
  <2>2. CASE \E r \in Rows :
            /\ Live(r)
            /\ calls' = (calls \ {c}) \cup
                {[c EXCEPT !.at = "decided", !.phase = FailurePhase(rows[r])]}
            /\ UNCHANGED <<wf, losses>>
    <3>1. PICK r \in Rows : calls' = (calls \ {c}) \cup
                {[c EXCEPT !.at = "decided", !.phase = FailurePhase(rows[r])]}
      BY <2>2
    <3>2. [c EXCEPT !.at = "decided", !.phase = FailurePhase(rows[r])] \in Call
      BY <1>1, <2>1 DEF Call, CallOf
    <3>3. QED
      BY <1>5, <2>2, <3>1, <3>2 DEF HandleFailed, TypeOK
  <2>3. CASE calls' = calls \ {c} /\ Answer(c, FALSE)
    BY <1>2, <1>5, <2>3 DEF HandleFailed, TypeOK
  <2>4. QED
    BY <1>5, <2>2, <2>3 DEF HandleFailed
<1>6. CASE HandlePhase(c)
  <2>1. c.phase \in Phase
    BY <1>1, <1>6 DEF HandlePhase, Call, CallOf, Phase
  <2>2. rows' \in [Rows -> Row]
    BY <1>6, <2>1, UpdateStatusType DEF HandlePhase
  <2>3. QED
    BY <1>2, <1>6, <2>2 DEF HandlePhase, TypeOK
<1>7. CASE LoseCall(c)
  BY <1>1, <1>3, <1>7 DEF LoseCall, TypeOK
<1>8. CASE CutConnection(c)
  BY <1>1, <1>3, <1>8 DEF CutConnection, TypeOK
<1>9. QED
  BY <1>4, <1>5, <1>6, <1>7, <1>8 DEF CallStep

(* Every variable keeps its type, whatever interleaving occurs.             *)
THEOREM TypeCorrect == Spec => []TypeOK
<1>1. Init => TypeOK
  BY WorkspaceAssumption DEF Init, TypeOK, Row, Idle, Request, Op, Unused, Workflow, Act
<1>2. TypeOK /\ [Next]_vars => TypeOK'
  <2> SUFFICES ASSUME TypeOK, [Next]_vars  PROVE TypeOK'
    OBVIOUS
  <2>1. CASE \E q \in Reqs : RequestStep(q)
    BY <2>1, RequestType
  <2>2. CASE \E w \in Wfs : WorkflowStep(w)
    BY <2>2, WorkflowType
  <2>3. CASE \E c \in calls : CallStep(c)
    BY <2>3, CallType
  <2>4. CASE UNCHANGED vars
    BY <2>4 DEF vars, TypeOK
  <2>5. QED
    BY <2>1, <2>2, <2>3, <2>4 DEF Next
<1>3. QED
  BY <1>1, <1>2, PTL DEF Spec
-----------------------------------------------------------------------------
(* What one workflow may become in a step; a workflow never forgets.        *)

Keeps(f, g) ==
    /\ g.stage # "unused"
    /\ g.act = f.act
    /\ g.by = f.by
    /\ f.done \subseteq g.done
    /\ f.status = "Failed" => g.status = "Failed"

Sound(f) ==
    /\ f.stage = "stateful-set" => "routes" \in f.done
    /\ f.stage = "pvc" => {"routes", "stateful-set"} \subseteq f.done
    /\ f.stage = "set-phase" => Prepared(f)
    /\ f.status # "Running" <=> f.stage \in {"exit", "done"}

LEMMA AdvancedKeeps ==
    ASSUME NEW f \in Workflow, f.stage \in {"set-phase", "exit"}, Sound(f)
    PROVE  Keeps(f, Advanced(f)) /\ Sound(Advanced(f))
<1>1. CASE f.stage = "exit"
  BY <1>1 DEF Advanced, Keeps, Sound, Workflow
<1>2. CASE f.stage = "set-phase"
  <2>1. NextTask(f.act, "set-phase") \in {"post-execution", "exit"}
    BY DEF NextTask
  <2>2. f.status = "Running"
    BY <1>2 DEF Sound
  <2>3. QED
    BY <1>2, <2>1, <2>2 DEF Advanced, Keeps, Sound, Workflow
<1>3. QED
  BY <1>1, <1>2

LEMMA TriedKeeps ==
    ASSUME NEW f \in Workflow, f.stage \in {"set-phase", "exit"}, Sound(f)
    PROVE  Keeps(f, TriedInVain(f)) /\ Sound(TriedInVain(f))
BY DEF TriedInVain, Keeps, Sound, Workflow, Prepared

(* A step that gives one workflow a successor it keeps keeps them all.      *)
LEMMA OneKept ==
    ASSUME TypeOK, \A w \in Created : Sound(wf[w]),
           NEW v \in Wfs, NEW g,
           wf' = [wf EXCEPT ![v] = g], Keeps(wf[v], g), Sound(g)
    PROVE  /\ \A w \in Created : Keeps(wf[w], wf'[w])
           /\ \A w \in Wfs : wf'[w].stage # "unused" => Sound(wf'[w])
<1>1. \A w \in Wfs : wf'[w] = IF w = v THEN g ELSE wf[w]
  BY DEF TypeOK
<1>2. \A w \in Created : Keeps(wf[w], wf[w])
  BY DEF Created, Keeps
<1>3. QED
  BY <1>1, <1>2 DEF Created

LEMMA AnswerKeeps ==
    ASSUME TypeOK, \A w \in Created : Sound(wf[w]), NEW c \in calls,
           \/ wf' = wf
           \/ Awaited(c) /\ wf' = [wf EXCEPT ![c.wf] = Advanced(@)]
           \/ Awaited(c) /\ wf' = [wf EXCEPT ![c.wf] = TriedInVain(@)]
    PROVE  /\ \A w \in Created : Keeps(wf[w], wf'[w])
           /\ \A w \in Wfs : wf'[w].stage # "unused" => Sound(wf'[w])
<1>1. c.wf \in Wfs /\ c.task \in {"set-phase", "exit"} /\ wf[c.wf] \in Workflow
  BY DEF TypeOK, Call, CallOf
<1>2. CASE wf' = wf
  BY <1>2 DEF Created, Keeps
<1>3. CASE Awaited(c) /\ wf' = [wf EXCEPT ![c.wf] = Advanced(@)]
  <2>1. wf[c.wf].stage \in {"set-phase", "exit"} /\ Sound(wf[c.wf])
    BY <1>1, <1>3 DEF Awaited, Created
  <2>2. QED
    BY <1>1, <1>3, <2>1, AdvancedKeeps, OneKept
<1>4. CASE Awaited(c) /\ wf' = [wf EXCEPT ![c.wf] = TriedInVain(@)]
  <2>1. wf[c.wf].stage \in {"set-phase", "exit"} /\ Sound(wf[c.wf])
    BY <1>1, <1>4 DEF Awaited, Created
  <2>2. QED
    BY <1>1, <1>4, <2>1, TriedKeeps, OneKept
<1>5. QED
  BY <1>2, <1>3, <1>4

LEMMA TasksKeep ==
    ASSUME TypeOK, \A w \in Created : Sound(wf[w]), NEW w \in Wfs, WorkflowStep(w)
    PROVE  /\ \A v \in Created : Keeps(wf[v], wf'[v])
           /\ \A v \in Wfs : wf'[v].stage # "unused" => Sound(wf'[v])
<1>0. wf[w] \in Workflow /\ wf[w].stage # "unused" /\ Sound(wf[w])
  <2>1. wf[w].stage # "unused"
    BY DEF WorkflowStep, TaskSucceeds, TaskFails, PostExecutionSucceeds,
           PostExecutionFails, SendCall, GiveUp, Resource
  <2>2. QED
    BY <2>1 DEF TypeOK, Created
<1> DEFINE f == wf[w]
<1>1. ASSUME NEW to \in Stage, f.stage \in Task \ {"set-phase"}, Goes(w, to),
             to # "exit" => to = NextTask(f.act, f.stage),
             to = "exit" => f.stage = "post-execution",
             to # "done"
      PROVE  /\ \A v \in Created : Keeps(wf[v], wf'[v])
             /\ \A v \in Wfs : wf'[v].stage # "unused" => Sound(wf'[v])
  <2> DEFINE g == [f EXCEPT !.stage = to, !.tries = MaxTries,
                            !.done = @ \cup {f.stage},
                            !.status = IF to = "exit" THEN "Succeeded" ELSE @]
  <2>1. wf' = [wf EXCEPT ![w] = g]
    BY <1>0, <1>1 DEF Goes, TypeOK
  <2>2. f.status = "Running"
    BY <1>0, <1>1 DEF Sound, Task, Resource
  <2>3. Keeps(f, g)
    BY <1>0, <1>1, <2>2 DEF Keeps, Workflow, Stage, Task, Resource
  <2>4. Sound(g)
    <3>1. CASE to = "exit"
      BY <1>0, <1>1, <2>2, <3>1 DEF Sound, Workflow
    <3>2. CASE to # "exit"
      <4>1. f.act \in Act
        BY <1>0 DEF Workflow
      <4>2. CASE f.stage = "routes"
        BY <1>0, <1>1, <2>2, <3>2, <4>1, <4>2 DEF Sound, Workflow, NextTask
      <4>3. CASE f.stage = "stateful-set"
        BY <1>0, <1>1, <2>2, <3>2, <4>1, <4>3 DEF Sound, Workflow, NextTask, Prepared, Act
      <4>4. CASE f.stage = "pvc"
        BY <1>0, <1>1, <2>2, <3>2, <4>1, <4>4 DEF Sound, Workflow, NextTask, Prepared, Act
      <4>5. CASE f.stage = "post-execution"
        BY <1>1, <3>2, <4>5 DEF NextTask
      <4>6. QED
        BY <1>1, <4>2, <4>3, <4>4, <4>5 DEF Task, Resource
    <3>3. QED
      BY <3>1, <3>2
  <2> HIDE DEF g
  <2>5. QED
    BY <2>1, <2>3, <2>4, OneKept
<1>2. ASSUME Fails(w), f.status = "Running"
      PROVE  /\ \A v \in Created : Keeps(wf[v], wf'[v])
             /\ \A v \in Wfs : wf'[v].stage # "unused" => Sound(wf'[v])
  <2> DEFINE g == [f EXCEPT !.stage = "exit", !.tries = MaxTries, !.status = "Failed"]
  <2>1. wf' = [wf EXCEPT ![w] = g]
    BY <1>0, <1>2 DEF Fails, TypeOK
  <2>2. Keeps(f, g) /\ Sound(g)
    BY <1>0, <1>2 DEF Keeps, Sound, Workflow
  <2> HIDE DEF g
  <2>3. QED
    BY <2>1, <2>2, OneKept
<1>3. CASE TaskSucceeds(w)
  <2>1. f.stage \in Resource /\ Goes(w, NextTask(f.act, f.stage))
    BY <1>3 DEF TaskSucceeds
  <2>2. NextTask(f.act, f.stage) \in {"stateful-set", "pvc", "set-phase"}
    BY <2>1 DEF NextTask, Resource
  <2>3. QED
    BY <1>1, <2>1, <2>2 DEF Stage, Task, Resource
<1>4. CASE TaskFails(w)
  BY <1>0, <1>2, <1>4 DEF TaskFails, Sound, Resource
<1>5. CASE PostExecutionSucceeds(w)
  BY <1>1, <1>5 DEF PostExecutionSucceeds, Stage, Task
<1>6. CASE PostExecutionFails(w)
  BY <1>0, <1>2, <1>6 DEF PostExecutionFails, Sound
<1>7. CASE SendCall(w)
  <2> DEFINE g == [f EXCEPT !.waiting = TRUE]
  <2>1. wf' = [wf EXCEPT ![w] = g]
    BY <1>7 DEF SendCall
  <2>2. Keeps(f, g) /\ Sound(g)
    BY <1>0 DEF Keeps, Sound, Workflow, Prepared
  <2> HIDE DEF g
  <2>3. QED
    BY <2>1, <2>2, OneKept
<1>8. CASE GiveUp(w)
  <2>1. CASE f.stage = "set-phase"
    BY <1>0, <1>2, <1>8, <2>1 DEF GiveUp, Sound
  <2>2. CASE f.stage # "set-phase"
    <3> DEFINE g == [f EXCEPT !.stage = "done"]
    <3>1. wf' = [wf EXCEPT ![w] = g] /\ f.stage = "exit"
      BY <1>8, <2>2 DEF GiveUp
    <3>2. Keeps(f, g) /\ Sound(g)
      BY <1>0, <3>1 DEF Keeps, Sound, Workflow
    <3> HIDE DEF g
    <3>3. QED
      BY <3>1, <3>2, OneKept
  <2>3. QED
    BY <2>1, <2>2
<1>9. QED
  BY <1>3, <1>4, <1>5, <1>6, <1>7, <1>8 DEF WorkflowStep

LEMMA LaunchKeeps ==
    ASSUME TypeOK, \A w \in Created : Sound(wf[w]), NEW q \in Reqs, RequestStep(q)
    PROVE  /\ \A v \in Created : Keeps(wf[v], wf'[v])
           /\ \A v \in Wfs : wf'[v].stage # "unused" => Sound(wf'[v])
<1>1. CASE LaunchWorkflow(q)
  <2>1. PICK w \in Wfs \ Created :
          wf' = [wf EXCEPT ![w] = [Unused EXCEPT !.act = ActOf(req[q].op),
                                                 !.by = req[q].op, !.stage = "routes"]]
    BY <1>1 DEF LaunchWorkflow
  <2>2. Sound([Unused EXCEPT !.act = ActOf(req[q].op), !.by = req[q].op,
                             !.stage = "routes"])
    BY DEF Sound, Unused
  <2>3. \A v \in Created : wf'[v] = wf[v]
    BY <2>1 DEF Created, TypeOK
  <2>4. QED
    BY <2>1, <2>2, <2>3 DEF Created, Keeps, TypeOK
<1>2. CASE ~LaunchWorkflow(q)
  <2>1. wf' = wf
    BY <1>2 DEF RequestStep, CreateRead, ActionRead, RetryRead, Reread, InsertRow,
                RestartRow, WritePhase, Abort
  <2>2. QED
    BY <2>1 DEF Created, Keeps
<1>3. QED
  BY <1>1, <1>2

LEMMA CallsKeep ==
    ASSUME TypeOK, \A w \in Created : Sound(wf[w]), NEW c \in calls, CallStep(c)
    PROVE  /\ \A v \in Created : Keeps(wf[v], wf'[v])
           /\ \A v \in Wfs : wf'[v].stage # "unused" => Sound(wf'[v])
<1>1. \/ wf' = wf
      \/ Awaited(c) /\ wf' = [wf EXCEPT ![c.wf] = Advanced(@)]
      \/ Awaited(c) /\ wf' = [wf EXCEPT ![c.wf] = TriedInVain(@)]
  <2>1. ASSUME NEW ok \in BOOLEAN, Answer(c, ok)
        PROVE  \/ wf' = wf
               \/ Awaited(c) /\ wf' = [wf EXCEPT ![c.wf] = Advanced(@)]
               \/ Awaited(c) /\ wf' = [wf EXCEPT ![c.wf] = TriedInVain(@)]
    <3>1. CASE ok
      BY <2>1, <3>1 DEF Answer
    <3>2. CASE ~ok
      BY <2>1, <3>2 DEF Answer
    <3>3. QED
      BY <3>1, <3>2
  <2>2. CASE HandleSucceeded(c)
    BY <2>1, <2>2 DEF HandleSucceeded
  <2>3. CASE HandleFailed(c)
    BY <2>1, <2>3 DEF HandleFailed
  <2>4. CASE HandlePhase(c)
    BY <2>1, <2>4 DEF HandlePhase
  <2>5. CASE LoseCall(c) \/ CutConnection(c)
    BY <2>5 DEF LoseCall, CutConnection
  <2>6. QED
    BY <2>2, <2>3, <2>4, <2>5 DEF CallStep
<1>2. QED
  BY <1>1, AnswerKeeps
-----------------------------------------------------------------------------

Kept ==
    /\ \A w \in Created : w \in Created' /\ Keeps(wf[w], wf'[w])
    /\ WorkflowInv'

LEMMA StepKeeps ==
    ASSUME TypeOK, WorkflowInv, [Next]_vars
    PROVE  Kept
<1>0. \A w \in Created : Sound(wf[w])
  BY DEF WorkflowInv, Sound
<1>1. /\ \A v \in Created : Keeps(wf[v], wf'[v])
      /\ \A v \in Wfs : wf'[v].stage # "unused" => Sound(wf'[v])
  <2>1. CASE \E q \in Reqs : RequestStep(q)
    BY <1>0, <2>1, LaunchKeeps
  <2>2. CASE \E w \in Wfs : WorkflowStep(w)
    BY <1>0, <2>2, TasksKeep
  <2>3. CASE \E c \in calls : CallStep(c)
    BY <1>0, <2>3, CallsKeep
  <2>4. CASE UNCHANGED vars
    BY <1>0, <2>4 DEF vars, Created, Keeps
  <2>5. QED
    BY <2>1, <2>2, <2>3, <2>4 DEF Next
<1>2. \A w \in Created : w \in Created'
  BY <1>1 DEF Created, Keeps
<1>3. WorkflowInv'
  BY <1>1 DEF WorkflowInv, Sound, Created
<1>4. QED
  BY <1>1, <1>2, <1>3 DEF Kept
-----------------------------------------------------------------------------
(* The invariant, one row, one call and one request at a time.              *)

SomeFailed == \E w \in Created : wf[w].status = "Failed"

SomePause == \E w \in Created : wf[w].by = "pause"
SomeStart == \E w \in Created : wf[w].by = "start"

Covered(phase) ==
    /\ phase = "Launching"   => Performed({"create"}, {})
    /\ phase = "Updating"    => Performed({"update"}, {})
    /\ phase = "Pausing"     => Performed({"pause"}, {})
    /\ phase = "Terminating" => Performed({"delete"}, {})
    /\ phase = "Running"     => Performed({"create", "update"}, Resource \ {"pvc"})
    /\ phase = "Paused"      => Performed({"pause"}, Resource \ {"pvc"})
    /\ phase = "Terminated"  => Performed({"delete"}, Resource)

(* A phase that may be written: everything it says has happened.            *)
Justified(phase) ==
    /\ Covered(phase)
    /\ Excused(phase)
    /\ phase \in FailedTo \cup {"Failed"} => SomeFailed

RowOK(row) ==
    /\ Justified(row.phase)
    /\ row.paused => SomePause
    /\ row.paused /\ row.phase = "Launching" => SomeStart

CallOK(c) ==
    /\ c.wf \in Created
    /\ c.phase \in Reported => c.phase = TargetPhase(wf[c.wf].act) /\ Prepared(wf[c.wf])
    /\ c.phase \in FailedTo \cup {"Failed"} => wf[c.wf].status = "Failed"
    /\ Excused(c.phase)

RequestOK(q) ==
    /\ q.pc = "write" =>
        /\ q.wf \in Created
        /\ wf[q.wf].act = ActOf(q.op)
        /\ wf[q.wf].by = q.op
    /\ q.op = "start" => q.row \in Rows

LEMMA RowsOK == RowInv /\ PhaseHasWorkflow /\ FailureHasWorkflow
                    <=> \A r \in Rows : RowOK(rows[r])
<1>1. ASSUME RowInv, PhaseHasWorkflow, FailureHasWorkflow, NEW r \in Rows
      PROVE  RowOK(rows[r])
  <2>1. Covered(rows[r].phase)
    BY <1>1 DEF PhaseHasWorkflow, Covered
  <2>2. rows[r].phase \in FailedTo \cup {"Failed"} => SomeFailed
    BY <1>1 DEF FailureHasWorkflow, SomeFailed
  <2>3. QED
    BY <1>1, <2>1, <2>2 DEF RowInv, RowOK, Justified, SomePause, SomeStart
<1>2. ASSUME \A r \in Rows : RowOK(rows[r])
      PROVE  RowInv /\ PhaseHasWorkflow /\ FailureHasWorkflow
  <2>1. RowInv
    BY <1>2 DEF RowInv, RowOK, Justified, SomePause, SomeStart
  <2>2. PhaseHasWorkflow
    BY <1>2 DEF PhaseHasWorkflow, RowOK, Justified, Covered
  <2>3. FailureHasWorkflow
    BY <1>2 DEF FailureHasWorkflow, RowOK, Justified, Excused, SomeFailed
  <2>4. QED
    BY <2>1, <2>2, <2>3
<1>3. QED
  BY <1>1, <1>2

(* What was justified stays justified.                                      *)
LEMMA PerformedKept ==
    ASSUME Kept, NEW acts, NEW tasks, Performed(acts, tasks)
    PROVE  Performed(acts, tasks)'
BY DEF Kept, Performed, Keeps

LEMMA JustifiedKept ==
    ASSUME Kept, NEW phase
    PROVE  /\ Justified(phase) => Justified(phase)'
           /\ Excused(phase) => Excused(phase)'
           /\ SomePause => SomePause'
           /\ SomeStart => SomeStart'
<1>1. Covered(phase) => Covered(phase)'
  BY PerformedKept DEF Covered
<1>2. SomeFailed => SomeFailed'
  BY DEF Kept, SomeFailed, Keeps
<1>3. Excused(phase) => Excused(phase)'
  <2>1. (\E w, v \in Created : wf[w].by = "start" /\ wf[v].by = "pause") =>
        (\E w, v \in Created : wf[w].by = "start" /\ wf[v].by = "pause")'
    BY DEF Kept, Keeps
  <2>2. QED
    BY <2>1, PerformedKept DEF Excused
<1>4. (SomePause => SomePause') /\ (SomeStart => SomeStart')
  BY DEF Kept, SomePause, SomeStart, Keeps
<1>5. QED
  BY <1>1, <1>2, <1>3, <1>4 DEF Justified

LEMMA RowKept ==
    ASSUME Kept, NEW row, RowOK(row)
    PROVE  RowOK(row)'
BY JustifiedKept DEF RowOK

LEMMA CallKept ==
    ASSUME Kept, NEW c, CallOK(c)
    PROVE  CallOK(c)'
<1>1. c.wf \in Created' /\ Keeps(wf[c.wf], wf'[c.wf])
  BY DEF Kept, CallOK
<1>2. Prepared(wf[c.wf]) => Prepared(wf'[c.wf])
  BY <1>1 DEF Prepared, Keeps
<1>3. QED
  BY <1>1, <1>2, JustifiedKept DEF CallOK, Keeps

LEMMA RequestKept ==
    ASSUME Kept, NEW q, RequestOK(q)
    PROVE  RequestOK(q)'
BY DEF Kept, RequestOK, Keeps

(* An UPDATE to a justified phase leaves every row as it should be; only    *)
(* "Pausing" sets paused_at, and "Launching" clears it.                     *)
LEMMA UpdateOK ==
    ASSUME TypeOK, Kept, \A r \in Rows : RowOK(rows[r]),
           NEW ph \in Phase, Justified(ph), ph = "Pausing" => SomePause,
           UpdateStatus(ph)
    PROVE  \A r \in Rows : RowOK(rows[r])'
<1>1. ASSUME NEW r \in Rows, NEW row, row = rows'[r]
      PROVE  RowOK(row)'
  <2> DEFINE new == StatusFields(rows[r], ph)
  <2>1. new.phase = ph
    BY DEF StatusFields
  <2>2. new.paused => SomePause /\ new.phase # "Launching"
    BY <1>1 DEF StatusFields, RowOK, Transitional
  <2>3. RowOK(new)
    BY <2>1, <2>2 DEF RowOK
  <2>4. row \in {new, rows[r]}
    BY <1>1 DEF UpdateStatus
  <2> HIDE DEF new
  <2>5. RowOK(row)
    BY <2>3, <2>4
  <2>6. QED
    BY <2>5, RowKept
<1>2. QED
  BY <1>1
-----------------------------------------------------------------------------
(* The invariant restated with the predicates above.                        *)

Good ==
    /\ TypeOK
    /\ AtMostOneLive
    /\ WorkflowInv
    /\ \A r \in Rows : RowOK(rows[r])
    /\ \A c \in calls : CallOK(c)
    /\ \A q \in Reqs : RequestOK(req[q])

LEMMA GoodIsIInv == IInv <=> Good
<1>1. CallInv <=> \A c \in calls : CallOK(c)
  BY DEF CallInv, CallOK
<1>2. RequestInv <=> \A q \in Reqs : RequestOK(req[q])
  BY DEF RequestInv, RequestOK
<1>3. QED
  BY <1>1, <1>2, RowsOK DEF IInv, Good

(* Each variable when a step leaves it alone.                               *)
LEMMA RowsKept ==
    ASSUME Good, Kept, rows' = rows
    PROVE  AtMostOneLive' /\ \A r \in Rows : RowOK(rows[r])'
<1>1. AtMostOneLive'
  BY DEF Good, AtMostOneLive, Live
<1>2. ASSUME NEW r \in Rows, NEW row, row = rows[r]  PROVE RowOK(row)'
  BY <1>2, RowKept DEF Good
<1>3. QED
  BY <1>1, <1>2

LEMMA CallsKept ==
    ASSUME Good, Kept, NEW new,
           \A c \in calls' : c \in calls \/ (c = new /\ CallOK(new)')
    PROVE  \A c \in calls' : CallOK(c)'
BY CallKept DEF Good

LEMMA RequestsKept ==
    ASSUME Good, Kept, NEW q \in Reqs, NEW new,
           req' = [req EXCEPT ![q] = new], RequestOK(new)'
    PROVE  \A p \in Reqs : RequestOK(req[p])'
<1>1. ASSUME NEW p \in Reqs, NEW value, value = req'[p]  PROVE RequestOK(value)'
  <2>1. CASE p = q
    BY <1>1, <2>1 DEF Good, TypeOK
  <2>2. CASE p # q
    BY <1>1, <2>2, RequestKept DEF Good, TypeOK
  <2>3. QED
    BY <2>1, <2>2
<1>2. QED
  BY <1>1

(* A workspace becomes live only where the unique index allows it.          *)
LEMMA LiveKept ==
    ASSUME Good, NEW r \in Rows,
           \A s \in Rows \ {r} : rows'[s].phase = rows[s].phase,
           \/ IndexAllows(r)
           \/ rows'[r].phase = rows[r].phase
    PROVE  AtMostOneLive'
BY DEF Good, AtMostOneLive, Live, IndexAllows

LEMMA UpdateLive ==
    ASSUME Good, NEW ph \in Phase, UpdateStatus(ph)
    PROVE  AtMostOneLive'
<1>1. \A r \in Rows : Live(r)' => Live(r)
  BY DEF UpdateStatus, Live
<1>2. QED
  BY <1>1 DEF Good, AtMostOneLive

(* Requests.                                                                *)
LEMMA RequestsGood ==
    ASSUME Good, NEW q \in Reqs, RequestStep(q), Kept, TypeOK'
    PROVE  Good'
<1>0. req[q] \in Request /\ RequestOK(req[q])
  BY DEF Good, TypeOK
<1>1. calls' = calls
  BY DEF RequestStep, CreateRead, ActionRead, RetryRead, Reread, LaunchWorkflow,
         InsertRow, RestartRow, WritePhase, Abort
<1>2. \A c \in calls' : CallOK(c)'
  BY <1>1, CallKept DEF Good
<1>3. ASSUME Finish(q)  PROVE \A p \in Reqs : RequestOK(req[p])'
  <2>1. RequestOK(Idle)'
    BY DEF RequestOK, Idle
  <2>2. QED
    BY <1>3, <2>1, RequestsKept DEF Finish
<1>4. ASSUME AtMostOneLive', \A r \in Rows : RowOK(rows[r])',
             \A p \in Reqs : RequestOK(req[p])'
      PROVE  Good'
  BY <1>2, <1>4 DEF Good, Kept
<1>5. CASE CreateRead(q)
  <2> DEFINE new == [Idle EXCEPT !.op = "create", !.pc = "launch"]
  <2>1. RequestOK(new)'
    BY DEF RequestOK, Idle
  <2>2. req' = [req EXCEPT ![q] = new] /\ rows' = rows
    BY <1>5 DEF CreateRead
  <2> HIDE DEF new
  <2>3. QED
    BY <1>4, <2>1, <2>2, RequestsKept, RowsKept
<1>6. CASE \E op \in Actions : ActionRead(q, op)
  <2>1. PICK op \in Actions, r \in Rows :
          req' = [req EXCEPT ![q] = [op |-> op, pc |-> "launch", row |-> r, wf |-> NoWf]]
    BY <1>6 DEF ActionRead
  <2> DEFINE new == [op |-> op, pc |-> "launch", row |-> r, wf |-> NoWf]
  <2>2. RequestOK(new)'
    BY DEF RequestOK
  <2>3. rows' = rows
    BY <1>6 DEF ActionRead
  <2>4. req' = [req EXCEPT ![q] = new]
    BY <2>1
  <2> HIDE DEF new
  <2>5. QED
    BY <1>4, <2>2, <2>3, <2>4, RequestsKept, RowsKept
<1>7. CASE RetryRead(q)
  <2>1. PICK r \in Rows :
          req' = [req EXCEPT ![q] =
            [op |-> RetryOp(rows[r].phase),
             pc |-> IF RetryOp(rows[r].phase) = "start" THEN "launch" ELSE "reread",
             row |-> r, wf |-> NoWf]]
    BY <1>7 DEF RetryRead
  <2>2. PICK new : new = [op |-> RetryOp(rows[r].phase),
             pc |-> IF RetryOp(rows[r].phase) = "start" THEN "launch" ELSE "reread",
             row |-> r, wf |-> NoWf]
    OBVIOUS
  <2>3. RequestOK(new)'
    BY <2>2 DEF RequestOK
  <2>4. rows' = rows
    BY <1>7 DEF RetryRead
  <2>5. req' = [req EXCEPT ![q] = new]
    BY <2>1, <2>2
  <2>6. QED
    BY <1>4, <2>3, <2>4, <2>5, RequestsKept, RowsKept
<1>8. CASE Reread(q)
  <2>1. rows' = rows
    BY <1>8 DEF Reread
  <2>2. CASE Goto(q, "launch")
    <3>1. PICK new : new = [req[q] EXCEPT !.pc = "launch"]
      OBVIOUS
    <3>2. RequestOK(new)'
      BY <1>0, <3>1 DEF RequestOK, Request
    <3>3. req' = [req EXCEPT ![q] = new]
      BY <2>2, <3>1 DEF Goto, Good, TypeOK
    <3>4. QED
      BY <1>4, <2>1, <3>2, <3>3, RequestsKept, RowsKept
  <2>3. CASE Finish(q)
    BY <1>3, <1>4, <2>1, <2>3, RowsKept
  <2>4. QED
    BY <1>8, <2>2, <2>3 DEF Reread
<1>9. CASE LaunchWorkflow(q)
  <2>1. PICK w \in Wfs \ Created :
          /\ wf' = [wf EXCEPT ![w] = [Unused EXCEPT !.act = ActOf(req[q].op),
                                                    !.by = req[q].op, !.stage = "routes"]]
          /\ req' = [req EXCEPT ![q].pc = "write", ![q].wf = w]
    BY <1>9 DEF LaunchWorkflow
  <2>2. PICK new : new = [req[q] EXCEPT !.pc = "write", !.wf = w]
    OBVIOUS
  <2>3. /\ wf'[w].stage = "routes"
        /\ wf'[w].act = ActOf(req[q].op)
        /\ wf'[w].by = req[q].op
    BY <2>1 DEF Unused, Good, TypeOK
  <2>4. new.op = req[q].op /\ new.row = req[q].row /\ new.wf = w
    BY <1>0, <2>2 DEF Request
  <2>5. RequestOK(new)'
    BY <1>0, <2>3, <2>4 DEF RequestOK, Created
  <2>6. req' = [req EXCEPT ![q] = new]
    BY <1>0, <2>1, <2>2 DEF Good, TypeOK, Request
  <2>7. rows' = rows
    BY <1>9 DEF LaunchWorkflow
  <2>8. QED
    BY <1>4, <2>5, <2>6, <2>7, RequestsKept, RowsKept
<1>10. CASE InsertRow(q)
  <2> DEFINE new == [phase |-> "Launching", started |-> TRUE, paused |-> FALSE,
                     terminated |-> FALSE]
  <2>1. Finish(q)
    BY <1>10 DEF InsertRow
  <2>2. PICK r \in Rows :
          IF IndexAllows(r) THEN rows' = [rows EXCEPT ![r] = new] ELSE rows' = rows
    BY <1>10 DEF InsertRow
  <2>3. CASE rows' = rows
    BY <1>3, <1>4, <2>1, <2>3, RowsKept
  <2>4. CASE IndexAllows(r) /\ rows' = [rows EXCEPT ![r] = new]
    <3>1. Performed({"create"}, {})
      BY <1>0, <1>10 DEF InsertRow, RequestOK, Performed, ActOf
    <3>2. Justified("Launching")
      BY <3>1 DEF Justified, Covered, Excused, FailedTo
    <3>3. new.phase = "Launching" /\ ~new.paused
      OBVIOUS
    <3>4. RowOK(new)
      BY <3>2, <3>3 DEF RowOK
    <3> HIDE DEF new
    <3>5. ASSUME NEW s \in Rows, NEW row, row = rows'[s]  PROVE RowOK(row)'
      <4>1. row = new \/ row = rows[s]
        BY <2>4, <3>5 DEF Good, TypeOK
      <4>2. RowOK(row)
        BY <3>4, <4>1 DEF Good
      <4>3. QED
        BY <4>2, RowKept
    <3>6. AtMostOneLive'
      <4>1. \A s \in Rows \ {r} : rows'[s].phase = rows[s].phase
        BY <2>4 DEF Good, TypeOK
      <4>2. QED
        BY <2>4, <4>1, LiveKept
    <3>7. QED
      BY <1>3, <1>4, <2>1, <3>5, <3>6
  <2>5. QED
    BY <2>2, <2>3, <2>4
<1>11. CASE RestartRow(q)
  <2>1. Finish(q)
    BY <1>11 DEF RestartRow
  <2>2. PICK r \in Rows : r = req[q].row
    BY <1>0, <1>11 DEF RestartRow, RequestOK
  <2>3. CASE rows' = rows
    BY <1>3, <1>4, <2>1, <2>3, RowsKept
  <2>4. CASE /\ IndexAllows(r)
             /\ rows' = [rows EXCEPT ![r].phase = "Launching", ![r].started = TRUE]
    <3>1. PICK new : new = [rows[r] EXCEPT !.phase = "Launching", !.started = TRUE]
      OBVIOUS
    <3>2. rows[r] \in Row /\ RowOK(rows[r])
      BY DEF Good, TypeOK
    <3>3. new.phase = "Launching" /\ new.paused = rows[r].paused
      BY <3>1, <3>2 DEF Row
    <3>4. Performed({"create"}, {}) /\ SomeStart
      BY <1>0, <1>11 DEF RestartRow, RequestOK, Performed, ActOf, SomeStart
    <3>5. Justified("Launching")
      BY <3>4 DEF Justified, Covered, Excused, FailedTo
    <3>6. RowOK(new)
      BY <3>2, <3>3, <3>4, <3>5 DEF RowOK
    <3>7. ASSUME NEW s \in Rows, NEW row, row = rows'[s]  PROVE RowOK(row)'
      <4>1. row = new \/ row = rows[s]
        BY <2>4, <3>1, <3>7 DEF Good, TypeOK
      <4>2. RowOK(row)
        BY <3>6, <4>1 DEF Good
      <4>3. QED
        BY <4>2, RowKept
    <3>8. AtMostOneLive'
      <4>1. \A s \in Rows \ {r} : rows'[s].phase = rows[s].phase
        BY <2>4 DEF Good, TypeOK
      <4>2. QED
        BY <2>4, <4>1, LiveKept
    <3>9. QED
      BY <1>3, <1>4, <2>1, <3>7, <3>8
  <2>5. QED
    BY <1>11, <2>2, <2>3, <2>4 DEF RestartRow
<1>12. CASE WritePhase(q)
  <2>1. PICK ph : ph = PhaseOf(req[q].op)
    OBVIOUS
  <2>2. /\ req[q].op \in {"resume", "update", "pause", "delete"}
        /\ UpdateStatus(ph)
        /\ Finish(q)
    BY <1>0, <1>12, <2>1 DEF WritePhase, Request, Op
  <2>3. ph \in {"Launching", "Updating", "Pausing", "Terminating"}
    BY <2>1, <2>2 DEF PhaseOf
  <2>4. /\ ph = "Launching"   => Performed({"create"}, {})
        /\ ph = "Updating"    => Performed({"update"}, {})
        /\ ph = "Pausing"     => Performed({"pause"}, {}) /\ SomePause
        /\ ph = "Terminating" => Performed({"delete"}, {})
    BY <1>0, <1>12, <2>1, <2>2
       DEF WritePhase, RequestOK, Performed, ActOf, PhaseOf, SomePause
  <2>5. Justified(ph)
    BY <2>3, <2>4 DEF Justified, Covered, Excused, FailedTo
  <2>6. ph \in Phase
    BY <2>3 DEF Phase, Transitional
  <2>7. \A r \in Rows : RowOK(rows[r])'
    BY <2>2, <2>4, <2>5, <2>6, UpdateOK DEF Good
  <2>8. AtMostOneLive'
    BY <2>2, <2>6, UpdateLive
  <2>9. QED
    BY <1>3, <1>4, <2>2, <2>7, <2>8
<1>13. CASE Abort(q)
  BY <1>3, <1>4, <1>13, RowsKept DEF Abort
<1>14. QED
  BY <1>5, <1>6, <1>7, <1>8, <1>9, <1>10, <1>11, <1>12, <1>13 DEF RequestStep

(* Workflows: the calls they send say what they have done.                  *)
LEMMA WorkflowsGood ==
    ASSUME Good, NEW w \in Wfs, WorkflowStep(w), Kept, TypeOK'
    PROVE  Good'
<1>1. rows' = rows /\ req' = req
  BY DEF WorkflowStep, TaskSucceeds, TaskFails, PostExecutionSucceeds,
         PostExecutionFails, SendCall, GiveUp
<1>2. \A q \in Reqs : RequestOK(req[q])'
  BY <1>1, RequestKept DEF Good
<1>3. \A c \in calls' : CallOK(c)'
  <2>1. CASE SendCall(w)
    <3>1. PICK c :
            /\ c = [wf |-> w, task |-> wf[w].stage, try |-> wf[w].tries, at |-> "arrived",
                    phase |-> IF wf[w].stage = "exit" THEN wf[w].status
                                                      ELSE TargetPhase(wf[w].act)]
            /\ calls' = calls \cup {c}
      BY <2>1 DEF SendCall
    <3>2. w \in Created /\ wf[w] \in Workflow
      BY <2>1 DEF SendCall, Created, Good, TypeOK
    <3>3. CASE wf[w].stage = "exit"
      <4>1. c.wf = w /\ c.phase \in {"Succeeded", "Failed"} /\ c.phase = wf[w].status
        BY <3>1, <3>2, <3>3 DEF Good, WorkflowInv, Workflow
      <4>2. CallOK(c)
        BY <3>2, <4>1 DEF CallOK, Reported, FailedTo, Excused
      <4>3. QED
        BY <3>1, <4>2, CallKept DEF Good
    <3>4. CASE wf[w].stage = "set-phase"
      <4>1. c.wf = w /\ c.phase = TargetPhase(wf[w].act)
        BY <3>1, <3>4
      <4>2. Prepared(wf[w])
        BY <3>2, <3>4 DEF Good, WorkflowInv
      <4>3. c.phase \in Reported
        BY <3>2, <4>1 DEF TargetPhase, Workflow, Act, Reported
      <4>4. CallOK(c)
        BY <3>2, <4>1, <4>2, <4>3 DEF CallOK, Reported, FailedTo, Excused
      <4>5. QED
        BY <3>1, <4>4, CallKept DEF Good
    <3>5. QED
      BY <2>1, <3>3, <3>4 DEF SendCall
  <2>2. CASE ~SendCall(w)
    <3>1. calls' = calls
      BY <2>2 DEF WorkflowStep, TaskSucceeds, TaskFails, PostExecutionSucceeds,
                  PostExecutionFails, GiveUp
    <3>2. QED
      BY <3>1, CallKept DEF Good
  <2>3. QED
    BY <2>1, <2>2
<1>4. AtMostOneLive' /\ \A r \in Rows : RowOK(rows[r])'
  BY <1>1, RowsKept
<1>5. QED
  BY <1>2, <1>3, <1>4 DEF Good, Kept

(* What a row calls a failure is the failure of what the row was doing.     *)
LEMMA FailurePhaseExcused ==
    ASSUME NEW row, RowOK(row)
    PROVE  Excused(FailurePhase(row)) /\ FailurePhase(row) \in FailedTo \cup {"Failed"}
<1>1. FailurePhase(row) \in FailedTo \cup {"Failed"}
  BY DEF FailurePhase, FailedTo
<1>2. CASE row.phase = "Launching"
  <2>1. Performed({"create"}, {})
    BY <1>2 DEF RowOK, Justified, Covered
  <2>2. CASE row.paused
    <3>1. \E w, v \in Created : wf[w].by = "start" /\ wf[v].by = "pause"
      BY <1>2, <2>2 DEF RowOK, SomePause, SomeStart
    <3>2. FailurePhase(row) = "Failed to resume"
      BY <1>2, <2>2 DEF FailurePhase
    <3>3. QED
      BY <1>1, <2>1, <3>1, <3>2 DEF Excused
  <2>3. CASE ~row.paused
    <3>1. FailurePhase(row) = "Failed to launch"
      BY <1>2, <2>3 DEF FailurePhase
    <3>2. QED
      BY <1>1, <2>1, <3>1 DEF Excused
  <2>4. QED
    BY <2>2, <2>3
<1>3. CASE row.phase = "Updating"
  <2>1. FailurePhase(row) = "Failed to update" /\ Performed({"update"}, {})
    BY <1>3 DEF FailurePhase, RowOK, Justified, Covered
  <2>2. QED
    BY <1>1, <2>1 DEF Excused
<1>4. CASE row.phase = "Pausing"
  <2>1. FailurePhase(row) = "Failed to pause" /\ Performed({"pause"}, {})
    BY <1>4 DEF FailurePhase, RowOK, Justified, Covered
  <2>2. QED
    BY <1>1, <2>1 DEF Excused
<1>5. CASE row.phase = "Terminating"
  <2>1. FailurePhase(row) = "Failed to terminate" /\ Performed({"delete"}, {})
    BY <1>5 DEF FailurePhase, RowOK, Justified, Covered
  <2>2. QED
    BY <1>1, <2>1 DEF Excused
<1>6. CASE row.phase \notin Transitional
  <2>1. FailurePhase(row) = "Failed"
    BY <1>6 DEF FailurePhase, Transitional
  <2>2. QED
    BY <1>1, <2>1 DEF Excused
<1>7. QED
  BY <1>2, <1>3, <1>4, <1>5, <1>6 DEF Transitional

(* Status calls: what they write has happened, however late they are.       *)
LEMMA CallsGood ==
    ASSUME Good, NEW c \in calls, CallStep(c), Kept, TypeOK'
    PROVE  Good'
<1>0. c \in Call /\ CallOK(c)
  BY DEF Good, TypeOK
<1>1. req' = req
  BY DEF CallStep, HandleSucceeded, HandleFailed, HandlePhase, LoseCall, CutConnection
<1>2. \A q \in Reqs : RequestOK(req[q])'
  BY <1>1, RequestKept DEF Good
<1>3. \A d \in calls' : CallOK(d)'
  <2>1. CASE \E r \in Rows : calls' = (calls \ {c}) \cup
                {[c EXCEPT !.at = "decided", !.phase = FailurePhase(rows[r])]}
             /\ c.phase = "Failed"
    <3>0. PICK r \in Rows : calls' = (calls \ {c}) \cup
              {[c EXCEPT !.at = "decided", !.phase = FailurePhase(rows[r])]}
      BY <2>1
    <3>1. PICK d :
            /\ d = [c EXCEPT !.at = "decided", !.phase = FailurePhase(rows[r])]
            /\ calls' = (calls \ {c}) \cup {d}
      BY <3>0
    <3>2. Excused(FailurePhase(rows[r])) /\ FailurePhase(rows[r]) \in FailedTo \cup {"Failed"}
      BY FailurePhaseExcused DEF Good
    <3>3. d.wf = c.wf /\ d.phase = FailurePhase(rows[r])
      BY <1>0, <3>1 DEF Call, CallOf
    <3>4. d.phase \notin Reported
      BY <3>2, <3>3 DEF Reported, FailedTo
    <3>5. c.wf \in Created /\ wf[c.wf].status = "Failed"
      BY <1>0, <2>1 DEF CallOK
    <3>6. CallOK(d)
      BY <3>2, <3>3, <3>4, <3>5 DEF CallOK
    <3>7. QED
      BY <3>1, <3>6, CallKept DEF Good
  <2>2. CASE calls' \subseteq calls
    BY <2>2, CallKept DEF Good
  <2>3. QED
    BY <2>1, <2>2 DEF CallStep, HandleSucceeded, HandleFailed, HandlePhase, LoseCall,
                      CutConnection
<1>4. AtMostOneLive' /\ \A r \in Rows : RowOK(rows[r])'
  <2>1. CASE HandlePhase(c)
    <3>1. PICK ph : ph = c.phase
      OBVIOUS
    <3>2. ph \in Phase /\ UpdateStatus(ph)
      BY <1>0, <2>1, <3>1 DEF HandlePhase, Call, CallOf, Phase
    <3>3. ph \in Reported \cup FailedTo \cup {"Failed"}
      BY <1>0, <2>1, <3>1 DEF HandlePhase, Call, CallOf
    <3>4. Justified(ph)
      <4>1. CASE ph \in Reported
        <5>1. /\ c.wf \in Created
              /\ ph = TargetPhase(wf[c.wf].act)
              /\ Prepared(wf[c.wf])
              /\ wf[c.wf].act \in Act
          BY <1>0, <3>1, <4>1 DEF CallOK, Created, Good, TypeOK, Workflow
        <5>2. /\ ph = "Running"    => wf[c.wf].act \in {"create", "update"}
              /\ ph = "Paused"     => wf[c.wf].act = "pause"
              /\ ph = "Terminated" => wf[c.wf].act = "delete"
          BY <5>1 DEF TargetPhase, Act
        <5>3. /\ Resource \ {"pvc"} \subseteq wf[c.wf].done
              /\ ph = "Terminated" => Resource \subseteq wf[c.wf].done
          BY <5>1, <5>2 DEF Prepared, Resource
        <5>4. Covered(ph)
          BY <4>1, <5>1, <5>2, <5>3 DEF Covered, Performed, Reported
        <5>5. QED
          BY <1>0, <3>1, <4>1, <5>4 DEF Justified, CallOK, Reported, FailedTo
      <4>2. CASE ph \in FailedTo \cup {"Failed"}
        <5>1. Covered(ph)
          BY <4>2 DEF Covered, FailedTo
        <5>2. SomeFailed
          BY <1>0, <3>1, <4>2 DEF CallOK, SomeFailed
        <5>3. QED
          BY <1>0, <3>1, <5>1, <5>2 DEF Justified, CallOK
      <4>3. QED
        BY <3>3, <4>1, <4>2
    <3>5. ph # "Pausing"
      BY <3>3 DEF Reported, FailedTo
    <3>6. \A r \in Rows : RowOK(rows[r])'
      BY <3>2, <3>4, <3>5, UpdateOK DEF Good
    <3>7. QED
      BY <3>2, <3>6, UpdateLive
  <2>2. CASE ~HandlePhase(c)
    <3>1. rows' = rows
      BY <2>2 DEF CallStep, HandleSucceeded, HandleFailed, LoseCall, CutConnection
    <3>2. QED
      BY <3>1, RowsKept
  <2>3. QED
    BY <2>1, <2>2
<1>5. QED
  BY <1>2, <1>3, <1>4 DEF Good, Kept
-----------------------------------------------------------------------------
(* The invariant is inductive.                                              *)
LEMMA InitGood == Init => Good
<1> SUFFICES ASSUME Init  PROVE Good
  OBVIOUS
<1>1. TypeOK
  BY WorkspaceAssumption DEF Init, TypeOK, Row, Idle, Request, Op, Unused, Workflow, Act
<1>2. AtMostOneLive
  BY DEF Init, AtMostOneLive, Live
<1>3. WorkflowInv
  BY DEF Init, WorkflowInv, Created, Unused
<1>4. \A r \in Rows : RowOK(rows[r])
  BY DEF Init, RowOK, Justified, Covered, Excused, FailedTo
<1>5. (\A c \in calls : CallOK(c)) /\ \A q \in Reqs : RequestOK(req[q])
  BY DEF Init, RequestOK, Idle
<1>6. QED
  BY <1>1, <1>2, <1>3, <1>4, <1>5 DEF Good

LEMMA NextGood == Good /\ [Next]_vars => Good'
<1> SUFFICES ASSUME Good, [Next]_vars  PROVE Good'
  OBVIOUS
<1>1. Kept
  BY StepKeeps DEF Good
<1>2. CASE \E q \in Reqs : RequestStep(q)
  BY <1>1, <1>2, RequestType, RequestsGood DEF Good
<1>3. CASE \E w \in Wfs : WorkflowStep(w)
  BY <1>1, <1>3, WorkflowType, WorkflowsGood DEF Good
<1>4. CASE \E c \in calls : CallStep(c)
  BY <1>1, <1>4, CallType, CallsGood DEF Good
<1>5. CASE UNCHANGED vars
  <2>1. TypeOK' /\ rows' = rows /\ calls' = calls /\ req' = req
    BY <1>5 DEF vars, Good, TypeOK
  <2>2. (\A c \in calls' : CallOK(c)') /\ \A q \in Reqs : RequestOK(req[q])'
    BY <1>1, <2>1, CallKept, RequestKept DEF Good
  <2>3. QED
    BY <1>1, <2>1, <2>2, RowsKept DEF Good, Kept
<1>6. QED
  BY <1>2, <1>3, <1>4, <1>5 DEF Next

(* IInv holds in every reachable state, and is kept by every step.          *)
THEOREM Invariant == Spec => []IInv
<1>1. Init => IInv
  BY InitGood, GoodIsIInv
<1>2. IInv /\ [Next]_vars => IInv'
  <2>1. Good <=> IInv
    BY GoodIsIInv
  <2>2. Good' <=> IInv'
    BY <2>1, PTL
  <2>3. QED
    BY <2>1, <2>2, NextGood
<1>3. QED
  BY <1>1, <1>2, PTL DEF Spec

(* Two live rows never share a uid: neither the check-then-insert of        *)
(* CreateWorkspace nor a retried launch that revives a row makes a second.  *)
THEOREM OneLiveRow == Spec => []AtMostOneLive
BY Invariant, PTL DEF IInv

(* A row's phase is backed by the workflow that did the work.               *)
THEOREM PhasesAreBacked == Spec => []PhaseHasWorkflow
BY Invariant, PTL DEF IInv

(* A failure phase is backed by a failed workflow and an action started.    *)
THEOREM FailuresAreBacked == Spec => []FailureHasWorkflow
BY Invariant, PTL DEF IInv

(* Each phase, good or bad, has been earned by a workflow (Update of        *)
(* Workspace, UpdateWorkspaceStatus).                                       *)
THEOREM PhasesAreEarned == Spec => []PhasesEarned
<1>1. PhaseHasWorkflow /\ FailureHasWorkflow => PhasesEarned
  BY DEF PhasesEarned
<1>2. QED
  BY <1>1, PhasesAreBacked, FailuresAreBacked, PTL

(* "Failed to resume" takes a retried launch and a pause, never a resume    *)
(* alone.                                                                   *)
THEOREM ResumeFailuresNeedRestart == Spec => []ResumeFailureNeedsRestart
<1>1. IInv => ResumeFailureNeedsRestart
  BY DEF IInv, RowInv, Excused, ResumeFailureNeedsRestart
<1>2. QED
  BY <1>1, Invariant, PTL

(* Only the retry of a launch, by primary key, changes a terminated row.    *)
THEOREM TerminatedIsFinal == Spec => OnlyRestartRevives
<1>1. ASSUME IInv, [Next]_vars, NEW r \in Rows, rows[r].phase = "Terminated",
             rows'[r] # rows[r]
      PROVE  \E q \in Reqs : RestartRow(q) /\ req[q].row = r
  <2>1. ~Live(r)
    BY <1>1 DEF Live
  <2>2. ASSUME NEW ph, UpdateStatus(ph)  PROVE rows'[r] = rows[r]
    BY <2>1, <2>2 DEF UpdateStatus
  <2>3. CASE \E q \in Reqs : RequestStep(q)
    <3>1. PICK q \in Reqs : RequestStep(q)
      BY <2>3
    <3>2. CASE InsertRow(q)
      BY <1>1, <3>2 DEF InsertRow, IInv, TypeOK
    <3>3. CASE RestartRow(q)
      <4>1. req[q].row = r
        BY <1>1, <3>3 DEF RestartRow, IInv, TypeOK
      <4>2. QED
        BY <3>3, <4>1
    <3>4. CASE WritePhase(q)
      BY <1>1, <2>2, <3>4 DEF WritePhase
    <3>5. CASE rows' = rows
      BY <1>1, <3>5
    <3>6. QED
      BY <3>1, <3>2, <3>3, <3>4, <3>5 DEF RequestStep, CreateRead, ActionRead, RetryRead,
                                          Reread, LaunchWorkflow, Abort
  <2>4. CASE \E w \in Wfs : WorkflowStep(w)
    BY <1>1, <2>4 DEF WorkflowStep, TaskSucceeds, TaskFails, PostExecutionSucceeds,
                      PostExecutionFails, SendCall, GiveUp
  <2>5. CASE \E c \in calls : CallStep(c)
    BY <1>1, <2>2, <2>5 DEF CallStep, HandleSucceeded, HandleFailed, HandlePhase, LoseCall,
                            CutConnection
  <2>6. QED
    BY <1>1, <2>3, <2>4, <2>5 DEF Next, vars
<1>2. IInv /\ [Next]_vars =>
        [\A r \in Rows : rows[r].phase = "Terminated" /\ rows'[r] # rows[r] =>
            \E q \in Reqs : RestartRow(q) /\ req[q].row = r]_vars
  BY <1>1
<1>3. QED
  BY <1>2, Invariant, PTL DEF Spec, OnlyRestartRevives
-----------------------------------------------------------------------------
(* What a call says of its workflow, and what its answer makes of it.       *)

CallTold(c) ==
    /\ c.phase \in Reported => c.task = "set-phase"
    /\ c.phase = "Succeeded" => c.task = "exit" /\ wf[c.wf].status = "Succeeded"
    /\ c.phase \in FailedTo \cup {"Failed"} => c.task = "exit"

(* The workflow reports its phase before it can succeed.                    *)
Told(f) == f.status = "Succeeded" \/ f.stage = "post-execution" => "set-phase" \in f.done

Unanswered(f, g) ==
    /\ g.act = f.act /\ g.by = f.by
    /\ g.stage = f.stage /\ g.done = f.done /\ g.status = f.status

Ended(f, g) ==
    /\ f.stage = "exit" /\ g.stage = "done"
    /\ g.act = f.act /\ g.by = f.by /\ g.done = f.done /\ g.status = f.status

Reported1(f, g) ==
    /\ f.stage = "set-phase" /\ g.stage \in {"post-execution", "exit"}
    /\ g.act = f.act /\ g.by = f.by /\ g.done = f.done \cup {"set-phase"}
    /\ g.tries = MaxTries
    /\ g.status # "Failed"

(* Only a refusal uses up an attempt without a loss.                        *)
LEMMA AnswerGives ==
    ASSUME Good, NEW c \in calls, NEW ok \in BOOLEAN, Answer(c, ok)
    PROVE  /\ \A w \in Wfs \ {c.wf} : wf'[w] = wf[w]
           /\ \/ /\ Unanswered(wf[c.wf], wf'[c.wf])
                 /\ ok => wf'[c.wf].tries + losses' = wf[c.wf].tries + losses
              \/ /\ ok /\ Awaited(c) /\ losses' = losses
                 /\ Ended(wf[c.wf], wf'[c.wf]) \/ Reported1(wf[c.wf], wf'[c.wf])
           /\ ok /\ losses' = 0 /\ Awaited(c) => wf'[c.wf].stage # wf[c.wf].stage
           /\ ~ok /\ losses' = 0 /\ Awaited(c) => ~wf'[c.wf].waiting
           /\ losses' = 0 => losses = 0
<1> DEFINE f == wf[c.wf]  g == wf'[c.wf]
<1>1. /\ c.wf \in Wfs /\ c.task \in {"set-phase", "exit"} /\ c.try \in 1..MaxTries
      /\ f \in Workflow /\ losses \in Nat /\ c.wf \in Created
  BY WorkspaceAssumption DEF Good, TypeOK, Call, CallOf, CallOK
<1>2. ASSUME wf' = [wf EXCEPT ![c.wf] = TriedInVain(@)], Awaited(c)
      PROVE  Unanswered(f, g) /\ g.tries = f.tries - 1 /\ g.waiting = FALSE
  BY <1>1, <1>2 DEF TriedInVain, Unanswered, Good, TypeOK, Workflow
<1>3. ASSUME wf' = [wf EXCEPT ![c.wf] = Advanced(@)], Awaited(c)
      PROVE  Ended(f, g) \/ Reported1(f, g)
  <2>1. g = Advanced(f)
    BY <1>1, <1>3 DEF Good, TypeOK
  <2>2. CASE f.stage = "exit"
    BY <1>1, <2>1, <2>2 DEF Advanced, Ended, Workflow
  <2>3. CASE f.stage = "set-phase"
    <3>1. NextTask(f.act, "set-phase") \in {"post-execution", "exit"}
      BY DEF NextTask
    <3>2. f.status = "Running"
      BY <1>1, <2>3 DEF Good, WorkflowInv, Workflow
    <3>3. QED
      BY <1>1, <2>1, <2>3, <3>1, <3>2 DEF Advanced, Reported1, Workflow
  <2>4. QED
    BY <1>1, <1>3, <2>2, <2>3 DEF Awaited
<1>4. f.tries \in Nat
  BY <1>1, WorkspaceAssumption DEF Workflow
<1>5. CASE wf' = wf /\ losses' = losses /\ ~Awaited(c)
  BY <1>4, <1>5 DEF Unanswered
<1>6. CASE Awaited(c) /\ ok /\ losses' = losses /\ wf' = [wf EXCEPT ![c.wf] = Advanced(@)]
  BY <1>1, <1>3, <1>6 DEF Ended, Reported1, Good, TypeOK
<1>7. CASE Awaited(c) /\ ~ok /\ losses' = losses /\ wf' = [wf EXCEPT ![c.wf] = TriedInVain(@)]
  BY <1>1, <1>2, <1>7 DEF Good, TypeOK
<1>8. CASE Awaited(c) /\ losses' = losses + 1 /\ wf' = [wf EXCEPT ![c.wf] = TriedInVain(@)]
  BY <1>1, <1>2, <1>4, <1>8 DEF Good, TypeOK
<1>9. QED
  BY <1>5, <1>6, <1>7, <1>8 DEF Answer

(* A lost call or a cut connection uses up one attempt for one loss.        *)
LEMMA LossGives ==
    ASSUME Good, NEW c \in calls, LoseCall(c) \/ CutConnection(c)
    PROVE  /\ \A w \in Wfs \ {c.wf} : wf'[w] = wf[w]
           /\ Unanswered(wf[c.wf], wf'[c.wf])
           /\ wf'[c.wf].tries + losses' >= wf[c.wf].tries + losses
           /\ losses' # 0
<1>1. /\ c.wf \in Wfs /\ c.try \in 1..MaxTries
      /\ wf[c.wf] \in Workflow /\ losses \in Nat /\ wf[c.wf].tries \in Nat
  BY WorkspaceAssumption DEF Good, TypeOK, Call, CallOf, Workflow
<1>2. losses' = losses + 1
  BY DEF LoseCall, CutConnection
<1>3. CASE wf' = wf
  BY <1>1, <1>2, <1>3 DEF Unanswered
<1>4. CASE wf' = [wf EXCEPT ![c.wf] = TriedInVain(@)]
  <2>1. \A w \in Wfs \ {c.wf} : wf'[w] = wf[w]
    BY <1>4 DEF Good, TypeOK
  <2>2. wf'[c.wf] = TriedInVain(wf[c.wf])
    BY <1>1, <1>4 DEF Good, TypeOK
  <2>3. Unanswered(wf[c.wf], wf'[c.wf]) /\ wf'[c.wf].tries = wf[c.wf].tries - 1
    BY <1>1, <2>2 DEF TriedInVain, Unanswered, Workflow
  <2>4. QED
    BY <1>1, <1>2, <2>1, <2>3
<1>5. QED
  BY <1>3, <1>4 DEF LoseCall, CutConnection

(* The answer a status call may get, for all three ways to handle it.       *)
LEMMA CallGives ==
    ASSUME Good, NEW c \in calls, CallStep(c)
    PROVE  /\ \A w \in Wfs \ {c.wf} : wf'[w] = wf[w]
           /\ \/ Unanswered(wf[c.wf], wf'[c.wf])
              \/ Awaited(c) /\ Ended(wf[c.wf], wf'[c.wf])
              \/ Awaited(c) /\ Reported1(wf[c.wf], wf'[c.wf])
<1>1. CASE \E ok \in BOOLEAN : Answer(c, ok)
  BY <1>1, AnswerGives
<1>2. CASE wf' = wf
  BY <1>2 DEF Unanswered
<1>3. CASE LoseCall(c) \/ CutConnection(c)
  BY <1>3, LossGives
<1>4. HandlePhase(c) => Answer(c, \E r \in Rows : Live(r)) /\ (\E r \in Rows : Live(r)) \in BOOLEAN
  BY DEF HandlePhase
<1>5. QED
  BY <1>1, <1>2, <1>3, <1>4 DEF CallStep, HandleSucceeded, HandleFailed

(* What Argo makes of a workflow in one step.                               *)
LEMMA TaskGives ==
    ASSUME Good, NEW w \in Wfs, WorkflowStep(w), Told(wf[w])
    PROVE  /\ w \in Created
           /\ \A v \in Wfs \ {w} : wf'[v] = wf[v]
           /\ Told(wf'[w])
           /\ wf[w].status = "Succeeded" => wf'[w].status = "Succeeded"
<1> DEFINE f == wf[w]  g == wf'[w]
<1>1. f \in Workflow /\ wf \in [Wfs -> Workflow]
  BY DEF Good, TypeOK
<1>2. w \in Created /\ \A v \in Wfs \ {w} : wf'[v] = wf[v]
  BY <1>1 DEF WorkflowStep, TaskSucceeds, TaskFails, PostExecutionSucceeds, PostExecutionFails,
              SendCall, GiveUp, Goes, Fails, Resource, Created
<1>3. f.status # "Running" <=> f.stage \in {"exit", "done"}
  BY <1>2 DEF Good, WorkflowInv
<1>4. CASE TaskSucceeds(w)
  <2>1. NextTask(f.act, f.stage) \notin {"exit", "post-execution"}
    BY <1>4 DEF TaskSucceeds, NextTask, Resource
  <2>2. g.stage = NextTask(f.act, f.stage) /\ g.status = f.status
    BY <1>1, <1>4, <2>1 DEF TaskSucceeds, Goes, Workflow
  <2>3. f.stage \notin {"exit", "done"} /\ f.status = "Running"
    BY <1>1, <1>3, <1>4 DEF TaskSucceeds, Resource, Workflow
  <2>4. QED
    BY <1>2, <2>1, <2>2, <2>3 DEF Told
<1>5. CASE TaskFails(w) \/ PostExecutionFails(w) \/ (GiveUp(w) /\ f.stage = "set-phase")
  <2>1. g.stage = "exit" /\ g.status = "Failed"
    BY <1>1, <1>5 DEF TaskFails, PostExecutionFails, GiveUp, Fails, Workflow
  <2>2. f.stage \notin {"exit", "done"}
    BY <1>5 DEF TaskFails, PostExecutionFails, Resource
  <2>3. QED
    BY <1>2, <1>3, <2>1, <2>2 DEF Told
<1>6. CASE PostExecutionSucceeds(w)
  <2>1. g.status = "Succeeded" /\ f.done \subseteq g.done /\ f.stage = "post-execution"
    BY <1>1, <1>6 DEF PostExecutionSucceeds, Goes, Workflow
  <2>2. QED
    BY <1>2, <2>1 DEF Told
<1>7. CASE SendCall(w) \/ (GiveUp(w) /\ f.stage # "set-phase")
  <2>1. g.status = f.status /\ g.done = f.done /\ g.stage \in {f.stage, "done"}
    BY <1>1, <1>7 DEF SendCall, GiveUp, Workflow
  <2>2. QED
    BY <1>2, <2>1 DEF Told
<1>8. QED
  BY <1>4, <1>5, <1>6, <1>7 DEF WorkflowStep

LEMMA ToldKept ==
    ASSUME Good, [Next]_vars, \A w \in Wfs : Told(wf[w])
    PROVE  /\ \A w \in Wfs : Told(wf'[w])
           /\ \A w \in Created : wf[w].status = "Succeeded" => wf'[w].status = "Succeeded"
<1>1. CASE \E w \in Wfs : WorkflowStep(w)
  BY <1>1, TaskGives DEF Created
<1>2. CASE \E c \in calls : CallStep(c)
  <2>1. PICK c \in calls : CallStep(c)
    BY <1>2
  <2>2. c.wf \in Created /\ Told(wf[c.wf])
    BY DEF Good, CallOK, Created
  <2>3. wf[c.wf].status = "Running" \/ wf[c.wf].stage \in {"exit", "done"}
    BY <2>2 DEF Good, WorkflowInv
  <2>4. /\ Told(wf'[c.wf])
        /\ wf[c.wf].status = "Succeeded" => wf'[c.wf].status = "Succeeded"
    BY <2>1, <2>2, <2>3, CallGives DEF Told, Unanswered, Ended, Reported1
  <2>5. QED
    BY <2>1, <2>4, CallGives DEF Created
<1>3. CASE \E q \in Reqs : LaunchWorkflow(q)
  <2>1. PICK q \in Reqs, w \in Wfs \ Created :
          wf' = [wf EXCEPT ![w] = [Unused EXCEPT !.act = ActOf(req[q].op),
                                                 !.by = req[q].op, !.stage = "routes"]]
    BY <1>3 DEF LaunchWorkflow
  <2>2. Told(wf'[w]) /\ \A v \in Wfs \ {w} : wf'[v] = wf[v]
    BY <2>1 DEF Good, TypeOK, Unused, Told
  <2>3. QED
    BY <2>2 DEF Created
<1>4. CASE wf' = wf
  BY <1>4
<1>5. QED
  BY <1>1, <1>2, <1>3, <1>4 DEF Next, vars, RequestStep, CreateRead, ActionRead, RetryRead, Reread,
       InsertRow, RestartRow, WritePhase, Abort

LEMMA CallsToldKept ==
    ASSUME Good, [Next]_vars, \A w \in Wfs : Told(wf[w]), \A c \in calls : CallTold(c)
    PROVE  \A c \in calls' : CallTold(c)'
<1>1. ASSUME NEW c \in calls PROVE CallTold(c)'
  <2>1. c.wf \in Created /\ CallTold(c)
    BY DEF Good, CallOK
  <2>2. QED
    BY <2>1, ToldKept DEF CallTold
<1>2. ASSUME NEW w \in Wfs, SendCall(w), NEW c \in calls' \ calls PROVE CallTold(c)'
  <2>1. /\ c.wf = w /\ c.task = wf[w].stage /\ wf[w].stage \in {"set-phase", "exit"}
        /\ c.phase = IF wf[w].stage = "exit" THEN wf[w].status ELSE TargetPhase(wf[w].act)
    BY <1>2 DEF SendCall
  <2>2. wf'[w].status = wf[w].status /\ wf[w] \in Workflow /\ w \in Created
    BY <1>2, <2>1 DEF SendCall, Good, TypeOK, Created
  <2>3. wf[w].stage = "exit" => wf[w].status \in {"Succeeded", "Failed"}
    BY <2>2 DEF Good, WorkflowInv, Workflow
  <2>4. TargetPhase(wf[w].act) \in Reported
    BY <2>2 DEF TargetPhase, Reported, Workflow, Act
  <2>5. QED
    BY <2>1, <2>2, <2>3, <2>4 DEF CallTold, Reported, FailedTo
<1>3. ASSUME NEW d \in calls, HandleFailed(d), NEW c \in calls' \ calls PROVE CallTold(c)'
  <2>1. PICK r \in Rows : c = [d EXCEPT !.at = "decided", !.phase = FailurePhase(rows[r])]
    BY <1>3 DEF HandleFailed
  <2>2. d \in Call /\ d.phase = "Failed" /\ d.task = "exit"
    BY <1>3 DEF Good, TypeOK, HandleFailed, CallTold
  <2>3. c.phase = FailurePhase(rows[r]) /\ c.task = "exit"
    BY <2>1, <2>2 DEF Call, CallOf
  <2>4. c.phase \in FailedTo \cup {"Failed"}
    BY <2>3, FailurePhaseExcused DEF Good
  <2>5. QED
    BY <2>3, <2>4 DEF CallTold, Reported, FailedTo
<1>4. \A c \in calls' \ calls :
        \/ \E w \in Wfs : SendCall(w)
        \/ \E d \in calls : HandleFailed(d)
  BY DEF Next, vars, RequestStep, CreateRead, ActionRead, RetryRead, Reread, LaunchWorkflow,
         InsertRow, RestartRow, WritePhase, Abort, WorkflowStep, TaskSucceeds, TaskFails,
         PostExecutionSucceeds, PostExecutionFails, GiveUp, CallStep, HandleSucceeded, HandlePhase,
         LoseCall, CutConnection
<1>5. QED
  BY <1>1, <1>2, <1>3, <1>4
-----------------------------------------------------------------------------
(* As long as nothing is lost, a workflow has one call at a time, which it  *)
(* waits for, and the phase of a failure was written for one that is done.  *)

Finished(w) == w \in Created /\ wf[w].status = "Failed" /\ wf[w].stage = "done"

OneCallEach ==
    /\ \A c \in calls : Awaited(c)
    /\ \A c, d \in calls : c.wf = d.wf => c = d

Lossless ==
    losses = 0 =>
        /\ OneCallEach
        /\ \A r \in Rows : rows[r].phase \in FailedTo => \E w \in Wfs : Finished(w)

LosslessInv ==
    /\ Good
    /\ \A w \in Wfs : Told(wf[w])
    /\ \A c \in calls : CallTold(c)
    /\ Lossless

(* A workflow that has failed and is done is not heard of again.            *)
LEMMA FinishedStays ==
    ASSUME Good, OneCallEach, [Next]_vars, losses' = 0, NEW w \in Wfs, Finished(w)
    PROVE  Finished(w)'
<1>1. w \in Created /\ wf[w].stage = "done" /\ wf \in [Wfs -> Workflow]
  BY DEF Finished, Good, TypeOK
<1>2. CASE \E v \in Wfs : WorkflowStep(v)
  BY <1>1, <1>2 DEF WorkflowStep, TaskSucceeds, TaskFails, PostExecutionSucceeds, PostExecutionFails,
                    SendCall, GiveUp, Goes, Fails, Resource, Finished, Created
<1>3. CASE \E c \in calls : CallStep(c)
  <2>1. PICK c \in calls : CallStep(c)
    BY <1>3
  <2>2. c.wf # w
    BY <1>1 DEF OneCallEach, Awaited, Good, TypeOK, Call, CallOf
  <2>3. QED
    BY <2>1, <2>2, CallGives DEF Finished, Created
<1>4. CASE \E q \in Reqs : LaunchWorkflow(q)
  BY <1>1, <1>4 DEF LaunchWorkflow, Finished, Created
<1>5. CASE wf' = wf
  BY <1>5 DEF Finished, Created
<1>6. QED
  BY <1>2, <1>3, <1>4, <1>5 DEF Next, vars, RequestStep, CreateRead, ActionRead, RetryRead, Reread,
       InsertRow, RestartRow, WritePhase, Abort

LEMMA OneCallKept ==
    ASSUME LosslessInv, OneCallEach, [Next]_vars, losses = 0, losses' = 0
    PROVE  OneCallEach'
<1>1. \A c \in calls : /\ Awaited(c) /\ c.wf \in Created /\ c.wf \in Wfs /\ c \in Call
                       /\ wf[c.wf].waiting /\ wf[c.wf].stage \in {"set-phase", "exit"}
  BY DEF LosslessInv, Good, CallOK, OneCallEach, Awaited, TypeOK, Call, CallOf
<1>2. wf \in [Wfs -> Workflow]
  BY DEF LosslessInv, Good, TypeOK
<1>3. ASSUME \A c \in calls : wf'[c.wf] = wf[c.wf], calls' \subseteq calls
      PROVE  OneCallEach'
  BY <1>1, <1>3 DEF OneCallEach, Awaited
<1>4. CASE \E w \in Wfs : WorkflowStep(w)
  <2>1. PICK w \in Wfs : WorkflowStep(w)
    BY <1>4
  <2>2. \A c \in calls : c.wf # w
    BY <1>1, <2>1 DEF WorkflowStep, TaskSucceeds, TaskFails, PostExecutionSucceeds,
                      PostExecutionFails, SendCall, GiveUp, Resource
  <2>3. \A c \in calls : wf'[c.wf] = wf[c.wf]
    BY <1>1, <2>1, <2>2, TaskGives DEF LosslessInv
  <2>4. CASE SendCall(w)
    <3>1. PICK d : /\ d = [wf |-> w, task |-> wf[w].stage, try |-> wf[w].tries, at |-> "arrived",
                           phase |-> IF wf[w].stage = "exit" THEN wf[w].status
                                                             ELSE TargetPhase(wf[w].act)]
                   /\ calls' = calls \cup {d}
      BY <2>4 DEF SendCall
    <3>2. Awaited(d)'
      BY <1>2, <2>4, <3>1 DEF SendCall, Awaited, Workflow
    <3>3. \A c \in calls : Awaited(c)'
      BY <1>1, <2>3 DEF Awaited
    <3>4. \A b, c \in calls' : b.wf = c.wf => b = c
      BY <2>2, <3>1 DEF OneCallEach
    <3>5. QED
      BY <3>1, <3>2, <3>3, <3>4 DEF OneCallEach
  <2>5. CASE calls' = calls
    BY <1>3, <2>3, <2>5
  <2>6. QED
    BY <2>1, <2>4, <2>5 DEF WorkflowStep, TaskSucceeds, TaskFails, PostExecutionSucceeds,
                            PostExecutionFails, GiveUp
<1>5. CASE \E c \in calls : CallStep(c)
  <2>1. PICK c \in calls : CallStep(c)
    BY <1>5
  <2>2. \A d \in calls \ {c} : d.wf # c.wf /\ wf'[d.wf] = wf[d.wf] /\ Awaited(d)'
    <3>1. \A d \in calls \ {c} : d.wf # c.wf
      BY DEF OneCallEach
    <3>2. \A d \in calls \ {c} : wf'[d.wf] = wf[d.wf]
      BY <1>1, <2>1, <3>1, CallGives DEF LosslessInv
    <3>3. QED
      BY <1>1, <3>1, <3>2 DEF Awaited
  <2>3. CASE calls' = calls \ {c}
    BY <2>2, <2>3 DEF OneCallEach
  <2>4. CASE HandleFailed(c) /\ wf' = wf
    <3>1. CASE \E r \in Rows : calls' = (calls \ {c}) \cup
                {[c EXCEPT !.at = "decided", !.phase = FailurePhase(rows[r])]}
      <4>1. PICK d : /\ \E r \in Rows : d = [c EXCEPT !.at = "decided", !.phase = FailurePhase(rows[r])]
                     /\ calls' = (calls \ {c}) \cup {d}
        BY <3>1
      <4>2. d.wf = c.wf /\ d.task = c.task /\ d.try = c.try
        BY <1>1, <4>1 DEF Call, CallOf
      <4>3. Awaited(d)'
        BY <1>1, <2>4, <4>2 DEF Awaited
      <4>4. \A a, b \in calls' : a.wf = b.wf => a = b
        BY <2>2, <4>1, <4>2 DEF OneCallEach
      <4>5. QED
        BY <2>2, <4>1, <4>3, <4>4 DEF OneCallEach
    <3>2. CASE calls' = calls \ {c}
      BY <2>3, <3>2
    <3>3. QED
      BY <2>4, <3>1, <3>2 DEF HandleFailed
  <2>5. ~LoseCall(c) /\ ~CutConnection(c)
    BY LossGives DEF LosslessInv
  <2>6. QED
    BY <2>1, <2>3, <2>4, <2>5 DEF CallStep, HandleSucceeded, HandleFailed, HandlePhase
<1>6. CASE \E q \in Reqs : LaunchWorkflow(q)
  BY <1>1, <1>2, <1>3, <1>6 DEF LaunchWorkflow
<1>7. CASE wf' = wf /\ calls' = calls
  BY <1>3, <1>7
<1>8. QED
  BY <1>4, <1>5, <1>6, <1>7 DEF Next, vars, RequestStep, CreateRead, ActionRead, RetryRead, Reread,
       InsertRow, RestartRow, WritePhase, Abort

(* What a step that writes a failure over a row comes from.                 *)
LEMMA FailureWritten ==
    ASSUME Good, [Next]_vars, NEW r \in Rows,
           rows'[r].phase \in FailedTo \cup {"Failed"}, rows'[r] # rows[r]
    PROVE  /\ Live(r)
           /\ \E c \in calls : HandlePhase(c) /\ rows'[r].phase = c.phase
<1>1. rows \in [Rows -> Row]
  BY DEF Good, TypeOK
<1>2. ASSUME NEW ph, UpdateStatus(ph)
      PROVE  Live(r) /\ rows'[r].phase = ph
  BY <1>2 DEF UpdateStatus, StatusFields
<1>3. CASE \E c \in calls : CallStep(c)
  BY <1>2, <1>3 DEF CallStep, HandleSucceeded, HandleFailed, HandlePhase, LoseCall, CutConnection
<1>4. \A q \in Reqs : ~InsertRow(q) /\ ~RestartRow(q)
  <2>1. ASSUME NEW q \in Reqs, InsertRow(q) PROVE rows'[r].phase = "Launching"
    <3>1. PICK s \in Rows :
            rows' = [rows EXCEPT ![s] = [phase |-> "Launching", started |-> TRUE,
                                         paused |-> FALSE, terminated |-> FALSE]]
      BY <2>1 DEF InsertRow
    <3>2. QED
      BY <1>1, <3>1
  <2>2. ASSUME NEW q \in Reqs, RestartRow(q) PROVE rows'[r].phase = "Launching"
    <3>1. rows' = [rows EXCEPT ![req[q].row].phase = "Launching", ![req[q].row].started = TRUE]
      BY <2>2 DEF RestartRow
    <3>2. rows[r] \in Row
      BY <1>1
    <3>3. QED
      BY <1>1, <3>1, <3>2 DEF Row
  <2>3. QED
    BY <2>1, <2>2 DEF FailedTo
<1>5. \A q \in Reqs : ~WritePhase(q)
  <2>1. ASSUME NEW q \in Reqs, WritePhase(q) PROVE FALSE
    <3>1. PhaseOf(req[q].op) \notin FailedTo \cup {"Failed"}
      <4>1. req[q].op \in Op
        BY DEF Good, TypeOK, Request
      <4>2. QED
        BY <4>1 DEF PhaseOf, FailedTo, Op
    <3>2. QED
      BY <1>2, <2>1, <3>1 DEF WritePhase
  <2>2. QED
    BY <2>1
<1>6. QED
  BY <1>3, <1>4, <1>5 DEF Next, vars, RequestStep, CreateRead, ActionRead, RetryRead, Reread,
       LaunchWorkflow, Abort, WorkflowStep, TaskSucceeds, TaskFails,
       PostExecutionSucceeds, PostExecutionFails, GiveUp, SendCall

LEMMA LosslessKept == LosslessInv /\ [Next]_vars => LosslessInv'
<1> SUFFICES ASSUME LosslessInv, [Next]_vars PROVE LosslessInv'
  OBVIOUS
<1>1. Good' /\ (\A w \in Wfs : Told(wf'[w])) /\ \A c \in calls' : CallTold(c)'
  BY NextGood, ToldKept, CallsToldKept DEF LosslessInv
<1>2. losses' = 0 => losses = 0
  <2>1. losses \in Nat
    BY WorkspaceAssumption DEF LosslessInv, Good, TypeOK
  <2>2. CASE losses' \in {losses, losses + 1}
    BY <2>1, <2>2
  <2>3. CASE \E c \in calls : CallStep(c)
    BY <2>2, <2>3 DEF CallStep, HandleSucceeded, HandleFailed, HandlePhase, LoseCall,
                      CutConnection, Answer
  <2>4. CASE \E q \in Reqs : RequestStep(q)
    BY <2>2, <2>4 DEF RequestStep, CreateRead, ActionRead, RetryRead, Reread, LaunchWorkflow,
                      InsertRow, RestartRow, WritePhase, Abort
  <2>5. CASE \E w \in Wfs : WorkflowStep(w)
    BY <2>2, <2>5 DEF WorkflowStep, TaskSucceeds, TaskFails, PostExecutionSucceeds,
                      PostExecutionFails, GiveUp, SendCall
  <2>6. QED
    BY <2>2, <2>3, <2>4, <2>5 DEF Next, vars
<1>3. ASSUME losses' = 0 PROVE OneCallEach'
  BY <1>2, <1>3, OneCallKept DEF LosslessInv, Lossless
<1>4. ASSUME losses' = 0, NEW r \in Rows, rows'[r].phase \in FailedTo
      PROVE  \E w \in Wfs : Finished(w)'
  <2>1. OneCallEach
    BY <1>2, <1>4 DEF LosslessInv, Lossless
  <2>2. CASE rows'[r] = rows[r]
    <3>1. PICK w \in Wfs : Finished(w)
      BY <1>2, <1>4, <2>2 DEF LosslessInv, Lossless
    <3>2. QED
      BY <1>4, <2>1, <3>1, FinishedStays DEF LosslessInv
  <2>3. CASE rows'[r] # rows[r]
    <3>1. PICK c \in calls : HandlePhase(c) /\ rows'[r].phase = c.phase
      BY <1>4, <2>3, FailureWritten DEF LosslessInv
    <3>2. /\ Awaited(c) /\ c.task = "exit" /\ c.wf \in Created /\ c.wf \in Wfs
          /\ wf[c.wf].status = "Failed"
      BY <1>4, <2>1, <3>1 DEF OneCallEach, LosslessInv, CallTold, Good, CallOK, Created
    <3>3. Answer(c, TRUE)
      <4>1. (\E s \in Rows : Live(s)) = TRUE
        BY <1>4, <2>3, FailureWritten DEF LosslessInv
      <4>2. QED
        BY <3>1, <4>1 DEF HandlePhase
    <3>4. Ended(wf[c.wf], wf'[c.wf])
      BY <1>4, <3>2, <3>3, AnswerGives DEF LosslessInv, Unanswered, Reported1, Awaited
    <3>5. QED
      BY <3>2, <3>4 DEF Finished, Ended, Created
  <2>4. QED
    BY <2>2, <2>3
<1>5. QED
  BY <1>1, <1>3, <1>4 DEF LosslessInv, Lossless

(* Without a loss the only failure that hides a failure is another          *)
(* workflow's: the retry of an action is refused only when the exit         *)
(* handler's call was repeated, or two workflows have failed.               *)
THEOREM FailuresAreOverwritten == Spec => FailureOverwrittenOnlyByAnother
<1>1. Init => LosslessInv
  <2> SUFFICES ASSUME Init PROVE LosslessInv
    OBVIOUS
  <2>1. Good
    BY InitGood
  <2>2. \A w \in Wfs : Told(wf[w])
    BY DEF Init, Unused, Told
  <2>3. QED
    BY <2>1, <2>2 DEF Init, LosslessInv, Lossless, OneCallEach, FailedTo
<1>2. ASSUME LosslessInv, [Next]_vars, NEW r \in Rows,
             rows[r].phase \in FailedTo, rows'[r].phase = "Failed", losses = 0
      PROVE  \E w, v \in Created : w # v /\ wf[w].status = "Failed" /\ wf[v].status = "Failed"
  <2>1. OneCallEach /\ \E w \in Wfs : Finished(w)
    BY <1>2 DEF LosslessInv, Lossless
  <2>2. PICK w \in Wfs : Finished(w)
    BY <2>1
  <2>3. rows'[r] # rows[r]
    BY <1>2 DEF FailedTo
  <2>4. PICK c \in calls : HandlePhase(c) /\ rows'[r].phase = c.phase
    BY <1>2, <2>3, FailureWritten DEF LosslessInv
  <2>5. Awaited(c) /\ c.task = "exit" /\ c.wf \in Created /\ wf[c.wf].status = "Failed"
    BY <1>2, <2>1, <2>4 DEF OneCallEach, LosslessInv, CallTold, Good, CallOK
  <2>6. c.wf # w
    BY <2>2, <2>5 DEF Finished, Awaited
  <2>7. QED
    BY <2>2, <2>5, <2>6 DEF Finished
<1>3. LosslessInv /\ [Next]_vars =>
        [\A r \in Rows :
            rows[r].phase \in FailedTo /\ rows'[r].phase = "Failed" =>
                \/ losses > 0
                \/ \E w, v \in Created :
                    w # v /\ wf[w].status = "Failed" /\ wf[v].status = "Failed"]_vars
  <2>1. LosslessInv => losses \in Nat
    BY WorkspaceAssumption DEF LosslessInv, Good, TypeOK
  <2>2. QED
    BY <1>2, <2>1
<1>4. QED
  BY <1>1, <1>3, LosslessKept, PTL DEF Spec, FailureOverwrittenOnlyByAnother
=============================================================================
