----------------------- MODULE WorkflowExecutionProofs -----------------------
(***************************************************************************)
(* Proofs, for every set of namespaces, names, workflows and handlers and  *)
(* every bound, of the invariants of WorkflowExecution.                    *)
(***************************************************************************)
EXTENDS WorkflowExecution, TLAPS

(* What a workflow keeps in every step: it exists, is called what it was    *)
(* called, and a status that is final stays.                                *)
Keeps ==
    \A w \in Created :
        /\ w \in Created'
        /\ wf'[w].name = wf[w].name
        /\ wf'[w].ns = wf[w].ns
        /\ wf'[w].first = wf[w].first
        /\ wf[w].status # "Running" => wf'[w].status = wf[w].status

(* What WorkflowInv and TriesInv ask of one workflow. *)
Sound(f, lost) ==
    /\ f.name \in Names /\ f.ns \in Namespaces
    /\ f.stage \in {"exit", "done"} => f.status # "Running"
    /\ f.stage \in {"start", "work"} => f.status = "Running"
    /\ \/ f.stage \in {"work", "exit"}
       \/ f.stage = "start" /\ f.first = "update"
       => MaxTries <= f.tries + lost

(* What RowFollowsWorkflow asks of one row. *)
Backed(n) ==
    Stored(n) =>
        \E w \in Created :
            /\ wf[w].name = n /\ wf[w].ns = row[n].ns
            /\ row[n].phase = "Succeeded" => wf[w].status = "Succeeded"
            /\ row[n].phase = "Failed" => wf[w].status \in {"Failed", "Error"}

WorkflowsGood ==
    /\ wf' \in [Wfs -> Workflow]
    /\ losses' \in 0..MaxLosses
    /\ WorkflowInv'
    /\ TriesInv'
    /\ Keeps

-----------------------------------------------------------------------------
(* Workflows.                                                               *)

LEMMA SoundBefore ==
    ASSUME IInv, NEW w \in Created
    PROVE  w \in Wfs /\ wf[w] \in Workflow /\ Sound(wf[w], losses)
  BY DEF IInv, TypeOK, Created, WorkflowInv, TriesInv, Sound

(* A step that leaves every workflow as it is, or makes it one that is      *)
(* sound and keeps what it must.                                            *)
LEMMA EachWorkflow ==
    ASSUME IInv, wf' \in [Wfs -> Workflow],
           losses' \in 0..MaxLosses, losses <= losses',
           \A w \in Wfs :
              \/ wf'[w] = wf[w]
              \/ /\ wf'[w].stage # "unused"
                 /\ Sound(wf'[w], losses')
                 /\ w \in Created =>
                      /\ wf'[w].name = wf[w].name
                      /\ wf'[w].ns = wf[w].ns
                      /\ wf'[w].first = wf[w].first
                      /\ wf[w].status # "Running" => wf'[w].status = wf[w].status
    PROVE  WorkflowsGood
<1> USE ExecutionAssumption
<1>1. Keeps
  BY DEF Keeps, Created
<1>2. ASSUME NEW w \in Created'  PROVE  Sound(wf'[w], losses')
  <2>1. CASE wf'[w] = wf[w]
    <3>1. w \in Created
      BY <2>1 DEF Created
    <3>2. Sound(wf[w], losses) /\ wf[w] \in Workflow
      BY <3>1, SoundBefore
    <3>3. losses \in Nat /\ losses' \in Nat /\ wf[w].tries \in Nat
      BY <3>2 DEF Workflow, IInv, TypeOK
    <3>4. MaxTries <= wf[w].tries + losses => MaxTries <= wf[w].tries + losses'
      BY <3>3
    <3>5. QED
      BY <2>1, <3>2, <3>4 DEF Sound
  <2>2. CASE wf'[w] # wf[w]
    BY <2>2 DEF Created
  <2>3. QED
    BY <2>1, <2>2
<1>3. WorkflowInv' /\ TriesInv'
  BY <1>2 DEF WorkflowInv, TriesInv, Sound
<1>4. QED
  BY <1>1, <1>3 DEF WorkflowsGood

LEMMA SameWorkflows ==
    ASSUME IInv, wf' = wf, losses' = losses
    PROVE  WorkflowsGood
<1>1. wf' \in [Wfs -> Workflow] /\ losses' \in 0..MaxLosses /\ losses <= losses'
  BY ExecutionAssumption DEF IInv, TypeOK
<1>2. QED
  BY <1>1, EachWorkflow

(* One workflow changes. *)
LEMMA OneWorkflow ==
    ASSUME IInv, NEW w \in Wfs, NEW f \in Workflow, wf' = [wf EXCEPT ![w] = f],
           losses' \in 0..MaxLosses, losses <= losses',
           f.stage # "unused", Sound(f, losses'),
           w \in Created =>
             /\ f.name = wf[w].name /\ f.ns = wf[w].ns /\ f.first = wf[w].first
             /\ wf[w].status # "Running" => f.status = wf[w].status
    PROVE  WorkflowsGood
<1>1. wf \in [Wfs -> Workflow]
  BY DEF IInv, TypeOK
<1>2. wf' \in [Wfs -> Workflow] /\ wf'[w] = f /\ \A v \in Wfs \ {w} : wf'[v] = wf[v]
  BY <1>1
<1>3. QED
  BY <1>2, EachWorkflow

LEMMA LaunchGood ==
    ASSUME IInv, NEW first \in {"update", "insert"}, NEW ns \in Namespaces, NEW n \in Names,
           Launch(first, ns, n), losses' = losses
    PROVE  WorkflowsGood /\ \E w \in Created' : wf'[w].name = n /\ wf'[w].ns = ns
<1> USE ExecutionAssumption
<1> DEFINE f == [Unused EXCEPT !.name = n, !.ns = ns, !.first = first, !.stage = "start"]
<1>0. MaxTries \in 0..MaxTries
  BY ExecutionAssumption
<1>1. PICK w \in Wfs \ Created : wf' = [wf EXCEPT ![w] = f]
  BY DEF Launch
<1>2. f \in Workflow /\ f.stage = "start" /\ f.name = n /\ f.ns = ns
      /\ f.tries = MaxTries /\ f.status = "Running" /\ f.first = first
  BY <1>0 DEF Unused, Workflow
<1>3. losses \in 0..MaxLosses
  BY DEF IInv, TypeOK
<1>4. MaxTries <= MaxTries + losses'
  BY <1>3
<1>5. Sound(f, losses')
  BY <1>2, <1>4 DEF Sound
<1>6. losses' \in 0..MaxLosses /\ losses <= losses'
  BY <1>3
<1> HIDE DEF f
<1>7. WorkflowsGood
  BY <1>1, <1>2, <1>5, <1>6, OneWorkflow
<1>8. w \in Created' /\ wf'[w] = f
  BY <1>1, <1>2 DEF Created, IInv, TypeOK
<1>9. QED
  BY <1>2, <1>7, <1>8

(* The workflow fails and goes to its exit handler. *)
LEMMA FailsGood ==
    ASSUME IInv, NEW w \in Created, wf[w].stage \in {"start", "work"}, Fails(w),
           losses' = losses
    PROVE  WorkflowsGood
<1> USE ExecutionAssumption
<1>0. MaxTries \in 0..MaxTries
  BY ExecutionAssumption
<1>1. PICK st \in {"Failed", "Error"} :
        wf' = [wf EXCEPT ![w].stage = "exit", ![w].status = st,
                         ![w].waiting = FALSE, ![w].tries = MaxTries]
  BY DEF Fails
<1> DEFINE f == [wf[w] EXCEPT !.stage = "exit", !.status = st,
                              !.waiting = FALSE, !.tries = MaxTries]
<1>2. w \in Wfs /\ wf[w] \in Workflow /\ Sound(wf[w], losses)
  BY SoundBefore
<1>3. f \in Workflow /\ f.stage = "exit" /\ f.status = st /\ f.tries = MaxTries
      /\ f.name = wf[w].name /\ f.ns = wf[w].ns /\ f.first = wf[w].first
  BY <1>0, <1>2 DEF Workflow
<1>4. wf' = [wf EXCEPT ![w] = f]
  BY <1>1, <1>2 DEF IInv, TypeOK
<1>5. losses' \in 0..MaxLosses /\ losses <= losses' /\ MaxTries <= MaxTries + losses'
  BY DEF IInv, TypeOK
<1>6. Sound(f, losses') /\ wf[w].status = "Running"
  BY <1>2, <1>3, <1>5 DEF Sound
<1> HIDE DEF f
<1>7. QED
  BY <1>2, <1>3, <1>4, <1>5, <1>6, OneWorkflow

(* An attempt is used up. *)
LEMMA VainGood ==
    ASSUME IInv, NEW w \in Created, wf[w].tries > 0,
           wf' = [wf EXCEPT ![w] = TriedInVain(@)],
           \/ losses' = losses + 1 /\ losses < MaxLosses
           \/ losses' = losses /\ wf[w].stage = "start" /\ wf[w].first = "insert"
    PROVE  WorkflowsGood
<1> USE ExecutionAssumption
<1> DEFINE f == [wf[w] EXCEPT !.waiting = FALSE, !.tries = wf[w].tries - 1]
<1>1. w \in Wfs /\ wf[w] \in Workflow /\ Sound(wf[w], losses) /\ wf[w].stage # "unused"
  BY SoundBefore DEF Created
<1>2. losses \in 0..MaxLosses /\ losses' \in 0..MaxLosses /\ losses <= losses'
  BY DEF IInv, TypeOK
<1>3. wf[w].tries \in 1..MaxTries /\ wf[w].tries - 1 \in 0..MaxTries
  BY <1>1 DEF Workflow
<1>4. f \in Workflow /\ f.tries = wf[w].tries - 1 /\ f.stage = wf[w].stage
      /\ f.status = wf[w].status
      /\ f.name = wf[w].name /\ f.ns = wf[w].ns /\ f.first = wf[w].first
  BY <1>1, <1>3 DEF Workflow
<1>5. wf' = [wf EXCEPT ![w] = f]
  BY DEF TriedInVain
<1>6. \/ f.stage \in {"work", "exit"}
      \/ f.stage = "start" /\ f.first = "update"
      => MaxTries <= f.tries + losses'
  BY <1>1, <1>2, <1>3, <1>4 DEF Sound
<1>7. Sound(f, losses')
  BY <1>1, <1>4, <1>6 DEF Sound
<1> HIDE DEF f
<1>8. QED
  BY <1>1, <1>2, <1>4, <1>5, <1>7, OneWorkflow

(* An answer lets the workflow go on. *)
LEMMA AdvanceGood ==
    ASSUME IInv, NEW w \in Created, wf[w].stage \in {"start", "exit"},
           wf' = [wf EXCEPT ![w] = Advanced(@)], losses' = losses
    PROVE  WorkflowsGood
<1> USE ExecutionAssumption
<1> DEFINE f == [wf[w] EXCEPT !.stage = IF wf[w].stage = "start" THEN "work" ELSE "done",
                              !.waiting = FALSE, !.tries = MaxTries]
<1>0. MaxTries \in 0..MaxTries
  BY ExecutionAssumption
<1>1. w \in Wfs /\ wf[w] \in Workflow /\ Sound(wf[w], losses)
  BY SoundBefore
<1>2. f \in Workflow /\ f.status = wf[w].status /\ f.stage \in {"work", "done"}
      /\ (f.stage = "work" <=> wf[w].stage = "start") /\ f.tries = MaxTries
      /\ f.name = wf[w].name /\ f.ns = wf[w].ns /\ f.first = wf[w].first
  BY <1>0, <1>1 DEF Workflow
<1>3. wf' = [wf EXCEPT ![w] = f]
  BY DEF Advanced
<1>4. losses' \in 0..MaxLosses /\ losses <= losses' /\ MaxTries <= MaxTries + losses'
  BY DEF IInv, TypeOK
<1>5. Sound(f, losses')
  BY <1>1, <1>2, <1>4 DEF Sound
<1> HIDE DEF f
<1>6. QED
  BY <1>1, <1>2, <1>3, <1>4, <1>5, OneWorkflow

LEMMA CallFacts ==
    ASSUME IInv, NEW c \in calls
    PROVE  /\ c \in Call /\ c.wf \in Created /\ c.try >= 1
           /\ Awaited(c) => wf[c.wf].tries > 0 /\ wf[c.wf].stage \in {"start", "exit"}
  BY ExecutionAssumption DEF IInv, TypeOK, CallInv, Call, Awaited

(* An answer uses up an attempt only when it is lost, unless the call is    *)
(* the insert of a cron run.                                                *)
LEMMA AnswerGood ==
    ASSUME IInv, NEW c \in calls, NEW ok \in BOOLEAN, Answer(c, ok),
           ok \/ ~Awaited(c) \/ (c.task = "start" /\ wf[c.wf].first = "insert")
    PROVE  WorkflowsGood
<1>1. CASE ~Awaited(c)
  BY <1>1, SameWorkflows DEF Answer
<1>2. CASE Awaited(c)
  <2>1. c.wf \in Created /\ wf[c.wf].tries > 0 /\ wf[c.wf].stage \in {"start", "exit"}
        /\ wf[c.wf].stage = c.task
    BY <1>2, CallFacts DEF Awaited
  <2>2. \/ ok /\ wf' = [wf EXCEPT ![c.wf] = Advanced(@)] /\ losses' = losses
        \/ ~ok /\ wf' = [wf EXCEPT ![c.wf] = TriedInVain(@)] /\ losses' = losses
        \/ wf' = [wf EXCEPT ![c.wf] = TriedInVain(@)] /\ losses' = losses + 1
           /\ losses < MaxLosses
    BY <1>2 DEF Answer
  <2>3. QED
    BY <1>2, <2>1, <2>2, AdvanceGood, VainGood
<1>3. QED
  BY <1>1, <1>2

-----------------------------------------------------------------------------
(* What was justified by a workflow still is.                               *)

LEMMA BackedStays ==
    ASSUME IInv, Keeps, NEW n \in Names, row'[n] = row[n]
    PROVE  Backed(n)'
<1>1. Backed(n)
  BY DEF IInv, RowFollowsWorkflow, Backed
<1>2. QED
  BY <1>1 DEF Backed, Stored, Keeps

(* Rows that keep their namespace and do not come to say how it ended.      *)
LEMMA BackedRestated ==
    ASSUME IInv, Keeps, NEW n \in Names, row'[n].ns = row[n].ns, Stored(n),
           row'[n].phase \notin {"Succeeded", "Failed"}
    PROVE  Backed(n)'
<1>1. PICK w \in Created : wf[w].name = n /\ wf[w].ns = row[n].ns
  BY DEF IInv, RowFollowsWorkflow
<1>2. w \in Created' /\ wf'[w].name = n /\ wf'[w].ns = row'[n].ns
  BY <1>1 DEF Keeps
<1>3. QED
  BY <1>2 DEF Backed

LEMMA AllBacked ==
    ASSUME \A n \in Names : Backed(n)'
    PROVE  RowFollowsWorkflow'
  BY DEF RowFollowsWorkflow, Backed

LEMMA RequestsStay ==
    ASSUME IInv, Keeps, \A q \in Reqs : req'[q] = req[q] \/ req'[q].pc # "insert"
    PROVE  RequestInv'
  BY DEF IInv, RequestInv, Keeps

LEMMA CallsStay ==
    ASSUME IInv, WorkflowsGood, calls' \subseteq calls
    PROVE  CallInv' /\ calls' \in SUBSET Call
<1>1. Keeps
  BY DEF WorkflowsGood
<1>2. QED
  BY <1>1 DEF IInv, TypeOK, CallInv, Keeps

LEMMA Together ==
    ASSUME WorkflowsGood, row' \in [Names -> Row], req' \in [Reqs -> Request],
           calls' \in SUBSET Call, RequestInv', CallInv', RowFollowsWorkflow'
    PROVE  IInv'
  BY DEF IInv, TypeOK, WorkflowsGood
-----------------------------------------------------------------------------
(* Requests.                                                                *)

LEMMA RequestWorkflows ==
    ASSUME IInv, NEW q \in Reqs, RequestStep(q)
    PROVE  WorkflowsGood
<1>1. CASE CreateArgo(q)
  <2>1. PICK ns \in Namespaces, n \in Names : Launch("update", ns, n)
    BY <1>1 DEF CreateArgo
  <2>2. QED
    BY <1>1, <2>1, LaunchGood DEF CreateArgo
<1>2. CASE InsertRow(q) \/ MarkTerminated(q) \/ MarkArchived(q) \/ Abort(q)
  BY <1>2, SameWorkflows DEF InsertRow, MarkTerminated, MarkArchived, Abort
<1>3. CASE StopArgo(q)
  <2>1. losses' = losses /\ losses' \in 0..MaxLosses /\ losses <= losses'
    BY <1>3, ExecutionAssumption DEF StopArgo, IInv, TypeOK
  <2>2. \A w \in Wfs : wf'[w] = wf[w] \/ (w \in Created /\ wf'[w] = [wf[w] EXCEPT !.stopped = TRUE])
    BY <1>3 DEF StopArgo, Present
  <2>3. wf' \in [Wfs -> Workflow]
    <3>1. ASSUME NEW w \in Wfs  PROVE  wf'[w] \in Workflow
      <4>1. wf[w] \in Workflow
        BY DEF IInv, TypeOK
      <4>2. QED
        BY <2>2, <4>1 DEF Workflow
    <3>2. QED
      BY <1>3, <3>1 DEF StopArgo
  <2>4. ASSUME NEW w \in Created, wf'[w] = [wf[w] EXCEPT !.stopped = TRUE]
        PROVE  /\ wf'[w].stage # "unused" /\ Sound(wf'[w], losses')
               /\ wf'[w].name = wf[w].name /\ wf'[w].ns = wf[w].ns
               /\ wf'[w].first = wf[w].first /\ wf'[w].status = wf[w].status
    <3>1. wf[w] \in Workflow /\ Sound(wf[w], losses) /\ wf[w].stage # "unused"
      BY SoundBefore DEF Created
    <3>2. QED
      BY <2>1, <2>4, <3>1 DEF Workflow, Sound
  <2>5. QED
    BY <2>1, <2>2, <2>3, <2>4, EachWorkflow
<1>4. CASE DeleteArgo(q)
  <2>1. losses' = losses /\ losses' \in 0..MaxLosses /\ losses <= losses'
    <3>1. losses' = losses
      BY <1>4 DEF DeleteArgo
    <3>2. QED
      BY <3>1, ExecutionAssumption DEF IInv, TypeOK
  <2>2. \A w \in Wfs : wf'[w] = wf[w] \/ (w \in Created
          /\ wf'[w] = [wf[w] EXCEPT !.stage = "deleted", !.waiting = FALSE])
    BY <1>4 DEF DeleteArgo, Present
  <2>3. wf' \in [Wfs -> Workflow]
    <3>1. ASSUME NEW w \in Wfs  PROVE  wf'[w] \in Workflow
      <4>1. wf[w] \in Workflow
        BY DEF IInv, TypeOK
      <4>2. QED
        BY <2>2, <4>1 DEF Workflow
    <3>2. QED
      BY <1>4, <3>1 DEF DeleteArgo
  <2>4. ASSUME NEW w \in Created,
               wf'[w] = [wf[w] EXCEPT !.stage = "deleted", !.waiting = FALSE]
        PROVE  /\ wf'[w].stage # "unused" /\ Sound(wf'[w], losses')
               /\ wf'[w].name = wf[w].name /\ wf'[w].ns = wf[w].ns
               /\ wf'[w].first = wf[w].first /\ wf'[w].status = wf[w].status
    <3>1. wf[w] \in Workflow /\ Sound(wf[w], losses)
      BY SoundBefore
    <3>2. QED
      BY <2>4, <3>1 DEF Workflow, Sound
  <2>5. QED
    BY <2>1, <2>2, <2>3, <2>4, EachWorkflow
<1>5. CASE Resubmit(q)
  <2>1. PICK w \in Created, n \in Names : Launch(wf[w].first, wf[w].ns, n)
    BY <1>5 DEF Resubmit
  <2>2. wf[w].first \in {"update", "insert"} /\ wf[w].ns \in Namespaces
    BY SoundBefore DEF Sound, Workflow
  <2>3. QED
    BY <1>5, <2>1, <2>2, LaunchGood DEF Resubmit
<1>6. QED
  BY <1>1, <1>2, <1>3, <1>4, <1>5 DEF RequestStep

LEMMA RequestRows ==
    ASSUME IInv, NEW q \in Reqs, RequestStep(q), Keeps
    PROVE  row' \in [Names -> Row] /\ RowFollowsWorkflow'
<1>1. row \in [Names -> Row]
  BY DEF IInv, TypeOK
<1>2. CASE row' = row
  BY <1>1, <1>2, BackedStays, AllBacked
<1>3. CASE InsertRow(q)
  <2>1. PICK w \in Created : wf[w].name = req[q].name /\ wf[w].ns = req[q].ns
    BY <1>3 DEF InsertRow, IInv, RequestInv
  <2>2. PICK n \in Names, ns \in Namespaces : n = req[q].name /\ ns = req[q].ns
    BY <2>1, SoundBefore DEF Sound
  <2> DEFINE new == [Absent EXCEPT !.phase = "Pending", !.ns = ns]
  <2>3. new \in Row /\ new.phase = "Pending" /\ new.ns = ns
    BY DEF Absent, Row, Phase
  <2>4. row' = row \/ row' = [row EXCEPT ![n] = new]
    BY <1>3, <2>2 DEF InsertRow
  <2>5. CASE row' = [row EXCEPT ![n] = new]
    <3> HIDE DEF new
    <3>1. row' \in [Names -> Row] /\ row'[n] = new
          /\ \A m \in Names \ {n} : row'[m] = row[m]
      BY <1>1, <2>3, <2>5
    <3>2. w \in Created' /\ wf'[w].name = n /\ wf'[w].ns = ns
      BY <2>1, <2>2 DEF Keeps
    <3>3. Backed(n)'
      BY <3>1, <3>2, <2>3 DEF Backed
    <3>4. QED
      BY <3>1, <3>3, BackedStays, AllBacked
  <2>6. QED
    BY <1>2, <2>4, <2>5
<1>4. CASE MarkTerminated(q)
  <2>1. PICK ns \in Namespaces, n \in Names :
          row' = IF Matches(ns, n)
                 THEN [row EXCEPT ![n].phase = "Terminated"] ELSE row
    BY <1>4 DEF MarkTerminated
  <2>2. CASE Matches(ns, n)
    <3>1. row' \in [Names -> Row] /\ row'[n].phase = "Terminated"
          /\ row'[n].ns = row[n].ns /\ \A m \in Names \ {n} : row'[m] = row[m]
      BY <1>1, <2>1, <2>2 DEF Row, Phase
    <3>2. Backed(n)'
      BY <2>2, <3>1, BackedRestated DEF Matches
    <3>3. QED
      BY <3>1, <3>2, BackedStays, AllBacked
  <2>3. QED
    BY <1>2, <2>1, <2>2
<1>5. CASE MarkArchived(q)
  <2>1. PICK ns \in Namespaces, n \in Names :
          row' = IF Matches(ns, n)
                 THEN [row EXCEPT ![n].archived = TRUE] ELSE row
    BY <1>5 DEF MarkArchived
  <2>2. CASE Matches(ns, n)
    <3>1. row' \in [Names -> Row] /\ row'[n].phase = row[n].phase
          /\ row'[n].ns = row[n].ns /\ \A m \in Names \ {n} : row'[m] = row[m]
      BY <1>1, <2>1, <2>2 DEF Row
    <3>2. Backed(n)
      BY DEF IInv, RowFollowsWorkflow, Backed
    <3>3. Backed(n)'
      BY <3>1, <3>2 DEF Backed, Stored, Keeps
    <3>4. QED
      BY <3>1, <3>3, BackedStays, AllBacked
  <2>3. QED
    BY <1>2, <2>1, <2>2
<1>6. QED
  BY <1>2, <1>3, <1>4, <1>5
     DEF RequestStep, CreateArgo, StopArgo, DeleteArgo, Resubmit, Abort

LEMMA RequestRequests ==
    ASSUME IInv, NEW q \in Reqs, RequestStep(q), Keeps
    PROVE  req' \in [Reqs -> Request] /\ RequestInv'
<1>1. req \in [Reqs -> Request]
  BY DEF IInv, TypeOK
<1>2. Idle \in Request /\ Idle.pc = "idle"
  BY DEF Idle, Request
<1>3. CASE CreateArgo(q)
  <2>1. PICK ns \in Namespaces, n \in Names :
          Launch("update", ns, n) /\ Continue(q, "insert", ns, n)
    BY <1>3 DEF CreateArgo
  <2>2. req' \in [Reqs -> Request] /\ req'[q].name = n /\ req'[q].ns = ns
        /\ \A p \in Reqs \ {q} : req'[p] = req[p]
    BY <1>1, <2>1 DEF Continue, Request
  <2>3. \E w \in Created' : wf'[w].name = n /\ wf'[w].ns = ns
    BY <1>3, <2>1, LaunchGood DEF CreateArgo
  <2>4. QED
    BY <2>2, <2>3 DEF IInv, RequestInv, Keeps
<1>4. CASE Finish(q)
  <2>1. req' \in [Reqs -> Request] /\ req'[q] = Idle
        /\ \A p \in Reqs \ {q} : req'[p] = req[p]
    BY <1>1, <1>2, <1>4 DEF Finish
  <2>2. QED
    BY <1>2, <2>1, RequestsStay
<1>5. CASE MarkTerminated(q) \/ MarkArchived(q)
  <2>1. PICK pc \in {"stop", "delete"}, ns \in Namespaces, n \in Names : Continue(q, pc, ns, n)
    BY <1>5 DEF MarkTerminated, MarkArchived
  <2>2. req' \in [Reqs -> Request] /\ req'[q].pc # "insert"
        /\ \A p \in Reqs \ {q} : req'[p] = req[p]
    BY <1>1, <2>1 DEF Continue, Request
  <2>3. QED
    BY <2>2, RequestsStay
<1>6. CASE Resubmit(q)
  BY <1>1, <1>6, RequestsStay DEF Resubmit
<1>7. QED
  BY <1>3, <1>4, <1>5, <1>6 DEF RequestStep, InsertRow, StopArgo, DeleteArgo, Abort

LEMMA RequestKeepsInv ==
    ASSUME IInv, NEW q \in Reqs, RequestStep(q)
    PROVE  IInv'
<1>1. WorkflowsGood /\ Keeps
  BY RequestWorkflows DEF WorkflowsGood
<1>2. calls' = calls
  BY DEF RequestStep, CreateArgo, InsertRow, MarkTerminated, StopArgo,
         MarkArchived, DeleteArgo, Resubmit, Abort
<1>3. CallInv' /\ calls' \in SUBSET Call
  BY <1>1, <1>2, CallsStay
<1>4. QED
  BY <1>1, <1>3, RequestRows, RequestRequests, Together
-----------------------------------------------------------------------------
(* Argo.                                                                    *)

LEMMA CronKeepsInv ==
    ASSUME IInv, CronRun
    PROVE  IInv'
<1>1. PICK ns \in Namespaces, n \in Names : Launch("insert", ns, n)
  BY DEF CronRun
<1>2. row' = row /\ req' = req /\ calls' = calls /\ losses' = losses
  BY DEF CronRun
<1>3. WorkflowsGood /\ Keeps
  BY <1>1, <1>2, LaunchGood DEF WorkflowsGood
<1>4. RowFollowsWorkflow' /\ RequestInv' /\ CallInv'
  BY <1>2, <1>3, BackedStays, AllBacked, RequestsStay, CallsStay
<1>5. QED
  BY <1>2, <1>3, <1>4, Together DEF IInv, TypeOK

LEMMA WorkflowKeepsInv ==
    ASSUME IInv, NEW w \in Wfs, WorkflowStep(w)
    PROVE  IInv'
<1> USE ExecutionAssumption
<1>1. row' = row /\ req' = req /\ losses' = losses
  BY DEF WorkflowStep, WorkSucceeds, WorkFails, SendCall, GiveUp
<1>2. w \in Created /\ wf[w] \in Workflow /\ Sound(wf[w], losses)
  <2>1. w \in Created
    BY DEF WorkflowStep, WorkSucceeds, WorkFails, SendCall, GiveUp, Created
  <2>2. QED
    BY <2>1, SoundBefore
<1>3. losses' \in 0..MaxLosses /\ losses <= losses'
  BY <1>1 DEF IInv, TypeOK
<1>4. ASSUME WorkflowsGood, calls' = calls  PROVE  IInv'
  <2>1. Keeps
    BY <1>4 DEF WorkflowsGood
  <2>2. RowFollowsWorkflow' /\ RequestInv' /\ CallInv'
    BY <1>1, <1>4, <2>1, BackedStays, AllBacked, RequestsStay, CallsStay
  <2>3. QED
    BY <1>1, <1>4, <2>2, Together DEF IInv, TypeOK
<1>5. CASE WorkSucceeds(w)
  <2> DEFINE f == [wf[w] EXCEPT !.stage = "exit", !.status = "Succeeded"]
  <2>1. f \in Workflow /\ f.stage = "exit" /\ f.status = "Succeeded"
        /\ f.name = wf[w].name /\ f.ns = wf[w].ns /\ f.first = wf[w].first
        /\ f.tries = wf[w].tries
    BY <1>2 DEF Workflow
  <2>2. wf' = [wf EXCEPT ![w] = f]
    BY <1>5 DEF WorkSucceeds
  <2>3. wf[w].stage = "work" /\ wf[w].status = "Running"
    BY <1>2, <1>5 DEF WorkSucceeds, Sound
  <2>4. Sound(f, losses') /\ f.stage # "unused"
    BY <1>1, <1>2, <2>1, <2>3 DEF Sound
  <2> HIDE DEF f
  <2>5. WorkflowsGood
    BY <1>2, <1>3, <2>1, <2>2, <2>3, <2>4, OneWorkflow
  <2>6. QED
    BY <1>4, <1>5, <2>5 DEF WorkSucceeds
<1>6. CASE WorkFails(w)
  BY <1>1, <1>2, <1>4, <1>6, FailsGood DEF WorkFails
<1>7. CASE GiveUp(w)
  <2>1. CASE wf[w].stage = "start"
    BY <1>1, <1>2, <1>4, <1>7, <2>1, FailsGood DEF GiveUp
  <2>2. CASE wf[w].stage = "exit"
    <3> DEFINE f == [wf[w] EXCEPT !.stage = "done"]
    <3>1. f \in Workflow /\ f.stage = "done" /\ f.status = wf[w].status
          /\ f.name = wf[w].name /\ f.ns = wf[w].ns /\ f.first = wf[w].first
      BY <1>2 DEF Workflow
    <3>2. wf' = [wf EXCEPT ![w] = f]
      BY <1>7, <2>2 DEF GiveUp
    <3>3. Sound(f, losses')
      BY <1>2, <2>2, <3>1 DEF Sound
    <3> HIDE DEF f
    <3>4. WorkflowsGood
      BY <1>2, <1>3, <3>1, <3>2, <3>3, OneWorkflow
    <3>5. QED
      BY <1>4, <1>7, <3>4 DEF GiveUp
  <2>3. QED
    BY <1>7, <2>1, <2>2 DEF GiveUp
<1>8. CASE SendCall(w)
  <2> DEFINE f == [wf[w] EXCEPT !.waiting = TRUE]
             c == [wf |-> w, task |-> wf[w].stage, try |-> wf[w].tries, at |-> "arrived"]
  <2>1. f \in Workflow /\ f.stage = wf[w].stage /\ f.status = wf[w].status
        /\ f.name = wf[w].name /\ f.ns = wf[w].ns /\ f.first = wf[w].first
        /\ f.tries = wf[w].tries
    BY <1>2 DEF Workflow
  <2>2. wf' = [wf EXCEPT ![w] = f] /\ calls' = calls \cup {c}
        /\ wf[w].stage \in {"start", "exit"} /\ wf[w].tries > 0
    BY <1>8 DEF SendCall
  <2>3. Sound(f, losses') /\ f.stage # "unused"
    BY <1>1, <1>2, <2>1, <2>2 DEF Sound
  <2>4. c \in Call
    <3>1. wf[w].tries \in 1..MaxTries
      BY <1>2, <2>2 DEF Workflow
    <3>2. QED
      BY <2>2, <3>1 DEF Call
  <2>5. c.wf = w /\ c.at = "arrived" /\ c.task = wf[w].stage
    OBVIOUS
  <2> HIDE DEF f
  <2>6. WorkflowsGood /\ Keeps
    BY <1>2, <1>3, <2>1, <2>2, <2>3, OneWorkflow DEF WorkflowsGood
  <2>7. wf'[w].status = wf[w].status /\ w \in Created'
    BY <1>2, <2>1, <2>2, <2>3 DEF IInv, TypeOK, Created
  <2>8. wf[w].stage = "exit" => wf[w].status # "Running"
    BY <1>2 DEF Sound
  <2> HIDE DEF c
  <2>9. \A d \in calls' : d = c \/ (d \in calls /\ d.wf \in Created)
    BY <2>2 DEF IInv, CallInv
  <2>10. CallInv'
    BY <2>5, <2>6, <2>7, <2>8, <2>9 DEF IInv, CallInv, Keeps
  <2>11. RowFollowsWorkflow' /\ RequestInv'
    BY <1>1, <2>6, BackedStays, AllBacked, RequestsStay
  <2>12. calls' \in SUBSET Call
    BY <2>2, <2>4 DEF IInv, TypeOK
  <2>13. QED
    BY <1>1, <2>6, <2>10, <2>11, <2>12, Together DEF IInv, TypeOK
<1>9. QED
  BY <1>5, <1>6, <1>7, <1>8 DEF WorkflowStep
-----------------------------------------------------------------------------
(* Calls.                                                                   *)

(* A call found to be of a workflow that has ended may be recorded.         *)
LEMMA FinishBacked ==
    ASSUME IInv, Keeps, NEW w \in Created, wf[w].status # "Running", FinishRow(w)
    PROVE  row' \in [Names -> Row] /\ RowFollowsWorkflow'
<1>1. row \in [Names -> Row]
  BY DEF IInv, TypeOK
<1>2. wf[w] \in Workflow /\ wf[w].name \in Names /\ wf[w].ns \in Namespaces
  BY SoundBefore DEF Sound
<1>3. Outcome(wf[w].status) \in Phase
  BY DEF Outcome, Phase
<1>4. ASSUME NEW n \in Names
      PROVE  row'[n] \in Row /\ Backed(n)'
  <2>1. CASE row'[n] = row[n]
    BY <1>1, <2>1, BackedStays
  <2>2. CASE n = wf[w].name /\ row'[n] = Finished(row[n], w)
    <3>1. row'[n] \in Row /\ row'[n].ns = wf[w].ns /\ row'[n].phase = Outcome(wf[w].status)
      <4>1. row'[n] = [row[n] EXCEPT !.phase = Outcome(wf[w].status), !.ns = wf[w].ns]
        BY <2>2 DEF Finished
      <4>2. PICK r \in Row : r = row[n]
        BY <1>1
      <4>3. QED
        BY <1>2, <1>3, <4>1, <4>2 DEF Row
    <3>2. /\ row'[n].phase = "Succeeded" => wf[w].status = "Succeeded"
          /\ row'[n].phase = "Failed" => wf[w].status \in {"Failed", "Error"}
      BY <1>2, <3>1 DEF Outcome, Workflow
    <3>3. w \in Created' /\ wf'[w].name = n /\ wf'[w].ns = row'[n].ns
          /\ wf'[w].status = wf[w].status
      BY <2>2, <3>1 DEF Keeps
    <3>4. QED
      BY <3>1, <3>2, <3>3 DEF Backed
  <2>3. QED
    BY <2>1, <2>2 DEF FinishRow
<1>5. row' \in [Names -> Row]
  BY <1>4 DEF FinishRow
<1>6. QED
  BY <1>4, <1>5, AllBacked

LEMMA CallKeepsInv ==
    ASSUME IInv, NEW c \in calls, CallStep(c)
    PROVE  IInv'
<1> USE ExecutionAssumption
<1>1. c \in Call /\ c.wf \in Created /\ row \in [Names -> Row]
  BY CallFacts DEF IInv, TypeOK
<1>2. wf[c.wf] \in Workflow /\ wf[c.wf].name \in Names /\ wf[c.wf].ns \in Namespaces
  BY <1>1, SoundBefore DEF Sound
<1>3. PICK n \in Names, ns \in Namespaces : n = wf[c.wf].name /\ ns = wf[c.wf].ns
  BY <1>2
<1>4. req' = req
  BY DEF CallStep, HandleRunning, HandleCronStart, HandleExit, HandleFound,
         LoseCall, CutConnection
<1>5. ASSUME WorkflowsGood, row' \in [Names -> Row], RowFollowsWorkflow',
             CallInv', calls' \in SUBSET Call
      PROVE  IInv'
  <2>1. Keeps
    BY <1>5 DEF WorkflowsGood
  <2>2. RequestInv'
    BY <1>4, <2>1, RequestsStay
  <2>3. QED
    BY <1>4, <1>5, <2>2, Together DEF IInv, TypeOK
<1>6. ASSUME WorkflowsGood, row' = row, calls' \subseteq calls
      PROVE  IInv'
  <2>1. Keeps
    BY <1>6 DEF WorkflowsGood
  <2>2. QED
    BY <1>1, <1>5, <1>6, <2>1, BackedStays, AllBacked, CallsStay
<1>7. CASE HandleRunning(c)
  <2>1. WorkflowsGood /\ Keeps /\ calls' \subseteq calls
    BY <1>7, AnswerGood DEF HandleRunning, WorkflowsGood
  <2>2. CASE Matches(ns, n)
    <3>1. row' = [row EXCEPT ![n].phase = "Running"]
      BY <1>3, <1>7, <2>2 DEF HandleRunning
    <3>2. row' \in [Names -> Row] /\ row'[n].phase = "Running"
          /\ row'[n].ns = row[n].ns /\ \A m \in Names \ {n} : row'[m] = row[m]
      BY <1>1, <3>1 DEF Row, Phase
    <3>3. Backed(n)'
      BY <2>1, <2>2, <3>2, BackedRestated DEF Matches
    <3>4. QED
      BY <1>5, <2>1, <3>2, <3>3, BackedStays, AllBacked, CallsStay
  <2>3. CASE ~Matches(ns, n)
    BY <1>3, <1>6, <1>7, <2>1, <2>3 DEF HandleRunning
  <2>4. QED
    BY <2>2, <2>3
<1>8. CASE HandleCronStart(c)
  <2>1. WorkflowsGood /\ Keeps /\ calls' \subseteq calls
    BY <1>8, AnswerGood DEF HandleCronStart, WorkflowsGood
  <2>2. CASE row' = row
    BY <1>6, <2>1, <2>2
  <2>3. CASE row' # row
    <3> DEFINE new == [Absent EXCEPT !.phase = "Running", !.ns = ns]
    <3>1. row' = [row EXCEPT ![n] = new]
      BY <1>3, <1>8, <2>3 DEF HandleCronStart
    <3>2. new \in Row /\ new.phase = "Running" /\ new.ns = ns
      BY DEF Absent, Row, Phase
    <3> HIDE DEF new
    <3>3. row' \in [Names -> Row] /\ row'[n] = new
          /\ \A m \in Names \ {n} : row'[m] = row[m]
      BY <1>1, <3>1, <3>2
    <3>4. c.wf \in Created' /\ wf'[c.wf].name = n /\ wf'[c.wf].ns = ns
      BY <1>1, <1>3, <2>1 DEF Keeps
    <3>5. Backed(n)'
      BY <3>2, <3>3, <3>4 DEF Backed
    <3>6. QED
      BY <1>5, <2>1, <3>3, <3>5, BackedStays, AllBacked, CallsStay
  <2>4. QED
    BY <2>2, <2>3
<1>9. CASE HandleExit(c)
  <2>1. CASE Present(ns, n) # {}
    <3>1. WorkflowsGood /\ Keeps /\ row' = row
      BY <1>3, <1>9, <2>1, SameWorkflows DEF HandleExit, WorkflowsGood
    <3>2. PICK d : d = [c EXCEPT !.at = "found"]
      OBVIOUS
    <3>3. d \in Call /\ d.wf = c.wf /\ d.task = c.task /\ c.task = "exit"
          /\ calls' \subseteq calls \cup {d}
      BY <1>1, <1>3, <1>9, <2>1, <3>2 DEF Call, HandleExit
    <3>4. CallInv' /\ calls' \in SUBSET Call
      BY <3>1, <3>3 DEF IInv, TypeOK, CallInv, Keeps
    <3>5. QED
      BY <1>1, <1>5, <3>1, <3>4, BackedStays, AllBacked
  <2>2. CASE Present(ns, n) = {}
    <3>1. wf[c.wf].stage = "deleted"
      BY <1>1, <1>3, <2>2 DEF Present
    <3>2. ~Awaited(c)
      BY <3>1, CallFacts
    <3>3. Answer(c, FALSE) /\ row' = row /\ calls' \subseteq calls
      BY <1>3, <1>9, <2>2 DEF HandleExit
    <3>4. QED
      BY <1>6, <3>2, <3>3, AnswerGood
  <2>3. QED
    BY <2>1, <2>2
<1>10. CASE HandleFound(c)
  <2>1. WorkflowsGood /\ Keeps /\ calls' \subseteq calls
    BY <1>10, AnswerGood DEF HandleFound, WorkflowsGood
  <2>2. wf[c.wf].status # "Running"
    BY <1>10 DEF HandleFound, IInv, CallInv
  <2>3. row' \in [Names -> Row] /\ RowFollowsWorkflow'
    BY <1>1, <1>10, <2>1, <2>2, FinishBacked DEF HandleFound
  <2>4. QED
    BY <1>5, <2>1, <2>3, CallsStay
<1>11. CASE LoseCall(c)
  <2>1. row' = row /\ calls' \subseteq calls /\ losses < MaxLosses /\ losses' = losses + 1
    BY <1>11 DEF LoseCall
  <2>2. CASE Awaited(c)
    BY <1>1, <1>6, <1>11, <2>1, <2>2, CallFacts, VainGood DEF LoseCall
  <2>3. CASE ~Awaited(c)
    <3>1. wf' = wf
      BY <1>11, <2>3 DEF LoseCall
    <3>2. wf' \in [Wfs -> Workflow] /\ losses' \in 0..MaxLosses /\ losses <= losses'
      BY <2>1, <3>1 DEF IInv, TypeOK
    <3>3. WorkflowsGood
      BY <3>1, <3>2, EachWorkflow
    <3>4. QED
      BY <1>6, <2>1, <3>3
  <2>4. QED
    BY <2>2, <2>3
<1>12. CASE CutConnection(c)
  <2>1. WorkflowsGood
    BY <1>1, <1>12, CallFacts, VainGood DEF CutConnection
  <2>2. QED
    BY <1>6, <1>12, <2>1 DEF CutConnection
<1>13. QED
  BY <1>7, <1>8, <1>9, <1>10, <1>11, <1>12 DEF CallStep
-----------------------------------------------------------------------------
LEMMA InitInv == Init => IInv
<1> USE ExecutionAssumption
<1> SUFFICES ASSUME Init  PROVE  IInv
  OBVIOUS
<1>1. MaxTries \in 0..MaxTries /\ 0 \in 0..MaxLosses
  OBVIOUS
<1>2. Unused \in Workflow /\ Absent \in Row /\ Idle \in Request
  BY <1>1 DEF Unused, Workflow, Absent, Row, Idle, Request
<1>3. TypeOK
  BY <1>1, <1>2 DEF Init, TypeOK
<1>4. Created = {}
  BY DEF Init, Created, Unused
<1>5. RequestInv /\ CallInv /\ RowFollowsWorkflow
  BY DEF Init, RequestInv, Idle, CallInv, RowFollowsWorkflow, Stored, Absent
<1>6. QED
  BY <1>3, <1>4, <1>5 DEF IInv, WorkflowInv, TriesInv

LEMMA StepKeepsInv == IInv /\ [Next]_vars => IInv'
<1> SUFFICES ASSUME IInv, [Next]_vars  PROVE  IInv'
  OBVIOUS
<1>1. CASE Next
  BY <1>1, RequestKeepsInv, CronKeepsInv, WorkflowKeepsInv, CallKeepsInv DEF Next
<1>2. CASE UNCHANGED vars
  BY <1>2 DEF vars, IInv, TypeOK, RequestInv, WorkflowInv, CallInv, TriesInv,
              RowFollowsWorkflow, Stored, Created
<1>3. QED
  BY <1>1, <1>2

(* The inductive invariant: requests that are about to insert, calls that   *)
(* report an end, and rows each rest on a workflow of that name.            *)
THEOREM Invariant == Spec => []IInv
  BY InitInv, StepKeepsInv, PTL DEF Spec

(* No row says more than a workflow of its name and namespace has done.     *)
THEOREM RowsFollow == Spec => []RowFollowsWorkflow
<1>1. IInv => RowFollowsWorkflow
  BY DEF IInv
<1>2. QED
  BY <1>1, Invariant, PTL

(* The server never uses up the attempts of a call: only losses do, and     *)
(* refusals of a cron run's insert.                                         *)
THEOREM OnlyLossesExhaust == Spec => RetriesAbsorbLosses
<1>1. ASSUME IInv, NEW w \in Wfs, GiveUp(w),
             ~(wf[w].stage = "start" /\ wf[w].first = "insert")
      PROVE  losses >= MaxTries
  <2>1. w \in Created /\ wf[w].tries = 0 /\ wf[w].stage \in {"start", "exit"}
    BY <1>1 DEF GiveUp, Created
  <2>2. MaxTries <= wf[w].tries + losses
    <3>1. wf[w].stage = "start" => wf[w].first = "update"
      BY <1>1, <2>1, SoundBefore DEF Workflow
    <3>2. QED
      BY <1>1, <2>1, <3>1 DEF IInv, TriesInv
  <2>3. QED
    BY <1>1, <2>1, <2>2, ExecutionAssumption DEF IInv, TypeOK
<1>2. IInv /\ [Next]_vars =>
        [\A w \in Wfs :
            GiveUp(w) /\ ~(wf[w].stage = "start" /\ wf[w].first = "insert") =>
                losses >= MaxTries]_vars
  BY <1>1
<1>3. QED
  BY <1>2, Invariant, PTL DEF Spec, RetriesAbsorbLosses

(* Only a report of the start overwrites a termination.                     *)
THEOREM TerminationOverwritten == Spec => OnlyStartOverwritesTerminated
<1> DEFINE Step(n) ==
      row[n].phase = "Terminated" /\ row'[n].phase # "Terminated" =>
        /\ row'[n].phase = "Running"
        /\ \E c \in calls : c.task = "start" /\ wf[c.wf].name = n /\ c \notin calls'
<1>1. ASSUME IInv, Next, NEW n \in Names  PROVE  Step(n)
  <2>1. row \in [Names -> Row]
    BY <1>1 DEF IInv, TypeOK
  <2>2. CASE \E q \in Reqs : RequestStep(q)
    <3>1. PICK q \in Reqs : RequestStep(q)
      BY <2>2
    <3>2. CASE InsertRow(q)
      BY <2>1, <3>2 DEF InsertRow, Stored
    <3>3. CASE MarkTerminated(q)
      BY <2>1, <3>3 DEF MarkTerminated, Row, Phase
    <3>4. CASE MarkArchived(q)
      BY <2>1, <3>4 DEF MarkArchived, Row
    <3>5. QED
      BY <3>1, <3>2, <3>3, <3>4
         DEF RequestStep, CreateArgo, StopArgo, DeleteArgo, Resubmit, Abort
  <2>3. CASE CronRun \/ \E w \in Wfs : WorkflowStep(w)
    BY <2>3 DEF CronRun, WorkflowStep, WorkSucceeds, WorkFails, SendCall, GiveUp
  <2>4. CASE \E c \in calls : CallStep(c)
    <3>1. PICK c \in calls : CallStep(c)
      BY <2>4
    <3>2. CASE HandleRunning(c)
      BY <2>1, <3>2 DEF HandleRunning, Row
    <3>3. CASE HandleCronStart(c)
      BY <2>1, <3>3 DEF HandleCronStart, Stored
    <3>4. CASE HandleFound(c)
      BY <2>1, <3>4 DEF HandleFound, FinishRow
    <3>5. QED
      BY <3>1, <3>2, <3>3, <3>4 DEF CallStep, HandleExit, LoseCall, CutConnection
  <2>5. QED
    BY <1>1, <2>2, <2>3, <2>4 DEF Next
<1>2. IInv /\ [Next]_vars => [\A n \in Names : Step(n)]_vars
  BY <1>1
<1>3. QED
  BY <1>2, Invariant, PTL DEF Spec, OnlyStartOverwritesTerminated

(* A row changes its namespace only to that of a namesake.                  *)
THEOREM NamesakesMoveRows == Spec => OnlyNamesakesMoveRows
<1> DEFINE Step(n) ==
      Stored(n) /\ row'[n].ns # row[n].ns =>
        \E w, v \in Created : wf[w].name = n /\ wf[v].name = n /\ wf[w].ns # wf[v].ns
<1>1. ASSUME IInv, Next, NEW n \in Names  PROVE  Step(n)
  <2>1. row \in [Names -> Row]
    BY <1>1 DEF IInv, TypeOK
  <2>2. CASE \E q \in Reqs : RequestStep(q)
    <3>1. PICK q \in Reqs : RequestStep(q)
      BY <2>2
    <3>2. CASE InsertRow(q)
      BY <2>1, <3>2 DEF InsertRow
    <3>3. CASE MarkTerminated(q)
      BY <2>1, <3>3 DEF MarkTerminated, Row
    <3>4. CASE MarkArchived(q)
      BY <2>1, <3>4 DEF MarkArchived, Row
    <3>5. QED
      BY <3>1, <3>2, <3>3, <3>4
         DEF RequestStep, CreateArgo, StopArgo, DeleteArgo, Resubmit, Abort
  <2>3. CASE CronRun \/ \E w \in Wfs : WorkflowStep(w)
    BY <2>3 DEF CronRun, WorkflowStep, WorkSucceeds, WorkFails, SendCall, GiveUp
  <2>4. CASE \E c \in calls : CallStep(c)
    <3>1. PICK c \in calls : CallStep(c)
      BY <2>4
    <3>2. CASE HandleRunning(c)
      BY <2>1, <3>2 DEF HandleRunning, Row
    <3>3. CASE HandleCronStart(c)
      BY <2>1, <3>3 DEF HandleCronStart
    <3>4. CASE HandleFound(c)
      <4>1. ASSUME Stored(n), row'[n].ns # row[n].ns
            PROVE  n = wf[c.wf].name /\ row'[n].ns = wf[c.wf].ns
        <5>1. n = wf[c.wf].name /\ row'[n] = Finished(row[n], c.wf)
          BY <3>4, <4>1 DEF HandleFound, FinishRow
        <5>2. QED
          BY <2>1, <5>1 DEF Finished, Row
      <4>2. c.wf \in Created
        BY <1>1, CallFacts
      <4>3. ASSUME Stored(n)
            PROVE  \E v \in Created : wf[v].name = n /\ wf[v].ns = row[n].ns
        BY <1>1, <4>3 DEF IInv, RowFollowsWorkflow
      <4>4. QED
        BY <4>1, <4>2, <4>3
    <3>5. QED
      BY <3>1, <3>2, <3>3, <3>4 DEF CallStep, HandleExit, LoseCall, CutConnection
  <2>5. QED
    BY <1>1, <2>2, <2>3, <2>4 DEF Next
<1>2. IInv /\ [Next]_vars => [\A n \in Names : Step(n)]_vars
  BY <1>1
<1>3. QED
  BY <1>2, Invariant, PTL DEF Spec, OnlyNamesakesMoveRows
-----------------------------------------------------------------------------
(* While nothing has been lost every call is still waited for, unless its   *)
(* workflow was deleted or was stopped in its first task; a workflow is     *)
(* reported to have ended by one call; and a row says how the one workflow  *)
(* of its name ended as soon as it has.                                     *)
Awaits(c) ==
    \/ Awaited(c)
    \/ wf[c.wf].stage = "deleted"
    \/ c.task = "start" /\ wf[c.wf].stopped

CallsAwaited == \A c \in calls : Awaits(c)

OneExitCall ==
    \A c, d \in calls :
        c.wf = d.wf /\ c.task = "exit" /\ d.task = "exit" /\ wf[c.wf].stage # "deleted"
            => c = d

EndsAlone(w) ==
    /\ wf[w].stage = "done"
    /\ ~wf[w].stopped
    /\ \A v \in Created \ {w} : wf[v].name # wf[w].name

Spared == {"Absent", "Pending", "Terminated"}

EndsShown ==
    \A w \in Created : EndsAlone(w) =>
        row[wf[w].name].phase \in Spared \cup {Outcome(wf[w].status)}

LosslessInv == CallsAwaited /\ OneExitCall /\ EndsShown

(* One workflow is stepped; the calls of the others are as they were.       *)
LEMMA OthersAwait ==
    ASSUME IInv, CallsAwaited, OneExitCall, NEW w \in Created,
           \A v \in Created \ {w} : wf'[v] = wf[v],
           \A c \in calls' : c.wf # w => c \in calls,
           \A c \in calls' : c.wf = w => Awaits(c)',
           \A c, d \in calls' : c.wf = w /\ d.wf = w /\ c.task = "exit" /\ d.task = "exit"
                                /\ wf'[w].stage # "deleted" => c = d
    PROVE  CallsAwaited' /\ OneExitCall'
<1>1. ASSUME NEW c \in calls', c.wf # w
      PROVE  c \in calls /\ wf'[c.wf] = wf[c.wf]
  BY <1>1 DEF IInv, CallInv
<1>2. ASSUME NEW c \in calls', c.wf # w
      PROVE  Awaits(c)'
  BY <1>1, <1>2 DEF CallsAwaited, Awaits, Awaited
<1>3. CallsAwaited'
  BY <1>2 DEF CallsAwaited
<1>4. OneExitCall'
  BY <1>1 DEF OneExitCall
<1>5. QED
  BY <1>3, <1>4

(* What a row shows of a workflow that had ended alone, or now does.        *)
LEMMA ShownStays ==
    ASSUME IInv, EndsShown, Keeps,
           \A w \in Created' : EndsAlone(w)' =>
              \/ /\ w \in Created /\ wf[w].stage = "done" /\ ~wf[w].stopped
                 /\ \/ row'[wf[w].name].phase = row[wf[w].name].phase
                    \/ row'[wf[w].name].phase \in Spared
              \/ row'[wf'[w].name].phase \in Spared \cup {Outcome(wf'[w].status)}
    PROVE  EndsShown'
<1>1. ASSUME NEW w \in Created', EndsAlone(w)', w \in Created,
             wf[w].stage = "done", ~wf[w].stopped
      PROVE  /\ wf'[w].name = wf[w].name /\ wf'[w].status = wf[w].status
             /\ row[wf[w].name].phase \in Spared \cup {Outcome(wf[w].status)}
  <2>1. wf'[w].name = wf[w].name /\ wf'[w].status = wf[w].status
    BY <1>1 DEF IInv, WorkflowInv, Keeps
  <2>2. EndsAlone(w)
    BY <1>1 DEF EndsAlone, Keeps
  <2>3. QED
    BY <1>1, <2>1, <2>2 DEF EndsShown
<1>2. QED
  BY <1>1 DEF EndsShown, Spared

(* A step that sends and handles no call, and ends no workflow.             *)
LEMMA Undisturbed ==
    ASSUME IInv, LosslessInv, Keeps, calls' = calls,
           \A w \in Created :
              \/ wf'[w] = wf[w]
              \/ wf'[w].stage = "deleted"
              \/ wf'[w] = [wf[w] EXCEPT !.stopped = TRUE],
           \A w \in Created' \ Created : wf'[w].stage = "start",
           \A n \in Names : \/ row'[n].phase = row[n].phase
                            \/ row'[n].phase \in Spared
    PROVE  LosslessInv'
<1>1. ASSUME NEW w \in Created
      PROVE  /\ wf[w] \in Workflow /\ wf[w].name \in Names
             /\ wf[w].stage = "deleted" => wf'[w].stage = "deleted"
             /\ \/ wf'[w].stage = "deleted"
                \/ /\ wf'[w].stage = wf[w].stage
                   /\ wf'[w].waiting = wf[w].waiting
                   /\ wf'[w].tries = wf[w].tries
                   /\ wf[w].stopped => wf'[w].stopped
  <2>1. wf[w] \in Workflow /\ wf[w].name \in Names
    BY SoundBefore DEF Sound
  <2>2. QED
    BY <2>1 DEF Workflow
<1>2. \A c \in calls : c.wf \in Created
  BY DEF IInv, CallInv
<1>3. CallsAwaited'
  BY <1>1, <1>2 DEF LosslessInv, CallsAwaited, Awaits, Awaited
<1>4. OneExitCall'
  BY <1>1, <1>2 DEF LosslessInv, OneExitCall
<1>5. ASSUME NEW w \in Created', EndsAlone(w)'
      PROVE  /\ w \in Created /\ wf[w].stage = "done" /\ ~wf[w].stopped
             /\ \/ row'[wf[w].name].phase = row[wf[w].name].phase
                \/ row'[wf[w].name].phase \in Spared
  <2>1. w \in Created /\ wf'[w].stage = "done" /\ ~wf'[w].stopped
    BY <1>5 DEF EndsAlone
  <2>2. QED
    BY <1>1, <2>1
<1>6. EndsShown'
  BY <1>5, ShownStays DEF LosslessInv
<1>7. QED
  BY <1>3, <1>4, <1>6 DEF LosslessInv

LEMMA LaunchNew ==
    ASSUME IInv, NEW first \in {"update", "insert"}, NEW ns \in Namespaces, NEW n \in Names,
           Launch(first, ns, n)
    PROVE  /\ \A w \in Created : wf'[w] = wf[w]
           /\ \A w \in Created' \ Created : wf'[w].stage = "start"
<1>1. wf \in [Wfs -> Workflow]
  BY DEF IInv, TypeOK
<1>2. PICK w \in Wfs \ Created :
        wf' = [wf EXCEPT ![w] = [Unused EXCEPT !.name = n, !.ns = ns,
                                               !.first = first, !.stage = "start"]]
  BY DEF Launch
<1>3. wf'[w].stage = "start" /\ \A v \in Wfs \ {w} : wf'[v] = wf[v]
  BY <1>1, <1>2 DEF Unused
<1>4. QED
  BY <1>3 DEF Created

LEMMA RequestLossless ==
    ASSUME IInv, LosslessInv, NEW q \in Reqs, RequestStep(q)
    PROVE  LosslessInv'
<1>1. Keeps /\ calls' = calls /\ row \in [Names -> Row]
  BY RequestWorkflows
     DEF WorkflowsGood, IInv, TypeOK, RequestStep, CreateArgo, InsertRow, MarkTerminated,
         StopArgo, MarkArchived, DeleteArgo, Resubmit, Abort
<1>2. \A n \in Names : \/ row'[n].phase = row[n].phase
                       \/ row'[n].phase \in Spared
  <2>1. CASE row' = row
    BY <2>1
  <2>2. CASE InsertRow(q)
    BY <1>1, <2>2 DEF InsertRow, Absent, Spared
  <2>3. CASE MarkTerminated(q)
    BY <1>1, <2>3 DEF MarkTerminated, Row, Spared
  <2>4. CASE MarkArchived(q)
    BY <1>1, <2>4 DEF MarkArchived, Row
  <2>5. QED
    BY <2>1, <2>2, <2>3, <2>4
       DEF RequestStep, CreateArgo, StopArgo, DeleteArgo, Resubmit, Abort
<1>3. CASE CreateArgo(q) \/ Resubmit(q)
  <2>1. PICK first \in {"update", "insert"}, ns \in Namespaces, n \in Names :
          Launch(first, ns, n)
    <3>1. \A w \in Created : wf[w].first \in {"update", "insert"} /\ wf[w].ns \in Namespaces
      BY SoundBefore DEF Sound, Workflow
    <3>2. QED
      BY <1>3, <3>1 DEF CreateArgo, Resubmit
  <2>2. QED
    BY <1>1, <1>2, <2>1, LaunchNew, Undisturbed
<1>4. CASE wf' = wf
  <2>1. Created' = Created
    BY <1>4 DEF Created
  <2>2. QED
    BY <1>1, <1>2, <1>4, <2>1, Undisturbed
<1>5. CASE StopArgo(q)
  <2>1. /\ \A w \in Created : wf'[w] = wf[w] \/ wf'[w] = [wf[w] EXCEPT !.stopped = TRUE]
        /\ \A w \in Wfs \ Created : wf'[w] = wf[w]
    BY <1>5 DEF StopArgo, Present, Created
  <2>2. Created' \subseteq Created
    BY <2>1 DEF Created
  <2>3. QED
    BY <1>1, <1>2, <2>1, <2>2, Undisturbed
<1>6. CASE DeleteArgo(q)
  <2>1. wf \in [Wfs -> Workflow]
    BY DEF IInv, TypeOK
  <2>2. /\ \A w \in Created : wf'[w] = wf[w] \/ wf'[w].stage = "deleted"
        /\ \A w \in Wfs \ Created : wf'[w] = wf[w]
    BY <1>6, <2>1 DEF DeleteArgo, Present, Created, Workflow
  <2>3. Created' \subseteq Created
    BY <2>2 DEF Created
  <2>4. QED
    BY <1>1, <1>2, <2>2, <2>3, Undisturbed
<1>7. QED
  BY <1>3, <1>4, <1>5, <1>6
     DEF RequestStep, InsertRow, MarkTerminated, MarkArchived, Abort

LEMMA CronLossless ==
    ASSUME IInv, LosslessInv, CronRun
    PROVE  LosslessInv'
<1>1. PICK ns \in Namespaces, n \in Names : Launch("insert", ns, n)
  BY DEF CronRun
<1>2. calls' = calls /\ row' = row /\ losses' = losses
  BY DEF CronRun
<1>3. Keeps
  BY <1>1, <1>2, LaunchGood DEF WorkflowsGood
<1>4. QED
  BY <1>1, <1>2, <1>3, LaunchNew, Undisturbed

(* The calls of a workflow that is there: the one it waits for, and those   *)
(* of a first task that was stopped.                                        *)
LEMMA CallsOf ==
    ASSUME IInv, CallsAwaited, NEW w \in Created, NEW c \in calls, c.wf = w,
           wf[w].stage # "deleted"
    PROVE  \/ wf[w].waiting /\ c.task = wf[w].stage /\ c.try = wf[w].tries
           \/ c.task = "start" /\ wf[w].stopped
  BY DEF CallsAwaited, Awaits, Awaited

LEMMA WorkflowLossless ==
    ASSUME IInv, LosslessInv, losses = 0, NEW w \in Wfs, WorkflowStep(w)
    PROVE  LosslessInv'
<1> USE ExecutionAssumption
<1>1. w \in Created /\ wf[w] \in Workflow /\ wf[w].stage \in {"start", "work", "exit"}
      /\ wf \in [Wfs -> Workflow]
  <2>1. w \in Created /\ wf[w].stage \in {"start", "work", "exit"}
    BY DEF WorkflowStep, WorkSucceeds, WorkFails, SendCall, GiveUp, Created
  <2>2. QED
    BY <2>1, SoundBefore DEF IInv, TypeOK
<1>2. row' = row /\ Keeps /\ Created' = Created
  <2>1. IInv'
    BY WorkflowKeepsInv
  <2>2. QED
    BY <1>1, <2>1
       DEF WorkflowStep, WorkSucceeds, WorkFails, SendCall, GiveUp, Fails, Created, Keeps,
           Workflow
<1>3. ASSUME wf[w].stage = "exit", ~wf[w].waiting  PROVE  wf[w].tries > 0
  BY <1>1, <1>3 DEF IInv, TriesInv, Workflow
<1>4. /\ \A v \in Created \ {w} : wf'[v] = wf[v]
      /\ wf'[w].stage \in {"start", "exit"}
      /\ wf'[w].stopped = wf[w].stopped
  <2>1. ~(wf[w].stage = "exit" /\ GiveUp(w))
    BY <1>1, <1>3 DEF GiveUp, Workflow
  <2>2. QED
    <3>1. CASE WorkSucceeds(w)
      <4>1. wf' = [wf EXCEPT ![w] = [wf[w] EXCEPT !.stage = "exit", !.status = "Succeeded"]]
        BY <1>1, <3>1 DEF WorkSucceeds
      <4>2. wf'[w] = [wf[w] EXCEPT !.stage = "exit", !.status = "Succeeded"]
        BY <1>1, <4>1
      <4>3. QED
        BY <1>1, <4>1, <4>2 DEF Workflow
    <3>2. CASE SendCall(w)
      BY <1>1, <3>2 DEF SendCall, Workflow
    <3>3. CASE Fails(w)
      <4>0. PICK st \in {"Failed", "Error"} :
              wf' = [wf EXCEPT ![w].stage = "exit", ![w].status = st,
                               ![w].waiting = FALSE, ![w].tries = MaxTries]
        BY <3>3 DEF Fails
      <4>1. wf' = [wf EXCEPT ![w] = [wf[w] EXCEPT !.stage = "exit", !.status = st,
                                           !.waiting = FALSE, !.tries = MaxTries]]
        BY <1>1, <4>0
      <4>2. wf'[w] = [wf[w] EXCEPT !.stage = "exit", !.status = st,
                                   !.waiting = FALSE, !.tries = MaxTries]
        BY <1>1, <4>1
      <4>3. QED
        BY <1>1, <4>1, <4>2 DEF Workflow
    <3>4. QED
      BY <1>1, <2>1, <3>1, <3>2, <3>3 DEF WorkflowStep, WorkFails, GiveUp
<1>5. EndsShown'
  <2>1. ASSUME NEW v \in Created', EndsAlone(v)'
        PROVE  v \in Created /\ wf[v].stage = "done" /\ ~wf[v].stopped
    BY <1>2, <1>4, <2>1 DEF EndsAlone
  <2>2. QED
    BY <1>2, <2>1, ShownStays DEF LosslessInv
<1>6. CASE SendCall(w)
  <2>0. PICK c : c = [wf |-> w, task |-> wf[w].stage, try |-> wf[w].tries,
                      at |-> "arrived"]
    OBVIOUS
  <2>1. calls' = calls \cup {c} /\ ~wf[w].waiting /\ wf[w].stage \in {"start", "exit"}
        /\ wf' = [wf EXCEPT ![w].waiting = TRUE]
    BY <1>6, <2>0 DEF SendCall
  <2>2. Awaited(c)' /\ c.wf = w
    BY <1>1, <2>0, <2>1 DEF Awaited, Workflow
  <2>3. \A d \in calls : d.wf = w => d.task = "start" /\ wf[w].stopped
    BY <1>1, <2>1, CallsOf DEF LosslessInv
  <2>4. \A d \in calls' : d.wf = w => Awaits(d)'
    <3>1. ASSUME NEW d \in calls, d.wf = w  PROVE  Awaits(d)'
      BY <1>4, <2>3, <3>1 DEF Awaits
    <3>2. ASSUME NEW d, d = c  PROVE  Awaits(d)'
      BY <2>2, <3>2 DEF Awaits, Awaited
    <3>3. QED
      BY <2>1, <3>1, <3>2
  <2>5. CallsAwaited' /\ OneExitCall'
    BY <1>1, <1>4, <2>1, <2>2, <2>3, <2>4, OthersAwait DEF LosslessInv
  <2>6. QED
    BY <1>5, <2>5 DEF LosslessInv
<1>7. CASE calls' = calls /\ (~wf[w].waiting \/ wf[w].stage = "work" \/ wf[w].stopped)
           /\ (wf[w].waiting => wf[w].stage # "exit")
  <2>1. \A d \in calls : d.wf = w => d.task = "start" /\ wf[w].stopped
    <3>1. ASSUME NEW d \in calls, d.wf = w  PROVE  d.task = "start" /\ wf[w].stopped
      BY <1>1, <1>7, <3>1, CallsOf, CallFacts DEF LosslessInv, Call
    <3>2. QED
      BY <3>1
  <2>2. \A d \in calls' : d.wf = w => Awaits(d)'
    BY <1>4, <1>7, <2>1 DEF Awaits
  <2>3. CallsAwaited' /\ OneExitCall'
    BY <1>1, <1>4, <1>7, <2>1, <2>2, OthersAwait DEF LosslessInv
  <2>4. QED
    BY <1>5, <2>3 DEF LosslessInv
<1>8. QED
  BY <1>6, <1>7 DEF WorkflowStep, WorkSucceeds, WorkFails, GiveUp

(* While one call of a workflow is awaited, its others are those of a first *)
(* task that was stopped.                                                   *)
LEMMA RestStopped ==
    ASSUME IInv, LosslessInv, NEW c \in calls, Awaited(c),
           NEW d \in calls, d # c, d.wf = c.wf
    PROVE  d.task = "start" /\ wf[d.wf].stopped
<1>1. c \in Call /\ d \in Call /\ c.wf \in Created /\ wf[c.wf].stage \in {"start", "exit"}
  BY CallFacts
<1>2. ASSUME Awaited(d)  PROVE  FALSE
  <2>1. c.task = d.task /\ c.try = d.try
    BY <1>2 DEF Awaited
  <2>2. c.task = "start"
    BY <1>1, <2>1 DEF LosslessInv, OneExitCall, Call
  <2>3. c.at = "arrived" /\ d.at = "arrived"
    BY <1>1, <2>1, <2>2 DEF IInv, CallInv, Call
  <2>4. QED
    BY <1>1, <2>1, <2>3 DEF Call
<1>3. QED
  BY <1>1, <1>2 DEF LosslessInv, CallsAwaited, Awaits

(* A call that is handled and answered, with nothing lost on the way.       *)
LEMMA AnsweredAwaits ==
    ASSUME IInv, LosslessInv, losses = 0, losses' = 0, NEW c \in calls, NEW ok \in BOOLEAN,
           Answer(c, ok), calls' = calls \ {c}
    PROVE  /\ CallsAwaited' /\ OneExitCall'
           /\ \A v \in Created \ {c.wf} : wf'[v] = wf[v]
           /\ ~Awaited(c) => wf' = wf
           /\ Awaited(c) => wf'[c.wf].stage # "done" \/ c.task = "exit"
<1> USE ExecutionAssumption
<1>1. c \in Call /\ c.wf \in Created /\ wf[c.wf] \in Workflow /\ wf \in [Wfs -> Workflow]
  BY CallFacts, SoundBefore DEF IInv, TypeOK
<1>2. CASE ~Awaited(c)
  <2>1. wf' = wf
    BY <1>2 DEF Answer
  <2>2. CallsAwaited' /\ OneExitCall'
    BY <2>1 DEF LosslessInv, CallsAwaited, OneExitCall, Awaits, Awaited
  <2>3. QED
    BY <1>2, <2>1, <2>2
<1>3. CASE Awaited(c)
  <2>1. wf[c.wf].stage = c.task /\ c.task \in {"start", "exit"}
    BY <1>1, <1>3 DEF Awaited, Call
  <2>2. PICK f : /\ f \in {Advanced(wf[c.wf]), TriedInVain(wf[c.wf])}
                 /\ wf' = [wf EXCEPT ![c.wf] = f]
    BY <1>3 DEF Answer
  <2>3. f.stopped = wf[c.wf].stopped /\ f.stage \in {"start", "work", "exit", "done"}
        /\ (c.task = "start" => f.stage # "done")
    <3>1. CASE f = Advanced(wf[c.wf])
      <4>1. f = [wf[c.wf] EXCEPT !.stage = IF wf[c.wf].stage = "start" THEN "work" ELSE "done",
                                 !.waiting = FALSE, !.tries = MaxTries]
        BY <3>1 DEF Advanced
      <4>2. f.stopped = wf[c.wf].stopped
            /\ f.stage = IF wf[c.wf].stage = "start" THEN "work" ELSE "done"
        BY <1>1, <4>1 DEF Workflow
      <4>3. QED
        BY <2>1, <4>2
    <3>2. CASE f = TriedInVain(wf[c.wf])
      <4>1. f.stopped = wf[c.wf].stopped /\ f.stage = wf[c.wf].stage
        BY <1>1, <3>2 DEF TriedInVain, Workflow
      <4>2. QED
        BY <2>1, <4>1
    <3>3. QED
      BY <2>2, <3>1, <3>2
  <2>4. wf'[c.wf] = f /\ \A v \in Created \ {c.wf} : wf'[v] = wf[v]
    BY <1>1, <2>2 DEF Created
  <2>5. \A d \in calls' : d.wf = c.wf => d.task = "start" /\ wf[c.wf].stopped
    BY <1>3, RestStopped
  <2>6. \A d \in calls' : d.wf = c.wf => Awaits(d)'
    BY <2>3, <2>4, <2>5 DEF Awaits
  <2>7. CallsAwaited' /\ OneExitCall'
    BY <1>1, <2>4, <2>5, <2>6, OthersAwait DEF LosslessInv
  <2>8. QED
    BY <1>3, <2>1, <2>3, <2>4, <2>7
<1>4. QED
  BY <1>2, <1>3

LEMMA CallLossless ==
    ASSUME IInv, LosslessInv, losses = 0, losses' = 0, NEW c \in calls, CallStep(c)
    PROVE  LosslessInv'
<1> USE ExecutionAssumption
<1>1. c \in Call /\ c.wf \in Created /\ row \in [Names -> Row]
  BY CallFacts DEF IInv, TypeOK
<1>2. c.wf \in Wfs /\ wf[c.wf] \in Workflow /\ wf[c.wf].name \in Names
  BY <1>1, SoundBefore DEF Sound
<1>3. ASSUME NEW ok \in BOOLEAN, Answer(c, ok), calls' = calls \ {c},
             ok \/ ~Awaited(c) \/ (c.task = "start" /\ wf[c.wf].first = "insert"),
             \A n \in Names : n # wf[c.wf].name => row'[n] = row[n],
             \/ c.task = "start"
             \/ ~Awaited(c) /\ row' = row
             \/ row'[wf[c.wf].name].phase \in Spared \cup {Outcome(wf[c.wf].status)}
      PROVE  LosslessInv'
  <2>1. Keeps
    BY <1>3, AnswerGood DEF WorkflowsGood
  <2>2. /\ CallsAwaited' /\ OneExitCall'
        /\ \A v \in Created \ {c.wf} : wf'[v] = wf[v]
        /\ ~Awaited(c) => wf' = wf
        /\ Awaited(c) => wf'[c.wf].stage # "done" \/ c.task = "exit"
    BY <1>3, AnsweredAwaits
  <2>3. Created' = Created
    <3>1. Created \subseteq Created'
      BY <2>1 DEF Keeps
    <3>2. \A v \in Wfs \ {c.wf} : wf'[v] = wf[v]
      BY <1>3 DEF Answer, IInv, TypeOK
    <3>3. QED
      BY <1>1, <3>1, <3>2 DEF Created
  <2>4. ASSUME NEW w \in Created', EndsAlone(w)'
        PROVE  \/ /\ w \in Created /\ wf[w].stage = "done" /\ ~wf[w].stopped
                  /\ row'[wf[w].name].phase = row[wf[w].name].phase
               \/ row'[wf'[w].name].phase \in Spared \cup {Outcome(wf'[w].status)}
    <3>1. w \in Created /\ wf'[w].stage = "done" /\ ~wf'[w].stopped
          /\ wf'[w].name = wf[w].name /\ wf[w].name \in Names
      BY <2>1, <2>3, <2>4, SoundBefore DEF EndsAlone, Keeps, Sound
    <3>2. CASE w # c.wf
      <4>1. wf[w].name # wf[c.wf].name
        BY <1>1, <2>1, <2>4, <3>1, <3>2 DEF EndsAlone, Keeps
      <4>2. QED
        BY <1>3, <2>2, <3>1, <3>2, <4>1
    <3>3. CASE w = c.wf /\ ~Awaited(c)
      <4>1. wf[w].stage = "done" /\ ~wf[w].stopped
        BY <2>2, <3>1, <3>3
      <4>2. QED
        BY <3>3, <4>1 DEF LosslessInv, CallsAwaited, Awaits
    <3>4. CASE w = c.wf /\ Awaited(c)
      <4>1. c.task = "exit" /\ wf[c.wf].status # "Running"
        BY <2>2, <3>1, <3>4 DEF IInv, CallInv
      <4>2. wf'[w].status = wf[w].status
        BY <1>1, <2>1, <3>4, <4>1 DEF Keeps
      <4>3. QED
        BY <1>3, <3>1, <3>4, <4>1, <4>2
    <3>5. QED
      BY <3>2, <3>3, <3>4
  <2>5. EndsShown'
    BY <2>1, <2>4, ShownStays DEF LosslessInv
  <2>6. QED
    BY <2>2, <2>5 DEF LosslessInv
<1>4. CASE HandleRunning(c)
  <2>1. \A n \in Names : n # wf[c.wf].name => row'[n] = row[n]
    BY <1>1, <1>2, <1>4 DEF HandleRunning
  <2>2. QED
    BY <1>3, <1>4, <2>1 DEF HandleRunning
<1>5. CASE HandleCronStart(c)
  <2>1. \A n \in Names : n # wf[c.wf].name => row'[n] = row[n]
    BY <1>1, <1>2, <1>5 DEF HandleCronStart
  <2>2. PICK ok \in BOOLEAN : Answer(c, ok)
    BY <1>5 DEF HandleCronStart
  <2>3. QED
    BY <1>3, <1>5, <2>1, <2>2 DEF HandleCronStart
<1>6. CASE HandleExit(c)
  <2>1. CASE Present(wf[c.wf].ns, wf[c.wf].name) # {}
    <3>1. PICK e : e = [c EXCEPT !.at = "found"]
      OBVIOUS
    <3>2. wf' = wf /\ row' = row /\ calls' = (calls \ {c}) \cup {e} /\ c.task = "exit"
      BY <1>6, <2>1, <3>1 DEF HandleExit
    <3>3. e.wf = c.wf /\ e.task = c.task /\ e.try = c.try
      BY <1>1, <3>1 DEF Call
    <3>4. Created' = Created /\ Keeps
      BY <3>2 DEF Created, Keeps
    <3>5. ASSUME NEW d \in calls'  PROVE  Awaits(d)'
      <4>1. PICK b \in calls : b.wf = d.wf /\ b.task = d.task /\ b.try = d.try
        BY <3>2, <3>3
      <4>2. Awaits(b)
        BY DEF LosslessInv, CallsAwaited
      <4>3. QED
        BY <3>2, <4>1, <4>2 DEF Awaits, Awaited
    <3>6. OneExitCall'
      BY <3>2, <3>3 DEF LosslessInv, OneExitCall
    <3>7. EndsShown'
      BY <3>2, <3>4 DEF LosslessInv, EndsShown, EndsAlone
    <3>8. QED
      BY <3>5, <3>6, <3>7 DEF LosslessInv, CallsAwaited
  <2>2. CASE Present(wf[c.wf].ns, wf[c.wf].name) = {}
    <3>1. wf[c.wf].stage = "deleted"
      BY <1>1, <2>2 DEF Present
    <3>2. ~Awaited(c)
      BY <3>1, CallFacts
    <3>3. QED
      BY <1>3, <1>6, <2>2, <3>2 DEF HandleExit
  <2>3. QED
    BY <2>1, <2>2
<1>7. CASE HandleFound(c)
  <2>1. \A n \in Names : n # wf[c.wf].name => row'[n] = row[n]
    BY <1>7 DEF HandleFound, FinishRow
  <2>2. row'[wf[c.wf].name].phase \in Spared \cup {Outcome(wf[c.wf].status)}
    <3>1. PICK n \in Names : n = wf[c.wf].name
      BY <1>2
    <3>2. row'[n] = IF row[n].phase \notin {"Absent", "Terminated"}
                    THEN Finished(row[n], c.wf) ELSE row[n]
      BY <1>7, <3>1 DEF HandleFound, FinishRow, Stored
    <3>3. PICK r \in Row : r = row[n]
      BY <1>1
    <3>4. Finished(r, c.wf).phase = Outcome(wf[c.wf].status)
      BY DEF Finished, Row
    <3>5. QED
      BY <3>1, <3>2, <3>3, <3>4 DEF Spared
  <2>3. QED
    BY <1>3, <1>7, <2>1, <2>2 DEF HandleFound
<1>8. CASE LoseCall(c) \/ CutConnection(c)
  BY <1>8 DEF LoseCall, CutConnection
<1>9. QED
  BY <1>4, <1>5, <1>6, <1>7, <1>8 DEF CallStep

(* The second inductive invariant, of the runs in which nothing is lost.    *)
THEOREM LosslessInvariant == Spec => [](losses = 0 => LosslessInv)
<1>1. Init => LosslessInv
  <2>1. Init => Created = {}
    BY DEF Init, Created, Unused
  <2>2. QED
    BY <2>1 DEF Init, LosslessInv, CallsAwaited, OneExitCall, EndsShown
<1>2. IInv /\ (losses = 0 => LosslessInv) /\ [Next]_vars => (losses = 0 => LosslessInv)'
  <2> SUFFICES ASSUME IInv, losses = 0 => LosslessInv, [Next]_vars, losses' = 0
               PROVE  LosslessInv'
    OBVIOUS
  <2>1. CASE UNCHANGED vars
    BY <2>1 DEF vars, LosslessInv, CallsAwaited, OneExitCall, EndsShown, EndsAlone, Awaits,
                Awaited, Created
  <2>2. CASE Next
    <3>1. losses \in Nat
      BY ExecutionAssumption DEF IInv, TypeOK
    <3>2. losses' \in {losses, losses + 1}
      BY <2>2 DEF Next, RequestStep, CreateArgo, InsertRow, MarkTerminated, StopArgo,
                  MarkArchived, DeleteArgo, Resubmit, Abort, CronRun, WorkflowStep,
                  WorkSucceeds, WorkFails, SendCall, GiveUp, CallStep, HandleRunning,
                  HandleCronStart, HandleExit, HandleFound, Answer, LoseCall, CutConnection
    <3>3. losses = 0
      BY <3>1, <3>2
    <3>4. QED
      BY <2>2, <3>3, RequestLossless, CronLossless, WorkflowLossless, CallLossless DEF Next
  <2>3. QED
    BY <2>1, <2>2
<1>3. QED
  BY <1>1, <1>2, Invariant, PTL DEF Spec

(* Once nothing is under way and if nothing was lost, the row of the only   *)
(* workflow of its name shows how that workflow ended.                      *)
THEOREM QuietRowsAgree == Spec => []QuietAgrees
<1>1. (losses = 0 => LosslessInv) => QuietAgrees
  BY DEF QuietAgrees, LosslessInv, EndsShown, EndsAlone, Spared
<1>2. QED
  BY <1>1, LosslessInvariant, PTL
=============================================================================
