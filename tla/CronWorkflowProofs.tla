--------------------------- MODULE CronWorkflowProofs ---------------------------
(***************************************************************************)
(* For every set of cron workflows, templates, runs and request goroutines *)
(* and every bound: the database and Argo agree on which cron workflows    *)
(* are live once their requests are done, and runs end with their cron     *)
(* (CronInv); requests that come one at a time leave one schedule in both, *)
(* and no cron to an archived template (CronOnce).                         *)
(***************************************************************************)
EXTENDS CronWorkflow, FiniteSetTheorems, TLAPS

CronSteps == {"idle", "argo", "row", "get", "put", "find", "runs", "next", "mark", "template"}

CronRequests ==
    [op : {"idle", "create", "update", "terminate", "archive"}, step : CronSteps,
     template : CronTemplates \cup {NoTemplate}, cron : Crons \cup {NoCron}, row : Crons \cup {NoCron},
     schedule : Schedules \cup {NoSchedule}, write : Nat, todo : SUBSET (Crons \cup CronRuns)]

CronRunStates == {"None", "Calling", "Row", "Refused", "Archived"}

(* The kinds of all variables, their bounds left aside.                     *)
CronKinds ==
    /\ cronRow \in [Crons -> [state : {"None", "Live", "Archived"}, manifest : Schedules \cup {NoSchedule}]]
    /\ cronArgo \in [Crons -> [there : BOOLEAN, manifest : Schedules \cup {NoSchedule}, write : Nat]]
    /\ cronOf \in [Crons -> CronTemplates \cup {NoTemplate}]
    /\ cronTemplate \in [CronTemplates -> BOOLEAN]
    /\ cronRun \in [CronRuns -> [by : Crons \cup {NoCron}, state : CronRunStates,
                                 cron : Crons \cup {NoCron}, late : BOOLEAN]]
    /\ cronReq \in [CronHandlers -> CronRequests]
    /\ cronFaults \in Nat
    /\ cronMixed \subseteq CronTemplates

(* What a request can rely on for the cron workflow it names.               *)
CronRequestOK(h) ==
    LET r == cronReq[h] IN
    /\ r.op = "idle" => r.template = NoTemplate /\ r.step = "idle"
    /\ r.op # "idle" => r.template \in CronTemplates
    /\ r.op \in {"create", "update", "terminate"} \/ r.step = "mark" =>
         r.cron \in Crons /\ cronOf[r.cron] = r.template
    /\ r.op = "create" =>
         /\ r.step \in {"argo", "row"}
         /\ cronRow[r.cron].state = "None"
         /\ cronArgo[r.cron].there = (r.step = "row")
    /\ r.op = "update" =>
         /\ r.step \in {"get", "put", "row"}
         /\ r.row \in Crons /\ cronOf[r.row] = r.template
         /\ cronRow[r.row].state # "None"
    /\ r.op = "terminate" \/ r.step = "mark" =>
         cronRow[r.cron].state # "None" /\ ~cronArgo[r.cron].there
    /\ r.op = "terminate" =>
         /\ r.step \in {"find", "runs"}
         /\ r.step = "runs" =>
              \A i \in CronRuns : cronRun[i].state = "Row" /\ cronRun[i].cron = r.cron /\ ~cronRun[i].late
                                  => i \in r.todo
    /\ r.op = "archive" =>
         /\ r.step \in {"next", "mark", "template"}
         /\ \A c \in r.todo : c \in Crons /\ cronOf[c] = r.template /\ cronRow[c].state # "None"

(* Requests that create a cron workflow create different ones.              *)
CronApart(g, h) ==
    cronReq[g].op = "create" /\ cronReq[h].op = "create" => cronReq[g].cron # cronReq[h].cron

Creating(c) == \E h \in CronHandlers : cronReq[h].op = "create" /\ cronReq[h].step = "row" /\ cronReq[h].cron = c

Ending(c) ==
    \E h \in CronHandlers : /\ cronReq[h].op = "terminate" \/ cronReq[h].step = "mark"
                            /\ cronReq[h].cron = c

Archiving(t) ==
    \E h \in CronHandlers : /\ cronReq[h].op = "archive" /\ cronReq[h].template = t
                            /\ cronReq[h].step \in {"next", "mark"}

(* Where the row and Argo differ, a request is on its way to mend it.       *)
CronStoreOK(c) ==
    /\ cronOf[c] = NoTemplate => cronRow[c].state = "None" /\ ~cronArgo[c].there
    /\ cronRow[c].state = "Archived" => ~cronArgo[c].there
    /\ cronFaults = 0 /\ cronRow[c].state = "None" /\ cronArgo[c].there => Creating(c)
    /\ cronFaults = 0 /\ cronRow[c].state = "Live" /\ ~cronArgo[c].there => Ending(c)

(* A run that was there when its cron was listed is archived with it.       *)
CronRunOK(i) ==
    LET run == cronRun[i] IN
    /\ run.state = "Calling" => run.by \in Crons
    /\ run.state = "Row" =>
         /\ run.cron \in Crons /\ cronOf[run.cron] # NoTemplate
         /\ cronFaults = 0 /\ ~run.late /\ cronRow[run.cron].state = "Archived" => Archiving(cronOf[run.cron])

CronInv ==
    /\ CronKinds
    /\ \A h \in CronHandlers : CronRequestOK(h) /\ \A g \in CronHandlers \ {h} : CronApart(g, h)
    /\ \A c \in Crons : CronStoreOK(c)
    /\ \A i \in CronRuns : CronRunOK(i)
----------------------------------------------------------------------------
(* What the updates of a record do.                                         *)

Alike(r, q) == r.op = q.op /\ r.template = q.template /\ r.row = q.row /\ r.schedule = q.schedule

(* A request goes on to its next step.                                      *)
LEMMA RequestMoved ==
    ASSUME NEW q \in CronRequests, NEW s \in CronSteps
    PROVE  LET r == [q EXCEPT !.step = s] IN
           r \in CronRequests /\ Alike(r, q) /\ r.step = s /\ r.cron = q.cron /\ r.write = q.write /\ r.todo = q.todo
  BY DEF CronRequests, Alike

(* A request has one item less to do.                                       *)
LEMMA RequestAdvanced ==
    ASSUME NEW q \in CronRequests, NEW d \in SUBSET (Crons \cup CronRuns)
    PROVE  LET r == [q EXCEPT !.todo = d] IN
           r \in CronRequests /\ Alike(r, q) /\ r.step = q.step /\ r.cron = q.cron /\ r.write = q.write /\ r.todo = d
  BY DEF CronRequests, Alike

(* What a handler holds between requests.                                   *)
LEMMA IdleRequest == CronIdle \in CronRequests /\ CronIdle.op = "idle" /\ CronIdle.step = "idle"
                     /\ CronIdle.template = NoTemplate /\ CronIdle.todo = {}
  BY DEF CronIdle, CronRequests, CronSteps

(* The requests of the others are as they were.                             *)
Replaces(h, r) ==
    /\ r \in CronRequests
    /\ cronReq' \in [CronHandlers -> CronRequests]
    /\ cronReq'[h] = r
    /\ \A g \in CronHandlers \ {h} : cronReq'[g] = cronReq[g]

(* A step changes the request of one handler.                               *)
LEMMA RequestReplaced ==
    ASSUME CronKinds, NEW h \in CronHandlers, NEW r \in CronRequests, cronReq' = [cronReq EXCEPT ![h] = r]
    PROVE  Replaces(h, r)
  BY DEF CronKinds, Replaces

(* One entry of a function is replaced.                                     *)
LEMMA EntryReplaced ==
    ASSUME NEW S, NEW T, NEW f \in [S -> T], NEW x \in S, NEW a \in T
    PROVE  LET g == [f EXCEPT ![x] = a] IN g \in [S -> T] /\ g[x] = a /\ \A y \in S \ {x} : g[y] = f[y]
  OBVIOUS

RowKinds == [state : {"None", "Live", "Archived"}, manifest : Schedules \cup {NoSchedule}]
RunKinds == [by : Crons \cup {NoCron}, state : CronRunStates, cron : Crons \cup {NoCron}, late : BOOLEAN]

(* What becomes of a row or of a run that is archived.                      *)
LEMMA RowArchived ==
    ASSUME NEW o \in RowKinds
    PROVE  LET e == [o EXCEPT !.state = "Archived"] IN
           e \in RowKinds /\ e.state = "Archived" /\ e.manifest = o.manifest
  BY DEF RowKinds

LEMMA RunArchived ==
    ASSUME NEW o \in RunKinds
    PROVE  LET e == [o EXCEPT !.state = "Archived"] IN e \in RunKinds /\ e.state = "Archived" /\ e.cron = o.cron
  BY DEF RunKinds, CronRunStates

ArgoObjects == [there : BOOLEAN, manifest : Schedules \cup {NoSchedule}, write : Nat]

(* Argo's object of c is gone.                                              *)
GoneFromArgo(c) ==
    /\ cronArgo' \in [Crons -> [there : BOOLEAN, manifest : Schedules \cup {NoSchedule}, write : Nat]]
    /\ ~cronArgo'[c].there /\ cronArgo'[c].manifest = cronArgo[c].manifest
    /\ \A d \in Crons \ {c} : cronArgo'[d] = cronArgo[d]

(* Deleting an object in Argo touches no other.                             *)
LEMMA ArgoGone ==
    ASSUME CronKinds, NEW c \in Crons, cronArgo' = [cronArgo EXCEPT ![c].there = FALSE]
    PROVE  GoneFromArgo(c)
<1> DEFINE a == [cronArgo[c] EXCEPT !.there = FALSE]
<1>0. cronArgo \in [Crons -> ArgoObjects]
  BY DEF CronKinds, ArgoObjects
<1>1. cronArgo[c] \in ArgoObjects
  BY <1>0
<1>2. a \in ArgoObjects /\ ~a.there /\ a.manifest = cronArgo[c].manifest
  BY <1>1 DEF ArgoObjects
<1>3. cronArgo' = [cronArgo EXCEPT ![c] = a]
  OBVIOUS
<1> HIDE DEF a
<1>4. cronArgo' \in [Crons -> ArgoObjects] /\ cronArgo'[c] = a /\ \A d \in Crons \ {c} : cronArgo'[d] = cronArgo[d]
  BY <1>0, <1>2, <1>3
<1>5. QED BY <1>2, <1>4 DEF GoneFromArgo, ArgoObjects

(* CreateCronWorkflow: the cron is new, so nobody else creates it.          *)
LEMMA AskCronKeeps ==
    ASSUME CronInv, CronAssumption, NEW h \in CronHandlers, NEW c \in Crons, NEW t \in CronTemplates,
           NEW s \in Schedules, AskCron(h, c, t, s)
    PROVE  CronInv'
<1>0. CronKinds /\ CronRequestOK(h)
  BY DEF CronInv
<1> DEFINE r == [CronIdle EXCEPT !.op = "create", !.step = "argo", !.template = t, !.cron = c, !.schedule = s]
<1>a. r \in CronRequests /\ r.op = "create" /\ r.step = "argo" /\ r.template = t /\ r.cron = c
  BY DEF CronIdle, CronRequests, CronSteps
<1>b. cronReq' = [cronReq EXCEPT ![h] = r] /\ cronReq[h] = CronIdle
  BY DEF AskCron, CronStart
<1> HIDE DEF r
<1>c. Replaces(h, r)
  BY <1>0, <1>a, <1>b, RequestReplaced
<1>d. cronReq[h].op = "idle" /\ cronReq[h].step = "idle" /\ cronReq[h].template = NoTemplate /\ NoTemplate \notin CronTemplates
  BY <1>b, IdleRequest DEF CronAssumption
<1>e. cronMixed' \subseteq CronTemplates
  BY <1>0, <1>a DEF AskCron, CronStart, CronQuiet, CronKinds
<1>f. /\ cronOf[c] = NoTemplate /\ cronTemplate[t] /\ cronOf' = [cronOf EXCEPT ![c] = t]
      /\ UNCHANGED <<cronRow, cronArgo, cronTemplate, cronRun, cronFaults>>
  BY DEF AskCron
<1>g. \A x \in Crons : CronStoreOK(x)
  BY DEF CronInv
<1>1. CronKinds'
  BY <1>0, <1>a, <1>c, <1>d, <1>e, <1>f DEF CronKinds, Replaces
<1>2. ASSUME NEW g \in CronHandlers PROVE CronRequestOK(g)'
  <2>0. CronRequestOK(g) /\ (g # h => CronApart(g, h) /\ CronApart(h, g))
    BY DEF CronInv
  <2>1. CASE g = h
    BY <1>0, <2>0, <2>1, <1>a, <1>c, <1>d, <1>e, <1>f, <1>g, SMTT(30)
       DEF CronRequestOK, Replaces, CronKinds, CronStoreOK
  <2>2. CASE g # h
    BY <1>0, <2>0, <2>2, <1>a, <1>c, <1>d, <1>e, <1>f, <1>g, SMTT(30)
       DEF CronRequestOK, Replaces, CronApart, CronKinds, CronStoreOK
  <2>3. QED BY <2>1, <2>2
<1>3. \A g \in CronHandlers : \A k \in CronHandlers \ {g} : CronApart(g, k)'
  BY SMTT(60) DEF AskCron, CronStart, CronIdle, CronQuiet, CronInv, CronKinds, CronRequests, CronSteps,
     CronRunStates, CronAssumption, CronRequestOK, CronApart
<1>4. \A x \in Crons : CronStoreOK(x)'
  BY SMTT(60) DEF AskCron, CronStart, CronIdle, CronQuiet, CronInv, CronKinds, CronRequests, CronSteps,
     CronRunStates, CronAssumption, CronRequestOK, CronStoreOK, Creating, Ending
<1>5. \A i \in CronRuns : CronRunOK(i)'
  BY SMTT(60) DEF AskCron, CronStart, CronIdle, CronQuiet, CronInv, CronKinds, CronRequests, CronSteps,
     CronRunStates, CronAssumption, CronRequestOK, CronRunOK, Archiving
<1>6. QED BY <1>1, <1>2, <1>3, <1>4, <1>5 DEF CronInv

(* From here Argo has what the row has not, and the request is the one      *)
(* that will insert it.                                                     *)
LEMMA CreateArgoCronKeeps ==
    ASSUME CronInv, CronAssumption, NEW h \in CronHandlers, CreateArgoCron(h)
    PROVE  CronInv'
<1>0. CronKinds /\ CronRequestOK(h)
  BY DEF CronInv
<1> DEFINE r == [cronReq[h] EXCEPT !.step = "row"]
<1>a. r \in CronRequests /\ Alike(r, cronReq[h]) /\ r.step = "row" /\ r.cron = cronReq[h].cron /\ r.todo = cronReq[h].todo
  <2>1. cronReq[h] \in CronRequests
    BY <1>0 DEF CronKinds
  <2>2. "row" \in CronSteps
    BY DEF CronSteps
  <2>3. QED BY <2>1, <2>2, RequestMoved
<1>b. cronReq' = [cronReq EXCEPT ![h] = r]
  BY DEF CreateArgoCron, CronMove
<1> HIDE DEF r
<1>c. Replaces(h, r)
  BY <1>0, <1>a, <1>b, RequestReplaced
<1>d. cronReq[h].op = "create" /\ cronReq[h].step = "argo"
  BY DEF CreateArgoCron, CronAt
<1>f. UNCHANGED <<cronRow, cronOf, cronTemplate, cronRun, cronFaults, cronMixed>>
  BY DEF CreateArgoCron
<1>g. /\ cronReq[h].cron \in Crons
      /\ cronArgo' \in [Crons -> [there : BOOLEAN, manifest : Schedules \cup {NoSchedule}, write : Nat]]
      /\ cronArgo'[cronReq[h].cron].there
      /\ \A x \in Crons : x # cronReq[h].cron => cronArgo'[x] = cronArgo[x]
  <2> DEFINE a == [there |-> TRUE, manifest |-> cronReq[h].schedule, write |-> 0]
  <2>1. cronReq[h].cron \in Crons /\ cronReq[h].schedule \in Schedules \cup {NoSchedule}
    BY <1>0, <1>d DEF CronRequestOK, CronKinds, CronRequests
  <2>2. a \in [there : BOOLEAN, manifest : Schedules \cup {NoSchedule}, write : Nat] /\ a.there
    BY <2>1
  <2>3. cronArgo' = [cronArgo EXCEPT ![cronReq[h].cron] = a]
    BY DEF CreateArgoCron
  <2> HIDE DEF a
  <2>4. QED BY <1>0, <2>1, <2>2, <2>3 DEF CronKinds
<1>1. CronKinds'
  BY <1>0, <1>a, <1>c, <1>d, <1>f, <1>g DEF CronKinds, Replaces
<1>2. ASSUME NEW g \in CronHandlers PROVE CronRequestOK(g)'
  <2>0. CronRequestOK(g) /\ (g # h => CronApart(g, h) /\ CronApart(h, g))
    BY DEF CronInv
  <2>1. CASE g = h
    BY <1>0, <2>0, <2>1, <1>a, <1>c, <1>d, <1>f, <1>g, SMTT(30) DEF CronRequestOK, Replaces, Alike
  <2>2. CASE g # h
    BY <1>0, <2>0, <2>2, <1>c, <1>d, <1>f, <1>g, SMTT(30) DEF CronRequestOK, Replaces, CronApart, CronKinds
  <2>3. QED BY <2>1, <2>2
<1>3. \A g \in CronHandlers : \A k \in CronHandlers \ {g} : CronApart(g, k)'
  BY SMTT(60) DEF CreateArgoCron, CronAt, CronMove, CronInv, CronKinds, CronRequests, CronSteps,
     CronRunStates, CronAssumption, CronRequestOK, CronApart
<1>4. \A x \in Crons : CronStoreOK(x)'
  BY SMTT(60) DEF CreateArgoCron, CronAt, CronMove, CronInv, CronKinds, CronRequests, CronSteps,
     CronRunStates, CronAssumption, CronRequestOK, CronStoreOK, Creating, Ending
<1>5. ASSUME NEW i \in CronRuns PROVE CronRunOK(i)'
  <2>1. CronRunOK(i)
    BY DEF CronInv
  <2>2. ASSUME NEW u \in CronTemplates, Archiving(u) PROVE Archiving(u)'
    BY <1>0, <2>2, <1>c, <1>d, SMTT(30) DEF Archiving, Replaces
  <2>3. QED BY <1>0, <2>1, <2>2, <1>f, SMTT(30) DEF CronKinds, CronRunOK
<1>6. QED BY <1>1, <1>2, <1>3, <1>4, <1>5 DEF CronInv

(* The row catches up with Argo.                                            *)
LEMMA InsertCronKeeps ==
    ASSUME CronInv, CronAssumption, NEW h \in CronHandlers, InsertCron(h)
    PROVE  CronInv'
<1>0. CronKinds /\ CronRequestOK(h)
  BY DEF CronInv
<1>1. CronKinds'
  BY SMTT(60) DEF InsertCron, CronAt, CronDone, CronIdle, CronInv, CronKinds, CronRequests, CronSteps,
     CronRunStates, CronAssumption, CronRequestOK
<1>2. \A g \in CronHandlers : CronRequestOK(g)'
  BY SMTT(60) DEF InsertCron, CronAt, CronDone, CronIdle, CronInv, CronKinds, CronRequests, CronSteps,
     CronRunStates, CronAssumption, CronRequestOK, CronApart
<1>3. \A g \in CronHandlers : \A k \in CronHandlers \ {g} : CronApart(g, k)'
  BY SMTT(60) DEF InsertCron, CronAt, CronDone, CronIdle, CronInv, CronKinds, CronRequests, CronSteps,
     CronRunStates, CronAssumption, CronRequestOK, CronApart
<1>4. \A x \in Crons : CronStoreOK(x)'
  BY SMTT(60) DEF InsertCron, CronAt, CronDone, CronIdle, CronInv, CronKinds, CronRequests, CronSteps,
     CronRunStates, CronAssumption, CronRequestOK, CronStoreOK, Creating, Ending
<1>f. cronRow' = [cronRow EXCEPT ![cronReq[h].cron] = [state |-> "Live", manifest |-> cronReq[h].schedule]]
      /\ UNCHANGED <<cronOf, cronRun, cronFaults>>
  BY DEF InsertCron
<1>c. Replaces(h, CronIdle) /\ cronReq[h].op = "create"
  BY <1>0, IdleRequest, RequestReplaced DEF InsertCron, CronDone, CronAt
<1>5. ASSUME NEW i \in CronRuns PROVE CronRunOK(i)'
  <2>1. CronRunOK(i)
    BY DEF CronInv
  <2>2. ASSUME NEW u \in CronTemplates, Archiving(u) PROVE Archiving(u)'
    BY <1>0, <2>2, <1>c, <1>f, SMTT(30) DEF Archiving, Replaces, CronRequestOK
  <2>3. QED BY <1>0, <2>1, <2>2, <1>c, <1>f, SMTT(30) DEF CronKinds, CronRunOK, CronRequestOK
<1>6. QED BY <1>1, <1>2, <1>3, <1>4, <1>5 DEF CronInv

(* UpdateCronWorkflow: the row it finds exists and is of the template.      *)
LEMMA FindCronRowKeeps ==
    ASSUME CronInv, CronAssumption, NEW h \in CronHandlers, NEW c \in Crons, NEW s \in Schedules,
           FindCronRow(h, c, s)
    PROVE  CronInv'
<1>0. CronKinds /\ CronRequestOK(h)
  BY DEF CronInv
<1>z. PICK d \in LiveCrons(cronOf[c]) :
        CronStart(h, [CronIdle EXCEPT !.op = "update", !.step = "get", !.template = cronOf[c],
                                      !.cron = c, !.row = d, !.schedule = s])
  BY DEF FindCronRow
<1>y. /\ d \in Crons /\ cronOf[d] = cronOf[c] /\ cronRow[d].state = "Live" /\ cronRow[c].state # "None"
      /\ cronOf[c] \in CronTemplates
  BY <1>0, <1>z, SMTT(20) DEF FindCronRow, LiveCrons, CronInv, CronStoreOK, CronKinds
<1> DEFINE r == [CronIdle EXCEPT !.op = "update", !.step = "get", !.template = cronOf[c], !.cron = c, !.row = d, !.schedule = s]
<1>a. r \in CronRequests /\ r.op = "update" /\ r.step = "get" /\ r.template = cronOf[c] /\ r.cron = c /\ r.row = d
  <2> DEFINE k == cronOf[c]
  <2>1. k \in CronTemplates
    BY <1>y
  <2> HIDE DEF k
  <2>2. QED BY <1>y, <2>1 DEF CronIdle, CronRequests, CronSteps
<1>b. cronReq' = [cronReq EXCEPT ![h] = r] /\ cronReq[h] = CronIdle
  BY <1>z DEF CronStart
<1> HIDE DEF r
<1>c. Replaces(h, r)
  BY <1>0, <1>a, <1>b, RequestReplaced
<1>d. cronReq[h].op = "idle" /\ cronReq[h].step = "idle" /\ cronReq[h].template = NoTemplate /\ NoTemplate \notin CronTemplates
  BY <1>b, IdleRequest DEF CronAssumption
<1>e. /\ cronMixed' \subseteq CronTemplates
      /\ \A u \in CronTemplates \ cronMixed' :
           u \notin cronMixed /\ (u = r.template => \A g \in CronHandlers : cronReq[g].template # u)
  BY <1>0, <1>y, <1>z, <1>a, SMTT(20) DEF CronStart, CronQuiet, CronKinds
<1>f. UNCHANGED <<cronRow, cronArgo, cronOf, cronTemplate, cronRun, cronFaults>>
  BY DEF FindCronRow
<1>1. CronKinds'
  BY <1>0, <1>a, <1>c, <1>d, <1>e, <1>f DEF CronKinds, Replaces
<1>2. ASSUME NEW g \in CronHandlers PROVE CronRequestOK(g)'
  <2>0. CronRequestOK(g) /\ (g # h => CronApart(g, h) /\ CronApart(h, g))
    BY DEF CronInv
  <2>1. CASE g = h
    BY <1>0, <2>0, <2>1, <1>a, <1>c, <1>d, <1>e, <1>f, <1>y, SMTT(30) DEF CronRequestOK, Replaces, CronKinds
  <2>2. CASE g # h
    BY <1>0, <2>0, <2>2, <1>a, <1>c, <1>d, <1>e, <1>f, <1>y, SMTT(30)
       DEF CronRequestOK, Replaces, CronApart, CronKinds
  <2>3. QED BY <2>1, <2>2
<1>3. \A g \in CronHandlers : \A k \in CronHandlers \ {g} : CronApart(g, k)'
  BY SMTT(60) DEF FindCronRow, CronStart, CronIdle, CronQuiet, LiveCrons, CronInv, CronKinds, CronRequests,
     CronSteps, CronRunStates, CronAssumption, CronRequestOK, CronApart
<1>4. \A x \in Crons : CronStoreOK(x)'
  BY SMTT(60) DEF FindCronRow, CronStart, CronIdle, CronQuiet, LiveCrons, CronInv, CronKinds, CronRequests,
     CronSteps, CronRunStates, CronAssumption, CronRequestOK, CronStoreOK, Creating, Ending
<1>5. \A i \in CronRuns : CronRunOK(i)'
  BY <1>a, <1>c, <1>d, <1>f DEF CronInv, CronRunOK, Archiving, Replaces
<1>6. QED BY <1>1, <1>2, <1>3, <1>4, <1>5 DEF CronInv

(* A request that goes on has read Argo only; one that gives up leaves      *)
(* nothing behind.                                                          *)
LEMMA GetArgoCronKeeps ==
    ASSUME CronInv, CronAssumption, NEW h \in CronHandlers, GetArgoCron(h)
    PROVE  CronInv'
<1>0. CronKinds /\ CronRequestOK(h)
  BY DEF CronInv
<1>a. PICK r \in CronRequests :
        /\ cronReq' = [cronReq EXCEPT ![h] = r]
        /\ \/ Alike(r, cronReq[h]) /\ r.cron = cronReq[h].cron /\ r.step = "put"
           \/ r = CronIdle /\ TRUE
  <2> DEFINE o == cronReq[h]
             w == cronArgo[cronReq[h].cron].write
             q == [o EXCEPT !.step = "put", !.write = w]
  <2>1. q \in CronRequests /\ Alike(q, o) /\ q.cron = o.cron /\ q.step = "put"
    <3>1. o \in CronRequests /\ w \in Nat
      BY <1>0 DEF CronKinds, CronRequestOK, GetArgoCron, CronAt
    <3> HIDE DEF o, w
    <3>2. QED BY <3>1 DEF CronRequests, CronSteps, Alike
  <2>2. cronReq' = [cronReq EXCEPT ![h] = q] \/ cronReq' = [cronReq EXCEPT ![h] = CronIdle]
    BY DEF GetArgoCron, CronDone
  <2> HIDE DEF q
  <2>3. QED BY <2>1, <2>2, IdleRequest
<1>c. Replaces(h, r)
  BY <1>0, <1>a, RequestReplaced
<1>d. cronReq[h].op = "update" /\ cronReq[h].step = "get"
  BY DEF GetArgoCron, CronAt
<1>e. r = CronIdle => r.op = "idle" /\ r.step = "idle" /\ r.template = NoTemplate /\ r.template \notin CronTemplates
  BY IdleRequest DEF CronAssumption
<1>f. UNCHANGED <<cronRow, cronArgo, cronOf, cronTemplate, cronRun, cronFaults, cronMixed>>
  BY DEF GetArgoCron
<1>1. CronKinds'
  BY <1>0, <1>a, <1>c, <1>d, <1>e, <1>f DEF CronKinds, Replaces
<1>2. \A g \in CronHandlers : CronRequestOK(g)'
  BY SMTT(60) DEF GetArgoCron, CronAt, CronDone, CronIdle, CronInv, CronKinds, CronRequests, CronSteps,
     CronRunStates, CronAssumption, CronRequestOK, CronApart
<1>3. \A g \in CronHandlers : \A k \in CronHandlers \ {g} : CronApart(g, k)'
  BY SMTT(60) DEF GetArgoCron, CronAt, CronDone, CronIdle, CronInv, CronKinds, CronRequests, CronSteps,
     CronRunStates, CronAssumption, CronRequestOK, CronApart
<1>4. ASSUME NEW x \in Crons PROVE CronStoreOK(x)'
  <2>1. CronStoreOK(x)
    BY DEF CronInv
  <2>2. Creating(x) => Creating(x)'
    BY <1>0, <1>a, <1>c, <1>d, <1>e, <1>f, SMTT(30) DEF Creating, Replaces
  <2>3. Ending(x) => Ending(x)' \/ cronRow[x].state # "Live"
    BY <1>0, <1>a, <1>c, <1>d, <1>e, <1>f, SMTT(30) DEF Ending, Replaces, CronRequestOK, CronSteps
  <2>4. QED BY <1>0, <2>1, <2>2, <2>3, <1>a, <1>c, <1>d, <1>e, <1>f, SMTT(30)
          DEF CronKinds, CronStoreOK, Alike
<1>5. \A i \in CronRuns : CronRunOK(i)'
  BY <1>c, <1>d, <1>f DEF CronInv, CronRunOK, Archiving, Replaces
<1>6. QED BY <1>1, <1>2, <1>3, <1>4, <1>5 DEF CronInv

(* An Update never brings an object back, since it is refused if the        *)
(* object is gone.                                                          *)
LEMMA PutArgoCronKeeps ==
    ASSUME CronInv, CronAssumption, NEW h \in CronHandlers, PutArgoCron(h)
    PROVE  CronInv'
<1>0. CronKinds /\ CronRequestOK(h)
  BY DEF CronInv
<1>a. PICK r \in CronRequests :
        /\ cronReq' = [cronReq EXCEPT ![h] = r]
        /\ \/ Alike(r, cronReq[h]) /\ r.cron = cronReq[h].cron /\ r.step = "row"
              /\ cronArgo[cronReq[h].cron].there
              /\ cronArgo' = [cronArgo EXCEPT ![cronReq[h].cron] =
                                 [there |-> TRUE, manifest |-> cronReq[h].schedule, write |-> cronReq[h].write + 1]]
           \/ r = CronIdle /\ cronArgo' = cronArgo
  <2> DEFINE q == [cronReq[h] EXCEPT !.step = "row"]
  <2>1. q \in CronRequests /\ Alike(q, cronReq[h]) /\ q.cron = cronReq[h].cron /\ q.step = "row"
    <3>1. cronReq[h] \in CronRequests
      BY <1>0 DEF CronKinds
    <3>2. "row" \in CronSteps
      BY DEF CronSteps
    <3>3. QED BY <3>1, <3>2, RequestMoved
  <2>2. \/ /\ cronReq' = [cronReq EXCEPT ![h] = q]
           /\ cronArgo[cronReq[h].cron].there
           /\ cronArgo' = [cronArgo EXCEPT ![cronReq[h].cron] =
                              [there |-> TRUE, manifest |-> cronReq[h].schedule, write |-> cronReq[h].write + 1]]
        \/ cronReq' = [cronReq EXCEPT ![h] = CronIdle] /\ cronArgo' = cronArgo
    BY DEF PutArgoCron, CronDone, CronMove
  <2> HIDE DEF q
  <2>3. QED BY <2>1, <2>2, IdleRequest
<1>c. Replaces(h, r)
  BY <1>0, <1>a, RequestReplaced
<1>d. cronReq[h].op = "update" /\ cronReq[h].step = "put"
  BY DEF PutArgoCron, CronAt
<1>e. r = CronIdle => r.op = "idle" /\ r.step = "idle" /\ r.template = NoTemplate /\ r.template \notin CronTemplates
  BY IdleRequest DEF CronAssumption
<1>f. UNCHANGED <<cronRow, cronOf, cronTemplate, cronRun, cronFaults, cronMixed>>
  BY DEF PutArgoCron
<1>g. /\ cronArgo' \in [Crons -> [there : BOOLEAN, manifest : Schedules \cup {NoSchedule}, write : Nat]]
      /\ \A x \in Crons : cronArgo'[x].there = cronArgo[x].there
      /\ \A x \in Crons : x # cronReq[h].cron => cronArgo'[x] = cronArgo[x]
      /\ r.step = "row" => cronArgo'[cronReq[h].cron].manifest = cronReq[h].schedule
      /\ r = CronIdle => cronArgo' = cronArgo
  <2> DEFINE c == cronReq[h].cron
             a == [there |-> TRUE, manifest |-> cronReq[h].schedule, write |-> cronReq[h].write + 1]
  <2>1. c \in Crons /\ cronReq[h].schedule \in Schedules \cup {NoSchedule} /\ cronReq[h].write \in Nat
    BY <1>0, <1>d DEF CronRequestOK, CronKinds, CronRequests
  <2>2. /\ a \in [there : BOOLEAN, manifest : Schedules \cup {NoSchedule}, write : Nat]
        /\ a.there /\ a.manifest = cronReq[h].schedule
    BY <2>1
  <2>4. CASE cronArgo[c].there /\ cronArgo' = [cronArgo EXCEPT ![c] = a] /\ r.step = "row"
    <3> HIDE DEF a
    <3>1. QED BY <1>0, <1>e, <2>1, <2>2, <2>4 DEF CronKinds
  <2>5. CASE cronArgo' = cronArgo /\ r = CronIdle
    BY <1>0, <1>e, <2>5 DEF CronKinds
  <2>6. QED BY <1>a, <2>4, <2>5
<1>h. (Alike(r, cronReq[h]) /\ r.cron = cronReq[h].cron /\ r.step = "row") \/ r = CronIdle
  BY <1>a
<1>1. CronKinds'
  BY <1>0, <1>c, <1>d, <1>e, <1>f, <1>g, <1>h DEF CronKinds, Replaces
<1>2. ASSUME NEW g \in CronHandlers PROVE CronRequestOK(g)'
  <2>0. CronRequestOK(g)
    BY DEF CronInv
  <2>1. CASE g = h
    BY <1>0, <2>0, <2>1, <1>c, <1>d, <1>e, <1>f, <1>h, SMTT(30) DEF CronRequestOK, Replaces, Alike
  <2>2. CASE g # h
    BY <1>0, <2>0, <2>2, <1>c, <1>f, <1>g, SMTT(30) DEF CronRequestOK, Replaces, CronKinds
  <2>3. QED BY <2>1, <2>2
<1>3. \A g \in CronHandlers : \A k \in CronHandlers \ {g} : CronApart(g, k)'
  BY SMTT(60) DEF PutArgoCron, CronAt, CronMove, CronDone, CronIdle, CronInv, CronKinds, CronRequests,
     CronSteps, CronRunStates, CronAssumption, CronRequestOK, CronApart
<1>4. ASSUME NEW x \in Crons PROVE CronStoreOK(x)'
  <2>1. CronStoreOK(x)
    BY DEF CronInv
  <2>2. Creating(x) => Creating(x)'
    BY <1>0, <1>c, <1>d, <1>e, <1>f, <1>g, <1>h, SMTT(30) DEF Creating, Replaces
  <2>3. Ending(x) => Ending(x)' \/ cronRow[x].state # "Live"
    BY <1>0, <1>c, <1>d, <1>e, <1>f, <1>g, <1>h, SMTT(30) DEF Ending, Replaces, CronRequestOK, CronSteps
  <2>4. QED BY <1>0, <2>1, <2>2, <2>3, <1>c, <1>d, <1>e, <1>f, <1>g, <1>h, SMTT(30)
          DEF CronKinds, CronStoreOK, Alike
<1>5. ASSUME NEW i \in CronRuns PROVE CronRunOK(i)'
  <2>1. CronRunOK(i)
    BY DEF CronInv
  <2>2. ASSUME NEW u \in CronTemplates, Archiving(u) PROVE Archiving(u)'
    BY <1>0, <2>2, <1>c, <1>d, <1>e, <1>f, <1>g, <1>h, SMTT(30) DEF Archiving, Replaces, Alike
  <2>3. QED BY <1>0, <2>1, <2>2, <1>c, <1>d, <1>e, <1>f, <1>g, <1>h, SMTT(30)
          DEF CronKinds, CronRunOK, Alike
<1>6. QED BY <1>1, <1>2, <1>3, <1>4, <1>5 DEF CronInv

(* The manifest says nothing of who is live.                                *)
LEMMA WriteCronRowKeeps ==
    ASSUME CronInv, CronAssumption, NEW h \in CronHandlers, WriteCronRow(h)
    PROVE  CronInv'
<1>0. CronKinds /\ CronRequestOK(h)
  BY DEF CronInv
<1>1. CronKinds'
  BY SMTT(60) DEF WriteCronRow, CronAt, CronDone, CronIdle, CronInv, CronKinds, CronRequests, CronSteps,
     CronRunStates, CronAssumption, CronRequestOK
<1>2. \A g \in CronHandlers : CronRequestOK(g)'
  BY SMTT(60) DEF WriteCronRow, CronAt, CronDone, CronIdle, CronInv, CronKinds, CronRequests, CronSteps,
     CronRunStates, CronAssumption, CronRequestOK, CronApart
<1>3. \A g \in CronHandlers : \A k \in CronHandlers \ {g} : CronApart(g, k)'
  BY SMTT(60) DEF WriteCronRow, CronAt, CronDone, CronIdle, CronInv, CronKinds, CronRequests, CronSteps,
     CronRunStates, CronAssumption, CronRequestOK, CronApart
<1>4. \A x \in Crons : CronStoreOK(x)'
  BY SMTT(60) DEF WriteCronRow, CronAt, CronDone, CronIdle, CronInv, CronKinds, CronRequests, CronSteps,
     CronRunStates, CronAssumption, CronRequestOK, CronStoreOK, Creating, Ending
<1>5. \A i \in CronRuns : CronRunOK(i)'
  BY SMTT(60) DEF WriteCronRow, CronAt, CronDone, CronIdle, CronInv, CronKinds, CronRequests, CronSteps,
     CronRunStates, CronAssumption, CronRequestOK, CronRunOK, Archiving
<1>6. QED BY <1>1, <1>2, <1>3, <1>4, <1>5 DEF CronInv

(* TerminateCronWorkflow: from here the row is live without Argo, and the   *)
(* request will end it.                                                     *)
LEMMA DeleteCronKeeps ==
    ASSUME CronInv, CronAssumption, NEW h \in CronHandlers, NEW c \in Crons, DeleteCron(h, c)
    PROVE  CronInv'
<1>0. CronKinds /\ CronRequestOK(h)
  BY DEF CronInv
<1>y. cronOf[c] \in CronTemplates /\ cronRow[c].state # "None"
  BY <1>0, SMTT(20) DEF DeleteCron, CronInv, CronStoreOK, CronKinds
<1> DEFINE r == [CronIdle EXCEPT !.op = "terminate", !.step = "find", !.template = cronOf[c], !.cron = c]
<1>a. r \in CronRequests /\ r.op = "terminate" /\ r.step = "find" /\ r.template = cronOf[c] /\ r.cron = c
  <2> DEFINE k == cronOf[c]
  <2>1. k \in CronTemplates
    BY <1>y
  <2> HIDE DEF k
  <2>2. QED BY <1>y, <2>1 DEF CronIdle, CronRequests, CronSteps
<1>b. cronReq' = [cronReq EXCEPT ![h] = r] /\ cronReq[h] = CronIdle
  BY DEF DeleteCron, CronStart
<1> HIDE DEF r
<1>c. Replaces(h, r)
  BY <1>0, <1>a, <1>b, RequestReplaced
<1>d. cronReq[h].op = "idle" /\ cronReq[h].step = "idle" /\ cronReq[h].template = NoTemplate /\ NoTemplate \notin CronTemplates
  BY <1>b, IdleRequest DEF CronAssumption
<1>e. /\ cronMixed' \subseteq CronTemplates
      /\ \A u \in CronTemplates \ cronMixed' :
           u \notin cronMixed /\ (u = r.template => \A g \in CronHandlers : cronReq[g].template # u)
  BY <1>0, <1>y, <1>a, SMTT(20) DEF DeleteCron, CronStart, CronQuiet, CronKinds
<1>f. UNCHANGED <<cronRow, cronOf, cronTemplate, cronRun, cronFaults>>
  BY DEF DeleteCron
<1>g. GoneFromArgo(c)
  BY <1>0, ArgoGone DEF DeleteCron
<1>1. CronKinds'
  BY <1>0, <1>a, <1>c, <1>d, <1>e, <1>f, <1>g DEF CronKinds, Replaces, GoneFromArgo
<1>2. ASSUME NEW g \in CronHandlers PROVE CronRequestOK(g)'
  <2>0. CronRequestOK(g) /\ (g # h => CronApart(g, h) /\ CronApart(h, g))
    BY DEF CronInv
  <2>1. CASE g = h
    BY <1>0, <2>0, <2>1, <1>a, <1>c, <1>d, <1>e, <1>f, <1>g, <1>y, SMTT(30)
       DEF CronRequestOK, Replaces, CronKinds, GoneFromArgo
  <2>2. CASE g # h
    <3>1. cronReq'[g] = cronReq[g]
      BY <2>2, <1>c DEF Replaces
    <3>2. cronReq[g].op = "create" => cronReq[g].cron \in Crons /\ cronReq[g].cron # c
      BY <2>0, <1>y DEF CronRequestOK
    <3>3. cronReq[g].op = "terminate" \/ cronReq[g].step = "mark" => ~cronArgo'[cronReq[g].cron].there
      BY <2>0, <1>g DEF CronRequestOK, GoneFromArgo
    <3>4. QED BY <2>0, <1>f, <1>g, <3>1, <3>2, <3>3 DEF CronRequestOK, GoneFromArgo
  <2>3. QED BY <2>1, <2>2
<1>3. \A g \in CronHandlers : \A k \in CronHandlers \ {g} : CronApart(g, k)'
  BY SMTT(60) DEF DeleteCron, CronStart, CronIdle, CronQuiet, CronInv, CronKinds, CronRequests, CronSteps,
     CronRunStates, CronAssumption, CronRequestOK, CronApart
<1>4. \A x \in Crons : CronStoreOK(x)'
  BY SMTT(60) DEF DeleteCron, CronStart, CronIdle, CronQuiet, CronInv, CronKinds, CronRequests, CronSteps,
     CronRunStates, CronAssumption, CronRequestOK, CronStoreOK, Creating, Ending
<1>5. \A i \in CronRuns : CronRunOK(i)'
  BY SMTT(60) DEF DeleteCron, CronStart, CronIdle, CronQuiet, CronInv, CronKinds, CronRequests, CronSteps,
     CronRunStates, CronAssumption, CronRequestOK, CronRunOK, Archiving
<1>6. QED BY <1>1, <1>2, <1>3, <1>4, <1>5 DEF CronInv

(* Either the row is live and its runs are listed, or it has ended already. *)
LEMMA FindRunsKeeps ==
    ASSUME CronInv, CronAssumption, NEW h \in CronHandlers, FindRuns(h)
    PROVE  CronInv'
<1>0. CronKinds /\ CronRequestOK(h)
  BY DEF CronInv
<1>a. PICK r \in CronRequests :
        /\ cronReq' = [cronReq EXCEPT ![h] = r]
        /\ \/ Alike(r, cronReq[h]) /\ r.cron = cronReq[h].cron /\ r.step = "runs"
           \/ r = CronIdle /\ cronRow[cronReq[h].cron].state # "Live"
  <2> DEFINE o == cronReq[h]
             d == RunsOf(cronReq[h].cron)
             q == [o EXCEPT !.step = "runs", !.todo = d]
  <2>1. q \in CronRequests /\ Alike(q, o) /\ q.cron = o.cron /\ q.step = "runs"
    <3>1. o \in CronRequests /\ d \in SUBSET (Crons \cup CronRuns)
      BY <1>0 DEF CronKinds, RunsOf
    <3> HIDE DEF o, d
    <3>2. QED BY <3>1 DEF CronRequests, CronSteps, Alike
  <2>2. \/ cronReq' = [cronReq EXCEPT ![h] = q]
        \/ cronReq' = [cronReq EXCEPT ![h] = CronIdle] /\ cronRow[cronReq[h].cron].state # "Live"
    BY DEF FindRuns, CronDone
  <2> HIDE DEF q
  <2>3. QED BY <2>1, <2>2, IdleRequest
<1>c. Replaces(h, r)
  BY <1>0, <1>a, RequestReplaced
<1>d. cronReq[h].op = "terminate" /\ cronReq[h].step = "find"
  BY DEF FindRuns, CronAt
<1>e. r = CronIdle => r.op = "idle" /\ r.step = "idle" /\ r.template = NoTemplate /\ r.template \notin CronTemplates
  BY IdleRequest DEF CronAssumption
<1>f. UNCHANGED <<cronRow, cronArgo, cronOf, cronTemplate, cronRun, cronFaults, cronMixed>>
  BY DEF FindRuns
<1>1. CronKinds'
  BY <1>0, <1>a, <1>c, <1>d, <1>e, <1>f DEF CronKinds, Replaces
<1>2. \A g \in CronHandlers : CronRequestOK(g)'
  BY SMTT(60) DEF FindRuns, CronAt, CronDone, CronIdle, RunsOf, CronInv, CronKinds, CronRequests,
     CronSteps, CronRunStates, CronAssumption, CronRequestOK, CronApart
<1>3. \A g \in CronHandlers : \A k \in CronHandlers \ {g} : CronApart(g, k)'
  BY SMTT(60) DEF FindRuns, CronAt, CronDone, CronIdle, RunsOf, CronInv, CronKinds, CronRequests,
     CronSteps, CronRunStates, CronAssumption, CronRequestOK, CronApart
<1>4. ASSUME NEW x \in Crons PROVE CronStoreOK(x)'
  <2>1. CronStoreOK(x)
    BY DEF CronInv
  <2>2. Creating(x) => Creating(x)'
    BY <1>0, <1>a, <1>c, <1>d, <1>e, <1>f, SMTT(30) DEF Creating, Replaces
  <2>3. Ending(x) => Ending(x)' \/ cronRow[x].state # "Live"
    BY <1>0, <1>a, <1>c, <1>d, <1>e, <1>f, SMTT(30) DEF Ending, Replaces, CronRequestOK, CronSteps, Alike
  <2>4. QED BY <1>0, <2>1, <2>2, <2>3, <1>a, <1>c, <1>d, <1>e, <1>f, SMTT(30)
          DEF CronKinds, CronStoreOK, Alike
<1>5. ASSUME NEW i \in CronRuns PROVE CronRunOK(i)'
  <2>1. CronRunOK(i)
    BY DEF CronInv
  <2>2. ASSUME NEW u \in CronTemplates, Archiving(u) PROVE Archiving(u)'
    BY <1>0, <2>2, <1>a, <1>c, <1>d, <1>e, <1>f, SMTT(30) DEF Archiving, Replaces, Alike
  <2>3. QED BY <1>0, <2>1, <2>2, <1>a, <1>c, <1>d, <1>e, <1>f, SMTT(30) DEF CronKinds, CronRunOK, Alike
<1>6. QED BY <1>1, <1>2, <1>3, <1>4, <1>5 DEF CronInv

(* One listed run is archived.                                              *)
LEMMA ArchiveRunKeeps ==
    ASSUME CronInv, CronAssumption, NEW h \in CronHandlers, ArchiveRun(h)
    PROVE  CronInv'
<1>0. CronKinds /\ CronRequestOK(h)
  BY DEF CronInv
<1>z. PICK i \in cronReq[h].todo :
        /\ cronRun' = [cronRun EXCEPT ![i].state = "Archived"]
        /\ cronReq' = [cronReq EXCEPT ![h].todo = @ \ {i}]
  BY DEF ArchiveRun
<1> DEFINE r == [cronReq[h] EXCEPT !.todo = cronReq[h].todo \ {i}]
<1>a. r \in CronRequests /\ Alike(r, cronReq[h]) /\ r.step = cronReq[h].step /\ r.cron = cronReq[h].cron
  <2>1. cronReq[h] \in CronRequests /\ cronReq[h].todo \ {i} \in SUBSET (Crons \cup CronRuns)
    BY <1>0 DEF CronKinds, CronRequests
  <2>2. QED BY <2>1, RequestAdvanced
<1>b. cronReq' = [cronReq EXCEPT ![h] = r]
  BY <1>z
<1> HIDE DEF r
<1>c. Replaces(h, r)
  BY <1>0, <1>a, <1>b, RequestReplaced
<1>d. cronReq[h].op = "terminate" /\ cronReq[h].step = "runs"
  BY DEF ArchiveRun, CronAt
<1>f. UNCHANGED <<cronRow, cronArgo, cronOf, cronTemplate, cronFaults, cronMixed>>
  BY DEF ArchiveRun
<1>g. cronRun' \in [CronRuns -> [by : Crons \cup {NoCron}, state : CronRunStates, cron : Crons \cup {NoCron}, late : BOOLEAN]]
  <2> DEFINE n == [cronRun[i] EXCEPT !.state = "Archived"]
  <2>1. i \in CronRuns => n \in RunKinds
    <3>1. i \in CronRuns => cronRun[i] \in RunKinds
      BY <1>0 DEF CronKinds, RunKinds
    <3>2. QED BY <3>1, RunArchived
  <2>2. cronRun' = [cronRun EXCEPT ![i] = n]
    BY <1>z
  <2> HIDE DEF n
  <2>3. QED BY <1>0, <2>1, <2>2 DEF CronKinds, RunKinds
<1>1. CronKinds'
  BY <1>0, <1>a, <1>c, <1>d, <1>f, <1>g DEF CronKinds, Replaces
<1>2. \A g \in CronHandlers : CronRequestOK(g)'
  BY SMTT(60) DEF ArchiveRun, CronAt, CronInv, CronKinds, CronRequests, CronSteps, CronRunStates,
     CronAssumption, CronRequestOK, CronApart
<1>3. \A g \in CronHandlers : \A k \in CronHandlers \ {g} : CronApart(g, k)'
  BY SMTT(60) DEF ArchiveRun, CronAt, CronInv, CronKinds, CronRequests, CronSteps, CronRunStates,
     CronAssumption, CronRequestOK, CronApart
<1>4. \A x \in Crons : CronStoreOK(x)'
  BY SMTT(60) DEF ArchiveRun, CronAt, CronInv, CronKinds, CronRequests, CronSteps, CronRunStates,
     CronAssumption, CronRequestOK, CronStoreOK, Creating, Ending
<1>5. \A x \in CronRuns : CronRunOK(x)'
  BY SMTT(60) DEF ArchiveRun, CronAt, CronInv, CronKinds, CronRequests, CronSteps, CronRunStates,
     CronAssumption, CronRequestOK, CronRunOK, Archiving
<1>6. QED BY <1>1, <1>2, <1>3, <1>4, <1>5 DEF CronInv

(* All runs that were listed are archived when the row is.                  *)
LEMMA MarkTerminatedCronKeeps ==
    ASSUME CronInv, CronAssumption, NEW h \in CronHandlers, MarkTerminatedCron(h)
    PROVE  CronInv'
<1>0. CronKinds /\ CronRequestOK(h)
  BY DEF CronInv
<1>b. cronReq[h].op = "terminate"
  BY DEF MarkTerminatedCron, CronAt
<1>c. Replaces(h, CronIdle)
  BY <1>0, IdleRequest, RequestReplaced DEF MarkTerminatedCron, CronDone
<1>d. cronRow' \in [Crons -> RowKinds]
  <2> DEFINE c == cronReq[h].cron
             e == [cronRow[c] EXCEPT !.state = "Archived"]
  <2>1. c \in Crons /\ cronRow \in [Crons -> RowKinds]
    BY <1>0, <1>b DEF CronRequestOK, CronKinds, RowKinds
  <2>2. e \in RowKinds
    BY <2>1, RowArchived
  <2>3. cronRow' = [cronRow EXCEPT ![c] = e]
    BY DEF MarkTerminatedCron, Keep
  <2> HIDE DEF e, c
  <2>4. QED BY <2>1, <2>2, <2>3
<1>1. CronKinds'
  BY <1>0, <1>c, <1>d DEF MarkTerminatedCron, CronKinds, Replaces, RowKinds
<1>2. \A g \in CronHandlers : CronRequestOK(g)'
  BY SMTT(60) DEF MarkTerminatedCron, CronAt, CronDone, CronIdle, Keep, CronInv, CronKinds, CronRequests,
     CronSteps, CronRunStates, CronAssumption, CronRequestOK, CronApart
<1>3. \A g \in CronHandlers : \A k \in CronHandlers \ {g} : CronApart(g, k)'
  BY SMTT(60) DEF MarkTerminatedCron, CronAt, CronDone, CronIdle, Keep, CronInv, CronKinds, CronRequests,
     CronSteps, CronRunStates, CronAssumption, CronRequestOK, CronApart
<1>4. \A x \in Crons : CronStoreOK(x)'
  BY SMTT(60) DEF MarkTerminatedCron, CronAt, CronDone, CronIdle, Keep, CronInv, CronKinds, CronRequests,
     CronSteps, CronRunStates, CronAssumption, CronRequestOK, CronStoreOK, Creating, Ending
<1>5. \A i \in CronRuns : CronRunOK(i)'
  BY SMTT(60) DEF MarkTerminatedCron, CronAt, CronDone, CronIdle, Keep, CronInv, CronKinds, CronRequests,
     CronSteps, CronRunStates, CronAssumption, CronRequestOK, CronRunOK, Archiving
<1>6. QED BY <1>1, <1>2, <1>3, <1>4, <1>5 DEF CronInv

(* ArchiveWorkflowTemplate lists crons that exist.                          *)
LEMMA ArchiveTemplateKeeps ==
    ASSUME CronInv, CronAssumption, NEW h \in CronHandlers, NEW t \in CronTemplates, ArchiveTemplate(h, t)
    PROVE  CronInv'
<1>0. CronKinds /\ CronRequestOK(h)
  BY DEF CronInv
<1> DEFINE d == LiveCrons(t)
           r == [CronIdle EXCEPT !.op = "archive", !.step = "next", !.template = t, !.todo = d]
<1>a. r \in CronRequests /\ r.op = "archive" /\ r.step = "next" /\ r.template = t /\ r.todo = LiveCrons(t)
  <2>1. d \in SUBSET (Crons \cup CronRuns)
    BY DEF LiveCrons
  <2> HIDE DEF d
  <2>2. r \in CronRequests /\ r.op = "archive" /\ r.step = "next" /\ r.template = t /\ r.todo = d
    BY <2>1 DEF CronIdle, CronRequests, CronSteps
  <2>3. QED BY <2>2 DEF d
<1>b. cronReq' = [cronReq EXCEPT ![h] = r] /\ cronReq[h] = CronIdle
  BY DEF ArchiveTemplate, CronStart
<1> HIDE DEF r
<1>c. Replaces(h, r)
  BY <1>0, <1>a, <1>b, RequestReplaced
<1>d. cronReq[h].op = "idle" /\ cronReq[h].step = "idle" /\ cronReq[h].template = NoTemplate /\ NoTemplate \notin CronTemplates
  BY <1>b, IdleRequest DEF CronAssumption
<1>e. cronMixed' \subseteq CronTemplates
  BY <1>0, <1>a DEF ArchiveTemplate, CronStart, CronQuiet, CronKinds
<1>f. UNCHANGED <<cronRow, cronArgo, cronOf, cronTemplate, cronRun, cronFaults>>
  BY DEF ArchiveTemplate
<1>g. cronTemplate[t] /\ \A x \in Crons : CronStoreOK(x)
  BY DEF ArchiveTemplate, CronInv
<1>1. CronKinds'
  BY <1>0, <1>a, <1>c, <1>d, <1>e, <1>f DEF CronKinds, Replaces
<1>2. \A g \in CronHandlers : CronRequestOK(g)'
  BY SMTT(60) DEF ArchiveTemplate, CronStart, CronIdle, CronQuiet, LiveCrons, CronInv, CronKinds,
     CronRequests, CronSteps, CronRunStates, CronAssumption, CronRequestOK, CronApart
<1>3. \A g \in CronHandlers : \A k \in CronHandlers \ {g} : CronApart(g, k)'
  BY SMTT(60) DEF ArchiveTemplate, CronStart, CronIdle, CronQuiet, LiveCrons, CronInv, CronKinds,
     CronRequests, CronSteps, CronRunStates, CronAssumption, CronRequestOK, CronApart
<1>4. \A x \in Crons : CronStoreOK(x)'
  BY SMTT(60) DEF ArchiveTemplate, CronStart, CronIdle, CronQuiet, LiveCrons, CronInv, CronKinds,
     CronRequests, CronSteps, CronRunStates, CronAssumption, CronRequestOK, CronStoreOK, Creating, Ending
<1>5. \A i \in CronRuns : CronRunOK(i)'
  BY SMTT(60) DEF ArchiveTemplate, CronStart, CronIdle, CronQuiet, LiveCrons, CronInv, CronKinds,
     CronRequests, CronSteps, CronRunStates, CronAssumption, CronRequestOK, CronRunOK, Archiving
<1>6. QED BY <1>1, <1>2, <1>3, <1>4, <1>5 DEF CronInv

(* An object Argo had is deleted and its row is next; one it had not is     *)
(* passed over.                                                             *)
LEMMA DeleteArgoCronKeeps ==
    ASSUME CronInv, CronAssumption, NEW h \in CronHandlers, DeleteArgoCron(h)
    PROVE  CronInv'
<1>0. CronKinds /\ CronRequestOK(h)
  BY DEF CronInv
<1>z. PICK c \in cronReq[h].todo :
        /\ cronArgo' = [cronArgo EXCEPT ![c].there = FALSE]
        /\ cronReq' = IF cronArgo[c].there
                      THEN [cronReq EXCEPT ![h].step = "mark", ![h].cron = c, ![h].todo = @ \ {c}]
                      ELSE [cronReq EXCEPT ![h].todo = @ \ {c}]
  BY DEF DeleteArgoCron
<1>d. cronReq[h].op = "archive" /\ cronReq[h].step = "next" /\ c \in Crons
  BY <1>0 DEF DeleteArgoCron, CronAt, CronRequestOK
<1>a. PICK r \in CronRequests :
        /\ cronReq' = [cronReq EXCEPT ![h] = r]
        /\ Alike(r, cronReq[h]) /\ r.todo = cronReq[h].todo \ {c}
        /\ IF cronArgo[c].there THEN r.step = "mark" /\ r.cron = c ELSE r.step = "next" /\ r.cron = cronReq[h].cron
  <2> DEFINE o == cronReq[h]
             d == cronReq[h].todo \ {c}
             q == [o EXCEPT !.step = "mark", !.cron = c, !.todo = d]
             p == [cronReq[h] EXCEPT !.todo = cronReq[h].todo \ {c}]
  <2>1. o \in CronRequests /\ d \in SUBSET (Crons \cup CronRuns)
    BY <1>0 DEF CronKinds, CronRequests
  <2>2. q \in CronRequests /\ Alike(q, o) /\ q.step = "mark" /\ q.cron = c /\ q.todo = d
    <3> HIDE DEF o, d
    <3>1. QED BY <1>d, <2>1 DEF CronRequests, CronSteps, Alike
  <2>3. /\ p \in CronRequests /\ Alike(p, cronReq[h]) /\ p.step = "next" /\ p.cron = cronReq[h].cron
        /\ p.todo = cronReq[h].todo \ {c}
    BY <1>d, <2>1, RequestAdvanced
  <2>4. cronReq' = IF cronArgo[c].there THEN [cronReq EXCEPT ![h] = q] ELSE [cronReq EXCEPT ![h] = p]
    BY <1>z
  <2> HIDE DEF p, q
  <2>5. QED BY <2>2, <2>3, <2>4
<1>c. Replaces(h, r)
  BY <1>0, <1>a, RequestReplaced
<1>e. GoneFromArgo(c)
  BY <1>0, <1>z, <1>d, ArgoGone
<1>f. UNCHANGED <<cronRow, cronOf, cronTemplate, cronRun, cronFaults, cronMixed>>
  BY DEF DeleteArgoCron
<1>g. cronOf[c] = cronReq[h].template /\ cronRow[c].state # "None" /\ cronReq[h].template \in CronTemplates
  BY <1>0, <1>z, <1>d DEF CronRequestOK
<1>i. /\ \A x \in Crons : cronArgo'[x].there => cronArgo[x].there
      /\ \A x \in Crons : cronRow[x].state = "None" => cronArgo'[x] = cronArgo[x]
  BY <1>e, <1>g DEF GoneFromArgo
<1>1. CronKinds'
  BY <1>0, <1>c, <1>e, <1>f DEF CronKinds, Replaces, GoneFromArgo
<1>2. ASSUME NEW g \in CronHandlers PROVE CronRequestOK(g)'
  <2>0. CronRequestOK(g) /\ (g # h => CronApart(g, h) /\ CronApart(h, g))
    BY DEF CronInv
  <2>1. CASE g = h
    BY <1>0, <2>0, <2>1, <1>a, <1>c, <1>d, <1>e, <1>f, <1>g, SMTT(30)
       DEF CronRequestOK, Replaces, CronKinds, GoneFromArgo, Alike
  <2>2. CASE g # h
    BY <1>0, <2>0, <2>2, <1>c, <1>f, <1>i, SMTT(30) DEF CronRequestOK, Replaces, CronKinds
  <2>3. QED BY <2>1, <2>2
<1>3. \A g \in CronHandlers : \A k \in CronHandlers \ {g} : CronApart(g, k)'
  BY <1>a, <1>c, <1>d DEF CronInv, CronApart, Replaces, Alike
<1>4. ASSUME NEW x \in Crons PROVE CronStoreOK(x)'
  <2>1. CronStoreOK(x)
    BY DEF CronInv
  <2>2. Creating(x) => Creating(x)'
    BY <1>c, <1>d DEF Creating, Replaces
  <2>3. Ending(x) => Ending(x)'
    BY <1>c, <1>d DEF Ending, Replaces
  <2>4. x = c /\ cronArgo[c].there => Ending(x)'
    BY <1>a, <1>c DEF Ending, Replaces
  <2>5. x # c => cronArgo'[x] = cronArgo[x]
    BY <1>e DEF GoneFromArgo
  <2>6. QED BY <1>f, <1>i, <2>1, <2>2, <2>3, <2>4, <2>5 DEF CronStoreOK
<1>5. \A i \in CronRuns : CronRunOK(i)'
  BY SMTT(60) DEF DeleteArgoCron, CronAt, CronInv, CronKinds, CronRequests, CronSteps, CronRunStates,
     CronAssumption, CronRequestOK, CronRunOK, Archiving
<1>6. QED BY <1>1, <1>2, <1>3, <1>4, <1>5 DEF CronInv

(* The row ends, with its runs left to ArchiveRuns.                         *)
LEMMA MarkArchivedCronKeeps ==
    ASSUME CronInv, CronAssumption, NEW h \in CronHandlers, MarkArchivedCron(h)
    PROVE  CronInv'
<1>0. CronKinds /\ CronRequestOK(h)
  BY DEF CronInv
<1> DEFINE r == [cronReq[h] EXCEPT !.step = "next"]
<1>a. r \in CronRequests /\ Alike(r, cronReq[h]) /\ r.step = "next" /\ r.cron = cronReq[h].cron /\ r.todo = cronReq[h].todo
  <2>1. cronReq[h] \in CronRequests
    BY <1>0 DEF CronKinds
  <2>2. "next" \in CronSteps
    BY DEF CronSteps
  <2>3. QED BY <2>1, <2>2, RequestMoved
<1>b. cronReq' = [cronReq EXCEPT ![h] = r]
  BY DEF MarkArchivedCron, CronMove
<1> HIDE DEF r
<1>c. Replaces(h, r)
  BY <1>0, <1>a, <1>b, RequestReplaced
<1>d. cronReq[h].op = "archive" /\ cronReq[h].step = "mark"
  BY DEF MarkArchivedCron, CronAt
<1>f. /\ cronRow' = [cronRow EXCEPT ![cronReq[h].cron].state = "Archived"]
      /\ UNCHANGED <<cronArgo, cronOf, cronTemplate, cronRun, cronFaults, cronMixed>>
  BY DEF MarkArchivedCron, Keep
<1>g. cronRow' \in [Crons -> RowKinds]
  <2> DEFINE c == cronReq[h].cron
             e == [cronRow[c] EXCEPT !.state = "Archived"]
  <2>1. c \in Crons /\ cronRow \in [Crons -> RowKinds]
    BY <1>0, <1>d DEF CronRequestOK, CronKinds, RowKinds
  <2>2. e \in RowKinds
    BY <2>1, RowArchived
  <2>3. cronRow' = [cronRow EXCEPT ![c] = e]
    BY <1>f
  <2> HIDE DEF e, c
  <2>4. QED BY <2>1, <2>2, <2>3
<1>1. CronKinds'
  BY <1>0, <1>c, <1>f, <1>g DEF CronKinds, Replaces, RowKinds
<1>2. \A g \in CronHandlers : CronRequestOK(g)'
  BY SMTT(60) DEF MarkArchivedCron, CronAt, CronMove, Keep, CronInv, CronKinds, CronRequests, CronSteps,
     CronRunStates, CronAssumption, CronRequestOK, CronApart
<1>3. \A g \in CronHandlers : \A k \in CronHandlers \ {g} : CronApart(g, k)'
  BY SMTT(60) DEF MarkArchivedCron, CronAt, CronMove, Keep, CronInv, CronKinds, CronRequests, CronSteps,
     CronRunStates, CronAssumption, CronRequestOK, CronApart
<1>4. \A x \in Crons : CronStoreOK(x)'
  BY SMTT(60) DEF MarkArchivedCron, CronAt, CronMove, Keep, CronInv, CronKinds, CronRequests, CronSteps,
     CronRunStates, CronAssumption, CronRequestOK, CronStoreOK, Creating, Ending
<1>5. \A i \in CronRuns : CronRunOK(i)'
  BY SMTT(60) DEF MarkArchivedCron, CronAt, CronMove, Keep, CronInv, CronKinds, CronRequests, CronSteps,
     CronRunStates, CronAssumption, CronRequestOK, CronRunOK, Archiving
<1>6. QED BY <1>1, <1>2, <1>3, <1>4, <1>5 DEF CronInv

(* No row of a run of the template is left.                                 *)
LEMMA ArchiveRunsKeeps ==
    ASSUME CronInv, CronAssumption, NEW h \in CronHandlers, ArchiveRuns(h)
    PROVE  CronInv'
<1>0. CronKinds /\ CronRequestOK(h)
  BY DEF CronInv
<1> DEFINE r == [cronReq[h] EXCEPT !.step = "template"]
<1>a. r \in CronRequests /\ Alike(r, cronReq[h]) /\ r.step = "template" /\ r.cron = cronReq[h].cron /\ r.todo = cronReq[h].todo
  <2>1. cronReq[h] \in CronRequests
    BY <1>0 DEF CronKinds
  <2>2. "template" \in CronSteps
    BY DEF CronSteps
  <2>3. QED BY <2>1, <2>2, RequestMoved
<1>b. cronReq' = [cronReq EXCEPT ![h] = r]
  BY DEF ArchiveRuns, CronMove
<1> HIDE DEF r
<1>c. Replaces(h, r)
  BY <1>0, <1>a, <1>b, RequestReplaced
<1>d. cronReq[h].op = "archive" /\ cronReq[h].step = "next" /\ cronReq[h].todo = {}
  BY DEF ArchiveRuns, CronAt
<1>f. UNCHANGED <<cronRow, cronArgo, cronOf, cronTemplate, cronFaults, cronMixed>>
  BY DEF ArchiveRuns
<1>g. cronRun' \in [CronRuns -> [by : Crons \cup {NoCron}, state : CronRunStates, cron : Crons \cup {NoCron}, late : BOOLEAN]]
  <2>1. ASSUME NEW i \in CronRuns
        PROVE  [cronRun[i] EXCEPT !.state = "Archived"] \in RunKinds
    <3>1. cronRun[i] \in RunKinds
      BY <1>0 DEF CronKinds, RunKinds
    <3>2. QED BY <3>1, RunArchived
  <2>2. cronRun \in [CronRuns -> RunKinds]
    BY <1>0 DEF CronKinds, RunKinds
  <2>3. cronRun' \in [CronRuns -> RunKinds]
    BY <2>1, <2>2 DEF ArchiveRuns
  <2>4. QED BY <2>3 DEF RunKinds
<1>1. CronKinds'
  BY <1>0, <1>a, <1>c, <1>d, <1>f, <1>g DEF CronKinds, Replaces
<1>2. \A g \in CronHandlers : CronRequestOK(g)'
  BY SMTT(60) DEF ArchiveRuns, CronAt, CronMove, CronInv, CronKinds, CronRequests, CronSteps,
     CronRunStates, CronAssumption, CronRequestOK, CronApart
<1>3. \A g \in CronHandlers : \A k \in CronHandlers \ {g} : CronApart(g, k)'
  BY SMTT(60) DEF ArchiveRuns, CronAt, CronMove, CronInv, CronKinds, CronRequests, CronSteps,
     CronRunStates, CronAssumption, CronRequestOK, CronApart
<1>4. \A x \in Crons : CronStoreOK(x)'
  BY SMTT(60) DEF ArchiveRuns, CronAt, CronMove, CronInv, CronKinds, CronRequests, CronSteps,
     CronRunStates, CronAssumption, CronRequestOK, CronStoreOK, Creating, Ending
<1>5. \A i \in CronRuns : CronRunOK(i)'
  BY SMTT(60) DEF ArchiveRuns, CronAt, CronMove, CronInv, CronKinds, CronRequests, CronSteps,
     CronRunStates, CronAssumption, CronRequestOK, CronRunOK, Archiving
<1>6. QED BY <1>1, <1>2, <1>3, <1>4, <1>5 DEF CronInv

(* The request ends with the template.                                      *)
LEMMA MarkTemplateKeeps ==
    ASSUME CronInv, CronAssumption, NEW h \in CronHandlers, MarkTemplate(h)
    PROVE  CronInv'
<1>0. CronKinds /\ CronRequestOK(h)
  BY DEF CronInv
<1>1. CronKinds'
  BY SMTT(60) DEF MarkTemplate, CronAt, CronDone, CronIdle, CronInv, CronKinds, CronRequests, CronSteps,
     CronRunStates, CronAssumption, CronRequestOK
<1>2. \A g \in CronHandlers : CronRequestOK(g)'
  BY SMTT(60) DEF MarkTemplate, CronAt, CronDone, CronIdle, CronInv, CronKinds, CronRequests, CronSteps,
     CronRunStates, CronAssumption, CronRequestOK, CronApart
<1>3. \A g \in CronHandlers : \A k \in CronHandlers \ {g} : CronApart(g, k)'
  BY SMTT(60) DEF MarkTemplate, CronAt, CronDone, CronIdle, CronInv, CronKinds, CronRequests, CronSteps,
     CronRunStates, CronAssumption, CronRequestOK, CronApart
<1>4. \A x \in Crons : CronStoreOK(x)'
  BY SMTT(60) DEF MarkTemplate, CronAt, CronDone, CronIdle, CronInv, CronKinds, CronRequests, CronSteps,
     CronRunStates, CronAssumption, CronRequestOK, CronStoreOK, Creating, Ending
<1>f. UNCHANGED <<cronRow, cronOf, cronRun, cronFaults>>
  BY DEF MarkTemplate
<1>c. Replaces(h, CronIdle) /\ cronReq[h].op = "archive" /\ cronReq[h].step = "template"
  BY <1>0, IdleRequest, RequestReplaced DEF MarkTemplate, CronDone, CronAt
<1>5. ASSUME NEW i \in CronRuns PROVE CronRunOK(i)'
  <2>1. CronRunOK(i)
    BY DEF CronInv
  <2>2. ASSUME NEW u \in CronTemplates, Archiving(u) PROVE Archiving(u)'
    BY <1>0, <2>2, <1>c, <1>f, SMTT(30) DEF Archiving, Replaces
  <2>3. QED BY <1>0, <2>1, <2>2, <1>c, <1>f, SMTT(30) DEF CronKinds, CronRunOK
<1>6. QED BY <1>1, <1>2, <1>3, <1>4, <1>5 DEF CronInv

(* With a fault, nothing is said of where the stores differ.                *)
LEMMA CronBreakOffKeeps ==
    ASSUME CronInv, CronAssumption, NEW h \in CronHandlers, CronBreakOff(h)
    PROVE  CronInv'
<1>0. CronKinds /\ CronRequestOK(h)
  BY DEF CronInv
<1>1. CronKinds'
  BY SMTT(60) DEF CronBreakOff, CronDone, CronIdle, CronInv, CronKinds, CronRequests, CronSteps,
     CronRunStates, CronAssumption, CronRequestOK
<1>2. \A g \in CronHandlers : CronRequestOK(g)'
  BY SMTT(60) DEF CronBreakOff, CronDone, CronIdle, CronInv, CronKinds, CronRequests, CronSteps,
     CronRunStates, CronAssumption, CronRequestOK, CronApart
<1>3. \A g \in CronHandlers : \A k \in CronHandlers \ {g} : CronApart(g, k)'
  BY SMTT(60) DEF CronBreakOff, CronDone, CronIdle, CronInv, CronKinds, CronRequests, CronSteps,
     CronRunStates, CronAssumption, CronRequestOK, CronApart
<1>4. \A x \in Crons : CronStoreOK(x)'
  BY SMTT(60) DEF CronBreakOff, CronDone, CronIdle, CronInv, CronKinds, CronRequests, CronSteps,
     CronRunStates, CronAssumption, CronRequestOK, CronStoreOK, Creating, Ending
<1>5. \A i \in CronRuns : CronRunOK(i)'
  BY SMTT(60) DEF CronBreakOff, CronDone, CronIdle, CronInv, CronKinds, CronRequests, CronSteps,
     CronRunStates, CronAssumption, CronRequestOK, CronRunOK, Archiving
<1>6. QED BY <1>1, <1>2, <1>3, <1>4, <1>5 DEF CronInv

----------------------------------------------------------------------------
(* The clock.                                                               *)

(* The other runs are as they were.                                         *)
ChangesRun(i, run) ==
    /\ cronRun' \in [CronRuns -> RunKinds]
    /\ cronRun'[i] = run
    /\ \A j \in CronRuns \ {i} : cronRun'[j] = cronRun[j]

(* A step of the clock changes one run.                                     *)
LEMMA RunChanged ==
    ASSUME CronKinds, NEW i \in CronRuns, NEW run \in RunKinds, cronRun' = [cronRun EXCEPT ![i] = run]
    PROVE  ChangesRun(i, run)
  BY DEF CronKinds, RunKinds, ChangesRun

(* A run that starts has no row yet.                                        *)
LEMMA CronFiresKeeps ==
    ASSUME CronInv, NEW c \in Crons, NEW i \in CronRuns, CronFires(c, i)
    PROVE  CronInv'
<1>0. CronKinds
  BY DEF CronInv
<1> DEFINE o == cronRun[i]
           run == [o EXCEPT !.by = c, !.state = "Calling"]
<1>1. run \in RunKinds /\ run.state = "Calling" /\ run.by = c
  <2>1. o \in RunKinds
    BY <1>0 DEF CronKinds, RunKinds
  <2> HIDE DEF o
  <2>2. QED BY <2>1 DEF RunKinds, CronRunStates
<1>2. cronRun[i].state = "None" /\ cronRun' = [cronRun EXCEPT ![i] = run]
  BY DEF CronFires
<1> HIDE DEF run
<1>3. ChangesRun(i, run)
  BY <1>0, <1>1, <1>2, RunChanged
<1>4. UNCHANGED <<cronRow, cronArgo, cronOf, cronTemplate, cronReq, cronFaults, cronMixed>>
  BY DEF CronFires
<1>5. CronKinds'
  BY <1>0, <1>3, <1>4 DEF CronKinds, ChangesRun, RunKinds
<1>6. ASSUME NEW h \in CronHandlers PROVE CronRequestOK(h)'
  <2>1. CronRequestOK(h)
    BY DEF CronInv
  <2>2. QED BY <2>1, <1>1, <1>3, <1>4 DEF CronRequestOK, ChangesRun
<1>7. ASSUME NEW j \in CronRuns PROVE CronRunOK(j)'
  <2>1. CronRunOK(j)
    BY DEF CronInv
  <2>2. QED BY <2>1, <1>1, <1>3, <1>4 DEF CronRunOK, ChangesRun, Archiving
<1>8. /\ \A g \in CronHandlers : \A h \in CronHandlers \ {g} : CronApart(g, h)'
      /\ \A d \in Crons : CronStoreOK(d)'
  BY <1>4 DEF CronInv, CronApart, CronStoreOK, Creating, Ending
<1>9. QED BY <1>5, <1>6, <1>7, <1>8 DEF CronInv

(* A row is inserted for a cron that is live, and it is late if the runs of *)
(* that cron have been listed.                                              *)
LEMMA InsertRunKeeps ==
    ASSUME CronInv, CronAssumption, NEW i \in CronRuns, InsertRun(i)
    PROVE  CronInv'
<1>0. CronKinds
  BY DEF CronInv
<1> DEFINE o == cronRun[i]
           Listed(d) == \E h \in CronHandlers : cronReq[h].cron = d /\ cronReq[h].step = "runs"
           Row(d) == [o EXCEPT !.state = "Row", !.cron = d, !.late = Listed(d)]
           refused == [o EXCEPT !.state = "Refused"]
<1>1. o \in RunKinds
  BY <1>0 DEF CronKinds, RunKinds
<1>2. UNCHANGED <<cronRow, cronArgo, cronOf, cronTemplate, cronReq, cronFaults, cronMixed>>
  BY DEF InsertRun
<1>3. cronOf[cronRun[i].by] \in CronTemplates \cup {NoTemplate}
  <2>1. cronRun[i].state = "Calling" /\ CronRunOK(i)
    BY DEF InsertRun, CronInv
  <2>2. QED BY <1>0, <2>1 DEF CronRunOK, CronKinds
<1>4. \E run \in RunKinds :
        /\ cronRun' = [cronRun EXCEPT ![i] = run]
        /\ \/ run.state = "Refused"
           \/ run.state = "Row" /\ run.cron \in Crons /\ cronRow[run.cron].state = "Live" /\ run.late = Listed(run.cron)
  <2>0. \/ \E d \in LiveCrons(cronOf[cronRun[i].by]) : cronRun' = [cronRun EXCEPT ![i] = Row(d)]
        \/ cronRun' = [cronRun EXCEPT ![i] = refused]
    <3>1. \/ \E d \in LiveCrons(cronOf[cronRun[i].by]) :
                cronRun' = [cronRun EXCEPT ![i].state = "Row", ![i].cron = d, ![i].late = Listed(d)]
          \/ cronRun' = [cronRun EXCEPT ![i].state = "Refused"]
      BY DEF InsertRun
    <3> HIDE DEF Listed
    <3>2. ASSUME NEW d
          PROVE  [cronRun EXCEPT ![i].state = "Row", ![i].cron = d, ![i].late = Listed(d)] = [cronRun EXCEPT ![i] = Row(d)]
      BY <1>0 DEF CronKinds
    <3>3. QED BY <3>1, <3>2
  <2>1. CASE \E d \in LiveCrons(cronOf[cronRun[i].by]) : cronRun' = [cronRun EXCEPT ![i] = Row(d)]
    <3>1. PICK d \in Crons : cronRow[d].state = "Live" /\ cronRun' = [cronRun EXCEPT ![i] = Row(d)]
      BY <2>1 DEF LiveCrons
    <3>2. Row(d) \in RunKinds /\ Row(d).state = "Row" /\ Row(d).cron = d /\ Row(d).late = Listed(d)
      <4> DEFINE l == Listed(d)
      <4>1. l \in BOOLEAN
        OBVIOUS
      <4> HIDE DEF o, l
      <4>2. QED BY <1>1, <4>1 DEF RunKinds, CronRunStates
    <3> HIDE DEF Row, Listed
    <3>3. QED BY <3>1, <3>2
  <2>2. CASE cronRun' = [cronRun EXCEPT ![i] = refused]
    <3>1. refused \in RunKinds /\ refused.state = "Refused"
      <4> HIDE DEF o
      <4>1. QED BY <1>1 DEF RunKinds, CronRunStates
    <3> HIDE DEF refused
    <3>2. QED BY <2>2, <3>1
  <2>3. QED BY <2>0, <2>1, <2>2
<1>5. PICK run \in RunKinds :
        /\ cronRun' = [cronRun EXCEPT ![i] = run]
        /\ \/ run.state = "Refused"
           \/ run.state = "Row" /\ run.cron \in Crons /\ cronRow[run.cron].state = "Live" /\ run.late = Listed(run.cron)
  BY <1>4
<1>6. ChangesRun(i, run)
  BY <1>0, <1>5, RunChanged
<1>7. CronKinds'
  BY <1>0, <1>2, <1>6 DEF CronKinds, ChangesRun, RunKinds
<1>8. ASSUME NEW h \in CronHandlers PROVE CronRequestOK(h)'
  <2>1. CronRequestOK(h)
    BY DEF CronInv
  <2>2. cronReq[h].step = "runs" =>
          \A j \in CronRuns : cronRun'[j].state = "Row" /\ cronRun'[j].cron = cronReq[h].cron /\ ~cronRun'[j].late
                              => cronRun[j].state = "Row" /\ cronRun[j].cron = cronReq[h].cron /\ ~cronRun[j].late
    BY <1>5, <1>6 DEF ChangesRun
  <2>3. QED BY <2>1, <2>2, <1>2 DEF CronRequestOK
<1>9. ASSUME NEW j \in CronRuns PROVE CronRunOK(j)'
  <2>1. CronRunOK(j)
    BY DEF CronInv
  <2>2. CASE j = i
    <3>1. run.state = "Row" => CronStoreOK(run.cron)
      BY <1>5 DEF CronInv
    <3>2. QED BY <3>1, <2>2, <1>2, <1>5, <1>6 DEF CronRunOK, ChangesRun, CronStoreOK
  <2>3. CASE j # i
    BY <2>1, <2>3, <1>2, <1>6 DEF CronRunOK, ChangesRun, Archiving
  <2>4. QED BY <2>2, <2>3
<1>10. /\ \A g \in CronHandlers : \A h \in CronHandlers \ {g} : CronApart(g, h)'
       /\ \A d \in Crons : CronStoreOK(d)'
  BY <1>2 DEF CronInv, CronApart, CronStoreOK, Creating, Ending
<1>11. QED BY <1>7, <1>8, <1>9, <1>10 DEF CronInv
----------------------------------------------------------------------------
(* Nothing exists and no request is under way.                              *)
LEMMA CronInvAtFirst ==
    ASSUME CronInit
    PROVE  CronInv
<1>1. CronKinds
  BY IdleRequest DEF CronInit, CronKinds, CronRunStates
<1>2. \A h \in CronHandlers : CronRequestOK(h)
  BY IdleRequest DEF CronInit, CronRequestOK
<1>3. \A h \in CronHandlers : \A g \in CronHandlers \ {h} : CronApart(g, h)
  BY IdleRequest DEF CronInit, CronApart
<1>4. \A c \in Crons : CronStoreOK(c)
  BY DEF CronInit, CronStoreOK
<1>5. \A i \in CronRuns : CronRunOK(i)
  BY DEF CronInit, CronRunOK
<1>6. QED BY <1>1, <1>2, <1>3, <1>4, <1>5 DEF CronInv

(* One lemma for each action.                                               *)
LEMMA CronInvKept ==
    ASSUME CronInv, CronAssumption, [CronNext]_cronVars
    PROVE  CronInv'
<1>1. ASSUME NEW h \in CronHandlers, NEW c \in Crons, NEW s \in Schedules, FindCronRow(h, c, s)
      PROVE  CronInv'
  BY <1>1, FindCronRowKeeps
<1>2. ASSUME NEW h \in CronHandlers, NEW c \in Crons, NEW t \in CronTemplates, NEW s \in Schedules, AskCron(h, c, t, s)
      PROVE  CronInv'
  BY <1>2, AskCronKeeps
<1>3. ASSUME NEW h \in CronHandlers, NEW c \in Crons, DeleteCron(h, c) PROVE CronInv'
  BY <1>3, DeleteCronKeeps
<1>4. ASSUME NEW h \in CronHandlers, NEW t \in CronTemplates, ArchiveTemplate(h, t) PROVE CronInv'
  BY <1>4, ArchiveTemplateKeeps
<1>5. ASSUME NEW h \in CronHandlers, CreateArgoCron(h) \/ InsertCron(h) PROVE CronInv'
  BY <1>5, CreateArgoCronKeeps, InsertCronKeeps
<1>6. ASSUME NEW h \in CronHandlers, GetArgoCron(h) \/ PutArgoCron(h) \/ WriteCronRow(h) PROVE CronInv'
  BY <1>6, GetArgoCronKeeps, PutArgoCronKeeps, WriteCronRowKeeps
<1>7. ASSUME NEW h \in CronHandlers, FindRuns(h) \/ ArchiveRun(h) \/ MarkTerminatedCron(h) PROVE CronInv'
  BY <1>7, FindRunsKeeps, ArchiveRunKeeps, MarkTerminatedCronKeeps
<1>8. ASSUME NEW h \in CronHandlers, DeleteArgoCron(h) \/ MarkArchivedCron(h) \/ ArchiveRuns(h) \/ MarkTemplate(h)
      PROVE  CronInv'
  BY <1>8, DeleteArgoCronKeeps, MarkArchivedCronKeeps, ArchiveRunsKeeps, MarkTemplateKeeps
<1>9. ASSUME NEW h \in CronHandlers, CronBreakOff(h) PROVE CronInv'
  BY <1>9, CronBreakOffKeeps
<1>10. ASSUME NEW i \in CronRuns, InsertRun(i) \/ \E c \in Crons : CronFires(c, i) PROVE CronInv'
  BY <1>10, InsertRunKeeps, CronFiresKeeps
<1>11. CASE UNCHANGED cronVars
  <2>1. CronKinds' /\ (\A i \in CronRuns : CronRunOK(i)')
    BY <1>11 DEF cronVars, CronInv, CronKinds, CronRunOK, Archiving
  <2>2. /\ \A h \in CronHandlers : CronRequestOK(h)' /\ \A g \in CronHandlers \ {h} : CronApart(g, h)'
        /\ \A c \in Crons : CronStoreOK(c)'
    BY <1>11 DEF cronVars, CronInv, CronRequestOK, CronApart, CronStoreOK, Creating, Ending
  <2>3. QED BY <2>1, <2>2 DEF CronInv
<1>12. QED BY <1>1, <1>2, <1>3, <1>4, <1>5, <1>6, <1>7, <1>8, <1>9, <1>10, <1>11 DEF CronNext

(* What requests, rows, Argo and runs say of each other, in every state.    *)
THEOREM CronInvariant == CronSpec => []CronInv
<1>1. CronInit => CronInv
  BY CronInvAtFirst
<1>2. CronInv /\ [CronNext]_cronVars => CronInv'
  BY CronInvKept, CronAssumption
<1>3. QED BY <1>1, <1>2, PTL DEF CronSpec

(* A cron without requests is live in the database exactly if Argo has it,  *)
(* however many requests have overlapped, unless one failed half way        *)
(* (TerminateCronWorkflow, ArchiveCronWorkflow, CreateCronWorkflow).        *)
THEOREM RowsStayLiveInArgo == CronSpec => []RowsLiveInArgo
<1>1. CronInv => RowsLiveInArgo
  <2> SUFFICES ASSUME CronInv, cronFaults = 0, NEW t \in CronTemplates, CronQuiet(t), NEW c \in Crons, cronOf[c] = t
               PROVE  cronRow[c].state = "Live" <=> cronArgo[c].there
    BY DEF RowsLiveInArgo
  <2>1. ASSUME NEW h \in CronHandlers, cronReq[h].cron = c,
               cronReq[h].op \in {"create", "terminate"} \/ cronReq[h].step = "mark"
        PROVE  FALSE
    <3>1. CronRequestOK(h)
      BY DEF CronInv
    <3>2. cronReq[h].template = t
      BY <2>1, <3>1 DEF CronRequestOK
    <3>3. QED BY <3>2 DEF CronQuiet
  <2>2. ~Creating(c) /\ ~Ending(c)
    BY <2>1 DEF Creating, Ending
  <2>3. CronStoreOK(c) /\ cronRow[c].state \in {"None", "Live", "Archived"}
    BY DEF CronInv, CronKinds
  <2>4. QED BY <2>2, <2>3 DEF CronStoreOK
<1>2. QED BY <1>1, CronInvariant, PTL

(* The runs of a cron that has ended end with it, but for those inserted    *)
(* after they were listed (ArchiveCronWorkflow, CronStartWorkflowExecution- *)
(* Statistic).                                                              *)
THEOREM RunsAreArchived == CronSpec => []RunsEndWithCron
<1>1. CronInv => RunsEndWithCron
  <2> SUFFICES ASSUME CronInv, cronFaults = 0, NEW i \in CronRuns, cronRun[i].state = "Row",
                      cronRow[cronRun[i].cron].state = "Archived", CronQuiet(cronOf[cronRun[i].cron])
               PROVE  cronRun[i].late
    BY DEF RunsEndWithCron
  <2>1. ~Archiving(cronOf[cronRun[i].cron])
    BY DEF Archiving, CronQuiet
  <2>2. CronRunOK(i) /\ cronRun[i].late \in BOOLEAN
    BY DEF CronInv, CronKinds
  <2>3. QED BY <2>1, <2>2 DEF CronRunOK
<1>2. QED BY <1>1, CronInvariant, PTL
----------------------------------------------------------------------------
(* Templates whose requests have come one at a time, and without failing.   *)

CronsOf(t) == {c \in Crons : cronOf[c] = t}

(* A request is about to write what Argo has already been told.             *)
AtRow(c) == \E h \in CronHandlers : cronReq[h].step = "row" /\ cronReq[h].cron = c

(* What a request that is alone on its template has behind it.              *)
Course(h) ==
    LET r == cronReq[h] IN
    /\ r.op \in {"create", "archive"} \/ (r.op = "update" /\ r.step \in {"put", "row"}) => cronTemplate[r.template]
    /\ r.step = "row" => cronArgo[r.cron].manifest = r.schedule
    /\ r.op = "archive" =>
         \A c \in CronsOf(r.template) : cronArgo[c].there => r.step \in {"next", "mark"} /\ c \in r.todo

OnceOK(t) ==
    cronFaults = 0 /\ t \notin cronMixed =>
        /\ \A h \in CronHandlers : cronReq[h].template = t => Course(h)
        /\ ~cronTemplate[t] => \A c \in CronsOf(t) : ~cronArgo[c].there
        /\ \A c \in Crons : CronsOf(t) = {c} /\ cronArgo[c].there =>
             cronArgo[c].manifest = cronRow[c].manifest \/ AtRow(c)

(* Two requests on a template have been noted.                              *)
CronAlone(g, h) ==
    cronReq[g].template = cronReq[h].template /\ cronReq[h].template # NoTemplate => cronReq[h].template \in cronMixed

CronOnce ==
    /\ \A t \in CronTemplates : OnceOK(t)
    /\ \A h \in CronHandlers : \A g \in CronHandlers \ {h} : CronAlone(g, h)

(* The changes of a step are to the crons of one template.                  *)
OnlyCronsOf(t) ==
    /\ \A c \in Crons : cronRow'[c] # cronRow[c] \/ cronArgo'[c] # cronArgo[c] \/ cronOf'[c] # cronOf[c] =>
         cronOf'[c] = t /\ cronOf[c] \in {t, NoTemplate}
    /\ \A x \in CronTemplates \ {t} : cronTemplate'[x] = cronTemplate[x]

LEMMA OnceFramed ==
    ASSUME CronAssumption, CronInv, NEW t \in CronTemplates, OnlyCronsOf(t), NEW x \in CronTemplates, x # t,
           \A g \in CronHandlers : cronReq[g].template = x \/ cronReq'[g].template = x => cronReq'[g] = cronReq[g],
           cronFaults' = 0 => cronFaults = 0, cronMixed \subseteq cronMixed', OnceOK(x)
    PROVE  OnceOK(x)'
<1>0. x # NoTemplate /\ cronTemplate'[x] = cronTemplate[x]
  BY DEF CronAssumption, OnlyCronsOf
<1>1. /\ CronsOf(x)' = CronsOf(x)
      /\ \A c \in CronsOf(x) : cronRow'[c] = cronRow[c] /\ cronArgo'[c] = cronArgo[c]
  BY <1>0 DEF CronsOf, OnlyCronsOf
<1>2. SUFFICES ASSUME cronFaults = 0, x \notin cronMixed
               PROVE  /\ \A h \in CronHandlers : cronReq'[h].template = x => Course(h)'
                      /\ ~cronTemplate'[x] => \A c \in CronsOf(x)' : ~cronArgo'[c].there
                      /\ \A c \in Crons : CronsOf(x)' = {c} /\ cronArgo'[c].there =>
                           cronArgo'[c].manifest = cronRow'[c].manifest \/ AtRow(c)'
  BY DEF OnceOK
<1>3. /\ \A h \in CronHandlers : cronReq[h].template = x => Course(h)
      /\ ~cronTemplate[x] => \A c \in CronsOf(x) : ~cronArgo[c].there
      /\ \A c \in Crons : CronsOf(x) = {c} /\ cronArgo[c].there =>
           cronArgo[c].manifest = cronRow[c].manifest \/ AtRow(c)
  BY <1>2 DEF OnceOK
<1>4. ASSUME NEW h \in CronHandlers, cronReq'[h].template = x  PROVE Course(h)'
  <2>1. cronReq'[h] = cronReq[h] /\ Course(h) /\ CronRequestOK(h)
    BY <1>3, <1>4 DEF CronInv
  <2>2. cronReq[h].step = "row" => cronReq[h].cron \in CronsOf(x)
    BY <1>0, <1>4, <2>1 DEF CronRequestOK, CronsOf, CronInv, CronKinds, CronRequests
  <2>3. cronReq[h].template = x
    BY <1>4, <2>1
  <2>4. QED
    BY <1>0, <1>1, <2>1, <2>2, <2>3 DEF Course
<1>5. ASSUME NEW c \in CronsOf(x), AtRow(c)  PROVE AtRow(c)'
  <2>1. PICK h \in CronHandlers : cronReq[h].step = "row" /\ cronReq[h].cron = c
    BY <1>5 DEF AtRow
  <2>2. CronRequestOK(h)
    BY DEF CronInv
  <2>3. cronReq[h].template = x
    BY <2>1, <2>2 DEF CronRequestOK, CronsOf, CronInv, CronKinds, CronRequests
  <2>4. QED
    BY <2>1, <2>3 DEF AtRow
<1>6. QED
  BY <1>0, <1>1, <1>3, <1>4, <1>5

(* The only request on its template brings it where its course says.        *)
LEMMA OnceBefore ==
    ASSUME CronAssumption, CronInv, CronOnce, NEW h \in CronHandlers, NEW t \in CronTemplates,
           \A g \in CronHandlers \ {h} : cronReq[g].template # t, cronFaults = 0, t \notin cronMixed
    PROVE  /\ cronReq[h].template = t => Course(h)
           /\ ~cronTemplate[t] => \A c \in CronsOf(t) : ~cronArgo[c].there
           /\ \A c \in Crons : CronsOf(t) = {c} /\ cronArgo[c].there =>
                \/ cronArgo[c].manifest = cronRow[c].manifest
                \/ cronReq[h].template = t /\ cronReq[h].step = "row" /\ cronReq[h].cron = c
<1>1. /\ cronReq[h].template = t => Course(h)
      /\ ~cronTemplate[t] => \A c \in CronsOf(t) : ~cronArgo[c].there
      /\ \A c \in Crons : CronsOf(t) = {c} /\ cronArgo[c].there =>
           cronArgo[c].manifest = cronRow[c].manifest \/ AtRow(c)
  BY DEF CronOnce, OnceOK
<1>2. ASSUME NEW c \in CronsOf(t), AtRow(c)
      PROVE  cronReq[h].template = t /\ cronReq[h].step = "row" /\ cronReq[h].cron = c
  <2>1. PICK g \in CronHandlers : cronReq[g].step = "row" /\ cronReq[g].cron = c
    BY <1>2 DEF AtRow
  <2>2. CronRequestOK(g)
    BY DEF CronInv
  <2>3. cronReq[g].template = t
    BY <2>1, <2>2 DEF CronRequestOK, CronsOf, CronInv, CronKinds, CronRequests
  <2>4. QED
    BY <2>1, <2>3
<1>3. QED
  BY <1>1, <1>2

(* A step of one request, on one template.                                  *)
LEMMA OnceKept ==
    ASSUME CronAssumption, CronInv, CronOnce, NEW h \in CronHandlers, NEW t \in CronTemplates,
           NEW r, Replaces(h, r), cronReq[h].template \in {t, NoTemplate}, r.template \in {t, NoTemplate},
           OnlyCronsOf(t), cronFaults' = 0 => cronFaults = 0, cronMixed \subseteq cronMixed',
           \A g \in CronHandlers \ {h} : cronReq[g].template = t => t \in cronMixed',
           cronFaults' = 0 /\ t \notin cronMixed' =>
             /\ r.template = t => Course(h)'
             /\ ~cronTemplate'[t] => \A c \in CronsOf(t)' : ~cronArgo'[c].there
             /\ \A c \in Crons : CronsOf(t)' = {c} /\ cronArgo'[c].there =>
                  cronArgo'[c].manifest = cronRow'[c].manifest \/ (r.step = "row" /\ r.cron = c)
    PROVE  CronOnce'
<1>0. cronReq'[h] = r /\ (\A g \in CronHandlers \ {h} : cronReq'[g] = cronReq[g]) /\ t # NoTemplate
  BY DEF Replaces, CronAssumption
<1>1. ASSUME NEW x \in CronTemplates PROVE OnceOK(x)'
  <2>1. CASE x # t
    <3>1. \A g \in CronHandlers : cronReq[g].template = x \/ cronReq'[g].template = x => cronReq'[g] = cronReq[g]
      BY <1>0, <2>1 DEF CronAssumption
    <3>2. OnceOK(x)
      BY DEF CronOnce
    <3>3. QED
      BY <2>1, <3>1, <3>2, OnceFramed
  <2>2. CASE x = t
    <3>1. t \notin cronMixed' => \A g \in CronHandlers : cronReq'[g].template = t => g = h
      BY <1>0
    <3>2. \A c : r.step = "row" /\ r.cron = c => AtRow(c)'
      BY <1>0 DEF AtRow
    <3>3. QED
      BY <1>0, <2>2, <3>1, <3>2 DEF OnceOK
  <2>3. QED
    BY <2>1, <2>2
<1>2. ASSUME NEW k \in CronHandlers, NEW g \in CronHandlers \ {k} PROVE CronAlone(g, k)'
  <2>1. SUFFICES ASSUME cronReq'[g].template = cronReq'[k].template, cronReq'[k].template # NoTemplate
                 PROVE  cronReq'[k].template \in cronMixed'
    BY DEF CronAlone
  <2>2. CASE g # h /\ k # h
    BY <1>0, <2>1, <2>2 DEF CronAlone, CronOnce
  <2>3. CASE g = h \/ k = h
    BY <1>0, <2>1, <2>3
  <2>4. QED
    BY <2>2, <2>3
<1>3. QED
  BY <1>1, <1>2 DEF CronOnce

(* A step that only moves its request.                                      *)
LEMMA OnceMoves ==
    ASSUME CronAssumption, CronInv, CronOnce, NEW h \in CronHandlers, NEW t \in CronTemplates,
           NEW r, Replaces(h, r), cronReq[h].template \in {t, NoTemplate}, r.template \in {t, NoTemplate},
           UNCHANGED <<cronArgo, cronOf, cronTemplate>>, cronReq[h].step # "row",
           \A c \in Crons : cronRow'[c].manifest = cronRow[c].manifest,
           \A c \in Crons : cronRow'[c] # cronRow[c] => cronOf[c] = t,
           cronFaults' = 0 => cronFaults = 0, cronMixed \subseteq cronMixed',
           \A g \in CronHandlers \ {h} : cronReq[g].template = t => t \in cronMixed',
           cronFaults' = 0 /\ t \notin cronMixed' => (r.template = t => Course(h)')
    PROVE  CronOnce'
<1>1. OnlyCronsOf(t)
  BY DEF OnlyCronsOf
<1>2. cronFaults' = 0 /\ t \notin cronMixed' =>
        /\ ~cronTemplate'[t] => \A c \in CronsOf(t)' : ~cronArgo'[c].there
        /\ \A c \in Crons : CronsOf(t)' = {c} /\ cronArgo'[c].there => cronArgo'[c].manifest = cronRow'[c].manifest
  <2>1. SUFFICES ASSUME cronFaults' = 0, t \notin cronMixed'
                 PROVE  /\ ~cronTemplate'[t] => \A c \in CronsOf(t)' : ~cronArgo'[c].there
                        /\ \A c \in Crons : CronsOf(t)' = {c} /\ cronArgo'[c].there =>
                             cronArgo'[c].manifest = cronRow'[c].manifest
    OBVIOUS
  <2>2. /\ ~cronTemplate[t] => \A c \in CronsOf(t) : ~cronArgo[c].there
        /\ \A c \in Crons : CronsOf(t) = {c} /\ cronArgo[c].there => cronArgo[c].manifest = cronRow[c].manifest
    BY <2>1, OnceBefore
  <2>3. CronsOf(t)' = CronsOf(t)
    BY DEF CronsOf
  <2>4. QED
    BY <2>2, <2>3
<1>3. QED
  BY <1>1, <1>2, OnceKept

(* A request starts: it notes the requests on its template that it meets.   *)
LEMMA OnceStarts ==
    ASSUME CronAssumption, CronInv, NEW h \in CronHandlers, NEW r \in CronRequests, CronStart(h, r)
    PROVE  /\ Replaces(h, r) /\ cronReq[h].template = NoTemplate /\ cronReq[h].step = "idle" /\ cronReq[h].op = "idle"
           /\ cronMixed \subseteq cronMixed'
           /\ \A g \in CronHandlers : cronReq[g].template = r.template => r.template \in cronMixed'
<1>1. cronReq' = [cronReq EXCEPT ![h] = r] /\ CronKinds
  BY DEF CronStart, CronInv
<1>2. QED
  BY <1>1, RequestReplaced, IdleRequest DEF CronStart, CronQuiet

(* What a request that is not idle has.                                     *)
LEMMA OnceServes ==
    ASSUME CronAssumption, CronInv, CronOnce, NEW h \in CronHandlers, cronReq[h].op # "idle"
    PROVE  /\ CronRequestOK(h) /\ cronReq[h] \in CronRequests /\ cronReq[h].template \in CronTemplates
           /\ \A g \in CronHandlers \ {h} : cronReq[g].template = cronReq[h].template => cronReq[h].template \in cronMixed
<1>1. CronRequestOK(h) /\ cronReq[h] \in CronRequests /\ \A g \in CronHandlers \ {h} : CronAlone(g, h)
  BY DEF CronInv, CronKinds, CronOnce
<1>2. cronReq[h].template \in CronTemplates /\ NoTemplate \notin CronTemplates
  BY <1>1 DEF CronRequestOK, CronAssumption
<1>3. QED
  BY <1>1, <1>2 DEF CronAlone

LEMMA AskCronOnce ==
    ASSUME CronAssumption, CronInv, CronOnce, NEW h \in CronHandlers, NEW c \in Crons, NEW t \in CronTemplates,
           NEW s \in Schedules, AskCron(h, c, t, s)
    PROVE  CronOnce'
<1>0. PICK r \in CronRequests : CronStart(h, r) /\ r.op = "create" /\ r.step = "argo" /\ r.template = t
  <2> DEFINE q == [CronIdle EXCEPT !.op = "create", !.step = "argo", !.template = t, !.cron = c, !.schedule = s]
  <2>1. q \in CronRequests /\ q.op = "create" /\ q.step = "argo" /\ q.template = t
    BY DEF CronIdle, CronRequests, CronSteps
  <2>2. CronStart(h, q)
    BY DEF AskCron
  <2> HIDE DEF q
  <2>3. QED
    BY <2>1, <2>2
<1>1. /\ Replaces(h, r) /\ cronReq[h].template = NoTemplate /\ cronReq[h].step = "idle"
      /\ cronMixed \subseteq cronMixed'
      /\ \A g \in CronHandlers : cronReq[g].template = t => t \in cronMixed'
  BY <1>0, OnceStarts
<1>2. /\ cronOf[c] = NoTemplate /\ cronTemplate[t] /\ t # NoTemplate /\ ~cronArgo[c].there
      /\ UNCHANGED <<cronRow, cronArgo, cronTemplate, cronFaults>>
  BY DEF AskCron, CronInv, CronStoreOK, CronAssumption
<1>3. /\ cronOf'[c] = t
      /\ \A d \in Crons \ {c} : cronOf'[d] = cronOf[d]
  BY DEF AskCron, CronInv, CronKinds
<1>4. OnlyCronsOf(t)
  BY <1>2, <1>3 DEF OnlyCronsOf
<1>5. Course(h)'
  BY <1>0, <1>1, <1>2 DEF Course, Replaces
<1>6. \A d \in Crons : CronsOf(t)' = {d} => ~cronArgo'[d].there
  <2>1. c \in CronsOf(t)'
    BY <1>3 DEF CronsOf
  <2>2. QED
    BY <1>2, <2>1
<1>7. QED
  BY <1>0, <1>1, <1>2, <1>4, <1>5, <1>6, OnceKept

(* Only the request changes as an update begins, or the end of a template.  *)
LEMMA FindCronRowOnce ==
    ASSUME CronAssumption, CronInv, CronOnce, NEW h \in CronHandlers, NEW c \in Crons, NEW s \in Schedules,
           FindCronRow(h, c, s)
    PROVE  CronOnce'
<1>0. cronOf[c] \in CronTemplates
  BY DEF CronInv, CronKinds, CronStoreOK, FindCronRow
<1> PICK t \in CronTemplates : t = cronOf[c]
  BY <1>0
<1>1. PICK r \in CronRequests : CronStart(h, r) /\ r.op = "update" /\ r.step = "get" /\ r.template = t
  <2>1. PICK d \in LiveCrons(t) :
          CronStart(h, [CronIdle EXCEPT !.op = "update", !.step = "get", !.template = t,
                                        !.cron = c, !.row = d, !.schedule = s])
    BY DEF FindCronRow
  <2> DEFINE q == [CronIdle EXCEPT !.op = "update", !.step = "get", !.template = t, !.cron = c, !.row = d, !.schedule = s]
  <2>2. q \in CronRequests /\ q.op = "update" /\ q.step = "get" /\ q.template = t
    BY DEF CronIdle, CronRequests, CronSteps, LiveCrons
  <2> HIDE DEF q
  <2>3. QED
    BY <2>1, <2>2 DEF q
<1>2. /\ Replaces(h, r) /\ cronReq[h].template = NoTemplate /\ cronReq[h].step = "idle"
      /\ cronMixed \subseteq cronMixed'
      /\ \A g \in CronHandlers : cronReq[g].template = t => t \in cronMixed'
  BY <1>1, OnceStarts
<1>3. Course(h)'
  BY <1>1, <1>2 DEF Course, Replaces
<1>4. UNCHANGED <<cronRow, cronArgo, cronOf, cronTemplate, cronFaults>>
  BY DEF FindCronRow
<1>5. QED
  BY <1>1, <1>2, <1>3, <1>4, OnceMoves

LEMMA ArchiveTemplateOnce ==
    ASSUME CronAssumption, CronInv, CronOnce, NEW h \in CronHandlers, NEW t \in CronTemplates, ArchiveTemplate(h, t)
    PROVE  CronOnce'
<1>1. PICK r \in CronRequests :
        CronStart(h, r) /\ r.op = "archive" /\ r.step = "next" /\ r.template = t /\ r.todo = LiveCrons(t)
  <2> DEFINE q == [CronIdle EXCEPT !.op = "archive", !.step = "next", !.template = t, !.todo = LiveCrons(t)]
  <2>1. q \in CronRequests /\ q.op = "archive" /\ q.step = "next" /\ q.template = t /\ q.todo = LiveCrons(t)
    BY DEF CronIdle, CronRequests, CronSteps, LiveCrons
  <2>2. CronStart(h, q)
    BY DEF ArchiveTemplate
  <2> HIDE DEF q
  <2>3. QED
    BY <2>1, <2>2
<1>2. /\ Replaces(h, r) /\ cronReq[h].template = NoTemplate /\ cronReq[h].step = "idle"
      /\ cronMixed \subseteq cronMixed'
      /\ \A g \in CronHandlers : cronReq[g].template = t => t \in cronMixed'
  BY <1>1, OnceStarts
<1>3. cronTemplate[t] /\ UNCHANGED <<cronRow, cronArgo, cronOf, cronTemplate, cronFaults>>
  BY DEF ArchiveTemplate
<1>4. cronFaults = 0 /\ t \notin cronMixed' => \A c \in CronsOf(t) : cronArgo[c].there => c \in LiveCrons(t)
  <2>1. SUFFICES ASSUME cronFaults = 0, t \notin cronMixed', NEW c \in Crons, cronOf[c] = t, cronArgo[c].there
                 PROVE  cronRow[c].state = "Live"
    BY DEF CronsOf, LiveCrons
  <2>2. ~Creating(c)
    <3>1. ASSUME NEW g \in CronHandlers, cronReq[g].op = "create", cronReq[g].cron = c  PROVE cronReq[g].template = t
      BY <2>1, <3>1 DEF CronInv, CronRequestOK
    <3>2. QED
      BY <1>2, <2>1, <3>1 DEF Creating
  <2>3. CronStoreOK(c) /\ cronRow[c].state \in {"None", "Live", "Archived"}
    BY DEF CronInv, CronKinds
  <2>4. QED
    BY <2>1, <2>2, <2>3 DEF CronStoreOK
<1>5. cronFaults = 0 /\ t \notin cronMixed' => Course(h)'
  <2>1. CronsOf(t)' = CronsOf(t)
    BY <1>3 DEF CronsOf
  <2>2. QED
    BY <1>1, <1>2, <1>3, <1>4, <2>1 DEF Course, Replaces
<1>6. QED
  BY <1>1, <1>2, <1>3, <1>5, OnceMoves

(* A cron that Argo no longer has may say what it will.                     *)
LEMMA DeleteCronOnce ==
    ASSUME CronAssumption, CronInv, CronOnce, NEW h \in CronHandlers, NEW c \in Crons, DeleteCron(h, c)
    PROVE  CronOnce'
<1>0. cronOf[c] \in CronTemplates
  BY DEF CronInv, CronKinds, CronStoreOK, DeleteCron
<1> PICK t \in CronTemplates : t = cronOf[c]
  BY <1>0
<1>1. PICK r \in CronRequests : CronStart(h, r) /\ r.op = "terminate" /\ r.step = "find" /\ r.template = t
  <2> DEFINE q == [CronIdle EXCEPT !.op = "terminate", !.step = "find", !.template = t, !.cron = c]
  <2>1. q \in CronRequests /\ q.op = "terminate" /\ q.step = "find" /\ q.template = t
    BY DEF CronIdle, CronRequests, CronSteps
  <2>2. CronStart(h, q)
    BY DEF DeleteCron
  <2> HIDE DEF q
  <2>3. QED
    BY <2>1, <2>2
<1>2. /\ Replaces(h, r) /\ cronReq[h].template = NoTemplate /\ cronReq[h].step = "idle"
      /\ cronMixed \subseteq cronMixed'
      /\ \A g \in CronHandlers : cronReq[g].template = t => t \in cronMixed'
  BY <1>1, OnceStarts
<1>3. UNCHANGED <<cronRow, cronOf, cronTemplate, cronFaults>> /\ GoneFromArgo(c)
  BY ArgoGone DEF DeleteCron, CronInv
<1>4. OnlyCronsOf(t)
  BY <1>3 DEF OnlyCronsOf, GoneFromArgo
<1>5. Course(h)'
  BY <1>1, <1>2 DEF Course, Replaces
<1>6. CronsOf(t)' = CronsOf(t)
  BY <1>3 DEF CronsOf
<1>7. cronFaults = 0 /\ t \notin cronMixed' =>
        /\ ~cronTemplate'[t] => \A d \in CronsOf(t)' : ~cronArgo'[d].there
        /\ \A d \in Crons : CronsOf(t)' = {d} /\ cronArgo'[d].there => cronArgo'[d].manifest = cronRow'[d].manifest
  <2>1. SUFFICES ASSUME cronFaults = 0, t \notin cronMixed'
                 PROVE  /\ ~cronTemplate[t] => \A d \in CronsOf(t) : ~cronArgo'[d].there
                        /\ \A d \in Crons : CronsOf(t) = {d} /\ cronArgo'[d].there => cronArgo'[d].manifest = cronRow[d].manifest
    BY <1>3, <1>6
  <2>2. /\ ~cronTemplate[t] => \A d \in CronsOf(t) : ~cronArgo[d].there
        /\ \A d \in Crons : CronsOf(t) = {d} /\ cronArgo[d].there => cronArgo[d].manifest = cronRow[d].manifest
    BY <1>2, <2>1, OnceBefore
  <2>3. \A d \in Crons : cronArgo'[d].there => cronArgo'[d] = cronArgo[d]
    BY <1>3 DEF GoneFromArgo
  <2>4. QED
    BY <2>2, <2>3 DEF CronsOf
<1>8. QED
  BY <1>1, <1>2, <1>3, <1>4, <1>5, <1>7, OnceKept

(* A request that is alone on its template.                                 *)
LEMMA OnceTurn ==
    ASSUME CronAssumption, CronInv, CronOnce, NEW h \in CronHandlers, cronReq[h].op # "idle",
           NEW t \in CronTemplates, t = cronReq[h].template, cronFaults = 0, t \notin cronMixed
    PROVE  /\ Course(h)
           /\ ~cronTemplate[t] => \A c \in CronsOf(t) : ~cronArgo[c].there
           /\ \A c \in Crons : CronsOf(t) = {c} /\ cronArgo[c].there =>
                cronArgo[c].manifest = cronRow[c].manifest \/ (cronReq[h].step = "row" /\ cronReq[h].cron = c)
<1>1. \A g \in CronHandlers \ {h} : cronReq[g].template # t
  BY OnceServes
<1>2. QED
  BY <1>1, OnceBefore

(* The creation tells Argo what it will write.                              *)
LEMMA CreateArgoCronOnce ==
    ASSUME CronAssumption, CronInv, CronOnce, NEW h \in CronHandlers, CreateArgoCron(h)
    PROVE  CronOnce'
<1>0. cronReq[h].op = "create" /\ cronReq[h].step = "argo"
  BY DEF CreateArgoCron, CronAt
<1>1. /\ CronRequestOK(h) /\ cronReq[h] \in CronRequests /\ cronReq[h].template \in CronTemplates
      /\ \A g \in CronHandlers \ {h} : cronReq[g].template = cronReq[h].template => cronReq[h].template \in cronMixed
  BY <1>0, OnceServes
<1> PICK t \in CronTemplates : t = cronReq[h].template
  BY <1>1
<1>2. cronReq[h].cron \in Crons /\ cronOf[cronReq[h].cron] = t
  BY <1>0, <1>1 DEF CronRequestOK
<1> PICK c \in Crons : c = cronReq[h].cron
  BY <1>2
<1>3. PICK r \in CronRequests : /\ Replaces(h, r) /\ r.op = "create" /\ r.step = "row" /\ r.template = t
                                /\ r.cron = c /\ r.schedule = cronReq[h].schedule
  <2> DEFINE q == [cronReq[h] EXCEPT !.step = "row"]
  <2>1. q \in CronRequests /\ Alike(q, cronReq[h]) /\ q.step = "row" /\ q.cron = cronReq[h].cron
    BY <1>1, RequestMoved DEF CronSteps
  <2>2. cronReq' = [cronReq EXCEPT ![h] = q]
    BY DEF CreateArgoCron, CronMove
  <2> HIDE DEF q
  <2>3. Replaces(h, q)
    BY <2>1, <2>2, RequestReplaced DEF CronInv
  <2>4. QED
    BY <1>0, <2>1, <2>3 DEF Alike
<1>4. /\ UNCHANGED <<cronRow, cronOf, cronTemplate, cronFaults, cronMixed>>
      /\ cronArgo'[c].manifest = r.schedule /\ \A d \in Crons \ {c} : cronArgo'[d] = cronArgo[d]
  BY <1>3 DEF CreateArgoCron, CronInv, CronKinds
<1>5. OnlyCronsOf(t)
  BY <1>2, <1>4 DEF OnlyCronsOf
<1>6. CronsOf(t)' = CronsOf(t) /\ c \in CronsOf(t)
  BY <1>2, <1>4 DEF CronsOf
<1>7. cronFaults' = 0 /\ t \notin cronMixed' =>
        /\ Course(h)'
        /\ ~cronTemplate'[t] => \A d \in CronsOf(t)' : ~cronArgo'[d].there
        /\ \A d \in Crons : CronsOf(t)' = {d} /\ cronArgo'[d].there => r.step = "row" /\ r.cron = d
  <2>1. SUFFICES ASSUME cronFaults' = 0, t \notin cronMixed'
                 PROVE  /\ Course(h)' /\ cronTemplate'[t]
                        /\ \A d \in Crons : CronsOf(t)' = {d} => r.step = "row" /\ r.cron = d
    OBVIOUS
  <2>2. cronTemplate[t]
    BY <1>0, <1>4, <2>1, OnceTurn DEF Course
  <2>3. QED
    BY <1>3, <1>4, <1>6, <2>2 DEF Course, Replaces
<1>8. QED
  BY <1>1, <1>3, <1>4, <1>5, <1>7, OnceKept

(* And writes it.                                                           *)
LEMMA InsertCronOnce ==
    ASSUME CronAssumption, CronInv, CronOnce, NEW h \in CronHandlers, InsertCron(h)
    PROVE  CronOnce'
<1>0. cronReq[h].op = "create" /\ cronReq[h].step = "row"
  BY DEF InsertCron, CronAt
<1>1. /\ CronRequestOK(h) /\ cronReq[h] \in CronRequests /\ cronReq[h].template \in CronTemplates
      /\ \A g \in CronHandlers \ {h} : cronReq[g].template = cronReq[h].template => cronReq[h].template \in cronMixed
  BY <1>0, OnceServes
<1> PICK t \in CronTemplates : t = cronReq[h].template
  BY <1>1
<1>2. cronReq[h].cron \in Crons /\ cronOf[cronReq[h].cron] = t
  BY <1>0, <1>1 DEF CronRequestOK
<1> PICK c \in Crons : c = cronReq[h].cron
  BY <1>2
<1>3. Replaces(h, CronIdle)
  BY IdleRequest, RequestReplaced DEF InsertCron, CronDone, CronInv
<1>4. /\ UNCHANGED <<cronArgo, cronOf, cronTemplate, cronFaults, cronMixed>>
      /\ cronRow'[c].manifest = cronReq[h].schedule /\ \A d \in Crons \ {c} : cronRow'[d] = cronRow[d]
  BY DEF InsertCron, CronInv, CronKinds
<1>5. OnlyCronsOf(t)
  BY <1>2, <1>4 DEF OnlyCronsOf
<1>6. CronsOf(t)' = CronsOf(t) /\ c \in CronsOf(t)
  BY <1>2, <1>4 DEF CronsOf
<1>7. cronFaults' = 0 /\ t \notin cronMixed' =>
        /\ ~cronTemplate'[t] => \A d \in CronsOf(t)' : ~cronArgo'[d].there
        /\ \A d \in Crons : CronsOf(t)' = {d} => cronArgo'[d].manifest = cronRow'[d].manifest
  <2>1. SUFFICES ASSUME cronFaults = 0, t \notin cronMixed
                 PROVE  cronTemplate[t] /\ cronArgo[c].manifest = cronReq[h].schedule
    BY <1>4, <1>6
  <2>2. Course(h)
    BY <1>0, <2>1, OnceTurn
  <2>3. QED
    BY <1>0, <2>2 DEF Course
<1>8. CronIdle.template = NoTemplate /\ t # NoTemplate
  BY IdleRequest DEF CronAssumption
<1>9. QED
  BY <1>1, <1>3, <1>4, <1>5, <1>7, <1>8, OnceKept

(* The update goes on only with a template that is live.                    *)
LEMMA GetArgoCronOnce ==
    ASSUME CronAssumption, CronInv, CronOnce, NEW h \in CronHandlers, GetArgoCron(h)
    PROVE  CronOnce'
<1>0. cronReq[h].op = "update" /\ cronReq[h].step = "get"
  BY DEF GetArgoCron, CronAt
<1>1. /\ CronRequestOK(h) /\ cronReq[h] \in CronRequests /\ cronReq[h].template \in CronTemplates
      /\ \A g \in CronHandlers \ {h} : cronReq[g].template = cronReq[h].template => cronReq[h].template \in cronMixed
  BY <1>0, OnceServes
<1> PICK t \in CronTemplates : t = cronReq[h].template
  BY <1>1
<1>2. cronReq[h].cron \in Crons /\ cronOf[cronReq[h].cron] = t
  BY <1>0, <1>1 DEF CronRequestOK
<1> PICK c \in Crons : c = cronReq[h].cron
  BY <1>2
<1>3. UNCHANGED <<cronRow, cronArgo, cronOf, cronTemplate, cronFaults, cronMixed>>
  BY DEF GetArgoCron
<1>4. CASE cronArgo[c].there /\ cronTemplate[t]
  <2>1. PICK r \in CronRequests : Replaces(h, r) /\ r.op = "update" /\ r.step = "put" /\ r.template = t
    <3> DEFINE q == [cronReq[h] EXCEPT !.step = "put", !.write = cronArgo[c].write]
    <3>1. q \in CronRequests /\ Alike(q, cronReq[h]) /\ q.step = "put"
      BY <1>1 DEF CronRequests, CronSteps, Alike, CronInv, CronKinds
    <3>2. cronReq' = [cronReq EXCEPT ![h] = q]
      <4>1. cronReq' = [cronReq EXCEPT ![h].step = "put", ![h].write = cronArgo[c].write]
        BY <1>2, <1>4 DEF GetArgoCron
      <4>2. cronReq \in [CronHandlers -> CronRequests]
        BY DEF CronInv, CronKinds
      <4>3. QED
        BY <4>1, <4>2
    <3> HIDE DEF q
    <3>3. Replaces(h, q)
      BY <3>1, <3>2, RequestReplaced DEF CronInv
    <3>4. QED
      BY <1>0, <3>1, <3>3 DEF Alike
  <2>2. Course(h)'
    BY <1>3, <1>4, <2>1 DEF Course, Replaces
  <2>3. QED
    BY <1>0, <1>1, <1>3, <2>1, <2>2, OnceMoves
<1>5. CASE ~(cronArgo[c].there /\ cronTemplate[t])
  <2>1. Replaces(h, CronIdle)
    BY <1>2, <1>5, IdleRequest, RequestReplaced DEF GetArgoCron, CronDone, CronInv
  <2>2. CronIdle.template = NoTemplate /\ t # NoTemplate
    BY IdleRequest DEF CronAssumption
  <2>3. QED
    BY <1>0, <1>1, <1>3, <2>1, <2>2, OnceMoves
<1>6. QED
  BY <1>4, <1>5

(* It tells Argo what it will write, or the object has changed or is gone.  *)
LEMMA PutArgoCronOnce ==
    ASSUME CronAssumption, CronInv, CronOnce, NEW h \in CronHandlers, PutArgoCron(h)
    PROVE  CronOnce'
<1>0. cronReq[h].op = "update" /\ cronReq[h].step = "put"
  BY DEF PutArgoCron, CronAt
<1>1. /\ CronRequestOK(h) /\ cronReq[h] \in CronRequests /\ cronReq[h].template \in CronTemplates
      /\ \A g \in CronHandlers \ {h} : cronReq[g].template = cronReq[h].template => cronReq[h].template \in cronMixed
  BY <1>0, OnceServes
<1> PICK t \in CronTemplates : t = cronReq[h].template
  BY <1>1
<1>2. cronReq[h].cron \in Crons /\ cronOf[cronReq[h].cron] = t
  BY <1>0, <1>1 DEF CronRequestOK
<1> PICK c \in Crons : c = cronReq[h].cron
  BY <1>2
<1>3. UNCHANGED <<cronRow, cronOf, cronTemplate, cronFaults, cronMixed>>
  BY DEF PutArgoCron
<1>4. CASE cronArgo[c].there /\ cronArgo[c].write = cronReq[h].write
  <2>1. PICK r \in CronRequests : /\ Replaces(h, r) /\ r.op = "update" /\ r.step = "row" /\ r.template = t
                                  /\ r.cron = c /\ r.schedule = cronReq[h].schedule
    <3> DEFINE q == [cronReq[h] EXCEPT !.step = "row"]
    <3>1. q \in CronRequests /\ Alike(q, cronReq[h]) /\ q.step = "row" /\ q.cron = cronReq[h].cron
      BY <1>1, RequestMoved DEF CronSteps
    <3>2. cronReq' = [cronReq EXCEPT ![h] = q]
      BY <1>4 DEF PutArgoCron, CronMove
    <3> HIDE DEF q
    <3>3. Replaces(h, q)
      BY <3>1, <3>2, RequestReplaced DEF CronInv
    <3>4. QED
      BY <1>0, <3>1, <3>3 DEF Alike
  <2>2. cronArgo'[c].manifest = r.schedule /\ \A d \in Crons \ {c} : cronArgo'[d] = cronArgo[d]
    BY <1>4, <2>1 DEF PutArgoCron, CronInv, CronKinds
  <2>3. OnlyCronsOf(t)
    BY <1>2, <1>3, <2>2 DEF OnlyCronsOf
  <2>4. CronsOf(t)' = CronsOf(t) /\ c \in CronsOf(t)
    BY <1>2, <1>3 DEF CronsOf
  <2>5. cronFaults' = 0 /\ t \notin cronMixed' =>
          /\ Course(h)'
          /\ ~cronTemplate'[t] => \A d \in CronsOf(t)' : ~cronArgo'[d].there
          /\ \A d \in Crons : CronsOf(t)' = {d} /\ cronArgo'[d].there => r.step = "row" /\ r.cron = d
    <3>1. SUFFICES ASSUME cronFaults' = 0, t \notin cronMixed'
                   PROVE  /\ Course(h)' /\ cronTemplate'[t]
                          /\ \A d \in Crons : CronsOf(t)' = {d} => r.step = "row" /\ r.cron = d
      OBVIOUS
    <3>2. cronTemplate[t]
      BY <1>0, <1>3, <3>1, OnceTurn DEF Course
    <3>3. QED
      BY <1>3, <2>1, <2>2, <2>4, <3>2 DEF Course, Replaces
  <2>6. QED
    BY <1>1, <1>3, <2>1, <2>3, <2>5, OnceKept
<1>5. CASE ~(cronArgo[c].there /\ cronArgo[c].write = cronReq[h].write)
  <2>1. Replaces(h, CronIdle) /\ cronArgo' = cronArgo
    BY <1>5, IdleRequest, RequestReplaced DEF PutArgoCron, CronDone, CronInv
  <2>2. CronIdle.template = NoTemplate /\ t # NoTemplate
    BY IdleRequest DEF CronAssumption
  <2>3. QED
    BY <1>0, <1>1, <1>3, <2>1, <2>2, OnceMoves
<1>6. QED
  BY <1>4, <1>5

(* With one cron on the template, the row is the row of that cron.          *)
LEMMA WriteCronRowOnce ==
    ASSUME CronAssumption, CronInv, CronOnce, NEW h \in CronHandlers, WriteCronRow(h)
    PROVE  CronOnce'
<1>0. cronReq[h].op = "update" /\ cronReq[h].step = "row"
  BY DEF WriteCronRow, CronAt
<1>1. /\ CronRequestOK(h) /\ cronReq[h] \in CronRequests /\ cronReq[h].template \in CronTemplates
      /\ \A g \in CronHandlers \ {h} : cronReq[g].template = cronReq[h].template => cronReq[h].template \in cronMixed
  BY <1>0, OnceServes
<1> PICK t \in CronTemplates : t = cronReq[h].template
  BY <1>1
<1>2. /\ cronReq[h].cron \in Crons /\ cronOf[cronReq[h].cron] = t
      /\ cronReq[h].row \in Crons /\ cronOf[cronReq[h].row] = t
  BY <1>0, <1>1 DEF CronRequestOK
<1> PICK d \in Crons : d = cronReq[h].row
  BY <1>2
<1>3. Replaces(h, CronIdle)
  BY IdleRequest, RequestReplaced DEF WriteCronRow, CronDone, CronInv
<1>4. /\ UNCHANGED <<cronArgo, cronOf, cronTemplate, cronFaults, cronMixed>>
      /\ cronRow'[d].manifest = cronReq[h].schedule /\ \A c \in Crons \ {d} : cronRow'[c] = cronRow[c]
  BY DEF WriteCronRow, CronInv, CronKinds
<1>5. OnlyCronsOf(t)
  BY <1>2, <1>4 DEF OnlyCronsOf
<1>6. CronsOf(t)' = CronsOf(t) /\ d \in CronsOf(t) /\ cronReq[h].cron \in CronsOf(t)
  BY <1>2, <1>4 DEF CronsOf
<1>7. cronFaults' = 0 /\ t \notin cronMixed' =>
        /\ ~cronTemplate'[t] => \A c \in CronsOf(t)' : ~cronArgo'[c].there
        /\ \A c \in Crons : CronsOf(t)' = {c} => cronArgo'[c].manifest = cronRow'[c].manifest
  <2>1. SUFFICES ASSUME cronFaults = 0, t \notin cronMixed
                 PROVE  cronTemplate[t] /\ cronArgo[cronReq[h].cron].manifest = cronReq[h].schedule
    BY <1>4, <1>6
  <2>2. Course(h)
    BY <1>0, <2>1, OnceTurn
  <2>3. QED
    BY <1>0, <2>2 DEF Course
<1>8. CronIdle.template = NoTemplate /\ t # NoTemplate
  BY IdleRequest DEF CronAssumption
<1>9. QED
  BY <1>1, <1>3, <1>4, <1>5, <1>7, <1>8, OnceKept

(* Steps of a request that leave every schedule and Argo as they are.       *)
LEMMA FindRunsOnce ==
    ASSUME CronAssumption, CronInv, CronOnce, NEW h \in CronHandlers, FindRuns(h)
    PROVE  CronOnce'
<1>0. cronReq[h].op = "terminate" /\ cronReq[h].step = "find"
  BY DEF FindRuns, CronAt
<1>1. /\ CronRequestOK(h) /\ cronReq[h] \in CronRequests /\ cronReq[h].template \in CronTemplates
      /\ \A g \in CronHandlers \ {h} : cronReq[g].template = cronReq[h].template => cronReq[h].template \in cronMixed
  BY <1>0, OnceServes
<1> PICK t \in CronTemplates : t = cronReq[h].template
  BY <1>1
<1>2. UNCHANGED <<cronRow, cronArgo, cronOf, cronTemplate, cronFaults, cronMixed>>
  BY DEF FindRuns
<1>3. CASE cronRow[cronReq[h].cron].state = "Live"
  <2>1. PICK r \in CronRequests : Replaces(h, r) /\ r.op = "terminate" /\ r.step = "runs" /\ r.template = t
    <3> DEFINE q == [cronReq[h] EXCEPT !.step = "runs", !.todo = RunsOf(cronReq[h].cron)]
    <3>1. q \in CronRequests /\ Alike(q, cronReq[h]) /\ q.step = "runs"
      <4>1. RunsOf(cronReq[h].cron) \in SUBSET (Crons \cup CronRuns)
        BY DEF RunsOf
      <4>2. QED
        BY <1>1, <4>1 DEF CronRequests, CronSteps, Alike
    <3>2. cronReq' = [cronReq EXCEPT ![h] = q]
      <4>1. cronReq' = [cronReq EXCEPT ![h].step = "runs", ![h].todo = RunsOf(cronReq[h].cron)]
        BY <1>3 DEF FindRuns
      <4>2. cronReq \in [CronHandlers -> CronRequests]
        BY DEF CronInv, CronKinds
      <4>3. QED
        BY <4>1, <4>2
    <3> HIDE DEF q
    <3>3. Replaces(h, q)
      BY <3>1, <3>2, RequestReplaced DEF CronInv
    <3>4. QED
      BY <1>0, <3>1, <3>3 DEF Alike
  <2>2. Course(h)'
    BY <2>1 DEF Course, Replaces
  <2>3. QED
    BY <1>0, <1>1, <1>2, <2>1, <2>2, OnceMoves
<1>4. CASE cronRow[cronReq[h].cron].state # "Live"
  <2>1. Replaces(h, CronIdle)
    BY <1>4, IdleRequest, RequestReplaced DEF FindRuns, CronDone, CronInv
  <2>2. CronIdle.template = NoTemplate /\ t # NoTemplate
    BY IdleRequest DEF CronAssumption
  <2>3. QED
    BY <1>0, <1>1, <1>2, <2>1, <2>2, OnceMoves
<1>5. QED
  BY <1>3, <1>4

LEMMA ArchiveRunOnce ==
    ASSUME CronAssumption, CronInv, CronOnce, NEW h \in CronHandlers, ArchiveRun(h)
    PROVE  CronOnce'
<1>0. cronReq[h].op = "terminate" /\ cronReq[h].step = "runs"
  BY DEF ArchiveRun, CronAt
<1>1. /\ CronRequestOK(h) /\ cronReq[h] \in CronRequests /\ cronReq[h].template \in CronTemplates
      /\ \A g \in CronHandlers \ {h} : cronReq[g].template = cronReq[h].template => cronReq[h].template \in cronMixed
  BY <1>0, OnceServes
<1> PICK t \in CronTemplates : t = cronReq[h].template
  BY <1>1
<1>2. UNCHANGED <<cronRow, cronArgo, cronOf, cronTemplate, cronFaults, cronMixed>>
  BY DEF ArchiveRun
<1>3. PICK r \in CronRequests : Replaces(h, r) /\ r.op = "terminate" /\ r.step = "runs" /\ r.template = t
  <2>1. PICK i \in cronReq[h].todo : cronReq' = [cronReq EXCEPT ![h].todo = @ \ {i}]
    BY DEF ArchiveRun
  <2> DEFINE d == cronReq[h].todo \ {i}
             q == [cronReq[h] EXCEPT !.todo = d]
  <2>2. d \in SUBSET (Crons \cup CronRuns)
    BY <1>1 DEF CronRequests
  <2>3. cronReq' = [cronReq EXCEPT ![h] = q]
    BY <2>1
  <2> HIDE DEF d
  <2>4. q \in CronRequests /\ Alike(q, cronReq[h]) /\ q.step = cronReq[h].step
    BY <1>1, <2>2, RequestAdvanced
  <2> HIDE DEF q
  <2>5. Replaces(h, q)
    BY <2>3, <2>4, RequestReplaced DEF CronInv
  <2>6. QED
    BY <1>0, <2>4, <2>5 DEF Alike
<1>4. Course(h)'
  BY <1>3 DEF Course, Replaces
<1>5. QED
  BY <1>0, <1>1, <1>2, <1>3, <1>4, OnceMoves

(* A row that is archived says what it said.                                *)
LEMMA RowKept ==
    ASSUME CronKinds, NEW c \in Crons, Keep(c, "Archived")
    PROVE  /\ \A d \in Crons : cronRow'[d].manifest = cronRow[d].manifest
           /\ \A d \in Crons \ {c} : cronRow'[d] = cronRow[d]
<1> DEFINE o == cronRow[c]
           e == [o EXCEPT !.state = "Archived"]
<1>1. cronRow \in [Crons -> RowKinds]
  BY DEF CronKinds, RowKinds
<1>2. e \in RowKinds /\ e.manifest = cronRow[c].manifest
  BY <1>1, RowArchived
<1>3. cronRow' = [cronRow EXCEPT ![c] = e]
  BY DEF Keep
<1> HIDE DEF e
<1>4. cronRow'[c] = e /\ \A d \in Crons \ {c} : cronRow'[d] = cronRow[d]
  BY <1>1, <1>2, <1>3
<1>5. QED
  BY <1>2, <1>4

LEMMA MarkTerminatedCronOnce ==
    ASSUME CronAssumption, CronInv, CronOnce, NEW h \in CronHandlers, MarkTerminatedCron(h)
    PROVE  CronOnce'
<1>0. cronReq[h].op = "terminate" /\ cronReq[h].step = "runs"
  BY DEF MarkTerminatedCron, CronAt
<1>1. /\ CronRequestOK(h) /\ cronReq[h] \in CronRequests /\ cronReq[h].template \in CronTemplates
      /\ \A g \in CronHandlers \ {h} : cronReq[g].template = cronReq[h].template => cronReq[h].template \in cronMixed
  BY <1>0, OnceServes
<1> PICK t \in CronTemplates : t = cronReq[h].template
  BY <1>1
<1>2. cronReq[h].cron \in Crons /\ cronOf[cronReq[h].cron] = t
  BY <1>0, <1>1 DEF CronRequestOK
<1>3. UNCHANGED <<cronArgo, cronOf, cronTemplate, cronFaults, cronMixed>>
  BY DEF MarkTerminatedCron
<1>4. /\ \A d \in Crons : cronRow'[d].manifest = cronRow[d].manifest
      /\ \A d \in Crons : cronRow'[d] # cronRow[d] => cronOf[d] = t
  BY <1>2, RowKept DEF MarkTerminatedCron, CronInv
<1>5. Replaces(h, CronIdle) /\ CronIdle.template = NoTemplate /\ t # NoTemplate
  BY IdleRequest, RequestReplaced DEF MarkTerminatedCron, CronDone, CronInv, CronAssumption
<1>6. QED
  BY <1>0, <1>1, <1>3, <1>4, <1>5, OnceMoves

LEMMA MarkArchivedCronOnce ==
    ASSUME CronAssumption, CronInv, CronOnce, NEW h \in CronHandlers, MarkArchivedCron(h)
    PROVE  CronOnce'
<1>0. cronReq[h].op = "archive" /\ cronReq[h].step = "mark"
  BY DEF MarkArchivedCron, CronAt
<1>1. /\ CronRequestOK(h) /\ cronReq[h] \in CronRequests /\ cronReq[h].template \in CronTemplates
      /\ \A g \in CronHandlers \ {h} : cronReq[g].template = cronReq[h].template => cronReq[h].template \in cronMixed
  BY <1>0, OnceServes
<1> PICK t \in CronTemplates : t = cronReq[h].template
  BY <1>1
<1>2. cronReq[h].cron \in Crons /\ cronOf[cronReq[h].cron] = t
  BY <1>0, <1>1 DEF CronRequestOK
<1>3. UNCHANGED <<cronArgo, cronOf, cronTemplate, cronFaults, cronMixed>>
  BY DEF MarkArchivedCron
<1>4. /\ \A d \in Crons : cronRow'[d].manifest = cronRow[d].manifest
      /\ \A d \in Crons : cronRow'[d] # cronRow[d] => cronOf[d] = t
  BY <1>2, RowKept DEF MarkArchivedCron, CronInv
<1>5. PICK r \in CronRequests : /\ Replaces(h, r) /\ r.op = "archive" /\ r.step = "next" /\ r.template = t
                                /\ r.todo = cronReq[h].todo
  <2> DEFINE q == [cronReq[h] EXCEPT !.step = "next"]
  <2>1. q \in CronRequests /\ Alike(q, cronReq[h]) /\ q.step = "next" /\ q.todo = cronReq[h].todo
    BY <1>1, RequestMoved DEF CronSteps
  <2>2. cronReq' = [cronReq EXCEPT ![h] = q]
    BY DEF MarkArchivedCron, CronMove
  <2> HIDE DEF q
  <2>3. Replaces(h, q)
    BY <2>1, <2>2, RequestReplaced DEF CronInv
  <2>4. QED
    BY <1>0, <2>1, <2>3 DEF Alike
<1>6. cronFaults' = 0 /\ t \notin cronMixed' => Course(h)'
  <2>1. SUFFICES ASSUME cronFaults = 0, t \notin cronMixed  PROVE Course(h)'
    BY <1>3
  <2>2. Course(h)
    BY <1>0, <2>1, OnceTurn
  <2>3. CronsOf(t)' = CronsOf(t)
    BY <1>3 DEF CronsOf
  <2>4. QED
    BY <1>0, <1>3, <1>5, <2>2, <2>3 DEF Course, Replaces
<1>7. QED
  BY <1>0, <1>1, <1>3, <1>4, <1>5, <1>6, OnceMoves

(* Argo has at most the crons that are still to be ended.                   *)
LEMMA DeleteArgoCronOnce ==
    ASSUME CronAssumption, CronInv, CronOnce, NEW h \in CronHandlers, DeleteArgoCron(h)
    PROVE  CronOnce'
<1>0. cronReq[h].op = "archive" /\ cronReq[h].step = "next"
  BY DEF DeleteArgoCron, CronAt
<1>1. /\ CronRequestOK(h) /\ cronReq[h] \in CronRequests /\ cronReq[h].template \in CronTemplates
      /\ \A g \in CronHandlers \ {h} : cronReq[g].template = cronReq[h].template => cronReq[h].template \in cronMixed
  BY <1>0, OnceServes
<1> PICK t \in CronTemplates : t = cronReq[h].template
  BY <1>1
<1>2. PICK c \in cronReq[h].todo :
        /\ cronArgo' = [cronArgo EXCEPT ![c].there = FALSE]
        /\ cronReq' = IF cronArgo[c].there
                      THEN [cronReq EXCEPT ![h].step = "mark", ![h].cron = c, ![h].todo = @ \ {c}]
                      ELSE [cronReq EXCEPT ![h].todo = @ \ {c}]
  BY DEF DeleteArgoCron
<1>3. c \in Crons /\ cronOf[c] = t
  BY <1>0, <1>1 DEF CronRequestOK
<1>4. UNCHANGED <<cronRow, cronOf, cronTemplate, cronFaults, cronMixed>> /\ GoneFromArgo(c)
  BY <1>2, <1>3, ArgoGone DEF DeleteArgoCron, CronInv
<1>5. OnlyCronsOf(t)
  BY <1>3, <1>4 DEF OnlyCronsOf, GoneFromArgo
<1>6. PICK r \in CronRequests : /\ Replaces(h, r) /\ r.op = "archive" /\ r.step \in {"next", "mark"} /\ r.template = t
                                /\ r.todo = cronReq[h].todo \ {c}
  <2> DEFINE d == cronReq[h].todo \ {c}
  <2>0. d \in SUBSET (Crons \cup CronRuns) /\ cronReq \in [CronHandlers -> CronRequests]
    BY <1>1 DEF CronRequests, CronInv, CronKinds
  <2>1. CASE cronArgo[c].there
    <3> DEFINE q == [cronReq[h] EXCEPT !.step = "mark", !.cron = c, !.todo = d]
    <3>1. q \in CronRequests /\ Alike(q, cronReq[h]) /\ q.step = "mark" /\ q.todo = d
      <4> HIDE DEF d
      <4>1. QED
        BY <1>1, <1>3, <2>0 DEF CronRequests, CronSteps, Alike
    <3>2. cronReq' = [cronReq EXCEPT ![h] = q]
      BY <1>2, <2>0, <2>1
    <3> HIDE DEF q
    <3>3. Replaces(h, q)
      BY <3>1, <3>2, RequestReplaced DEF CronInv
    <3>4. QED
      BY <1>0, <3>1, <3>3 DEF Alike
  <2>2. CASE ~cronArgo[c].there
    <3> DEFINE q == [cronReq[h] EXCEPT !.todo = d]
    <3>1. cronReq' = [cronReq EXCEPT ![h] = q]
      BY <1>2, <2>0, <2>2
    <3>2. q \in CronRequests /\ Alike(q, cronReq[h]) /\ q.step = cronReq[h].step /\ q.todo = d
      <4> HIDE DEF d
      <4>1. QED
        BY <1>1, <2>0, RequestAdvanced
    <3> HIDE DEF q
    <3>3. Replaces(h, q)
      BY <3>1, <3>2, RequestReplaced DEF CronInv
    <3>4. QED
      BY <1>0, <3>2, <3>3 DEF Alike
  <2>3. QED
    BY <2>1, <2>2
<1>7. CronsOf(t)' = CronsOf(t)
  BY <1>4 DEF CronsOf
<1>8. cronFaults' = 0 /\ t \notin cronMixed' =>
        /\ Course(h)'
        /\ ~cronTemplate'[t] => \A d \in CronsOf(t)' : ~cronArgo'[d].there
        /\ \A d \in Crons : CronsOf(t)' = {d} /\ cronArgo'[d].there => cronArgo'[d].manifest = cronRow'[d].manifest
  <2>1. SUFFICES ASSUME cronFaults = 0, t \notin cronMixed
                 PROVE  /\ Course(h)'
                        /\ ~cronTemplate[t] => \A d \in CronsOf(t) : ~cronArgo'[d].there
                        /\ \A d \in Crons : CronsOf(t) = {d} /\ cronArgo'[d].there =>
                             cronArgo'[d].manifest = cronRow[d].manifest
    BY <1>4, <1>7
  <2>2. /\ Course(h)
        /\ ~cronTemplate[t] => \A d \in CronsOf(t) : ~cronArgo[d].there
        /\ \A d \in Crons : CronsOf(t) = {d} /\ cronArgo[d].there => cronArgo[d].manifest = cronRow[d].manifest
    BY <1>0, <2>1, OnceTurn
  <2>3. \A d \in Crons : cronArgo'[d].there => d # c /\ cronArgo'[d] = cronArgo[d]
    BY <1>4 DEF GoneFromArgo
  <2>4. Course(h)'
    <3>1. \A d \in CronsOf(t) : cronArgo'[d].there => d \in cronReq[h].todo \ {c}
      BY <1>0, <2>2, <2>3 DEF Course, CronsOf
    <3>2. QED
      BY <1>0, <1>4, <1>6, <1>7, <2>2, <3>1 DEF Course, Replaces
  <2>5. QED
    BY <2>2, <2>3, <2>4 DEF CronsOf
<1>9. QED
  BY <1>1, <1>4, <1>5, <1>6, <1>8, OnceKept

(* None is left to end, so Argo has none.                                   *)
LEMMA ArchiveRunsOnce ==
    ASSUME CronAssumption, CronInv, CronOnce, NEW h \in CronHandlers, ArchiveRuns(h)
    PROVE  CronOnce'
<1>0. cronReq[h].op = "archive" /\ cronReq[h].step = "next" /\ cronReq[h].todo = {}
  BY DEF ArchiveRuns, CronAt
<1>1. /\ CronRequestOK(h) /\ cronReq[h] \in CronRequests /\ cronReq[h].template \in CronTemplates
      /\ \A g \in CronHandlers \ {h} : cronReq[g].template = cronReq[h].template => cronReq[h].template \in cronMixed
  BY <1>0, OnceServes
<1> PICK t \in CronTemplates : t = cronReq[h].template
  BY <1>1
<1>2. UNCHANGED <<cronRow, cronArgo, cronOf, cronTemplate, cronFaults, cronMixed>>
  BY DEF ArchiveRuns
<1>3. PICK r \in CronRequests : Replaces(h, r) /\ r.op = "archive" /\ r.step = "template" /\ r.template = t
  <2> DEFINE q == [cronReq[h] EXCEPT !.step = "template"]
  <2>1. q \in CronRequests /\ Alike(q, cronReq[h]) /\ q.step = "template"
    BY <1>1, RequestMoved DEF CronSteps
  <2>2. cronReq' = [cronReq EXCEPT ![h] = q]
    BY DEF ArchiveRuns, CronMove
  <2> HIDE DEF q
  <2>3. Replaces(h, q)
    BY <2>1, <2>2, RequestReplaced DEF CronInv
  <2>4. QED
    BY <1>0, <2>1, <2>3 DEF Alike
<1>4. cronFaults' = 0 /\ t \notin cronMixed' => Course(h)'
  <2>1. SUFFICES ASSUME cronFaults = 0, t \notin cronMixed  PROVE Course(h)'
    BY <1>2
  <2>2. Course(h)
    BY <1>0, <2>1, OnceTurn
  <2>3. \A c \in CronsOf(t) : ~cronArgo[c].there
    BY <1>0, <2>2 DEF Course
  <2>4. CronsOf(t)' = CronsOf(t)
    BY <1>2 DEF CronsOf
  <2>5. QED
    BY <1>0, <1>2, <1>3, <2>2, <2>3, <2>4 DEF Course, Replaces
<1>5. QED
  BY <1>0, <1>1, <1>2, <1>3, <1>4, OnceMoves

(* The template goes when Argo has none of its crons.                       *)
LEMMA MarkTemplateOnce ==
    ASSUME CronAssumption, CronInv, CronOnce, NEW h \in CronHandlers, MarkTemplate(h)
    PROVE  CronOnce'
<1>0. cronReq[h].op = "archive" /\ cronReq[h].step = "template"
  BY DEF MarkTemplate, CronAt
<1>1. /\ CronRequestOK(h) /\ cronReq[h] \in CronRequests /\ cronReq[h].template \in CronTemplates
      /\ \A g \in CronHandlers \ {h} : cronReq[g].template = cronReq[h].template => cronReq[h].template \in cronMixed
  BY <1>0, OnceServes
<1> PICK t \in CronTemplates : t = cronReq[h].template
  BY <1>1
<1>2. UNCHANGED <<cronRow, cronArgo, cronOf, cronFaults, cronMixed>> /\ cronTemplate' = [cronTemplate EXCEPT ![t] = FALSE]
  BY DEF MarkTemplate
<1>3. OnlyCronsOf(t)
  BY <1>2 DEF OnlyCronsOf, CronInv, CronKinds
<1>4. Replaces(h, CronIdle) /\ CronIdle.template = NoTemplate /\ t # NoTemplate
  BY IdleRequest, RequestReplaced DEF MarkTemplate, CronDone, CronInv, CronAssumption
<1>5. cronFaults' = 0 /\ t \notin cronMixed' =>
        /\ \A c \in CronsOf(t)' : ~cronArgo'[c].there
        /\ \A c \in Crons : CronsOf(t)' = {c} => ~cronArgo'[c].there
  <2>1. SUFFICES ASSUME cronFaults = 0, t \notin cronMixed  PROVE \A c \in CronsOf(t) : ~cronArgo[c].there
    BY <1>2 DEF CronsOf
  <2>2. Course(h)
    BY <1>0, <2>1, OnceTurn
  <2>3. QED
    BY <1>0, <2>2 DEF Course
<1>6. QED
  BY <1>1, <1>2, <1>3, <1>4, <1>5, OnceKept

(* From here on nothing is promised.                                        *)
LEMMA CronBreakOffOnce ==
    ASSUME CronAssumption, CronInv, CronOnce, NEW h \in CronHandlers, CronBreakOff(h)
    PROVE  CronOnce'
<1>1. cronReq' = [cronReq EXCEPT ![h] = CronIdle] /\ cronFaults' = cronFaults + 1 /\ cronMixed' = cronMixed
  BY DEF CronBreakOff, CronDone
<1>2. Replaces(h, CronIdle) /\ CronIdle.template = NoTemplate
  BY <1>1, IdleRequest, RequestReplaced DEF CronInv
<1>3. cronFaults' # 0
  BY <1>1 DEF CronInv, CronKinds
<1>4. \A t \in CronTemplates : OnceOK(t)'
  BY <1>3 DEF OnceOK
<1>5. \A k \in CronHandlers : \A g \in CronHandlers \ {k} : CronAlone(g, k)'
  BY <1>1, <1>2 DEF CronOnce, CronAlone, Replaces
<1>6. QED
  BY <1>4, <1>5 DEF CronOnce
----------------------------------------------------------------------------
(* Runs do not count.                                                       *)
LEMMA OnceUntouched ==
    ASSUME CronOnce, UNCHANGED <<cronRow, cronArgo, cronOf, cronTemplate, cronReq, cronFaults, cronMixed>>
    PROVE  CronOnce'
  BY DEF CronOnce, OnceOK, CronAlone, Course, CronsOf, AtRow

LEMMA CronOnceAtFirst ==
    ASSUME CronInit
    PROVE  CronOnce
<1>1. \A t \in CronTemplates : OnceOK(t)
  BY IdleRequest, CronAssumption DEF CronInit, OnceOK, Course
<1>2. \A h \in CronHandlers : \A g \in CronHandlers \ {h} : CronAlone(g, h)
  BY IdleRequest DEF CronInit, CronAlone
<1>3. QED
  BY <1>1, <1>2 DEF CronOnce

(* One lemma for each action.                                               *)
LEMMA CronOnceKept ==
    ASSUME CronAssumption, CronInv, CronOnce, [CronNext]_cronVars
    PROVE  CronOnce'
<1>1. ASSUME NEW h \in CronHandlers, NEW c \in Crons, NEW s \in Schedules, FindCronRow(h, c, s)
      PROVE  CronOnce'
  BY <1>1, FindCronRowOnce
<1>2. ASSUME NEW h \in CronHandlers, NEW c \in Crons, NEW t \in CronTemplates, NEW s \in Schedules, AskCron(h, c, t, s)
      PROVE  CronOnce'
  BY <1>2, AskCronOnce
<1>3. ASSUME NEW h \in CronHandlers, NEW c \in Crons, DeleteCron(h, c)  PROVE CronOnce'
  BY <1>3, DeleteCronOnce
<1>4. ASSUME NEW h \in CronHandlers, NEW t \in CronTemplates, ArchiveTemplate(h, t)  PROVE CronOnce'
  BY <1>4, ArchiveTemplateOnce
<1>5. ASSUME NEW h \in CronHandlers, CreateArgoCron(h) \/ InsertCron(h)  PROVE CronOnce'
  BY <1>5, CreateArgoCronOnce, InsertCronOnce
<1>6. ASSUME NEW h \in CronHandlers, GetArgoCron(h) \/ PutArgoCron(h) \/ WriteCronRow(h)  PROVE CronOnce'
  BY <1>6, GetArgoCronOnce, PutArgoCronOnce, WriteCronRowOnce
<1>7. ASSUME NEW h \in CronHandlers, FindRuns(h) \/ ArchiveRun(h) \/ MarkTerminatedCron(h)  PROVE CronOnce'
  BY <1>7, FindRunsOnce, ArchiveRunOnce, MarkTerminatedCronOnce
<1>8. ASSUME NEW h \in CronHandlers, DeleteArgoCron(h) \/ MarkArchivedCron(h) \/ ArchiveRuns(h) \/ MarkTemplate(h)
      PROVE  CronOnce'
  BY <1>8, DeleteArgoCronOnce, MarkArchivedCronOnce, ArchiveRunsOnce, MarkTemplateOnce
<1>9. ASSUME NEW h \in CronHandlers, CronBreakOff(h)  PROVE CronOnce'
  BY <1>9, CronBreakOffOnce
<1>10. ASSUME NEW i \in CronRuns, InsertRun(i) \/ \E c \in Crons : CronFires(c, i)  PROVE CronOnce'
  BY <1>10, OnceUntouched DEF InsertRun, CronFires
<1>11. CASE UNCHANGED cronVars
  BY <1>11, OnceUntouched DEF cronVars
<1>12. QED
  BY <1>1, <1>2, <1>3, <1>4, <1>5, <1>6, <1>7, <1>8, <1>9, <1>10, <1>11 DEF CronNext

(* What a template whose requests come one at a time can rely on, in every  *)
(* state.                                                                   *)
THEOREM CronOnceInvariant == CronSpec => []CronOnce
<1>1. CronInit => CronOnce
  BY CronOnceAtFirst
<1>2. CronInv /\ CronOnce /\ [CronNext]_cronVars => CronOnce'
  BY CronOnceKept, CronAssumption
<1>3. QED
  BY <1>1, <1>2, CronInvariant, PTL DEF CronSpec

(* The schedule a user reads is the one Argo follows, for a template with   *)
(* one cron whose requests did not overlap (CreateCronWorkflow,             *)
(* UpdateCronWorkflow).                                                     *)
THEOREM SchedulesStayEqual == CronSpec => []SchedulesAgree
<1>1. CronInv /\ CronOnce => SchedulesAgree
  <2> SUFFICES ASSUME CronInv, CronOnce, cronFaults = 0, NEW t \in CronTemplates, CronQuiet(t), t \notin cronMixed,
                      NEW c \in Crons, cronArgo[c].there, CronsOf(t) = {c}
               PROVE  cronArgo[c].manifest = cronRow[c].manifest
    BY DEF SchedulesAgree, CronsOf
  <2>1. cronArgo[c].manifest = cronRow[c].manifest \/ AtRow(c)
    BY DEF CronOnce, OnceOK
  <2>2. ASSUME NEW h \in CronHandlers, cronReq[h].step = "row", cronReq[h].cron = c  PROVE FALSE
    <3>1. CronRequestOK(h) /\ cronOf[c] = t
      BY DEF CronInv, CronsOf
    <3>2. cronReq[h].op \in {"create", "update"}
      BY <2>2, <3>1 DEF CronRequestOK, CronInv, CronKinds, CronRequests
    <3>3. QED
      BY <2>2, <3>1, <3>2 DEF CronRequestOK, CronQuiet
  <2>3. QED
    BY <2>1, <2>2 DEF AtRow
<1>2. QED
  BY <1>1, CronInvariant, CronOnceInvariant, PTL

(* What the API says of a cron workflow, that it exists and when it runs,   *)
(* is what Argo does.                                                       *)
THEOREM CronsStayAgreed == CronSpec => []CronAgrees
<1>1. RowsLiveInArgo /\ SchedulesAgree => CronAgrees
  BY DEF CronAgrees
<1>2. QED
  BY <1>1, RowsStayLiveInArgo, SchedulesStayEqual, PTL

(* Argo starts no runs for a template that is archived, unless requests for *)
(* it overlapped or one failed (ArchiveWorkflowTemplate).                   *)
THEOREM NoCronIsLeft == CronSpec => []NoCronOutlives
<1>1. CronOnce => NoCronOutlives
  BY DEF CronOnce, OnceOK, NoCronOutlives, CronsOf
<1>2. QED
  BY <1>1, CronOnceInvariant, PTL

(* Archiving ends what belonged to the template or to the cron workflow     *)
(* (ArchiveWorkflowTemplate, ArchiveCronWorkflow).                          *)
THEOREM NothingIsLeft == CronSpec => []NothingOutlives
<1>1. NoCronOutlives /\ RunsEndWithCron => NothingOutlives
  BY DEF NothingOutlives
<1>2. QED
  BY <1>1, NoCronIsLeft, RunsAreArchived, PTL

----------------------------------------------------------------------------
(* The bounds: an object is written at most once by each update.            *)

(* The updates that may still write their object.                           *)
Putting == {h \in CronHandlers : cronReq[h].op = "update" /\ cronReq[h].step \in {"get", "put"}}

CronCounted ==
    /\ cronWrites \in 0..MaxCronWrites /\ cronFaults \in 0..MaxCronFaults
    /\ IsFiniteSet(Putting)
    /\ \A c \in Crons : cronArgo[c].write + Cardinality(Putting) <= cronWrites

LEMMA CronCountedAtFirst == CronInit => CronCounted
<1> SUFFICES ASSUME CronInit  PROVE CronCounted
  OBVIOUS
<1>1. Putting = {}
  BY DEF CronInit, CronIdle, Putting
<1>2. IsFiniteSet(Putting) /\ Cardinality(Putting) = 0
  BY <1>1, FS_EmptySet
<1>3. QED
  BY <1>2, CronAssumption DEF CronInit, CronCounted

(* A step after which no more updates may write, and no object has been     *)
(* written.                                                                 *)
LEMMA CountedOnFewer ==
    ASSUME CronKinds, CronCounted, Putting' \subseteq Putting, cronWrites' = cronWrites,
           cronFaults' \in 0..MaxCronFaults,
           \A c \in Crons : cronArgo'[c].write \in Nat /\ cronArgo'[c].write <= cronArgo[c].write
    PROVE  CronCounted'
<1>1. IsFiniteSet(Putting') /\ Cardinality(Putting') <= Cardinality(Putting)
  BY FS_Subset DEF CronCounted
<1>2. Cardinality(Putting) \in Nat /\ Cardinality(Putting') \in Nat
  BY <1>1, FS_CardinalityType DEF CronCounted
<1>3. \A c \in Crons : cronArgo[c].write \in Nat
  BY DEF CronKinds
<1>4. QED
  BY <1>1, <1>2, <1>3, CronAssumption DEF CronCounted

(* An update that begins, and one that writes its object.                   *)
LEMMA CountedOnFind ==
    ASSUME CronKinds, CronCounted, NEW h \in CronHandlers, NEW c \in Crons, NEW s \in Schedules,
           FindCronRow(h, c, s)
    PROVE  CronCounted'
<1>1. h \notin Putting
  BY DEF FindCronRow, CronStart, CronIdle, Putting
<1>2. Putting' = Putting \cup {h}
  BY DEF FindCronRow, CronStart, CronIdle, Putting, CronKinds
<1>3. IsFiniteSet(Putting') /\ Cardinality(Putting') = Cardinality(Putting) + 1
  BY <1>1, <1>2, FS_AddElement DEF CronCounted
<1>4. Cardinality(Putting) \in Nat /\ \A d \in Crons : cronArgo[d].write \in Nat
  BY FS_CardinalityType DEF CronCounted, CronKinds
<1>5. QED
  BY <1>3, <1>4, CronAssumption DEF FindCronRow, CronCounted

LEMMA CountedOnPut ==
    ASSUME CronKinds, CronCounted, NEW h \in CronHandlers, PutArgoCron(h)
    PROVE  CronCounted'
<1> DEFINE c == cronReq[h].cron
<1>1. h \in Putting
  BY DEF PutArgoCron, CronAt, Putting
<1>2. Putting' = Putting \ {h}
  <2>1. \E r : r.step \notin {"get", "put"} /\ cronReq' = [cronReq EXCEPT ![h] = r]
    <3>1. CASE CronMove(h, "row")
      <4>1. [cronReq[h] EXCEPT !.step = "row"].step = "row"
        BY DEF CronKinds, CronRequests
      <4>2. QED
        BY <3>1, <4>1 DEF CronMove
    <3>2. CASE CronDone(h)
      BY <3>2 DEF CronDone, CronIdle
    <3>3. QED
      BY <3>1, <3>2 DEF PutArgoCron
  <2>2. QED
    BY <2>1 DEF Putting, CronKinds
<1>3. IsFiniteSet(Putting') /\ Cardinality(Putting') = Cardinality(Putting) - 1
  BY <1>1, <1>2, FS_RemoveElement DEF CronCounted
<1>4. Cardinality(Putting) \in Nat /\ \A d \in Crons : cronArgo[d].write \in Nat
  BY FS_CardinalityType DEF CronCounted, CronKinds
<1>5. \A d \in Crons : cronArgo'[d].write <= cronArgo[d].write + 1
  BY <1>4 DEF PutArgoCron, CronKinds
<1>6. \A d \in Crons : cronArgo'[d].write \in Nat
  BY <1>4 DEF PutArgoCron, CronKinds
<1>7. cronWrites' = cronWrites /\ cronFaults' = cronFaults
  BY DEF PutArgoCron
<1>8. QED
  BY <1>3, <1>4, <1>5, <1>6, <1>7, CronAssumption DEF CronCounted

LEMMA CronCountedKept == CronKinds /\ CronCounted /\ [CronNext]_cronVars => CronCounted'
<1> SUFFICES ASSUME CronKinds, CronCounted, [CronNext]_cronVars  PROVE CronCounted'
  OBVIOUS
<1>0. \A c \in Crons : cronArgo[c].write \in Nat
  BY DEF CronKinds
<1>1. CASE /\ UNCHANGED <<cronArgo, cronReq, cronWrites, cronFaults>>
  <2>1. Putting' = Putting
    BY <1>1 DEF Putting
  <2>2. QED
    BY <1>0, <1>1, <2>1, CountedOnFewer DEF CronCounted
<1>2. ASSUME NEW h \in CronHandlers, NEW r, CronStart(h, r), r.op # "update",
             UNCHANGED <<cronWrites, cronFaults>>, \A d \in Crons : cronArgo'[d].write = cronArgo[d].write
      PROVE  CronCounted'
  <2>1. Putting' \subseteq Putting
    BY <1>2 DEF CronStart, Putting, CronKinds
  <2>2. QED
    BY <1>0, <1>2, <2>1, CountedOnFewer DEF CronCounted
<1>3. ASSUME NEW h \in CronHandlers, NEW r, cronReq' = [cronReq EXCEPT ![h] = r], r.op = "update" => h \in Putting,
             UNCHANGED <<cronWrites, cronFaults>>, \A d \in Crons : cronArgo'[d].write \in {0, cronArgo[d].write}
      PROVE  CronCounted'
  <2>1. Putting' \subseteq Putting
    BY <1>3 DEF Putting, CronKinds
  <2>2. QED
    BY <1>0, <1>3, <2>1, CountedOnFewer DEF CronCounted
<1>4. ASSUME NEW h \in CronHandlers, NEW c \in Crons, NEW t \in CronTemplates, NEW s \in Schedules,
             AskCron(h, c, t, s)
      PROVE  CronCounted'
  BY <1>2, <1>4 DEF AskCron, CronIdle
<1>5. ASSUME NEW h \in CronHandlers, NEW c \in Crons, DeleteCron(h, c)  PROVE CronCounted'
  <2>1. \A d \in Crons : cronArgo'[d].write = cronArgo[d].write
    BY <1>5 DEF DeleteCron, CronKinds
  <2>2. QED
    BY <1>2, <1>5, <2>1 DEF DeleteCron, CronIdle
<1>6. ASSUME NEW h \in CronHandlers, NEW t \in CronTemplates, ArchiveTemplate(h, t)  PROVE CronCounted'
  BY <1>2, <1>6 DEF ArchiveTemplate, CronIdle
<1>7. ASSUME NEW h \in CronHandlers, CronDone(h),
              UNCHANGED <<cronWrites, cronFaults>>, \A d \in Crons : cronArgo'[d].write \in {0, cronArgo[d].write}
       PROVE  CronCounted'
  BY <1>3, <1>7 DEF CronDone, CronIdle
<1>8. ASSUME NEW h \in CronHandlers, NEW x, CronMove(h, x), cronReq[h].op # "update",
              UNCHANGED <<cronWrites, cronFaults>>, \A d \in Crons : cronArgo'[d].write \in {0, cronArgo[d].write}
       PROVE  CronCounted'
  <2>1. cronReq' = [cronReq EXCEPT ![h] = [cronReq[h] EXCEPT !.step = x]]
    BY <1>8 DEF CronMove, CronKinds
  <2>2. [cronReq[h] EXCEPT !.step = x].op = cronReq[h].op
    BY DEF CronKinds, CronRequests
  <2>3. QED
    BY <1>3, <1>8, <2>1, <2>2
<1>9. ASSUME NEW h \in CronHandlers,
              InsertCron(h) \/ WriteCronRow(h) \/ MarkTerminatedCron(h) \/ MarkTemplate(h)
       PROVE  CronCounted'
  BY <1>7, <1>9 DEF InsertCron, WriteCronRow, MarkTerminatedCron, MarkTemplate
<1>10. ASSUME NEW h \in CronHandlers, CreateArgoCron(h)  PROVE CronCounted'
  <2>1. \A d \in Crons : cronArgo'[d].write \in {0, cronArgo[d].write}
    BY <1>10 DEF CreateArgoCron, CronKinds
  <2>2. QED
    BY <1>8, <1>10, <2>1 DEF CreateArgoCron, CronAt
<1>11. ASSUME NEW h \in CronHandlers, MarkArchivedCron(h) \/ ArchiveRuns(h)  PROVE CronCounted'
  BY <1>8, <1>11 DEF MarkArchivedCron, ArchiveRuns, CronAt
<1>12. ASSUME NEW h \in CronHandlers, GetArgoCron(h)  PROVE CronCounted'
  <2>1. CASE CronDone(h)
    BY <1>7, <1>12, <2>1 DEF GetArgoCron
  <2>2. CASE ~CronDone(h)
    <3>1. h \in Putting
      BY <1>12 DEF GetArgoCron, CronAt, Putting
    <3>2. \E r : cronReq' = [cronReq EXCEPT ![h] = r]
      BY <1>12, <2>2 DEF GetArgoCron, CronKinds
    <3>3. QED
      BY <1>3, <1>12, <3>1, <3>2 DEF GetArgoCron
  <2>3. QED
    BY <2>1, <2>2
<1>13. ASSUME NEW h \in CronHandlers, FindRuns(h)  PROVE CronCounted'
  <2>1. CASE CronDone(h)
    BY <1>7, <1>13, <2>1 DEF FindRuns
  <2>2. CASE ~CronDone(h)
    <3>1. cronReq' = [cronReq EXCEPT ![h].step = "runs", ![h].todo = RunsOf(cronReq[h].cron)]
      BY <1>13, <2>2 DEF FindRuns
    <3>2. \E r : r.op = "terminate" /\ cronReq' = [cronReq EXCEPT ![h] = r]
      BY <1>13, <3>1 DEF FindRuns, CronAt, CronKinds, CronRequests
    <3>3. QED
      BY <1>3, <1>13, <3>2 DEF FindRuns
  <2>3. QED
    BY <2>1, <2>2
<1>14. ASSUME NEW h \in CronHandlers, ArchiveRun(h)  PROVE CronCounted'
  <2>1. \E r : r.op = "terminate" /\ cronReq' = [cronReq EXCEPT ![h] = r]
    BY <1>14 DEF ArchiveRun, CronAt, CronKinds, CronRequests
  <2>2. QED
    BY <1>3, <1>14, <2>1 DEF ArchiveRun
<1>15. ASSUME NEW h \in CronHandlers, DeleteArgoCron(h)  PROVE CronCounted'
  <2>1. PICK c \in cronReq[h].todo :
          /\ cronArgo' = [cronArgo EXCEPT ![c].there = FALSE]
          /\ cronReq' = IF cronArgo[c].there
                        THEN [cronReq EXCEPT ![h].step = "mark", ![h].cron = c, ![h].todo = @ \ {c}]
                        ELSE [cronReq EXCEPT ![h].todo = @ \ {c}]
    BY <1>15 DEF DeleteArgoCron
  <2>2. \E r : r.op = "archive" /\ cronReq' = [cronReq EXCEPT ![h] = r]
    <3>1. cronReq[h].op = "archive" /\ cronReq[h] \in CronRequests
      BY <1>15 DEF DeleteArgoCron, CronAt, CronKinds
    <3>2. CASE cronArgo[c].there
      <4> DEFINE r == [cronReq[h] EXCEPT !.step = "mark", !.cron = c, !.todo = @ \ {c}]
      <4>1. r.op = "archive"
        BY <3>1 DEF CronRequests
      <4>2. cronReq' = [cronReq EXCEPT ![h] = r]
        BY <2>1, <3>2 DEF CronKinds
      <4>3. QED
        BY <4>1, <4>2
    <3>3. CASE ~cronArgo[c].there
      <4> DEFINE r == [cronReq[h] EXCEPT !.todo = @ \ {c}]
      <4>1. r.op = "archive"
        BY <3>1 DEF CronRequests
      <4>2. cronReq' = [cronReq EXCEPT ![h] = r]
        BY <2>1, <3>3 DEF CronKinds
      <4>3. QED
        BY <4>1, <4>2
    <3>4. QED
      BY <3>2, <3>3
  <2>3. \A d \in Crons : cronArgo'[d].write = cronArgo[d].write
    BY <2>1 DEF CronKinds
  <2>4. QED
    BY <1>3, <1>15, <2>2, <2>3 DEF DeleteArgoCron
<1>16. ASSUME NEW h \in CronHandlers, CronBreakOff(h)  PROVE CronCounted'
  <2>1. Putting' \subseteq Putting
    BY <1>16 DEF CronBreakOff, CronDone, CronIdle, CronKinds, Putting
  <2>2. cronFaults' \in 0..MaxCronFaults
    BY <1>16, CronAssumption DEF CronBreakOff, CronCounted
  <2>3. cronArgo' = cronArgo /\ cronWrites' = cronWrites
    BY <1>16 DEF CronBreakOff
  <2>4. QED
    BY <1>0, <2>1, <2>2, <2>3, CountedOnFewer
<1>17. CASE \/ UNCHANGED cronVars
           \/ \E i \in CronRuns : InsertRun(i) \/ \E c \in Crons : CronFires(c, i)
  <2>1. UNCHANGED <<cronArgo, cronReq, cronWrites, cronFaults>>
    BY <1>17 DEF cronVars, InsertRun, CronFires
  <2>2. QED
    BY <1>1, <2>1
<1>18. QED
  BY <1>4, <1>5, <1>6, <1>9, <1>10, <1>11, <1>12, <1>13, <1>14, <1>15, <1>16, <1>17,
     CountedOnFind, CountedOnPut DEF CronNext

LEMMA CronKindsType == CronKinds /\ CronCounted => CronTypeOK
<1> SUFFICES ASSUME CronKinds, CronCounted  PROVE CronTypeOK
  OBVIOUS
<1>1. \A c \in Crons : cronArgo[c].write \in 0..MaxCronWrites
  <2>1. Cardinality(Putting) \in Nat
    BY FS_CardinalityType DEF CronCounted
  <2>2. \A c \in Crons : cronArgo[c].write \in Nat
    BY DEF CronKinds
  <2>3. QED
    BY <2>1, <2>2, CronAssumption DEF CronCounted
<1>2. cronArgo \in [Crons -> [there : BOOLEAN, manifest : Schedules \cup {NoSchedule}, write : 0..MaxCronWrites]]
  BY <1>1 DEF CronKinds
<1>3. QED
  BY <1>2 DEF CronKinds, CronCounted, CronRunStates, CronTypeOK

(* Every variable keeps its type; the object of a cron has been written at  *)
(* most once by each update (UpdateCronWorkflow).                           *)
THEOREM CronTypes == CronSpec => []CronTypeOK
<1>1. CronInv => CronKinds
  BY DEF CronInv
<1>2. QED
  BY <1>1, CronKindsType, CronCountedAtFirst, CronCountedKept, CronInvariant, PTL DEF CronSpec
=============================================================================
