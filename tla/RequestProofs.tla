---------------------------- MODULE RequestProofs ----------------------------
(***************************************************************************)
(* Proofs about what the server does for one execution: the tasks it puts  *)
(* into the workflow, for templates of any size, and the stream in which   *)
(* its phases are watched, for watches that hold any number of events; and *)
(* about the migrations it runs before it serves the first request, for    *)
(* any releases deployed in order and any migrations an old server ran,    *)
(* and the reload of its configuration.                                    *)
(***************************************************************************)
EXTENDS MCRequests, WorkflowTemplateProofs

(* The names of the user's tasks, and of those put in for sidecars. *)
UserNames == {UserTask(i) : i \in 1..MaxTasks}
Services  == {AddService(s) : s \in Sidecars}
Routes    == {AddRoute(s) : s \in Sidecars}

(* The call that reports the start, before which nothing runs, and the steps *)
(* at which it is not yet in the DAG.                                        *)
StartCall == IF injKind = "cron" THEN SendInit ELSE SendStatus

Calling ==
    \/ injStep \in {"filesyncer", "status"}
    \/ injKind = "cron" /\ injStep \in {"exit", "init"}

DagNames == UserNames \cup {StartCall} \cup Services \cup Routes

ByUser == {i \in DOMAIN injDag : injDag[i].name \in UserNames}

(* The user's tasks keep their places; each waits for tasks on one side of   *)
(* it, for the call and for routes, and once the call is in for something.   *)
UserTasks ==
    /\ injDag[1].name = UserTask(1)
    /\ \A i \in DOMAIN injDag, k \in 1..MaxTasks : injDag[i].name = UserTask(k) => i = k
    /\ \A i \in ByUser : injDag[i].deps \subseteq NamesOf(injDag) \ Services
    /\ \/ \A i, j \in ByUser : injDag[j].name \in injDag[i].deps => j < i
       \/ \A i, j \in ByUser : injDag[j].name \in injDag[i].deps => i < j
    /\ IF Calling THEN Roots(injDag) # {} ELSE \A i \in ByUser : injDag[i].deps # {}

(* What the server puts in: the call, and services and routes in its wake.   *)
InjectedTasks ==
    /\ IF Calling THEN NamesOf(injDag) \subseteq UserNames ELSE StartCall \in NamesOf(injDag)
    /\ \A i \in DOMAIN injDag : injDag[i].name = StartCall => injDag[i].deps = {}
    /\ \A i \in DOMAIN injDag, s \in Sidecars :
         /\ injDag[i].name = AddService(s) => /\ injDag[i].deps = {SendStatus}
                                              /\ injKind = "execution"
                                              /\ injStep \notin {"filesyncer", "status", "exit"}
         /\ injDag[i].name = AddRoute(s) => /\ injDag[i].deps = {AddService(s)}
                                            /\ AddService(s) \in NamesOf(injDag)
                                            /\ AddRoute(s) \in injDag[1].deps
                                            /\ SendStatus \notin injDag[1].deps

Distinct(dag) == \A i, j \in DOMAIN dag : dag[i].name = dag[j].name => i = j

NamesDiffer ==
    /\ \/ Distinct(injDag)
       \/ injKind = "cron" /\ Cardinality({i \in DOMAIN injDag : injDag[i].deps = {SendInit}}) > 1
    /\ injStep = "access" =>
         \A s \in Sidecars : AddService(s) \in NamesOf(injDag) => Len(injSidecars) < s

DagInv ==
    /\ injDag \in Seq([name : DagNames, deps : SUBSET DagNames])
    /\ injDag # <<>>
    /\ UserTasks
    /\ InjectedTasks
    /\ NamesDiffer

DeleteServices == {DeleteService(s) : s \in Sidecars}
DeleteRoutes   == {DeleteRoute(s) : s \in Sidecars}
ExitNames == {UserExit, SendExit} \cup DeleteServices \cup DeleteRoutes

ExitInv ==
    /\ injExit \in Seq([name : ExitNames, deps : SUBSET ExitNames])
    /\ injStep \notin {"filesyncer", "status", "exit"} => SendExit \in NamesOf(injExit)
    /\ \A i \in DOMAIN injExit :
         /\ injExit[i].name \in {UserExit} \cup DeleteServices => injExit[i].deps = {}
         /\ \A s \in Sidecars : injExit[i].name = DeleteRoute(s) =>
              injExit[i].deps = {DeleteService(s)} /\ DeleteService(s) \in NamesOf(injExit)
         /\ injExit[i].name = SendExit =>
              /\ injExit[i].deps \subseteq DeleteRoutes \cap NamesOf(injExit)
              /\ \A s \in Sidecars :
                   AddService(s) \in NamesOf(injDag) => DeleteRoute(s) \in injExit[i].deps

Steps ==
    /\ injKind \in {"execution", "cron"}
    /\ injStep \in {"filesyncer", "status", "exit", "init", "access", "submit",
                    "refused", "entry", "onExit", "end"}
    /\ injStep \in {"filesyncer", "status", "access"} => injKind = "execution"
    /\ injStep \in {"init", "submit"} => injKind = "cron"
    /\ injSidecars \in Seq(BOOLEAN)
    /\ Len(injSidecars) \in {0, 1, 2}
    /\ injStep = "filesyncer" => Len(injSidecars) \in {0, 1}
    /\ RefusedOnlyFor

(* What Argo has run, and what it had to have run before.                    *)
RanInOrder ==
    /\ \A t \in UserNames \cup Services \cup Routes : t \in Ran => StartCall \in injDone
    /\ UserTask(1) \in Ran =>
         \A s \in Sidecars : AddRoute(s) \in NamesOf(injDag) => AddRoute(s) \in injDone
    /\ \A s \in Sidecars : DeleteRoute(s) \in Ran => DeleteService(s) \in injDone
    /\ SendExit \in Ran =>
         \A s \in Sidecars : AddService(s) \in NamesOf(injDag) => DeleteRoute(s) \in injDone

RunInv ==
    /\ injStep \notin {"entry", "onExit", "end"} => Ran = {}
    /\ Ran \subseteq NamesOf(injDag) \cup NamesOf(injExit)
    /\ injDone \cap injFailed = {}
    /\ injStep = "end" => NamesOf(injExit) \subseteq injDone \/ NamesOf(injExit) \cap injFailed # {}
    /\ RanInOrder

InjInv == Steps /\ DagInv /\ ExitInv /\ RunInv
-----------------------------------------------------------------------------
(* Names.                                                                   *)

LEMMA NamesApart ==
    /\ \A i, j : UserTask(i) = UserTask(j) => i = j
    /\ \A i : /\ UserTask(i) \notin {SendStatus, SendInit, SendExit, UserExit}
              /\ \A s : UserTask(i) \notin {AddService(s), AddRoute(s), DeleteService(s), DeleteRoute(s)}
    /\ \A s, t : /\ AddService(s) = AddService(t) => s = t
                 /\ AddRoute(s) = AddRoute(t) => s = t
                 /\ AddService(s) \notin {AddRoute(t), DeleteService(t), DeleteRoute(t)}
                 /\ AddRoute(s) \notin {DeleteService(t), DeleteRoute(t)}
    /\ \A s, t : /\ DeleteService(s) = DeleteService(t) => s = t
                 /\ DeleteRoute(s) = DeleteRoute(t) => s = t
                 /\ DeleteService(s) # DeleteRoute(t)
    /\ \A s : /\ AddService(s) \notin {SendStatus, SendInit, SendExit, UserExit}
              /\ AddRoute(s) \notin {SendStatus, SendInit, SendExit, UserExit}
              /\ DeleteService(s) \notin {SendStatus, SendInit, SendExit, UserExit}
              /\ DeleteRoute(s) \notin {SendStatus, SendInit, SendExit, UserExit}
    /\ Cardinality({}) = 0
    /\ SendStatus # SendInit /\ SendStatus \notin {SendExit, UserExit}
    /\ SendInit \notin {SendExit, UserExit} /\ SendExit # UserExit
  BY FS_EmptySet DEF UserTask, SendStatus, SendInit, SendExit, UserExit, AddService, AddRoute,
     DeleteService, DeleteRoute

(* Injected names are not the user's.                                       *)
LEMMA DagNamesApart ==
    /\ UserNames \cap (Services \cup Routes \cup {SendStatus, SendInit}) = {}
    /\ Services \cap (Routes \cup {SendStatus, SendInit}) = {}
    /\ Routes \cap {SendStatus, SendInit} = {}
    /\ DagNames \cap ExitNames = {}
  BY NamesApart DEF UserNames, Services, Routes, DagNames, ExitNames, StartCall,
     DeleteServices, DeleteRoutes

(* A nonempty set of natural numbers has a least element.                   *)
LEMMA LeastNumber ==
    ASSUME NEW T, T \subseteq Nat, T # {}
    PROVE  \E m \in T : \A n \in T : m <= n
<1> DEFINE R == OpToRel(<, Nat)
<1>1. ASSUME NEW m \in Nat, NEW n \in Nat, n < m
      PROVE  <<n, m>> \in R
  <2>1. R = {ss \in Nat \X Nat : ss[1] < ss[2]}
    BY DEF OpToRel
  <2> HIDE DEF R
  <2>2. QED
    BY <1>1, <2>1
<1>2. IsWellFoundedOn(R, Nat)
  BY NatLessThanWellFounded
<1> HIDE DEF R
<1>3. PICK m \in T : \A n \in T : ~(<<n, m>> \in R)
  BY <1>2, WFMin
<1>4. m \in Nat /\ \A n \in T : n \in Nat /\ ~(n < m)
  BY <1>1, <1>3
<1>5. \A n \in T : m <= n
  BY <1>4
<1>6. QED
  BY <1>5

(* Tasks of different names are as many as the names.                       *)
LEMMA AsManyNames ==
    ASSUME NEW S, NEW dag \in Seq(S), Distinct(dag)
    PROVE  Cardinality(NamesOf(dag)) = Len(dag)
<1> DEFINE f == [i \in 1..Len(dag) |-> dag[i].name]
<1>1. DOMAIN dag = 1..Len(dag) /\ Len(dag) \in Nat
  OBVIOUS
<1>2. f \in Bijection(1..Len(dag), NamesOf(dag))
  <2>1. f \in [1..Len(dag) -> NamesOf(dag)] /\ \A i \in 1..Len(dag) : f[i] = dag[i].name
    BY <1>1 DEF NamesOf
  <2>2. \A t \in NamesOf(dag) : \E i \in 1..Len(dag) : f[i] = t
    BY <1>1 DEF NamesOf
  <2>3. \A i, j \in 1..Len(dag) : f[i] = f[j] => i = j
    BY <1>1, <2>1 DEF Distinct
  <2> HIDE DEF f
  <2>4. QED
    BY <2>1, <2>2, <2>3 DEF Bijection, Injection, Surjection, IsInjective
<1>3. ExistsBijection(1..Len(dag), NamesOf(dag))
  BY <1>2 DEF ExistsBijection
<1>4. QED
  BY <1>1, <1>3, FS_CountingElements
-----------------------------------------------------------------------------
(* The templates of users.                                                  *)

LEMMA InjectionInitInv == InjectionInit => InjInv
<1> SUFFICES ASSUME InjectionInit  PROVE  InjInv
  OBVIOUS
<1> USE InjectionAssumption
<1>0. PICK n \in 1..MaxTasks : \E d \in Backward(n) \cup Forward(n) :
        injDag = [i \in DOMAIN d |-> DagTask(UserTask(i), {UserTask(j) : j \in d[i]})]
  BY DEF InjectionInit, UserDags
<1>1. PICK d \in Backward(n) \cup Forward(n) :
        injDag = [i \in DOMAIN d |-> DagTask(UserTask(i), {UserTask(j) : j \in d[i]})]
  BY <1>0
<1>2. d \in [1..n -> SUBSET (1..n)]
  BY DEF Backward, Forward
<1>3. DOMAIN injDag = 1..n /\ n \in Nat /\ 1 \in 1..n
  BY <1>1, <1>2
<1>4. ASSUME NEW i \in 1..n
      PROVE  /\ injDag[i].name = UserTask(i)
             /\ injDag[i].deps = {UserTask(j) : j \in d[i]}
             /\ d[i] \subseteq 1..n
             /\ injDag[i] \in [name : UserNames, deps : SUBSET UserNames]
  <2>1. injDag[i] = [name |-> UserTask(i), deps |-> {UserTask(j) : j \in d[i]}]
    BY <1>1, <1>2 DEF DagTask
  <2>2. d[i] \subseteq 1..n /\ 1..n \subseteq 1..MaxTasks
    BY <1>2
  <2>3. QED
    BY <2>1, <2>2 DEF UserNames
<1>5. injDag \in Seq([name : UserNames, deps : SUBSET UserNames])
      /\ injDag \in Seq([name : DagNames, deps : SUBSET DagNames])
  <2>1. injDag = [i \in 1..n |-> injDag[i]]
    BY <1>1, <1>2
  <2>2. [name : UserNames, deps : SUBSET UserNames] \subseteq [name : DagNames, deps : SUBSET DagNames]
    BY DEF DagNames
  <2>3. ASSUME NEW S, \A i \in 1..n : injDag[i] \in S  PROVE  injDag \in Seq(S)
    <3>1. injDag \in [1..n -> S]
      BY <2>1, <2>3
    <3>2. QED
      BY <1>3, <3>1
  <2>4. QED
    BY <1>4, <2>2, <2>3
<1>6. Calling
  BY DEF InjectionInit, Calling
<1>7. Roots(injDag) # {}
  <2>1. CASE d \in Backward(n)
    <3>1. d[1] = {}
      BY <1>3, <2>1 DEF Backward
    <3>2. QED
      BY <1>3, <1>4, <3>1 DEF Roots
  <2>2. CASE d \in Forward(n)
    <3>1. n \in 1..n /\ d[n] = {}
      BY <1>3, <2>2 DEF Forward
    <3>2. QED
      BY <1>3, <1>4, <3>1 DEF Roots
  <2>3. QED
    BY <2>1, <2>2
<1>8. UserTasks
  <2>1. \A i \in 1..n : injDag[i].deps \subseteq NamesOf(injDag)
    BY <1>3, <1>4 DEF NamesOf
  <2>2. \A i \in 1..n : injDag[i].deps \cap Services = {}
    BY <1>4, DagNamesApart
  <2>3. \A i, j \in 1..n : injDag[j].name \in injDag[i].deps => j \in d[i]
    BY <1>4, NamesApart
  <2>4. \/ \A i, j \in 1..n : injDag[j].name \in injDag[i].deps => j < i
        \/ \A i, j \in 1..n : injDag[j].name \in injDag[i].deps => i < j
    <3>1. CASE d \in Backward(n)
      BY <2>3, <3>1 DEF Backward
    <3>2. CASE d \in Forward(n)
      BY <2>3, <3>2 DEF Forward
    <3>3. QED
      BY <3>1, <3>2
  <2>5. \A i \in DOMAIN injDag, k \in 1..MaxTasks : injDag[i].name = UserTask(k) => i = k
    BY <1>3, <1>4, NamesApart
  <2>6. injDag[1].name = UserTask(1) /\ ByUser \subseteq 1..n
    BY <1>3, <1>4 DEF ByUser
  <2>7. QED
    BY <1>3, <1>6, <1>7, <2>1, <2>2, <2>4, <2>5, <2>6 DEF UserTasks
<1>9. InjectedTasks
  <2>1. \A i \in DOMAIN injDag : injDag[i].name \in UserNames
    BY <1>3, <1>4
  <2>2. NamesOf(injDag) \subseteq UserNames
    BY <2>1 DEF NamesOf
  <2>3. StartCall \in {SendStatus, SendInit}
    BY DEF StartCall
  <2>4. QED
    BY <1>6, <2>1, <2>2, <2>3, DagNamesApart DEF InjectedTasks, Services, Routes
<1>10. NamesDiffer
  BY <1>3, <1>4, NamesApart DEF NamesDiffer, Distinct, InjectionInit
<1>11. DagInv
  BY <1>3, <1>5, <1>8, <1>9, <1>10 DEF DagInv
<1>12. ExitInv
  <2>1. CASE injExit = <<>>
    BY <2>1 DEF ExitInv, InjectionInit
  <2>2. CASE injExit = <<DagTask(UserExit, {})>>
    <3>1. injExit = <<[name |-> UserExit, deps |-> {}]>>
      BY <2>2 DEF DagTask
    <3>2. [name |-> UserExit, deps |-> {}] \in [name : ExitNames, deps : SUBSET ExitNames]
      BY DEF ExitNames
    <3>3. DOMAIN injExit = {1} /\ injExit[1].name = UserExit /\ injExit[1].deps = {}
      BY <3>1
    <3>4. injExit \in Seq([name : ExitNames, deps : SUBSET ExitNames])
      BY <3>1, <3>2
    <3>5. injStep \in {"filesyncer", "exit"}
      BY DEF InjectionInit
    <3>6. QED
      BY <3>3, <3>4, NamesApart DEF ExitInv, InjectionInit
  <2>3. QED
    BY <2>1, <2>2 DEF InjectionInit
<1>13. Steps
  <2>1. injSidecars \in Seq(BOOLEAN) /\ Len(injSidecars) \in {0, 1}
    <3>1. injSidecars = <<>> \/ \E b \in BOOLEAN : injSidecars = <<b>>
      BY DEF InjectionInit
    <3>2. <<>> \in Seq(BOOLEAN) /\ Len(<<>>) = 0
      OBVIOUS
    <3>3. \A b \in BOOLEAN : <<b>> \in Seq(BOOLEAN) /\ Len(<<b>>) = 1
      OBVIOUS
    <3>4. QED
      BY <3>1, <3>2, <3>3, Zenon
  <2>3. /\ injKind \in {"execution", "cron"}
        /\ injStep \in {"filesyncer", "exit"}
        /\ injStep = "filesyncer" => injKind = "execution"
    BY DEF InjectionInit
  <2>4. RefusedOnlyFor
    BY <2>3 DEF RefusedOnlyFor
  <2>5. QED
    BY <2>1, <2>3, <2>4, Zenon DEF Steps
<1>14. RunInv
  BY DEF RunInv, RanInOrder, InjectionInit, Ran
<1>15. QED
  BY <1>11, <1>12, <1>13, <1>14 DEF InjInv
-----------------------------------------------------------------------------
(* What the invariant says of the order of tasks, and of the end.           *)

LEMMA SeqElement ==
    ASSUME NEW S, NEW q \in Seq(S), NEW i \in DOMAIN q
    PROVE  q[i] \in S
  OBVIOUS

LEMMA SeqOfMore ==
    ASSUME NEW S, NEW T, S \subseteq T, NEW q \in Seq(S)
    PROVE  q \in Seq(T)
  OBVIOUS

LEMMA SeqOfFunction ==
    ASSUME NEW S, NEW n \in Nat, NEW q \in [1..n -> S]
    PROVE  q \in Seq(S) /\ Len(q) = n
  OBVIOUS

(* A sequence and what is put behind it.                                    *)
LEMMA Behind ==
    ASSUME NEW S, NEW p \in Seq(S), NEW q \in Seq(S), NEW New, NEW r,
           r = p \o q,
           New = (Len(p) + 1)..(Len(p) + Len(q))
    PROVE  /\ r \in Seq(S)
           /\ Len(r) = Len(p) + Len(q)
           /\ DOMAIN r = (1..Len(p)) \cup New
           /\ (1..Len(p)) \cap New = {}
           /\ \A i \in 1..Len(p) : r[i] = p[i]
           /\ \A i \in New : i - Len(p) \in 1..Len(q) /\ r[i] = q[i - Len(p)]
           /\ Len(q) = 1 => New = {Len(p) + 1}
           /\ Len(q) > 0 => Len(p) + 1 \in New
<1>1. Len(p) \in Nat /\ Len(q) \in Nat /\ p \o q \in Seq(S)
  OBVIOUS
<1>2. Len(p \o q) = Len(p) + Len(q) /\ DOMAIN (p \o q) = 1..(Len(p) + Len(q))
  OBVIOUS
<1>3. 1..(Len(p) + Len(q)) = (1..Len(p)) \cup New /\ (1..Len(p)) \cap New = {}
  BY <1>1
<1>4. \A i \in 1..Len(p) : (p \o q)[i] = p[i]
  OBVIOUS
<1>5. ASSUME NEW i \in New
      PROVE  i - Len(p) \in 1..Len(q) /\ (p \o q)[i] = q[i - Len(p)]
  <2>1. i \in 1..(Len(p) + Len(q)) /\ i > Len(p) /\ i - Len(p) \in 1..Len(q)
    BY <1>1
  <2>2. QED
    BY <2>1
<1>6. (Len(q) = 1 => New = {Len(p) + 1}) /\ (Len(q) > 0 => Len(p) + 1 \in New)
  <2>1. \A a, b \in Nat : /\ b = 1 => (a + 1)..(a + b) = {a + 1}
                          /\ b > 0 => a + 1 \in (a + 1)..(a + b)
    OBVIOUS
  <2>2. QED
    BY <1>1, <2>1
<1>7. QED
  BY <1>1, <1>2, <1>3, <1>4, <1>5, <1>6

LEMMA DagTyped ==
    ASSUME DagInv, ExitInv
    PROVE  /\ NamesOf(injDag) \subseteq DagNames
           /\ NamesOf(injExit) \subseteq ExitNames
           /\ \A i \in DOMAIN injDag : injDag[i].name \in NamesOf(injDag) \cap DagNames
           /\ \A i \in DOMAIN injExit : injExit[i].name \in NamesOf(injExit) \cap ExitNames
           /\ \A s \in Sidecars : AddRoute(s) \in NamesOf(injDag) => AddService(s) \in NamesOf(injDag)
           /\ 1 \in DOMAIN injDag /\ DOMAIN injDag = 1..Len(injDag) /\ Len(injDag) \in Nat
           /\ 1 \in ByUser
<1>1. /\ \A i \in DOMAIN injDag : injDag[i].name \in DagNames
      /\ \A i \in DOMAIN injExit : injExit[i].name \in ExitNames
  <2>1. \A i \in DOMAIN injDag : injDag[i] \in [name : DagNames, deps : SUBSET DagNames]
    BY SeqElement DEF DagInv
  <2>2. \A i \in DOMAIN injExit : injExit[i] \in [name : ExitNames, deps : SUBSET ExitNames]
    BY SeqElement DEF ExitInv
  <2>3. QED
    BY <2>1, <2>2
<1>2. 1 \in DOMAIN injDag /\ DOMAIN injDag = 1..Len(injDag) /\ Len(injDag) \in Nat
  BY DEF DagInv
<1>3. 1 \in ByUser
  BY <1>2, InjectionAssumption DEF DagInv, UserTasks, ByUser, UserNames
<1>4. \A s \in Sidecars : AddRoute(s) \in NamesOf(injDag) => AddService(s) \in NamesOf(injDag)
  BY DEF DagInv, InjectedTasks, NamesOf
<1>5. QED
  BY <1>1, <1>2, <1>3, <1>4 DEF NamesOf

LEMMA InvInOrder == InjInv => TasksInOrder
<1> SUFFICES ASSUME InjInv  PROVE  TasksInOrder
  OBVIOUS
<1>1. RunInv /\ DagInv /\ ExitInv
  BY DEF InjInv
<1>2. CallFirst
  BY <1>1 DEF RunInv, RanInOrder, CallFirst, UserNames, StartCall
<1>3. RoutesFirst
  BY <1>1 DEF RunInv, RanInOrder, DagInv, UserTasks, RoutesFirst
<1>4. ASSUME NEW s \in Sidecars, SendExit \in Ran, AddService(s) \in NamesOf(injDag)
      PROVE  DeleteService(s) \in injDone /\ DeleteRoute(s) \in injDone
  BY <1>1, <1>4 DEF RunInv, RanInOrder, Ran
<1>5. ASSUME NEW s \in Sidecars
      PROVE  /\ AddService(s) \in injDone => AddService(s) \in NamesOf(injDag)
             /\ AddRoute(s) \in injDone => AddRoute(s) \in NamesOf(injDag)
  <2>1. AddService(s) \notin ExitNames /\ AddRoute(s) \notin ExitNames
    BY DagNamesApart DEF DagNames, Services, Routes
  <2>2. QED
    BY <1>1, <2>1, DagTyped DEF RunInv, Ran
<1>6. RoutesUndone
  BY <1>1, <1>4, <1>5, DagTyped DEF RoutesUndone
<1>7. QED
  BY <1>2, <1>3, <1>6 DEF TasksInOrder

(* While tasks of the DAG are left, and none has failed, Argo can run one:  *)
(* the call, else a service, else a route, else the user's task nearest to  *)
(* the side from which all wait.                                            *)
LEMMA DagRunnable ==
    ASSUME InjInv, injStep = "entry", injFailed = {}, ~(NamesOf(injDag) \subseteq injDone)
    PROVE  Runnable(injDag) # {}
<1>1. RunInv /\ DagInv /\ ExitInv /\ Ran = injDone /\ ~Calling
  BY DEF InjInv, Ran, Calling
<1>2. ASSUME NEW i \in DOMAIN injDag, injDag[i].name \notin injDone, injDag[i].deps \subseteq injDone
      PROVE  Runnable(injDag) # {}
  BY <1>1, <1>2 DEF Runnable
<1>3. CASE StartCall \notin injDone
  <2>1. PICK i \in DOMAIN injDag : injDag[i].name = StartCall
    BY <1>1 DEF DagInv, InjectedTasks, NamesOf
  <2>2. injDag[i].deps = {}
    BY <1>1, <2>1 DEF DagInv, InjectedTasks
  <2>3. QED
    BY <1>2, <1>3, <2>1, <2>2
<1>4. ASSUME StartCall \in injDone, NEW s \in Sidecars, NEW i \in DOMAIN injDag,
             injDag[i].name = AddService(s), AddService(s) \notin injDone
      PROVE  Runnable(injDag) # {}
  <2>1. injDag[i].deps = {StartCall}
    BY <1>1, <1>4 DEF DagInv, InjectedTasks, StartCall
  <2>2. QED
    BY <1>2, <1>4, <2>1
<1>5. ASSUME NEW s \in Sidecars, NEW i \in DOMAIN injDag, AddService(s) \in injDone,
             injDag[i].name = AddRoute(s), AddRoute(s) \notin injDone
      PROVE  Runnable(injDag) # {}
  <2>1. injDag[i].deps = {AddService(s)}
    BY <1>1, <1>5 DEF DagInv, InjectedTasks
  <2>2. QED
    BY <1>2, <1>5, <2>1
<1>6. ASSUME StartCall \in injDone,
             NamesOf(injDag) \cap (Services \cup Routes) \subseteq injDone
      PROVE  Runnable(injDag) # {}
  <2> DEFINE Left == {i \in ByUser : injDag[i].name \notin injDone}
  <2>1. Left # {}
    BY <1>1, <1>6, DagTyped DEF NamesOf, DagNames, ByUser
  <2>2. Left \subseteq 1..Len(injDag) /\ Len(injDag) \in Nat
    BY <1>1, DagTyped DEF ByUser
  <2>3. ASSUME NEW i \in Left, \A j \in Left : injDag[j].name \notin injDag[i].deps
        PROVE  Runnable(injDag) # {}
    <3>1. ASSUME NEW t \in injDag[i].deps  PROVE  t \in injDone
      <4>1. t \in NamesOf(injDag) /\ t \in DagNames
        BY <1>1, DagTyped DEF DagInv, UserTasks
      <4>2. CASE t \in UserNames
        <5>1. PICK j \in DOMAIN injDag : injDag[j].name = t
          BY <4>1 DEF NamesOf
        <5>2. j \in ByUser
          BY <4>2, <5>1 DEF ByUser
        <5>3. QED
          BY <2>3, <5>1, <5>2
      <4>3. QED
        BY <1>6, <4>1, <4>2 DEF DagNames
    <3>2. i \in DOMAIN injDag /\ injDag[i].name \notin injDone
      BY DEF ByUser
    <3>3. QED
      BY <1>2, <3>1, <3>2
  <2>4. CASE \A i, j \in ByUser : injDag[j].name \in injDag[i].deps => j < i
    <3>0. Left \subseteq Nat /\ Left \subseteq ByUser
      BY <2>2
    <3> HIDE DEF Left
    <3>1. PICK i \in Left : \A j \in Left : i <= j
      BY <2>1, <3>0, LeastNumber
    <3>2. \A j \in Left : injDag[j].name \notin injDag[i].deps
      BY <2>4, <3>0, <3>1
    <3>3. QED
      BY <2>3, <3>2
  <2>5. CASE \A i, j \in ByUser : injDag[j].name \in injDag[i].deps => i < j
    <3> DEFINE Back == {k \in Nat : \E i \in Left : k = Len(injDag) - i}
    <3>0. PICK e \in Left : e \in 1..Len(injDag) /\ Len(injDag) - e \in Nat
      BY <2>1, <2>2
    <3>1. Back # {} /\ Back \subseteq Nat
      BY <3>0
    <3>2. PICK k \in Back : \A m \in Back : k <= m
      BY <3>1, LeastNumber
    <3>3. PICK i \in Left : k = Len(injDag) - i
      OBVIOUS
    <3>4. ASSUME NEW j \in Left  PROVE  j <= i
      <4>1. i \in 1..Len(injDag) /\ j \in 1..Len(injDag) /\ Len(injDag) - j \in Nat
        BY <2>2
      <4>2. k <= Len(injDag) - j
        BY <3>2, <4>1
      <4>3. QED
        BY <2>2, <3>3, <4>1, <4>2
    <3>5. \A j \in Left : injDag[j].name \notin injDag[i].deps
      BY <2>2, <2>5, <3>4
    <3>6. QED
      BY <2>3, <3>5
  <2>6. QED
    BY <1>1, <2>4, <2>5 DEF DagInv, UserTasks
<1>7. QED
  <2>1. CASE StartCall \in injDone /\ \E s \in Sidecars : AddService(s) \in NamesOf(injDag) \ injDone
    BY <1>4, <2>1 DEF NamesOf
  <2>2. CASE /\ \A s \in Sidecars : AddService(s) \in NamesOf(injDag) => AddService(s) \in injDone
             /\ \E s \in Sidecars : AddRoute(s) \in NamesOf(injDag) \ injDone
    <3>1. PICK s \in Sidecars : AddRoute(s) \in NamesOf(injDag) \ injDone
      BY <2>2
    <3>2. AddService(s) \in injDone
      BY <1>1, <2>2, <3>1, DagTyped
    <3>3. QED
      BY <1>5, <3>1, <3>2 DEF NamesOf
  <2>3. QED
    BY <1>3, <1>6, <2>1, <2>2 DEF Services, Routes

(* The same for the exit handler: its deletions first, then the report.     *)
LEMMA ExitRunnable ==
    ASSUME InjInv, injStep = "onExit", NamesOf(injExit) \cap injFailed = {},
           ~(NamesOf(injExit) \subseteq injDone)
    PROVE  Runnable(injExit) # {}
<1>1. RunInv /\ DagInv /\ ExitInv
  BY DEF InjInv
<1>2. ASSUME NEW i \in DOMAIN injExit, injExit[i].name \notin injDone,
             injExit[i].deps \subseteq injDone
      PROVE  Runnable(injExit) # {}
  BY <1>1, <1>2, DagTyped DEF Runnable, Ran
<1>3. ASSUME NEW i \in DOMAIN injExit, injExit[i].name \notin injDone,
             injExit[i].name \in {UserExit} \cup DeleteServices
      PROVE  Runnable(injExit) # {}
  BY <1>1, <1>2, <1>3 DEF ExitInv
<1>4. ASSUME NEW s \in Sidecars, DeleteRoute(s) \in NamesOf(injExit), DeleteRoute(s) \notin injDone
      PROVE  Runnable(injExit) # {}
  <2>1. PICK i \in DOMAIN injExit : injExit[i].name = DeleteRoute(s)
    BY <1>4 DEF NamesOf
  <2>2. injExit[i].deps = {DeleteService(s)} /\ DeleteService(s) \in NamesOf(injExit)
    BY <1>1, <2>1 DEF ExitInv
  <2>3. CASE DeleteService(s) \in injDone
    BY <1>2, <1>4, <2>1, <2>2, <2>3
  <2>4. CASE DeleteService(s) \notin injDone
    BY <1>3, <2>2, <2>4 DEF NamesOf, DeleteServices
  <2>5. QED
    BY <2>3, <2>4
<1>5. ASSUME NEW i \in DOMAIN injExit, injExit[i].name = SendExit, SendExit \notin injDone
      PROVE  Runnable(injExit) # {}
  <2>1. injExit[i].deps \subseteq DeleteRoutes \cap NamesOf(injExit)
    BY <1>1, <1>5 DEF ExitInv
  <2>2. CASE injExit[i].deps \subseteq injDone
    BY <1>2, <1>5, <2>2
  <2>3. CASE ~(injExit[i].deps \subseteq injDone)
    BY <1>4, <2>1, <2>3 DEF DeleteRoutes
  <2>4. QED
    BY <2>2, <2>3
<1>6. PICK i \in DOMAIN injExit : injExit[i].name \notin injDone
  BY DEF NamesOf
<1>7. injExit[i].name \in ExitNames /\ injExit[i].name \in NamesOf(injExit)
  BY <1>1, DagTyped
<1>8. QED
  BY <1>3, <1>4, <1>5, <1>6, <1>7 DEF ExitNames, DeleteRoutes

LEMMA InvCompletes == InjInv => ExecutionCompletes
<1> SUFFICES ASSUME InjInv  PROVE  ExecutionCompletes
  OBVIOUS
<1>1. RefusedOnlyFor
  BY DEF InjInv, Steps
<1>2. DagProceeds
  BY DagRunnable, ExitRunnable DEF DagProceeds
<1>3. EndReported
  BY DEF EndReported, InjInv, RunInv, ExitInv
<1>4. QED
  BY <1>1, <1>2, <1>3 DEF ExecutionCompletes
-----------------------------------------------------------------------------
(* Steps that leave both DAGs as they are.                                  *)

LEMMA DagStays ==
    ASSUME DagInv, injDag' = injDag, injKind' = injKind, Calling' = Calling,
           injStep' \in {"filesyncer", "status", "exit"} =>
              injStep \in {"filesyncer", "status", "exit"},
           injStep' = "access" => \A s \in Sidecars : AddService(s) \notin NamesOf(injDag)
    PROVE  DagInv'
<1>1. StartCall' = StartCall /\ DagNames' = DagNames /\ ByUser' = ByUser
      /\ NamesOf(injDag)' = NamesOf(injDag) /\ Roots(injDag)' = Roots(injDag)
      /\ Distinct(injDag)' = Distinct(injDag)
  BY DEF StartCall, DagNames, ByUser, NamesOf, Roots, Distinct
<1>2. UserTasks'
  BY <1>1 DEF DagInv, UserTasks
<1>3. InjectedTasks'
  BY <1>1 DEF DagInv, InjectedTasks
<1>4. NamesDiffer'
  BY <1>1 DEF DagInv, NamesDiffer
<1>5. QED
  BY <1>1, <1>2, <1>3, <1>4 DEF DagInv

LEMMA ExitStays ==
    ASSUME ExitInv, injExit' = injExit,
           \A s \in Sidecars : AddService(s) \in NamesOf(injDag)' => AddService(s) \in NamesOf(injDag),
           injStep \in {"filesyncer", "status", "exit"} =>
              injStep' \in {"filesyncer", "status", "exit"}
    PROVE  ExitInv'
<1>1. NamesOf(injExit)' = NamesOf(injExit)
  BY DEF NamesOf
<1>2. QED
  BY <1>1 DEF ExitInv

LEMMA NothingRan ==
    ASSUME Ran = {}, injDone' = injDone, injFailed' = injFailed, injStep' # "end"
    PROVE  RunInv'
<1>1. injDone' = {} /\ injFailed' = {} /\ Ran' = {}
  BY DEF Ran
<1>2. QED
  BY <1>1 DEF RunInv, RanInOrder
-----------------------------------------------------------------------------
(* Putting in the call.                                                     *)

LEMMA AfterCallShape ==
    ASSUME DagInv, Calling, NEW S, [name : DagNames, deps : SUBSET DagNames] \subseteq S,
           \A t \in DagNames : DagTask(t, {StartCall}) \in S
    PROVE  /\ AfterCall(injDag, StartCall) \in Seq(S)
           /\ Len(AfterCall(injDag, StartCall)) = Len(injDag)
           /\ \A i \in 1..Len(injDag) :
                /\ AfterCall(injDag, StartCall)[i].name = injDag[i].name
                /\ AfterCall(injDag, StartCall)[i].deps =
                     IF injDag[i].deps = {} THEN {StartCall} ELSE injDag[i].deps
<1>1. injDag \in Seq(S) /\ DOMAIN injDag = 1..Len(injDag) /\ Len(injDag) \in Nat
  <2>1. injDag \in Seq([name : DagNames, deps : SUBSET DagNames])
    BY DEF DagInv
  <2>2. injDag \in Seq(S)
    BY <2>1, SeqOfMore
  <2>3. QED
    BY <2>2
<1>2. ASSUME NEW i \in 1..Len(injDag)
      PROVE  /\ injDag[i].name \in DagNames
             /\ injDag[i] \in S
             /\ AfterCall(injDag, StartCall)[i] \in S
             /\ AfterCall(injDag, StartCall)[i].name = injDag[i].name
             /\ AfterCall(injDag, StartCall)[i].deps =
                  IF injDag[i].deps = {} THEN {StartCall} ELSE injDag[i].deps
  <2>1. injDag[i] \in [name : DagNames, deps : SUBSET DagNames]
    BY <1>1, SeqElement DEF DagInv
  <2>2. AfterCall(injDag, StartCall)[i] =
          IF injDag[i].deps = {} THEN DagTask(injDag[i].name, {StartCall}) ELSE injDag[i]
    BY <1>1 DEF AfterCall, Roots
  <2>3. DagTask(injDag[i].name, {StartCall}).name = injDag[i].name
        /\ DagTask(injDag[i].name, {StartCall}).deps = {StartCall}
    BY DEF DagTask
  <2>4. QED
    BY <2>1, <2>2, <2>3
<1>3. AfterCall(injDag, StartCall) \in [1..Len(injDag) -> S]
  <2>1. AfterCall(injDag, StartCall) = [i \in 1..Len(injDag) |-> AfterCall(injDag, StartCall)[i]]
    BY <1>1 DEF AfterCall
  <2>2. QED
    BY <1>2, <2>1
<1>4. QED
  BY <1>1, <1>2, <1>3, SeqOfFunction

PutsIn(k) == injDag' = AfterCall(injDag, StartCall) \o [i \in 1..k |-> DagTask(StartCall, {})]

(* The DAG with its call, in front of the tasks that waited for none; the   *)
(* call may have been put in once for each of them.                         *)
LEMMA CallPutIn ==
    ASSUME DagInv, Calling, NEW k \in Nat, k > 0,
           PutsIn(k), injKind' = injKind, ~Calling', injStep' # "access",
           \/ k = 1
           \/ injKind = "cron" /\ StartCall = SendInit /\ Cardinality(Roots(injDag)) > 1
    PROVE  DagInv' /\ \A s \in Sidecars : AddService(s) \notin NamesOf(injDag')
<1> DEFINE T == [name : DagNames, deps : SUBSET DagNames]
           old == AfterCall(injDag, StartCall)
           new == [i \in 1..k |-> DagTask(StartCall, {})]
<1>1. StartCall \in DagNames /\ StartCall' = StartCall /\ DagNames' = DagNames
      /\ StartCall \in {SendStatus, SendInit}
  BY DEF DagNames, StartCall
<1>2. /\ DagTask(StartCall, {}) \in T
      /\ DagTask(StartCall, {}).name = StartCall
      /\ DagTask(StartCall, {}).deps = {}
      /\ \A t \in DagNames : DagTask(t, {StartCall}) \in T
  BY <1>1 DEF DagTask
<1>3. PICK n, Old : n = Len(injDag) /\ Old = 1..n
  OBVIOUS
<1>4. n \in Nat /\ DOMAIN injDag = Old /\ 1 \in Old
      /\ \A i \in Old : injDag[i].name \in UserNames
  BY <1>3 DEF DagInv, InjectedTasks, NamesOf
<1>5. /\ old \in Seq(T) /\ Len(old) = n
      /\ \A i \in Old : /\ old[i].name = injDag[i].name
                        /\ old[i].deps = IF injDag[i].deps = {} THEN {StartCall} ELSE injDag[i].deps
  BY <1>2, <1>3, AfterCallShape
<1>6. new \in Seq(T) /\ Len(new) = k /\ \A i \in 1..k : new[i] = DagTask(StartCall, {})
  <2>1. new \in [1..k -> T] /\ \A i \in 1..k : new[i] = DagTask(StartCall, {})
    BY <1>2
  <2> HIDE DEF new, T
  <2>2. QED
    BY <2>1, SeqOfFunction
<1>7. PICK New : New = (n + 1)..(n + k)
  OBVIOUS
<1>8. injDag' = old \o new
  BY DEF PutsIn
<1> HIDE DEF T, old, new
<1>9. /\ injDag' \in Seq(T) /\ Len(injDag') = n + k
      /\ DOMAIN injDag' = Old \cup New /\ Old \cap New = {} /\ New # {}
      /\ \A i \in Old : injDag'[i] = old[i]
      /\ \A i \in New : injDag'[i] = DagTask(StartCall, {})
      /\ k = 1 => New = {n + 1}
  <2>1. New = (Len(old) + 1)..(Len(old) + Len(new)) /\ Len(new) > 0
    BY <1>5, <1>6, <1>7
  <2>2. /\ injDag' \in Seq(T)
        /\ Len(injDag') = Len(old) + Len(new)
        /\ DOMAIN injDag' = (1..Len(old)) \cup New
        /\ (1..Len(old)) \cap New = {}
        /\ \A i \in 1..Len(old) : injDag'[i] = old[i]
        /\ \A i \in New : i - Len(old) \in 1..Len(new) /\ injDag'[i] = new[i - Len(old)]
        /\ Len(new) = 1 => New = {Len(old) + 1}
        /\ Len(old) + 1 \in New
    <3>1. old \in Seq(T) /\ new \in Seq(T)
      BY <1>5, <1>6
    <3>2. QED
      BY <1>8, <2>1, <3>1, Behind
  <2>3. \A i \in New : injDag'[i] = DagTask(StartCall, {})
    BY <1>6, <2>2
  <2>4. QED
    BY <1>3, <1>5, <1>6, <2>2, <2>3
<1>10. /\ \A i \in Old : /\ injDag'[i].name = injDag[i].name
                         /\ injDag'[i].deps =
                              IF injDag[i].deps = {} THEN {StartCall} ELSE injDag[i].deps
       /\ \A i \in New : injDag'[i].name = StartCall /\ injDag'[i].deps = {}
  <2>1. \A i \in Old : injDag'[i] = old[i]
    BY <1>9
  <2>2. \A i \in New : injDag'[i] = DagTask(StartCall, {})
    BY <1>9
  <2>3. \A i \in New : injDag'[i].name = StartCall /\ injDag'[i].deps = {}
    BY <1>2, <2>2
  <2>4. QED
    BY <1>5, <2>1, <2>3
<1>11. StartCall \notin UserNames /\ StartCall \notin Services \cup Routes
       /\ UserNames \cap (Services \cup Routes) = {}
  BY <1>1, DagNamesApart
<1>12. NamesOf(injDag') = NamesOf(injDag) \cup {StartCall} /\ NamesOf(injDag) \subseteq UserNames
       /\ ByUser' = Old /\ ByUser = Old
  BY <1>4, <1>9, <1>10, <1>11 DEF NamesOf, ByUser
<1>13. UserTasks'
  <2>1. \A i \in Old : injDag'[i].deps \subseteq NamesOf(injDag') \ Services /\ injDag'[i].deps # {}
    BY <1>10, <1>11, <1>12 DEF DagInv, UserTasks
  <2>2. \A i, j \in Old : injDag'[j].name \in injDag'[i].deps => injDag[j].name \in injDag[i].deps
    BY <1>4, <1>10, <1>11
  <2>3. \A i \in Old \cup New, m \in 1..MaxTasks : injDag'[i].name = UserTask(m) => i = m
    <3>1. \A m \in 1..MaxTasks : UserTask(m) \in UserNames
      BY DEF UserNames
    <3>2. QED
      BY <1>4, <1>10, <1>11, <3>1 DEF DagInv, UserTasks
  <2>4. \/ \A i, j \in Old : injDag'[j].name \in injDag'[i].deps => j < i
        \/ \A i, j \in Old : injDag'[j].name \in injDag'[i].deps => i < j
    BY <1>12, <2>2 DEF DagInv, UserTasks
  <2>5. injDag'[1].name = UserTask(1)
    BY <1>4, <1>10 DEF DagInv, UserTasks
  <2>6. NamesOf(injDag)' = NamesOf(injDag') /\ NamesOf(injDag') = NamesOf(injDag)'
    BY DEF NamesOf
  <2>7. QED
    BY <1>9, <1>12, <2>1, <2>3, <2>4, <2>5, <2>6 DEF UserTasks
<1>14. \A i \in Old \cup New, s \in Sidecars :
          injDag'[i].name # AddService(s) /\ injDag'[i].name # AddRoute(s)
  BY <1>4, <1>10, <1>11 DEF Services, Routes
<1>15. InjectedTasks'
  <2>1. StartCall' \in NamesOf(injDag)'
    BY <1>1, <1>12 DEF NamesOf
  <2>2. \A i \in Old \cup New : injDag'[i].name = StartCall => injDag'[i].deps = {}
    BY <1>4, <1>10, <1>11
  <2>3. QED
    BY <1>1, <1>9, <1>14, <2>1, <2>2 DEF InjectedTasks
<1>16. NamesDiffer'
  <2>1. CASE k = 1
    <3>1. \A i, j \in Old : injDag[i].name = injDag[j].name => i = j
      BY <1>4 DEF DagInv, UserTasks, UserNames
    <3>2. \A i, j \in Old \cup New : injDag'[i].name = injDag'[j].name => i = j
      BY <1>4, <1>9, <1>10, <1>11, <2>1, <3>1
    <3>3. QED
      BY <1>9, <3>2 DEF NamesDiffer, Distinct
  <2>2. CASE injKind = "cron" /\ StartCall = SendInit /\ Cardinality(Roots(injDag)) > 1
    <3>1. {i \in DOMAIN injDag' : injDag'[i].deps = {SendInit}} = Roots(injDag)
      <4>1. \A i \in Old : SendInit \notin injDag[i].deps
        BY <1>11, <1>12, <2>2 DEF DagInv, UserTasks
      <4>2. QED
        BY <1>4, <1>9, <1>10, <2>2, <4>1 DEF Roots
    <3>2. QED
      BY <2>2, <3>1 DEF NamesDiffer
  <2>3. QED
    BY <2>1, <2>2
<1>17. injDag' \in Seq([name : DagNames', deps : SUBSET DagNames']) /\ injDag' # <<>>
  <2>1. injDag' \in Seq([name : DagNames', deps : SUBSET DagNames'])
    BY <1>1, <1>9 DEF T
  <2>2. DOMAIN injDag' # {}
    BY <1>9
  <2>3. QED
    BY <2>1, <2>2
<1>18. QED
  BY <1>9, <1>13, <1>14, <1>15, <1>16, <1>17 DEF DagInv, NamesOf
-----------------------------------------------------------------------------
(* Making sidecars accessible.                                              *)

(* Two numbers more.                                                        *)
LEMMA TwoMore == \A m \in Nat : 1..(m + 2) = (1..m) \cup {m + 1, m + 2}
  OBVIOUS

(* A sequence r: p with a put behind it at e, and b at f.                   *)
PutBehind(r, p, a, b, e, f) == r = p \o <<a, b>> /\ e = Len(p) + 1 /\ f = Len(p) + 2

StandBehind(r, p, a, b, e, f) ==
    /\ DOMAIN r = (1..Len(p)) \cup {e, f}
    /\ e \notin 1..Len(p) /\ f \notin 1..Len(p) /\ e # f
    /\ \A i \in 1..Len(p) : r[i] = p[i]
    /\ r[e] = a /\ r[f] = b

LEMMA TwoBehind ==
    ASSUME NEW S, NEW p \in Seq(S), NEW a \in S, NEW b \in S, NEW r, NEW e, NEW f,
           PutBehind(r, p, a, b, e, f)
    PROVE  r \in Seq(S) /\ StandBehind(r, p, a, b, e, f)
<1> USE DEF PutBehind
<1>1. <<a, b>> \in Seq(S) /\ Len(<<a, b>>) = 2 /\ Len(p) \in Nat
  OBVIOUS
<1>2. r \in Seq(S) /\ Len(r) = Len(p) + 2 /\ DOMAIN r = 1..(Len(p) + 2)
  BY <1>1
<1>3. DOMAIN r = (1..Len(p)) \cup {e, f}
  <2>1. PICK m : m = Len(p)
    OBVIOUS
  <2>2. 1..(m + 2) = (1..m) \cup {m + 1, m + 2}
    BY <1>1, <2>1, TwoMore
  <2>3. QED
    BY <1>2, <2>1, <2>2
<1>4. e \notin 1..Len(p) /\ f \notin 1..Len(p) /\ e # f
  BY <1>1
<1>5. (\A i \in 1..Len(p) : r[i] = p[i]) /\ r[e] = a /\ r[f] = b
  BY <1>1
<1>6. QED
  BY <1>2, <1>3, <1>4, <1>5 DEF StandBehind

(* A service and its route, behind the other tasks; the first waits for it. *)
LEMMA AccessDag ==
    ASSUME DagInv, ExitInv, NEW s \in Sidecars, injStep = "access", injStep' = "access",
           injKind = "execution", injKind' = injKind, s = Len(injSidecars),
           Len(injSidecars') = s - 1,
           SidecarAccess
    PROVE  /\ DagInv'
           /\ \A t \in Sidecars : AddService(t) \in NamesOf(injDag)' <=>
                                    AddService(t) \in NamesOf(injDag) \/ t = s
<1> DEFINE T == [name : DagNames, deps : SUBSET DagNames]
           one == [injDag EXCEPT ![1].deps = OnRoute(@, AddRoute(s))]
           a == DagTask(AddService(s), {SendStatus})
           b == DagTask(AddRoute(s), {AddService(s)})
<1>1. injDag' = one \o <<a, b>>
  BY DEF SidecarAccess
<1>2. StartCall = SendStatus /\ StartCall' = SendStatus /\ DagNames' = DagNames
      /\ ~Calling /\ ~Calling'
  BY DEF StartCall, DagNames, Calling
<1>3. {SendStatus, AddService(s), AddRoute(s)} \subseteq DagNames
  BY <1>2 DEF DagNames, Services, Routes
<1>4. /\ a \in T /\ a.name = AddService(s) /\ a.deps = {SendStatus}
      /\ b \in T /\ b.name = AddRoute(s) /\ b.deps = {AddService(s)}
  BY <1>3 DEF DagTask
<1>5. PICK n, Old : n = Len(injDag) /\ Old = 1..n
  OBVIOUS
<1>6. injDag \in Seq(T) /\ DOMAIN injDag = Old /\ 1 \in Old /\ n \in Nat
      /\ \A i \in Old : injDag[i] \in T
  <2>1. injDag \in Seq(T)
    BY DEF DagInv
  <2>2. DOMAIN injDag = Old /\ 1 \in Old /\ n \in Nat
    BY <1>5, DagTyped
  <2>3. QED
    BY <2>1, <2>2, SeqElement
<1> HIDE DEF T, a, b
<1>7. /\ one \in Seq(T) /\ Len(one) = n
      /\ one[1].name = injDag[1].name
      /\ one[1].deps = OnRoute(injDag[1].deps, AddRoute(s))
      /\ \A i \in Old \ {1} : one[i] = injDag[i]
  <2>1. injDag[1] \in [name : DagNames, deps : SUBSET DagNames]
    BY <1>6 DEF T
  <2>2. OnRoute(injDag[1].deps, AddRoute(s)) \in SUBSET DagNames
    BY <1>3, <2>1 DEF OnRoute
  <2>3. PICK f : f = [injDag[1] EXCEPT !.deps = OnRoute(@, AddRoute(s))]
    OBVIOUS
  <2>4. f \in T /\ f.name = injDag[1].name /\ f.deps = OnRoute(injDag[1].deps, AddRoute(s))
    BY <2>1, <2>2, <2>3 DEF T
  <2>5. one = [injDag EXCEPT ![1] = f]
    BY <1>6, <2>3
  <2>6. injDag \in [1..n -> T]
    BY <1>5, <1>6
  <2>7. one \in [1..n -> T] /\ one[1] = f /\ \A i \in Old \ {1} : one[i] = injDag[i]
    BY <1>5, <1>6, <2>4, <2>5, <2>6
  <2> HIDE DEF one
  <2>8. QED
    BY <1>6, <2>4, <2>7, SeqOfFunction
<1> HIDE DEF one
<1>8. PICK e, f : e = n + 1 /\ f = n + 2
  OBVIOUS
<1>9. /\ injDag' \in Seq(T)
      /\ DOMAIN injDag' = Old \cup {e, f} /\ e \notin Old /\ f \notin Old /\ e # f
      /\ \A i \in Old : injDag'[i] = one[i]
      /\ injDag'[e] = a /\ injDag'[f] = b
  <2>1. one \in Seq(T) /\ a \in T /\ b \in T /\ PutBehind(injDag', one, a, b, e, f)
    BY <1>1, <1>4, <1>7, <1>8 DEF PutBehind
  <2>2. injDag' \in Seq(T) /\ StandBehind(injDag', one, a, b, e, f)
    BY <2>1, TwoBehind
  <2>3. QED
    BY <1>5, <1>7, <2>2 DEF StandBehind
<1>10. /\ \A i \in Old : injDag'[i].name = injDag[i].name
       /\ \A i \in Old \ {1} : injDag'[i].deps = injDag[i].deps
       /\ injDag'[1].deps = OnRoute(injDag[1].deps, AddRoute(s))
       /\ injDag'[e].name = AddService(s) /\ injDag'[e].deps = {SendStatus}
       /\ injDag'[f].name = AddRoute(s) /\ injDag'[f].deps = {AddService(s)}
  BY <1>4, <1>6, <1>7, <1>9
<1>11. NamesOf(injDag)' = NamesOf(injDag) \cup {AddService(s), AddRoute(s)}
  BY <1>6, <1>9, <1>10 DEF NamesOf
<1>12. AddService(s) \notin UserNames /\ AddRoute(s) \notin UserNames \cup Services
       /\ SendStatus \notin UserNames \cup Services \cup Routes
       /\ AddService(s) \in Services /\ AddRoute(s) \in Routes
       /\ \A t \in Sidecars : /\ AddService(t) \in Services /\ AddRoute(t) \in Routes
                              /\ AddService(t) = AddService(s) => t = s
                              /\ AddRoute(t) = AddRoute(s) => t = s
       /\ UserNames \cap (Services \cup Routes) = {} /\ Services \cap Routes = {}
  BY DagNamesApart, NamesApart DEF Services, Routes
<1>13. ByUser' = ByUser /\ ByUser \subseteq Old /\ 1 \in ByUser
  BY <1>6, <1>9, <1>10, <1>12, DagTyped DEF ByUser
<1>14. \A i \in Old : injDag'[i].deps \subseteq injDag[i].deps \cup {AddRoute(s)}
  BY <1>10 DEF OnRoute
<1>15. UserTasks'
  <2>1. \A i \in ByUser : injDag'[i].deps \subseteq NamesOf(injDag)' \ Services
    BY <1>11, <1>12, <1>13, <1>14 DEF DagInv, UserTasks
  <2>2. \A i \in ByUser : injDag'[i].deps # {}
    BY <1>2, <1>10, <1>13 DEF DagInv, UserTasks, OnRoute
  <2>3. \A i, j \in ByUser : injDag'[j].name \in injDag'[i].deps => injDag[j].name \in injDag[i].deps
    BY <1>10, <1>12, <1>13, <1>14 DEF ByUser
  <2>4. \/ \A i, j \in ByUser : injDag'[j].name \in injDag'[i].deps => j < i
        \/ \A i, j \in ByUser : injDag'[j].name \in injDag'[i].deps => i < j
    BY <2>3 DEF DagInv, UserTasks
  <2>5. \A i \in Old \cup {e, f}, k \in 1..MaxTasks : injDag'[i].name = UserTask(k) => i = k
    BY <1>6, <1>10, NamesApart DEF DagInv, UserTasks
  <2>6. injDag'[1].name = UserTask(1)
    BY <1>6, <1>10 DEF DagInv, UserTasks
  <2>7. QED
    BY <1>2, <1>9, <1>13, <2>1, <2>2, <2>4, <2>5, <2>6 DEF UserTasks
<1>16. InjectedTasks'
  <2>1. SendStatus \in NamesOf(injDag)'
    BY <1>2, <1>11 DEF DagInv, InjectedTasks
  <2>2. ASSUME NEW i \in Old \cup {e, f}, injDag'[i].name = SendStatus  PROVE  injDag'[i].deps = {}
    BY <1>2, <1>6, <1>10, <1>12, <1>13, <2>2 DEF DagInv, InjectedTasks, ByUser
  <2>3. ASSUME NEW i \in Old \cup {e, f}, NEW t \in Sidecars, injDag'[i].name = AddService(t)
        PROVE  injDag'[i].deps = {SendStatus}
    BY <1>6, <1>10, <1>12, <1>13, <2>3 DEF DagInv, InjectedTasks, ByUser
  <2>4. ASSUME NEW i \in Old \cup {e, f}, NEW t \in Sidecars, injDag'[i].name = AddRoute(t)
        PROVE  /\ injDag'[i].deps = {AddService(t)}
               /\ AddService(t) \in NamesOf(injDag)'
               /\ AddRoute(t) \in injDag'[1].deps /\ SendStatus \notin injDag'[1].deps
    <3>1. CASE i \in Old
      <4>1. injDag[i].name = AddRoute(t) /\ i # 1
        BY <1>10, <1>12, <1>13, <2>4, <3>1 DEF ByUser
      <4>2. /\ injDag[i].deps = {AddService(t)}
            /\ AddService(t) \in NamesOf(injDag)
            /\ AddRoute(t) \in injDag[1].deps /\ SendStatus \notin injDag[1].deps
        BY <1>6, <3>1, <4>1 DEF DagInv, InjectedTasks
      <4>3. injDag'[1].deps = injDag[1].deps \cup {AddRoute(s)}
        BY <1>10, <4>2 DEF OnRoute
      <4>4. QED
        BY <1>10, <1>11, <1>12, <3>1, <4>1, <4>2, <4>3
    <3>2. CASE i \in {e, f}
      <4>1. t = s /\ i = f
        BY <1>10, <1>12, <2>4, <3>2
      <4>2. AddRoute(s) \in injDag'[1].deps /\ SendStatus \notin injDag'[1].deps
        BY <1>10, <1>12 DEF OnRoute
      <4>3. QED
        BY <1>10, <1>11, <4>1, <4>2
    <3>3. QED
      BY <3>1, <3>2
  <2>5. QED
    BY <1>2, <1>9, <2>1, <2>2, <2>3, <2>4 DEF InjectedTasks
<1>17. NamesDiffer'
  <2>1. \A i, j \in Old : injDag[i].name = injDag[j].name => i = j
    BY <1>6 DEF DagInv, NamesDiffer, Distinct
  <2>2. s \in Nat /\ \A t \in Sidecars : t \in Nat
    BY DEF Sidecars
  <2>3. AddService(s) \notin NamesOf(injDag) /\ AddRoute(s) \notin NamesOf(injDag)
    BY <2>2, DagTyped DEF DagInv, NamesDiffer
  <2>4. \A i \in Old : injDag[i].name # AddService(s) /\ injDag[i].name # AddRoute(s)
    BY <1>6, <2>3 DEF NamesOf
  <2>5. \A i, j \in Old \cup {e, f} : injDag'[i].name = injDag'[j].name => i = j
    BY <1>10, <1>12, <2>1, <2>4
  <2>6. \A t \in Sidecars : AddService(t) \in NamesOf(injDag)' => s - 1 < t
    BY <1>11, <1>12, <2>2 DEF DagInv, NamesDiffer
  <2>7. QED
    BY <1>9, <2>5, <2>6 DEF NamesDiffer, Distinct
<1>18. injDag' \in Seq([name : DagNames', deps : SUBSET DagNames']) /\ injDag' # <<>>
  <2>1. injDag' \in Seq([name : DagNames', deps : SUBSET DagNames'])
    BY <1>2, <1>9 DEF T
  <2>2. DOMAIN injDag' # {}
    BY <1>9
  <2>3. QED
    BY <2>1, <2>2
<1>19. QED
  BY <1>11, <1>12, <1>15, <1>16, <1>17, <1>18 DEF DagInv

(* Its deletions, behind the tasks of the exit handler; the report waits.   *)
LEMMA AccessExit ==
    ASSUME DagInv, ExitInv, NEW s \in Sidecars, injStep = "access",
           \A t \in Sidecars : AddService(t) \in NamesOf(injDag)' <=>
                                  AddService(t) \in NamesOf(injDag) \/ t = s,
           s = Len(injSidecars), SidecarAccess
    PROVE  ExitInv'
<1> DEFINE T == [name : ExitNames, deps : SUBSET ExitNames]
           a == DagTask(DeleteService(s), {})
           b == DagTask(DeleteRoute(s), {DeleteService(s)})
           long == injExit \o <<a, b>>
<1>1. injExit' = EndAfter(long, DeleteRoute(s))
  BY DEF SidecarAccess
<1>2. {DeleteService(s), DeleteRoute(s), SendExit} \subseteq ExitNames
  BY DEF ExitNames, DeleteServices, DeleteRoutes
<1>3. /\ a \in T /\ a.name = DeleteService(s) /\ a.deps = {}
      /\ b \in T /\ b.name = DeleteRoute(s) /\ b.deps = {DeleteService(s)}
  BY <1>2 DEF DagTask
<1>4. injExit \in Seq(T) /\ \A i \in DOMAIN injExit : injExit[i] \in T
  BY SeqElement DEF ExitInv
<1>5. PICK e, f : e = Len(injExit) + 1 /\ f = Len(injExit) + 2
  OBVIOUS
<1> HIDE DEF T, a, b
<1>6. long \in Seq(T) /\ StandBehind(long, injExit, a, b, e, f)
  <2>1. PutBehind(long, injExit, a, b, e, f)
    BY <1>5 DEF PutBehind
  <2>2. QED
    BY <1>3, <1>4, <2>1, TwoBehind
<1> HIDE DEF long
<1>7. PICK Old : Old = DOMAIN injExit
  OBVIOUS
<1>8. /\ DOMAIN long = Old \cup {e, f} /\ e \notin Old /\ f \notin Old /\ e # f
      /\ \A i \in Old : long[i] = injExit[i] /\ injExit[i] \in T
      /\ long[e] = a /\ long[f] = b
  <2>1. Old = 1..Len(injExit)
    BY <1>4, <1>7
  <2>2. QED
    BY <1>4, <1>6, <1>7, <2>1 DEF StandBehind
<1>9. ASSUME NEW i \in Old \cup {e, f}
      PROVE  /\ injExit'[i] \in T
             /\ injExit'[i].name = long[i].name
             /\ injExit'[i].deps = IF long[i].name = SendExit
                                   THEN long[i].deps \cup {DeleteRoute(s)} ELSE long[i].deps
  <2>1. injExit'[i] = IF long[i].name = SendExit
                      THEN DagTask(SendExit, long[i].deps \cup {DeleteRoute(s)}) ELSE long[i]
    BY <1>1, <1>8 DEF EndAfter
  <2>2. long[i] \in [name : ExitNames, deps : SUBSET ExitNames]
    BY <1>3, <1>8 DEF T
  <2>3. QED
    BY <1>2, <2>1, <2>2 DEF DagTask, T
<1>10. DOMAIN injExit' = Old \cup {e, f} /\ injExit' \in Seq(T)
  <2>1. DOMAIN injExit' = Old \cup {e, f} /\ injExit' = [i \in DOMAIN long |-> injExit'[i]]
    BY <1>1, <1>8 DEF EndAfter
  <2>2. DOMAIN long = 1..Len(long) /\ Len(long) \in Nat
    BY <1>6
  <2>3. injExit' \in [1..Len(long) -> T]
    BY <1>8, <1>9, <2>1, <2>2
  <2>4. QED
    BY <2>1, <2>2, <2>3, SeqOfFunction
<1>11. /\ \A i \in Old : /\ injExit'[i].name = injExit[i].name
                         /\ injExit'[i].deps = IF injExit[i].name = SendExit
                                 THEN injExit[i].deps \cup {DeleteRoute(s)} ELSE injExit[i].deps
       /\ injExit'[e].name = DeleteService(s) /\ injExit'[e].deps = {}
       /\ injExit'[f].name = DeleteRoute(s) /\ injExit'[f].deps = {DeleteService(s)}
  BY <1>3, <1>8, <1>9, NamesApart
<1>12. NamesOf(injExit)' = NamesOf(injExit) \cup {DeleteService(s), DeleteRoute(s)}
  <2>1. NamesOf(injExit) = {injExit[i].name : i \in Old}
    BY <1>7 DEF NamesOf
  <2>2. NamesOf(injExit)' = {injExit'[i].name : i \in Old \cup {e, f}}
    BY <1>10 DEF NamesOf
  <2>3. \A i \in Old : injExit'[i].name = injExit[i].name
    BY <1>11
  <2>4. QED
    BY <1>11, <2>1, <2>2, <2>3
<1>13. ASSUME NEW i \in Old \cup {e, f}
       PROVE  /\ injExit'[i].name \in {UserExit} \cup DeleteServices => injExit'[i].deps = {}
              /\ \A t \in Sidecars : injExit'[i].name = DeleteRoute(t) =>
                   injExit'[i].deps = {DeleteService(t)} /\ DeleteService(t) \in NamesOf(injExit)'
              /\ injExit'[i].name = SendExit =>
                   /\ injExit'[i].deps \subseteq DeleteRoutes \cap NamesOf(injExit)'
                   /\ \A t \in Sidecars :
                        AddService(t) \in NamesOf(injDag)' => DeleteRoute(t) \in injExit'[i].deps
  <2>1. CASE i \in Old
    <3>1. /\ injExit'[i].name = injExit[i].name
          /\ injExit'[i].deps = IF injExit[i].name = SendExit
                                THEN injExit[i].deps \cup {DeleteRoute(s)} ELSE injExit[i].deps
      BY <1>11, <2>1
    <3>2. /\ injExit[i].name \in {UserExit} \cup DeleteServices => injExit[i].deps = {}
          /\ \A t \in Sidecars : injExit[i].name = DeleteRoute(t) =>
               injExit[i].deps = {DeleteService(t)} /\ DeleteService(t) \in NamesOf(injExit)
          /\ injExit[i].name = SendExit =>
               /\ injExit[i].deps \subseteq DeleteRoutes \cap NamesOf(injExit)
               /\ \A t \in Sidecars :
                    AddService(t) \in NamesOf(injDag) => DeleteRoute(t) \in injExit[i].deps
      BY <1>7, <2>1 DEF ExitInv
    <3>3. SendExit \notin {UserExit} \cup DeleteServices /\ \A t : SendExit # DeleteRoute(t)
          /\ DeleteRoute(s) \in DeleteRoutes
      BY NamesApart DEF DeleteServices, DeleteRoutes
    <3>4. QED
      BY <1>12, <3>1, <3>2, <3>3
  <2>2. CASE i \in {e, f}
    <3>1. DeleteRoute(s) \notin {UserExit} \cup DeleteServices
      BY NamesApart DEF DeleteServices
    <3>2. QED
      BY <1>11, <1>12, <2>2, <3>1, NamesApart
  <2>3. QED
    BY <2>1, <2>2
<1>14. SendExit \in NamesOf(injExit)'
  BY <1>12 DEF ExitInv
<1>15. injExit' \in Seq([name : ExitNames, deps : SUBSET ExitNames])
  BY <1>10 DEF T
<1>16. QED
  BY <1>10, <1>13, <1>14, <1>15 DEF ExitInv
-----------------------------------------------------------------------------
(* The steps of the server.                                                 *)

LEMMA Longer ==
    ASSUME NEW S, NEW q \in Seq(S), NEW x \in S
    PROVE  Append(q, x) \in Seq(S) /\ Len(Append(q, x)) = Len(q) + 1
  OBVIOUS

LEMMA Shorter ==
    ASSUME NEW S, NEW q \in Seq(S), q # <<>>
    PROVE  Tail(q) \in Seq(S) /\ Len(Tail(q)) = Len(q) - 1 /\ Len(q) \in Nat \ {0}
  OBVIOUS

(* Steps that refuse nothing.                                               *)
LEMMA StepsOn ==
    ASSUME Steps, injKind' = injKind, injSidecars' \in Seq(BOOLEAN),
           Len(injSidecars') \in {0, 1, 2},
           injStep' \in {"status", "exit", "init", "access", "submit", "entry", "onExit", "end"},
           injStep' \in {"status", "access"} => injKind = "execution",
           injStep' \in {"init", "submit"} => injKind = "cron"
    PROVE  Steps'
<1>1. RefusedOnlyFor'
  BY DEF RefusedOnlyFor
<1>2. QED
  BY <1>1, Zenon DEF Steps

LEMMA FilesyncerKeeps ==
    ASSUME InjInv, FilesyncerSidecar  PROVE  InjInv'
<1>1. Steps /\ DagInv /\ ExitInv /\ RunInv
  BY DEF InjInv
<1>2. injSidecars' \in Seq(BOOLEAN) /\ Len(injSidecars') \in {0, 1, 2}
  <2>1. injSidecars \in Seq(BOOLEAN) /\ TRUE \in BOOLEAN /\ Len(injSidecars) \in {0, 1}
    BY <1>1, Zenon DEF Steps, FilesyncerSidecar
  <2>2. Append(injSidecars, TRUE) \in Seq(BOOLEAN)
        /\ Len(Append(injSidecars, TRUE)) = Len(injSidecars) + 1
    BY <2>1, Longer, Zenon
  <2>3. Len(Append(injSidecars, TRUE)) \in {0, 1, 2} /\ Len(injSidecars) \in {0, 1, 2}
    <3>1. Len(injSidecars) \in {0, 1} /\ Len(Append(injSidecars, TRUE)) = Len(injSidecars) + 1
      BY <2>1, <2>2, Zenon
    <3>2. \A m, n : m \in {0, 1} /\ n = m + 1 => n \in {0, 1, 2} /\ m \in {0, 1, 2}
      OBVIOUS
    <3>3. QED
      BY <3>1, <3>2, Zenon
  <2>4. injSidecars' = Append(injSidecars, TRUE) \/ injSidecars' = injSidecars
    BY DEF FilesyncerSidecar
  <2>5. QED
    BY <2>1, <2>2, <2>3, <2>4, Zenon
<1>3. Steps'
  <2>1. injKind = "execution" /\ injKind' = injKind /\ injStep' = "status"
    BY <1>1 DEF Steps, FilesyncerSidecar
  <2>2. QED
    BY <1>1, <1>2, <2>1, StepsOn, Zenon
<1>4. DagInv'
  <2>1. Calling /\ Calling'
    BY DEF Calling, FilesyncerSidecar
  <2>2. QED
    BY <1>1, <2>1, DagStays DEF FilesyncerSidecar
<1>5. ExitInv'
  BY <1>1, ExitStays DEF FilesyncerSidecar, NamesOf
<1>6. RunInv'
  BY <1>1, NothingRan DEF FilesyncerSidecar, RunInv
<1>7. QED
  BY <1>3, <1>4, <1>5, <1>6 DEF InjInv

LEMMA StatusKeeps ==
    ASSUME InjInv, StatusCaller  PROVE  InjInv'
<1>1. Steps /\ DagInv /\ ExitInv /\ RunInv /\ injStep = "status" /\ injStep' = "exit"
      /\ injKind = "execution" /\ injKind' = injKind /\ injSidecars' = injSidecars
      /\ injSidecars \in Seq(BOOLEAN) /\ Len(injSidecars) \in {0, 1, 2}
      /\ StartCall = SendStatus
  BY Zenon DEF InjInv, Steps, StatusCaller, StartCall
<1>2. Steps'
  BY <1>1, StepsOn, Zenon
<1>3. Calling /\ ~Calling'
  BY <1>1 DEF Calling
<1>4. PutsIn(1)
  <2> DEFINE call == DagTask(SendStatus, {})
  <2>1. AfterCall(injDag, SendStatus) \in Seq([name : DagNames, deps : SUBSET DagNames])
    <3>1. \A x \in DagNames : DagTask(x, {StartCall}) \in [name : DagNames, deps : SUBSET DagNames]
      BY DEF DagTask, DagNames
    <3>2. QED
      BY <1>1, <1>3, <3>1, AfterCallShape
  <2>2. injDag' = Append(AfterCall(injDag, SendStatus), call)
    BY DEF StatusCaller
  <2> HIDE DEF call
  <2>3. Append(AfterCall(injDag, SendStatus), call) = AfterCall(injDag, SendStatus) \o [i \in 1..1 |-> call]
    <3>1. \A S : \A q \in Seq(S) : \A x : Append(q, x) = q \o [i \in 1..1 |-> x]
      OBVIOUS
    <3>2. QED
      BY <2>1, <3>1
  <2>4. QED
    BY <1>1, <2>2, <2>3 DEF PutsIn, call
<1>5. DagInv' /\ \A s \in Sidecars : AddService(s) \notin NamesOf(injDag')
  BY <1>1, <1>3, <1>4, CallPutIn
<1>6. ExitInv'
  <2>1. NamesOf(injDag)' = NamesOf(injDag')
    BY DEF NamesOf
  <2>2. QED
    BY <1>1, <1>5, <2>1, ExitStays DEF StatusCaller
<1>7. RunInv'
  BY <1>1, NothingRan DEF StatusCaller, RunInv
<1>8. QED
  BY <1>2, <1>5, <1>6, <1>7 DEF InjInv

LEMMA InitKeeps ==
    ASSUME InjInv, InitStatistic  PROVE  InjInv'
<1>1. Steps /\ DagInv /\ ExitInv /\ RunInv /\ injStep = "init" /\ injStep' = "submit"
      /\ injKind = "cron" /\ injKind' = injKind /\ injSidecars' = injSidecars
      /\ injSidecars \in Seq(BOOLEAN) /\ Len(injSidecars) \in {0, 1, 2}
      /\ StartCall = SendInit
  BY Zenon DEF InjInv, Steps, InitStatistic, StartCall
<1>2. Steps'
  BY <1>1, StepsOn, Zenon
<1>3. Calling /\ ~Calling'
  BY <1>1 DEF Calling
<1>4. PICK k : k = Cardinality(Roots(injDag))
  OBVIOUS
<1>5. k \in Nat /\ k > 0
  <2>1. IsFiniteSet(Roots(injDag)) /\ Roots(injDag) # {}
    <3>1. Roots(injDag) \subseteq 1..Len(injDag) /\ Len(injDag) \in Nat
      BY <1>1, DagTyped DEF Roots
    <3>2. Roots(injDag) # {}
      BY <1>1, <1>3 DEF DagInv, UserTasks
    <3>3. QED
      <4>1. IsFiniteSet(1..Len(injDag))
        BY <3>1, FS_Interval
      <4>2. QED
        BY <3>1, <3>2, <4>1, FS_Subset, Zenon
  <2>2. QED
    BY <1>4, <2>1, FS_EmptySet, FS_CardinalityType
<1>6. PutsIn(k)
  BY <1>1, <1>4 DEF PutsIn, InitStatistic
<1>7. DagInv' /\ \A s \in Sidecars : AddService(s) \notin NamesOf(injDag')
  <2>1. k = 1 \/ Cardinality(Roots(injDag)) > 1
    BY <1>4, <1>5
  <2>2. QED
    BY <1>1, <1>3, <1>5, <1>6, <2>1, CallPutIn
<1>8. ExitInv'
  <2>1. NamesOf(injDag)' = NamesOf(injDag')
    BY DEF NamesOf
  <2>2. QED
    BY <1>1, <1>7, <2>1, ExitStays DEF InitStatistic
<1>9. RunInv'
  BY <1>1, NothingRan DEF InitStatistic, RunInv
<1>10. QED
  BY <1>2, <1>7, <1>8, <1>9 DEF InjInv

LEMMA ReportPutIn ==
    ASSUME ExitInv, injExit' = Append(injExit, DagTask(SendExit, {})), injDag' = injDag,
           \A s \in Sidecars : AddService(s) \notin NamesOf(injDag)
    PROVE  ExitInv'
<1> DEFINE T == [name : ExitNames, deps : SUBSET ExitNames]
           report == DagTask(SendExit, {})
<1>1. report \in T /\ report.name = SendExit /\ report.deps = {}
  BY DEF DagTask, ExitNames
<1>2. injExit \in Seq(T)
  BY DEF ExitInv
<1>3. PICK Old, e : Old = DOMAIN injExit /\ e = Len(injExit) + 1
  OBVIOUS
<1>4. NamesOf(injDag)' = NamesOf(injDag)
  BY DEF NamesOf
<1> HIDE DEF T, report
<1>5. /\ injExit' \in Seq(T) /\ DOMAIN injExit' = Old \cup {e} /\ e \notin Old
      /\ \A i \in Old : injExit'[i] = injExit[i]
      /\ injExit'[e] = report
  <2>1. injExit' = Append(injExit, report)
    BY DEF report
  <2>2. Old = 1..Len(injExit) /\ Len(injExit) \in Nat
    BY <1>2, <1>3
  <2>3. QED
    BY <1>1, <1>2, <1>3, <2>1, <2>2
<1>6. NamesOf(injExit)' = NamesOf(injExit) \cup {SendExit}
  <2>1. NamesOf(injExit) = {injExit[i].name : i \in Old}
    BY <1>3 DEF NamesOf
  <2>2. NamesOf(injExit)' = {injExit'[i].name : i \in Old \cup {e}}
    BY <1>5 DEF NamesOf
  <2>3. \A i \in Old : injExit'[i].name = injExit[i].name
    BY <1>5
  <2>4. QED
    BY <1>1, <1>5, <2>1, <2>2, <2>3
<1>7. SendExit \notin {UserExit} \cup DeleteServices /\ \A s : SendExit # DeleteRoute(s)
  BY NamesApart DEF DeleteServices
<1>8. ASSUME NEW i \in Old \cup {e}
      PROVE  /\ injExit'[i].name \in {UserExit} \cup DeleteServices => injExit'[i].deps = {}
             /\ \A s \in Sidecars : injExit'[i].name = DeleteRoute(s) =>
                  injExit'[i].deps = {DeleteService(s)} /\ DeleteService(s) \in NamesOf(injExit)'
             /\ injExit'[i].name = SendExit =>
                  injExit'[i].deps \subseteq DeleteRoutes \cap NamesOf(injExit)'
  <2>1. CASE i \in Old
    <3>1. injExit'[i] = injExit[i] /\ i \in DOMAIN injExit
      BY <1>3, <1>5, <2>1
    <3>2. QED
      BY <1>6, <3>1 DEF ExitInv
  <2>2. CASE i = e
    BY <1>1, <1>5, <1>7, <2>2
  <2>3. QED
    BY <2>1, <2>2
<1>9. injExit' \in Seq([name : ExitNames, deps : SUBSET ExitNames])
  BY <1>5 DEF T
<1>10. QED
  BY <1>4, <1>5, <1>6, <1>8, <1>9 DEF ExitInv

LEMMA ExitKeeps ==
    ASSUME InjInv, ExitStatistic  PROVE  InjInv'
<1>1. Steps /\ DagInv /\ ExitInv /\ RunInv /\ injStep = "exit"
      /\ injStep' = (IF injKind = "execution" THEN "access" ELSE "init")
      /\ injKind \in {"execution", "cron"} /\ injKind' = injKind /\ injSidecars' = injSidecars
      /\ injSidecars \in Seq(BOOLEAN) /\ Len(injSidecars) \in {0, 1, 2}
  BY Zenon DEF InjInv, Steps, ExitStatistic
<1>2. Steps'
  <2>1. \/ injStep' = "access" /\ injKind = "execution"
        \/ injStep' = "init" /\ injKind = "cron"
    BY <1>1
  <2>2. QED
    BY <1>1, <2>1, StepsOn, Zenon
<1>3. \A s \in Sidecars : AddService(s) \notin NamesOf(injDag)
  BY <1>1 DEF DagInv, InjectedTasks, NamesOf
<1>4. DagInv'
  <2>1. Calling' = Calling
    BY <1>1 DEF Calling
  <2>2. injDag' = injDag
    BY DEF ExitStatistic
  <2>3. QED
    BY <1>1, <1>3, <2>1, <2>2, DagStays
<1>5. ExitInv'
  BY <1>1, <1>3, ReportPutIn DEF ExitStatistic
<1>6. RunInv'
  BY <1>1, NothingRan DEF ExitStatistic, RunInv
<1>7. QED
  BY <1>2, <1>4, <1>5, <1>6 DEF InjInv

LEMMA AccessKeeps ==
    ASSUME InjInv, SidecarAccess  PROVE  InjInv'
<1>1. Steps /\ DagInv /\ ExitInv /\ RunInv /\ injStep = "access" /\ injStep' = "access"
      /\ injKind = "execution" /\ injKind' = injKind /\ injSidecars' = Tail(injSidecars)
      /\ injSidecars # <<>> /\ injSidecars \in Seq(BOOLEAN) /\ Len(injSidecars) \in {0, 1, 2}
  BY Zenon DEF InjInv, Steps, SidecarAccess
<1>2. PICK s : s = Len(injSidecars)
  OBVIOUS
<1>3. injSidecars' \in Seq(BOOLEAN) /\ Len(injSidecars') = s - 1 /\ s \in Nat \ {0} /\ s \in {0, 1, 2}
  BY <1>1, <1>2, Shorter, Zenon
<1>4. s \in Sidecars /\ s - 1 \in {0, 1, 2}
  <2>1. \A m \in Nat \ {0} : m \in {0, 1, 2} => m \in 1..2 /\ m - 1 \in {0, 1, 2}
    OBVIOUS
  <2>2. QED
    BY <1>3, <2>1, Zenon DEF Sidecars
<1>5. Steps'
  BY <1>1, <1>3, <1>4, StepsOn, Zenon
<1>6. DagInv' /\ \A t \in Sidecars : AddService(t) \in NamesOf(injDag)' <=>
                                       AddService(t) \in NamesOf(injDag) \/ t = s
  BY <1>1, <1>2, <1>3, <1>4, AccessDag, Zenon
<1>7. ExitInv'
  BY <1>1, <1>2, <1>4, <1>6, AccessExit, Zenon
<1>8. RunInv'
  <2>1. Ran = {} /\ injDone' = injDone /\ injFailed' = injFailed /\ injStep' # "end"
    BY <1>1 DEF SidecarAccess, RunInv
  <2>2. QED
    BY <2>1, NothingRan
<1>9. QED
  BY <1>5, <1>6, <1>7, <1>8 DEF InjInv

LEMMA NoPortKeeps ==
    ASSUME InjInv, NoPort  PROVE  InjInv'
<1>1. Steps /\ DagInv /\ ExitInv /\ RunInv /\ injStep = "access" /\ injStep' = "refused"
      /\ injKind = "execution" /\ injKind' = injKind /\ injDag' = injDag
      /\ injSidecars' = injSidecars /\ injSidecars # <<>> /\ ~Head(injSidecars)
      /\ injSidecars \in Seq(BOOLEAN) /\ Len(injSidecars) \in {0, 1, 2}
  BY Zenon DEF InjInv, Steps, NoPort
<1>2. RefusedOnlyFor'
  BY <1>1, Zenon DEF RefusedOnlyFor
<1>3. Steps'
  <2>1. injStep' \notin {"filesyncer", "status", "access", "init", "submit"}
        /\ injStep' \in {"filesyncer", "status", "exit", "init", "access", "submit",
                         "refused", "entry", "onExit", "end"}
    BY <1>1
  <2>2. QED
    BY <1>1, <1>2, <2>1, Zenon DEF Steps
<1>4. DagInv'
  <2>1. Calling' = Calling
    BY <1>1 DEF Calling
  <2>2. QED
    BY <1>1, <2>1, DagStays
<1>5. ExitInv'
  BY <1>1, ExitStays DEF NoPort, NamesOf
<1>6. RunInv'
  BY <1>1, NothingRan DEF NoPort, RunInv
<1>7. QED
  BY <1>3, <1>4, <1>5, <1>6 DEF InjInv

LEMMA SubmitKeeps ==
    ASSUME InjInv, Submit  PROVE  InjInv'
<1>1. Steps /\ DagInv /\ ExitInv /\ RunInv /\ injStep \in {"submit", "access"}
      /\ injStep' = (IF Cardinality(NamesOf(injDag)) = Len(injDag) THEN "entry" ELSE "refused")
      /\ injKind \in {"execution", "cron"} /\ injKind' = injKind /\ injDag' = injDag
      /\ injSidecars' = injSidecars
      /\ injSidecars \in Seq(BOOLEAN) /\ Len(injSidecars) \in {0, 1, 2}
      /\ (injStep = "access" => injKind = "execution")
      /\ (injStep = "submit" => injKind = "cron")
  BY Zenon DEF InjInv, Steps, Submit
<1>2. RefusedOnlyFor'
  <2>1. ASSUME ~Distinct(injDag)  PROVE RefusedOnlyFor'
    <3>1. injKind = "cron" /\ Cardinality({i \in DOMAIN injDag : injDag[i].deps = {SendInit}}) > 1
      BY <1>1, <2>1 DEF DagInv, NamesDiffer
    <3>2. QED
      BY <1>1, <3>1, Zenon DEF RefusedOnlyFor
  <2>2. ASSUME Distinct(injDag)  PROVE RefusedOnlyFor'
    <3>1. Cardinality(NamesOf(injDag)) = Len(injDag)
      BY <1>1, <2>2, AsManyNames DEF DagInv
    <3>2. injStep' = "entry"
      BY <1>1, <3>1
    <3>3. QED
      BY <3>2 DEF RefusedOnlyFor
  <2>3. QED
    BY <2>1, <2>2
<1>3. Steps'
  <2>1. injStep' \notin {"filesyncer", "status", "access", "init", "submit"}
        /\ injStep' \in {"filesyncer", "status", "exit", "init", "access", "submit",
                         "refused", "entry", "onExit", "end"}
    BY <1>1
  <2>2. QED
    BY <1>1, <1>2, <2>1, Zenon DEF Steps
<1>4. DagInv'
  <2>1. Calling' = Calling
    BY <1>1 DEF Calling
  <2>2. injStep' \notin {"filesyncer", "status", "exit", "access"}
    BY <1>1
  <2>3. QED
    BY <1>1, <2>1, <2>2, DagStays
<1>5. ExitInv'
  BY <1>1, ExitStays DEF Submit, NamesOf
<1>6. RunInv'
  BY <1>1, NothingRan DEF Submit, RunInv
<1>7. QED
  BY <1>3, <1>4, <1>5, <1>6 DEF InjInv
-----------------------------------------------------------------------------
(* The steps of Argo.                                                       *)

(* One task runs, of the entrypoint or of the exit handler.                 *)
RunsOne(task) ==
    /\ task.name \notin Ran /\ task.deps \subseteq injDone
    /\ Ran' = Ran \cup {task.name} /\ injDone \subseteq injDone'
    /\ injDone' \cap injFailed' = {}

LEMMA RunTaskRuns ==
    ASSUME NEW dag, RunTask(dag), injDone \cap injFailed = {}
    PROVE  \E i \in DOMAIN dag : RunsOne(dag[i])
<1>1. PICK i \in Runnable(dag) :
        \/ injDone' = injDone \cup {dag[i].name} /\ injFailed' = injFailed
        \/ injFailed' = injFailed \cup {dag[i].name} /\ injDone' = injDone
  BY DEF RunTask
<1>2. i \in DOMAIN dag /\ dag[i].name \notin Ran /\ dag[i].deps \subseteq injDone
  BY DEF Runnable
<1>3. Ran' = Ran \cup {dag[i].name} /\ injDone \subseteq injDone' /\ injDone' \cap injFailed' = {}
  BY <1>1, <1>2 DEF Ran
<1>4. QED
  BY <1>2, <1>3 DEF RunsOne

(* What a task of the entrypoint waited for has run in order.               *)
LEMMA DagTaskInOrder ==
    ASSUME InjInv, injStep = "entry", NEW i \in DOMAIN injDag, RunsOne(injDag[i]),
           injDag' = injDag, injKind' = injKind
    PROVE  RanInOrder'
<1>1. RunInv /\ DagInv /\ ExitInv /\ RanInOrder /\ ~Calling
  BY DEF InjInv, RunInv, Calling
<1>2. PICK name, deps : name = injDag[i].name /\ deps = injDag[i].deps
  OBVIOUS
<1>3. name \in DagNames /\ name \notin ExitNames /\ deps \subseteq injDone /\ Ran' = Ran \cup {name}
      /\ injDone \subseteq injDone' /\ injDone \subseteq Ran
  BY <1>1, <1>2, DagTyped, DagNamesApart DEF RunsOne, Ran
<1>4. StartCall' = StartCall /\ NamesOf(injDag)' = NamesOf(injDag)
  BY DEF StartCall, NamesOf
<1>5. ASSUME name \in UserNames  PROVE  StartCall \in injDone
  <2>1. deps # {} /\ deps \subseteq NamesOf(injDag) \ Services
    BY <1>1, <1>2, <1>5 DEF DagInv, UserTasks, ByUser
  <2>2. PICK x \in deps : x \in DagNames /\ x \in injDone /\ x \in Ran
    BY <1>1, <1>3, <2>1, DagTyped
  <2>3. QED
    BY <1>1, <2>2 DEF RanInOrder, DagNames
<1>6. ASSUME name \in Services \cup Routes  PROVE  StartCall \in injDone
  <2>1. PICK s \in Sidecars : name = AddService(s) \/ name = AddRoute(s)
    BY <1>6 DEF Services, Routes
  <2>2. CASE name = AddService(s)
    <3>1. deps = {SendStatus} /\ StartCall = SendStatus
      BY <1>1, <1>2, <2>2 DEF DagInv, InjectedTasks, StartCall
    <3>2. QED
      BY <1>3, <3>1
  <2>3. CASE name = AddRoute(s)
    <3>1. deps = {AddService(s)} /\ AddService(s) \in Services
      BY <1>1, <1>2, <2>3 DEF DagInv, InjectedTasks, Services
    <3>2. QED
      BY <1>1, <1>3, <3>1 DEF RanInOrder
  <2>4. QED
    BY <2>1, <2>2, <2>3
<1>7. ASSUME NEW s \in Sidecars, UserTask(1) \in Ran', AddRoute(s) \in NamesOf(injDag)
      PROVE  AddRoute(s) \in injDone'
  <2>1. CASE UserTask(1) \in Ran
    BY <1>1, <1>3, <1>7, <2>1 DEF RanInOrder
  <2>2. CASE UserTask(1) = name
    <3>1. i = 1
      BY <1>1, <1>2, <2>2, InjectionAssumption DEF DagInv, UserTasks
    <3>2. AddRoute(s) \in deps
      BY <1>1, <1>2, <1>7, <3>1 DEF DagInv, InjectedTasks, NamesOf
    <3>3. QED
      BY <1>3, <3>2
  <2>3. QED
    BY <1>3, <1>7, <2>1, <2>2
<1>8. ASSUME NEW u \in UserNames \cup Services \cup Routes, u \in Ran'
      PROVE  StartCall' \in injDone'
  <2>1. CASE u \in Ran
    BY <1>1, <1>3, <1>4, <2>1 DEF RanInOrder
  <2>2. CASE u = name
    BY <1>3, <1>4, <1>5, <1>6, <2>2
  <2>3. QED
    BY <1>3, <1>8, <2>1, <2>2
<1>9. ASSUME NEW u \in ExitNames, u \in Ran'  PROVE  u \in Ran
  BY <1>3, <1>9
<1>10. SendExit \in ExitNames /\ \A s \in Sidecars : DeleteRoute(s) \in ExitNames
  BY DEF ExitNames, DeleteRoutes
<1>11. QED
  BY <1>1, <1>3, <1>4, <1>7, <1>8, <1>9, <1>10 DEF RanInOrder

(* And what a task of the exit handler waited for.                          *)
LEMMA ExitTaskInOrder ==
    ASSUME InjInv, NEW i \in DOMAIN injExit, RunsOne(injExit[i]),
           injDag' = injDag, injKind' = injKind
    PROVE  RanInOrder'
<1>1. RunInv /\ DagInv /\ ExitInv /\ RanInOrder
  BY DEF InjInv, RunInv
<1>2. PICK name, deps : name = injExit[i].name /\ deps = injExit[i].deps
  OBVIOUS
<1>3. name \in ExitNames /\ name \notin DagNames /\ deps \subseteq injDone /\ Ran' = Ran \cup {name}
      /\ injDone \subseteq injDone'
  BY <1>1, <1>2, DagTyped, DagNamesApart DEF RunsOne
<1>4. StartCall' = StartCall /\ NamesOf(injDag)' = NamesOf(injDag)
  BY DEF StartCall, NamesOf
<1>5. \A u \in UserNames \cup Services \cup Routes : u \in Ran' => u \in Ran
  BY <1>3 DEF DagNames
<1>6. UserTask(1) \in UserNames
  BY InjectionAssumption DEF UserNames
<1>7. ASSUME NEW s \in Sidecars, DeleteRoute(s) \in Ran'
      PROVE  DeleteService(s) \in injDone'
  <2>1. CASE DeleteRoute(s) \in Ran
    BY <1>1, <1>3, <2>1 DEF RanInOrder
  <2>2. CASE DeleteRoute(s) = name
    <3>1. deps = {DeleteService(s)}
      BY <1>1, <1>2, <2>2 DEF ExitInv
    <3>2. QED
      BY <1>3, <3>1
  <2>3. QED
    BY <1>3, <1>7, <2>1, <2>2
<1>8. ASSUME SendExit \in Ran', NEW s \in Sidecars, AddService(s) \in NamesOf(injDag)
      PROVE  DeleteRoute(s) \in injDone'
  <2>1. CASE SendExit \in Ran
    BY <1>1, <1>3, <1>8, <2>1 DEF RanInOrder
  <2>2. CASE SendExit = name
    <3>1. DeleteRoute(s) \in deps
      BY <1>1, <1>2, <1>8, <2>2 DEF ExitInv
    <3>2. QED
      BY <1>3, <3>1
  <2>3. QED
    BY <1>3, <1>8, <2>1, <2>2
<1>9. QED
  BY <1>1, <1>3, <1>4, <1>5, <1>6, <1>7, <1>8 DEF RanInOrder

LEMMA RunTaskKeeps ==
    ASSUME InjInv,
           \/ injStep = "entry" /\ RunTask(injDag)
           \/ injStep = "onExit" /\ RunTask(injExit)
    PROVE  InjInv'
<1>1. Steps /\ DagInv /\ ExitInv /\ RunInv /\ injStep \in {"entry", "onExit"}
      /\ injStep' = injStep /\ injKind' = injKind /\ injSidecars' = injSidecars
      /\ injDag' = injDag /\ injExit' = injExit
      /\ injSidecars \in Seq(BOOLEAN) /\ Len(injSidecars) \in {0, 1, 2}
  BY Zenon DEF InjInv, Steps, RunTask
<1>2. Steps'
  <2>1. injStep' \notin {"status", "access", "init", "submit"}
        /\ injStep' \in {"status", "exit", "init", "access", "submit", "entry", "onExit", "end"}
    BY <1>1
  <2>2. QED
    BY <1>1, <2>1, StepsOn, Zenon
<1>3. DagInv'
  <2>1. Calling' = Calling
    BY <1>1 DEF Calling
  <2>2. injStep' # "access"
    BY <1>1
  <2>3. QED
    BY <1>1, <2>1, <2>2, DagStays
<1>4. NamesOf(injDag)' = NamesOf(injDag) /\ NamesOf(injExit)' = NamesOf(injExit)
  BY <1>1 DEF NamesOf
<1>5. ExitInv'
  BY <1>1, <1>4, ExitStays
<1>6. RanInOrder' /\ injDone' \cap injFailed' = {}
      /\ Ran' \subseteq Ran \cup NamesOf(injDag) \cup NamesOf(injExit)
  <2>0. injDone \cap injFailed = {}
    BY <1>1 DEF RunInv
  <2>1. CASE injStep = "entry" /\ RunTask(injDag)
    <3>1. PICK i \in DOMAIN injDag : RunsOne(injDag[i])
      BY <2>0, <2>1, RunTaskRuns
    <3>2. QED
      BY <1>1, <2>1, <3>1, DagTaskInOrder DEF RunsOne, NamesOf
  <2>2. CASE injStep = "onExit" /\ RunTask(injExit)
    <3>1. PICK i \in DOMAIN injExit : RunsOne(injExit[i])
      BY <2>0, <2>2, RunTaskRuns
    <3>2. QED
      BY <1>1, <2>2, <3>1, ExitTaskInOrder DEF RunsOne, NamesOf
  <2>3. QED
    BY <2>1, <2>2
<1>7. RunInv'
  BY <1>1, <1>4, <1>6 DEF RunInv
<1>8. QED
  BY <1>2, <1>3, <1>5, <1>7 DEF InjInv

LEMMA LeaveDagKeeps ==
    ASSUME InjInv,
           \/ injStep = "entry" /\ LeaveDag(injDag)
           \/ injStep = "onExit" /\ LeaveDag(injExit)
    PROVE  InjInv'
<1>1. Steps /\ DagInv /\ ExitInv /\ RunInv /\ injStep \in {"entry", "onExit"}
      /\ injStep' = (IF injStep = "entry" THEN "onExit" ELSE "end")
      /\ injKind' = injKind /\ injSidecars' = injSidecars
      /\ injDag' = injDag /\ injExit' = injExit /\ injDone' = injDone /\ injFailed' = injFailed
      /\ injSidecars \in Seq(BOOLEAN) /\ Len(injSidecars) \in {0, 1, 2}
  BY Zenon DEF InjInv, Steps, LeaveDag
<1>2. injStep' \in {"onExit", "end"}
      /\ (injStep' = "end" => \/ NamesOf(injExit) \subseteq injDone
                               \/ NamesOf(injExit) \cap injFailed # {})
  BY <1>1 DEF LeaveDag
<1>3. Steps'
  <2>1. injStep' \notin {"status", "access", "init", "submit"}
        /\ injStep' \in {"status", "exit", "init", "access", "submit", "entry", "onExit", "end"}
    BY <1>2
  <2>2. QED
    BY <1>1, <2>1, StepsOn, Zenon
<1>4. DagInv'
  <2>1. Calling' = Calling
    BY <1>1, <1>2 DEF Calling
  <2>2. injStep' \notin {"filesyncer", "status", "exit", "access"}
    BY <1>2
  <2>3. QED
    BY <1>1, <2>1, <2>2, DagStays
<1>5. NamesOf(injDag)' = NamesOf(injDag) /\ NamesOf(injExit)' = NamesOf(injExit)
      /\ StartCall' = StartCall /\ Ran' = Ran
  BY <1>1 DEF NamesOf, StartCall, Ran
<1>6. ExitInv'
  BY <1>1, <1>5, ExitStays
<1>7. RanInOrder'
  BY <1>1, <1>5 DEF RunInv, RanInOrder
<1>8. RunInv'
  BY <1>1, <1>2, <1>5, <1>7 DEF RunInv
<1>9. QED
  BY <1>3, <1>4, <1>6, <1>8 DEF InjInv

LEMMA InjectionNextKeeps == InjInv /\ [InjectionNext]_injVars => InjInv'
<1>1. ASSUME InjInv, InjectionNext  PROVE  InjInv'
  BY <1>1, FilesyncerKeeps, StatusKeeps, ExitKeeps, InitKeeps, AccessKeeps, NoPortKeeps,
     SubmitKeeps, RunTaskKeeps, LeaveDagKeeps DEF InjectionNext
<1>2. ASSUME InjInv, UNCHANGED injVars  PROVE  InjInv'
  <2>1. Steps /\ DagInv /\ ExitInv /\ RunInv
        /\ injKind' = injKind /\ injDag' = injDag /\ injExit' = injExit
        /\ injSidecars' = injSidecars /\ injStep' = injStep
        /\ injDone' = injDone /\ injFailed' = injFailed
    BY <1>2 DEF InjInv, injVars
  <2>2. NamesOf(injDag)' = NamesOf(injDag) /\ NamesOf(injExit)' = NamesOf(injExit)
        /\ StartCall' = StartCall /\ Ran' = Ran /\ Calling' = Calling
    BY <2>1 DEF NamesOf, StartCall, Ran, Calling
  <2>3. Steps'
    <3>1. RefusedOnlyFor'
      BY <2>1, Zenon DEF Steps, RefusedOnlyFor
    <3>2. QED
      BY <2>1, <3>1, Zenon DEF Steps
  <2>4. DagInv'
    <3>1. ByUser' = ByUser /\ Roots(injDag)' = Roots(injDag) /\ DagNames' = DagNames
          /\ Distinct(injDag)' = Distinct(injDag)
      BY <2>1, <2>2 DEF ByUser, Roots, DagNames, Distinct
    <3>2. UserTasks'
      BY <2>1, <2>2, <3>1 DEF DagInv, UserTasks
    <3>3. InjectedTasks'
      BY <2>1, <2>2 DEF DagInv, InjectedTasks
    <3>4. NamesDiffer'
      BY <2>1, <2>2, <3>1 DEF DagInv, NamesDiffer
    <3>5. QED
      BY <2>1, <3>1, <3>2, <3>3, <3>4 DEF DagInv
  <2>5. ExitInv'
    BY <2>1, <2>2, ExitStays
  <2>6. RunInv'
    BY <2>1, <2>2 DEF RunInv, RanInOrder
  <2>7. QED
    BY <2>3, <2>4, <2>5, <2>6 DEF InjInv
<1>3. QED
  BY <1>1, <1>2

(* What the server has put into a workflow after each injection, and what   *)
(* Argo can have run of it, for templates of any number of tasks whose      *)
(* dependencies lead one way.                                               *)
THEOREM InjectionInvariant == InjectionSpec => []InjInv
<1>1. InjectionInit => InjInv
  BY InjectionInitInv
<1>2. InjInv /\ [InjectionNext]_injVars => InjInv'
  BY InjectionNextKeeps
<1>3. QED
  BY <1>1, <1>2, PTL DEF InjectionSpec

(* The call that reports the start comes before the user's tasks, the routes *)
(* of sidecars before the first task, and the report of the end after the    *)
(* deletion of all services and routes (createWorkflow,                      *)
(* injectAccessForSidecars).                                                 *)
THEOREM TasksStayInOrder == InjectionSpec => []TasksInOrder
<1>1. InjInv => TasksInOrder
  BY InvInOrder
<1>2. QED
  BY <1>1, InjectionInvariant, PTL

(* A valid template is refused only for a sidecar without a port or a cron   *)
(* workflow's several first tasks; else there is always a task to run until  *)
(* one fails or all have run, and its end is reported (createWorkflow,       *)
(* injectAccessForSidecars, the statistics of cron workflows).               *)
THEOREM ExecutionsComplete == InjectionSpec => []ExecutionCompletes
<1>1. InjInv => ExecutionCompletes
  BY InvCompletes
<1>2. QED
  BY <1>1, InjectionInvariant, PTL
-----------------------------------------------------------------------------
(* The stream of an execution.                                              *)

Phases == {"Pending", "Running", "Finished"}
WatchEvents == Phases \cup {"timeout", "status"}

(* An undisturbed watch is open and carries phases; its goroutine ends with *)
(* the end of the workflow, and the stream with its goroutine.              *)
WatchInv ==
    /\ WatchTypeOK
    /\ wchEvents \in Seq(WatchEvents)
    /\ wchSeen \in WatchEvents \cup {"none"}
    /\ wchBroken \in BOOLEAN
    /\ wchHeld \in Phases \cup {"none"} /\ (wchLoop = "send" => wchHeld \in Phases)
    /\ wchClient = "ended" => wchLoop = "done"
    /\ ~wchBroken =>
         /\ wchOpen
         /\ wchEvents \in Seq(Phases)
         /\ wchLoop \in {"range", "send", "done"}
         /\ wchLoop = "done" => wchSeen = "Finished"

LEMMA WatchInitInv == WatchInit => WatchInv
<1> SUFFICES ASSUME WatchInit  PROVE WatchInv
  OBVIOUS
<1>1. wchPhase \in Phases /\ wchEvents = <<wchPhase>>
  BY DEF WatchInit, Phases
<1>2. wchEvents \in Seq(Phases) /\ wchEvents \in Seq(WatchEvents) /\ Len(wchEvents) <= MaxEvents
  BY <1>1, WatchAssumption DEF WatchEvents
<1>3. QED
  <2>1. WatchTypeOK
    BY <1>1, <1>2 DEF WatchInit, WatchTypeOK, Phases
  <2>2. QED
    BY <1>1, <1>2, <2>1 DEF WatchInit, WatchInv

(* Delivering an event keeps the bound and the kind of events.              *)
LEMMA DeliverKeeps ==
    ASSUME NEW S, NEW event \in S, wchEvents \in Seq(S), Len(wchEvents) <= MaxEvents, Deliver(event)
    PROVE  wchEvents' \in Seq(S) /\ Len(wchEvents') <= MaxEvents
  BY WatchAssumption DEF Deliver

LEMMA WatchStep == WatchInv /\ [WatchNext]_wchVars => WatchInv'
<1> SUFFICES ASSUME WatchInv, [WatchNext]_wchVars  PROVE WatchInv'
  OBVIOUS
<1> USE WatchAssumption
<1>0. Len(wchEvents) <= MaxEvents /\ wchEvents \in Seq(WatchEvents) /\ (~wchBroken => wchEvents \in Seq(Phases))
      /\ Phases \subseteq WatchEvents
  BY DEF WatchInv, WatchTypeOK, WatchEvents
<1>1. CASE WorkflowMoves
  <2>1. wchPhase' \in Phases /\ Deliver(wchPhase')
    BY <1>1 DEF WorkflowMoves, Phases
  <2>2. wchEvents' \in Seq(WatchEvents) /\ Len(wchEvents') <= MaxEvents
        /\ (~wchBroken => wchEvents' \in Seq(Phases))
    BY <1>0, <2>1, DeliverKeeps
  <2>3. QED
    BY <1>1, <2>1, <2>2 DEF WorkflowMoves, WatchInv, WatchTypeOK, Phases
<1>2. CASE WorkflowDeleted
  <2>1. wchPhase \in Phases /\ Deliver(wchPhase)
    BY <1>2 DEF WorkflowDeleted, Phases, WatchInv, WatchTypeOK
  <2>2. wchEvents' \in Seq(WatchEvents) /\ Len(wchEvents') <= MaxEvents
        /\ (~wchBroken => wchEvents' \in Seq(Phases))
    BY <1>0, <2>1, DeliverKeeps
  <2>3. QED
    BY <1>2, <2>2 DEF WorkflowDeleted, WatchInv, WatchTypeOK
<1>3. CASE WatchClosed
  <2>1. PICK n \in 0..Len(wchEvents) : wchEvents' = SubSeq(wchEvents, 1, n)
    BY <1>3 DEF WatchClosed
  <2>2. wchEvents' \in Seq(WatchEvents) /\ Len(wchEvents') <= MaxEvents
    BY <1>0, <2>1
  <2>3. QED
    BY <1>3, <2>2 DEF WatchClosed, WatchInv, WatchTypeOK
<1>4. ASSUME NEW status \in {"timeout", "status"}, WatchReports(status)  PROVE WatchInv'
  <2>1. wchEvents' \in Seq(WatchEvents) /\ Len(wchEvents') <= MaxEvents
    BY <1>0, <1>4, DeliverKeeps DEF WatchReports, WatchEvents
  <2>2. QED
    BY <1>4, <2>1 DEF WatchReports, WatchInv, WatchTypeOK
<1>5. CASE ReadEvent
  <2>1. wchEvents' \in Seq(WatchEvents) /\ Len(wchEvents') <= MaxEvents
        /\ (~wchBroken => wchEvents' \in Seq(Phases) /\ Head(wchEvents) \in Phases)
        /\ Head(wchEvents) \in WatchEvents
    BY <1>0, <1>5 DEF ReadEvent
  <2>2. CASE Head(wchEvents) = "timeout"
    BY <1>5, <2>1, <2>2 DEF ReadEvent, WatchInv, WatchTypeOK, Phases
  <2>3. CASE Head(wchEvents) = "status"
    BY <1>5, <2>1, <2>3 DEF ReadEvent, WatchInv, WatchTypeOK, Phases
  <2>4. CASE Head(wchEvents) \in Phases
    BY <1>5, <2>1, <2>4 DEF ReadEvent, WatchInv, WatchTypeOK, Phases
  <2>5. QED
    BY <2>1, <2>2, <2>3, <2>4 DEF WatchEvents
<1>6. CASE SendEvent
  BY <1>6 DEF SendEvent, WatchInv, WatchTypeOK, wchArgo, WatchEvents
<1>7. CASE FindWatchClosed \/ GetWorkflow
  BY <1>7 DEF FindWatchClosed, GetWorkflow, WatchInv, WatchTypeOK, wchArgo
<1>8. CASE WatchAgain
  <2>1. wchPhase \in Phases \cup {"Gone"} /\ wchBroken
    BY <1>8 DEF WatchAgain, WatchInv, WatchTypeOK, Phases
  <2>2. wchEvents' \in Seq(WatchEvents) /\ Len(wchEvents') <= MaxEvents
    <3>1. wchEvents' \in {<<>>, <<wchPhase>>, wchEvents}
      BY <1>8 DEF WatchAgain
    <3>2. <<>> \in Seq(WatchEvents) /\ Len(<<>>) <= MaxEvents
      OBVIOUS
    <3>3. wchPhase \in WatchEvents => <<wchPhase>> \in Seq(WatchEvents) /\ Len(<<wchPhase>>) <= MaxEvents
      OBVIOUS
    <3>4. wchPhase = "Gone" \/ wchEvents' # <<wchPhase>> \/ wchEvents' = wchEvents \/ wchPhase \in WatchEvents
      BY <1>0, <2>1
    <3>5. wchPhase = "Gone" => wchEvents' \in {<<>>, wchEvents}
      BY <1>8 DEF WatchAgain
    <3>6. QED
      BY <1>0, <2>1, <3>1, <3>2, <3>3, <3>4, <3>5
  <2>3. QED
    BY <1>8, <2>1, <2>2 DEF WatchAgain, WatchInv, WatchTypeOK
<1>9. CASE EndStream \/ ClientLeaves
  BY <1>9 DEF EndStream, ClientLeaves, WatchInv, WatchTypeOK, wchArgo
<1>10. CASE UNCHANGED wchVars
  BY <1>10 DEF wchVars, wchArgo, WatchInv, WatchTypeOK
<1>11. QED
  BY <1>1, <1>2, <1>3, <1>4, <1>5, <1>6, <1>7, <1>8, <1>9, <1>10 DEF WatchNext, WatchGoroutine

(* A stream whose watch was never disturbed ends with the workflow.         *)
THEOREM StreamsSeeTheEnd == WatchSpec => []LastSeen
<1>1. WatchInv => LastSeen
  BY DEF WatchInv, LastSeen
<1>2. QED
  BY <1>1, WatchInitInv, WatchStep, PTL DEF WatchSpec

(* No watch holds more events than it can, and timeouts are counted up to   *)
(* the cap.                                                                 *)
THEOREM WatchTypes == WatchSpec => []WatchTypeOK
<1>1. WatchInv => WatchTypeOK
  BY DEF WatchInv
<1>2. QED
  BY <1>1, WatchInitInv, WatchStep, PTL DEF WatchSpec

----------------------------------------------------------------------------
(* The migrations.                                                          *)

(* The migration that creates a template.                                   *)
Born(T) ==
    CASE T = "JupyterLab" -> 1 [] T = "CVAT" -> 2 [] T = "PyTorch" -> 3 [] T = "TensorFlow" -> 4
      [] T = "MaskRCNN" -> 10 [] T = "TFOD" -> 10 [] T = "VSCode" -> 20 [] T = "Hyperparameter" -> 42
      [] T = "Desktop" -> 53 [] T = "CVAT_1.6.0" -> 55

Creating == {"create", "createIfAbsent"}
Writing == Creating \cup {"update"}

(* A file has the date of its migration, but for one that is younger and    *)
(* two whose files are those of the migration before.                       *)
NoLaterThan(i)   == IF i = 46 THEN 47 ELSE i
NoEarlierThan(i) == IF i \in {34, 51} THEN i - 1 ELSE i

VersionOf(i) == Migrations[i].version
Before(a, b) == a[1] < b[1] \/ (a[1] = b[1] /\ a[2] < b[2])
OpsOf(i) == Migrations[i].ops

FileFits(i, T, file) ==
    /\ file \in YamlFiles(T) /\ file \in Nat \X Nat /\ file \notin {<<0, 0>>, UserFile}
    /\ Earlier(VersionOf(NoEarlierThan(i)), file)
    /\ Earlier(file, VersionOf(NoLaterThan(i)))

(* What an operation of the i-th migration may be: it creates a template    *)
(* that was never there, or changes one that was created before.            *)
OperationFits(i, o) ==
    /\ o.template \in SystemTemplates
    /\ o.does \in Writing \cup {"describe", "describeIfThere", "archiveUnused"}
    /\ o.file \in Nat \X Nat
    /\ o.file # <<0, 0>> <=> o.does \in Writing
    /\ o.does \in Creating => i = Born(o.template)
    /\ o.does \in {"update", "describe"} => Born(o.template) < i
    /\ o.template = "Hyperparameter" /\ i >= 52 => o.does = "archiveUnused"
    /\ o.does = "archiveUnused" => o.template = "Hyperparameter" /\ i = 52
    /\ o.does \in Writing => FileFits(i, o.template, o.file)
    /\ NamesPools(o.template, o.file) => o.file = VersionOf(i)

(* The operations of a migration: on each template at most one.             *)
OperationsFit(i, ops) ==
    /\ Len(ops) \in 0..5 /\ DOMAIN ops = 1..Len(ops) /\ (Len(ops) = 0 <=> ops = <<>>)
    /\ \A j \in DOMAIN ops : OperationFits(i, ops[j])
    /\ \A j, k \in DOMAIN ops : ops[j].template = ops[k].template => j = k

MadeAtBirth(T) ==
    \E j \in DOMAIN OpsOf(Born(T)) : OpsOf(Born(T))[j].template = T /\ OpsOf(Born(T))[j].does \in Creating

(* The table has 55 lines.                                                  *)
LEMMA InTable == DOMAIN Migrations = 1..55 /\ \A i \in 1..55 : i \in
    {1, 2, 3, 4, 5, 6, 7, 8, 9, 10, 11, 12, 13, 14, 15, 16, 17, 18, 19, 20, 21, 22, 23, 24, 25, 26, 27, 28,
     29, 30, 31, 32, 33, 34, 35, 36, 37, 38, 39, 40, 41, 42, 43, 44, 45, 46, 47, 48, 49, 50, 51, 52, 53, 54, 55}
  BY DEF Migrations

LEMMA Births ==
    /\ Born("JupyterLab") = 1
    /\ Born("CVAT") = 2
    /\ Born("PyTorch") = 3
    /\ Born("TensorFlow") = 4
    /\ Born("MaskRCNN") = 10
    /\ Born("TFOD") = 10
    /\ Born("VSCode") = 20
    /\ Born("Hyperparameter") = 42
    /\ Born("Desktop") = 53
    /\ Born("CVAT_1.6.0") = 55
  BY DEF Born

LEMMA MadeWhen ==
    ASSUME NEW T, NEW k, Born(T) = k, NEW j \in DOMAIN OpsOf(k),
           OpsOf(k)[j].template = T, OpsOf(k)[j].does \in Creating
    PROVE  MadeAtBirth(T)
  BY Zenon DEF MadeAtBirth

(* The table: what its lines do fits, its versions grow, and every template *)
(* is created where Born says.                                              *)
LEMMA Table ==
    /\ \A i \in 1..55 : OperationsFit(i, OpsOf(i)) /\ VersionOf(i) \in Nat \X Nat
    /\ \A i \in 1..54 : Before(VersionOf(i), VersionOf(i + 1))
    /\ \A T \in SystemTemplates : MadeAtBirth(T)
<1>1. VersionOf(1) = <<20200525, 160514>> /\ OpsOf(1) = Up20200525160514
  BY DEF Migrations, VersionOf, OpsOf
<1>2. VersionOf(2) = <<20200528, 140124>> /\ OpsOf(2) = Up20200528140124
  BY DEF Migrations, VersionOf, OpsOf
<1>3. VersionOf(3) = <<20200605, 90509>> /\ OpsOf(3) = Up20200605090509
  BY DEF Migrations, VersionOf, OpsOf
<1>4. VersionOf(4) = <<20200605, 90535>> /\ OpsOf(4) = Up20200605090535
  BY DEF Migrations, VersionOf, OpsOf
<1>5. VersionOf(5) = <<20200626, 113635>> /\ OpsOf(5) = Up20200626113635
  BY DEF Migrations, VersionOf, OpsOf
<1>6. VersionOf(6) = <<20200704, 151301>> /\ OpsOf(6) = Up20200704151301
  BY DEF Migrations, VersionOf, OpsOf
<1>7. VersionOf(7) = <<20200724, 220450>> /\ OpsOf(7) = Up20200724220450
  BY DEF Migrations, VersionOf, OpsOf
<1>8. VersionOf(8) = <<20200727, 144157>> /\ OpsOf(8) = Up20200727144157
  BY DEF Migrations, VersionOf, OpsOf
<1>9. VersionOf(9) = <<20200728, 190804>> /\ OpsOf(9) = Up20200728190804
  BY DEF Migrations, VersionOf, OpsOf
<1>10. VersionOf(10) = <<20200812, 104328>> /\ OpsOf(10) = Up20200812104328
  BY DEF Migrations, VersionOf, OpsOf
<1>11. VersionOf(11) = <<20200812, 113316>> /\ OpsOf(11) = Up20200812113316
  BY DEF Migrations, VersionOf, OpsOf
<1>12. VersionOf(12) = <<20200814, 160856>> /\ OpsOf(12) = Up20200814160856
  BY DEF Migrations, VersionOf, OpsOf
<1>13. VersionOf(13) = <<20200821, 162630>> /\ OpsOf(13) = Up20200821162630
  BY DEF Migrations, VersionOf, OpsOf
<1>14. VersionOf(14) = <<20200824, 95513>> /\ OpsOf(14) = Up20200824095513
  BY DEF Migrations, VersionOf, OpsOf
<1>15. VersionOf(15) = <<20200824, 101019>> /\ OpsOf(15) = Up20200824101019
  BY DEF Migrations, VersionOf, OpsOf
<1>16. VersionOf(16) = <<20200824, 101905>> /\ OpsOf(16) = Up20200824101905
  BY DEF Migrations, VersionOf, OpsOf
<1>17. VersionOf(17) = <<20200825, 154403>> /\ OpsOf(17) = Up20200825154403
  BY DEF Migrations, VersionOf, OpsOf
<1>18. VersionOf(18) = <<20200826, 185926>> /\ OpsOf(18) = Up20200826185926
  BY DEF Migrations, VersionOf, OpsOf
<1>19. VersionOf(19) = <<20200922, 103448>> /\ OpsOf(19) = Up20200922103448
  BY DEF Migrations, VersionOf, OpsOf
<1>20. VersionOf(20) = <<20200929, 144301>> /\ OpsOf(20) = Up20200929144301
  BY DEF Migrations, VersionOf, OpsOf
<1>21. VersionOf(21) = <<20200929, 153931>> /\ OpsOf(21) = Up20200929153931
  BY DEF Migrations, VersionOf, OpsOf
<1>22. VersionOf(22) = <<20201001, 70806>> /\ OpsOf(22) = Up20201001070806
  BY DEF Migrations, VersionOf, OpsOf
<1>23. VersionOf(23) = <<20201016, 170415>> /\ OpsOf(23) = Up20201016170415
  BY DEF Migrations, VersionOf, OpsOf
<1>24. VersionOf(24) = <<20201028, 145442>> /\ OpsOf(24) = Up20201028145442
  BY DEF Migrations, VersionOf, OpsOf
<1>25. VersionOf(25) = <<20201028, 145443>> /\ OpsOf(25) = Up20201028145443
  BY DEF Migrations, VersionOf, OpsOf
<1>26. VersionOf(26) = <<20201031, 165106>> /\ OpsOf(26) = Up20201031165106
  BY DEF Migrations, VersionOf, OpsOf
<1>27. VersionOf(27) = <<20201102, 104048>> /\ OpsOf(27) = Up20201102104048
  BY DEF Migrations, VersionOf, OpsOf
<1>28. VersionOf(28) = <<20201113, 94916>> /\ OpsOf(28) = Up20201113094916
  BY DEF Migrations, VersionOf, OpsOf
<1>29. VersionOf(29) = <<20201115, 133046>> /\ OpsOf(29) = Up20201115133046
  BY DEF Migrations, VersionOf, OpsOf
<1>30. VersionOf(30) = <<20201115, 134934>> /\ OpsOf(30) = Up20201115134934
  BY DEF Migrations, VersionOf, OpsOf
<1>31. VersionOf(31) = <<20201115, 145814>> /\ OpsOf(31) = Up20201115145814
  BY DEF Migrations, VersionOf, OpsOf
<1>32. VersionOf(32) = <<20201130, 130433>> /\ OpsOf(32) = Up20201130130433
  BY DEF Migrations, VersionOf, OpsOf
<1>33. VersionOf(33) = <<20201208, 155115>> /\ OpsOf(33) = Up20201208155115
  BY DEF Migrations, VersionOf, OpsOf
<1>34. VersionOf(34) = <<20201208, 155805>> /\ OpsOf(34) = Up20201208155805
  BY DEF Migrations, VersionOf, OpsOf
<1>35. VersionOf(35) = <<20201209, 124226>> /\ OpsOf(35) = Up20201209124226
  BY DEF Migrations, VersionOf, OpsOf
<1>36. VersionOf(36) = <<20201211, 161117>> /\ OpsOf(36) = Up20201211161117
  BY DEF Migrations, VersionOf, OpsOf
<1>37. VersionOf(37) = <<20201214, 133458>> /\ OpsOf(37) = Up20201214133458
  BY DEF Migrations, VersionOf, OpsOf
<1>38. VersionOf(38) = <<20201221, 194344>> /\ OpsOf(38) = Up20201221194344
  BY DEF Migrations, VersionOf, OpsOf
<1>39. VersionOf(39) = <<20201221, 195937>> /\ OpsOf(39) = Up20201221195937
  BY DEF Migrations, VersionOf, OpsOf
<1>40. VersionOf(40) = <<20201223, 62947>> /\ OpsOf(40) = Up20201223062947
  BY DEF Migrations, VersionOf, OpsOf
<1>41. VersionOf(41) = <<20201223, 202929>> /\ OpsOf(41) = Up20201223202929
  BY DEF Migrations, VersionOf, OpsOf
<1>42. VersionOf(42) = <<20201225, 172926>> /\ OpsOf(42) = Up20201225172926
  BY DEF Migrations, VersionOf, OpsOf
<1>43. VersionOf(43) = <<20201229, 205644>> /\ OpsOf(43) = Up20201229205644
  BY DEF Migrations, VersionOf, OpsOf
<1>44. VersionOf(44) = <<20210107, 94725>> /\ OpsOf(44) = Up20210107094725
  BY DEF Migrations, VersionOf, OpsOf
<1>45. VersionOf(45) = <<20210118, 175809>> /\ OpsOf(45) = Up20210118175809
  BY DEF Migrations, VersionOf, OpsOf
<1>46. VersionOf(46) = <<20210129, 94725>> /\ OpsOf(46) = Up20210129094725
  BY DEF Migrations, VersionOf, OpsOf
<1>47. VersionOf(47) = <<20210129, 142057>> /\ OpsOf(47) = Up20210129142057
  BY DEF Migrations, VersionOf, OpsOf
<1>48. VersionOf(48) = <<20210129, 152427>> /\ OpsOf(48) = Up20210129152427
  BY DEF Migrations, VersionOf, OpsOf
<1>49. VersionOf(49) = <<20210224, 180017>> /\ OpsOf(49) = Up20210224180017
  BY DEF Migrations, VersionOf, OpsOf
<1>50. VersionOf(50) = <<20210323, 175655>> /\ OpsOf(50) = Up20210323175655
  BY DEF Migrations, VersionOf, OpsOf
<1>51. VersionOf(51) = <<20210329, 171739>> /\ OpsOf(51) = Up20210329171739
  BY DEF Migrations, VersionOf, OpsOf
<1>52. VersionOf(52) = <<20210329, 194731>> /\ OpsOf(52) = Up20210329194731
  BY DEF Migrations, VersionOf, OpsOf
<1>53. VersionOf(53) = <<20210414, 165510>> /\ OpsOf(53) = Up20210414165510
  BY DEF Migrations, VersionOf, OpsOf
<1>54. VersionOf(54) = <<20210719, 190719>> /\ OpsOf(54) = Up20210719190719
  BY DEF Migrations, VersionOf, OpsOf
<1>55. VersionOf(55) = <<20211028, 205201>> /\ OpsOf(55) = Up20211028205201
  BY DEF Migrations, VersionOf, OpsOf
<1> USE Births DEF OperationsFit, OperationFits, FileFits, NoLaterThan, NoEarlierThan, Earlier, YamlFiles,
        Creating, Writing, SystemTemplates, NamesPools,
        WorkspaceTemplates, UserFile, Operation, Create, CreateIfAbsent, Update, Describe,
        DescribeIfThere, ArchiveUnused
<1>101. OperationsFit(1, Up20200525160514)  BY SMT, <1>1 DEF Up20200525160514
<1>102. OperationsFit(2, Up20200528140124)  BY SMT, <1>2 DEF Up20200528140124
<1>103. OperationsFit(3, Up20200605090509)  BY SMT, <1>3 DEF Up20200605090509
<1>104. OperationsFit(4, Up20200605090535)  BY SMT, <1>4 DEF Up20200605090535
<1>105. OperationsFit(5, Up20200626113635)  BY SMT, <1>5 DEF Up20200626113635
<1>106. OperationsFit(6, Up20200704151301)  BY SMT, <1>6 DEF Up20200704151301
<1>107. OperationsFit(7, Up20200724220450)  BY SMT, <1>7 DEF Up20200724220450
<1>108. OperationsFit(8, Up20200727144157)  BY SMT, <1>8 DEF Up20200727144157
<1>109. OperationsFit(9, Up20200728190804)  BY SMT, <1>9 DEF Up20200728190804
<1>110. OperationsFit(10, Up20200812104328)  BY SMT, <1>10 DEF Up20200812104328
<1>111. OperationsFit(11, Up20200812113316)  BY SMT, <1>11 DEF Up20200812113316
<1>112. OperationsFit(12, Up20200814160856)  BY SMT, <1>12 DEF Up20200814160856
<1>113. OperationsFit(13, Up20200821162630)  BY SMT, <1>13 DEF Up20200821162630
<1>114. OperationsFit(14, Up20200824095513)  BY SMT, <1>14 DEF Up20200824095513
<1>115. OperationsFit(15, Up20200824101019)  BY SMT, <1>15 DEF Up20200824101019
<1>116. OperationsFit(16, Up20200824101905)  BY SMT, <1>16 DEF Up20200824101905
<1>117. OperationsFit(17, Up20200825154403)  BY SMT, <1>17 DEF Up20200825154403
<1>118. OperationsFit(18, Up20200826185926)  BY SMT, <1>18 DEF Up20200826185926
<1>119. OperationsFit(19, Up20200922103448)  BY SMT, <1>19 DEF Up20200922103448
<1>120. OperationsFit(20, Up20200929144301)  BY SMT, <1>20 DEF Up20200929144301
<1>121. OperationsFit(21, Up20200929153931)  BY SMT, <1>21 DEF Up20200929153931
<1>122. OperationsFit(22, Up20201001070806)  BY SMT, <1>22 DEF Up20201001070806
<1>123. OperationsFit(23, Up20201016170415)  BY SMT, <1>23 DEF Up20201016170415
<1>124. OperationsFit(24, Up20201028145442)  BY SMT, <1>24 DEF Up20201028145442
<1>125. OperationsFit(25, Up20201028145443)  BY SMT, <1>25 DEF Up20201028145443
<1>126. OperationsFit(26, Up20201031165106)  BY SMT, <1>26 DEF Up20201031165106
<1>127. OperationsFit(27, Up20201102104048)  BY SMT, <1>27 DEF Up20201102104048
<1>128. OperationsFit(28, Up20201113094916)  BY SMT, <1>28 DEF Up20201113094916
<1>129. OperationsFit(29, Up20201115133046)  BY SMT, <1>29 DEF Up20201115133046
<1>130. OperationsFit(30, Up20201115134934)  BY SMT, <1>30 DEF Up20201115134934
<1>131. OperationsFit(31, Up20201115145814)  BY SMT, <1>31 DEF Up20201115145814
<1>132. OperationsFit(32, Up20201130130433)  BY SMT, <1>32 DEF Up20201130130433
<1>133. OperationsFit(33, Up20201208155115)  BY SMT, <1>33 DEF Up20201208155115
<1>134. OperationsFit(34, Up20201208155805)  BY SMT, <1>34, <1>33 DEF Up20201208155805
<1>135. OperationsFit(35, Up20201209124226)  BY SMT, <1>35 DEF Up20201209124226
<1>136. OperationsFit(36, Up20201211161117)  BY SMT, <1>36 DEF Up20201211161117
<1>137. OperationsFit(37, Up20201214133458)  BY SMT, <1>37 DEF Up20201214133458
<1>138. OperationsFit(38, Up20201221194344)  BY SMT, <1>38 DEF Up20201221194344
<1>139. OperationsFit(39, Up20201221195937)  BY SMT, <1>39 DEF Up20201221195937
<1>140. OperationsFit(40, Up20201223062947)  BY SMT, <1>40 DEF Up20201223062947
<1>141. OperationsFit(41, Up20201223202929)  BY SMT, <1>41 DEF Up20201223202929
<1>142. OperationsFit(42, Up20201225172926)  BY SMT, <1>42 DEF Up20201225172926
<1>143. OperationsFit(43, Up20201229205644)  BY SMT, <1>43 DEF Up20201229205644
<1>144. OperationsFit(44, Up20210107094725)  BY SMT, <1>44 DEF Up20210107094725
<1>145. OperationsFit(45, Up20210118175809)
  <2>1. OperationFits(45, Up20210118175809[1])  BY SMT, <1>45 DEF Up20210118175809
  <2>2. OperationFits(45, Up20210118175809[2])  BY SMT, <1>45 DEF Up20210118175809
  <2>3. OperationFits(45, Up20210118175809[3])  BY SMT, <1>45 DEF Up20210118175809
  <2>4. OperationFits(45, Up20210118175809[4])  BY SMT, <1>45 DEF Up20210118175809
  <2>5. OperationFits(45, Up20210118175809[5])  BY SMT, <1>45 DEF Up20210118175809
  <2>6. /\ Len(Up20210118175809) = 5 /\ DOMAIN Up20210118175809 = 1..5 /\ Up20210118175809 # <<>>
        /\ \A j, k \in 1..5 : Up20210118175809[j].template = Up20210118175809[k].template => j = k
    <3> HIDE DEF OperationFits, FileFits, YamlFiles, Earlier
    <3>1. QED  BY SMT DEF Up20210118175809, Create, Update, Operation
  <2> HIDE DEF OperationFits, FileFits, YamlFiles, Earlier
  <2>7. QED  BY SMT, <2>1, <2>2, <2>3, <2>4, <2>5, <2>6
<1>146. OperationsFit(46, Up20210129094725)  BY SMT, <1>46, <1>47 DEF Up20210129094725
<1>147. OperationsFit(47, Up20210129142057)  BY SMT, <1>47 DEF Up20210129142057
<1>148. OperationsFit(48, Up20210129152427)  BY SMT, <1>48 DEF Up20210129152427
<1>149. OperationsFit(49, Up20210224180017)
  <2>1. OperationFits(49, Up20210224180017[1])  BY SMT, <1>49 DEF Up20210224180017
  <2>2. OperationFits(49, Up20210224180017[2])  BY SMT, <1>49 DEF Up20210224180017
  <2>3. OperationFits(49, Up20210224180017[3])  BY SMT, <1>49 DEF Up20210224180017
  <2>4. /\ Len(Up20210224180017) = 3 /\ DOMAIN Up20210224180017 = 1..3 /\ Up20210224180017 # <<>>
        /\ \A j, k \in 1..3 : Up20210224180017[j].template = Up20210224180017[k].template => j = k
    <3> HIDE DEF OperationFits, FileFits, YamlFiles, Earlier
    <3>1. QED  BY SMT DEF Up20210224180017, Create, Update, Operation
  <2> HIDE DEF OperationFits, FileFits, YamlFiles, Earlier
  <2>5. QED  BY SMT, <2>1, <2>2, <2>3, <2>4
<1>150. OperationsFit(50, Up20210323175655)  BY SMT, <1>50 DEF Up20210323175655
<1>151. OperationsFit(51, Up20210329171739)
  <2>1. OperationFits(51, Up20210329171739[1])  BY SMT, <1>51, <1>50 DEF Up20210329171739
  <2>2. OperationFits(51, Up20210329171739[2])  BY SMT, <1>51, <1>50 DEF Up20210329171739
  <2>3. OperationFits(51, Up20210329171739[3])  BY SMT, <1>51, <1>50 DEF Up20210329171739
  <2>4. /\ Len(Up20210329171739) = 3 /\ DOMAIN Up20210329171739 = 1..3 /\ Up20210329171739 # <<>>
        /\ \A j, k \in 1..3 : Up20210329171739[j].template = Up20210329171739[k].template => j = k
    <3> HIDE DEF OperationFits, FileFits, YamlFiles, Earlier
    <3>1. QED  BY SMT DEF Up20210329171739, Create, Update, Operation
  <2> HIDE DEF OperationFits, FileFits, YamlFiles, Earlier
  <2>5. QED  BY SMT, <2>1, <2>2, <2>3, <2>4
<1>152. OperationsFit(52, Up20210329194731)  BY SMT, <1>52 DEF Up20210329194731
<1>153. OperationsFit(53, Up20210414165510)  BY SMT, <1>53 DEF Up20210414165510
<1>154. OperationsFit(54, Up20210719190719)
  <2>1. OperationFits(54, Up20210719190719[1])  BY SMT, <1>54 DEF Up20210719190719
  <2>2. OperationFits(54, Up20210719190719[2])  BY SMT, <1>54 DEF Up20210719190719
  <2>3. OperationFits(54, Up20210719190719[3])  BY SMT, <1>54 DEF Up20210719190719
  <2>4. OperationFits(54, Up20210719190719[4])  BY SMT, <1>54 DEF Up20210719190719
  <2>5. /\ Len(Up20210719190719) = 4 /\ DOMAIN Up20210719190719 = 1..4 /\ Up20210719190719 # <<>>
        /\ \A j, k \in 1..4 : Up20210719190719[j].template = Up20210719190719[k].template => j = k
    <3> HIDE DEF OperationFits, FileFits, YamlFiles, Earlier
    <3>1. QED  BY SMT DEF Up20210719190719, Create, Update, Operation
  <2> HIDE DEF OperationFits, FileFits, YamlFiles, Earlier
  <2>6. QED  BY SMT, <2>1, <2>2, <2>3, <2>4, <2>5
<1>155. OperationsFit(55, Up20211028205201)  BY SMT, <1>55 DEF Up20211028205201
<1> HIDE Births DEF OperationsFit, OperationFits, FileFits, NoLaterThan, NoEarlierThan, Earlier, YamlFiles,
         Creating, Writing, SystemTemplates, NamesPools,
        WorkspaceTemplates, UserFile, Operation, Create, CreateIfAbsent, Update, Describe,
         DescribeIfThere, ArchiveUnused
<1> USE DEF Before
<1>201. Before(VersionOf(1), VersionOf(2))  BY <1>1, <1>2
<1>202. Before(VersionOf(2), VersionOf(3))  BY <1>2, <1>3
<1>203. Before(VersionOf(3), VersionOf(4))  BY <1>3, <1>4
<1>204. Before(VersionOf(4), VersionOf(5))  BY <1>4, <1>5
<1>205. Before(VersionOf(5), VersionOf(6))  BY <1>5, <1>6
<1>206. Before(VersionOf(6), VersionOf(7))  BY <1>6, <1>7
<1>207. Before(VersionOf(7), VersionOf(8))  BY <1>7, <1>8
<1>208. Before(VersionOf(8), VersionOf(9))  BY <1>8, <1>9
<1>209. Before(VersionOf(9), VersionOf(10))  BY <1>9, <1>10
<1>210. Before(VersionOf(10), VersionOf(11))  BY <1>10, <1>11
<1>211. Before(VersionOf(11), VersionOf(12))  BY <1>11, <1>12
<1>212. Before(VersionOf(12), VersionOf(13))  BY <1>12, <1>13
<1>213. Before(VersionOf(13), VersionOf(14))  BY <1>13, <1>14
<1>214. Before(VersionOf(14), VersionOf(15))  BY <1>14, <1>15
<1>215. Before(VersionOf(15), VersionOf(16))  BY <1>15, <1>16
<1>216. Before(VersionOf(16), VersionOf(17))  BY <1>16, <1>17
<1>217. Before(VersionOf(17), VersionOf(18))  BY <1>17, <1>18
<1>218. Before(VersionOf(18), VersionOf(19))  BY <1>18, <1>19
<1>219. Before(VersionOf(19), VersionOf(20))  BY <1>19, <1>20
<1>220. Before(VersionOf(20), VersionOf(21))  BY <1>20, <1>21
<1>221. Before(VersionOf(21), VersionOf(22))  BY <1>21, <1>22
<1>222. Before(VersionOf(22), VersionOf(23))  BY <1>22, <1>23
<1>223. Before(VersionOf(23), VersionOf(24))  BY <1>23, <1>24
<1>224. Before(VersionOf(24), VersionOf(25))  BY <1>24, <1>25
<1>225. Before(VersionOf(25), VersionOf(26))  BY <1>25, <1>26
<1>226. Before(VersionOf(26), VersionOf(27))  BY <1>26, <1>27
<1>227. Before(VersionOf(27), VersionOf(28))  BY <1>27, <1>28
<1>228. Before(VersionOf(28), VersionOf(29))  BY <1>28, <1>29
<1>229. Before(VersionOf(29), VersionOf(30))  BY <1>29, <1>30
<1>230. Before(VersionOf(30), VersionOf(31))  BY <1>30, <1>31
<1>231. Before(VersionOf(31), VersionOf(32))  BY <1>31, <1>32
<1>232. Before(VersionOf(32), VersionOf(33))  BY <1>32, <1>33
<1>233. Before(VersionOf(33), VersionOf(34))  BY <1>33, <1>34
<1>234. Before(VersionOf(34), VersionOf(35))  BY <1>34, <1>35
<1>235. Before(VersionOf(35), VersionOf(36))  BY <1>35, <1>36
<1>236. Before(VersionOf(36), VersionOf(37))  BY <1>36, <1>37
<1>237. Before(VersionOf(37), VersionOf(38))  BY <1>37, <1>38
<1>238. Before(VersionOf(38), VersionOf(39))  BY <1>38, <1>39
<1>239. Before(VersionOf(39), VersionOf(40))  BY <1>39, <1>40
<1>240. Before(VersionOf(40), VersionOf(41))  BY <1>40, <1>41
<1>241. Before(VersionOf(41), VersionOf(42))  BY <1>41, <1>42
<1>242. Before(VersionOf(42), VersionOf(43))  BY <1>42, <1>43
<1>243. Before(VersionOf(43), VersionOf(44))  BY <1>43, <1>44
<1>244. Before(VersionOf(44), VersionOf(45))  BY <1>44, <1>45
<1>245. Before(VersionOf(45), VersionOf(46))  BY <1>45, <1>46
<1>246. Before(VersionOf(46), VersionOf(47))  BY <1>46, <1>47
<1>247. Before(VersionOf(47), VersionOf(48))  BY <1>47, <1>48
<1>248. Before(VersionOf(48), VersionOf(49))  BY <1>48, <1>49
<1>249. Before(VersionOf(49), VersionOf(50))  BY <1>49, <1>50
<1>250. Before(VersionOf(50), VersionOf(51))  BY <1>50, <1>51
<1>251. Before(VersionOf(51), VersionOf(52))  BY <1>51, <1>52
<1>252. Before(VersionOf(52), VersionOf(53))  BY <1>52, <1>53
<1>253. Before(VersionOf(53), VersionOf(54))  BY <1>53, <1>54
<1>254. Before(VersionOf(54), VersionOf(55))  BY <1>54, <1>55
<1> HIDE DEF Before
<1> USE DEF Operation, Create, CreateIfAbsent, Creating
<1>301. MadeAtBirth("JupyterLab")
  <2>1. 1 \in DOMAIN OpsOf(1) /\ OpsOf(1)[1].template = "JupyterLab" /\ OpsOf(1)[1].does \in Creating
    BY SMT, <1>1 DEF Up20200525160514
  <2>2. QED  BY SMT, <2>1, Births, MadeWhen
<1>302. MadeAtBirth("CVAT")
  <2>1. 1 \in DOMAIN OpsOf(2) /\ OpsOf(2)[1].template = "CVAT" /\ OpsOf(2)[1].does \in Creating
    BY SMT, <1>2 DEF Up20200528140124
  <2>2. QED  BY SMT, <2>1, Births, MadeWhen
<1>303. MadeAtBirth("PyTorch")
  <2>1. 1 \in DOMAIN OpsOf(3) /\ OpsOf(3)[1].template = "PyTorch" /\ OpsOf(3)[1].does \in Creating
    BY SMT, <1>3 DEF Up20200605090509
  <2>2. QED  BY SMT, <2>1, Births, MadeWhen
<1>304. MadeAtBirth("TensorFlow")
  <2>1. 1 \in DOMAIN OpsOf(4) /\ OpsOf(4)[1].template = "TensorFlow" /\ OpsOf(4)[1].does \in Creating
    BY SMT, <1>4 DEF Up20200605090535
  <2>2. QED  BY SMT, <2>1, Births, MadeWhen
<1>305. MadeAtBirth("MaskRCNN")
  <2>1. 1 \in DOMAIN OpsOf(10) /\ OpsOf(10)[1].template = "MaskRCNN" /\ OpsOf(10)[1].does \in Creating
    BY SMT, <1>10 DEF Up20200812104328
  <2>2. QED  BY SMT, <2>1, Births, MadeWhen
<1>306. MadeAtBirth("TFOD")
  <2>1. 2 \in DOMAIN OpsOf(10) /\ OpsOf(10)[2].template = "TFOD" /\ OpsOf(10)[2].does \in Creating
    BY SMT, <1>10 DEF Up20200812104328
  <2>2. QED  BY SMT, <2>1, Births, MadeWhen
<1>307. MadeAtBirth("VSCode")
  <2>1. 1 \in DOMAIN OpsOf(20) /\ OpsOf(20)[1].template = "VSCode" /\ OpsOf(20)[1].does \in Creating
    BY SMT, <1>20 DEF Up20200929144301
  <2>2. QED  BY SMT, <2>1, Births, MadeWhen
<1>308. MadeAtBirth("Hyperparameter")
  <2>1. 1 \in DOMAIN OpsOf(42) /\ OpsOf(42)[1].template = "Hyperparameter" /\ OpsOf(42)[1].does \in Creating
    BY SMT, <1>42 DEF Up20201225172926
  <2>2. QED  BY SMT, <2>1, Births, MadeWhen
<1>309. MadeAtBirth("Desktop")
  <2>1. 1 \in DOMAIN OpsOf(53) /\ OpsOf(53)[1].template = "Desktop" /\ OpsOf(53)[1].does \in Creating
    BY SMT, <1>53 DEF Up20210414165510
  <2>2. QED  BY SMT, <2>1, Births, MadeWhen
<1>310. MadeAtBirth("CVAT_1.6.0")
  <2>1. 1 \in DOMAIN OpsOf(55) /\ OpsOf(55)[1].template = "CVAT_1.6.0" /\ OpsOf(55)[1].does \in Creating
    BY SMT, <1>55 DEF Up20211028205201
  <2>2. QED  BY SMT, <2>1, Births, MadeWhen
<1> HIDE DEF Operation, Create, CreateIfAbsent, Creating
<1>56. \A i \in 1..55 : VersionOf(i) \in Nat \X Nat
  BY SMT, InTable,
     <1>1, <1>2, <1>3, <1>4, <1>5, <1>6, <1>7, <1>8, <1>9, <1>10, <1>11, <1>12, <1>13, <1>14,
     <1>15, <1>16, <1>17, <1>18, <1>19, <1>20, <1>21, <1>22, <1>23, <1>24, <1>25, <1>26, <1>27, <1>28,
     <1>29, <1>30, <1>31, <1>32, <1>33, <1>34, <1>35, <1>36, <1>37, <1>38, <1>39, <1>40, <1>41, <1>42,
     <1>43, <1>44, <1>45, <1>46, <1>47, <1>48, <1>49, <1>50, <1>51, <1>52, <1>53, <1>54, <1>55
<1>57. \A i \in 1..55 : OperationsFit(i, OpsOf(i))
  BY SMT, InTable,
     <1>1, <1>2, <1>3, <1>4, <1>5, <1>6, <1>7, <1>8, <1>9, <1>10, <1>11, <1>12, <1>13, <1>14,
     <1>15, <1>16, <1>17, <1>18, <1>19, <1>20, <1>21, <1>22, <1>23, <1>24, <1>25, <1>26, <1>27, <1>28,
     <1>29, <1>30, <1>31, <1>32, <1>33, <1>34, <1>35, <1>36, <1>37, <1>38, <1>39, <1>40, <1>41, <1>42,
     <1>43, <1>44, <1>45, <1>46, <1>47, <1>48, <1>49, <1>50, <1>51, <1>52, <1>53, <1>54, <1>55,
     <1>101, <1>102, <1>103, <1>104, <1>105, <1>106, <1>107, <1>108, <1>109, <1>110,
     <1>111, <1>112, <1>113, <1>114, <1>115, <1>116, <1>117, <1>118, <1>119, <1>120,
     <1>121, <1>122, <1>123, <1>124, <1>125, <1>126, <1>127, <1>128, <1>129, <1>130,
     <1>131, <1>132, <1>133, <1>134, <1>135, <1>136, <1>137, <1>138, <1>139, <1>140,
     <1>141, <1>142, <1>143, <1>144, <1>145, <1>146, <1>147, <1>148, <1>149, <1>150,
     <1>151, <1>152, <1>153, <1>154, <1>155
<1>58. \A i \in 1..54 : Before(VersionOf(i), VersionOf(i + 1))
  BY SMT, InTable,
     <1>201, <1>202, <1>203, <1>204, <1>205, <1>206, <1>207, <1>208, <1>209, <1>210,
     <1>211, <1>212, <1>213, <1>214, <1>215, <1>216, <1>217, <1>218, <1>219, <1>220,
     <1>221, <1>222, <1>223, <1>224, <1>225, <1>226, <1>227, <1>228, <1>229, <1>230,
     <1>231, <1>232, <1>233, <1>234, <1>235, <1>236, <1>237, <1>238, <1>239, <1>240,
     <1>241, <1>242, <1>243, <1>244, <1>245, <1>246, <1>247, <1>248, <1>249, <1>250,
     <1>251, <1>252, <1>253, <1>254
<1>59. \A T \in SystemTemplates : MadeAtBirth(T)
  BY SMT, <1>301, <1>302, <1>303, <1>304, <1>305, <1>306, <1>307, <1>308, <1>309, <1>310 DEF SystemTemplates
<1>60. QED
  BY <1>56, <1>57, <1>58, <1>59

(* What an operation of the table is.                                       *)
LEMMA InRow ==
    ASSUME NEW i \in 1..55
    PROVE  /\ Len(OpsOf(i)) \in 0..5
           /\ DOMAIN OpsOf(i) = 1..Len(OpsOf(i))
           /\ (Len(OpsOf(i)) = 0 <=> OpsOf(i) = <<>>)
           /\ \A j \in DOMAIN OpsOf(i) : OperationFits(i, OpsOf(i)[j])
           /\ \A j, k \in DOMAIN OpsOf(i) : OpsOf(i)[j].template = OpsOf(i)[k].template => j = k
  BY Table DEF OperationsFit

(* The j-th operation of the i-th migration writes T.                       *)
WritesTo(i, j, T) == j \in DOMAIN OpsOf(i) /\ OpsOf(i)[j].template = T /\ OpsOf(i)[j].does \in Writing

Writer(w, T, k) ==
    w[1] \in 1..k /\ w[1] \in 1..55 /\ WritesTo(w[1], w[2], T) /\ FileOf(w) = OpsOf(w[1])[w[2]].file

LEMMA WriterFits ==
    ASSUME NEW i \in 1..55, NEW j, NEW T, WritesTo(i, j, T)
    PROVE  j \in 1..5 /\ OperationFits(i, OpsOf(i)[j])
<1>1. j \in DOMAIN OpsOf(i) /\ OperationFits(i, OpsOf(i)[j])
  BY InRow DEF WritesTo
<1>2. DOMAIN OpsOf(i) = 1..Len(OpsOf(i)) /\ Len(OpsOf(i)) \in 0..5
  BY InRow
<1>3. QED
  BY <1>1, <1>2

LEMMA OneWriter ==
    ASSUME NEW i \in 1..55, NEW j, NEW k, NEW T, WritesTo(i, j, T), WritesTo(i, k, T)
    PROVE  j = k
<1>1. \A a, b \in DOMAIN OpsOf(i) : OpsOf(i)[a].template = OpsOf(i)[b].template => a = b
  BY InRow
<1>2. QED
  BY <1>1 DEF WritesTo

LEMMA Writers ==
    ASSUME NEW T, NEW k \in 0..55
    PROVE  /\ \A w \in WritersOf(T, k) : Writer(w, T, k)
           /\ \A i \in 1..k : \A j : WritesTo(i, j, T) => <<i, j>> \in WritersOf(T, k)
<1>1. ASSUME NEW w \in WritersOf(T, k)
      PROVE  Writer(w, T, k)
  <2>1. w[1] \in 1..k /\ w[1] \in 1..55 /\ WritesFile(w[1], w[2], T)
    BY DEF WritersOf
  <2>2. OperationFits(w[1], OpsOf(w[1])[w[2]])
    BY <2>1, InRow DEF WritesFile, OpsOf
  <2>3. QED
    BY <2>1, <2>2 DEF Writer, WritesFile, WritesTo, OpsOf, OperationFits, FileOf
<1>2. ASSUME NEW i \in 1..k, NEW j, WritesTo(i, j, T)
      PROVE  <<i, j>> \in WritersOf(T, k)
  <2>0. i \in 1..55
    OBVIOUS
  <2>1. i \in 1..55 /\ j \in 1..5 /\ OperationFits(i, OpsOf(i)[j])
    BY <1>2, <2>0, WriterFits
  <2>2. WritesFile(i, j, T)
    BY <1>2, <2>1 DEF WritesFile, WritesTo, OpsOf, OperationFits
  <2>3. QED
    BY <2>1, <2>2 DEF WritersOf
<1>3. QED
  BY <1>1, <1>2

(* The last of the writers has written what is there.                       *)
LEMMA LastWrites ==
    ASSUME NEW T, NEW k \in 0..55, NEW i \in 1..k, NEW j, WritesTo(i, j, T),
           \A x \in WritersOf(T, k) : x[1] <= i
    PROVE  FileAfter(T, k) = OpsOf(i)[j].file
<1> DEFINE last == CHOOSE w \in WritersOf(T, k) : \A x \in WritersOf(T, k) : x[1] <= w[1]
<1>1. <<i, j>> \in WritersOf(T, k)
  BY Writers
<1>2. last \in WritersOf(T, k) /\ \A x \in WritersOf(T, k) : x[1] <= last[1]
  BY <1>1
<1>3. FileAfter(T, k) = FileOf(last)
  BY <1>1 DEF FileAfter
<1> HIDE DEF last
<1>4. Writer(last, T, k)
  BY <1>2, Writers
<1>5. last[1] = i
  BY <1>1, <1>2, <1>4 DEF Writer
<1>6. last[2] = j
  BY <1>4, <1>5, OneWriter DEF Writer
<1>7. QED
  BY <1>3, <1>4, <1>5, <1>6 DEF Writer

LEMMA SomeLast ==
    ASSUME NEW T, NEW k \in 0..55, WritersOf(T, k) # {}
    PROVE  \E i \in 1..k : \E j : WritesTo(i, j, T) /\ \A x \in WritersOf(T, k) : x[1] <= i
<1> DEFINE Back == {n \in Nat : \E w \in WritersOf(T, k) : n = k - w[1]}
<1>1. ASSUME NEW w \in WritersOf(T, k)
      PROVE  w[1] \in 1..k /\ k - w[1] \in Back
  <2>1. Writer(w, T, k)
    BY Writers
  <2>2. w[1] \in 1..k
    BY <2>1 DEF Writer
  <2>3. QED
    BY <2>2
<1>2. PICK n \in Back : \A m \in Back : n <= m
  BY <1>1, LeastNumber
<1>3. PICK w \in WritersOf(T, k) : n = k - w[1]
  BY <1>2
<1>4. w[1] \in 1..k /\ WritesTo(w[1], w[2], T)
  BY Writers DEF Writer
<1>5. ASSUME NEW x \in WritersOf(T, k)
      PROVE  x[1] <= w[1]
  BY <1>1, <1>2, <1>3
<1>6. QED
  BY <1>4, <1>5

FileOfLast(writers) ==
    IF writers = {} THEN <<0, 0>> ELSE FileOf(CHOOSE w \in writers : \A x \in writers : x[1] <= w[1])

(* What a migration writes is what is there after it.                       *)
LEMMA FileStep ==
    ASSUME NEW T, NEW k \in 0..54
    PROVE  /\ \A j : WritesTo(k + 1, j, T) => FileAfter(T, k + 1) = OpsOf(k + 1)[j].file
           /\ (\A j : ~WritesTo(k + 1, j, T)) => FileAfter(T, k + 1) = FileAfter(T, k)
<1>1. ASSUME NEW j, WritesTo(k + 1, j, T)
      PROVE  FileAfter(T, k + 1) = OpsOf(k + 1)[j].file
  <2>1. k + 1 \in 0..55 /\ k + 1 \in 1..(k + 1)
    OBVIOUS
  <2>2. \A x \in WritersOf(T, k + 1) : Writer(x, T, k + 1)
    BY <2>1, Writers
  <2>3. \A x \in WritersOf(T, k + 1) : x[1] <= k + 1
    BY <2>2 DEF Writer
  <2>4. QED
    BY <1>1, <2>1, <2>3, LastWrites
<1>2. ASSUME \A j : ~WritesTo(k + 1, j, T)
      PROVE  FileAfter(T, k + 1) = FileAfter(T, k)
  <2>1. ASSUME NEW w \in WritersOf(T, k + 1)
        PROVE  w \in WritersOf(T, k)
    <3>0. k + 1 \in 0..55
      OBVIOUS
    <3>1. Writer(w, T, k + 1)
      BY <3>0, Writers
    <3>2. w[1] \in 1..k
      BY <1>2, <3>1 DEF Writer
    <3>3. QED
      BY <3>2 DEF WritersOf
  <2>2. WritersOf(T, k + 1) = WritersOf(T, k)
    BY <2>1 DEF WritersOf
  <2>3. FileAfter(T, k + 1) = FileOfLast(WritersOf(T, k + 1)) /\ FileAfter(T, k) = FileOfLast(WritersOf(T, k))
    BY Zenon DEF FileAfter, FileOfLast
  <2>4. QED
    BY <2>2, <2>3
<1>3. QED
  BY <1>1, <1>2

(* There is a file from the migration on that creates the template.         *)
LEMMA FileBorn ==
    ASSUME NEW T \in SystemTemplates, NEW k \in 0..55
    PROVE  /\ FileAfter(T, k) \in Nat \X Nat /\ FileAfter(T, k) # UserFile
           /\ FileAfter(T, k) = <<0, 0>> <=> k < Born(T)
<1>1. Born(T) \in 1..55
  BY Births DEF SystemTemplates
<1>2. ASSUME k < Born(T)
      PROVE  WritersOf(T, k) = {}
  <2>1. SUFFICES ASSUME NEW w \in WritersOf(T, k)  PROVE FALSE
    OBVIOUS
  <2>2. w[1] \in 1..k /\ w[1] \in 1..55 /\ WritesTo(w[1], w[2], T)
    BY Writers DEF Writer
  <2>3. OperationFits(w[1], OpsOf(w[1])[w[2]])
    BY <2>2, WriterFits
  <2>4. Born(T) = w[1] \/ Born(T) < w[1]
    BY <2>2, <2>3 DEF OperationFits, WritesTo, Writing
  <2>5. QED
    BY <1>1, <1>2, <2>2, <2>4
<1>3. ASSUME ~(k < Born(T))
      PROVE  WritersOf(T, k) # {}
  <2>1. Born(T) \in 1..k
    BY <1>1, <1>3
  <2>2. PICK j \in DOMAIN OpsOf(Born(T)) : WritesTo(Born(T), j, T)
    BY Table DEF MadeAtBirth, WritesTo, Writing
  <2>3. QED
    BY <2>1, <2>2, Writers
<1>4. ASSUME WritersOf(T, k) # {}
      PROVE  FileAfter(T, k) \in Nat \X Nat /\ FileAfter(T, k) \notin {<<0, 0>>, UserFile}
  <2>1. PICK i \in 1..k : \E j : WritesTo(i, j, T) /\ \A x \in WritersOf(T, k) : x[1] <= i
    BY <1>4, SomeLast
  <2>2. PICK j : WritesTo(i, j, T)
    BY <2>1
  <2>3. FileAfter(T, k) = OpsOf(i)[j].file
    BY <2>1, <2>2, LastWrites
  <2>4. i \in 1..55
    OBVIOUS
  <2>5. OperationFits(i, OpsOf(i)[j])
    BY <2>2, <2>4, WriterFits
  <2>6. QED
    BY <2>2, <2>3, <2>5 DEF OperationFits, FileFits, WritesTo
<1>5. WritersOf(T, k) = {} => FileAfter(T, k) = <<0, 0>>
  BY DEF FileAfter
<1>6. <<0, 0>> \in Nat \X Nat /\ <<0, 0>> # UserFile
  BY DEF UserFile
<1>7. QED
  BY <1>2, <1>3, <1>4, <1>5, <1>6

LEMMA VersionsInOrder ==
    ASSUME NEW a \in 1..55, NEW b \in 1..55, a < b
    PROVE  Before(VersionOf(a), VersionOf(b))
<1> DEFINE Bad == {n \in Nat : n \in (a + 1)..55 /\ ~Before(VersionOf(a), VersionOf(n))}
<1>1. SUFFICES ASSUME Bad # {}  PROVE FALSE
  OBVIOUS
<1>2. PICK n \in Bad : \A m \in Bad : n <= m
  BY <1>1, LeastNumber
<1>3. n \in 1..55 /\ n - 1 \in 1..54 /\ n - 1 + 1 = n
  BY <1>2
<1>4. VersionOf(a) \in Nat \X Nat /\ VersionOf(n) \in Nat \X Nat /\ VersionOf(n - 1) \in Nat \X Nat
  BY <1>3, Table
<1>5. Before(VersionOf(n - 1), VersionOf(n))
  BY <1>3, Table
<1>6. n - 1 # a
  BY <1>2, <1>5
<1>7. n - 1 \in (a + 1)..55 /\ n - 1 \notin Bad
  BY <1>2, <1>6
<1>8. Before(VersionOf(a), VersionOf(n - 1))
  BY <1>3, <1>7
<1>9. Before(VersionOf(a), VersionOf(n))
  BY SMT, <1>4, <1>5, <1>8 DEF Before
<1>10. QED
  BY <1>2, <1>9

LEMMA BeforeIsEarlier ==
    ASSUME NEW p \in Nat \X Nat, NEW q \in Nat \X Nat, Before(p, q)
    PROVE  Earlier(p, q)
  BY SMT DEF Before, Earlier

LEMMA VersionsGrow ==
    ASSUME NEW a \in 1..55, NEW b \in 1..55, a <= b
    PROVE  Earlier(VersionOf(a), VersionOf(b))
<1>1. VersionOf(a) \in Nat \X Nat /\ VersionOf(b) \in Nat \X Nat
  BY Table
<1>2. CASE a = b
  BY <1>1, <1>2 DEF Earlier
<1>3. CASE a < b
  <2>1. Before(VersionOf(a), VersionOf(b))
    BY <1>3, VersionsInOrder
  <2>2. QED
    BY Zenon, <2>1, <1>1, BeforeIsEarlier
<1>4. QED
  BY <1>2, <1>3

(* The file last written is the newest by name of those that were written:  *)
(* a namespace made from the files gets what the others were upgraded to.   *)
LEMMA NewestIsLast ==
    ASSUME NEW T \in SystemTemplates, NEW k \in 0..55
    PROVE  NewestFile(T, k) = FileAfter(T, k)
<1> DEFINE shipped == {f \in YamlFiles(T) : \E w \in WritersOf(T, k) : FileOf(w) = f}
<1>1. CASE WritersOf(T, k) = {}
  BY <1>1 DEF NewestFile, FileAfter
<1>2. CASE WritersOf(T, k) # {}
  <2>1. PICK i \in 1..k : \E j : WritesTo(i, j, T) /\ \A x \in WritersOf(T, k) : x[1] <= i
    BY <1>2, SomeLast
  <2>2. PICK j : WritesTo(i, j, T)
    BY <2>1
  <2> DEFINE f == OpsOf(i)[j].file
  <2>3. FileAfter(T, k) = f
    BY <2>1, <2>2, LastWrites
  <2>4. FileFits(i, T, f)
    <3>1. i \in 1..55
      OBVIOUS
    <3>2. OperationFits(i, OpsOf(i)[j])
      BY <2>2, <3>1, WriterFits
    <3>3. QED
      BY <2>2, <3>2 DEF WritesTo, OperationFits
  <2>5. f \in shipped
    <3>1. <<i, j>> \in WritersOf(T, k)
      BY <2>2, Writers
    <3>2. FileOf(<<i, j>>) = f
      BY DEF FileOf, OpsOf
    <3>3. QED
      BY <2>4, <3>1, <3>2 DEF FileFits
  <2>6. ASSUME NEW g \in shipped
        PROVE  Earlier(g, f) /\ g \in Nat \X Nat
    <3>1. PICK w \in WritersOf(T, k) : FileOf(w) = g
      OBVIOUS
    <3>2. w[1] \in 1..55 /\ WritesTo(w[1], w[2], T) /\ g = OpsOf(w[1])[w[2]].file /\ w[1] <= i
      BY <2>1, <3>1, Writers DEF Writer
    <3>7. OperationFits(w[1], OpsOf(w[1])[w[2]])
      BY <3>2, WriterFits
    <3>3. FileFits(w[1], T, g)
      BY <3>2, <3>7 DEF WritesTo, OperationFits
    <3>4. CASE w[1] = i
      <4>1. g = f
        BY <2>2, <3>2, <3>4, OneWriter
      <4>2. QED
        BY <3>3, <4>1 DEF FileFits, Earlier
    <3>5. CASE w[1] < i
      <4>1. NoLaterThan(w[1]) \in 1..55 /\ NoEarlierThan(i) \in 1..55 /\ NoLaterThan(w[1]) <= NoEarlierThan(i)
        BY <3>2, <3>5 DEF NoLaterThan, NoEarlierThan
      <4>2. Earlier(VersionOf(NoLaterThan(w[1])), VersionOf(NoEarlierThan(i)))
        BY <4>1, VersionsGrow
      <4>3. VersionOf(NoLaterThan(w[1])) \in Nat \X Nat /\ VersionOf(NoEarlierThan(i)) \in Nat \X Nat
        BY <4>1, Table
      <4>4. QED
        BY <2>4, <3>3, <4>2, <4>3 DEF FileFits, Earlier
    <3>6. QED
      BY <3>2, <3>4, <3>5
  <2> HIDE DEF shipped, f
  <2>7. ASSUME NEW g \in shipped, \A h \in shipped : Earlier(h, g)
        PROVE  g = f
    BY <2>5, <2>6, <2>7 DEF Earlier
  <2>8. (CHOOSE g \in shipped : \A h \in shipped : Earlier(h, g)) = f
    BY <2>5, <2>6, <2>7
  <2>9. NewestFile(T, k) = f
    BY <2>5, <2>8 DEF NewestFile, shipped
  <2>10. QED
    BY <2>3, <2>9
<1>3. QED
  BY <1>1, <1>2

----------------------------------------------------------------------------
(* The upgrade.                                                             *)

TemplateRecords ==
    [state : {"Absent", "Live", "Archived", "Broken"}, file : Nat \X Nat,
     repository : Repositories \cup {NoRepository}, pools : {"none", "left", "replaced"}]

MigShape ==
    /\ migRelease \in Releases /\ migOld \in OldReleases
    /\ migServer \in {"Down", "Migrating", "Up"}
    /\ migDone \in 0..migRelease
    /\ migServer = "Up" => migDone = migRelease
    /\ migOp \in 0..5
    /\ migOp > 0 => /\ migServer = "Migrating" /\ migDone < migRelease /\ migOld <= migDone
                    /\ migOp \in DOMAIN OpsOf(migDone + 1)
    /\ migLeft \subseteq EnabledNamespaces
    /\ migCached \in Repositories \cup {NoRepository}
    /\ migSpace \in [MigSpaces -> {"None", "Half", "Made"}]
    /\ migMade \in [MigSpaces -> Nat] /\ \A n \in MigSpaces : migMade[n] <= migDone
    /\ migRepository \in [MigSpaces -> Repositories]
    /\ migTemplate \in [MigSpaces -> [SystemTemplates -> TemplateRecords]]

(* How far the templates are, by the migrations recorded in either table.   *)
Reached == IF migDone < migOld THEN migOld ELSE migDone

(* The migration under way has been applied to T in n.                      *)
Applied(n, T) ==
    /\ migOp > 0
    /\ \E j \in DOMAIN OpsOf(Reached + 1) :
         OpsOf(Reached + 1)[j].template = T /\ (j < migOp \/ (j = migOp /\ n \notin migLeft))

Creates(i, T) == \E j \in DOMAIN OpsOf(i) : OpsOf(i)[j].template = T /\ OpsOf(i)[j].does = "create"

(* T is in n as the migrations have left it, or as a user has versioned it. *)
(* A migration that was stopped may have updated it already.  Only the one  *)
(* that archives does so.                                                   *)
InStep(n, T) ==
    /\ \/ migTemplate[n][T].file = FileAfter(T, Reached) /\ ~Applied(n, T)
       \/ /\ Reached < migRelease /\ migTemplate[n][T].file = FileAfter(T, Reached + 1)
          /\ Applied(n, T) \/ ~Creates(Reached + 1, T)
       \/ migTemplate[n][T].file = UserFile /\ FileAfter(T, Reached) # <<0, 0>>
    /\ migTemplate[n][T].state = "Absent" <=> migTemplate[n][T].file = <<0, 0>>
    /\ migTemplate[n][T].state # "Broken"
    /\ migTemplate[n][T].state = "Archived" =>
         T = "Hyperparameter" /\ (Reached >= 52 \/ (Reached = 51 /\ Applied(n, T)))

MigFollows ==
    migAccidents = {} => /\ ~migFailed
                         /\ migPools /\ \A n \in MigSpaces : migSpace[n] # "Half"
                         /\ \A n \in EnabledNamespaces, T \in SystemTemplates : InStep(n, T)

(* What a template of n has in place of the variables of its file: the node *)
(* pools are left where it is as the namespace was created with it.         *)
Filled(T, t, kind, born) ==
    /\ ~NamesRepository(T, t.file) => t.repository = NoRepository
    /\ NamesRepository(T, t.file) => t.repository = kind \/ AskedOnce(T, t.file)
    /\ t.pools = IF ~NamesPools(T, t.file) THEN "none" ELSE IF t.file = born THEN "left" ELSE "replaced"

AsWritten ==
    \A n \in MigSpaces, T \in SystemTemplates :
        Filled(T, migTemplate[n][T], migRepository[n], FileAfter(T, migMade[n]))

MigInv == MigShape /\ MigFollows /\ AsWritten

LEMMA InBounds ==
    ASSUME MigShape
    PROVE  /\ migRelease \in 1..55 /\ migDone \in 0..55 /\ migOld \in 0..migRelease /\ migOld \in 0..55
           /\ Reached \in 0..55 /\ Reached <= migRelease
           /\ migDone < migRelease => migDone \in 0..54 /\ migDone + 1 \in 1..55
<1>1. migRelease \in 1..55 /\ migOld \in 0..migRelease
  BY MigrationAssumption, InTable DEF MigShape
<1>2. QED
  BY <1>1 DEF MigShape, Reached

(* What the old server ran it has recorded, and it is asked for that.       *)
LEMMA OldAsked ==
    ASSUME MigShape, migDone < migRelease
    PROVE  RanBefore(migDone + 1) <=> migDone + 1 <= migOld
<1>1. migDone + 1 \in 1..55 /\ migOld \in 0..55
  BY InBounds
<1>2. ASSUME migDone + 1 <= migOld
      PROVE  ChecksOldTable(migDone + 1)
  <2>1. migOld \in 1..55
    BY <1>1, <1>2
  <2>2. Earlier(VersionOf(migDone + 1), VersionOf(migOld))
    BY <1>1, <1>2, <2>1, VersionsGrow
  <2>3. ChecksOldTable(migOld)
    BY <2>1, MigrationAssumption DEF MigShape
  <2>4. VersionOf(migDone + 1) \in Nat \X Nat /\ VersionOf(migOld) \in Nat \X Nat
    BY <1>1, <2>1, Table
  <2>5. Earlier(VersionOf(migOld), <<20201001, 70806>>)
    BY SMT, <2>3 DEF ChecksOldTable, VersionOf
  <2>6. Earlier(VersionOf(migDone + 1), <<20201001, 70806>>)
    BY SMT, <2>2, <2>4, <2>5 DEF Earlier
  <2>7. QED
    BY SMT, <2>6 DEF ChecksOldTable, VersionOf
<1>3. QED
  BY <1>2 DEF RanBefore

(* The operation under way.                                                 *)
LEMMA UnderWay ==
    ASSUME MigShape, migOp > 0
    PROVE  /\ Reached = migDone /\ migDone \in 0..54 /\ migDone + 1 \in 1..55
           /\ CurrentOperation = OpsOf(migDone + 1)[migOp]
           /\ OperationFits(migDone + 1, CurrentOperation)
           /\ CurrentOperation.template \in SystemTemplates
<1>1. Reached = migDone /\ migDone \in 0..54 /\ migDone + 1 \in 1..55
  BY InBounds DEF MigShape, Reached
<1>2. CurrentOperation = OpsOf(migDone + 1)[migOp] /\ migOp \in DOMAIN OpsOf(migDone + 1)
  BY DEF CurrentOperation, NextMigration, OpsOf, MigShape
<1>3. \A j \in DOMAIN OpsOf(migDone + 1) : OperationFits(migDone + 1, OpsOf(migDone + 1)[j])
  BY <1>1, InRow
<1>4. OperationFits(migDone + 1, CurrentOperation)
  BY <1>2, <1>3
<1>5. QED
  BY <1>1, <1>2, <1>4 DEF OperationFits

(* No migration writes again what was there before it.                      *)
LEMMA NewFile ==
    ASSUME NEW T, NEW i \in 1..55, NEW k \in 0..55, k < i, NEW f, NamesPools(T, f), f = VersionOf(i)
    PROVE  FileAfter(T, k) # f
<1>1. SUFFICES ASSUME FileAfter(T, k) = f  PROVE FALSE
  OBVIOUS
<1>2. WritersOf(T, k) # {}
  BY <1>1 DEF FileAfter, NamesPools, Earlier
<1>3. PICK h \in 1..k : \E j : WritesTo(h, j, T) /\ \A x \in WritersOf(T, k) : x[1] <= h
  BY <1>2, SomeLast
<1>4. PICK j : WritesTo(h, j, T)
  BY <1>3
<1>5. f = OpsOf(h)[j].file /\ T = OpsOf(h)[j].template
  BY <1>1, <1>3, <1>4, LastWrites DEF WritesTo
<1>6. h \in 1..55 /\ h < i
  OBVIOUS
<1>7. OperationFits(h, OpsOf(h)[j])
  BY <1>4, <1>6, WriterFits
<1>8. VersionOf(h) = VersionOf(i)
  BY <1>5, <1>7 DEF OperationFits
<1>9. Before(VersionOf(h), VersionOf(i)) /\ VersionOf(i) \in Nat \X Nat
  BY <1>6, VersionsInOrder, Table
<1>10. QED
  BY <1>8, <1>9 DEF Before

(* The files an old server knew name no node pools.                         *)
LEMMA OldFiles ==
    ASSUME NEW T, NEW k \in 0..55, k = 0 \/ ChecksOldTable(k)
    PROVE  ~NamesPools(T, FileAfter(T, k))
<1>1. SUFFICES ASSUME NamesPools(T, FileAfter(T, k))  PROVE FALSE
  OBVIOUS
<1>2. WritersOf(T, k) # {}
  BY <1>1 DEF FileAfter, NamesPools, Earlier
<1>3. PICK h \in 1..k : \E j : WritesTo(h, j, T) /\ \A x \in WritersOf(T, k) : x[1] <= h
  BY <1>2, SomeLast
<1>4. PICK j : WritesTo(h, j, T)
  BY <1>3
<1>5. FileAfter(T, k) = OpsOf(h)[j].file /\ T = OpsOf(h)[j].template
  BY <1>3, <1>4, LastWrites DEF WritesTo
<1>6. h \in 1..55 /\ k \in 1..55 /\ h <= k
  OBVIOUS
<1>7. OperationFits(h, OpsOf(h)[j])
  BY <1>4, <1>6, WriterFits
<1>8. FileAfter(T, k) = VersionOf(h)
  BY <1>1, <1>5, <1>7 DEF OperationFits
<1>9. Earlier(VersionOf(h), VersionOf(k)) /\ VersionOf(h) \in Nat \X Nat /\ VersionOf(k) \in Nat \X Nat
  BY <1>6, VersionsGrow, Table
<1>10. Earlier(VersionOf(k), <<20201001, 70806>>)
  BY <1>6 DEF ChecksOldTable, VersionOf
<1>11. Earlier(<<20201221, 194344>>, VersionOf(h))
  BY <1>1, <1>8 DEF NamesPools
<1>12. QED
  BY SMT, <1>9, <1>10, <1>11 DEF Earlier

(* What users write, and what is not there, has no variables.               *)
LEMMA NoVariables ==
    ASSUME NEW T, NEW f \in {UserFile, <<0, 0>>}
    PROVE  ~NamesRepository(T, f) /\ ~NamesPools(T, f) /\ ~AskedOnce(T, f)
  BY DEF NamesRepository, NamesPools, AskedOnce, UserFile, Earlier

(* A template that changes its state is filled as before.                   *)
LEMMA StateOnly ==
    ASSUME NEW t \in TemplateRecords, NEW state \in {"Absent", "Live", "Archived", "Broken"}
    PROVE  /\ [t EXCEPT !.state = state] \in TemplateRecords
           /\ [t EXCEPT !.state = state].state = state
           /\ [t EXCEPT !.state = state].file = t.file
           /\ \A T, kind, born : Filled(T, t, kind, born) => Filled(T, [t EXCEPT !.state = state], kind, born)
<1> DEFINE u == [t EXCEPT !.state = state]
<1>1. /\ u \in TemplateRecords /\ u.state = state
      /\ u.file = t.file /\ u.repository = t.repository /\ u.pools = t.pools
  BY DEF TemplateRecords
<1> HIDE DEF u
<1>2. \A T, kind, born : Filled(T, t, kind, born) => Filled(T, u, kind, born)
  BY <1>1 DEF Filled
<1>3. QED
  BY <1>1, <1>2 DEF u

LEMMA UserTemplateIs ==
    /\ UserTemplate \in TemplateRecords /\ UserTemplate.state = "Live" /\ UserTemplate.file = UserFile
    /\ \A T, kind, born : Filled(T, UserTemplate, kind, born)
<1> DEFINE u == UserTemplate
<1>1. /\ u \in TemplateRecords /\ u.state = "Live"
      /\ u.file = UserFile /\ u.repository = NoRepository /\ u.pools = "none"
  BY DEF UserTemplate, TemplateRecords, UserFile
<1> HIDE DEF u
<1>2. \A T, kind, born : Filled(T, u, kind, born)
  BY <1>1, NoVariables DEF Filled
<1>3. QED
  BY <1>1, <1>2 DEF u

LEMMA AbsentTemplateIs ==
    /\ AbsentTemplate \in TemplateRecords /\ AbsentTemplate.state = "Absent" /\ AbsentTemplate.file = <<0, 0>>
    /\ \A T, kind, born : Filled(T, AbsentTemplate, kind, born)
<1> DEFINE u == AbsentTemplate
<1>1. /\ u \in TemplateRecords /\ u.state = "Absent"
      /\ u.file = <<0, 0>> /\ u.repository = NoRepository /\ u.pools = "none"
  BY DEF AbsentTemplate, TemplateRecords
<1> HIDE DEF u
<1>2. \A T, kind, born : Filled(T, u, kind, born)
  BY <1>1, NoVariables DEF Filled
<1>3. QED
  BY <1>1, <1>2 DEF u

(* A template made from a file.                                             *)
LEMMA MadeFromFile ==
    ASSUME NEW T, NEW f \in Nat \X Nat, NEW kind \in Repositories
    PROVE  /\ FromFile(T, f, kind) \in TemplateRecords
           /\ FromFile(T, f, kind).file = f
           /\ FromFile(T, f, kind).state = "Absent" <=> f = <<0, 0>>
           /\ FromFile(T, f, kind).state \in {"Absent", "Live"}
           /\ FromFile(T, f, kind).repository = IF NamesRepository(T, f) THEN kind ELSE NoRepository
           /\ FromFile(T, f, kind).pools = IF NamesPools(T, f) THEN "left" ELSE "none"
<1>1. CASE f = <<0, 0>>
  BY <1>1, NoVariables, AbsentTemplateIs DEF FromFile, AbsentTemplate
<1>2. CASE f # <<0, 0>>
  <2> DEFINE made == [state |-> "Live", file |-> f,
                      repository |-> IF NamesRepository(T, f) THEN kind ELSE NoRepository,
                      pools |-> IF NamesPools(T, f) THEN "left" ELSE "none"]
  <2>1. FromFile(T, f, kind) = made
    BY <1>2 DEF FromFile
  <2>2. made \in TemplateRecords
    BY DEF TemplateRecords
  <2>3. QED
    BY <1>2, <2>1, <2>2
<1>3. QED
  BY <1>1, <1>2

LEMMA KindIs ==
    ASSUME MigShape, NEW o, NEW n \in MigSpaces
    PROVE  KindFor(o, n) \in Repositories /\ (KindFor(o, n) = migRepository[n] \/ AskedOnce(o.template, o.file))
  BY DEF KindFor, MigShape

(* What an operation leaves is a template, filled by this one if it is new. *)
LEMMA EffectIs ==
    ASSUME MigShape, NEW i \in 1..55, migDone < i, NEW o, OperationFits(i, o), NEW n \in MigSpaces
    PROVE  /\ Effect(o, n) \in TemplateRecords
           /\ Filled(o.template, migTemplate[n][o.template], migRepository[n], FileAfter(o.template, migMade[n])) =>
                Filled(o.template, Effect(o, n), migRepository[n], FileAfter(o.template, migMade[n]))
<1> DEFINE T == o.template
           t == migTemplate[n][T]
           new == Written(o, n)
<1>1. t \in TemplateRecords /\ T \in SystemTemplates
  BY DEF MigShape, OperationFits
<1>2. KindFor(o, n) \in Repositories /\ (KindFor(o, n) = migRepository[n] \/ AskedOnce(T, o.file))
  BY KindIs
<1>3. /\ new.file = o.file
      /\ new.repository = IF NamesRepository(T, o.file) THEN KindFor(o, n) ELSE NoRepository
      /\ new.pools = IF NamesPools(T, o.file) THEN "replaced" ELSE "none"
  BY DEF Written
<1>4. new \in TemplateRecords
  BY <1>2 DEF Written, TemplateRecords, OperationFits
<1>5. NamesPools(T, o.file) => o.file # FileAfter(T, migMade[n])
  <2>1. migMade[n] \in 0..55 /\ migMade[n] < i
    <3>1. migMade[n] \in Nat /\ migMade[n] <= migDone
      BY DEF MigShape
    <3>2. migDone \in 0..55
      BY InBounds
    <3>3. QED
      BY <3>1, <3>2
  <2>2. NamesPools(T, o.file) => o.file = VersionOf(i)
    BY DEF OperationFits
  <2>3. QED
    BY <2>1, <2>2, NewFile
<1>6. Effect(o, n) \in {t, new, [t EXCEPT !.state = "Archived"]}
  BY DEF Effect
<1> HIDE DEF T, t, new
<1>7. Filled(T, new, migRepository[n], FileAfter(T, migMade[n]))
  BY <1>2, <1>3, <1>5 DEF Filled
<1>8. [t EXCEPT !.state = "Archived"] \in TemplateRecords
      /\ (Filled(T, t, migRepository[n], FileAfter(T, migMade[n])) =>
            Filled(T, [t EXCEPT !.state = "Archived"], migRepository[n], FileAfter(T, migMade[n])))
  BY <1>1, StateOnly
<1>9. Effect(o, n) \in TemplateRecords
      /\ (Filled(T, t, migRepository[n], FileAfter(T, migMade[n])) =>
            Filled(T, Effect(o, n), migRepository[n], FileAfter(T, migMade[n])))
  BY <1>1, <1>4, <1>6, <1>7, <1>8
<1>10. QED
  BY <1>9 DEF T, t

(* One template changes.                                                    *)
LEMMA OneChanges ==
    ASSUME MigShape, NEW n \in MigSpaces, NEW T \in SystemTemplates, NEW t \in TemplateRecords,
           migTemplate' = [migTemplate EXCEPT ![n][T] = t]
    PROVE  /\ migTemplate' \in [MigSpaces -> [SystemTemplates -> TemplateRecords]]
           /\ \A m \in MigSpaces, S \in SystemTemplates :
                migTemplate'[m][S] = IF m = n /\ S = T THEN t ELSE migTemplate[m][S]
<1>1. migTemplate \in [MigSpaces -> [SystemTemplates -> TemplateRecords]]
  BY DEF MigShape
<1>2. QED
  BY <1>1

LEMMA SameStep ==
    ASSUME NEW n, NEW T, InStep(n, T), migTemplate'[n][T] = migTemplate[n][T],
           Reached' = Reached, migRelease' = migRelease, Applied(n, T)' <=> Applied(n, T)
    PROVE  InStep(n, T)'
  BY DEF InStep

LEMMA MigStarts == MigInit => MigInv
<1> SUFFICES ASSUME MigInit  PROVE MigInv
  OBVIOUS
<1>1. migRelease \in 1..55 /\ migOld \in 0..migRelease /\ migOld \in 0..55
  <2>1. migRelease \in Releases /\ migOld \in OldReleases
    BY DEF MigInit
  <2>2. QED
    BY <2>1, MigrationAssumption, InTable
<1>2. migRepository \in [MigSpaces -> Repositories] /\ Reached = migOld /\ \A n, T : ~Applied(n, T)
  BY <1>1 DEF MigInit, Reached, Applied
<1>3. PICK first \in MigSpaces :
        migTemplate = [n \in MigSpaces |-> [T \in SystemTemplates |->
            IF migSpace[n] = "Made" THEN LeftByOldServer(T, migOld, n, first) ELSE AbsentTemplate]]
  BY DEF MigInit
<1>4. ASSUME NEW n \in MigSpaces, NEW T \in SystemTemplates
      PROVE  /\ migTemplate[n][T] \in TemplateRecords
             /\ migSpace[n] = "Made" => InStep(n, T)
             /\ Filled(T, migTemplate[n][T], migRepository[n], FileAfter(T, migMade[n]))
  <2> DEFINE f == FileAfter(T, migOld)
             kind == migRepository[IF AskedOnce(T, f) THEN first ELSE n]
  <2>1. f \in Nat \X Nat /\ kind \in Repositories
    BY <1>1, <1>2, FileBorn
  <2>2. ~NamesPools(T, f)
    <3>1. migOld = 0 \/ ChecksOldTable(migOld)
      BY MigrationAssumption DEF MigInit
    <3>2. QED
      BY <1>1, <3>1, OldFiles
  <2>3. CASE migSpace[n] # "Made"
    <3>1. migTemplate[n][T] = AbsentTemplate
      BY <1>3, <2>3
    <3>2. QED
      BY <2>3, <3>1, AbsentTemplateIs
  <2>4. CASE migSpace[n] = "Made"
    <3> DEFINE t == migTemplate[n][T]
    <3>1. t = FromFile(T, f, kind)
      BY <1>3, <2>4 DEF LeftByOldServer
    <3> HIDE DEF f, kind, t
    <3>2. /\ t \in TemplateRecords /\ t.file = f /\ (t.state = "Absent" <=> f = <<0, 0>>)
          /\ t.state \in {"Absent", "Live"} /\ t.pools = "none"
          /\ t.repository = IF NamesRepository(T, f) THEN kind ELSE NoRepository
      BY <2>1, <2>2, <3>1, MadeFromFile
    <3>3. kind = migRepository[n] \/ AskedOnce(T, f)
      BY DEF kind
    <3>4. Filled(T, t, migRepository[n], FileAfter(T, migMade[n]))
      BY <2>2, <3>2, <3>3 DEF Filled
    <3>5. InStep(n, T)
      BY <1>2, <3>2 DEF InStep, f, t
    <3>6. QED
      BY <3>2, <3>4, <3>5 DEF t
  <2>5. QED
    BY <2>3, <2>4
<1>5. migTemplate \in [MigSpaces -> [SystemTemplates -> TemplateRecords]]
  BY <1>3, <1>4
<1>6. MigShape
  BY <1>1, <1>2, <1>5 DEF MigInit, MigShape, EnabledNamespaces
<1>7. MigFollows
  BY <1>4 DEF MigInit, MigFollows, EnabledNamespaces
<1>8. AsWritten
  BY <1>4 DEF AsWritten
<1>9. QED
  BY <1>6, <1>7, <1>8 DEF MigInv

LEMMA ShapeStep == MigShape /\ [MigNext]_migVars => MigShape'
<1> SUFFICES ASSUME MigShape, [MigNext]_migVars  PROVE MigShape'
  OBVIOUS
<1> USE DEF MigShape, EnabledNamespaces, migServing, migProgress, migSpaces, migWorld, migHistory, migGiven
<1>0. /\ migRelease \in 1..55 /\ migDone \in 0..55 /\ migOld \in 0..migRelease
      /\ migDone < migRelease => migDone \in 0..54 /\ migDone + 1 \in 1..55
  BY InBounds
<1>1. ASSUME StartServer  PROVE MigShape'
  BY <1>1 DEF StartServer
<1>2. ASSUME BeginMigration  PROVE MigShape'
  <2>1. CASE RanBefore(migDone + 1) \/ NextMigration.ops = <<>>
    BY <1>0, <1>2, <2>1 DEF BeginMigration, RecordMigration
  <2>2. CASE ~(RanBefore(migDone + 1) \/ NextMigration.ops = <<>>)
    <3>1. migOld <= migDone
      BY <1>0, <1>2, <2>2, OldAsked DEF BeginMigration
    <3>2. 1 \in DOMAIN OpsOf(migDone + 1)
      <4>1. migDone + 1 \in 1..55 /\ OpsOf(migDone + 1) # <<>>
        BY <1>0, <1>2, <2>2 DEF BeginMigration, NextMigration, OpsOf
      <4>2. /\ Len(OpsOf(migDone + 1)) \in 0..5
            /\ DOMAIN OpsOf(migDone + 1) = 1..Len(OpsOf(migDone + 1))
            /\ Len(OpsOf(migDone + 1)) # 0
        BY <4>1, InRow
      <4>3. QED
        BY <4>2
    <3>3. QED
      BY <1>0, <1>2, <2>2, <3>1, <3>2 DEF BeginMigration
  <2>3. QED
    BY <2>1, <2>2
<1>3. ASSUME EndOperation  PROVE MigShape'
  <2>1. CASE migOp = Len(NextMigration.ops)
    BY <1>0, <1>3, <2>1 DEF EndOperation, RecordMigration
  <2>2. CASE migOp # Len(NextMigration.ops)
    <3>1. migDone + 1 \in 1..55 /\ migOp \in DOMAIN OpsOf(migDone + 1) /\ migOp # Len(OpsOf(migDone + 1))
      BY <1>0, <1>3, <2>2 DEF EndOperation, NextMigration, OpsOf
    <3>2. Len(OpsOf(migDone + 1)) \in 0..5 /\ DOMAIN OpsOf(migDone + 1) = 1..Len(OpsOf(migDone + 1))
      BY <3>1, InRow
    <3> DEFINE len == Len(OpsOf(migDone + 1))
    <3>5. len \in 0..5 /\ migOp \in 1..len /\ migOp # len
      BY <3>1, <3>2
    <3> HIDE DEF len
    <3>6. migOp + 1 \in 1..len /\ migOp + 1 \in 0..5
      BY <3>5
    <3>3. migOp + 1 \in DOMAIN OpsOf(migDone + 1) /\ migOp + 1 \in 0..5
      BY <3>2, <3>6 DEF len
    <3>4. QED
      BY <1>0, <1>3, <2>2, <3>3 DEF EndOperation
  <2>3. QED
    BY <2>1, <2>2
<1>4. ASSUME Serve  PROVE MigShape'
  BY <1>4 DEF Serve
<1>5. ASSUME StopServer  PROVE MigShape'
  BY <1>5 DEF StopServer, Accident, EndMigrating
<1>6. ASSUME NEW r \in Releases, Deploy(r)  PROVE MigShape'
  <2>1. r \in 1..55 /\ migDone = migRelease
    BY <1>6, MigrationAssumption, InTable DEF Deploy
  <2>2. QED
    BY <1>0, <1>6, <2>1 DEF Deploy
<1>7. ASSUME NEW n \in MigSpaces, ApplyTo(n)  PROVE MigShape'
  <2>1. /\ OperationFits(migDone + 1, CurrentOperation)
        /\ CurrentOperation.template \in SystemTemplates
    BY <1>7, UnderWay DEF ApplyTo
  <2>2. KindFor(CurrentOperation, n) \in Repositories /\ Effect(CurrentOperation, n) \in TemplateRecords
    <3>1. migDone < migDone + 1 /\ migDone + 1 \in 1..55
      BY <1>0, <1>7 DEF ApplyTo
    <3>2. QED
      BY <2>1, <3>1, EffectIs, KindIs
  <2>3. migTemplate' \in [MigSpaces -> [SystemTemplates -> TemplateRecords]]
    BY <1>7, <2>1, <2>2, OneChanges DEF ApplyTo
  <2>4. QED
    BY <1>0, <1>7, <2>2, <2>3 DEF ApplyTo
<1>8. ASSUME NEW n \in MigSpaces, MigrationFails(n)  PROVE MigShape'
  BY <1>8 DEF MigrationFails, EndMigrating
<1>9. ASSUME NEW n \in MigSpaces, CreateNamespace(n)  PROVE MigShape'
  <2>1. \A T \in SystemTemplates : NewTemplate(T, n) \in TemplateRecords
    <3>1. migRelease \in 0..55 /\ migRepository[n] \in Repositories
      BY <1>0
    <3>2. SUFFICES ASSUME NEW T \in SystemTemplates  PROVE NewTemplate(T, n) \in TemplateRecords
      OBVIOUS
    <3> DEFINE f == FileAfter(T, migRelease)
               kind == migRepository[n]
    <3>3. NewTemplate(T, n) = FromFile(T, f, kind) /\ f \in Nat \X Nat /\ kind \in Repositories
      BY <3>1, NewestIsLast, FileBorn DEF NewTemplate
    <3> HIDE DEF f, kind
    <3>4. FromFile(T, f, kind) \in TemplateRecords
      BY Zenon, <3>3, MadeFromFile
    <3>5. QED
      BY <3>3, <3>4
  <2>2. migTemplate' \in [MigSpaces -> [SystemTemplates -> TemplateRecords]]
    BY <1>9, <2>1 DEF CreateNamespace
  <2>3. /\ migSpace' \in [MigSpaces -> {"None", "Half", "Made"}]
        /\ \A m \in MigSpaces : migSpace[m] # "None" => migSpace'[m] # "None"
    BY <1>9 DEF CreateNamespace
  <2>4. migMade' \in [MigSpaces -> Nat] /\ \A m \in MigSpaces : migMade'[m] <= migDone
    BY <1>0, <1>9 DEF CreateNamespace
  <2>5. QED
    BY <1>9, <2>2, <2>3, <2>4 DEF CreateNamespace
<1>10. ASSUME NEW n \in MigSpaces, CreateNamespaceFails(n)  PROVE MigShape'
  <2>1. /\ migSpace' \in [MigSpaces -> {"None", "Half", "Made"}]
        /\ \A m \in MigSpaces : migSpace[m] # "None" => migSpace'[m] # "None"
    BY <1>10 DEF CreateNamespaceFails
  <2>2. QED
    BY <1>10, <2>1 DEF CreateNamespaceFails
<1>11. ASSUME NEW n \in MigSpaces, UserRuns(n)  PROVE MigShape'
  BY <1>11 DEF UserRuns
<1>12. ASSUME NEW n \in MigSpaces, NEW T \in SystemTemplates, NEW t \in TemplateRecords, UserLeaves(n, T, t)
       PROVE  MigShape'
  <2>1. migTemplate' \in [MigSpaces -> [SystemTemplates -> TemplateRecords]]
    BY <1>12, OneChanges DEF UserLeaves
  <2>2. QED
    BY <1>12, <2>1 DEF UserLeaves
<1>13. ASSUME NEW n \in MigSpaces, NEW T \in SystemTemplates, NEW state \in {"Absent", "Live", "Archived", "Broken"}
       PROVE  [migTemplate[n][T] EXCEPT !.state = state] \in TemplateRecords
  <2>1. migTemplate[n][T] \in TemplateRecords
    OBVIOUS
  <2>2. QED
    BY <2>1, StateOnly
<1>14. ASSUME NEW n \in MigSpaces, NEW T \in SystemTemplates,
              UserArchives(n, T) \/ UserCreates(n, T) \/ UserVersions(n, T) \/ UserBreaks(n, T)
       PROVE  MigShape'
  BY <1>12, <1>13, <1>14, UserTemplateIs DEF UserArchives, UserCreates, UserVersions, UserBreaks
<1>15. ASSUME NEW n \in MigSpaces, VersionBreaksOff(n)  PROVE MigShape'
  <2>1. CurrentOperation.template \in SystemTemplates
    BY <1>15, UnderWay DEF VersionBreaksOff
  <2>2. migTemplate' \in [MigSpaces -> [SystemTemplates -> TemplateRecords]]
    <3> DEFINE T == CurrentOperation.template
               t == [migTemplate[n][T] EXCEPT !.state = "Broken"]
    <3>1. migTemplate' = [migTemplate EXCEPT ![n][T] = t]
      BY <1>15 DEF VersionBreaksOff
    <3>2. t \in TemplateRecords
      BY <1>13, <2>1
    <3> HIDE DEF T, t
    <3>3. T \in SystemTemplates
      BY <2>1 DEF T
    <3>4. QED
      BY <3>1, <3>2, <3>3, OneChanges
  <2>3. QED
    BY <1>15, <2>2 DEF VersionBreaksOff, EndMigrating
<1>16. ASSUME ChangePools  PROVE MigShape'
  BY <1>16 DEF ChangePools
<1>17. ASSUME UNCHANGED migVars  PROVE MigShape'
  BY <1>17 DEF migVars
<1>18. QED
  BY <1>1, <1>2, <1>3, <1>4, <1>5, <1>6, <1>7, <1>8, <1>9, <1>10, <1>11, <1>14, <1>15, <1>16, <1>17 DEF MigNext

(* Nothing is applied between two migrations.                               *)
LEMMA Idle == migOp = 0 => \A n, T : ~Applied(n, T)
  BY DEF Applied

LEMMA BeginFollows ==
    ASSUME MigShape, MigShape', BeginMigration,
           NEW n \in EnabledNamespaces, NEW T \in SystemTemplates, InStep(n, T)
    PROVE  InStep(n, T)'
<1>1. migDone \in 0..54 /\ migDone + 1 \in 1..55 /\ migOld \in 0..55 /\ Reached \in 0..55
  BY InBounds DEF BeginMigration
<1>2. migTemplate' = migTemplate /\ migRelease' = migRelease /\ migOld' = migOld /\ migSpace' = migSpace
  BY DEF BeginMigration, migServing, migWorld, migSpaces, migGiven
<1>3. ~Applied(n, T)
  BY Idle DEF BeginMigration
<1>4. ASSUME ~RanBefore(migDone + 1)
      PROVE  Reached = migDone /\ migOld <= migDone
  <2>1. ~(migDone + 1 <= migOld)
    BY <1>4, OldAsked DEF BeginMigration
  <2>2. QED
    BY <1>1, <2>1 DEF Reached
<1>5. CASE RanBefore(migDone + 1)
  <2>1. migDone' = migDone + 1 /\ migOp' = 0
    BY <1>5 DEF BeginMigration, RecordMigration
  <2>2. Reached' = Reached
    BY <1>1, <1>2, <1>5, <2>1 DEF Reached, RanBefore
  <2>3. ~Applied(n, T)'
    BY <2>1 DEF Applied
  <2>4. QED
    BY <1>2, <1>3, <2>2, <2>3, SameStep
<1>6. CASE ~RanBefore(migDone + 1) /\ NextMigration.ops = <<>>
  <2>1. migDone' = migDone + 1 /\ migOp' = 0
    BY <1>6 DEF BeginMigration, RecordMigration
  <2>2. Reached = migDone /\ Reached' = migDone + 1
    <3>1. Reached = migDone /\ migOld <= migDone /\ migOld' = migOld /\ migDone \in 0..54 /\ migOld \in 0..55
      BY <1>1, <1>2, <1>6, <1>4
    <3>2. Reached' = IF migDone + 1 < migOld THEN migOld ELSE migDone + 1
      BY <2>1, <3>1 DEF Reached
    <3>3. QED
      BY <3>1, <3>2
  <2>3. ~Applied(n, T)'
    BY <2>1 DEF Applied
  <2>4. \A j : ~WritesTo(migDone + 1, j, T)
    BY <1>6 DEF WritesTo, NextMigration, OpsOf
  <2>5. FileAfter(T, migDone + 1) = FileAfter(T, migDone)
    BY <1>1, <2>4, FileStep
  <2>6. QED
    BY <1>1, <1>2, <1>3, <2>2, <2>3, <2>5 DEF InStep
<1>7. CASE ~RanBefore(migDone + 1) /\ NextMigration.ops # <<>>
  <2>1. migDone' = migDone /\ migOp' = 1 /\ migLeft' = EnabledNamespaces
    BY <1>7 DEF BeginMigration
  <2>2. Reached' = Reached /\ Reached = migDone
    BY <1>1, <1>2, <1>7, <1>4, <2>1 DEF Reached
  <2>3. ~Applied(n, T)'
    <3>1. SUFFICES ASSUME NEW j \in DOMAIN OpsOf(migDone + 1), j < 1  PROVE FALSE
      BY <2>1, <2>2 DEF Applied
    <3>2. DOMAIN OpsOf(migDone + 1) = 1..Len(OpsOf(migDone + 1)) /\ Len(OpsOf(migDone + 1)) \in 0..5
      BY <1>1, InRow
    <3>3. QED
      BY <3>1, <3>2
  <2>4. QED
    BY <1>2, <1>3, <2>2, <2>3, SameStep
<1>8. QED
  BY <1>5, <1>6, <1>7

(* At the end of the last operation all of them are applied.                *)
LEMMA EndFollows ==
    ASSUME MigShape, EndOperation, NEW n \in EnabledNamespaces, NEW T \in SystemTemplates, InStep(n, T)
    PROVE  InStep(n, T)'
<1>1. /\ Reached = migDone
      /\ migDone \in 0..54
      /\ migDone + 1 \in 1..55
      /\ migOld \in 0..55
      /\ migOld <= migDone
      /\ migOp \in DOMAIN OpsOf(migDone + 1)
  BY UnderWay, InBounds DEF EndOperation, MigShape
<1>2. migTemplate' = migTemplate /\ migRelease' = migRelease /\ migOld' = migOld /\ migSpace' = migSpace
  BY DEF EndOperation, migServing, migWorld, migSpaces, migGiven
<1>3. DOMAIN OpsOf(migDone + 1) = 1..Len(OpsOf(migDone + 1)) /\ Len(OpsOf(migDone + 1)) \in 0..5
  BY <1>1, InRow
<1>4. CASE migOp = Len(NextMigration.ops)
  <2>1. migDone' = migDone + 1 /\ migOp' = 0 /\ migOp = Len(OpsOf(migDone + 1))
    BY <1>4 DEF EndOperation, RecordMigration, NextMigration, OpsOf
  <2>2. Reached' = migDone + 1
    BY <1>1, <1>2, <2>1 DEF Reached
  <2>3. ~Applied(n, T)'
    BY <2>1 DEF Applied
  <2>4. \/ migTemplate[n][T].file = FileAfter(T, migDone + 1)
        \/ migTemplate[n][T].file = UserFile /\ FileAfter(T, migDone + 1) # <<0, 0>>
    <3>1. FileAfter(T, migDone) # <<0, 0>> => FileAfter(T, migDone + 1) # <<0, 0>>
      <4>1. Born(T) \in 1..55 /\ migDone \in 0..55 /\ migDone + 1 \in 0..55
        BY <1>1, Births DEF SystemTemplates
      <4>2. QED
        BY <4>1, FileBorn
    <3>2. CASE ~Applied(n, T)
      <4>1. \A j \in DOMAIN OpsOf(migDone + 1) : j <= migOp
        BY <1>3, <2>1
      <4>2. \A j : ~WritesTo(migDone + 1, j, T)
        <5>1. SUFFICES ASSUME NEW j, WritesTo(migDone + 1, j, T)  PROVE FALSE
          OBVIOUS
        <5>2. j \in 1..5 /\ j \in DOMAIN OpsOf(migDone + 1) /\ OpsOf(migDone + 1)[j].template = T
          BY <1>1, <5>1, WriterFits DEF WritesTo
        <5>3. j < migOp \/ j = migOp
          BY <4>1, <5>2, <1>3, <1>1
        <5>4. migLeft = {} /\ migOp > 0
          BY DEF EndOperation
        <5>5. QED
          BY <1>1, <3>2, <5>2, <5>3, <5>4 DEF Applied
      <4>3. FileAfter(T, migDone + 1) = FileAfter(T, migDone)
        BY <1>1, <4>2, FileStep
      <4>4. QED
        BY <1>1, <3>1, <4>3 DEF InStep
    <3>3. CASE Applied(n, T)
      BY <1>1, <3>1, <3>3 DEF InStep
    <3>4. QED
      BY <3>2, <3>3
  <2>5. migTemplate[n][T].state = "Archived" => T = "Hyperparameter" /\ migDone + 1 >= 52
    BY <1>1 DEF InStep
  <2>6. (migTemplate[n][T].state = "Absent" <=> migTemplate[n][T].file = <<0, 0>>)
        /\ migTemplate[n][T].state # "Broken"
    BY DEF InStep
  <2>7. QED
    BY <1>2, <2>2, <2>3, <2>4, <2>5, <2>6 DEF InStep
<1>5. CASE migOp # Len(NextMigration.ops)
  <2>1. migDone' = migDone /\ migOp' = migOp + 1 /\ migLeft' = EnabledNamespaces /\ migLeft = {}
    BY <1>5 DEF EndOperation
  <2>2. Reached' = Reached
    BY <1>2, <2>1 DEF Reached
  <2>3. Applied(n, T)' <=> Applied(n, T)
    <3>1. \A j \in DOMAIN OpsOf(Reached + 1) :
            (j < migOp + 1 \/ (j = migOp + 1 /\ n \notin EnabledNamespaces))
                <=> (j < migOp \/ (j = migOp /\ n \notin {}))
      BY <1>1, <1>3
    <3>2. migOp > 0 /\ migOp + 1 > 0
      BY <1>1, <1>3
    <3>3. QED
      BY <2>1, <2>2, <3>1, <3>2 DEF Applied
  <2>4. QED
    BY <1>2, <2>2, <2>3, SameStep
<1>6. QED
  BY <1>4, <1>5

LeftInStep(o, n, k) ==
    /\ Succeeds(o, n)
    /\ \/ Effect(o, n).file = FileAfter(o.template, k + 1)
       \/ Effect(o, n).file = UserFile /\ FileAfter(o.template, k) # <<0, 0>>
    /\ Effect(o, n).state = "Absent" <=> Effect(o, n).file = <<0, 0>>
    /\ Effect(o, n).state # "Broken"
    /\ Effect(o, n).state = "Archived" => o.template = "Hyperparameter" /\ k >= 51

(* An operation succeeds where the migrations are in step, and leaves there *)
(* what it has to.                                                          *)
LEMMA ApplyFollows ==
    ASSUME MigShape, NEW n \in MigSpaces, migOp > 0, n \in migLeft, InStep(n, CurrentOperation.template), migPools
    PROVE  LeftInStep(CurrentOperation, n, migDone)
<1> DEFINE o == CurrentOperation
           T == o.template
           t == migTemplate[n][T]
           k == migDone
<1>1. /\ Reached = k /\ k \in 0..54 /\ k + 1 \in 1..55 /\ T \in SystemTemplates
      /\ o = OpsOf(k + 1)[migOp] /\ migOp \in DOMAIN OpsOf(k + 1) /\ OperationFits(k + 1, o)
  BY UnderWay DEF MigShape
<1>2. t \in TemplateRecords
  BY <1>1 DEF MigShape
<1>3. ~Applied(n, T)
  <2>1. SUFFICES ASSUME NEW j \in DOMAIN OpsOf(k + 1), OpsOf(k + 1)[j].template = T, j < migOp  PROVE FALSE
    BY <1>1 DEF Applied
  <2>2. \A a, b \in DOMAIN OpsOf(k + 1) : OpsOf(k + 1)[a].template = OpsOf(k + 1)[b].template => a = b
    BY <1>1, InRow
  <2>3. j = migOp
    BY <1>1, <2>1, <2>2
  <2>4. QED
    BY <2>1, <2>3, <1>1 DEF MigShape
<1>4. o.does = "create" => Creates(k + 1, T)
  BY <1>1 DEF Creates
<1>5. /\ FileAfter(T, k) = <<0, 0>> <=> k < Born(T)
      /\ FileAfter(T, k + 1) = <<0, 0>> <=> k + 1 < Born(T)
  BY <1>1, FileBorn
<1>6. /\ \/ t.file = FileAfter(T, k) \/ (t.file = FileAfter(T, k + 1) /\ o.does # "create")
         \/ t.file = UserFile /\ FileAfter(T, k) # <<0, 0>>
      /\ t.state = "Absent" <=> t.file = <<0, 0>>
      /\ t.state # "Broken"
      /\ t.state = "Archived" => T = "Hyperparameter" /\ k >= 52
  BY <1>1, <1>3, <1>4 DEF InStep
<1>7. o.does \in Writing => o.file = FileAfter(T, k + 1) /\ o.file # <<0, 0>>
  <2>1. o.does \in Writing => WritesTo(k + 1, migOp, T)
    BY <1>1 DEF WritesTo
  <2>2. QED
    BY <1>1, <2>1, FileStep DEF OperationFits
<1>8. o.does \notin Writing => FileAfter(T, k + 1) = FileAfter(T, k)
  <2>1. SUFFICES ASSUME o.does \notin Writing, NEW j, WritesTo(k + 1, j, T)  PROVE FALSE
    BY <1>1, FileStep
  <2>2. \A a, b \in DOMAIN OpsOf(k + 1) : OpsOf(k + 1)[a].template = OpsOf(k + 1)[b].template => a = b
    BY <1>1, InRow
  <2>3. j = migOp
    BY <1>1, <2>1, <2>2 DEF WritesTo
  <2>4. QED
    BY <1>1, <2>1, <2>3 DEF WritesTo
<1>9. Born(T) \in 1..55 /\ Born("Hyperparameter") = 42
  BY <1>1, Births DEF SystemTemplates
<1> USE DEF Writing, Creating
<1>10. /\ o.does \in {"create", "createIfAbsent", "update", "describe", "describeIfThere", "archiveUnused"}
       /\ o.does \in Creating => k + 1 = Born(T)
       /\ o.does \in {"update", "describe"} => Born(T) < k + 1
       /\ T = "Hyperparameter" /\ k >= 51 => o.does = "archiveUnused"
       /\ o.does = "archiveUnused" => T = "Hyperparameter" /\ k = 51
  BY <1>1 DEF OperationFits
<1>13. Written(o, n).file = o.file /\ Written(o, n).state = "Live"
  BY DEF Written
<1>14. [t EXCEPT !.state = "Archived"].file = t.file /\ [t EXCEPT !.state = "Archived"].state = "Archived"
  BY <1>2 DEF TemplateRecords
<1>15. t.state \in {"Absent", "Live", "Archived"}
  BY <1>2, <1>6 DEF TemplateRecords
<1>11. T = o.template /\ t = migTemplate[n][o.template]
  OBVIOUS
<1> SUFFICES LeftInStep(o, n, k)
  OBVIOUS
<1> HIDE DEF o, T, t, k
<1>12. ASSUME o.does \notin Writing
       PROVE  t.file = FileAfter(T, k + 1) \/ (t.file = UserFile /\ FileAfter(T, k) # <<0, 0>>)
  BY <1>6, <1>8, <1>12
<1>16. CASE o.does = "create"
  <2>1. t.state \notin {"Live", "Broken"}
    BY <1>1, <1>5, <1>6, <1>9, <1>10, <1>16
  <2>2. Succeeds(o, n) /\ Effect(o, n) = Written(o, n)
    BY <1>11, <1>16, <2>1 DEF Succeeds, Effect, Archives
  <2>3. QED
    BY <1>1, <1>7, <1>11, <1>13, <1>16, <2>2 DEF LeftInStep
<1>17. CASE o.does = "createIfAbsent"
  <2>1. t.state = "Live" => t.file = FileAfter(T, k + 1)
    BY <1>1, <1>5, <1>6, <1>9, <1>10, <1>17
  <2>2. Succeeds(o, n) /\ Effect(o, n) = IF t.state = "Live" THEN t ELSE Written(o, n)
    BY <1>6, <1>11, <1>17 DEF Succeeds, Effect, Archives
  <2>3. QED
    BY <1>1, <1>6, <1>7, <1>11, <1>13, <1>17, <2>1, <2>2 DEF LeftInStep
<1>18. CASE o.does = "update"
  <2>1. t.state = "Live"
    BY <1>1, <1>5, <1>6, <1>9, <1>10, <1>15, <1>18 DEF UserFile
  <2>2. Succeeds(o, n) /\ Effect(o, n) = Written(o, n)
    BY <1>11, <1>18, <2>1 DEF Succeeds, Effect, Archives
  <2>3. QED
    BY <1>1, <1>7, <1>11, <1>13, <1>18, <2>2 DEF LeftInStep
<1>19. CASE o.does = "describe"
  <2>1. t.state = "Live"
    BY <1>1, <1>5, <1>6, <1>8, <1>9, <1>10, <1>15, <1>19 DEF UserFile
  <2>2. Succeeds(o, n) /\ Effect(o, n) = t
    BY <1>11, <1>19, <2>1 DEF Succeeds, Effect, Archives
  <2>3. QED
    BY <1>1, <1>6, <1>11, <1>12, <1>19, <2>1, <2>2 DEF LeftInStep
<1>20. CASE o.does = "describeIfThere"
  <2>2. Succeeds(o, n) /\ Effect(o, n) = t
    BY <1>6, <1>11, <1>20 DEF Succeeds, Effect, Archives
  <2>3. t.state = "Archived" => T = "Hyperparameter" /\ k >= 51
    BY <1>1, <1>6
  <2>4. (t.state = "Absent" <=> t.file = <<0, 0>>) /\ t.state # "Broken"
    BY <1>6
  <2>5. QED
    BY <1>11, <1>12, <1>20, <2>2, <2>3, <2>4 DEF LeftInStep
<1>21. CASE o.does = "archiveUnused"
  <2>1. T = "Hyperparameter" /\ k = 51 /\ FileAfter(T, k) # <<0, 0>> /\ FileAfter(T, k + 1) # <<0, 0>>
    BY <1>1, <1>5, <1>9, <1>10, <1>21
  <2>2. t.state = "Live"
    BY <1>1, <1>6, <1>15, <2>1, FileBorn DEF UserFile
  <2>3. Succeeds(o, n)
    BY <1>11, <1>21, <2>2 DEF Succeeds
  <2>4. Effect(o, n) = t \/ Effect(o, n) = [t EXCEPT !.state = "Archived"]
    BY <1>11, <1>21 DEF Effect
  <2>5. t.file # <<0, 0>> /\ Effect(o, n).file = t.file /\ Effect(o, n).state \in {"Live", "Archived"}
    BY <1>6, <1>14, <2>2, <2>4
  <2>6. Effect(o, n).file = FileAfter(T, k + 1) \/ (Effect(o, n).file = UserFile /\ FileAfter(T, k) # <<0, 0>>)
    BY <1>12, <1>21, <2>5
  <2>7. QED
    BY <1>1, <1>11, <2>1, <2>3, <2>5, <2>6 DEF LeftInStep
<1>22. QED
  BY <1>10, <1>16, <1>17, <1>18, <1>19, <1>20, <1>21

LEMMA ApplyKeeps ==
    ASSUME MigShape, NEW n \in MigSpaces, ApplyTo(n), InStep(n, CurrentOperation.template), migPools,
           NEW m \in EnabledNamespaces, NEW T \in SystemTemplates, InStep(m, T)
    PROVE  InStep(m, T)'
<1> DEFINE o == CurrentOperation
<1>1. /\ Reached = migDone /\ migDone \in 0..54 /\ migDone + 1 \in 1..55 /\ o.template \in SystemTemplates
      /\ o = OpsOf(migDone + 1)[migOp]
      /\ migOp \in DOMAIN OpsOf(migDone + 1)
      /\ migDone < migRelease
      /\ migOp > 0
  BY UnderWay DEF ApplyTo, MigShape
<1>2. /\ migDone' = migDone
      /\ migOld' = migOld
      /\ migOp' = migOp
      /\ migRelease' = migRelease
      /\ migLeft' = migLeft \ {n}
      /\ migTemplate' = [migTemplate EXCEPT ![n][o.template] = Effect(o, n)]
  BY DEF ApplyTo, migServing, migGiven
<1>3. Reached' = Reached
  BY <1>2 DEF Reached
<1>4. LeftInStep(o, n, migDone)
  BY ApplyFollows DEF ApplyTo
<1>5. \A j \in DOMAIN OpsOf(migDone + 1) : OpsOf(migDone + 1)[j].template = o.template => j = migOp
  BY <1>1, InRow
<1>6. migTemplate \in [MigSpaces -> [SystemTemplates -> TemplateRecords]] /\ m \in MigSpaces
  BY DEF MigShape, EnabledNamespaces
<1> HIDE DEF o
<1>7. CASE m = n /\ T = o.template
  <2>1. migTemplate'[m][T] = Effect(o, n)
    BY <1>1, <1>2, <1>6, <1>7
  <2>2. Applied(m, T)'
    <3>1. /\ migOp \in DOMAIN OpsOf(Reached' + 1)
          /\ OpsOf(Reached' + 1)[migOp'].template = T
          /\ m \notin migLeft'
      BY <1>1, <1>2, <1>3, <1>7
    <3>2. QED
      BY <1>1, <1>2, <3>1 DEF Applied
  <2>3. QED
    BY <1>1, <1>2, <1>3, <1>4, <1>7, <2>1, <2>2 DEF InStep, LeftInStep
<1>8. CASE ~(m = n /\ T = o.template)
  <2>1. migTemplate'[m][T] = migTemplate[m][T]
    BY <1>1, <1>2, <1>6, <1>8
  <2>2. \A j \in DOMAIN OpsOf(migDone + 1) :
          OpsOf(migDone + 1)[j].template = T =>
            ((j < migOp \/ (j = migOp /\ m \notin migLeft \ {n})) <=> (j < migOp \/ (j = migOp /\ m \notin migLeft)))
    BY <1>1, <1>8
  <2>3. Applied(m, T)' <=> Applied(m, T)
    BY <1>1, <1>2, <1>3, <2>2 DEF Applied
  <2>4. QED
    BY <1>2, <1>3, <2>1, <2>3, SameStep
<1>9. QED
  BY <1>7, <1>8

(* A migration that is stopped without harm has created nothing.            *)
LEMMA StopFollows ==
    ASSUME MigShape, StopServer, migAccidents' = {},
           NEW n \in EnabledNamespaces, NEW T \in SystemTemplates, InStep(n, T)
    PROVE  InStep(n, T)'
<1>1. /\ Reached = migDone
      /\ migDone \in 0..54
      /\ migDone + 1 \in 1..55
      /\ migOp \in DOMAIN OpsOf(migDone + 1)
  BY UnderWay DEF StopServer, MigShape
<1>2. /\ migDone' = migDone
      /\ migOld' = migOld
      /\ migOp' = 0
      /\ migRelease' = migRelease
      /\ migTemplate' = migTemplate
  BY DEF StopServer, EndMigrating, migGiven
<1>3. Reached' = Reached /\ ~Applied(n, T)'
  BY <1>2 DEF Reached, Applied
<1>4. \A j \in 1..migOp : OpsOf(migDone + 1)[j].does \in {"update", "describe", "describeIfThere"}
  BY DEF StopServer, Accident, NextMigration, OpsOf
<1>5. /\ DOMAIN OpsOf(migDone + 1) = 1..Len(OpsOf(migDone + 1)) /\ Len(OpsOf(migDone + 1)) \in 0..5
      /\ \A j, k \in DOMAIN OpsOf(migDone + 1) :
            OpsOf(migDone + 1)[j].template = OpsOf(migDone + 1)[k].template => j = k
      /\ \A j \in DOMAIN OpsOf(migDone + 1) : OperationFits(migDone + 1, OpsOf(migDone + 1)[j])
  BY <1>1, InRow
<1>6. CASE Applied(n, T)
  <2>1. PICK j \in DOMAIN OpsOf(migDone + 1) : OpsOf(migDone + 1)[j].template = T /\ (j < migOp \/ j = migOp)
    BY <1>1, <1>6 DEF Applied
  <2>2. OpsOf(migDone + 1)[j].does \in {"update", "describe", "describeIfThere"}
    <3>1. j \in 1..migOp
      BY <1>1, <1>5, <2>1
    <3>2. QED
      BY <1>4, <3>1
  <2>3. ~Creates(migDone + 1, T)
    BY <1>5, <2>1, <2>2 DEF Creates
  <2>4. ~(T = "Hyperparameter" /\ migDone = 51)
    <3>1. OperationFits(migDone + 1, OpsOf(migDone + 1)[j])
      BY <1>5
    <3>2. QED
      BY <2>1, <2>2, <3>1 DEF OperationFits
  <2>5. QED
    BY <1>1, <1>2, <1>3, <1>6, <2>3, <2>4 DEF InStep
<1>7. CASE ~Applied(n, T)
  BY <1>2, <1>3, <1>7, SameStep
<1>8. QED
  BY <1>6, <1>7

LEMMA CreateFollows ==
    ASSUME MigShape, NEW n \in MigSpaces, CreateNamespace(n),
           NEW m \in EnabledNamespaces', NEW T \in SystemTemplates,
           m # n => InStep(m, T)
    PROVE  InStep(m, T)'
<1>1. migDone = migRelease /\ migRelease \in 1..55 /\ Reached = migDone /\ migOp = 0
  BY InBounds DEF CreateNamespace, MigShape, Reached
<1>2. /\ migDone' = migDone /\ migOld' = migOld /\ migOp' = 0 /\ migRelease' = migRelease
      /\ migTemplate' = [migTemplate EXCEPT ![n] = [S \in SystemTemplates |-> NewTemplate(S, n)]]
  BY <1>1 DEF CreateNamespace, migServing, migProgress, migGiven
<1>3. Reached' = Reached /\ ~Applied(m, T)' /\ ~Applied(m, T)
  BY <1>1, <1>2 DEF Reached, Applied
<1>4. migTemplate \in [MigSpaces -> [SystemTemplates -> TemplateRecords]] /\ m \in MigSpaces
  BY DEF MigShape, EnabledNamespaces
<1>5. CASE m = n
  <2> DEFINE made == FromFile(T, FileAfter(T, migRelease), migRepository[n])
  <2>1. migTemplate'[m][T] = made
    BY <1>1, <1>2, <1>4, <1>5, NewestIsLast DEF NewTemplate
  <2>2. /\ made.file = FileAfter(T, migRelease) /\ made.state \in {"Absent", "Live"}
        /\ made.state = "Absent" <=> FileAfter(T, migRelease) = <<0, 0>>
    <3>1. FileAfter(T, migRelease) \in Nat \X Nat /\ migRepository[n] \in Repositories
      BY <1>1, FileBorn DEF MigShape
    <3>2. QED
      BY <3>1, MadeFromFile
  <2> HIDE DEF made
  <2>3. QED
    BY <1>1, <1>2, <1>3, <2>1, <2>2 DEF InStep
<1>6. CASE m # n
  <2>1. migTemplate'[m][T] = migTemplate[m][T]
    BY <1>2, <1>4, <1>6
  <2>2. QED
    BY <1>2, <1>3, <1>6, <2>1, SameStep
<1>7. QED
  BY <1>5, <1>6

(* A user's request on a system template: it is a version of the user's.    *)
LEMMA UserFollows ==
    ASSUME MigShape, NEW n \in MigSpaces, NEW S \in SystemTemplates, UserVersions(n, S),
           NEW m \in EnabledNamespaces, NEW T \in SystemTemplates, InStep(m, T), InStep(n, S)
    PROVE  InStep(m, T)'
<1>1. /\ migDone = migRelease /\ Reached = migRelease /\ migOp = 0 /\ m \in MigSpaces
      /\ migTemplate \in [MigSpaces -> [SystemTemplates -> TemplateRecords]]
      /\ migTemplate' = [migTemplate EXCEPT ![n][S] = UserTemplate]
  BY InBounds DEF UserVersions, UserLeaves, MigShape, Reached, EnabledNamespaces
<1>2. Reached' = Reached /\ migRelease' = migRelease /\ ~Applied(m, T)' /\ ~Applied(m, T)
  BY <1>1 DEF UserVersions, UserLeaves, migServing, migProgress, migGiven, Reached, Applied
<1>3. CASE m = n /\ T = S
  <2>1. FileAfter(S, Reached) # <<0, 0>>
    BY <1>1, InBounds DEF InStep, UserVersions
  <2>2. migTemplate'[m][T] = UserTemplate
    BY <1>1, <1>3
  <2>3. UserFile # <<0, 0>>
    BY DEF UserFile
  <2>4. QED
    BY <1>2, <1>3, <2>1, <2>2, <2>3, UserTemplateIs DEF InStep
<1>4. CASE ~(m = n /\ T = S)
  <2>1. migTemplate'[m][T] = migTemplate[m][T]
    BY <1>1, <1>4
  <2>2. QED
    BY <1>2, <2>1, SameStep
<1>5. QED
  BY <1>3, <1>4

LEMMA FollowsStep == MigShape /\ MigShape' /\ MigFollows /\ [MigNext]_migVars => MigFollows'
<1> DEFINE Goal == /\ ~migFailed' /\ migPools' /\ \A n \in MigSpaces : migSpace'[n] # "Half"
                   /\ \A n \in EnabledNamespaces', T \in SystemTemplates : InStep(n, T)'
<1> SUFFICES ASSUME MigShape, MigShape', MigFollows, [MigNext]_migVars, migAccidents' = {}
             PROVE  Goal
  BY DEF MigFollows
<1> USE DEF migServing, migProgress, migSpaces, migWorld, migHistory, migGiven
<1>0. ASSUME migAccidents = {}
      PROVE  /\ ~migFailed /\ migPools /\ \A n \in MigSpaces : migSpace[n] # "Half"
             /\ \A n \in EnabledNamespaces, T \in SystemTemplates : InStep(n, T)
  BY <1>0 DEF MigFollows
<1>1. ASSUME UNCHANGED <<migDone, migOp, migLeft, migOld, migSpace, migTemplate, migRelease>>,
             UNCHANGED <<migAccidents, migFailed, migPools>>
      PROVE  Goal
  <2>1. /\ EnabledNamespaces' = EnabledNamespaces
        /\ Reached' = Reached
        /\ \A n, T : Applied(n, T)' <=> Applied(n, T)
    BY <1>1 DEF EnabledNamespaces, Reached, Applied
  <2>2. QED
    BY <1>0, <1>1, <2>1, SameStep
<1>2. CASE StartServer
  BY <1>1, <1>2 DEF StartServer
<1>3. CASE BeginMigration
  <2>1. /\ EnabledNamespaces' = EnabledNamespaces /\ migSpace' = migSpace
        /\ migAccidents = {} /\ migFailed' = migFailed /\ migPools' = migPools
    BY <1>3 DEF BeginMigration, EnabledNamespaces
  <2>2. QED
    BY <1>0, <1>3, <2>1, BeginFollows
<1>4. CASE EndOperation
  <2>1. /\ EnabledNamespaces' = EnabledNamespaces /\ migSpace' = migSpace
        /\ migAccidents = {} /\ migFailed' = migFailed /\ migPools' = migPools
    BY <1>4 DEF EndOperation, EnabledNamespaces
  <2>2. QED
    BY <1>0, <1>4, <2>1, EndFollows
<1>5. CASE Serve
  BY <1>1, <1>5 DEF Serve
<1>6. CASE StopServer
  <2>1. /\ EnabledNamespaces' = EnabledNamespaces /\ migSpace' = migSpace
        /\ migAccidents = {} /\ migFailed' = migFailed /\ migPools' = migPools
    BY <1>6 DEF StopServer, EndMigrating, Accident, EnabledNamespaces
  <2>2. QED
    BY <1>0, <1>6, <2>1, StopFollows
<1>7. ASSUME NEW r \in Releases, Deploy(r)
      PROVE  Goal
  <2>1. /\ EnabledNamespaces' = EnabledNamespaces /\ migSpace' = migSpace
        /\ migAccidents = {} /\ migFailed' = migFailed /\ migPools' = migPools
    BY <1>7 DEF Deploy, EnabledNamespaces
  <2>2. ASSUME NEW n \in EnabledNamespaces, NEW T \in SystemTemplates
        PROVE  InStep(n, T)'
    <3>1. Reached = migRelease /\ migOp = 0 /\ migRelease \in 1..55
      BY <1>7, InBounds DEF Deploy, MigShape, Reached
    <3>2. Reached' = Reached /\ ~Applied(n, T)' /\ ~Applied(n, T) /\ migTemplate' = migTemplate
      BY <1>7, <3>1 DEF Deploy, Reached, Applied
    <3>3. InStep(n, T)
      BY <1>0, <2>1
    <3>4. QED
      BY <3>1, <3>2, <3>3 DEF InStep
  <2>3. QED
    BY <1>0, <2>1, <2>2
<1>8. ASSUME NEW n \in MigSpaces, ApplyTo(n)
      PROVE  Goal
  <2>1. /\ EnabledNamespaces' = EnabledNamespaces /\ migSpace' = migSpace
        /\ migAccidents = {} /\ migFailed' = migFailed /\ migPools' = migPools
        /\ n \in EnabledNamespaces
    BY <1>8 DEF ApplyTo, EnabledNamespaces, MigShape
  <2>2. InStep(n, CurrentOperation.template)
    BY <1>0, <1>8, <2>1, UnderWay DEF ApplyTo
  <2>3. QED
    BY <1>0, <1>8, <2>1, <2>2, ApplyKeeps
<1>9. ASSUME NEW n \in MigSpaces, MigrationFails(n)
      PROVE  FALSE
  <2>1. migAccidents = {} /\ n \in EnabledNamespaces
    BY <1>9 DEF MigrationFails, MigShape
  <2>2. InStep(n, CurrentOperation.template) /\ migPools
    BY <1>0, <1>9, <2>1, UnderWay DEF MigrationFails
  <2>3. LeftInStep(CurrentOperation, n, migDone)
    BY <1>9, <2>2, ApplyFollows DEF MigrationFails
  <2>4. QED
    BY <1>9, <2>1, <2>3 DEF MigrationFails, LeftInStep, MigFollows
<1>10. ASSUME NEW n \in MigSpaces, CreateNamespace(n)
       PROVE  Goal
  <2>1. /\ migAccidents = {} /\ migFailed' = migFailed /\ migPools' = migPools
        /\ EnabledNamespaces' \subseteq EnabledNamespaces \cup {n}
        /\ \A m \in MigSpaces : migSpace'[m] \in {migSpace[m], "Made"}
    BY <1>10 DEF CreateNamespace, EnabledNamespaces, MigShape
  <2>2. QED
    BY <1>0, <1>10, <2>1, CreateFollows
<1>11. ASSUME NEW n \in MigSpaces, NEW T \in SystemTemplates,
              UserArchives(n, T) \/ UserCreates(n, T) \/ UserBreaks(n, T)
       PROVE  FALSE
  BY <1>11 DEF UserArchives, UserCreates, UserBreaks, Accident
<1>12. CASE \E n \in MigSpaces : UserRuns(n)
  BY <1>1, <1>12 DEF UserRuns
<1>13. ASSUME NEW n \in MigSpaces, NEW T \in SystemTemplates, UserVersions(n, T)
       PROVE  Goal
  <2>1. /\ EnabledNamespaces' = EnabledNamespaces /\ n \in EnabledNamespaces /\ migSpace' = migSpace
        /\ migAccidents = {} /\ migFailed' = migFailed /\ migPools' = migPools
    BY <1>13 DEF UserVersions, UserLeaves, Accident, EnabledNamespaces
  <2>2. QED
    BY <1>0, <1>13, <2>1, UserFollows
<1>14. CASE ChangePools
  <2>1. migAccidents = {}
    BY <1>14 DEF ChangePools, Accident
  <2>2. migPools
    BY <1>0, <2>1
  <2>3. QED
    BY <1>14, <2>2 DEF ChangePools, Accident
<1>15. CASE UNCHANGED migVars
  BY <1>1, <1>15 DEF migVars
<1>16. ASSUME NEW n \in MigSpaces, CreateNamespaceFails(n) \/ VersionBreaksOff(n)
       PROVE  FALSE
  BY <1>16 DEF CreateNamespaceFails, VersionBreaksOff, Accident
<1> HIDE DEF Goal
<1>17. QED
  BY <1>2, <1>3, <1>4, <1>5, <1>6, <1>7, <1>8, <1>9, <1>10, <1>11, <1>12, <1>13, <1>14, <1>15, <1>16 DEF MigNext

(* A template that changes is filled again, or keeps what it was filled     *)
(* with.                                                                    *)
LEMMA FilledStep == MigShape /\ AsWritten /\ [MigNext]_migVars => AsWritten'
<1> SUFFICES ASSUME MigShape, AsWritten, [MigNext]_migVars  PROVE AsWritten'
  OBVIOUS
<1> USE DEF migServing, migProgress, migSpaces, migWorld, migHistory, migGiven
<1>1. ASSUME UNCHANGED <<migTemplate, migRepository, migMade>>  PROVE AsWritten'
  BY <1>1 DEF AsWritten
<1>2. ASSUME NEW n \in MigSpaces, NEW T \in SystemTemplates, NEW t \in TemplateRecords,
             Filled(T, t, migRepository[n], FileAfter(T, migMade[n])),
             UNCHANGED <<migRepository, migMade>>, migTemplate' = [migTemplate EXCEPT ![n][T] = t]
      PROVE  AsWritten'
  <2>1. \A m \in MigSpaces, S \in SystemTemplates :
          migTemplate'[m][S] = IF m = n /\ S = T THEN t ELSE migTemplate[m][S]
    BY <1>2, OneChanges
  <2>2. QED
    BY <1>2, <2>1 DEF AsWritten
<1>3. ASSUME NEW n \in MigSpaces, NEW T \in SystemTemplates
      PROVE  /\ Filled(T, migTemplate[n][T], migRepository[n], FileAfter(T, migMade[n]))
             /\ \A state \in {"Absent", "Live", "Archived", "Broken"} :
                  LET t == [migTemplate[n][T] EXCEPT !.state = state] IN
                  t \in TemplateRecords /\ Filled(T, t, migRepository[n], FileAfter(T, migMade[n]))
  <2>1. Filled(T, migTemplate[n][T], migRepository[n], FileAfter(T, migMade[n]))
    BY DEF AsWritten
  <2>2. migTemplate[n][T] \in TemplateRecords
    BY DEF MigShape
  <2>3. QED
    BY <2>1, <2>2, StateOnly
<1>4. ASSUME NEW n \in MigSpaces, ApplyTo(n)  PROVE AsWritten'
  <2> DEFINE o == CurrentOperation
  <2>1. /\ OperationFits(migDone + 1, o) /\ o.template \in SystemTemplates
        /\ migDone + 1 \in 1..55 /\ migDone < migDone + 1
    BY <1>4, UnderWay DEF ApplyTo
  <2>2. /\ Effect(o, n) \in TemplateRecords
        /\ Filled(o.template, Effect(o, n), migRepository[n], FileAfter(o.template, migMade[n]))
    BY <1>3, <2>1, EffectIs
  <2>3. /\ migTemplate' = [migTemplate EXCEPT ![n][o.template] = Effect(o, n)]
        /\ UNCHANGED <<migRepository, migMade>>
    BY <1>4 DEF ApplyTo
  <2> HIDE DEF o
  <2>4. QED
    BY <1>2, <2>1, <2>2, <2>3
<1>5. ASSUME NEW n \in MigSpaces, VersionBreaksOff(n)  PROVE AsWritten'
  <2> DEFINE T == CurrentOperation.template
             t == [migTemplate[n][T] EXCEPT !.state = "Broken"]
  <2>1. migTemplate' = [migTemplate EXCEPT ![n][T] = t] /\ UNCHANGED <<migRepository, migMade>>
    BY <1>5 DEF VersionBreaksOff, EndMigrating
  <2>2. T \in SystemTemplates
    BY <1>5, UnderWay DEF VersionBreaksOff
  <2>3. t \in TemplateRecords /\ Filled(T, t, migRepository[n], FileAfter(T, migMade[n]))
    BY <1>3, <2>2
  <2> HIDE DEF T, t
  <2>4. QED
    BY <1>2, <2>1, <2>2, <2>3
<1>6. ASSUME NEW n \in MigSpaces, CreateNamespace(n)  PROVE AsWritten'
  <2>1. /\ migRelease \in 0..55 /\ migRepository[n] \in Repositories /\ migRepository' = migRepository
        /\ migMade' = [migMade EXCEPT ![n] = migRelease] /\ migMade \in [MigSpaces -> Nat]
        /\ migTemplate' = [migTemplate EXCEPT ![n] = [T \in SystemTemplates |-> NewTemplate(T, n)]]
        /\ migTemplate \in [MigSpaces -> [SystemTemplates -> TemplateRecords]]
    BY <1>6, InBounds DEF CreateNamespace, MigShape
  <2>2. ASSUME NEW T \in SystemTemplates
        PROVE  Filled(T, NewTemplate(T, n), migRepository[n], FileAfter(T, migRelease))
    <3> DEFINE f == FileAfter(T, migRelease)
               kind == migRepository[n]
               new == NewTemplate(T, n)
    <3>1. new = FromFile(T, f, kind) /\ f \in Nat \X Nat /\ kind \in Repositories
      BY <2>1, NewestIsLast, FileBorn DEF NewTemplate
    <3> HIDE DEF f, kind, new
    <3>2. /\ new.file = f
          /\ new.repository = IF NamesRepository(T, f) THEN kind ELSE NoRepository
          /\ new.pools = IF NamesPools(T, f) THEN "left" ELSE "none"
      BY <3>1, MadeFromFile
    <3>3. Filled(T, new, kind, f)
      BY <3>2 DEF Filled
    <3>4. QED
      BY <3>3 DEF f, kind, new
  <2>3. ASSUME NEW m \in MigSpaces, NEW T \in SystemTemplates
        PROVE  Filled(T, migTemplate'[m][T], migRepository'[m], FileAfter(T, migMade'[m]))
    <3>1. CASE m = n
      BY <2>1, <2>2, <3>1
    <3>2. CASE m # n
      BY <1>3, <2>1, <3>2
    <3>3. QED
      BY <3>1, <3>2
  <2>4. QED
    BY <2>3 DEF AsWritten
<1>7. ASSUME NEW n \in MigSpaces, NEW T \in SystemTemplates, NEW t \in TemplateRecords, UserLeaves(n, T, t),
             Filled(T, t, migRepository[n], FileAfter(T, migMade[n]))
      PROVE  AsWritten'
  BY <1>2, <1>7 DEF UserLeaves
<1>8. ASSUME NEW n \in MigSpaces, NEW T \in SystemTemplates,
             UserArchives(n, T) \/ UserCreates(n, T) \/ UserVersions(n, T) \/ UserBreaks(n, T)
      PROVE  AsWritten'
  BY <1>3, <1>7, <1>8, UserTemplateIs DEF UserArchives, UserCreates, UserVersions, UserBreaks
<1>9. QED
  BY <1>1, <1>4, <1>5, <1>6, <1>8
  DEF MigNext, migVars, StartServer, BeginMigration, EndOperation, Serve, StopServer, Deploy, MigrationFails,
      EndMigrating, CreateNamespaceFails, UserRuns, ChangePools, Accident

(* What one pass over the migrations promises, over any releases and for    *)
(* any number of namespaces: the invariant, and what it gives.              *)
THEOREM MigrationInvariant == MigSpec => []MigInv
<1>1. MigInv /\ [MigNext]_migVars => MigInv'
  BY ShapeStep, FollowsStep, FilledStep DEF MigInv
<1>2. QED
  BY MigStarts, <1>1, PTL DEF MigSpec

(* The upgrades end, over any releases: what users do to the system         *)
(* templates but archive them, create their namesakes or leave a version    *)
(* broken off, and a stop inside a migration that only adds versions, make  *)
(* no migration fail (db/go/util.go, the returns of its loops).             *)
THEOREM UpgradesEnd == MigSpec => []NeverStuck
<1>1. MigInv => NeverStuck
  BY DEF MigInv, MigFollows, NeverStuck
<1>2. QED
  BY MigrationInvariant, <1>1, PTL

(* An upgraded namespace has the templates a new one would get, over every  *)
(* choice of releases and of what an old server ran: the same files, and    *)
(* the repository and the node pools as the two paths fill them in          *)
(* (db/go/db.go:184-211 and pkg/data.go:88-91).                             *)
THEOREM UpgradedIsLikeNew == MigSpec => []LikeNew
<1>1. MigInv => LikeNew
  <2> SUFFICES ASSUME MigInv, migServer = "Up", migAccidents = {},
                      NEW n \in EnabledNamespaces, NEW T \in SystemTemplates
               PROVE  LET old == migTemplate[n][T]
                          new == NewTemplate(T, n) IN
                      /\ old.state = "Absent" <=> new.state = "Absent"
                      /\ old.state = "Archived" => T = "Hyperparameter"
                      /\ old.file \in {UserFile, new.file}
                      /\ old.file = new.file =>
                          /\ old.repository = new.repository \/ AskedOnce(T, old.file)
                          /\ old.pools = IF new.pools = "none" \/ old.file = NewestFile(T, migMade[n])
                                         THEN new.pools ELSE "replaced"
    BY DEF LikeNew
  <2> DEFINE old == migTemplate[n][T]
             new == NewTemplate(T, n)
             f == FileAfter(T, migRelease)
             kind == migRepository[n]
             born == FileAfter(T, migMade[n])
  <2>1. MigShape /\ InStep(n, T) /\ n \in MigSpaces
    BY DEF MigInv, MigFollows, EnabledNamespaces
  <2>2. Reached = migRelease /\ migRelease \in 0..55 /\ migMade[n] \in 0..55 /\ kind \in Repositories
    <3>1. migDone = migRelease /\ migRelease \in 0..55 /\ migOld \in 0..migRelease
      BY <2>1, InBounds DEF MigShape
    <3>2. migMade[n] \in Nat /\ migMade[n] <= migDone /\ kind \in Repositories
      BY <2>1 DEF MigShape
    <3>3. QED
      BY <3>1, <3>2 DEF Reached
  <2>3. /\ new = FromFile(T, f, kind) /\ f \in Nat \X Nat /\ f # UserFile
        /\ NewestFile(T, migMade[n]) = born
    BY <2>2, NewestIsLast, FileBorn DEF NewTemplate
  <2>4. Filled(T, old, kind, born)
    BY <2>1 DEF MigInv, AsWritten
  <2>5. /\ old.file = f \/ (old.file = UserFile /\ f # <<0, 0>>)
        /\ old.state = "Absent" <=> old.file = <<0, 0>>
        /\ old.state = "Archived" => T = "Hyperparameter"
    BY <2>1, <2>2 DEF InStep
  <2> HIDE DEF old, new, f, kind, born
  <2>6. /\ new.file = f
        /\ new.state = "Absent" <=> f = <<0, 0>>
        /\ new.repository = IF NamesRepository(T, f) THEN kind ELSE NoRepository
        /\ new.pools = IF NamesPools(T, f) THEN "left" ELSE "none"
    BY <2>2, <2>3, MadeFromFile
  <2>7. UserFile # <<0, 0>>
    BY DEF UserFile
  <2>8. old.state = "Absent" <=> new.state = "Absent"
    BY <2>5, <2>6, <2>7
  <2>9. ASSUME old.file = new.file
        PROVE  /\ old.repository = new.repository \/ AskedOnce(T, old.file)
               /\ old.pools = IF new.pools = "none" \/ old.file = born THEN new.pools ELSE "replaced"
    BY <2>4, <2>6, <2>9 DEF Filled
  <2>10. QED
    BY <2>3, <2>5, <2>6, <2>8, <2>9 DEF old, new, born
<1>2. QED
  BY MigrationInvariant, <1>1, PTL

----------------------------------------------------------------------------
(* The reload of the configuration.                                         *)

LEMMA ReloadStep ==
    ReloadTypeOK /\ NoChangeForgotten /\ [ReloadNext]_cfgVars => ReloadTypeOK' /\ NoChangeForgotten'
<1> SUFFICES ASSUME ReloadTypeOK, NoChangeForgotten, [ReloadNext]_cfgVars
             PROVE  ReloadTypeOK' /\ NoChangeForgotten'
  OBVIOUS
<1> USE ReloadAssumption DEF ReloadTypeOK, NoChangeForgotten
<1>1. CASE EditConfig
  BY <1>1 DEF EditConfig, cfgProcess
<1>2. CASE CrashProcess \/ FatalServe
  <2>1. /\ cfgLoaded' = 0 /\ cfgListed' = 0 /\ cfgSeen' = 0 /\ cfgLoop' = "boot" /\ cfgServe' = "none"
        /\ cfgVersion' = cfgVersion
    BY <1>2 DEF CrashProcess, FatalServe, NewProcess
  <2>2. cfgSending' = FALSE
    BY <1>2 DEF CrashProcess, FatalServe, NewProcess
  <2>3. cfgSending' \in BOOLEAN
    BY <2>2
  <2>4. QED
    BY <2>1, <2>3
<1>3. CASE FinishBoot \/ LoadConfig \/ StartRPCServer \/ BeginServing
  BY <1>3 DEF FinishBoot, LoadConfig, StartRPCServer, BeginServing
<1>4. CASE PassToken \/ StopRPCServer
  BY <1>4 DEF PassToken, StopRPCServer
<1>5. CASE ListConfig
  BY <1>5 DEF ListConfig
<1>6. CASE NoticeChange
  BY <1>6 DEF NoticeChange
<1>7. CASE UNCHANGED cfgVars
  BY <1>7 DEF cfgVars, cfgProcess
<1>8. QED
  BY <1>1, <1>2, <1>3, <1>4, <1>5, <1>6, <1>7 DEF ReloadNext, ReloadLoop, ReloadInformer

LEMMA ReloadStarts == ReloadInit => ReloadTypeOK /\ NoChangeForgotten
<1> SUFFICES ASSUME ReloadInit  PROVE ReloadTypeOK /\ NoChangeForgotten
  OBVIOUS
<1>1. cfgSending \in BOOLEAN
  BY DEF ReloadInit
<1>2. QED
  BY <1>1, ReloadAssumption DEF ReloadInit, ReloadTypeOK, NoChangeForgotten

(* No change the informer has been told of is lost between its callback and *)
(* the loop, in any number of edits, restarts and refused servers.          *)
THEOREM ChangesReachTheLoop == ReloadSpec => []NoChangeForgotten
  BY ReloadStarts, ReloadStep, PTL DEF ReloadSpec

(* A loop that waits while nobody sends, before an informer that knows the  *)
(* last version, serves that version or listed it: what ReloadSpec's        *)
(* fairness brings about, Converges, is a state of this kind.               *)
THEOREM QuietServesLast ==
    ReloadSpec => [](cfgLoop = "wait" /\ ~cfgSending /\ cfgSeen = cfgVersion =>
                         cfgLoaded = cfgVersion \/ cfgListed = cfgVersion)
<1> DEFINE Quiet == cfgLoop = "wait" /\ ~cfgSending /\ cfgSeen = cfgVersion =>
                        cfgLoaded = cfgVersion \/ cfgListed = cfgVersion
<1>1. ReloadTypeOK /\ NoChangeForgotten => Quiet
  BY ReloadAssumption DEF ReloadTypeOK, NoChangeForgotten
<1> HIDE DEF Quiet
<1>2. ReloadSpec => []Quiet
  BY <1>1, ReloadStarts, ReloadStep, PTL DEF ReloadSpec
<1>3. QED
  BY <1>2 DEF Quiet

----------------------------------------------------------------------------
(* The five components in one run.                                          *)

RequestsInv == FlowInv /\ MigInv /\ ReloadTypeOK /\ NoChangeForgotten /\ WatchInv /\ InjInv

(* A behaviour of the run is one of each component.                         *)
LEMMA RequestsMoveOne ==
    ASSUME [RequestsNext]_requestsVars
    PROVE  [FlowNext]_flowVars /\ [MigNext]_migVars /\ [ReloadNext]_cfgVars /\ [WatchNext]_wchVars
             /\ [InjectionNext]_injVars
<1>1. CASE UNCHANGED requestsVars
  <2>1. UNCHANGED <<flowVars, migVars, cfgVars, wchVars, injVars>>
    BY <1>1 DEF requestsVars
  <2>2. QED
    BY <2>1
<1>2. CASE RequestsNext
  BY <1>2 DEF RequestsNext
<1>3. QED
  BY <1>1, <1>2

LEMMA MigrationsCounted == Len(Migrations) = 55
  BY DEF Migrations

(* Every variable of the five components keeps its type, whatever the       *)
(* releases, the rows, the requests and the templates.                      *)
THEOREM RequestsTypes == RequestsSpec => []RequestsTypeOK
<1>1. RequestsInit => RequestsInv
  BY FlowInitInv, MigStarts, ReloadStarts, WatchInitInv, InjectionInitInv DEF RequestsInit, RequestsInv
<1>2. RequestsInv /\ [RequestsNext]_requestsVars => RequestsInv'
  <2> SUFFICES ASSUME RequestsInv, [RequestsNext]_requestsVars  PROVE RequestsInv'
    OBVIOUS
  <2>1. FlowInv'
    BY RequestsMoveOne, FlowInvKept DEF RequestsInv
  <2>2. MigInv'
    BY RequestsMoveOne, ShapeStep, FollowsStep, FilledStep DEF RequestsInv, MigInv
  <2>3. ReloadTypeOK' /\ NoChangeForgotten'
    BY RequestsMoveOne, ReloadStep DEF RequestsInv
  <2>4. WatchInv'
    BY RequestsMoveOne, WatchStep DEF RequestsInv
  <2>5. InjInv'
    BY RequestsMoveOne, InjectionNextKeeps DEF RequestsInv
  <2>6. QED
    BY <2>1, <2>2, <2>3, <2>4, <2>5 DEF RequestsInv
<1>3. RequestsInv => RequestsTypeOK
  <2> SUFFICES ASSUME RequestsInv  PROVE RequestsTypeOK
    OBVIOUS
  <2>1. FlowTypeOK /\ ReloadTypeOK /\ WatchTypeOK
    BY DEF RequestsInv, FlowInv, WatchInv
  <2>2. MigTypeOK
    <3>1. MigShape
      BY DEF RequestsInv, MigInv
    <3>2. migDone \in 0..Len(Migrations)
      BY <3>1, InBounds, MigrationsCounted
    <3>3. QED
      BY <3>1, <3>2 DEF MigShape, MigTypeOK, TemplateRecords
  <2>3. InjectionTypeOK
    BY DEF RequestsInv, InjInv, Steps, RunInv, InjectionTypeOK
  <2>4. QED
    BY <2>1, <2>2, <2>3 DEF RequestsTypeOK
<1>4. QED
  BY <1>1, <1>2, <1>3, PTL DEF RequestsSpec
=============================================================================
