------------------------ MODULE WorkspaceTemplateProofs ------------------------
(***************************************************************************)
(* For every set of uids, workspaces and request goroutines and every      *)
(* bound: the latest version of a workspace template is the one that runs, *)
(* its name is free again when it is gone, and no live workspace loses it. *)
(***************************************************************************)
EXTENDS WorkspaceTemplate, FiniteSetTheorems, TLAPS

TplSteps == {"idle", "flow", "row", "version", "outdate", "commit", "read", "insert", "find", "list", "spaces"}

TplRequests ==
    [op : {"idle", "create", "update", "workspace", "archive"}, step : TplSteps,
     uid : TplUids \cup {NoUid}, id : Nat, number : 0..MaxTplVersions,
     seen : SUBSET (TplVersions \cup TplSpaces), space : TplSpaces \cup {NoSpace}]

RowRecords == [uid : TplUids \cup {NoUid}, live : BOOLEAN, flow : 0..MaxTplVersions]
VersionRecords == [row : 0..MaxTplRows, number : 0..MaxTplVersions, latest : BOOLEAN]
FlowRecords == [uid : TplUids \cup {NoUid}, live : BOOLEAN, numbers : SUBSET TplVersions]
SpaceRecords == [row : 0..MaxTplRows, state : {"None", "Live", "Terminating", "Terminated"}]

(* The types of all variables.                                              *)
TplKinds ==
    /\ tplRow \in [TplRows -> RowRecords]
    /\ tplVersion \in [TplVersions -> VersionRecords]
    /\ tplFlow \in [TplVersions -> FlowRecords]
    /\ tplClock \in 0..MaxTplVersions
    /\ tplSpace \in [TplSpaces -> SpaceRecords]
    /\ tplReq \in [TplHandlers -> TplRequests]
    /\ tplFaults \in 0..MaxTplFaults
    /\ tplRaced \subseteq TplUids

(* The rows the three tables have.                                          *)
UsedRows == {r \in TplRows : tplRow[r].uid # NoUid}
UsedVersions == {v \in TplVersions : tplVersion[v].row # 0}
UsedFlows == {f \in TplVersions : tplFlow[f].uid # NoUid}

(* Requests that will take a number, and those that have one.               *)
Pending == {h \in TplHandlers : tplReq[h].op \in {"create", "update"} /\ tplReq[h].number = 0}
Holding == {h \in TplHandlers : tplReq[h].number # 0}

(* Ids are given without gaps, and there is room for all that are asked for.*)
TplCounted ==
    /\ UsedRows = 1..Cardinality(UsedRows)
    /\ UsedVersions = 1..Cardinality(UsedVersions)
    /\ UsedFlows = 1..Cardinality(UsedFlows)
    /\ tplClock + Cardinality(Pending) <= MaxTplVersions
    /\ Cardinality(UsedVersions) + Cardinality(Holding) <= tplClock
    /\ Cardinality(UsedFlows) <= tplClock

(* What the rows of the three tables say of each other.                     *)
RowOK(r) ==
    /\ tplRow[r].live => tplRow[r].uid \in TplUids
    /\ \A q \in TplRows \ {r} : tplRow[r].live /\ tplRow[q].live => tplRow[q].uid # tplRow[r].uid
VersionOK(v) == tplVersion[v].row # 0 => tplVersion[v].row \in UsedRows
FlowOK(f) ==
    /\ tplFlow[f].live => tplFlow[f].uid \in TplUids
    /\ tplFlow[f].numbers \subseteq 1..tplClock
SpaceOK(w) == tplSpace[w].state # "None" => tplSpace[w].row \in UsedRows

(* What a request has behind it at each step.                               *)
TplRequestOK(h) ==
    LET r == tplReq[h] IN
    /\ r.op # "idle" => r.uid \in TplUids
    /\ r.op = "idle" => r = TplIdle
    /\ r.number # 0 <=> \/ r.op = "create" /\ r.step = "row"
                        \/ r.op = "update" /\ r.step \in {"outdate", "commit"}
    /\ r.op = "update" /\ r.step \in {"outdate", "commit"} =>
         /\ r.id \in TplRows /\ tplRow[r.id].uid = r.uid
         /\ r.step = "commit" => r.seen \subseteq VersionRows(r.id)
    /\ r.op = "create" /\ r.step = "row" => r.id \in TplVersions
    /\ r.op = "workspace" =>
         /\ r.space \in TplSpaces
         /\ r.step = "insert" =>
              /\ r.id \in TplRows /\ tplRow[r.id].uid = r.uid
              /\ tplRow[r.id].live \/ r.uid \in tplRaced
    /\ r.op = "archive" => SpacesOf(r.uid) = {} \/ r.uid \in tplRaced

(* Two requests for a uid have been noted.                                  *)
TplApart(g, h) == tplReq[g].uid = tplReq[h].uid /\ tplReq[h].uid # NoUid => tplReq[h].uid \in tplRaced

Newest(n, numbers) == n \in numbers /\ \A m \in numbers : m <= n

(* A uid as it is between requests.                                         *)
Settled(u) ==
    /\ \A r \in LiveTpl(u) :
         /\ LiveFlow(u) = {tplRow[r].flow}
         /\ \E v \in VersionRows(r) : LatestRows(r) = {v} /\ Newest(tplVersion[v].number, tplFlow[tplRow[r].flow].numbers)
    /\ LiveTpl(u) = {} => LiveFlow(u) = {}

(* The steps between which a uid is not as it is between requests.          *)
Halfway(h) ==
    \/ tplReq[h].op = "create" /\ tplReq[h].step = "row"
    \/ tplReq[h].op = "update" /\ tplReq[h].step \in {"outdate", "commit"}
    \/ tplReq[h].op = "archive" /\ tplReq[h].step = "flow"

(* How far the request h has brought its uid.                               *)
Story(h) ==
    LET r == tplReq[h] IN
    /\ r.op = "create" => LiveTpl(r.uid) = {}
    /\ r.op = "create" /\ r.step = "row" =>
         LiveFlow(r.uid) = {r.id} /\ tplFlow[r.id].numbers = {r.number}
    /\ r.op = "update" /\ r.step \in {"outdate", "commit"} =>
         /\ LiveTpl(r.uid) = {r.id}
         /\ LiveFlow(r.uid) = {tplRow[r.id].flow}
         /\ Newest(r.number, tplFlow[tplRow[r.id].flow].numbers)
         /\ r.step = "commit" => r.seen = LatestRows(r.id)
    /\ r.op = "archive" /\ r.step = "flow" => LiveTpl(r.uid) = {}

(* What is said of a uid whose requests have neither failed nor overlapped. *)
StoryOK(u) ==
    tplFaults = 0 /\ u \notin tplRaced =>
        /\ \A h \in TplHandlers : tplReq[h].uid = u => Story(h)
        /\ (\A h \in TplHandlers : tplReq[h].uid = u => ~Halfway(h)) => Settled(u)

TplInv ==
    /\ TplKinds
    /\ TplCounted
    /\ (\A r \in TplRows : RowOK(r)) /\ (\A v \in TplVersions : VersionOK(v) /\ FlowOK(v))
    /\ \A w \in TplSpaces : SpaceOK(w)
    /\ \A h \in TplHandlers : TplRequestOK(h) /\ \A g \in TplHandlers \ {h} : TplApart(g, h)
    /\ \A u \in TplUids : StoryOK(u)
    /\ NotStranded
----------------------------------------------------------------------------
(* Requests.                                                                *)

(* The requests of the others are as they were.                             *)
TplReplaces(h, r) ==
    /\ r \in TplRequests
    /\ tplReq' \in [TplHandlers -> TplRequests]
    /\ tplReq'[h] = r
    /\ \A g \in TplHandlers \ {h} : tplReq'[g] = tplReq[g]

LEMMA TplReplaced ==
    ASSUME tplReq \in [TplHandlers -> TplRequests], NEW h \in TplHandlers, NEW r \in TplRequests,
           tplReq' = [tplReq EXCEPT ![h] = r]
    PROVE  TplReplaces(h, r)
  BY DEF TplReplaces

(* The fields of a request.                                                 *)
LEMMA TplFields ==
    ASSUME NEW r \in TplRequests
    PROVE  /\ r.op \in {"idle", "create", "update", "workspace", "archive"} /\ r.step \in TplSteps
           /\ r.uid \in TplUids \cup {NoUid} /\ r.id \in Nat /\ r.number \in 0..MaxTplVersions
           /\ r.seen \in SUBSET (TplVersions \cup TplSpaces) /\ r.space \in TplSpaces \cup {NoSpace}
  BY DEF TplRequests

(* What a handler holds between requests.                                   *)
LEMMA TplIdleFields ==
    /\ TplIdle.op = "idle" /\ TplIdle.step = "idle" /\ TplIdle.uid = NoUid /\ TplIdle.id = 0
    /\ TplIdle.number = 0 /\ TplIdle.seen = {} /\ TplIdle.space = NoSpace
  BY DEF TplIdle

LEMMA TplIdleType == TplAssumption => TplIdle \in TplRequests
<1>1. SUFFICES ASSUME TplAssumption PROVE TplIdle \in TplRequests
  OBVIOUS
<1>2. 0 \in 0..MaxTplVersions
  BY <1>1 DEF TplAssumption
<1>3. QED
  BY <1>2 DEF TplIdle, TplRequests, TplSteps

(* A request as it starts.                                                  *)
LEMMA TplStarted ==
    ASSUME TplAssumption, TplKinds, NEW h \in TplHandlers, NEW u \in TplUids, NEW w \in TplSpaces \cup {NoSpace},
           NEW op \in {"create", "update", "workspace", "archive"}, NEW step \in TplSteps,
           TplStart(h, op, step, u, w)
    PROVE  \E r \in TplRequests :
             /\ TplReplaces(h, r)
             /\ r.op = op /\ r.step = step /\ r.uid = u /\ r.number = 0 /\ r.space = w
<1> DEFINE r == [TplIdle EXCEPT !.op = op, !.step = step, !.uid = u, !.space = w]
<1>1. r \in TplRequests /\ r.op = op /\ r.step = step /\ r.uid = u /\ r.number = 0 /\ r.space = w
  <2>1. 0 \in 0..MaxTplVersions
    BY DEF TplAssumption
  <2>2. QED
    BY <2>1 DEF TplIdle, TplRequests
<1>2. tplReq' = [tplReq EXCEPT ![h] = r]
  BY DEF TplStart
<1> HIDE DEF r
<1>3. QED
  BY <1>1, <1>2, TplReplaced DEF TplKinds

(* The request that h serves after a step that moves it on.                 *)
TplMovedTo(h, step, id, n, seen) ==
    \E r \in TplRequests :
      /\ TplReplaces(h, r)
      /\ r.op = tplReq[h].op /\ r.uid = tplReq[h].uid /\ r.space = tplReq[h].space
      /\ r.step = step /\ r.id = id /\ r.number = n /\ r.seen = seen

LEMMA TplMoves ==
    ASSUME tplReq \in [TplHandlers -> TplRequests], NEW h \in TplHandlers,
           NEW step \in TplSteps, NEW id \in Nat, NEW n \in 0..MaxTplVersions,
           NEW seen \in SUBSET (TplVersions \cup TplSpaces),
           tplReq' = [tplReq EXCEPT ![h] = [tplReq[h] EXCEPT !.step = step, !.id = id, !.number = n, !.seen = seen]]
    PROVE  TplMovedTo(h, step, id, n, seen)
<1> DEFINE q == tplReq[h]
           r == [q EXCEPT !.step = step, !.id = id, !.number = n, !.seen = seen]
<1>1. q \in TplRequests
  OBVIOUS
<1>2. /\ r \in TplRequests /\ r.op = q.op /\ r.uid = q.uid /\ r.space = q.space
      /\ r.step = step /\ r.id = id /\ r.number = n /\ r.seen = seen
  <2> HIDE DEF q
  <2>1. QED
    BY <1>1 DEF TplRequests
<1>3. tplReq' = [tplReq EXCEPT ![h] = r]
  OBVIOUS
<1> HIDE DEF r
<1>4. TplReplaces(h, r)
  BY <1>2, <1>3, TplReplaced
<1>5. QED
  BY <1>2, <1>4 DEF TplMovedTo

(* An update of some of these fields is an update of all of them.           *)
LEMMA TplEvery ==
    ASSUME NEW q \in TplRequests
    PROVE  /\ \A step : [q EXCEPT !.step = step] = [q EXCEPT !.step = step, !.id = q.id, !.number = q.number, !.seen = q.seen]
           /\ \A seen : [q EXCEPT !.seen = seen] = [q EXCEPT !.step = q.step, !.id = q.id, !.number = q.number, !.seen = seen]
           /\ \A step, id : [q EXCEPT !.step = step, !.id = id]
                              = [q EXCEPT !.step = step, !.id = id, !.number = q.number, !.seen = q.seen]
           /\ \A step, seen : [q EXCEPT !.step = step, !.seen = seen]
                                = [q EXCEPT !.step = step, !.id = q.id, !.number = q.number, !.seen = seen]
           /\ \A step, id, n : [q EXCEPT !.step = step, !.id = id, !.number = n]
                                 = [q EXCEPT !.step = step, !.id = id, !.number = n, !.seen = q.seen]
  BY DEF TplRequests
----------------------------------------------------------------------------
(* Counting.                                                                *)

LEMMA TplFinite ==
    ASSUME TplAssumption
    PROVE  \A S \in {UsedRows, UsedVersions, UsedFlows, Pending, Holding} :
             IsFiniteSet(S) /\ Cardinality(S) \in Nat
<1>1. IsFiniteSet(TplRows) /\ IsFiniteSet(TplVersions) /\ IsFiniteSet(TplHandlers)
  BY FS_Interval DEF TplAssumption, TplRows, TplVersions
<1>2. /\ UsedRows \in SUBSET TplRows /\ UsedVersions \in SUBSET TplVersions /\ UsedFlows \in SUBSET TplVersions
      /\ Pending \in SUBSET TplHandlers /\ Holding \in SUBSET TplHandlers
  BY DEF UsedRows, UsedVersions, UsedFlows, Pending, Holding
<1>3. /\ IsFiniteSet(UsedRows) /\ IsFiniteSet(UsedVersions) /\ IsFiniteSet(UsedFlows)
      /\ IsFiniteSet(Pending) /\ IsFiniteSet(Holding)
  BY <1>1, <1>2, FS_Subset
<1>4. QED
  BY <1>3, FS_CardinalityType

(* A set of ids without gaps, and the next id.                              *)
LEMMA NextId ==
    ASSUME NEW S, IsFiniteSet(S), S = 1..Cardinality(S)
    PROVE  LET x == Cardinality(S) + 1 IN
           x \notin S /\ Cardinality(S \cup {x}) = x /\ S \cup {x} = 1..x
<1> DEFINE n == Cardinality(S)
<1>1. n \in Nat /\ S = 1..n
  BY FS_CardinalityType
<1>2. Cardinality(S \cup {n + 1}) = IF n + 1 \in S THEN n ELSE n + 1
  BY FS_AddElement
<1> HIDE DEF n
<1>3. n + 1 \notin S /\ S \cup {n + 1} = 1..(n + 1)
  BY <1>1
<1>4. n + 1 \notin S /\ Cardinality(S \cup {n + 1}) = n + 1 /\ S \cup {n + 1} = 1..(n + 1)
  BY <1>2, <1>3
<1>5. QED
  BY <1>4 DEF n

(* The ids the sequences give next.                                         *)
LEMMA FreshIds ==
    ASSUME TplAssumption, TplKinds, TplCounted
    PROVE  /\ FreeRow = Cardinality(UsedRows) + 1 /\ FreeRow \notin UsedRows
           /\ FreeVersion = Cardinality(UsedVersions) + 1 /\ FreeVersion \notin UsedVersions
           /\ FreeFlow = Cardinality(UsedFlows) + 1 /\ FreeFlow \notin UsedFlows
           /\ UsedRows \cup {FreeRow} = 1..FreeRow /\ Cardinality(UsedRows \cup {FreeRow}) = FreeRow
           /\ UsedVersions \cup {FreeVersion} = 1..FreeVersion
           /\ Cardinality(UsedVersions \cup {FreeVersion}) = FreeVersion
           /\ UsedFlows \cup {FreeFlow} = 1..FreeFlow /\ Cardinality(UsedFlows \cup {FreeFlow}) = FreeFlow
           /\ FreeRow <= MaxTplRows => FreeRow \in TplRows
           /\ Holding # {} => FreeVersion \in TplVersions
           /\ Pending # {} => FreeFlow \in TplVersions /\ tplClock + 1 \in TplVersions
<1>1. /\ FreeRow = Cardinality(UsedRows) + 1
      /\ FreeVersion = Cardinality(UsedVersions) + 1
      /\ FreeFlow = Cardinality(UsedFlows) + 1
  BY DEF FreeRow, FreeVersion, FreeFlow, UsedRows, UsedVersions, UsedFlows
<1>2. \A S \in {UsedRows, UsedVersions, UsedFlows, Pending, Holding} : IsFiniteSet(S) /\ Cardinality(S) \in Nat
  BY TplFinite
<1>3. UsedRows = 1..Cardinality(UsedRows) /\ UsedVersions = 1..Cardinality(UsedVersions)
      /\ UsedFlows = 1..Cardinality(UsedFlows)
  BY DEF TplCounted
<1>4. FreeRow \notin UsedRows /\ UsedRows \cup {FreeRow} = 1..FreeRow /\ Cardinality(UsedRows \cup {FreeRow}) = FreeRow
  BY <1>1, <1>2, <1>3, NextId
<1>5. /\ FreeVersion \notin UsedVersions
      /\ UsedVersions \cup {FreeVersion} = 1..FreeVersion
      /\ Cardinality(UsedVersions \cup {FreeVersion}) = FreeVersion
  BY <1>1, <1>2, <1>3, NextId
<1>6. /\ FreeFlow \notin UsedFlows
      /\ UsedFlows \cup {FreeFlow} = 1..FreeFlow /\ Cardinality(UsedFlows \cup {FreeFlow}) = FreeFlow
  BY <1>1, <1>2, <1>3, NextId
<1>7. /\ Holding # {} => Cardinality(Holding) >= 1
      /\ Pending # {} => Cardinality(Pending) >= 1
  BY <1>2, FS_EmptySet
<1>8. /\ tplClock \in Nat /\ MaxTplVersions \in Nat /\ MaxTplRows \in Nat
      /\ tplClock + Cardinality(Pending) <= MaxTplVersions
      /\ Cardinality(UsedVersions) + Cardinality(Holding) <= tplClock
      /\ Cardinality(UsedFlows) <= tplClock
  BY DEF TplCounted, TplKinds, TplAssumption
<1>9. FreeRow <= MaxTplRows => FreeRow \in TplRows
  BY <1>1, <1>2, <1>8 DEF TplRows
<1>10. Holding # {} => FreeVersion \in TplVersions
  BY <1>1, <1>2, <1>7, <1>8 DEF TplVersions
<1>11. Pending # {} => FreeFlow \in TplVersions /\ tplClock + 1 \in TplVersions
  BY <1>1, <1>2, <1>7, <1>8 DEF TplVersions
<1>12. QED
  BY <1>1, <1>4, <1>5, <1>6, <1>9, <1>10, <1>11

IsPending(r) == r.op \in {"create", "update"} /\ r.number = 0

(* How a step of h changes the two counts of requests.                      *)
LEMMA RequestsCounted ==
    ASSUME TplAssumption, tplReq \in [TplHandlers -> TplRequests], NEW h \in TplHandlers, NEW r, TplReplaces(h, r)
    PROVE  /\ Cardinality(Pending') \in Nat /\ Cardinality(Holding') \in Nat
           /\ Cardinality(Pending') <= Cardinality(Pending) + 1
           /\ ~IsPending(r) => Cardinality(Pending') <= Cardinality(Pending)
           /\ IsPending(tplReq[h]) => Cardinality(Pending') <= Cardinality(Pending)
           /\ IsPending(tplReq[h]) /\ ~IsPending(r) => Cardinality(Pending') = Cardinality(Pending) - 1
           /\ Cardinality(Holding') <= Cardinality(Holding) + 1
           /\ r.number = 0 => Cardinality(Holding') <= Cardinality(Holding)
           /\ tplReq[h].number # 0 => Cardinality(Holding') <= Cardinality(Holding)
           /\ tplReq[h].number # 0 /\ r.number = 0 => Cardinality(Holding') = Cardinality(Holding) - 1
<1>1. \A S \in {UsedRows, UsedVersions, UsedFlows, Pending, Holding} : IsFiniteSet(S) /\ Cardinality(S) \in Nat
  BY TplFinite
<1>2. /\ IsPending(r) => Pending' = Pending \cup {h}
      /\ ~IsPending(r) => Pending' = Pending \ {h}
      /\ h \in Pending <=> IsPending(tplReq[h])
  BY DEF Pending, IsPending, TplReplaces
<1>3. /\ r.number # 0 => Holding' = Holding \cup {h}
      /\ r.number = 0 => Holding' = Holding \ {h}
      /\ h \in Holding <=> tplReq[h].number # 0
  BY DEF Holding, TplReplaces
<1>4. ASSUME NEW S \in {Pending, Holding}
      PROVE  /\ Cardinality(S \cup {h}) = IF h \in S THEN Cardinality(S) ELSE Cardinality(S) + 1
             /\ Cardinality(S \ {h}) = IF h \in S THEN Cardinality(S) - 1 ELSE Cardinality(S)
             /\ Cardinality(S \cup {h}) \in Nat /\ Cardinality(S \ {h}) \in Nat
  <2>1. IsFiniteSet(S)
    BY <1>1
  <2>2. IsFiniteSet(S \cup {h}) /\ IsFiniteSet(S \ {h})
    BY <2>1, FS_AddElement, FS_RemoveElement
  <2>3. QED
    BY <2>1, <2>2, FS_AddElement, FS_RemoveElement, FS_CardinalityType
<1>5. /\ Cardinality(Pending') \in Nat /\ Cardinality(Pending') <= Cardinality(Pending) + 1
      /\ ~IsPending(r) => Cardinality(Pending') <= Cardinality(Pending)
      /\ IsPending(tplReq[h]) => Cardinality(Pending') <= Cardinality(Pending)
      /\ IsPending(tplReq[h]) /\ ~IsPending(r) => Cardinality(Pending') = Cardinality(Pending) - 1
  <2>1. CASE IsPending(r)
    <3>1. /\ Pending' = Pending \cup {h} /\ Cardinality(Pending) \in Nat /\ Cardinality(Pending \cup {h}) \in Nat
          /\ Cardinality(Pending \cup {h}) = IF h \in Pending THEN Cardinality(Pending) ELSE Cardinality(Pending) + 1
      BY <1>1, <1>2, <1>4, <2>1
    <3>2. QED
      BY <1>2, <2>1, <3>1
  <2>2. CASE ~IsPending(r)
    <3>1. /\ Pending' = Pending \ {h} /\ Cardinality(Pending) \in Nat /\ Cardinality(Pending \ {h}) \in Nat
          /\ Cardinality(Pending \ {h}) = IF h \in Pending THEN Cardinality(Pending) - 1 ELSE Cardinality(Pending)
      BY <1>1, <1>2, <1>4, <2>2
    <3>2. QED
      BY <1>2, <2>2, <3>1
  <2>3. QED
    BY <2>1, <2>2
<1>6. /\ Cardinality(Holding') \in Nat /\ Cardinality(Holding') <= Cardinality(Holding) + 1
      /\ r.number = 0 => Cardinality(Holding') <= Cardinality(Holding)
      /\ tplReq[h].number # 0 => Cardinality(Holding') <= Cardinality(Holding)
      /\ tplReq[h].number # 0 /\ r.number = 0 => Cardinality(Holding') = Cardinality(Holding) - 1
  <2>1. CASE r.number # 0
    <3>1. /\ Holding' = Holding \cup {h} /\ Cardinality(Holding) \in Nat /\ Cardinality(Holding \cup {h}) \in Nat
          /\ Cardinality(Holding \cup {h}) = IF h \in Holding THEN Cardinality(Holding) ELSE Cardinality(Holding) + 1
      BY <1>1, <1>3, <1>4, <2>1
    <3>2. QED
      BY <1>3, <2>1, <3>1
  <2>2. CASE r.number = 0
    <3>1. /\ Holding' = Holding \ {h} /\ Cardinality(Holding) \in Nat /\ Cardinality(Holding \ {h}) \in Nat
          /\ Cardinality(Holding \ {h}) = IF h \in Holding THEN Cardinality(Holding) - 1 ELSE Cardinality(Holding)
      BY <1>1, <1>3, <1>4, <2>2
    <3>2. QED
      BY <1>3, <2>2, <3>1
  <2>3. QED
    BY <2>1, <2>2
<1>7. QED
  BY <1>5, <1>6
----------------------------------------------------------------------------
(* What a step leaves alone.                                                *)

(* Rows keep what they are ids of.                                          *)
TplGrows ==
    /\ \A r \in UsedRows : tplRow'[r].uid = tplRow[r].uid
    /\ \A v \in UsedVersions : tplVersion'[v].row = tplVersion[v].row
    /\ tplRaced \subseteq tplRaced'

(* The changes of a step are to one uid.                                    *)
OnlyOf(u) ==
    /\ \A q \in TplRows : tplRow'[q] # tplRow[q] => tplRow'[q].uid = u /\ tplRow[q].uid \in {u, NoUid}
    /\ \A v \in TplVersions : tplVersion'[v] # tplVersion[v] =>
         /\ tplVersion'[v].row \in TplRows /\ tplRow'[tplVersion'[v].row].uid = u
         /\ tplVersion[v].row # 0 => tplRow[tplVersion[v].row].uid = u
    /\ \A f \in TplVersions : tplFlow'[f] # tplFlow[f] => tplFlow'[f].uid = u /\ tplFlow[f].uid \in {u, NoUid}

(* So are the workspaces that may come to use a template.                   *)
SpacesOnlyOf(u) ==
    \A w \in TplSpaces : tplSpace'[w].state \in {"Live", "Terminating"} =>
        \/ tplSpace[w].state \in {"Live", "Terminating"} /\ tplSpace'[w].row = tplSpace[w].row
        \/ tplSpace'[w].row \in UsedRows /\ tplRow[tplSpace'[w].row].uid = u

(* No template gains a workspace.                                           *)
LEMMA SpacesStay ==
    ASSUME TplGrows, \A w \in TplSpaces : SpaceOK(w), NEW u, SpacesOnlyOf(u), NEW x, x # u
    PROVE  SpacesOf(x)' \subseteq SpacesOf(x)
<1>1. ASSUME NEW w \in TplSpaces, tplSpace'[w].state \in {"Live", "Terminating"}, tplRow'[tplSpace'[w].row].uid = x
      PROVE  w \in SpacesOf(x)
  <2>1. CASE tplSpace[w].state \in {"Live", "Terminating"} /\ tplSpace'[w].row = tplSpace[w].row
    <3>1. tplSpace[w].row \in UsedRows
      BY <2>1 DEF SpaceOK
    <3>2. QED
      BY <1>1, <2>1, <3>1 DEF SpacesOf, TplGrows
  <2>2. CASE tplSpace'[w].row \in UsedRows /\ tplRow[tplSpace'[w].row].uid = u
    BY <1>1, <2>2 DEF TplGrows
  <2>3. QED
    BY <1>1, <2>1, <2>2 DEF SpacesOnlyOf
<1>2. QED
  BY <1>1 DEF SpacesOf

(* A request is as far as it was, whatever another one does.                *)
LEMMA OthersOK ==
    ASSUME TplAssumption, TplKinds, TplGrows, NEW u \in TplUids, OnlyOf(u), SpacesOnlyOf(u),
           \A w \in TplSpaces : SpaceOK(w),
           NEW g \in TplHandlers, TplRequestOK(g), tplReq'[g] = tplReq[g],
           tplReq[g].uid = u => u \in tplRaced'
    PROVE  TplRequestOK(g)'
<1> DEFINE r == tplReq[g]
<1>1. /\ r.op # "idle" => r.uid \in TplUids
      /\ r.op = "idle" => r = TplIdle
      /\ r.number # 0 <=> \/ r.op = "create" /\ r.step = "row"
                          \/ r.op = "update" /\ r.step \in {"outdate", "commit"}
      /\ r.op = "create" /\ r.step = "row" => r.id \in TplVersions
  BY DEF TplRequestOK
<1>2. r.op = "update" /\ r.step \in {"outdate", "commit"} => r.id \in TplRows /\ tplRow'[r.id].uid = r.uid
  BY <1>1 DEF TplRequestOK, TplGrows, UsedRows, TplAssumption
<1>3. r.op = "update" /\ r.step = "commit" => \A v \in r.seen : v \in TplVersions /\ tplVersion'[v].row = r.id
  BY DEF TplRequestOK, TplGrows, UsedVersions, VersionRows, TplRows
<1>4. r.op = "workspace" => r.space \in TplSpaces
  BY DEF TplRequestOK
<1>5. r.op = "workspace" /\ r.step = "insert" =>
        /\ r.id \in TplRows /\ tplRow'[r.id].uid = r.uid
        /\ tplRow'[r.id].live \/ r.uid \in tplRaced'
  <2>1. SUFFICES ASSUME r.op = "workspace", r.step = "insert"
                 PROVE  /\ r.id \in TplRows /\ tplRow'[r.id].uid = r.uid
                        /\ tplRow'[r.id].live \/ r.uid \in tplRaced'
    OBVIOUS
  <2>2. r.id \in TplRows /\ tplRow[r.id].uid = r.uid /\ (tplRow[r.id].live \/ r.uid \in tplRaced) /\ r.uid \in TplUids
    BY <1>1, <2>1 DEF TplRequestOK
  <2>3. tplRow'[r.id].uid = r.uid
    BY <2>2 DEF TplGrows, UsedRows, TplAssumption
  <2>4. CASE r.uid = u
    BY <2>2, <2>3, <2>4
  <2>5. CASE r.uid # u
    BY <2>2, <2>3, <2>5 DEF OnlyOf, TplGrows
  <2>6. QED
    BY <2>4, <2>5
<1>6. r.op = "archive" => SpacesOf(r.uid)' = {} \/ r.uid \in tplRaced'
  <2>1. r.uid # u => SpacesOf(r.uid)' \subseteq SpacesOf(r.uid)
    <3>1. SUFFICES ASSUME r.uid # u PROVE SpacesOf(r.uid)' \subseteq SpacesOf(r.uid)
      OBVIOUS
    <3>2. ASSUME NEW x, x # u PROVE {w \in TplSpaces : tplSpace'[w].state \in {"Live", "Terminating"}
                                       /\ tplRow'[tplSpace'[w].row].uid = x} \subseteq SpacesOf(x)
      BY <3>2, SpacesStay DEF SpacesOf
    <3>3. QED
      BY <3>1, <3>2 DEF SpacesOf
  <2>2. QED
    BY <2>1 DEF TplRequestOK, TplGrows
<1>7. QED
  BY <1>1, <1>2, <1>3, <1>4, <1>5, <1>6 DEF TplRequestOK, VersionRows

(* What a step does to one uid changes nothing for another.                 *)
LEMMA UidAlone ==
    ASSUME TplAssumption, TplKinds, NEW u \in TplUids, OnlyOf(u), NEW x \in TplUids, x # u
    PROVE  /\ LiveTpl(x)' = LiveTpl(x) /\ LiveFlow(x)' = LiveFlow(x)
           /\ \A q \in TplRows : tplRow[q].uid = x =>
                /\ tplRow'[q] = tplRow[q]
                /\ VersionRows(q)' = VersionRows(q) /\ LatestRows(q)' = LatestRows(q)
                /\ \A v \in VersionRows(q) : tplVersion'[v] = tplVersion[v]
           /\ \A f \in LiveFlow(x) : tplFlow'[f] = tplFlow[f]
<1>0. x # NoUid
  BY DEF TplAssumption
<1>1. LiveTpl(x)' = LiveTpl(x)
  BY <1>0 DEF OnlyOf, LiveTpl
<1>2. LiveFlow(x)' = LiveFlow(x)
  BY <1>0 DEF OnlyOf, LiveFlow
<1>3. ASSUME NEW q \in TplRows, tplRow[q].uid = x
      PROVE  /\ tplRow'[q] = tplRow[q]
             /\ VersionRows(q)' = VersionRows(q) /\ LatestRows(q)' = LatestRows(q)
             /\ \A v \in VersionRows(q) : tplVersion'[v] = tplVersion[v]
  <2>1. tplRow'[q] = tplRow[q] /\ q # 0
    BY <1>0, <1>3 DEF OnlyOf, TplRows
  <2>2. ASSUME NEW v \in TplVersions, tplVersion[v].row = q \/ tplVersion'[v].row = q
        PROVE  tplVersion'[v] = tplVersion[v]
    BY <1>3, <2>1, <2>2 DEF OnlyOf
  <2>3. VersionRows(q)' = VersionRows(q)
    BY <2>2 DEF VersionRows
  <2>4. \A v \in VersionRows(q) : tplVersion'[v] = tplVersion[v]
    BY <2>2 DEF VersionRows
  <2>5. LatestRows(q)' = LatestRows(q)
    BY <2>3, <2>4 DEF LatestRows
  <2>6. QED
    BY <2>1, <2>3, <2>4, <2>5
<1>4. \A f \in LiveFlow(x) : tplFlow'[f] = tplFlow[f]
  BY <1>0 DEF OnlyOf, LiveFlow
<1>5. QED
  BY <1>1, <1>2, <1>3, <1>4
----------------------------------------------------------------------------
(* Uids whose requests have neither failed nor overlapped.                  *)

LEMMA StoryFramed ==
    ASSUME TplAssumption, TplKinds, NEW u \in TplUids, OnlyOf(u), NEW x \in TplUids, x # u,
           \A g \in TplHandlers : TplRequestOK(g),
           \A g \in TplHandlers : tplReq[g].uid = x \/ tplReq'[g].uid = x => tplReq'[g] = tplReq[g],
           tplFaults' = 0 => tplFaults = 0, tplRaced \subseteq tplRaced', StoryOK(x)
    PROVE  StoryOK(x)'
<1>1. /\ LiveTpl(x)' = LiveTpl(x) /\ LiveFlow(x)' = LiveFlow(x)
      /\ \A q \in TplRows : tplRow[q].uid = x =>
           /\ tplRow'[q] = tplRow[q]
           /\ VersionRows(q)' = VersionRows(q) /\ LatestRows(q)' = LatestRows(q)
           /\ \A v \in VersionRows(q) : tplVersion'[v] = tplVersion[v]
      /\ \A f \in LiveFlow(x) : tplFlow'[f] = tplFlow[f]
  BY UidAlone
<1>2. SUFFICES ASSUME tplFaults = 0, x \notin tplRaced
               PROVE  /\ \A h \in TplHandlers : tplReq'[h].uid = x => Story(h)'
                      /\ (\A h \in TplHandlers : tplReq'[h].uid = x => ~Halfway(h)') => Settled(x)'
  BY DEF StoryOK
<1>3. /\ \A h \in TplHandlers : tplReq[h].uid = x => Story(h)
      /\ (\A h \in TplHandlers : tplReq[h].uid = x => ~Halfway(h)) => Settled(x)
  BY <1>2 DEF StoryOK
<1>4. ASSUME NEW h \in TplHandlers, tplReq'[h].uid = x  PROVE Story(h)'
  <2> DEFINE r == tplReq[h]
  <2>1. tplReq'[h] = r /\ r.uid = x /\ Story(h) /\ TplRequestOK(h)
    BY <1>3, <1>4
  <2>2. r.op = "create" => LiveTpl(x)' = {}
    BY <1>1, <2>1 DEF Story
  <2>3. r.op = "create" /\ r.step = "row" => LiveFlow(x)' = {r.id} /\ tplFlow'[r.id].numbers = {r.number}
    BY <1>1, <2>1 DEF Story
  <2>4. r.op = "update" /\ r.step \in {"outdate", "commit"} =>
          /\ LiveTpl(x)' = {r.id} /\ LiveFlow(x)' = {tplRow'[r.id].flow}
          /\ tplFlow'[tplRow'[r.id].flow] = tplFlow[tplRow[r.id].flow]
          /\ LatestRows(r.id)' = LatestRows(r.id)
    BY <1>1, <2>1 DEF Story, TplRequestOK
  <2>5. r.op = "archive" /\ r.step = "flow" => LiveTpl(x)' = {}
    BY <1>1, <2>1 DEF Story
  <2>6. QED
    BY <2>1, <2>2, <2>3, <2>4, <2>5 DEF Story
<1>5. (\A h \in TplHandlers : tplReq'[h].uid = x => ~Halfway(h)') => \A h \in TplHandlers : tplReq[h].uid = x => ~Halfway(h)
  BY DEF Halfway
<1>6. Settled(x) => Settled(x)'
  <2>1. SUFFICES ASSUME Settled(x) PROVE Settled(x)'
    OBVIOUS
  <2>2. ASSUME NEW r \in LiveTpl(x)
        PROVE  /\ LiveFlow(x)' = {tplRow'[r].flow}
               /\ \E v \in VersionRows(r)' : /\ LatestRows(r)' = {v}
                                             /\ Newest(tplVersion'[v].number, tplFlow'[tplRow'[r].flow].numbers)
    <3>1. r \in TplRows /\ tplRow[r].uid = x
      BY DEF LiveTpl
    <3>2. LiveFlow(x) = {tplRow[r].flow}
      BY <2>1 DEF Settled
    <3>3. PICK v \in VersionRows(r) : LatestRows(r) = {v} /\ Newest(tplVersion[v].number, tplFlow[tplRow[r].flow].numbers)
      BY <2>1 DEF Settled
    <3>4. tplVersion'[v] = tplVersion[v] /\ tplFlow'[tplRow'[r].flow] = tplFlow[tplRow[r].flow]
      BY <1>1, <3>1, <3>2, <3>3
    <3>5. QED
      BY <1>1, <3>1, <3>2, <3>3, <3>4
  <2>3. LiveTpl(x)' = {} => LiveFlow(x)' = {}
    BY <1>1, <2>1 DEF Settled
  <2>4. QED
    BY <1>1, <2>2, <2>3 DEF Settled
<1>7. QED
  BY <1>3, <1>4, <1>5, <1>6

(* The only request for its uid brings the uid where its story says.        *)
LEMMA StoryBefore ==
    ASSUME TplAssumption, TplInv, NEW h \in TplHandlers, NEW u \in TplUids, tplReq[h].uid = u, tplFaults = 0, u \notin tplRaced
    PROVE  Story(h) /\ (~Halfway(h) => Settled(u))
<1>1. StoryOK(u)
  BY DEF TplInv
<1>2. \A g \in TplHandlers : tplReq[g].uid = u => g = h
  BY DEF TplInv, TplApart, TplKinds, TplAssumption
<1>3. QED
  BY <1>1, <1>2 DEF StoryOK

(* A step of one request, for one uid.                                      *)
LEMMA StepKeeps ==
    ASSUME TplAssumption, TplInv, NEW h \in TplHandlers, NEW u \in TplUids, NEW r, TplReplaces(h, r),
           tplReq[h].uid \in {u, NoUid}, r.uid \in {u, NoUid},
           TplKinds', TplCounted', tplFaults' = 0 => tplFaults = 0,
           TplGrows, OnlyOf(u), SpacesOnlyOf(u),
           \A q \in TplRows : RowOK(q)', \A v \in TplVersions : VersionOK(v)' /\ FlowOK(v)',
           \A w \in TplSpaces : SpaceOK(w)',
           TplRequestOK(h)', \A g \in TplHandlers \ {h} : tplReq[g].uid = u => u \in tplRaced',
           tplFaults' = 0 /\ u \notin tplRaced' =>
               (r.uid = u => Story(h)') /\ ((r.uid = u /\ Halfway(h)') \/ Settled(u)'),
           NotStranded'
    PROVE  TplInv'
<1>0. /\ TplKinds /\ (\A w \in TplSpaces : SpaceOK(w)) /\ \A g \in TplHandlers : TplRequestOK(g)
      /\ \A g, k \in TplHandlers : g # k => TplApart(g, k)
      /\ \A x \in TplUids : StoryOK(x)
  BY DEF TplInv
<1>1. /\ tplReq'[h] = r /\ \A g \in TplHandlers \ {h} : tplReq'[g] = tplReq[g]
      /\ u # NoUid
  BY DEF TplReplaces, TplAssumption
<1>2. ASSUME NEW g \in TplHandlers PROVE TplRequestOK(g)'
  <2>1. CASE g # h
    BY <1>0, <1>1, <2>1, OthersOK
  <2>2. QED
    BY <2>1
<1>3. ASSUME NEW g \in TplHandlers, NEW k \in TplHandlers, g # k  PROVE TplApart(g, k)'
  <2>1. SUFFICES ASSUME tplReq'[g].uid = tplReq'[k].uid, tplReq'[k].uid # NoUid
                 PROVE  tplReq'[k].uid \in tplRaced'
    BY DEF TplApart
  <2>2. CASE g # h /\ k # h
    BY <1>0, <1>1, <1>3, <2>1, <2>2 DEF TplApart, TplGrows
  <2>3. CASE g = h \/ k = h
    BY <1>1, <1>3, <2>1, <2>3
  <2>4. QED
    BY <2>2, <2>3
<1>4. ASSUME NEW x \in TplUids PROVE StoryOK(x)'
  <2>1. CASE x # u
    <3>1. \A g \in TplHandlers : tplReq[g].uid = x \/ tplReq'[g].uid = x => tplReq'[g] = tplReq[g]
      BY <1>1, <2>1 DEF TplAssumption
    <3>2. QED
      BY <1>0, <2>1, <3>1, StoryFramed DEF TplGrows
  <2>2. CASE x = u
    <3>1. u \notin tplRaced' => \A g \in TplHandlers : tplReq'[g].uid = u => g = h
      BY <1>1
    <3>2. QED
      BY <1>1, <2>2, <3>1 DEF StoryOK
  <2>3. QED
    BY <2>1, <2>2
<1>5. QED
  BY <1>2, <1>3, <1>4 DEF TplInv

(* A step that changes its request and nothing else.                        *)
LEMMA RequestStep ==
    ASSUME TplAssumption, TplInv, NEW h \in TplHandlers, NEW u \in TplUids, NEW r, TplReplaces(h, r),
           tplReq[h].uid \in {u, NoUid}, r.uid \in {u, NoUid},
           UNCHANGED <<tplRow, tplVersion, tplFlow, tplClock, tplSpace>>,
           tplFaults' \in 0..MaxTplFaults, tplFaults' = 0 => tplFaults = 0,
           tplRaced \subseteq tplRaced', tplRaced' \subseteq TplUids,
           tplClock + Cardinality(Pending') <= MaxTplVersions,
           r.number = 0 \/ tplReq[h].number # 0,
           TplRequestOK(h)', \A g \in TplHandlers \ {h} : tplReq[g].uid = u => u \in tplRaced',
           tplFaults' = 0 /\ u \notin tplRaced' => (r.uid = u => Story(h)'),
           tplFaults' = 0 /\ u \notin tplRaced' => (r.uid = u /\ Halfway(h)') \/ Settled(u)
    PROVE  TplInv'
<1>0. TplKinds /\ TplCounted
  BY DEF TplInv
<1>1. /\ tplRow' = tplRow /\ tplVersion' = tplVersion /\ tplFlow' = tplFlow /\ tplClock' = tplClock /\ tplSpace' = tplSpace
  OBVIOUS
<1>2. TplKinds'
  BY <1>0, <1>1 DEF TplKinds, TplReplaces
<1>3. TplCounted'
  <2>1. UsedRows' = UsedRows /\ UsedVersions' = UsedVersions /\ UsedFlows' = UsedFlows
    BY <1>1 DEF UsedRows, UsedVersions, UsedFlows
  <2>2. Cardinality(Holding') \in Nat /\ Cardinality(Holding') <= Cardinality(Holding)
    BY <1>0, RequestsCounted DEF TplKinds
  <2>3. Cardinality(Holding) \in Nat /\ Cardinality(UsedVersions) \in Nat /\ tplClock \in Nat
    BY <1>0, TplFinite DEF TplKinds, TplAssumption
  <2>4. Cardinality(UsedVersions) + Cardinality(Holding) <= tplClock
    BY <1>0 DEF TplCounted
  <2>5. Cardinality(UsedVersions) + Cardinality(Holding') <= tplClock
    BY <2>2, <2>3, <2>4
  <2>6. QED
    BY <1>0, <1>1, <2>1, <2>5 DEF TplCounted
<1>4. TplGrows /\ OnlyOf(u) /\ SpacesOnlyOf(u)
  BY <1>1 DEF TplGrows, OnlyOf, SpacesOnlyOf
<1>5. /\ \A q \in TplRows : RowOK(q)'
      /\ \A v \in TplVersions : VersionOK(v)' /\ FlowOK(v)'
      /\ \A w \in TplSpaces : SpaceOK(w)'
  BY <1>1 DEF TplInv, RowOK, VersionOK, FlowOK, SpaceOK, UsedRows
<1>6. NotStranded'
  BY <1>1 DEF TplInv, NotStranded
<1>7. Settled(u)' <=> Settled(u)
  BY <1>1 DEF Settled, LiveTpl, LiveFlow, VersionRows, LatestRows
<1>8. QED
  BY <1>2, <1>3, <1>4, <1>5, <1>6, <1>7, StepKeeps
----------------------------------------------------------------------------
(* Steps that change only their request.                                    *)

(* A request starts: it notes the requests for its uid that it meets.       *)
LEMMA StartKeeps ==
    ASSUME TplAssumption, TplInv, NEW h \in TplHandlers, NEW u \in TplUids, NEW w \in TplSpaces \cup {NoSpace},
           NEW op, NEW step, TplStart(h, op, step, u, w),
           UNCHANGED <<tplRow, tplVersion, tplFlow, tplClock, tplSpace, tplFaults>>,
           \/ op = "create" /\ step = "flow" /\ LiveTpl(u) = {} /\ VersionLeft
           \/ op = "update" /\ step = "version" /\ VersionLeft
           \/ op = "workspace" /\ step = "read" /\ w \in TplSpaces
           \/ op = "archive" /\ step = "find" /\ SpacesOf(u) = {}
    PROVE  TplInv'
<1>0. TplKinds /\ TplCounted /\ tplFaults \in 0..MaxTplFaults /\ tplRaced \subseteq TplUids
  BY DEF TplInv, TplKinds
<1>1. PICK r \in TplRequests :
        /\ TplReplaces(h, r)
        /\ r.op = op /\ r.step = step /\ r.uid = u /\ r.number = 0 /\ r.space = w
  BY <1>0, TplStarted DEF TplSteps
<1>2. tplReq[h].op = "idle" /\ tplReq[h].uid = NoUid /\ tplReq[h].number = 0
  BY TplIdleFields DEF TplStart
<1>3. /\ tplRaced \subseteq tplRaced' /\ tplRaced' \subseteq TplUids
      /\ \A g \in TplHandlers : tplReq[g].uid = u => u \in tplRaced'
  BY <1>0 DEF TplStart, TplQuiet
<1>4. tplClock + Cardinality(Pending') <= MaxTplVersions
  <2>1. /\ Cardinality(Pending') \in Nat /\ Cardinality(Pending) \in Nat
        /\ Cardinality(Pending') <= Cardinality(Pending) + 1
        /\ op \notin {"create", "update"} => Cardinality(Pending') <= Cardinality(Pending)
    BY <1>0, <1>1, RequestsCounted, TplFinite DEF TplKinds, IsPending
  <2>2. tplClock \in Nat /\ MaxTplVersions \in Nat /\ tplClock + Cardinality(Pending) <= MaxTplVersions
    BY <1>0 DEF TplKinds, TplAssumption, TplCounted
  <2>3. VersionLeft => tplClock + Cardinality(Pending) < MaxTplVersions
    BY DEF VersionLeft, Pending
  <2>4. VersionLeft \/ op \notin {"create", "update"}
    OBVIOUS
  <2>5. QED
    BY <2>1, <2>2, <2>3, <2>4
<1>5. TplRequestOK(h)'
  BY <1>1 DEF TplRequestOK, TplReplaces, SpacesOf
<1>6. Story(h)' /\ ~Halfway(h)'
  BY <1>1 DEF Story, Halfway, TplReplaces, LiveTpl
<1>7. tplFaults' = 0 /\ u \notin tplRaced' => Settled(u)
  <2>1. SUFFICES ASSUME tplFaults = 0, u \notin tplRaced' PROVE Settled(u)
    OBVIOUS
  <2>2. StoryOK(u) /\ u \notin tplRaced
    BY <1>3, <2>1 DEF TplInv
  <2>3. QED
    BY <1>3, <2>1, <2>2 DEF StoryOK
<1>8. r.uid \in {u, NoUid} /\ tplReq[h].uid \in {u, NoUid} /\ r.number = 0
  BY <1>1, <1>2
<1>9. QED
  BY <1>0, <1>1, <1>3, <1>4, <1>5, <1>6, <1>7, <1>8, RequestStep

(* What a request that is not idle has.                                     *)
LEMMA TplServing ==
    ASSUME TplAssumption, TplInv, NEW h \in TplHandlers, tplReq[h].op # "idle"
    PROVE  /\ TplRequestOK(h) /\ tplReq[h] \in TplRequests /\ tplReq[h].uid \in TplUids
           /\ \A g \in TplHandlers \ {h} : tplReq[g].uid = tplReq[h].uid => tplReq[h].uid \in tplRaced
<1>1. TplRequestOK(h) /\ TplKinds
  BY DEF TplInv
<1>2. tplReq[h].uid \in TplUids /\ tplReq[h].uid # NoUid
  BY <1>1 DEF TplRequestOK, TplAssumption
<1>3. \A g \in TplHandlers \ {h} : TplApart(g, h)
  BY DEF TplInv
<1>4. QED
  BY <1>1, <1>2, <1>3 DEF TplApart, TplKinds

(* A request ends; half way, only by a failure.                             *)
LEMMA DoneKeeps ==
    ASSUME TplAssumption, TplInv, NEW h \in TplHandlers, tplReq[h].op # "idle", TplDone(h),
           UNCHANGED <<tplRow, tplVersion, tplFlow, tplClock, tplSpace, tplRaced>>,
           tplFaults' \in 0..MaxTplFaults, tplFaults' = 0 => tplFaults = 0 /\ ~Halfway(h)
    PROVE  TplInv'
<1> DEFINE u == tplReq[h].uid
<1>0. TplKinds /\ TplCounted /\ tplRaced \subseteq TplUids
  BY DEF TplInv, TplKinds
<1>1. u \in TplUids /\ \A g \in TplHandlers \ {h} : tplReq[g].uid = u => u \in tplRaced
  BY TplServing
<1>2. TplReplaces(h, TplIdle)
  BY <1>0, TplIdleType, TplReplaced DEF TplDone, TplKinds
<1>3. tplClock + Cardinality(Pending') <= MaxTplVersions
  <2>1. Cardinality(Pending') \in Nat /\ Cardinality(Pending) \in Nat /\ Cardinality(Pending') <= Cardinality(Pending)
    BY <1>0, <1>2, RequestsCounted, TplFinite, TplIdleFields DEF TplKinds, IsPending
  <2>2. tplClock \in Nat /\ MaxTplVersions \in Nat /\ tplClock + Cardinality(Pending) <= MaxTplVersions
    BY <1>0 DEF TplKinds, TplAssumption, TplCounted
  <2>3. QED
    BY <2>1, <2>2
<1>4. TplRequestOK(h)'
  BY <1>2, TplIdleFields DEF TplRequestOK, TplReplaces
<1>5. tplFaults' = 0 /\ u \notin tplRaced' => Settled(u)
  BY <1>1, StoryBefore
<1>6. TplIdle.uid \in {u, NoUid} /\ TplIdle.uid # u /\ TplIdle.number = 0
  BY <1>1, TplIdleFields DEF TplAssumption
<1>7. /\ tplRaced \subseteq tplRaced' /\ tplRaced' \subseteq TplUids
      /\ tplFaults' = 0 => tplFaults = 0
  BY <1>0
<1> HIDE DEF u
<1>8. tplReq[h].uid \in {u, NoUid}
  BY DEF u
<1>9. QED
  BY <1>1, <1>2, <1>3, <1>4, <1>5, <1>6, <1>7, <1>8, RequestStep

(* A request moves on and keeps its number.                                 *)
LEMMA MoveKeeps ==
    ASSUME TplAssumption, TplInv, NEW h \in TplHandlers, tplReq[h].op # "idle",
           NEW step, NEW id, NEW seen, TplMovedTo(h, step, id, tplReq[h].number, seen),
           UNCHANGED <<tplRow, tplVersion, tplFlow, tplClock, tplSpace, tplFaults, tplRaced>>,
           TplRequestOK(h)', tplFaults = 0 /\ tplReq[h].uid \notin tplRaced => Story(h)',
           Halfway(h) => Halfway(h)'
    PROVE  TplInv'
<1> DEFINE u == tplReq[h].uid
<1>0. TplKinds /\ TplCounted /\ tplRaced \subseteq TplUids /\ tplFaults \in 0..MaxTplFaults
  BY DEF TplInv, TplKinds
<1>1. u \in TplUids /\ \A g \in TplHandlers \ {h} : tplReq[g].uid = u => u \in tplRaced
  BY TplServing
<1>2. PICK r \in TplRequests :
        TplReplaces(h, r) /\ r.op = tplReq[h].op /\ r.uid = u /\ r.number = tplReq[h].number
  BY DEF TplMovedTo
<1>3. tplClock + Cardinality(Pending') <= MaxTplVersions
  <2>1. IsPending(r) <=> IsPending(tplReq[h])
    BY <1>2 DEF IsPending
  <2>2. Cardinality(Pending') \in Nat /\ Cardinality(Pending) \in Nat /\ Cardinality(Pending') <= Cardinality(Pending)
    BY <1>0, <1>2, <2>1, RequestsCounted, TplFinite DEF TplKinds
  <2>3. tplClock \in Nat /\ MaxTplVersions \in Nat /\ tplClock + Cardinality(Pending) <= MaxTplVersions
    BY <1>0 DEF TplKinds, TplAssumption, TplCounted
  <2>4. QED
    BY <2>2, <2>3
<1>4. tplFaults' = 0 /\ u \notin tplRaced' => Halfway(h)' \/ Settled(u)
  BY <1>1, StoryBefore
<1>5. /\ tplRaced \subseteq tplRaced' /\ tplRaced' \subseteq TplUids /\ tplFaults' \in 0..MaxTplFaults
      /\ tplFaults' = 0 => tplFaults = 0
      /\ r.number = 0 \/ tplReq[h].number # 0
  BY <1>0, <1>2
<1>6. tplFaults' = 0 /\ u \notin tplRaced' => Story(h)'
  OBVIOUS
<1> HIDE DEF u
<1>7. tplReq[h].uid \in {u, NoUid} /\ r.uid \in {u, NoUid} /\ r.uid = u
  BY <1>2 DEF u
<1>8. QED
  BY <1>1, <1>2, <1>3, <1>4, <1>5, <1>6, <1>7, RequestStep
(* The forms in which the actions write the move of a request.              *)
LEMMA TplMoveForms ==
    ASSUME tplReq \in [TplHandlers -> TplRequests], NEW h \in TplHandlers,
           NEW step \in TplSteps, NEW id \in Nat, NEW n \in 0..MaxTplVersions,
           NEW seen \in SUBSET (TplVersions \cup TplSpaces)
    PROVE  LET q == tplReq[h] IN
           /\ tplReq' = [tplReq EXCEPT ![h].step = step] => TplMovedTo(h, step, q.id, q.number, q.seen)
           /\ tplReq' = [tplReq EXCEPT ![h].seen = seen] => TplMovedTo(h, q.step, q.id, q.number, seen)
           /\ tplReq' = [tplReq EXCEPT ![h].step = step, ![h].id = id] => TplMovedTo(h, step, id, q.number, q.seen)
           /\ tplReq' = [tplReq EXCEPT ![h].step = step, ![h].seen = seen]
                => TplMovedTo(h, step, q.id, q.number, seen)
           /\ tplReq' = [tplReq EXCEPT ![h].step = step, ![h].id = id, ![h].number = n]
                => TplMovedTo(h, step, id, n, q.seen)
<1> DEFINE q == tplReq[h]
           Full(s, i, m, z) == [q EXCEPT !.step = s, !.id = i, !.number = m, !.seen = z]
<1>0. q \in TplRequests
  OBVIOUS
<1>1. /\ q.step \in TplSteps /\ q.id \in Nat /\ q.number \in 0..MaxTplVersions
      /\ q.seen \in SUBSET (TplVersions \cup TplSpaces)
  BY <1>0, TplFields
<1>2. /\ [q EXCEPT !.step = step] = Full(step, q.id, q.number, q.seen)
      /\ [q EXCEPT !.seen = seen] = Full(q.step, q.id, q.number, seen)
      /\ [q EXCEPT !.step = step, !.id = id] = Full(step, id, q.number, q.seen)
      /\ [q EXCEPT !.step = step, !.seen = seen] = Full(step, q.id, q.number, seen)
      /\ [q EXCEPT !.step = step, !.id = id, !.number = n] = Full(step, id, n, q.seen)
  <2> HIDE DEF q
  <2>1. QED
    BY <1>0, TplEvery
<1>3. ASSUME NEW s \in TplSteps, NEW i \in Nat, NEW m \in 0..MaxTplVersions,
             NEW z \in SUBSET (TplVersions \cup TplSpaces), tplReq' = [tplReq EXCEPT ![h] = Full(s, i, m, z)]
      PROVE  TplMovedTo(h, s, i, m, z)
  BY <1>3, TplMoves
<1>4. ASSUME tplReq' = [tplReq EXCEPT ![h].step = step]  PROVE TplMovedTo(h, step, q.id, q.number, q.seen)
  <2>1. tplReq' = [tplReq EXCEPT ![h] = Full(step, q.id, q.number, q.seen)]
    BY <1>2, <1>4
  <2> HIDE DEF Full, q
  <2>2. QED
    BY <1>1, <1>3, <2>1
<1>5. ASSUME tplReq' = [tplReq EXCEPT ![h].seen = seen]  PROVE TplMovedTo(h, q.step, q.id, q.number, seen)
  <2>1. tplReq' = [tplReq EXCEPT ![h] = Full(q.step, q.id, q.number, seen)]
    BY <1>2, <1>5
  <2> HIDE DEF Full, q
  <2>2. QED
    BY <1>1, <1>3, <2>1
<1>6. ASSUME tplReq' = [tplReq EXCEPT ![h].step = step, ![h].id = id]  PROVE TplMovedTo(h, step, id, q.number, q.seen)
  <2>1. tplReq' = [tplReq EXCEPT ![h] = Full(step, id, q.number, q.seen)]
    BY <1>2, <1>6
  <2> HIDE DEF Full, q
  <2>2. QED
    BY <1>1, <1>3, <2>1
<1>7. ASSUME tplReq' = [tplReq EXCEPT ![h].step = step, ![h].seen = seen]
      PROVE  TplMovedTo(h, step, q.id, q.number, seen)
  <2>1. tplReq' = [tplReq EXCEPT ![h] = Full(step, q.id, q.number, seen)]
    BY <1>2, <1>7
  <2> HIDE DEF Full, q
  <2>2. QED
    BY <1>1, <1>3, <2>1
<1>8. ASSUME tplReq' = [tplReq EXCEPT ![h].step = step, ![h].id = id, ![h].number = n]
      PROVE  TplMovedTo(h, step, id, n, q.seen)
  <2>1. tplReq' = [tplReq EXCEPT ![h] = Full(step, id, n, q.seen)]
    BY <1>2, <1>8
  <2> HIDE DEF Full, q
  <2>2. QED
    BY <1>1, <1>3, <2>1
<1>9. QED
  BY <1>4, <1>5, <1>6, <1>7, <1>8

(* The versions to lose their mark are those marked now.                    *)
LEMMA OutdateLatestKeeps ==
    ASSUME TplAssumption, TplInv, NEW h \in TplHandlers, OutdateLatest(h)
    PROVE  TplInv'
<1>0. /\ tplReq[h].op = "update" /\ tplReq[h].step = "outdate"
      /\ UNCHANGED <<tplRow, tplVersion, tplFlow, tplClock, tplSpace, tplFaults, tplRaced>>
  BY DEF OutdateLatest, TplAt
<1>1. /\ TplRequestOK(h) /\ tplReq[h] \in TplRequests /\ tplReq[h].uid \in TplUids /\ TplKinds
  BY <1>0, TplServing DEF TplInv
<1>2. LatestRows(tplReq[h].id) \in SUBSET (TplVersions \cup TplSpaces)
  BY DEF LatestRows, VersionRows
<1>3. TplMovedTo(h, "commit", tplReq[h].id, tplReq[h].number, LatestRows(tplReq[h].id))
  BY <1>1, <1>2, TplMoveForms, TplFields DEF OutdateLatest, TplKinds, TplSteps
<1>4. /\ tplReq'[h].op = tplReq[h].op /\ tplReq'[h].uid = tplReq[h].uid /\ tplReq'[h].id = tplReq[h].id
      /\ tplReq'[h].step = "commit" /\ tplReq'[h].number = tplReq[h].number
      /\ tplReq'[h].seen = LatestRows(tplReq[h].id)
  BY <1>3 DEF TplMovedTo, TplReplaces
<1>5. TplRequestOK(h)'
  BY <1>0, <1>1, <1>4 DEF TplRequestOK, VersionRows, LatestRows
<1>6. tplFaults = 0 /\ tplReq[h].uid \notin tplRaced => Story(h)'
  <2>1. SUFFICES ASSUME tplFaults = 0, tplReq[h].uid \notin tplRaced PROVE Story(h)'
    OBVIOUS
  <2>2. Story(h)
    BY <1>1, <2>1, StoryBefore
  <2>3. QED
    BY <1>0, <1>4, <2>2 DEF Story, LiveTpl, LiveFlow, LatestRows, VersionRows
<1>7. Halfway(h)'
  BY <1>0, <1>4 DEF Halfway
<1>8. QED
  BY <1>0, <1>3, <1>5, <1>6, <1>7, MoveKeeps

(* The template is live as it is read.                                      *)
LEMMA ReadForWorkspaceKeeps ==
    ASSUME TplAssumption, TplInv, NEW h \in TplHandlers, ReadForWorkspace(h)
    PROVE  TplInv'
<1>0. /\ tplReq[h].op = "workspace" /\ tplReq[h].step = "read"
      /\ UNCHANGED <<tplRow, tplVersion, tplFlow, tplClock, tplSpace, tplFaults, tplRaced>>
  BY DEF ReadForWorkspace, TplAt
<1>1. /\ TplRequestOK(h) /\ tplReq[h] \in TplRequests /\ tplReq[h].uid \in TplUids /\ TplKinds
      /\ tplFaults \in 0..MaxTplFaults /\ ~Halfway(h)
  BY <1>0, TplServing DEF TplInv, TplKinds, Halfway
<1>2. CASE TplDone(h)
  BY <1>0, <1>1, <1>2, DoneKeeps
<1>3. ASSUME NEW r \in LiveTpl(tplReq[h].uid), tplReq' = [tplReq EXCEPT ![h].step = "insert", ![h].id = r]
      PROVE  TplInv'
  <2>1. r \in TplRows /\ r \in Nat /\ tplRow[r].live /\ tplRow[r].uid = tplReq[h].uid
    BY DEF LiveTpl, TplRows
  <2>2. TplMovedTo(h, "insert", r, tplReq[h].number, tplReq[h].seen)
    BY <1>1, <1>3, <2>1, TplMoveForms, TplFields DEF TplKinds, TplSteps
  <2>3. /\ tplReq'[h].op = tplReq[h].op /\ tplReq'[h].uid = tplReq[h].uid /\ tplReq'[h].id = r
        /\ tplReq'[h].step = "insert" /\ tplReq'[h].number = tplReq[h].number
        /\ tplReq'[h].space = tplReq[h].space
    BY <2>2 DEF TplMovedTo, TplReplaces
  <2>4. TplRequestOK(h)'
    BY <1>0, <1>1, <2>1, <2>3 DEF TplRequestOK
  <2>5. Story(h)'
    BY <1>0, <2>3 DEF Story
  <2>6. QED
    BY <1>0, <1>1, <2>2, <2>4, <2>5, MoveKeeps
<1>4. QED
  BY <1>2, <1>3 DEF ReadForWorkspace

(* Archiving reads the template, by whatever id, and its workspaces.        *)
LEMMA ArchiveReadsKeep ==
    ASSUME TplAssumption, TplInv, NEW h \in TplHandlers, FindTemplate(h) \/ ListSpaces(h)
    PROVE  TplInv'
<1>0. /\ tplReq[h].op = "archive" /\ tplReq[h].step \in {"find", "list"}
      /\ UNCHANGED <<tplRow, tplVersion, tplFlow, tplClock, tplSpace, tplFaults, tplRaced>>
  BY DEF FindTemplate, ListSpaces, TplAt
<1>1. /\ TplRequestOK(h) /\ tplReq[h] \in TplRequests /\ tplReq[h].uid \in TplUids /\ TplKinds
      /\ tplFaults \in 0..MaxTplFaults /\ ~Halfway(h)
  BY <1>0, TplServing DEF TplInv, TplKinds, Halfway
<1>2. CASE TplDone(h)
  BY <1>0, <1>1, <1>2, DoneKeeps
<1>3. ASSUME NEW step \in {"list", "spaces"}, NEW id, NEW seen, TplMovedTo(h, step, id, tplReq[h].number, seen)
      PROVE  TplInv'
  <2>1. /\ tplReq'[h].op = tplReq[h].op /\ tplReq'[h].uid = tplReq[h].uid
        /\ tplReq'[h].step = step /\ tplReq'[h].number = tplReq[h].number
    BY <1>3 DEF TplMovedTo, TplReplaces
  <2>2. TplRequestOK(h)'
    BY <1>0, <1>1, <2>1 DEF TplRequestOK, SpacesOf
  <2>3. Story(h)'
    BY <1>0, <2>1 DEF Story
  <2>4. QED
    BY <1>0, <1>1, <1>3, <2>2, <2>3, MoveKeeps
<1>4. ASSUME FindTemplate(h), ~TplDone(h)  PROVE TplInv'
  <2>1. PICK v \in TplVersions : tplReq' = [tplReq EXCEPT ![h].step = "list", ![h].id = v]
    BY <1>4 DEF FindTemplate, LatestRows, VersionRows
  <2>2. v \in Nat
    BY DEF TplVersions
  <2>3. TplMovedTo(h, "list", v, tplReq[h].number, tplReq[h].seen)
    BY <1>1, <2>1, <2>2, TplMoveForms, TplFields DEF TplKinds, TplSteps
  <2>4. QED
    BY <1>3, <2>3
<1>5. ASSUME ListSpaces(h)  PROVE TplInv'
  <2> DEFINE found == {w \in TplSpaces : tplSpace[w].state \in {"Live", "Terminating"}
                                      /\ tplSpace[w].row = tplReq[h].id}
  <2>1. found \in SUBSET (TplVersions \cup TplSpaces)
    OBVIOUS
  <2>2. tplReq' = [tplReq EXCEPT ![h].step = "spaces", ![h].seen = found]
    BY <1>5 DEF ListSpaces
  <2> HIDE DEF found
  <2>3. TplMovedTo(h, "spaces", tplReq[h].id, tplReq[h].number, found)
    BY <1>1, <2>1, <2>2, TplMoveForms, TplFields DEF TplKinds, TplSteps
  <2>4. QED
    BY <1>3, <2>3
<1>6. QED
  BY <1>2, <1>4, <1>5

LEMMA TplBreakOffKeeps ==
    ASSUME TplAssumption, TplInv, NEW h \in TplHandlers, TplBreakOff(h)
    PROVE  TplInv'
<1>1. /\ tplReq[h] # TplIdle /\ TplDone(h) /\ tplFaults < MaxTplFaults /\ tplFaults' = tplFaults + 1
      /\ UNCHANGED <<tplRow, tplVersion, tplFlow, tplClock, tplSpace, tplRaced>>
  BY DEF TplBreakOff
<1>2. tplFaults \in 0..MaxTplFaults /\ TplRequestOK(h) /\ MaxTplFaults \in Nat
  BY DEF TplInv, TplKinds, TplAssumption
<1>3. tplFaults' \in 0..MaxTplFaults /\ tplFaults' # 0
  BY <1>1, <1>2
<1>4. tplReq[h].op # "idle"
  BY <1>1, <1>2 DEF TplRequestOK
<1>5. QED
  BY <1>1, <1>3, <1>4, DoneKeeps
(* A request is taken up.                                                   *)
LEMMA RequestStarts ==
    ASSUME TplAssumption, TplInv, NEW h \in TplHandlers, NEW u \in TplUids,
           \/ CheckName(h, u) \/ ReadTemplate(h, u) \/ ArchiveRequest(h, u)
           \/ \E w \in TplSpaces : AskWorkspace(h, w, u)
    PROVE  TplInv'
<1>1. CASE CheckName(h, u)
  BY <1>1, StartKeeps DEF CheckName
<1>2. CASE ReadTemplate(h, u)
  BY <1>2, StartKeeps DEF ReadTemplate
<1>3. CASE ArchiveRequest(h, u)
  BY <1>3, StartKeeps DEF ArchiveRequest, HasNoRunning
<1>4. ASSUME NEW w \in TplSpaces, AskWorkspace(h, w, u)  PROVE TplInv'
  BY <1>4, StartKeeps DEF AskWorkspace
<1>5. QED
  BY <1>1, <1>2, <1>3, <1>4
----------------------------------------------------------------------------
(* Steps that change the tables.                                            *)

(* The workflow template of a new template is made.                         *)
LEMMA MakeFlowKeeps ==
    ASSUME TplAssumption, TplInv, NEW h \in TplHandlers, MakeFlow(h)
    PROVE  TplInv'
<1> DEFINE n == tplClock + 1
           f == FreeFlow
<1>0. /\ tplReq[h].op = "create" /\ tplReq[h].step = "flow"
      /\ UNCHANGED <<tplRow, tplVersion, tplSpace, tplFaults, tplRaced>>
  BY DEF MakeFlow, TplAt
<1> PICK u \in TplUids : tplReq[h].uid = u
  BY <1>0, TplServing
<1>1. /\ TplRequestOK(h) /\ tplReq[h] \in TplRequests /\ TplKinds /\ TplCounted
      /\ tplFaults \in 0..MaxTplFaults /\ ~Halfway(h)
      /\ \A g \in TplHandlers \ {h} : tplReq[g].uid = u => u \in tplRaced
  BY <1>0, TplServing DEF TplInv, TplKinds, Halfway
<1>2. CASE TplDone(h) /\ UNCHANGED <<tplFlow, tplClock>>
  BY <1>0, <1>1, <1>2, DoneKeeps
<1>3. CASE /\ LiveFlow(u) = {} /\ tplClock' = n
           /\ tplFlow' = [tplFlow EXCEPT ![f] = [uid |-> u, live |-> TRUE, numbers |-> {n}]]
           /\ tplReq' = [tplReq EXCEPT ![h].step = "row", ![h].id = f, ![h].number = n]
  <2>1. tplReq[h].number = 0 /\ IsPending(tplReq[h]) /\ h \in Pending
    BY <1>0, <1>1 DEF TplRequestOK, IsPending, Pending
  <2>2. /\ f \in TplVersions /\ n \in TplVersions /\ f \notin UsedFlows
        /\ UsedFlows \cup {f} = 1..f /\ Cardinality(UsedFlows \cup {f}) = f /\ f = Cardinality(UsedFlows) + 1
    BY <1>1, <2>1, FreshIds
  <2>3. f \in Nat /\ n \in Nat /\ n # 0 /\ n \in 0..MaxTplVersions /\ tplClock \in Nat
    BY <1>1, <2>2 DEF TplVersions, TplAssumption, TplKinds
  <2>4. PICK r \in TplRequests :
          TplReplaces(h, r) /\ r.op = "create" /\ r.uid = u /\ r.step = "row" /\ r.id = f /\ r.number = n
    <3> HIDE DEF f, n
    <3>1. TplMovedTo(h, "row", f, n, tplReq[h].seen)
      BY <1>1, <1>3, <2>3, TplMoveForms, TplFields DEF TplKinds, TplSteps
    <3>2. QED
      BY <1>0, <3>1 DEF TplMovedTo
  <2>5. /\ tplFlow'[f] = [uid |-> u, live |-> TRUE, numbers |-> {n}]
        /\ \A g \in TplVersions \ {f} : tplFlow'[g] = tplFlow[g]
        /\ tplFlow' \in [TplVersions -> FlowRecords]
    <3>1. [uid |-> u, live |-> TRUE, numbers |-> {n}] \in FlowRecords
      BY <1>1, <2>2 DEF FlowRecords
    <3> HIDE DEF f, n
    <3>2. QED
      BY <1>1, <1>3, <2>2, <3>1 DEF TplKinds
  <2>6. tplReq'[h] = r /\ tplReq' \in [TplHandlers -> TplRequests]
    BY <2>4 DEF TplReplaces
  <2>7. tplFlow[f].uid = NoUid /\ ~tplFlow[f].live
    BY <1>1, <2>2 DEF UsedFlows, TplInv, FlowOK, TplAssumption
  <2> HIDE DEF f, n
  <2>8. TplKinds'
    BY <1>0, <1>1, <1>3, <2>3, <2>5, <2>6 DEF TplKinds, n
  <2>9. TplCounted'
    <3>1. UsedRows' = UsedRows /\ UsedVersions' = UsedVersions
      BY <1>0 DEF UsedRows, UsedVersions
    <3>2. UsedFlows' = UsedFlows \cup {f}
      BY <1>1, <2>2, <2>5 DEF UsedFlows, TplAssumption
    <3>3. /\ Cardinality(Pending') \in Nat /\ Cardinality(Holding') \in Nat
          /\ Cardinality(Pending') = Cardinality(Pending) - 1 /\ Cardinality(Holding') <= Cardinality(Holding) + 1
      BY <1>1, <2>1, <2>3, <2>4, RequestsCounted DEF IsPending, TplKinds
    <3>4. \A S \in {UsedVersions, UsedFlows, Pending, Holding} : Cardinality(S) \in Nat
      BY TplFinite
    <3>5. /\ tplClock + Cardinality(Pending) <= MaxTplVersions /\ MaxTplVersions \in Nat
          /\ Cardinality(UsedVersions) + Cardinality(Holding) <= tplClock
          /\ Cardinality(UsedFlows) <= tplClock
      BY <1>1 DEF TplCounted, TplAssumption
    <3>6. /\ n + Cardinality(Pending') <= MaxTplVersions
          /\ Cardinality(UsedVersions) + Cardinality(Holding') <= n
          /\ Cardinality(UsedFlows) + 1 <= n
      BY <2>3, <3>3, <3>4, <3>5 DEF n
    <3>7. QED
      BY <1>1, <1>3, <2>2, <3>1, <3>2, <3>6 DEF TplCounted
  <2>10. TplGrows /\ OnlyOf(u) /\ SpacesOnlyOf(u)
    BY <1>0, <2>5, <2>7 DEF TplGrows, OnlyOf, SpacesOnlyOf
  <2>11. /\ \A q \in TplRows : RowOK(q)'
         /\ \A v \in TplVersions : VersionOK(v)'
         /\ \A w \in TplSpaces : SpaceOK(w)'
         /\ NotStranded'
    BY <1>0 DEF TplInv, RowOK, VersionOK, SpaceOK, UsedRows, NotStranded
  <2>12. ASSUME NEW v \in TplVersions PROVE FlowOK(v)'
    <3>1. CASE v = f
      BY <1>1, <1>3, <2>3, <2>5, <3>1 DEF FlowOK
    <3>2. CASE v # f
      <4>1. FlowOK(v)
        BY DEF TplInv
      <4>2. 1..tplClock \subseteq 1..n
        BY <2>3 DEF n
      <4>3. QED
        BY <1>3, <2>5, <3>2, <4>1, <4>2 DEF FlowOK
    <3>3. QED
      BY <3>1, <3>2
  <2>13. TplRequestOK(h)'
    BY <1>1, <2>2, <2>3, <2>4, <2>6 DEF TplRequestOK
  <2>14. Halfway(h)'
    BY <2>4, <2>6 DEF Halfway
  <2>15. tplFaults = 0 /\ u \notin tplRaced => Story(h)'
    <3>1. SUFFICES ASSUME tplFaults = 0, u \notin tplRaced PROVE Story(h)'
      OBVIOUS
    <3>2. Story(h)
      BY <1>1, <3>1, StoryBefore
    <3>3. LiveTpl(u)' = {}
      BY <1>0, <3>2 DEF Story, LiveTpl
    <3>4. LiveFlow(u)' = {f}
      BY <1>3, <2>2, <2>5, <2>7 DEF LiveFlow
    <3>5. QED
      BY <2>4, <2>5, <2>6, <3>3, <3>4 DEF Story
  <2>16. QED
    BY <1>0, <1>1, <2>4, <2>8, <2>9, <2>10, <2>11, <2>12, <2>13, <2>14, <2>15, StepKeeps
<1>4. QED
  BY <1>2, <1>3 DEF MakeFlow
(* One row of a table is written.                                           *)
LEMMA TableUpdated ==
    ASSUME NEW S, NEW T, NEW t \in [S -> T], NEW x \in S, NEW y \in T, NEW s, s = [t EXCEPT ![x] = y]
    PROVE  s \in [S -> T] /\ s[x] = y /\ \A z \in S \ {x} : s[z] = t[z]
  OBVIOUS

(* The live workflow templates of a uid are archived.                       *)
LEMMA FlowRetired ==
    ASSUME TplAssumption, TplInv, NEW u \in TplUids, RetireFlow(u), tplClock' = tplClock
    PROVE  /\ tplFlow' \in [TplVersions -> FlowRecords]
           /\ UsedFlows' = UsedFlows /\ LiveFlow(u)' = {}
           /\ \A f \in TplVersions : FlowOK(f)'
           /\ \A f \in TplVersions : tplFlow'[f] # tplFlow[f] => tplFlow'[f].uid = u /\ tplFlow[f].uid = u
<1>0. /\ tplFlow \in [TplVersions -> FlowRecords] /\ u # NoUid
      /\ \A f \in TplVersions : FlowOK(f)
  BY DEF TplInv, TplKinds, TplAssumption
<1>1. ASSUME NEW f \in TplVersions
      PROVE  /\ tplFlow'[f] \in FlowRecords /\ tplFlow'[f].uid = tplFlow[f].uid
             /\ tplFlow'[f].numbers = tplFlow[f].numbers
             /\ tplFlow'[f].live <=> tplFlow[f].live /\ tplFlow[f].uid # u
             /\ tplFlow'[f] # tplFlow[f] => tplFlow[f].uid = u
  <2>1. tplFlow[f] \in FlowRecords
    BY <1>0
  <2>2. CASE f \in LiveFlow(u)
    <3>1. tplFlow'[f] = [tplFlow[f] EXCEPT !.live = FALSE]
      BY <2>2 DEF RetireFlow
    <3>2. ASSUME NEW q \in FlowRecords
          PROVE  LET p == [q EXCEPT !.live = FALSE] IN
                 p \in FlowRecords /\ p.uid = q.uid /\ p.numbers = q.numbers /\ ~p.live
      BY DEF FlowRecords
    <3>3. QED
      BY <2>1, <2>2, <3>1, <3>2 DEF LiveFlow
  <2>3. CASE f \notin LiveFlow(u)
    <3>1. tplFlow'[f] = tplFlow[f]
      BY <2>3 DEF RetireFlow
    <3>2. QED
      BY <2>1, <2>3, <3>1 DEF LiveFlow
  <2>4. QED
    BY <2>2, <2>3
<1>2. tplFlow' \in [TplVersions -> FlowRecords]
  <2>1. tplFlow' = [f \in TplVersions |-> tplFlow'[f]]
    BY DEF RetireFlow
  <2>2. QED
    BY <1>1, <2>1
<1>3. UsedFlows' = UsedFlows
  BY <1>1 DEF UsedFlows
<1>4. LiveFlow(u)' = {}
  BY <1>1 DEF LiveFlow
<1>5. \A f \in TplVersions : FlowOK(f)'
  BY <1>0, <1>1 DEF FlowOK
<1>6. QED
  BY <1>1, <1>2, <1>3, <1>4, <1>5

(* What a request that ends leaves behind in the counts.                    *)
LEMMA TplEnds ==
    ASSUME TplAssumption, TplInv, NEW h \in TplHandlers, tplReq[h].op # "idle", TplDone(h)
    PROVE  /\ TplReplaces(h, TplIdle) /\ TplRequestOK(h)' /\ tplReq' \in [TplHandlers -> TplRequests]
           /\ tplReq'[h] = TplIdle
           /\ tplClock + Cardinality(Pending') <= MaxTplVersions
           /\ Cardinality(UsedVersions) + Cardinality(Holding') <= tplClock
           /\ tplReq[h].number # 0 => Cardinality(UsedVersions) + 1 + Cardinality(Holding') <= tplClock
<1>0. TplKinds /\ TplCounted
  BY DEF TplInv
<1>1. TplReplaces(h, TplIdle)
  BY <1>0, TplIdleType, TplReplaced DEF TplDone, TplKinds
<1>2. /\ Cardinality(Pending') \in Nat /\ Cardinality(Pending') <= Cardinality(Pending)
      /\ Cardinality(Holding') \in Nat /\ Cardinality(Holding') <= Cardinality(Holding)
      /\ tplReq[h].number # 0 => Cardinality(Holding') = Cardinality(Holding) - 1
  BY <1>0, <1>1, RequestsCounted, TplIdleFields DEF TplKinds, IsPending
<1>3. \A S \in {UsedVersions, Pending, Holding} : Cardinality(S) \in Nat
  BY TplFinite
<1>4. /\ tplClock \in Nat /\ MaxTplVersions \in Nat /\ tplClock + Cardinality(Pending) <= MaxTplVersions
      /\ Cardinality(UsedVersions) + Cardinality(Holding) <= tplClock
  BY <1>0 DEF TplKinds, TplAssumption, TplCounted
<1>5. /\ tplClock + Cardinality(Pending') <= MaxTplVersions
      /\ Cardinality(UsedVersions) + Cardinality(Holding') <= tplClock
      /\ tplReq[h].number # 0 => Cardinality(UsedVersions) + 1 + Cardinality(Holding') <= tplClock
  BY <1>2, <1>3, <1>4
<1>6. TplRequestOK(h)'
  BY <1>1, TplIdleFields DEF TplRequestOK, TplReplaces
<1>7. QED
  BY <1>1, <1>5, <1>6 DEF TplReplaces

(* A request that ends with nothing changed but the workflow templates.     *)
LEMMA RetireKeeps ==
    ASSUME TplAssumption, TplInv, NEW h \in TplHandlers, NEW u \in TplUids, tplReq[h].uid = u,
           tplReq[h].op # "idle", TplDone(h), RetireFlow(u),
           UNCHANGED <<tplRow, tplVersion, tplClock, tplSpace, tplFaults, tplRaced>>,
           Story(h) => LiveTpl(u) = {}
    PROVE  TplInv'
<1>0. /\ TplKinds /\ TplCounted /\ TplRequestOK(h) /\ TplIdle.uid \in {u, NoUid} /\ TplIdle.uid # u
      /\ \A g \in TplHandlers \ {h} : tplReq[g].uid = u => u \in tplRaced
  BY TplServing, TplIdleFields DEF TplInv, TplAssumption
<1>1. /\ TplReplaces(h, TplIdle) /\ TplRequestOK(h)' /\ tplReq' \in [TplHandlers -> TplRequests]
      /\ tplClock + Cardinality(Pending') <= MaxTplVersions
      /\ Cardinality(UsedVersions) + Cardinality(Holding') <= tplClock
  BY TplEnds
<1>2. /\ tplFlow' \in [TplVersions -> FlowRecords] /\ UsedFlows' = UsedFlows /\ LiveFlow(u)' = {}
      /\ \A f \in TplVersions : FlowOK(f)'
      /\ \A f \in TplVersions : tplFlow'[f] # tplFlow[f] => tplFlow'[f].uid = u /\ tplFlow[f].uid = u
  BY FlowRetired
<1>3. TplKinds'
  BY <1>0, <1>1, <1>2 DEF TplKinds
<1>4. TplCounted'
  <2>1. UsedRows' = UsedRows /\ UsedVersions' = UsedVersions
    BY DEF UsedRows, UsedVersions
  <2>2. QED
    BY <1>0, <1>1, <1>2, <2>1 DEF TplCounted
<1>5. TplGrows /\ OnlyOf(u) /\ SpacesOnlyOf(u)
  BY <1>2 DEF TplGrows, OnlyOf, SpacesOnlyOf
<1>6. /\ \A q \in TplRows : RowOK(q)'
      /\ \A v \in TplVersions : VersionOK(v)'
      /\ \A w \in TplSpaces : SpaceOK(w)'
      /\ NotStranded'
  BY DEF TplInv, RowOK, VersionOK, SpaceOK, UsedRows, NotStranded
<1>7. tplFaults = 0 /\ u \notin tplRaced => Settled(u)'
  <2>1. SUFFICES ASSUME tplFaults = 0, u \notin tplRaced PROVE Settled(u)'
    OBVIOUS
  <2>2. LiveTpl(u)' = {}
    BY <2>1, StoryBefore DEF LiveTpl
  <2>3. QED
    BY <1>2, <2>2 DEF Settled
<1>8. QED
  BY <1>0, <1>1, <1>2, <1>3, <1>4, <1>5, <1>6, <1>7, StepKeeps

LEMMA ArchiveFlowKeeps ==
    ASSUME TplAssumption, TplInv, NEW h \in TplHandlers, ArchiveFlow(h)
    PROVE  TplInv'
<1>1. /\ tplReq[h].op = "archive" /\ tplReq[h].step = "flow" /\ TplDone(h) /\ RetireFlow(tplReq[h].uid)
      /\ UNCHANGED <<tplRow, tplVersion, tplClock, tplSpace, tplFaults, tplRaced>>
  BY DEF ArchiveFlow, TplAt
<1> PICK u \in TplUids : tplReq[h].uid = u
  BY <1>1, TplServing
<1>2. Story(h) => LiveTpl(u) = {}
  BY <1>1 DEF Story
<1>3. QED
  BY <1>1, <1>2, RetireKeeps

(* The template and its first version are inserted.                         *)
LEMMA TemplateInserted ==
    ASSUME TplAssumption, TplInv, NEW h \in TplHandlers, NEW u \in TplUids, tplReq[h].uid = u,
           TplAt(h, "create", "row"), LiveTpl(u) = {}, FreeRow <= MaxTplRows,
           tplRow' = [tplRow EXCEPT ![FreeRow] = [uid |-> u, live |-> TRUE, flow |-> tplReq[h].id]],
           tplVersion' = [tplVersion EXCEPT ![FreeVersion] =
                            [row |-> FreeRow, number |-> tplReq[h].number, latest |-> TRUE]],
           TplDone(h), UNCHANGED <<tplFlow, tplClock, tplSpace, tplFaults, tplRaced>>
    PROVE  TplInv'
<1>0. tplReq[h].op = "create" /\ tplReq[h].step = "row"
  BY DEF TplAt
<1>1. /\ TplKinds /\ TplCounted /\ TplRequestOK(h) /\ TplIdle.uid \in {u, NoUid} /\ TplIdle.uid # u
      /\ \A g \in TplHandlers \ {h} : tplReq[g].uid = u => u \in tplRaced
      /\ tplReq[h] \in TplRequests /\ u # NoUid
  BY <1>0, TplServing, TplIdleFields DEF TplInv, TplAssumption
<1>2. /\ tplReq[h].number # 0 /\ tplReq[h].number \in 0..MaxTplVersions /\ tplReq[h].id \in TplVersions
      /\ h \in Holding
  BY <1>0, <1>1, TplFields DEF TplRequestOK, Holding
<1>3. /\ TplReplaces(h, TplIdle) /\ TplRequestOK(h)' /\ tplReq' \in [TplHandlers -> TplRequests]
      /\ tplClock + Cardinality(Pending') <= MaxTplVersions
      /\ Cardinality(UsedVersions) + 1 + Cardinality(Holding') <= tplClock
  BY <1>0, <1>2, TplEnds
<1>ids. FreeRow \in TplRows /\ FreeVersion \in TplVersions
  BY <1>1, <1>2, FreshIds
<1> PICK q \in TplRows : q = FreeRow
  BY <1>ids
<1> PICK v \in TplVersions : v = FreeVersion
  BY <1>ids
<1>4. /\ q \notin UsedRows /\ v \notin UsedVersions
      /\ q = Cardinality(UsedRows) + 1 /\ v = Cardinality(UsedVersions) + 1
      /\ UsedRows \cup {q} = 1..q /\ Cardinality(UsedRows \cup {q}) = q
      /\ UsedVersions \cup {v} = 1..v /\ Cardinality(UsedVersions \cup {v}) = v
  BY <1>1, <1>2, FreshIds
<1>5. /\ tplRow'[q] = [uid |-> u, live |-> TRUE, flow |-> tplReq[h].id]
      /\ \A p \in TplRows \ {q} : tplRow'[p] = tplRow[p]
      /\ tplRow' \in [TplRows -> RowRecords]
  <2>1. [uid |-> u, live |-> TRUE, flow |-> tplReq[h].id] \in RowRecords
    BY <1>2 DEF RowRecords, TplVersions
  <2>2. tplRow' = [tplRow EXCEPT ![q] = [uid |-> u, live |-> TRUE, flow |-> tplReq[h].id]]
    OBVIOUS
  <2>3. QED
    BY <1>1, <2>1, <2>2, TableUpdated DEF TplKinds
<1>6. /\ tplVersion'[v] = [row |-> q, number |-> tplReq[h].number, latest |-> TRUE]
      /\ \A x \in TplVersions \ {v} : tplVersion'[x] = tplVersion[x]
      /\ tplVersion' \in [TplVersions -> VersionRecords]
  <2>1. [row |-> q, number |-> tplReq[h].number, latest |-> TRUE] \in VersionRecords
    <3>1. q \in 0..MaxTplRows
      BY DEF TplRows
    <3>2. QED
      BY <1>2, <3>1 DEF VersionRecords
  <2>2. tplVersion' = [tplVersion EXCEPT ![v] = [row |-> q, number |-> tplReq[h].number, latest |-> TRUE]]
    OBVIOUS
  <2>3. QED
    BY <1>1, <2>1, <2>2, TableUpdated DEF TplKinds
<1>7. tplRow[q].uid = NoUid /\ tplVersion[v].row = 0 /\ q # 0
  BY <1>4 DEF UsedRows, UsedVersions, TplRows
<1>8. TplKinds'
  BY <1>1, <1>3, <1>5, <1>6 DEF TplKinds
<1>9. UsedRows' = UsedRows \cup {q} /\ UsedVersions' = UsedVersions \cup {v}
  <2>1. /\ tplRow'[q].uid # NoUid /\ tplVersion'[v].row # 0
        /\ \A p \in TplRows \ {q} : tplRow'[p].uid = tplRow[p].uid
        /\ \A x \in TplVersions \ {v} : tplVersion'[x].row = tplVersion[x].row
    BY <1>1, <1>5, <1>6, <1>7
  <2>2. UsedRows' = UsedRows \cup {q}
    BY <2>1 DEF UsedRows
  <2>3. UsedVersions' = UsedVersions \cup {v}
    BY <2>1 DEF UsedVersions
  <2>4. QED
    BY <2>2, <2>3
<1>10. TplCounted'
  <2>1. UsedFlows' = UsedFlows
    BY DEF UsedFlows
  <2>2. Cardinality(UsedVersions') = Cardinality(UsedVersions) + 1 /\ UsedVersions' = 1..Cardinality(UsedVersions')
    BY <1>4, <1>9
  <2>3. UsedRows' = 1..Cardinality(UsedRows')
    BY <1>4, <1>9
  <2>4. Cardinality(UsedVersions') + Cardinality(Holding') <= tplClock
    BY <1>3, <2>2
  <2>5. QED
    BY <1>1, <1>3, <2>1, <2>2, <2>3, <2>4 DEF TplCounted
<1>11. TplGrows /\ OnlyOf(u) /\ SpacesOnlyOf(u)
  <2>1. TplGrows
    BY <1>4, <1>5, <1>6 DEF TplGrows, UsedRows, UsedVersions
  <2>2. \A p \in TplRows : tplRow'[p] # tplRow[p] => tplRow'[p].uid = u /\ tplRow[p].uid \in {u, NoUid}
    BY <1>5, <1>7
  <2>3. \A x \in TplVersions : tplVersion'[x] # tplVersion[x] =>
          /\ tplVersion'[x].row \in TplRows /\ tplRow'[tplVersion'[x].row].uid = u
          /\ tplVersion[x].row # 0 => tplRow[tplVersion[x].row].uid = u
    BY <1>4, <1>5, <1>6, <1>7
  <2>4. QED
    BY <2>1, <2>2, <2>3 DEF OnlyOf, SpacesOnlyOf
<1>12. ASSUME NEW p \in TplRows PROVE RowOK(p)'
  <2>1. RowOK(p)
    BY DEF TplInv
  <2>2. CASE p = q
    BY <1>5, <2>2 DEF RowOK, LiveTpl
  <2>3. CASE p # q
    BY <1>5, <2>1, <2>3 DEF RowOK, LiveTpl
  <2>4. QED
    BY <2>2, <2>3
<1>13. ASSUME NEW x \in TplVersions PROVE VersionOK(x)' /\ FlowOK(x)'
  <2>1. VersionOK(x) /\ FlowOK(x)
    BY DEF TplInv
  <2>2. VersionOK(x)'
    BY <1>6, <1>9, <2>1 DEF VersionOK
  <2>3. QED
    BY <2>1, <2>2 DEF FlowOK
<1>14. \A w \in TplSpaces : SpaceOK(w)'
  BY <1>9 DEF TplInv, SpaceOK
<1>15. NotStranded'
  <2>1. \A w \in TplSpaces : tplSpace[w].state = "Live" =>
          tplSpace[w].row \in TplRows \ {q} /\ (tplRow[tplSpace[w].row].live \/ tplRow[tplSpace[w].row].uid \in tplRaced)
    BY <1>4 DEF TplInv, SpaceOK, NotStranded, UsedRows
  <2>2. QED
    BY <1>5, <2>1 DEF NotStranded
<1>16. tplFaults = 0 /\ u \notin tplRaced => Settled(u)'
  <2>1. SUFFICES ASSUME tplFaults = 0, u \notin tplRaced PROVE Settled(u)'
    OBVIOUS
  <2>2. LiveFlow(u)' = {tplReq[h].id} /\ tplFlow'[tplReq[h].id].numbers = {tplReq[h].number}
    BY <1>0, <2>1, StoryBefore DEF Story, LiveFlow
  <2>3. LiveTpl(u)' = {q}
    BY <1>4, <1>5 DEF LiveTpl
  <2>4. VersionRows(q)' = {v}
    <3>1. \A x \in TplVersions : tplVersion[x].row # q
      BY <1>4, <1>7 DEF TplInv, VersionOK
    <3>2. QED
      BY <1>4, <1>6, <3>1 DEF VersionRows
  <2>5. LatestRows(q)' = {v}
    BY <1>6, <2>4 DEF LatestRows
  <2>6. Newest(tplVersion'[v].number, tplFlow'[tplRow'[q].flow].numbers)
    BY <1>2, <1>5, <1>6, <2>2 DEF Newest
  <2>7. QED
    BY <1>5, <2>2, <2>3, <2>4, <2>5, <2>6 DEF Settled
<1>17. QED
  BY <1>1, <1>3, <1>8, <1>10, <1>11, <1>12, <1>13, <1>14, <1>15, <1>16, StepKeeps

LEMMA InsertTemplateKeeps ==
    ASSUME TplAssumption, TplInv, NEW h \in TplHandlers, InsertTemplate(h)
    PROVE  TplInv'
<1>1. tplReq[h].op = "create" /\ TplAt(h, "create", "row")
  BY DEF InsertTemplate, TplAt
<1> PICK u \in TplUids : tplReq[h].uid = u
  BY <1>1, TplServing
<1>2. CASE RetireFlow(u) /\ UNCHANGED <<tplRow, tplVersion>>
  <2>1. Story(h) => LiveTpl(u) = {}
    BY <1>1 DEF Story
  <2>2. QED
    BY <1>1, <1>2, <2>1, RetireKeeps DEF InsertTemplate
<1>3. CASE /\ LiveTpl(u) = {} /\ FreeRow <= MaxTplRows
           /\ tplRow' = [tplRow EXCEPT ![FreeRow] = [uid |-> u, live |-> TRUE, flow |-> tplReq[h].id]]
           /\ tplVersion' = [tplVersion EXCEPT ![FreeVersion] =
                               [row |-> FreeRow, number |-> tplReq[h].number, latest |-> TRUE]]
           /\ UNCHANGED tplFlow
  BY <1>1, <1>3, TemplateInserted DEF InsertTemplate
<1>4. QED
  BY <1>2, <1>3 DEF InsertTemplate
(* An update first adds a version to the workflow template.                 *)
LEMMA AppendVersionKeeps ==
    ASSUME TplAssumption, TplInv, NEW h \in TplHandlers, AppendVersion(h)
    PROVE  TplInv'
<1>0. /\ tplReq[h].op = "update" /\ tplReq[h].step = "version"
      /\ UNCHANGED <<tplRow, tplVersion, tplSpace, tplFaults, tplRaced>>
  BY DEF AppendVersion, TplAt
<1> PICK u \in TplUids : tplReq[h].uid = u
  BY <1>0, TplServing
<1>1. /\ TplRequestOK(h) /\ tplReq[h] \in TplRequests /\ TplKinds /\ TplCounted
      /\ tplFaults \in 0..MaxTplFaults /\ ~Halfway(h) /\ u # NoUid
      /\ \A g \in TplHandlers \ {h} : tplReq[g].uid = u => u \in tplRaced
  BY <1>0, TplServing DEF TplInv, TplKinds, Halfway, TplAssumption
<1>2. CASE TplDone(h) /\ UNCHANGED <<tplFlow, tplClock>>
  BY <1>0, <1>1, <1>2, DoneKeeps
<1>3. ASSUME NEW q \in LiveTpl(u), NEW f \in LiveFlow(u),
             tplClock' = tplClock + 1,
             tplFlow' = [tplFlow EXCEPT ![f].numbers = @ \cup {tplClock + 1}],
             tplReq' = [tplReq EXCEPT ![h].step = "outdate", ![h].id = q, ![h].number = tplClock + 1]
      PROVE  TplInv'
  <2>1. tplReq[h].number = 0 /\ IsPending(tplReq[h]) /\ h \in Pending
    BY <1>0, <1>1 DEF TplRequestOK, IsPending, Pending
  <2>2. tplClock + 1 \in TplVersions
    BY <1>1, <2>1, FreshIds
  <2> PICK n \in TplVersions : n = tplClock + 1
    BY <2>2
  <2>3. /\ n \in Nat /\ n # 0 /\ n \in 0..MaxTplVersions /\ tplClock \in Nat
        /\ q \in TplRows /\ q \in Nat /\ tplRow[q].live /\ tplRow[q].uid = u
        /\ f \in TplVersions /\ tplFlow[f].live /\ tplFlow[f].uid = u
    BY <1>1 DEF TplVersions, TplRows, TplKinds, LiveTpl, LiveFlow
  <2>4. PICK r \in TplRequests :
          TplReplaces(h, r) /\ r.op = "update" /\ r.uid = u /\ r.step = "outdate" /\ r.id = q /\ r.number = n
    <3>1. TplMovedTo(h, "outdate", q, n, tplReq[h].seen)
      BY <1>1, <1>3, <2>3, TplMoveForms, TplFields DEF TplKinds, TplSteps
    <3>2. QED
      BY <1>0, <3>1 DEF TplMovedTo
  <2>5. /\ tplFlow' \in [TplVersions -> FlowRecords]
        /\ tplFlow'[f].uid = u /\ tplFlow'[f].live /\ tplFlow'[f].numbers = tplFlow[f].numbers \cup {n}
        /\ \A g \in TplVersions \ {f} : tplFlow'[g] = tplFlow[g]
    <3>1. ASSUME NEW p \in FlowRecords
          PROVE  LET y == [p EXCEPT !.numbers = p.numbers \cup {n}] IN
                 y \in FlowRecords /\ y.uid = p.uid /\ y.live = p.live /\ y.numbers = p.numbers \cup {n}
      BY DEF FlowRecords
    <3> DEFINE y == [tplFlow[f] EXCEPT !.numbers = tplFlow[f].numbers \cup {n}]
    <3>2. tplFlow[f] \in FlowRecords
      BY <1>1, <2>3 DEF TplKinds
    <3>3. y \in FlowRecords /\ y.uid = u /\ y.live /\ y.numbers = tplFlow[f].numbers \cup {n}
      BY <2>3, <3>1, <3>2
    <3>4. tplFlow' = [tplFlow EXCEPT ![f] = y]
      BY <1>3
    <3> HIDE DEF y
    <3>5. QED
      BY <1>1, <2>3, <3>3, <3>4, TableUpdated DEF TplKinds
  <2>6. tplReq'[h] = r /\ tplReq' \in [TplHandlers -> TplRequests]
    BY <2>4 DEF TplReplaces
  <2>7. TplKinds'
    BY <1>0, <1>1, <1>3, <2>3, <2>5, <2>6 DEF TplKinds
  <2>8. TplCounted'
    <3>1. UsedRows' = UsedRows /\ UsedVersions' = UsedVersions
      BY <1>0 DEF UsedRows, UsedVersions
    <3>2. UsedFlows' = UsedFlows
      BY <1>1, <2>3, <2>5 DEF UsedFlows
    <3>3. /\ Cardinality(Pending') \in Nat /\ Cardinality(Holding') \in Nat
          /\ Cardinality(Pending') = Cardinality(Pending) - 1 /\ Cardinality(Holding') <= Cardinality(Holding) + 1
      BY <1>1, <2>1, <2>3, <2>4, RequestsCounted DEF IsPending, TplKinds
    <3>4. \A S \in {UsedVersions, UsedFlows, Pending, Holding} : Cardinality(S) \in Nat
      BY TplFinite
    <3>5. /\ tplClock + Cardinality(Pending) <= MaxTplVersions /\ MaxTplVersions \in Nat
          /\ Cardinality(UsedVersions) + Cardinality(Holding) <= tplClock
          /\ Cardinality(UsedFlows) <= tplClock
      BY <1>1 DEF TplCounted, TplAssumption
    <3>6. /\ n + Cardinality(Pending') <= MaxTplVersions
          /\ Cardinality(UsedVersions) + Cardinality(Holding') <= n
          /\ Cardinality(UsedFlows) <= n
      BY <2>3, <3>3, <3>4, <3>5
    <3>7. QED
      BY <1>1, <1>3, <3>1, <3>2, <3>6 DEF TplCounted
  <2>9. TplGrows /\ OnlyOf(u) /\ SpacesOnlyOf(u)
    BY <1>0, <2>3, <2>5 DEF TplGrows, OnlyOf, SpacesOnlyOf
  <2>10. /\ \A p \in TplRows : RowOK(p)'
         /\ \A v \in TplVersions : VersionOK(v)'
         /\ \A w \in TplSpaces : SpaceOK(w)'
         /\ NotStranded'
    BY <1>0 DEF TplInv, RowOK, VersionOK, SpaceOK, UsedRows, NotStranded
  <2>11. ASSUME NEW v \in TplVersions PROVE FlowOK(v)'
    <3>1. FlowOK(v) /\ 1..tplClock \subseteq 1..n /\ n \in 1..n
      BY <2>3 DEF TplInv
    <3>2. CASE v = f
      BY <1>3, <2>3, <2>5, <3>1, <3>2 DEF FlowOK
    <3>3. CASE v # f
      BY <1>3, <2>5, <3>1, <3>3 DEF FlowOK
    <3>4. QED
      BY <3>2, <3>3
  <2>12. TplRequestOK(h)'
    BY <1>0, <1>1, <2>3, <2>4, <2>6 DEF TplRequestOK
  <2>13. Halfway(h)'
    BY <2>4, <2>6 DEF Halfway
  <2>14. tplFaults = 0 /\ u \notin tplRaced => Story(h)'
    <3>1. SUFFICES ASSUME tplFaults = 0, u \notin tplRaced PROVE Story(h)'
      OBVIOUS
    <3>2. Settled(u)
      BY <1>1, <3>1, StoryBefore
    <3>3. LiveTpl(u) = {q}
      BY <2>3 DEF TplInv, RowOK, LiveTpl
    <3>4. LiveFlow(u) = {tplRow[q].flow} /\ f = tplRow[q].flow
      BY <3>2 DEF Settled
    <3>5. LiveTpl(u)' = {q}
      BY <1>0, <3>3 DEF LiveTpl
    <3>6. LiveFlow(u)' = {f} /\ tplRow'[q].flow = f
      <4>1. \A g \in TplVersions : (tplFlow'[g].live <=> tplFlow[g].live) /\ tplFlow'[g].uid = tplFlow[g].uid
        BY <2>3, <2>5
      <4>2. LiveFlow(u)' = LiveFlow(u)
        BY <4>1 DEF LiveFlow
      <4>3. QED
        BY <1>0, <3>4, <4>2
    <3>7. Newest(n, tplFlow'[f].numbers)
      <4>1. tplFlow[f].numbers \subseteq 1..tplClock
        BY <2>3 DEF TplInv, FlowOK
      <4>2. QED
        BY <2>3, <2>5, <4>1 DEF Newest
    <3>8. QED
      BY <2>4, <2>6, <3>5, <3>6, <3>7 DEF Story
  <2>15. QED
    BY <1>0, <1>1, <2>4, <2>7, <2>8, <2>9, <2>10, <2>11, <2>12, <2>13, <2>14, StepKeeps
<1>4. QED
  BY <1>2, <1>3 DEF AppendVersion

(* Then its own version is inserted, and the others lose their mark.        *)
LEMMA CommitTplVersionKeeps ==
    ASSUME TplAssumption, TplInv, NEW h \in TplHandlers, CommitTplVersion(h)
    PROVE  TplInv'
<1>0. /\ tplReq[h].op = "update" /\ tplReq[h].step = "commit" /\ TplDone(h)
      /\ UNCHANGED <<tplRow, tplFlow, tplClock, tplSpace, tplFaults, tplRaced>>
  BY DEF CommitTplVersion, TplAt
<1> PICK u \in TplUids : tplReq[h].uid = u
  BY <1>0, TplServing
<1>1. /\ TplKinds /\ TplCounted /\ TplRequestOK(h) /\ TplIdle.uid \in {u, NoUid} /\ TplIdle.uid # u
      /\ \A g \in TplHandlers \ {h} : tplReq[g].uid = u => u \in tplRaced
      /\ tplReq[h] \in TplRequests /\ u # NoUid
  BY <1>0, TplServing, TplIdleFields DEF TplInv, TplAssumption
<1>2. /\ tplReq[h].number # 0 /\ tplReq[h].number \in 0..MaxTplVersions
      /\ tplReq[h].id \in TplRows /\ tplRow[tplReq[h].id].uid = u
      /\ tplReq[h].seen \subseteq VersionRows(tplReq[h].id)
      /\ h \in Holding
  BY <1>0, <1>1, TplFields DEF TplRequestOK, Holding
<1>3. /\ TplReplaces(h, TplIdle) /\ TplRequestOK(h)' /\ tplReq' \in [TplHandlers -> TplRequests]
      /\ tplClock + Cardinality(Pending') <= MaxTplVersions
      /\ Cardinality(UsedVersions) + 1 + Cardinality(Holding') <= tplClock
  BY <1>0, <1>2, TplEnds
<1>4. FreeVersion \in TplVersions
  BY <1>1, <1>2, FreshIds
<1> PICK v \in TplVersions : v = FreeVersion
  BY <1>4
<1> PICK q \in TplRows : q = tplReq[h].id
  BY <1>2
<1> PICK seen \in SUBSET VersionRows(q) : seen = tplReq[h].seen
  BY <1>2
<1>5. /\ v \notin UsedVersions /\ v = Cardinality(UsedVersions) + 1
      /\ UsedVersions \cup {v} = 1..v /\ Cardinality(UsedVersions \cup {v}) = v
  BY <1>1, <1>2, FreshIds
<1>6. tplVersion[v].row = 0 /\ q # 0 /\ v \notin seen /\ \A x \in seen : x \in TplVersions /\ tplVersion[x].row = q
  BY <1>5 DEF UsedVersions, TplRows, VersionRows
<1>7. /\ tplVersion'[v] = [row |-> q, number |-> tplReq[h].number, latest |-> TRUE]
      /\ \A x \in TplVersions \ (seen \cup {v}) : tplVersion'[x] = tplVersion[x]
      /\ \A x \in seen : tplVersion'[x].row = q /\ ~tplVersion'[x].latest
      /\ tplVersion' \in [TplVersions -> VersionRecords]
  <2>1. tplVersion' = [x \in TplVersions |->
                         IF x = v THEN [row |-> q, number |-> tplReq[h].number, latest |-> TRUE]
                         ELSE IF x \in seen THEN [tplVersion[x] EXCEPT !.latest = FALSE]
                         ELSE tplVersion[x]]
    BY DEF CommitTplVersion
  <2>2. [row |-> q, number |-> tplReq[h].number, latest |-> TRUE] \in VersionRecords
    <3>1. q \in 0..MaxTplRows
      BY DEF TplRows
    <3>2. QED
      BY <1>2, <3>1 DEF VersionRecords
  <2>3. ASSUME NEW p \in VersionRecords
        PROVE  LET y == [p EXCEPT !.latest = FALSE] IN y \in VersionRecords /\ y.row = p.row /\ ~y.latest
    BY DEF VersionRecords
  <2>4. ASSUME NEW x \in TplVersions PROVE tplVersion[x] \in VersionRecords
    BY <1>1 DEF TplKinds
  <2>5. tplVersion'[v] = [row |-> q, number |-> tplReq[h].number, latest |-> TRUE]
    BY <2>1
  <2>6. \A x \in TplVersions \ (seen \cup {v}) : tplVersion'[x] = tplVersion[x]
    BY <2>1
  <2>7. ASSUME NEW x \in seen
        PROVE  tplVersion'[x] \in VersionRecords /\ tplVersion'[x].row = q /\ ~tplVersion'[x].latest
    <3>1. tplVersion'[x] = [tplVersion[x] EXCEPT !.latest = FALSE]
      BY <1>6, <2>1
    <3>2. QED
      BY <1>6, <2>3, <2>4, <3>1
  <2>8. \A x \in TplVersions : tplVersion'[x] \in VersionRecords
    BY <2>2, <2>4, <2>5, <2>6, <2>7
  <2>9. tplVersion' = [x \in TplVersions |-> tplVersion'[x]]
    BY <2>1
  <2>10. tplVersion' \in [TplVersions -> VersionRecords]
    BY <2>8, <2>9
  <2>11. QED
    BY <2>5, <2>6, <2>7, <2>10
<1>8. TplKinds'
  BY <1>0, <1>1, <1>3, <1>7 DEF TplKinds
<1>9. \A x \in TplVersions \ {v} : tplVersion'[x].row = tplVersion[x].row
  BY <1>6, <1>7
<1>10. UsedVersions' = UsedVersions \cup {v} /\ UsedRows' = UsedRows /\ UsedFlows' = UsedFlows
  <2>1. UsedRows' = UsedRows /\ UsedFlows' = UsedFlows
    BY <1>0 DEF UsedRows, UsedFlows
  <2>2. tplVersion'[v].row # 0
    BY <1>6, <1>7
  <2>3. QED
    BY <1>9, <2>1, <2>2 DEF UsedVersions
<1>11. TplCounted'
  <2>1. Cardinality(UsedVersions') = Cardinality(UsedVersions) + 1 /\ UsedVersions' = 1..Cardinality(UsedVersions')
    BY <1>5, <1>10
  <2>2. Cardinality(UsedVersions') + Cardinality(Holding') <= tplClock
    BY <1>3, <2>1
  <2>3. QED
    BY <1>0, <1>1, <1>3, <1>10, <2>1, <2>2 DEF TplCounted
<1>12. TplGrows /\ OnlyOf(u) /\ SpacesOnlyOf(u)
  <2>1. TplGrows
    BY <1>0, <1>5, <1>9 DEF TplGrows, UsedVersions
  <2>2. ASSUME NEW x \in TplVersions, tplVersion'[x] # tplVersion[x]
        PROVE  /\ tplVersion'[x].row = q
               /\ tplVersion[x].row # 0 => tplVersion[x].row = q
    BY <1>6, <1>7, <2>2
  <2>3. tplRow[q].uid = u /\ tplRow'[q].uid = u
    BY <1>0, <1>2
  <2>4. QED
    BY <1>0, <2>1, <2>2, <2>3 DEF OnlyOf, SpacesOnlyOf
<1>13. /\ \A p \in TplRows : RowOK(p)'
       /\ \A x \in TplVersions : FlowOK(x)'
       /\ \A w \in TplSpaces : SpaceOK(w)'
       /\ NotStranded'
  BY <1>0 DEF TplInv, RowOK, FlowOK, SpaceOK, UsedRows, NotStranded
<1>14. ASSUME NEW x \in TplVersions PROVE VersionOK(x)'
  <2>1. q \in UsedRows
    BY <1>1, <1>2 DEF UsedRows
  <2>2. VersionOK(x)
    BY DEF TplInv
  <2>3. CASE x = v
    BY <1>7, <1>10, <2>1, <2>3 DEF VersionOK
  <2>4. CASE x # v
    BY <1>9, <1>10, <2>2, <2>4 DEF VersionOK
  <2>5. QED
    BY <2>3, <2>4
<1>15. tplFaults = 0 /\ u \notin tplRaced => Settled(u)'
  <2>1. SUFFICES ASSUME tplFaults = 0, u \notin tplRaced PROVE Settled(u)'
    OBVIOUS
  <2>2. /\ LiveTpl(u) = {q} /\ LiveFlow(u) = {tplRow[q].flow}
        /\ Newest(tplReq[h].number, tplFlow[tplRow[q].flow].numbers) /\ seen = LatestRows(q)
    BY <1>0, <2>1, StoryBefore DEF Story
  <2>3. /\ LiveTpl(u)' = {q} /\ LiveFlow(u)' = {tplRow'[q].flow}
        /\ tplFlow'[tplRow'[q].flow] = tplFlow[tplRow[q].flow]
    BY <1>0, <2>2 DEF LiveTpl, LiveFlow
  <2>4. v \in VersionRows(q)'
    BY <1>7 DEF VersionRows
  <2>5. LatestRows(q)' = {v}
    <3>1. ASSUME NEW x \in TplVersions, x # v, tplVersion'[x].row = q  PROVE ~tplVersion'[x].latest
      <4>1. CASE x \in seen
        BY <1>7, <4>1
      <4>2. CASE x \notin seen
        BY <1>7, <2>2, <3>1, <4>2 DEF LatestRows, VersionRows
      <4>3. QED
        BY <4>1, <4>2
    <3>2. v \in LatestRows(q)'
      BY <1>7, <2>4 DEF LatestRows
    <3>3. \A x \in LatestRows(q)' : x = v
      BY <3>1 DEF LatestRows, VersionRows
    <3>4. QED
      BY <3>2, <3>3
  <2>6. Newest(tplVersion'[v].number, tplFlow'[tplRow'[q].flow].numbers)
    <3>1. tplVersion'[v].number = tplReq[h].number
      BY <1>7
    <3>2. QED
      BY <2>2, <2>3, <3>1
  <2>7. QED
    BY <2>3, <2>4, <2>5, <2>6 DEF Settled
<1>16. QED
  BY <1>0, <1>1, <1>3, <1>8, <1>11, <1>12, <1>13, <1>14, <1>15, StepKeeps
----------------------------------------------------------------------------
(* Workspaces and the archiving of their templates.                         *)

(* Counts when a request that takes no number moves on or ends.             *)
LEMMA TplCountsStay ==
    ASSUME TplAssumption, TplInv, NEW h \in TplHandlers, NEW r, TplReplaces(h, r),
           r.number = 0, r.op \notin {"create", "update"},
           UsedRows' = UsedRows, UsedVersions' = UsedVersions, UsedFlows' = UsedFlows, tplClock' = tplClock
    PROVE  TplCounted'
<1>0. TplKinds /\ TplCounted
  BY DEF TplInv
<1>1. /\ Cardinality(Pending') \in Nat /\ Cardinality(Pending') <= Cardinality(Pending)
      /\ Cardinality(Holding') \in Nat /\ Cardinality(Holding') <= Cardinality(Holding)
  BY <1>0, RequestsCounted DEF TplKinds, IsPending
<1>2. \A S \in {UsedVersions, Pending, Holding} : Cardinality(S) \in Nat
  BY TplFinite
<1>3. /\ tplClock \in Nat /\ MaxTplVersions \in Nat /\ tplClock + Cardinality(Pending) <= MaxTplVersions
      /\ Cardinality(UsedVersions) + Cardinality(Holding) <= tplClock
  BY <1>0 DEF TplKinds, TplAssumption, TplCounted
<1>4. /\ tplClock + Cardinality(Pending') <= MaxTplVersions
      /\ Cardinality(UsedVersions) + Cardinality(Holding') <= tplClock
  BY <1>1, <1>2, <1>3
<1>5. QED
  BY <1>0, <1>4 DEF TplCounted

(* A step that changes its request and workspaces, and no table.            *)
LEMMA SpaceStep ==
    ASSUME TplAssumption, TplInv, NEW h \in TplHandlers, NEW u \in TplUids, tplReq[h].uid = u,
           tplReq[h].op \in {"workspace", "archive"}, ~Halfway(h),
           NEW r, TplReplaces(h, r), r.uid \in {u, NoUid}, r.number = 0, r.op \notin {"create", "update"},
           tplSpace' \in [TplSpaces -> SpaceRecords], SpacesOnlyOf(u),
           \A w \in TplSpaces : SpaceOK(w)', NotStranded',
           TplRequestOK(h)', ~Halfway(h)',
           UNCHANGED <<tplRow, tplVersion, tplFlow, tplClock, tplFaults, tplRaced>>
    PROVE  TplInv'
<1>0. /\ TplKinds /\ \A g \in TplHandlers \ {h} : tplReq[g].uid = u => u \in tplRaced
  BY TplServing DEF TplInv
<1>1. tplReq'[h] = r /\ tplReq' \in [TplHandlers -> TplRequests]
  BY DEF TplReplaces
<1>2. TplKinds'
  BY <1>0, <1>1 DEF TplKinds
<1>3. TplCounted'
  <2>1. UsedRows' = UsedRows /\ UsedVersions' = UsedVersions /\ UsedFlows' = UsedFlows
    BY DEF UsedRows, UsedVersions, UsedFlows
  <2>2. QED
    BY <2>1, TplCountsStay
<1>4. TplGrows /\ OnlyOf(u)
  BY DEF TplGrows, OnlyOf
<1>5. /\ \A q \in TplRows : RowOK(q)'
      /\ \A v \in TplVersions : VersionOK(v)' /\ FlowOK(v)'
  BY DEF TplInv, RowOK, VersionOK, FlowOK, UsedRows
<1>6. tplFaults = 0 /\ u \notin tplRaced => Settled(u)'
  <2>1. Settled(u)' <=> Settled(u)
    BY DEF Settled, LiveTpl, LiveFlow, VersionRows, LatestRows
  <2>2. QED
    BY <2>1, StoryBefore
<1>7. Story(h)'
  <2>1. tplReq'[h].op \notin {"create", "update"} /\ ~(tplReq'[h].op = "archive" /\ tplReq'[h].step = "flow")
    BY <1>1 DEF Halfway
  <2>2. QED
    BY <2>1 DEF Story
<1>8. QED
  BY <1>0, <1>2, <1>3, <1>4, <1>5, <1>6, <1>7, StepKeeps

LEMMA InsertWorkspaceKeeps ==
    ASSUME TplAssumption, TplInv, NEW h \in TplHandlers, InsertWorkspace(h)
    PROVE  TplInv'
<1>0. /\ tplReq[h].op = "workspace" /\ tplReq[h].step = "insert" /\ TplDone(h)
      /\ UNCHANGED <<tplRow, tplVersion, tplFlow, tplClock, tplFaults, tplRaced>>
  BY DEF InsertWorkspace, TplAt
<1> PICK u \in TplUids : tplReq[h].uid = u
  BY <1>0, TplServing
<1>1. /\ TplKinds /\ TplRequestOK(h) /\ u # NoUid /\ ~Halfway(h)
      /\ TplIdle.uid = NoUid /\ TplIdle.number = 0 /\ TplIdle.op = "idle"
  BY <1>0, TplServing, TplIdleFields DEF TplInv, TplAssumption, Halfway
<1>2. /\ tplReq[h].space \in TplSpaces /\ tplReq[h].id \in TplRows /\ tplRow[tplReq[h].id].uid = u
      /\ tplRow[tplReq[h].id].live \/ u \in tplRaced
  BY <1>0, <1>1 DEF TplRequestOK
<1> PICK w \in TplSpaces : w = tplReq[h].space
  BY <1>2
<1> PICK q \in TplRows : q = tplReq[h].id
  BY <1>2
<1>3. TplReplaces(h, TplIdle) /\ TplRequestOK(h)' /\ tplReq'[h] = TplIdle
  BY <1>0, TplEnds
<1>4. /\ tplSpace' \in [TplSpaces -> SpaceRecords]
      /\ tplSpace'[w] = [row |-> q, state |-> "Live"]
      /\ \A x \in TplSpaces \ {w} : tplSpace'[x] = tplSpace[x]
  <2>1. [row |-> q, state |-> "Live"] \in SpaceRecords
    BY DEF SpaceRecords, TplRows
  <2>2. tplSpace' = [tplSpace EXCEPT ![w] = [row |-> q, state |-> "Live"]]
    BY DEF InsertWorkspace
  <2>3. QED
    BY <1>1, <2>1, <2>2, TableUpdated DEF TplKinds
<1>5. q \in UsedRows /\ UsedRows' = UsedRows
  BY <1>0, <1>1, <1>2 DEF UsedRows
<1>6. SpacesOnlyOf(u)
  BY <1>2, <1>4, <1>5 DEF SpacesOnlyOf
<1>7. \A x \in TplSpaces : SpaceOK(x)'
  BY <1>4, <1>5 DEF TplInv, SpaceOK
<1>8. NotStranded'
  BY <1>0, <1>2, <1>4 DEF TplInv, NotStranded
<1>9. ~Halfway(h)'
  BY <1>1, <1>3 DEF Halfway
<1>10. QED
  BY <1>0, <1>1, <1>3, <1>4, <1>6, <1>7, <1>8, <1>9, SpaceStep

LEMMA ArchiveSpaceKeeps ==
    ASSUME TplAssumption, TplInv, NEW h \in TplHandlers, NEW w \in TplSpaces, ArchiveSpace(h, w)
    PROVE  TplInv'
<1>0. /\ tplReq[h].op = "archive" /\ tplReq[h].step = "spaces"
      /\ UNCHANGED <<tplRow, tplVersion, tplFlow, tplClock, tplFaults, tplRaced>>
  BY DEF ArchiveSpace, TplAt
<1> PICK u \in TplUids : tplReq[h].uid = u
  BY <1>0, TplServing
<1>1. /\ TplKinds /\ TplRequestOK(h) /\ u # NoUid /\ ~Halfway(h) /\ tplReq[h] \in TplRequests
  BY <1>0, TplServing DEF TplInv, TplAssumption, Halfway
<1>2. tplReq[h].number = 0 /\ (SpacesOf(u) = {} \/ u \in tplRaced)
  BY <1>0, <1>1 DEF TplRequestOK
<1>3. PICK r \in TplRequests :
        /\ TplReplaces(h, r) /\ r.op = "archive" /\ r.uid = u /\ r.step = "spaces" /\ r.number = 0
  <2> DEFINE left == tplReq[h].seen \ {w}
  <2>1. left \in SUBSET (TplVersions \cup TplSpaces)
    BY <1>1, TplFields
  <2>2. tplReq' = [tplReq EXCEPT ![h].seen = left]
    BY DEF ArchiveSpace
  <2> HIDE DEF left
  <2>3. "spaces" \in TplSteps /\ 0 \in Nat /\ 0 \in 0..MaxTplVersions
    BY DEF TplSteps, TplAssumption
  <2>4. TplMovedTo(h, tplReq[h].step, tplReq[h].id, tplReq[h].number, left)
    BY <1>1, <2>1, <2>2, <2>3, TplMoveForms DEF TplKinds
  <2>5. QED
    BY <1>0, <1>2, <2>4 DEF TplMovedTo
<1>4. /\ tplSpace' \in [TplSpaces -> SpaceRecords]
      /\ \A x \in TplSpaces : tplSpace'[x] # tplSpace[x] =>
           /\ tplSpace[x].state = "Live" /\ tplSpace'[x].state = "Terminating"
           /\ tplSpace'[x].row = tplSpace[x].row
  <2>1. CASE tplSpace[w].state = "Live"
    <3> DEFINE y == [tplSpace[w] EXCEPT !.state = "Terminating"]
    <3>1. tplSpace' = [tplSpace EXCEPT ![w] = y]
      BY <2>1 DEF ArchiveSpace
    <3>2. ASSUME NEW p \in SpaceRecords
          PROVE  LET z == [p EXCEPT !.state = "Terminating"] IN
                 z \in SpaceRecords /\ z.row = p.row /\ z.state = "Terminating"
      BY DEF SpaceRecords
    <3>3. y \in SpaceRecords /\ y.row = tplSpace[w].row /\ y.state = "Terminating"
      BY <1>1, <3>2 DEF TplKinds
    <3> HIDE DEF y
    <3>4. QED
      BY <1>1, <2>1, <3>1, <3>3, TableUpdated DEF TplKinds
  <2>2. CASE tplSpace[w].state # "Live"
    BY <1>1, <2>2 DEF ArchiveSpace, TplKinds
  <2>3. QED
    BY <2>1, <2>2
<1>5. SpacesOnlyOf(u)
  BY <1>4 DEF SpacesOnlyOf
<1>6. UsedRows' = UsedRows
  BY <1>0 DEF UsedRows
<1>7. \A x \in TplSpaces : SpaceOK(x)'
  BY <1>4, <1>6 DEF TplInv, SpaceOK
<1>8. NotStranded'
  BY <1>0, <1>4 DEF TplInv, NotStranded
<1>9. tplReq'[h] = r
  BY <1>3 DEF TplReplaces
<1>10. TplRequestOK(h)'
  <2>1. SpacesOf(u) = {} => SpacesOf(u)' = {}
    BY <1>0, <1>4 DEF SpacesOf
  <2>2. SpacesOf(u)' = {} \/ u \in tplRaced'
    BY <1>0, <1>2, <2>1
  <2>3. QED
    BY <1>3, <1>9, <2>2 DEF TplRequestOK
<1>11. ~Halfway(h)'
  BY <1>3, <1>9 DEF Halfway
<1>12. QED
  BY <1>0, <1>1, <1>3, <1>4, <1>5, <1>7, <1>8, <1>10, <1>11, SpaceStep

(* The rows of the uid are archived; no live workspace was made from them.  *)
LEMMA ArchiveRowKeeps ==
    ASSUME TplAssumption, TplInv, NEW h \in TplHandlers, ArchiveRow(h)
    PROVE  TplInv'
<1>0. /\ tplReq[h].op = "archive" /\ tplReq[h].step = "spaces"
      /\ UNCHANGED <<tplVersion, tplFlow, tplClock, tplSpace, tplFaults, tplRaced>>
  BY DEF ArchiveRow, TplAt
<1> PICK u \in TplUids : tplReq[h].uid = u
  BY <1>0, TplServing
<1>1. /\ TplKinds /\ TplRequestOK(h) /\ u # NoUid /\ tplReq[h] \in TplRequests
      /\ \A g \in TplHandlers \ {h} : tplReq[g].uid = u => u \in tplRaced
  BY <1>0, TplServing DEF TplInv, TplAssumption
<1>2. tplReq[h].number = 0 /\ (SpacesOf(u) = {} \/ u \in tplRaced)
  BY <1>0, <1>1 DEF TplRequestOK
<1>3. PICK r \in TplRequests :
        /\ TplReplaces(h, r) /\ r.op = "archive" /\ r.uid = u /\ r.step = "flow" /\ r.number = 0
  <2>1. tplReq' = [tplReq EXCEPT ![h].step = "flow"]
    BY DEF ArchiveRow, TplMove
  <2>2. TplMovedTo(h, "flow", tplReq[h].id, tplReq[h].number, tplReq[h].seen)
    BY <1>1, <2>1, TplMoveForms, TplFields DEF TplKinds, TplSteps
  <2>3. QED
    BY <1>0, <1>2, <2>2 DEF TplMovedTo
<1>4. ASSUME NEW q \in TplRows
      PROVE  /\ tplRow'[q] \in RowRecords /\ tplRow'[q].uid = tplRow[q].uid
             /\ tplRow'[q].live <=> tplRow[q].live /\ tplRow[q].uid # u
             /\ tplRow'[q] # tplRow[q] => tplRow[q].uid = u
  <2>1. tplRow[q] \in RowRecords
    BY <1>1 DEF TplKinds
  <2>2. CASE q \in LiveTpl(u)
    <3>1. tplRow'[q] = [tplRow[q] EXCEPT !.live = FALSE]
      BY <2>2 DEF ArchiveRow
    <3>2. ASSUME NEW p \in RowRecords
          PROVE  LET y == [p EXCEPT !.live = FALSE] IN y \in RowRecords /\ y.uid = p.uid /\ ~y.live
      BY DEF RowRecords
    <3>3. QED
      BY <2>1, <2>2, <3>1, <3>2 DEF LiveTpl
  <2>3. CASE q \notin LiveTpl(u)
    <3>1. tplRow'[q] = tplRow[q]
      BY <2>3 DEF ArchiveRow
    <3>2. QED
      BY <2>1, <2>3, <3>1 DEF LiveTpl
  <2>4. QED
    BY <2>2, <2>3
<1>5. tplRow' \in [TplRows -> RowRecords]
  <2>1. tplRow' = [q \in TplRows |-> tplRow'[q]]
    BY DEF ArchiveRow
  <2>2. QED
    BY <1>4, <2>1
<1>6. tplReq'[h] = r /\ tplReq' \in [TplHandlers -> TplRequests]
  BY <1>3 DEF TplReplaces
<1>7. TplKinds'
  BY <1>0, <1>1, <1>5, <1>6 DEF TplKinds
<1>8. UsedRows' = UsedRows /\ UsedVersions' = UsedVersions /\ UsedFlows' = UsedFlows
  BY <1>0, <1>4 DEF UsedRows, UsedVersions, UsedFlows
<1>9. TplCounted'
  BY <1>0, <1>3, <1>8, TplCountsStay
<1>10. TplGrows /\ OnlyOf(u) /\ SpacesOnlyOf(u)
  BY <1>0, <1>4 DEF TplGrows, OnlyOf, SpacesOnlyOf, UsedRows
<1>11. /\ \A q \in TplRows : RowOK(q)'
       /\ \A v \in TplVersions : VersionOK(v)' /\ FlowOK(v)'
       /\ \A w \in TplSpaces : SpaceOK(w)'
  <2>1. \A v \in TplVersions : VersionOK(v)' /\ FlowOK(v)'
    BY <1>0, <1>8 DEF TplInv, VersionOK, FlowOK
  <2>2. \A w \in TplSpaces : SpaceOK(w)'
    BY <1>0, <1>8 DEF TplInv, SpaceOK
  <2>3. \A q \in TplRows : RowOK(q)'
    BY <1>4 DEF TplInv, RowOK
  <2>4. QED
    BY <2>1, <2>2, <2>3
<1>12. NotStranded'
  <2>1. ASSUME NEW w \in TplSpaces, tplSpace[w].state = "Live"
        PROVE  tplRow'[tplSpace[w].row].live \/ tplRow'[tplSpace[w].row].uid \in tplRaced
    <3>1. tplSpace[w].row \in TplRows
      BY <2>1 DEF TplInv, SpaceOK, UsedRows
    <3>2. tplRow[tplSpace[w].row].live \/ tplRow[tplSpace[w].row].uid \in tplRaced
      BY <2>1 DEF TplInv, NotStranded
    <3>3. tplRow[tplSpace[w].row].uid = u => u \in tplRaced
      BY <1>2, <2>1 DEF SpacesOf
    <3>4. QED
      BY <1>4, <3>1, <3>2, <3>3
  <2>2. QED
    BY <1>0, <2>1 DEF NotStranded
<1>13. SpacesOf(u)' = {} \/ u \in tplRaced'
  <2>1. \A w \in TplSpaces : tplSpace[w].state \in {"Live", "Terminating"} => tplSpace[w].row \in TplRows
    BY DEF TplInv, SpaceOK, UsedRows
  <2>2. SpacesOf(u)' = SpacesOf(u)
    BY <1>0, <1>4, <2>1 DEF SpacesOf
  <2>3. QED
    BY <1>0, <1>2, <2>2
<1>14. TplRequestOK(h)'
  BY <1>3, <1>6, <1>13 DEF TplRequestOK
<1>15. Story(h)' /\ Halfway(h)'
  <2>1. LiveTpl(u)' = {}
    BY <1>4 DEF LiveTpl
  <2>2. QED
    BY <1>3, <1>6, <2>1 DEF Story, Halfway
<1>16. QED
  BY <1>0, <1>1, <1>3, <1>7, <1>9, <1>10, <1>11, <1>12, <1>14, <1>15, StepKeeps

(* A workspace ends; no request has a part in it.                           *)
LEMMA EndWorkspaceKeeps ==
    ASSUME TplAssumption, TplInv, NEW w \in TplSpaces, EndWorkspace(w)
    PROVE  TplInv'
<1>0. /\ TplKinds /\ UNCHANGED <<tplRow, tplVersion, tplFlow, tplClock, tplReq, tplFaults, tplRaced>>
  BY DEF TplInv, EndWorkspace
<1>1. /\ tplSpace' \in [TplSpaces -> SpaceRecords]
      /\ \A x \in TplSpaces : tplSpace'[x] # tplSpace[x] =>
           /\ tplSpace[x].state \in {"Live", "Terminating"} /\ tplSpace'[x].state # "Live"
           /\ tplSpace'[x].row = tplSpace[x].row
  <2>1. PICK s \in {"Terminating", "Terminated"} :
          tplSpace[w].state \in {"Live", "Terminating"} /\ tplSpace' = [tplSpace EXCEPT ![w].state = s]
    BY DEF EndWorkspace
  <2> DEFINE y == [tplSpace[w] EXCEPT !.state = s]
  <2>2. tplSpace' = [tplSpace EXCEPT ![w] = y]
    BY <2>1
  <2>3. ASSUME NEW p \in SpaceRecords
        PROVE  LET z == [p EXCEPT !.state = s] IN z \in SpaceRecords /\ z.row = p.row /\ z.state = s
    BY DEF SpaceRecords
  <2>4. y \in SpaceRecords /\ y.row = tplSpace[w].row /\ y.state = s
    BY <1>0, <2>3 DEF TplKinds
  <2> HIDE DEF y
  <2>5. tplSpace' \in [TplSpaces -> SpaceRecords] /\ tplSpace'[w] = y
        /\ \A x \in TplSpaces \ {w} : tplSpace'[x] = tplSpace[x]
    BY <1>0, <2>2, <2>4, TableUpdated DEF TplKinds
  <2>6. y.state # "Live"
    BY <2>4
  <2>7. QED
    BY <2>1, <2>4, <2>5, <2>6
<1>2. TplKinds'
  BY <1>0, <1>1 DEF TplKinds
<1>3. TplCounted'
  BY <1>0 DEF TplInv, TplCounted, UsedRows, UsedVersions, UsedFlows, Pending, Holding
<1>4. /\ \A q \in TplRows : RowOK(q)'
      /\ \A v \in TplVersions : VersionOK(v)' /\ FlowOK(v)'
  BY <1>0 DEF TplInv, RowOK, VersionOK, FlowOK, UsedRows
<1>5. \A x \in TplSpaces : SpaceOK(x)'
  BY <1>0, <1>1 DEF TplInv, SpaceOK, UsedRows
<1>6. NotStranded'
  BY <1>0, <1>1 DEF TplInv, NotStranded
<1>7. ASSUME NEW h \in TplHandlers
      PROVE  TplRequestOK(h)' /\ \A g \in TplHandlers \ {h} : TplApart(g, h)'
  <2>1. TplRequestOK(h) /\ \A g \in TplHandlers \ {h} : TplApart(g, h)
    BY DEF TplInv
  <2>2. SpacesOf(tplReq[h].uid) = {} => SpacesOf(tplReq[h].uid)' = {}
    BY <1>0, <1>1 DEF SpacesOf
  <2>3. QED
    BY <1>0, <2>1, <2>2 DEF TplRequestOK, TplApart, VersionRows
<1>8. ASSUME NEW u \in TplUids PROVE StoryOK(u)'
  <2>1. StoryOK(u)
    BY DEF TplInv
  <2>2. Settled(u)' <=> Settled(u)
    BY <1>0 DEF Settled, LiveTpl, LiveFlow, VersionRows, LatestRows
  <2>3. \A h \in TplHandlers : (Story(h)' <=> Story(h)) /\ (Halfway(h)' <=> Halfway(h))
    BY <1>0 DEF Story, Halfway, LiveTpl, LiveFlow, VersionRows, LatestRows
  <2>4. QED
    BY <1>0, <2>1, <2>2, <2>3 DEF StoryOK
<1>9. QED
  BY <1>2, <1>3, <1>4, <1>5, <1>6, <1>7, <1>8 DEF TplInv
----------------------------------------------------------------------------
(* The theorems.                                                            *)

LEMMA TplInvInit == TplAssumption /\ TplInit => TplInv
<1> SUFFICES ASSUME TplAssumption, TplInit PROVE TplInv
  OBVIOUS
<1>0. /\ \A h \in TplHandlers : tplReq[h] = TplIdle
      /\ \A r \in TplRows : tplRow[r] = [uid |-> NoUid, live |-> FALSE, flow |-> 0]
      /\ \A v \in TplVersions : tplVersion[v] = [row |-> 0, number |-> 0, latest |-> FALSE]
      /\ \A f \in TplVersions : tplFlow[f] = [uid |-> NoUid, live |-> FALSE, numbers |-> {}]
      /\ \A w \in TplSpaces : tplSpace[w] = [row |-> 0, state |-> "None"]
      /\ tplClock = 0 /\ tplFaults = 0 /\ tplRaced = {}
  BY DEF TplInit
<1>1. TplKinds
  <2>1. 0 \in 0..MaxTplVersions /\ 0 \in 0..MaxTplRows /\ 0 \in 0..MaxTplFaults
    BY DEF TplAssumption
  <2>2. tplRow \in [TplRows -> RowRecords]
    BY <2>1 DEF TplInit, RowRecords
  <2>3. tplVersion \in [TplVersions -> VersionRecords]
    BY <2>1 DEF TplInit, VersionRecords
  <2>4. tplFlow \in [TplVersions -> FlowRecords]
    BY <2>1 DEF TplInit, FlowRecords
  <2>5. tplSpace \in [TplSpaces -> SpaceRecords]
    BY <2>1 DEF TplInit, SpaceRecords
  <2>6. tplReq \in [TplHandlers -> TplRequests]
    BY TplIdleType DEF TplInit
  <2>7. QED
    BY <1>0, <2>1, <2>2, <2>3, <2>4, <2>5, <2>6 DEF TplKinds
<1>2. TplCounted
  <2>1. UsedRows = {} /\ UsedVersions = {} /\ UsedFlows = {} /\ Pending = {} /\ Holding = {}
    BY <1>0, TplIdleFields DEF UsedRows, UsedVersions, UsedFlows, Pending, Holding
  <2>2. Cardinality({}) = 0 /\ {} = 1..0 /\ MaxTplVersions \in Nat
    BY FS_EmptySet DEF TplAssumption
  <2>3. QED
    BY <1>0, <2>1, <2>2 DEF TplCounted
<1>3. (\A r \in TplRows : RowOK(r)) /\ \A v \in TplVersions : VersionOK(v) /\ FlowOK(v)
  BY <1>0 DEF RowOK, VersionOK, FlowOK
<1>4. (\A w \in TplSpaces : SpaceOK(w)) /\ NotStranded
  BY <1>0 DEF SpaceOK, NotStranded
<1>5. \A h \in TplHandlers : TplRequestOK(h) /\ \A g \in TplHandlers \ {h} : TplApart(g, h)
  BY <1>0, TplIdleFields DEF TplRequestOK, TplApart
<1>6. \A u \in TplUids : StoryOK(u)
  <2>1. \A u \in TplUids : LiveTpl(u) = {} /\ LiveFlow(u) = {}
    BY <1>0 DEF LiveTpl, LiveFlow
  <2>2. \A u \in TplUids : Settled(u)
    BY <2>1 DEF Settled
  <2>3. \A h \in TplHandlers : tplReq[h].uid = NoUid
    BY <1>0, TplIdleFields
  <2>4. QED
    BY <2>2, <2>3 DEF StoryOK, TplAssumption
<1>7. QED
  BY <1>1, <1>2, <1>3, <1>4, <1>5, <1>6 DEF TplInv

LEMMA TplStepKeeps ==
    ASSUME TplAssumption, TplInv, TplNext
    PROVE  TplInv'
<1>1. ASSUME NEW h \in TplHandlers, NEW u \in TplUids,
             \/ CheckName(h, u) \/ ReadTemplate(h, u) \/ ArchiveRequest(h, u)
             \/ \E w \in TplSpaces : AskWorkspace(h, w, u)
      PROVE  TplInv'
  BY <1>1, RequestStarts
<1>2. ASSUME NEW h \in TplHandlers, MakeFlow(h) \/ InsertTemplate(h)  PROVE TplInv'
  BY <1>2, MakeFlowKeeps, InsertTemplateKeeps
<1>3. ASSUME NEW h \in TplHandlers, AppendVersion(h) \/ OutdateLatest(h) \/ CommitTplVersion(h)  PROVE TplInv'
  BY <1>3, AppendVersionKeeps, OutdateLatestKeeps, CommitTplVersionKeeps
<1>4. ASSUME NEW h \in TplHandlers, ReadForWorkspace(h) \/ InsertWorkspace(h)  PROVE TplInv'
  BY <1>4, ReadForWorkspaceKeeps, InsertWorkspaceKeeps
<1>5. ASSUME NEW h \in TplHandlers, FindTemplate(h) \/ ListSpaces(h) \/ ArchiveRow(h) \/ ArchiveFlow(h)
      PROVE  TplInv'
  BY <1>5, ArchiveReadsKeep, ArchiveRowKeeps, ArchiveFlowKeeps
<1>6. ASSUME NEW h \in TplHandlers, NEW w \in TplSpaces, ArchiveSpace(h, w)  PROVE TplInv'
  BY <1>6, ArchiveSpaceKeeps
<1>7. ASSUME NEW h \in TplHandlers, TplBreakOff(h)  PROVE TplInv'
  BY <1>7, TplBreakOffKeeps
<1>8. ASSUME NEW w \in TplSpaces, EndWorkspace(w)  PROVE TplInv'
  BY <1>8, EndWorkspaceKeeps
<1>9. QED
  BY <1>1, <1>2, <1>3, <1>4, <1>5, <1>6, <1>7, <1>8 DEF TplNext

LEMMA TplStutters ==
    ASSUME TplInv, UNCHANGED tplVars
    PROVE  TplInv'
<1>0. /\ tplRow' = tplRow /\ tplVersion' = tplVersion /\ tplFlow' = tplFlow /\ tplClock' = tplClock
      /\ tplSpace' = tplSpace /\ tplReq' = tplReq /\ tplFaults' = tplFaults /\ tplRaced' = tplRaced
  BY DEF tplVars
<1>1. TplKinds' /\ TplCounted' /\ NotStranded'
  BY <1>0 DEF TplInv, TplKinds, TplCounted, UsedRows, UsedVersions, UsedFlows, Pending, Holding, NotStranded
<1>2. /\ \A r \in TplRows : RowOK(r)'
      /\ \A v \in TplVersions : VersionOK(v)' /\ FlowOK(v)'
      /\ \A w \in TplSpaces : SpaceOK(w)'
  BY <1>0 DEF TplInv, RowOK, VersionOK, FlowOK, SpaceOK, UsedRows
<1>3. \A h \in TplHandlers : TplRequestOK(h)' /\ \A g \in TplHandlers \ {h} : TplApart(g, h)'
  BY <1>0 DEF TplInv, TplRequestOK, TplApart, VersionRows, SpacesOf
<1>4. ASSUME NEW u \in TplUids PROVE StoryOK(u)'
  <2>1. StoryOK(u)
    BY DEF TplInv
  <2>2. Settled(u)' <=> Settled(u)
    BY <1>0 DEF Settled, LiveTpl, LiveFlow, VersionRows, LatestRows
  <2>3. \A h \in TplHandlers : (Story(h)' <=> Story(h)) /\ (Halfway(h)' <=> Halfway(h))
    BY <1>0 DEF Story, Halfway, LiveTpl, LiveFlow, VersionRows, LatestRows
  <2>4. QED
    BY <1>0, <2>1, <2>2, <2>3 DEF StoryOK
<1>5. QED
  BY <1>1, <1>2, <1>3, <1>4 DEF TplInv

(* In every reachable state the rows of the three tables fit together, a   *)
(* request has behind it what its steps have done, and a uid that no two   *)
(* requests have used at once is where its one request has brought it.     *)
THEOREM TplInvariant == TplSpec => []TplInv
<1>1. TplInit => TplInv
  BY TplInvInit, TplAssumption
<1>2. TplInv /\ [TplNext]_tplVars => TplInv'
  BY TplStepKeeps, TplStutters, TplAssumption
<1>3. QED
  BY <1>1, <1>2, PTL DEF TplSpec

LEMMA TplKindsType == TplInv => TplTypeOK
  BY DEF TplInv, TplKinds, TplTypeOK, RowRecords, VersionRecords, FlowRecords, SpaceRecords

(* Every variable keeps its type: no row is written beyond the bounds.      *)
THEOREM TplTypes == TplSpec => []TplTypeOK
  BY TplKindsType, TplInvariant, PTL

(* Between the requests for a uid it is settled.                            *)
LEMMA QuietSettled ==
    ASSUME TplInv, NEW u \in TplUids, TplSound(u)
    PROVE  Settled(u)
<1>1. StoryOK(u)
  BY DEF TplInv
<1>2. QED
  BY <1>1 DEF StoryOK, TplSound, TplQuiet

LEMMA NewestIsMax ==
    ASSUME NEW S \in SUBSET Nat, NEW n, Newest(n, S)
    PROVE  Max(S) = n
<1>1. n \in S /\ \A m \in S : n >= m
  BY DEF Newest
<1>2. \A x \in S : (\A y \in S : x >= y) => x = n
  BY <1>1
<1>3. QED
  BY <1>1, <1>2 DEF Max

(* Updates, archivals and new templates of a uid that follow one another    *)
(* without failing leave a live template with one latest version, which is  *)
(* the newest version of its own live workflow template.                    *)
THEOREM LatestStaysNewest == TplSpec => []LatestCorrespond
<1>1. ASSUME TplInv, NEW u \in TplUids, TplSound(u), NEW r \in LiveTpl(u)
      PROVE  \E v \in VersionRows(r) :
               /\ LatestRows(r) = {v} /\ LiveFlow(u) = {tplRow[r].flow}
               /\ tplVersion[v].number = Max(tplFlow[tplRow[r].flow].numbers)
  <2>1. Settled(u)
    BY <1>1, QuietSettled
  <2>2. LiveFlow(u) = {tplRow[r].flow}
    BY <1>1, <2>1 DEF Settled
  <2>3. PICK v \in VersionRows(r) :
          LatestRows(r) = {v} /\ Newest(tplVersion[v].number, tplFlow[tplRow[r].flow].numbers)
    BY <1>1, <2>1 DEF Settled
  <2>4. tplFlow[tplRow[r].flow].numbers \in SUBSET Nat
    <3>1. tplRow[r].flow \in TplVersions
      BY <2>2 DEF LiveFlow
    <3>2. tplFlow[tplRow[r].flow] \in FlowRecords
      BY <1>1, <3>1 DEF TplInv, TplKinds
    <3>3. QED
      BY <3>2 DEF FlowRecords, TplVersions
  <2>5. QED
    BY <2>2, <2>3, <2>4, NewestIsMax
<1>2. TplInv => LatestCorrespond
  BY <1>1 DEF LatestCorrespond
<1>3. QED
  BY <1>2, TplInvariant, PTL

(* Under the same conditions a name that no live template has can be used   *)
(* again: its workflow template has been archived with it.                  *)
THEOREM NamesStayFree == TplSpec => []NameFree
<1>1. ASSUME TplInv, NEW u \in TplUids, TplSound(u), LiveTpl(u) = {}  PROVE LiveFlow(u) = {}
  BY <1>1, QuietSettled DEF Settled
<1>2. TplInv => NameFree
  BY <1>1 DEF NameFree
<1>3. QED
  BY <1>2, TplInvariant, PTL

(* Workspace templates and workflow templates say the same of a uid         *)
(* (CreateWorkspaceTemplate, UpdateWorkspaceTemplate,                       *)
(* ArchiveWorkspaceTemplate).                                               *)
THEOREM TemplatesStayAgreed == TplSpec => []TemplatesAgree
<1>1. LatestCorrespond /\ NameFree => TemplatesAgree
  BY DEF TemplatesAgree
<1>2. QED
  BY <1>1, LatestStaysNewest, NamesStayFree, PTL

(* A live workspace has a live template, whatever fails, unless requests    *)
(* for the uid of the template have overlapped.                             *)
THEOREM NoneStranded == TplSpec => []NotStranded
<1>1. TplInv => NotStranded
  BY DEF TplInv
<1>2. QED
  BY <1>1, TplInvariant, PTL
----------------------------------------------------------------------------
(* The workflow templates of a uid are a TemplateHistory.                   *)

LEMMA HistoryBegins ==
    ASSUME TplAssumption, TplInit, NEW u \in TplUids
    PROVE  FlowHistory(u)!Init
<1>1. u # NoUid
  BY DEF TplAssumption
<1>2. \A f \in TplVersions : tplFlow[f].uid = NoUid
  BY DEF TplInit
<1>3. QED
  BY <1>1, <1>2 DEF FlowHistory!Init, FlowStage, FlowNumbers

(* A step that touches the workflow templates of another uid only.          *)
LEMMA HistoryAlone ==
    ASSUME NEW u, NEW x,
           \A f \in TplVersions : tplFlow'[f] # tplFlow[f] => tplFlow[f].uid # x /\ tplFlow'[f].uid # x
    PROVE  UNCHANGED <<FlowStage(x), FlowNumbers(x)>>
  BY DEF FlowStage, FlowNumbers

LEMMA LiveOfHistory ==
    ASSUME NEW u
    PROVE  FlowHistory(u)!Live = LiveFlow(u)
  BY DEF FlowHistory!Live, FlowStage, LiveFlow

(* A new workflow template.                                                 *)
LEMMA HistoryFound ==
    ASSUME TplKinds, NEW u \in TplUids, NEW f \in TplVersions, NEW n \in TplVersions,
           LiveFlow(u) = {}, tplFlow[f].uid # u,
           tplFlow' = [tplFlow EXCEPT ![f] = [uid |-> u, live |-> TRUE, numbers |-> {n}]]
    PROVE  FlowHistory(u)!Next
<1>1. /\ tplFlow'[f].uid = u /\ tplFlow'[f].live /\ tplFlow'[f].numbers = {n}
      /\ \A g \in TplVersions \ {f} : tplFlow'[g] = tplFlow[g]
  BY DEF TplKinds
<1>2. FlowStage(u)' = [FlowStage(u) EXCEPT ![f] = "Live"]
  BY <1>1 DEF FlowStage
<1>3. FlowNumbers(u)' = [FlowNumbers(u) EXCEPT ![f] = {n}]
  <2>1. \A g \in TplVersions : (IF tplFlow'[g].uid = u THEN tplFlow'[g].numbers ELSE {})
                                = IF g = f THEN {n} ELSE IF tplFlow[g].uid = u THEN tplFlow[g].numbers ELSE {}
    BY <1>1
  <2>2. [FlowNumbers(u) EXCEPT ![f] = {n}]
          = [g \in TplVersions |-> IF g = f THEN {n} ELSE IF tplFlow[g].uid = u THEN tplFlow[g].numbers ELSE {}]
    BY DEF FlowNumbers
  <2>3. QED
    BY <2>1, <2>2 DEF FlowNumbers
<1>4. FlowStage(u)[f] = "Absent"
  BY DEF FlowStage
<1>5. FlowHistory(u)!Live = {}
  BY LiveOfHistory
<1>6. FlowHistory(u)!Found(f, n)
  BY <1>2, <1>3, <1>4, <1>5 DEF FlowHistory!Found
<1>7. QED
  BY <1>6 DEF FlowHistory!Next

(* A later version.                                                         *)
LEMMA HistoryPublishes ==
    ASSUME TplKinds, NEW u \in TplUids, NEW f \in LiveFlow(u), NEW n \in TplVersions,
           \A k \in tplFlow[f].numbers : k < n,
           tplFlow' = [tplFlow EXCEPT ![f].numbers = @ \cup {n}]
    PROVE  FlowHistory(u)!Next
<1>1. /\ f \in TplVersions /\ tplFlow[f] \in FlowRecords /\ tplFlow[f].uid = u /\ tplFlow[f].live
      /\ tplFlow' = [tplFlow EXCEPT ![f] = [tplFlow[f] EXCEPT !.numbers = tplFlow[f].numbers \cup {n}]]
  BY DEF LiveFlow, TplKinds
<1>2. /\ tplFlow'[f] = [tplFlow[f] EXCEPT !.numbers = tplFlow[f].numbers \cup {n}]
      /\ \A g \in TplVersions \ {f} : tplFlow'[g] = tplFlow[g]
  BY <1>1 DEF TplKinds
<1>3. /\ tplFlow'[f].uid = u /\ tplFlow'[f].live
      /\ tplFlow'[f].numbers = tplFlow[f].numbers \cup {n}
  <2> DEFINE q == tplFlow[f]
             p == tplFlow'[f]
  <2>1. q \in FlowRecords /\ q.uid = u /\ q.live /\ p = [q EXCEPT !.numbers = q.numbers \cup {n}]
    BY <1>1, <1>2
  <2> HIDE DEF q, p
  <2>2. p.uid = u /\ p.live /\ p.numbers = q.numbers \cup {n}
    BY <2>1 DEF FlowRecords
  <2>3. QED
    BY <2>2 DEF p, q
<1>4. FlowStage(u)' = FlowStage(u)
  BY <1>1, <1>2, <1>3 DEF FlowStage
<1>5. FlowNumbers(u)' = [FlowNumbers(u) EXCEPT ![f] = @ \cup {n}]
  BY <1>1, <1>2, <1>3 DEF FlowNumbers
<1>6. FlowStage(u)[f] # "Absent" /\ FlowNumbers(u)[f] = tplFlow[f].numbers
  BY <1>1 DEF FlowStage, FlowNumbers
<1>7. FlowHistory(u)!Publish(f, n)
  BY <1>4, <1>5, <1>6 DEF FlowHistory!Publish
<1>8. QED
  BY <1>1, <1>7 DEF FlowHistory!Next

(* The live workflow template is archived.                                  *)
LEMMA HistoryRetires ==
    ASSUME TplKinds, NEW u \in TplUids, RetireFlow(u)
    PROVE  FlowHistory(u)!Next
<1>1. ASSUME NEW f \in TplVersions
      PROVE  /\ tplFlow'[f].uid = tplFlow[f].uid /\ tplFlow'[f].numbers = tplFlow[f].numbers
             /\ tplFlow[f].uid = u => ~tplFlow'[f].live
  <2>1. ASSUME NEW q \in FlowRecords
        PROVE  LET p == [q EXCEPT !.live = FALSE] IN p.uid = q.uid /\ p.numbers = q.numbers /\ ~p.live
    BY DEF FlowRecords
  <2>2. tplFlow[f] \in FlowRecords
    BY DEF TplKinds
  <2>3. CASE f \in LiveFlow(u)
    BY <2>1, <2>2, <2>3 DEF RetireFlow
  <2>4. CASE f \notin LiveFlow(u)
    BY <2>4 DEF RetireFlow, LiveFlow
  <2>5. QED
    BY <2>3, <2>4
<1>2. FlowNumbers(u)' = FlowNumbers(u)
  BY <1>1 DEF FlowNumbers
<1>3. FlowStage(u)' = [f \in TplVersions |-> IF f \in LiveFlow(u) THEN "Archived" ELSE FlowStage(u)[f]]
  BY <1>1 DEF FlowStage, LiveFlow
<1>4. FlowHistory(u)!Retire
  BY <1>2, <1>3, LiveOfHistory DEF FlowHistory!Retire
<1>5. QED
  BY <1>4 DEF FlowHistory!Next

HistoryMoves(x) == UNCHANGED <<FlowStage(x), FlowNumbers(x)>> \/ FlowHistory(x)!Next

LEMMA MakeFlowMoves ==
    ASSUME TplAssumption, TplInv, NEW h \in TplHandlers, MakeFlow(h), NEW x \in TplUids
    PROVE  HistoryMoves(x)
<1>1. tplReq[h].op = "create" /\ tplReq[h].step = "flow"
  BY DEF MakeFlow, TplAt
<1> PICK u \in TplUids : tplReq[h].uid = u
  BY <1>1, TplServing
<1>2. TplKinds /\ TplCounted /\ TplRequestOK(h)
  BY DEF TplInv
<1>3. CASE tplFlow' = tplFlow
  BY <1>3, HistoryAlone DEF HistoryMoves
<1>4. CASE /\ LiveFlow(u) = {}
           /\ tplFlow' = [tplFlow EXCEPT ![FreeFlow] = [uid |-> u, live |-> TRUE, numbers |-> {tplClock + 1}]]
  <2>1. h \in Pending
    BY <1>1, <1>2 DEF TplRequestOK, Pending
  <2>2. FreeFlow \in TplVersions /\ tplClock + 1 \in TplVersions /\ FreeFlow \notin UsedFlows
    BY <1>2, <2>1, FreshIds
  <2>3. tplFlow[FreeFlow].uid = NoUid
    BY <2>2 DEF UsedFlows
  <2>4. u # NoUid /\ x # NoUid
    BY DEF TplAssumption
  <2>5. CASE x = u
    BY <1>2, <1>4, <2>2, <2>3, <2>4, <2>5, HistoryFound DEF HistoryMoves
  <2>6. CASE x # u
    <3>1. \A f \in TplVersions : tplFlow'[f] # tplFlow[f] => f = FreeFlow /\ tplFlow'[f].uid = u
      BY <1>2, <1>4, <2>2 DEF TplKinds
    <3>2. \A f \in TplVersions : tplFlow'[f] # tplFlow[f] => tplFlow[f].uid # x /\ tplFlow'[f].uid # x
      BY <2>3, <2>4, <2>6, <3>1
    <3>3. QED
      BY <3>2, HistoryAlone DEF HistoryMoves
  <2>7. QED
    BY <2>5, <2>6
<1>5. QED
  BY <1>3, <1>4 DEF MakeFlow

LEMMA AppendVersionMoves ==
    ASSUME TplAssumption, TplInv, NEW h \in TplHandlers, AppendVersion(h), NEW x \in TplUids
    PROVE  HistoryMoves(x)
<1>1. tplReq[h].op = "update" /\ tplReq[h].step = "version"
  BY DEF AppendVersion, TplAt
<1> PICK u \in TplUids : tplReq[h].uid = u
  BY <1>1, TplServing
<1>2. TplKinds /\ TplCounted /\ TplRequestOK(h) /\ tplClock \in Nat
  BY DEF TplInv, TplKinds
<1>3. CASE tplFlow' = tplFlow
  BY <1>3, HistoryAlone DEF HistoryMoves
<1>4. ASSUME NEW f \in LiveFlow(u), tplFlow' = [tplFlow EXCEPT ![f].numbers = @ \cup {tplClock + 1}]
      PROVE  HistoryMoves(x)
  <2>1. h \in Pending
    BY <1>1, <1>2 DEF TplRequestOK, Pending
  <2>2. tplClock + 1 \in TplVersions
    BY <1>2, <2>1, FreshIds
  <2>3. f \in TplVersions /\ tplFlow[f].uid = u /\ tplFlow[f] \in FlowRecords
    BY <1>2 DEF LiveFlow, TplKinds
  <2>4. \A k \in tplFlow[f].numbers : k < tplClock + 1
    <3>1. tplFlow[f].numbers \subseteq 1..tplClock
      BY <2>3 DEF TplInv, FlowOK
    <3>2. QED
      BY <1>2, <3>1
  <2>5. CASE x = u
    BY <1>2, <1>4, <2>2, <2>4, <2>5, HistoryPublishes DEF HistoryMoves
  <2>6. CASE x # u
    <3>1. tplFlow' = [tplFlow EXCEPT ![f] = [tplFlow[f] EXCEPT !.numbers = tplFlow[f].numbers \cup {tplClock + 1}]]
      BY <1>2, <1>4, <2>3 DEF TplKinds
    <3>2. /\ tplFlow'[f] = [tplFlow[f] EXCEPT !.numbers = tplFlow[f].numbers \cup {tplClock + 1}]
          /\ \A g \in TplVersions \ {f} : tplFlow'[g] = tplFlow[g]
      BY <1>2, <2>3, <3>1 DEF TplKinds
    <3>3. tplFlow'[f].uid = u
      BY <2>3, <3>2 DEF FlowRecords
    <3>4. \A g \in TplVersions : tplFlow'[g] # tplFlow[g] => tplFlow[g].uid # x /\ tplFlow'[g].uid # x
      BY <2>3, <2>6, <3>2, <3>3
    <3>5. QED
      BY <3>4, HistoryAlone DEF HistoryMoves
  <2>7. QED
    BY <2>5, <2>6
<1>5. QED
  BY <1>3, <1>4 DEF AppendVersion

LEMMA RetiringMoves ==
    ASSUME TplAssumption, TplInv, NEW u \in TplUids, RetireFlow(u), tplClock' = tplClock, NEW x \in TplUids
    PROVE  HistoryMoves(x)
<1>1. CASE x = u
  BY <1>1, HistoryRetires DEF HistoryMoves, TplInv
<1>2. CASE x # u
  <2>1. \A f \in TplVersions : tplFlow'[f] # tplFlow[f] => tplFlow'[f].uid = u /\ tplFlow[f].uid = u
    BY FlowRetired
  <2>2. \A f \in TplVersions : tplFlow'[f] # tplFlow[f] => tplFlow[f].uid # x /\ tplFlow'[f].uid # x
    BY <1>2, <2>1
  <2>3. QED
    BY <2>2, HistoryAlone DEF HistoryMoves
<1>3. QED
  BY <1>1, <1>2

LEMMA TplStepMoves ==
    ASSUME TplAssumption, TplInv, TplNext, NEW x \in TplUids
    PROVE  HistoryMoves(x)
<1>1. tplFlow' = tplFlow => HistoryMoves(x)
  BY HistoryAlone DEF HistoryMoves
<1>2. ASSUME NEW h \in TplHandlers, MakeFlow(h)  PROVE HistoryMoves(x)
  BY <1>2, MakeFlowMoves
<1>3. ASSUME NEW h \in TplHandlers, AppendVersion(h)  PROVE HistoryMoves(x)
  BY <1>3, AppendVersionMoves
<1>4. ASSUME NEW h \in TplHandlers, InsertTemplate(h) \/ ArchiveFlow(h)  PROVE HistoryMoves(x)
  <2>1. tplReq[h].op # "idle" /\ tplClock' = tplClock /\ (tplFlow' = tplFlow \/ RetireFlow(tplReq[h].uid))
    BY <1>4 DEF InsertTemplate, ArchiveFlow, TplAt
  <2>2. tplReq[h].uid \in TplUids
    BY <2>1, TplServing
  <2>3. QED
    BY <1>1, <2>1, <2>2, RetiringMoves
<1>5. ASSUME NEW h \in TplHandlers,
             \/ \E u \in TplUids : \/ CheckName(h, u) \/ ReadTemplate(h, u) \/ ArchiveRequest(h, u)
                                   \/ \E w \in TplSpaces : AskWorkspace(h, w, u)
             \/ OutdateLatest(h) \/ CommitTplVersion(h) \/ ReadForWorkspace(h) \/ InsertWorkspace(h)
             \/ FindTemplate(h) \/ ListSpaces(h) \/ ArchiveRow(h) \/ TplBreakOff(h)
             \/ \E w \in TplSpaces : ArchiveSpace(h, w)
      PROVE  tplFlow' = tplFlow
  BY <1>5 DEF CheckName, ReadTemplate, ArchiveRequest, AskWorkspace, OutdateLatest, CommitTplVersion,
              ReadForWorkspace, InsertWorkspace, FindTemplate, ListSpaces, ArchiveRow, TplBreakOff, ArchiveSpace
<1>6. ASSUME NEW w \in TplSpaces, EndWorkspace(w)  PROVE tplFlow' = tplFlow
  BY <1>6 DEF EndWorkspace
<1>7. QED
  BY <1>1, <1>2, <1>3, <1>4, <1>5, <1>6 DEF TplNext

(* Whatever requests for a uid overlap or break off, its workflow templates *)
(* go through the steps of a TemplateHistory: one of them is live at a time,*)
(* none is revived, and versions are added at the end.                      *)
THEOREM FlowsFollowHistory == TplSpec => FlowsImplementHistory
<1>1. TplInit => \A u \in TplUids : FlowHistory(u)!Init
  BY TplAssumption, HistoryBegins
<1>2. TplInv /\ [TplNext]_tplVars =>
        [\A u \in TplUids : UNCHANGED <<FlowStage(u), FlowNumbers(u)>> \/ FlowHistory(u)!Next]_tplVars
  <2>1. TplInv /\ TplNext => \A u \in TplUids : HistoryMoves(u)
    BY TplAssumption, TplStepMoves
  <2>2. QED
    BY <2>1 DEF HistoryMoves
<1>3. QED
  BY <1>1, <1>2, TplInvariant, PTL DEF TplSpec, FlowsImplementHistory
=============================================================================
