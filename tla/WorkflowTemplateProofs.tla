------------------------- MODULE WorkflowTemplateProofs -------------------------
(***************************************************************************)
(* Proofs, for every set of rows and request goroutines and every bound,   *)
(* of the invariants of WorkflowTemplate (FlowInv, and FlowOrder for what  *)
(* no failure and no archive has disturbed) and that its rows implement    *)
(* TemplateHistory.                                                        *)
(***************************************************************************)
EXTENDS WorkflowTemplate, FiniteSetTheorems, TLAPS

(* One step of the request h. *)
FlowStep(h) ==
    \/ \E t \in FlowRows : CreateFlow(h, t) \/ AddVersion(h, t)
    \/ FindFlow(h)
    \/ FlowAdvance(h) \/ CommitFlowFails(h) \/ BreakOff(h)

----------------------------------------------------------------------------
(* Types.                                                                   *)

(* The requests after a step: only that of h has changed.                   *)
FlowReqOK(h) ==
    /\ flowReq' \in [FlowHandlers -> FlowRequests]
    /\ \A g \in FlowHandlers \ {h} : flowReq'[g] = flowReq[g]

LEMMA FlowIdleType == FlowIdle \in FlowRequests
  BY FlowAssumption DEF FlowIdle, FlowRequests

LEMMA FlowReqType ==
    ASSUME FlowTypeOK, NEW h \in FlowHandlers, FlowStep(h), flowClock' \in 0..MaxFlowVersions
    PROVE  FlowReqOK(h)
<1> USE FlowIdleType DEF FlowReqOK
<1>0. /\ flowReq \in [FlowHandlers -> FlowRequests]
      /\ flowReq[h] \in FlowRequests
      /\ flowClock \in 0..MaxFlowVersions
  BY DEF FlowTypeOK
<1>1. ASSUME NEW r \in FlowRequests, flowReq' = [flowReq EXCEPT ![h] = r]
      PROVE  FlowReqOK(h)
  BY <1>0, <1>1
<1>2. ASSUME FlowDone(h)  PROVE FlowReqOK(h)
  BY <1>1, <1>2 DEF FlowDone
<1>3. ASSUME NEW step \in {"argo", "commit", "outdate", "lock", "latest", "unlabel", "list", "delete"},
             FlowMove(h, step)
      PROVE  FlowReqOK(h)
  BY <1>0, <1>3 DEF FlowMove, FlowRequests
<1>4. ASSUME NEW t \in FlowRows, NEW op \in {"create", "version", "archive"},
             NEW step \in {"insert", "outdate", "list"}, FlowStart(h, op, step, t)
      PROVE  FlowReqOK(h)
  <2>1. [FlowIdle EXCEPT !.op = op, !.step = step, !.row = t] \in FlowRequests
    BY <1>4, FlowAssumption DEF FlowIdle, FlowRequests
  <2>2. QED
    BY <1>1, <1>4, <2>1 DEF FlowStart
<1>5. ASSUME NEW step \in {"argo", "latest"}, NumberVersion(h, step)  PROVE FlowReqOK(h)
  BY <1>0, <1>5 DEF NumberVersion, FlowRequests
<1>6. CASE \E t \in FlowRows : CreateFlow(h, t) \/ AddVersion(h, t)
  BY <1>4, <1>6 DEF CreateFlow, AddVersion
<1>7. CASE FindFlow(h)
  BY <1>4, <1>7 DEF FindFlow, LiveRows
<1>8. CASE InsertFlow(h)
  BY <1>2, <1>5, <1>8 DEF InsertFlow
<1>9. CASE CreateArgoTemplate(h)
  BY <1>3, <1>9 DEF CreateArgoTemplate
<1>10. CASE CommitFlow(h) \/ CommitVersion(h) \/ MarkArchived(h) \/ CommitFlowFails(h) \/ BreakOff(h)
  BY <1>2, <1>10 DEF CommitFlow, CommitVersion, MarkArchived, CommitFlowFails, BreakOff
<1>11. CASE OutdateVersions(h)
  BY <1>0, <1>11 DEF OutdateVersions, FlowRequests, VersionsOf
<1>12. CASE LockVersions(h)
  BY <1>5, <1>12 DEF LockVersions
<1>13. CASE ReadLatest(h)
  <2>1. ASSUME NEW n \in FlowNumbers,
               flowReq' = [flowReq EXCEPT ![h].step = "argo", ![h].older = n]
        PROVE  FlowReqOK(h)
    <3>1. n \in 0..MaxFlowVersions
      BY FlowAssumption DEF FlowNumbers
    <3>2. [flowReq[h] EXCEPT !.step = "argo", !.older = n] \in FlowRequests
      BY <1>0, <3>1 DEF FlowRequests
    <3>3. QED
      BY <1>0, <1>1, <2>1, <3>2
  <2>2. QED
    BY <1>2, <1>13, <2>1 DEF ReadLatest
<1>14. CASE UnlabelOlder(h)
  BY <1>2, <1>3, <1>14 DEF UnlabelOlder
<1>15. CASE ListVersions(h)
  <2>1. UNION {VersionsOf(t) : t \in LiveRows} \subseteq FlowNumbers
    BY DEF VersionsOf
  <2>2. QED
    BY <1>0, <1>15, <2>1 DEF ListVersions, FlowRequests
<1>16. CASE DeleteVersion(h)
  <2>1. ASSUME NEW n \in FlowNumbers, flowReq' = [flowReq EXCEPT ![h].seen = @ \ {n}]
        PROVE  FlowReqOK(h)
    BY <1>0, <2>1 DEF FlowRequests
  <2>2. flowReq[h].seen \subseteq FlowNumbers
    BY <1>0 DEF FlowRequests
  <2>3. QED
    BY <1>2, <1>16, <2>1, <2>2 DEF DeleteVersion
<1>17. QED
  BY <1>6, <1>7, <1>8, <1>9, <1>10, <1>11, <1>12, <1>13, <1>14, <1>15, <1>16 DEF FlowStep, FlowAdvance

(* The bound: a number is left for every request that has none yet.         *)
LEMMA UnnumberedFinite ==
    IsFiniteSet(Unnumbered) /\ Cardinality(Unnumbered) \in Nat
<1>1. Unnumbered \subseteq FlowHandlers
  BY DEF Unnumbered
<1>2. QED
  BY <1>1, FlowAssumption, FS_Subset, FS_CardinalityType

LEMMA FlowRoomKept ==
    ASSUME FlowTypeOK, FlowRoom, NEW h \in FlowHandlers, FlowStep(h)
    PROVE  flowClock' \in 0..MaxFlowVersions /\ flowClock <= flowClock' /\ FlowRoom'
<1> DEFINE Waiting == {"insert", "outdate", "lock"}
<1>0. /\ flowReq \in [FlowHandlers -> FlowRequests]
      /\ flowClock \in 0..MaxFlowVersions
      /\ MaxFlowVersions \in Nat
      /\ IsFiniteSet(Unnumbered) /\ Cardinality(Unnumbered) \in Nat
      /\ h \notin Unnumbered => Unnumbered \ {h} = Unnumbered
  BY UnnumberedFinite, FlowAssumption DEF FlowTypeOK
<1>1. ASSUME NEW r \in FlowRequests, flowReq' = [flowReq EXCEPT ![h] = r], r.step \in Waiting
      PROVE  Unnumbered' = Unnumbered \cup {h}
  BY <1>0, <1>1 DEF Unnumbered
<1>2. ASSUME NEW r \in FlowRequests, flowReq' = [flowReq EXCEPT ![h] = r], r.step \notin Waiting
      PROVE  Unnumbered' = Unnumbered \ {h}
  BY <1>0, <1>2 DEF Unnumbered
<1>3. \A step \in {"idle", "argo", "commit", "latest", "unlabel", "list", "delete"} : step \notin Waiting
  OBVIOUS
<1> HIDE DEF Waiting
<1>4. Cardinality(Unnumbered \cup {h}) \in Nat
      /\ Cardinality(Unnumbered \cup {h}) <= Cardinality(Unnumbered) + 1
  <2>1. /\ IsFiniteSet(Unnumbered \cup {h})
        /\ Cardinality(Unnumbered \cup {h}) = IF h \in Unnumbered THEN Cardinality(Unnumbered)
                                                                  ELSE Cardinality(Unnumbered) + 1
    BY <1>0, FS_AddElement
  <2>2. QED
    BY <1>0, <2>1
<1>5. /\ Cardinality(Unnumbered \ {h}) \in Nat
      /\ Cardinality(Unnumbered \ {h}) <= Cardinality(Unnumbered)
      /\ h \in Unnumbered => Cardinality(Unnumbered \ {h}) + 1 <= Cardinality(Unnumbered)
  <2>1. /\ IsFiniteSet(Unnumbered \ {h})
        /\ Cardinality(Unnumbered \ {h}) = IF h \in Unnumbered THEN Cardinality(Unnumbered) - 1
                                                               ELSE Cardinality(Unnumbered)
    BY <1>0, FS_RemoveElement
  <2>2. Cardinality(Unnumbered \ {h}) \in Nat
    BY <2>1, FS_CardinalityType
  <2>3. QED
    BY <1>0, <2>1, <2>2
<1>6. ASSUME NEW r \in FlowRequests, flowReq' = [flowReq EXCEPT ![h] = r], r.step \notin Waiting,
             UNCHANGED flowClock
      PROVE  flowClock' \in 0..MaxFlowVersions /\ flowClock <= flowClock' /\ FlowRoom'
  <2>1. Unnumbered' = Unnumbered \ {h}
    BY <1>2, <1>6
  <2>2. QED
    BY <1>0, <1>5, <1>6, <2>1 DEF FlowRoom
<1>7. FlowIdle \in FlowRequests /\ FlowIdle.step \notin Waiting
  BY <1>3, FlowIdleType DEF FlowIdle
<1>8. CASE \E t \in FlowRows : CreateFlow(h, t) \/ AddVersion(h, t)
  <2>1. PICK t \in FlowRows, op \in {"create", "version"}, step \in {"insert", "outdate"} :
           /\ flowReq' = [flowReq EXCEPT ![h] = [FlowIdle EXCEPT !.op = op, !.step = step, !.row = t]]
           /\ UNCHANGED flowClock
           /\ flowClock + Cardinality(Unnumbered) < MaxFlowVersions
    BY <1>8 DEF CreateFlow, AddVersion, NumberLeft, FlowStart
  <2> DEFINE r == [FlowIdle EXCEPT !.op = op, !.step = step, !.row = t]
  <2>2. r \in FlowRequests /\ r.step \in Waiting
    BY FlowIdleType, FlowAssumption DEF FlowIdle, FlowRequests, Waiting
  <2>3. Unnumbered' = Unnumbered \cup {h}
    BY <1>1, <2>1, <2>2
  <2>4. QED
    BY <1>0, <1>4, <2>1, <2>3 DEF FlowRoom
<1>9. ASSUME NEW step \in {"argo", "latest"}, h \in Unnumbered, NumberVersion(h, step)
      PROVE  flowClock' \in 0..MaxFlowVersions /\ flowClock <= flowClock' /\ FlowRoom'
  <2> DEFINE r == [flowReq[h] EXCEPT !.step = step, !.number = flowClock + 1]
  <2>0. flowClock + 1 \in 0..MaxFlowVersions
    BY <1>0, <1>5, <1>9 DEF FlowRoom
  <2>1. r \in FlowRequests /\ r.step = step /\ flowReq' = [flowReq EXCEPT ![h] = r]
    BY <1>0, <1>9, <2>0 DEF NumberVersion, FlowRequests
  <2>2. flowClock' = flowClock + 1
    BY <1>9 DEF NumberVersion
  <2>3. Unnumbered' = Unnumbered \ {h}
    BY <1>2, <1>3, <1>9, <2>1
  <2>4. QED
    BY <1>0, <1>5, <1>9, <2>2, <2>3 DEF FlowRoom
<1>10. CASE InsertFlow(h)
  <2>1. h \in Unnumbered
    BY <1>10 DEF InsertFlow, FlowAt, Unnumbered
  <2>2. QED
    BY <1>6, <1>7, <1>9, <1>10, <2>1 DEF InsertFlow, FlowDone
<1>11. CASE LockVersions(h)
  <2>1. h \in Unnumbered
    BY <1>11 DEF LockVersions, FlowAt, Unnumbered
  <2>2. QED
    BY <1>9, <1>11, <2>1 DEF LockVersions
<1>12. CASE OutdateVersions(h)
  <2> DEFINE r == [flowReq[h] EXCEPT !.step = "lock", !.seen = VersionsOf(flowReq[h].row)]
  <2>1. r \in FlowRequests /\ r.step = "lock" /\ flowReq' = [flowReq EXCEPT ![h] = r]
    BY <1>0, <1>12 DEF OutdateVersions, FlowRequests, VersionsOf
  <2>2. h \in Unnumbered /\ Unnumbered \cup {h} = Unnumbered
    BY <1>12 DEF OutdateVersions, FlowAt, Unnumbered
  <2>3. Unnumbered' = Unnumbered
    BY <1>1, <2>1, <2>2 DEF Waiting
  <2>4. QED
    BY <1>0, <1>12, <2>3 DEF OutdateVersions, FlowRoom
<1>13. CASE FindFlow(h)
  <2>1. PICK t \in FlowRows :
           flowReq' = [flowReq EXCEPT ![h] = [FlowIdle EXCEPT !.op = "archive", !.step = "list", !.row = t]]
    BY <1>13 DEF FindFlow, FlowStart, LiveRows
  <2> DEFINE r == [FlowIdle EXCEPT !.op = "archive", !.step = "list", !.row = t]
  <2>2. r \in FlowRequests /\ r.step = "list"
    BY FlowIdleType, FlowAssumption DEF FlowIdle, FlowRequests
  <2>3. QED
    BY <1>3, <1>6, <1>13, <2>1, <2>2 DEF FindFlow
<1>14. CASE CommitFlow(h) \/ CommitVersion(h) \/ MarkArchived(h) \/ CommitFlowFails(h) \/ BreakOff(h)
  BY <1>6, <1>7, <1>14 DEF CommitFlow, CommitVersion, MarkArchived, CommitFlowFails, BreakOff, FlowDone
<1>15. ASSUME NEW step \in {"argo", "commit", "unlabel"}, FlowMove(h, step), UNCHANGED flowClock
       PROVE  flowClock' \in 0..MaxFlowVersions /\ flowClock <= flowClock' /\ FlowRoom'
  <2> DEFINE r == [flowReq[h] EXCEPT !.step = step]
  <2>1. r \in FlowRequests /\ r.step = step /\ flowReq' = [flowReq EXCEPT ![h] = r]
    BY <1>0, <1>15 DEF FlowMove, FlowRequests
  <2>2. QED
    BY <1>3, <1>6, <1>15, <2>1
<1>16. CASE CreateArgoTemplate(h)
  BY <1>15, <1>16 DEF CreateArgoTemplate
<1>17. CASE ReadLatest(h)
  <2>1. ASSUME NEW n \in FlowNumbers, flowReq' = [flowReq EXCEPT ![h].step = "argo", ![h].older = n]
        PROVE  flowClock' \in 0..MaxFlowVersions /\ flowClock <= flowClock' /\ FlowRoom'
    <3> DEFINE r == [flowReq[h] EXCEPT !.step = "argo", !.older = n]
    <3>1. n \in 0..MaxFlowVersions
      BY <1>0 DEF FlowNumbers
    <3>2. r \in FlowRequests /\ r.step = "argo" /\ flowReq' = [flowReq EXCEPT ![h] = r]
      BY <1>0, <2>1, <3>1 DEF FlowRequests
    <3>3. QED
      BY <1>3, <1>6, <1>17, <3>2 DEF ReadLatest
  <2>2. QED
    BY <1>6, <1>7, <1>17, <2>1 DEF ReadLatest, FlowDone
<1>18. CASE UnlabelOlder(h)
  BY <1>6, <1>7, <1>15, <1>18 DEF UnlabelOlder, FlowDone
<1>19. CASE ListVersions(h)
  <2> DEFINE r == [flowReq[h] EXCEPT !.step = "delete", !.seen = UNION {VersionsOf(t) : t \in LiveRows}]
  <2>1. UNION {VersionsOf(t) : t \in LiveRows} \subseteq FlowNumbers
    BY DEF VersionsOf
  <2>2. r \in FlowRequests /\ r.step = "delete" /\ flowReq' = [flowReq EXCEPT ![h] = r]
    BY <1>0, <1>19, <2>1 DEF ListVersions, FlowRequests
  <2>3. QED
    BY <1>3, <1>6, <1>19, <2>2 DEF ListVersions
<1>20. CASE DeleteVersion(h)
  <2>1. flowReq[h].step = "delete" /\ UNCHANGED flowClock /\ flowReq[h].seen \subseteq FlowNumbers
    BY <1>0, <1>20 DEF DeleteVersion, FlowAt, FlowRequests
  <2>2. ASSUME NEW n \in FlowNumbers, flowReq' = [flowReq EXCEPT ![h].seen = @ \ {n}]
        PROVE  flowClock' \in 0..MaxFlowVersions /\ flowClock <= flowClock' /\ FlowRoom'
    <3> DEFINE r == [flowReq[h] EXCEPT !.seen = flowReq[h].seen \ {n}]
    <3>1. r \in FlowRequests /\ r.step = "delete" /\ flowReq' = [flowReq EXCEPT ![h] = r]
      BY <1>0, <2>1, <2>2 DEF FlowRequests
    <3>2. QED
      BY <1>3, <1>6, <2>1, <3>1
  <2>3. QED
    BY <1>6, <1>7, <1>20, <2>1, <2>2 DEF DeleteVersion, FlowDone
<1>21. QED
  BY <1>8, <1>10, <1>11, <1>12, <1>13, <1>14, <1>16, <1>17, <1>18, <1>19, <1>20 DEF FlowStep, FlowAdvance

LEMMA FlowTypeKept ==
    ASSUME FlowTypeOK, FlowRoom, NEW h \in FlowHandlers, FlowStep(h)
    PROVE  FlowTypeOK' /\ FlowRoom' /\ FlowReqOK(h) /\ flowClock <= flowClock'
<1>1. flowClock' \in 0..MaxFlowVersions /\ FlowRoom' /\ flowClock <= flowClock'
  BY FlowRoomKept
<1>2. FlowReqOK(h)
  BY <1>1, FlowReqType
<1>3. flowReq[h] \in FlowRequests /\ flowFaults \in 0..MaxFlowFaults /\ MaxFlowFaults \in Nat
  BY FlowAssumption DEF FlowTypeOK
<1>4. flowRow' \in [FlowRows -> {"Absent", "Live", "Archived"}]
  BY DEF FlowTypeOK, FlowStep, FlowAdvance, CreateFlow, AddVersion, FindFlow, InsertFlow,
         CreateArgoTemplate, CommitFlow, CommitFlowFails, OutdateVersions, LockVersions, ReadLatest,
         UnlabelOlder, CommitVersion, ListVersions, DeleteVersion, MarkArchived, BreakOff
<1>5. flowVersion' \in [FlowNumbers -> [row : FlowRows \cup {NoRow}, latest : BOOLEAN]]
  <2>0. flowReq[h].row \in FlowRows \cup {NoRow}
    BY <1>3 DEF FlowRequests
  <2>1. CASE CommitFlow(h)
    BY <2>0, <2>1 DEF FlowTypeOK, CommitFlow
  <2>2. CASE CommitVersion(h)
    <3>1. \A n \in FlowNumbers : flowVersion'[n] \in [row : FlowRows \cup {NoRow}, latest : BOOLEAN]
      BY <2>0, <2>2 DEF FlowTypeOK, CommitVersion
    <3>2. QED
      BY <2>2, <3>1 DEF CommitVersion
  <2>3. CASE UNCHANGED flowVersion
    BY <2>3 DEF FlowTypeOK
  <2>4. QED
    BY <2>1, <2>2, <2>3
       DEF FlowStep, FlowAdvance, CreateFlow, AddVersion, FindFlow, InsertFlow,
           CreateArgoTemplate, CommitFlowFails, OutdateVersions, LockVersions, ReadLatest,
           UnlabelOlder, ListVersions, DeleteVersion, MarkArchived, BreakOff
<1>6. flowArgo' \in [FlowNumbers -> {"None", "Plain", "Latest"}]
  BY DEF FlowTypeOK, FlowStep, FlowAdvance, CreateFlow, AddVersion, FindFlow, InsertFlow,
         CreateArgoTemplate, CommitFlow, CommitFlowFails, OutdateVersions, LockVersions, ReadLatest,
         UnlabelOlder, CommitVersion, ListVersions, DeleteVersion, MarkArchived, BreakOff
<1>7. flowFaults' \in 0..MaxFlowFaults
  BY <1>3 DEF FlowStep, FlowAdvance, CreateFlow, AddVersion, FindFlow, InsertFlow,
         CreateArgoTemplate, CommitFlow, CommitFlowFails, OutdateVersions, LockVersions, ReadLatest,
         UnlabelOlder, CommitVersion, ListVersions, DeleteVersion, MarkArchived, BreakOff
<1>8. flowRaced' \in BOOLEAN
  BY DEF FlowTypeOK, FlowStep, FlowAdvance, CreateFlow, AddVersion, FindFlow, InsertFlow, FlowStart,
         CreateArgoTemplate, CommitFlow, CommitFlowFails, OutdateVersions, LockVersions, ReadLatest,
         UnlabelOlder, CommitVersion, ListVersions, DeleteVersion, MarkArchived, BreakOff
<1>9. flowBegun' \subseteq FlowRows
  BY DEF FlowTypeOK, FlowStep, FlowAdvance, CreateFlow, AddVersion, FindFlow, InsertFlow, LiveRows,
         CreateArgoTemplate, CommitFlow, CommitFlowFails, OutdateVersions, LockVersions, ReadLatest,
         UnlabelOlder, CommitVersion, ListVersions, DeleteVersion, MarkArchived, BreakOff
<1>10. QED
  BY <1>1, <1>2, <1>4, <1>5, <1>6, <1>7, <1>8, <1>9 DEF FlowTypeOK, FlowReqOK

----------------------------------------------------------------------------
(* The requests.                                                            *)

LEMMA FlowFacts ==
    ASSUME FlowInv, NEW g \in FlowHandlers
    PROVE  /\ flowReq[g] \in FlowRequests
           /\ FlowRequestOK(g)
           /\ \A h \in FlowHandlers \ {g} : FlowApart(g, h) /\ FlowApart(h, g)
           /\ flowBegun \subseteq FlowRows /\ NoRow \notin FlowRows
           /\ flowClock \in 0..MaxFlowVersions /\ MaxFlowVersions \in Nat
  BY FlowAssumption DEF FlowInv, FlowTypeOK

(* A request stays as sound as it was while the rows stay and no template   *)
(* it has made is deleted.                                                  *)
LEMMA FlowOtherSame ==
    ASSUME FlowInv, NEW g \in FlowHandlers, flowReq'[g] = flowReq[g],
           UNCHANGED <<flowRow, flowVersion>>, flowClock' \in Nat, flowClock <= flowClock',
           flowBegun \subseteq flowBegun',
           Numbered(g) /\ flowReq[g].step \in {"unlabel", "commit"} =>
               flowArgo'[flowReq[g].number] # "None"
    PROVE  FlowRequestOK(g)'
<1>1. FlowRequestOK(g) /\ flowClock \in Nat
  BY FlowFacts
<1>2. VersionsOf(flowReq[g].row)' = VersionsOf(flowReq[g].row) /\ LiveRows' = LiveRows
      /\ Inserted(g)' = Inserted(g) /\ Numbered(g)' = Numbered(g)
  BY DEF VersionsOf, LiveRows, Inserted, Numbered, HoldsVersions
<1>3. \A k \in 1..flowClock : k \in 1..flowClock'
  BY <1>1
<1>4. QED
  BY <1>1, <1>2, <1>3 DEF FlowRequestOK

LEMMA FlowOthersKept ==
    ASSUME FlowInv, NEW h \in FlowHandlers, FlowStep(h), NEW g \in FlowHandlers \ {h}
    PROVE  FlowRequestOK(g)'
<1>0. flowReq'[g] = flowReq[g] /\ flowClock <= flowClock' /\ FlowTypeOK'
  BY FlowTypeKept DEF FlowReqOK, FlowInv
<1>1. /\ FlowRequestOK(g) /\ FlowRequestOK(h) /\ FlowApart(g, h) /\ FlowApart(h, g)
      /\ flowReq[g] \in FlowRequests /\ flowReq[h] \in FlowRequests
      /\ flowBegun \subseteq FlowRows /\ NoRow \notin FlowRows
      /\ flowClock \in 0..MaxFlowVersions /\ MaxFlowVersions \in Nat
  BY FlowFacts
<1>2. /\ flowArgo \in [FlowNumbers -> {"None", "Plain", "Latest"}]
      /\ flowVersion \in [FlowNumbers -> [row : FlowRows \cup {NoRow}, latest : BOOLEAN]]
      /\ flowRow \in [FlowRows -> {"Absent", "Live", "Archived"}]
      /\ flowClock' \in Nat
  BY <1>0 DEF FlowInv, FlowTypeOK
<1>3. Numbered(g) => flowReq[g].number \in FlowNumbers /\ flowVersion[flowReq[g].number].row = NoRow
  BY <1>1 DEF FlowRequestOK, FlowNumbers
<1>4. CASE UNCHANGED <<flowRow, flowVersion, flowArgo>> /\ flowBegun \subseteq flowBegun'
  BY <1>0, <1>1, <1>2, <1>4, FlowOtherSame DEF FlowRequestOK
<1>5. CASE CreateArgoTemplate(h) \/ UnlabelOlder(h)
  <2>1. \A n \in FlowNumbers : flowArgo[n] # "None" => flowArgo'[n] # "None"
    BY <1>2, <1>5 DEF CreateArgoTemplate, UnlabelOlder
  <2>2. UNCHANGED <<flowRow, flowVersion, flowBegun>>
    BY <1>5 DEF CreateArgoTemplate, UnlabelOlder
  <2>3. Numbered(g) /\ flowReq[g].step \in {"unlabel", "commit"} => flowArgo'[flowReq[g].number] # "None"
    BY <1>1, <1>3, <2>1 DEF FlowRequestOK
  <2>4. QED
    BY <1>0, <1>2, <2>2, <2>3, FlowOtherSame
<1>6. CASE CommitFlowFails(h)
  <2>1. Numbered(h) /\ UNCHANGED <<flowRow, flowVersion, flowBegun>>
    BY <1>6 DEF CommitFlowFails, FlowAt, Numbered, Inserted
  <2>2. Numbered(g) => flowArgo'[flowReq[g].number] = flowArgo[flowReq[g].number]
    BY <1>1, <1>2, <1>3, <1>6, <2>1 DEF CommitFlowFails, FlowApart
  <2>3. Numbered(g) /\ flowReq[g].step \in {"unlabel", "commit"} => flowArgo'[flowReq[g].number] # "None"
    BY <1>1, <2>2 DEF FlowRequestOK
  <2>4. QED
    BY <1>0, <1>2, <2>1, <2>3, FlowOtherSame
<1>7. CASE DeleteVersion(h)
  <2>1. flowReq[h].op = "archive" /\ UNCHANGED <<flowRow, flowVersion, flowBegun>>
    BY <1>7 DEF DeleteVersion, FlowAt
  <2>2. \A n \in flowReq[h].seen : flowVersion[n].row # NoRow
    BY <1>1, <2>1 DEF FlowRequestOK
  <2>3. Numbered(g) => flowArgo'[flowReq[g].number] = flowArgo[flowReq[g].number]
    BY <1>2, <1>3, <1>7, <2>2 DEF DeleteVersion
  <2>4. Numbered(g) /\ flowReq[g].step \in {"unlabel", "commit"} => flowArgo'[flowReq[g].number] # "None"
    BY <1>1, <2>3 DEF FlowRequestOK
  <2>5. QED
    BY <1>0, <1>2, <2>1, <2>4, FlowOtherSame
<1>8. CASE CommitFlow(h) \/ CommitVersion(h)
  <2> DEFINE n == flowReq[h].number
             t == flowReq[h].row
  <2>1. /\ Numbered(h) /\ t \in FlowRows /\ n \in FlowNumbers /\ flowVersion[n].row = NoRow
        /\ UNCHANGED <<flowClock, flowArgo, flowBegun>>
    BY <1>1, <1>8 DEF CommitFlow, CommitVersion, FlowAt, Numbered, Inserted, HoldsVersions, FlowRequestOK,
                      FlowNumbers
  <2>2. \A k \in FlowNumbers : flowVersion'[k].row = IF k = n THEN t ELSE flowVersion[k].row
    BY <1>2, <1>8, <2>1 DEF CommitFlow, CommitVersion
  <2>3. \A u \in FlowRows : VersionsOf(u)' = IF u = t THEN VersionsOf(u) \cup {n} ELSE VersionsOf(u)
    BY <1>1, <2>1, <2>2 DEF VersionsOf
  <2>4. \A u \in FlowRows \ {t} : flowRow'[u] = flowRow[u]
    BY <1>2, <1>8 DEF CommitFlow, CommitVersion
  <2>5. flowRow'[t] # "Absent" /\ (flowReq[h].op # "create" => flowRow' = flowRow)
    BY <1>1, <1>2, <1>8, <2>1 DEF CommitFlow, CommitVersion, FlowAt, FlowRequestOK
  <2>6. Inserted(g)' = Inserted(g) /\ Numbered(g)' = Numbered(g)
    BY <1>0 DEF Inserted, Numbered, HoldsVersions
  <2>7. /\ flowReq[g].op = "create" => flowReq[g].row # t
        /\ Numbered(g) => flowReq[g].row # t /\ flowReq[g].number # n
        /\ Inserted(g) => flowReq[h].op # "create"
    BY <1>1, <1>8, <2>1 DEF FlowApart, Inserted, CommitFlow, CommitVersion, FlowAt
  <2>8. CASE flowReq[g].op = "create"
    <3>1. flowReq[g].row \in FlowRows /\ VersionsOf(flowReq[g].row)' = VersionsOf(flowReq[g].row)
          /\ flowRow'[flowReq[g].row] = "Absent" /\ (Inserted(g) => LiveRows' = {})
      BY <1>0, <1>1, <2>3, <2>4, <2>5, <2>7, <2>8 DEF FlowRequestOK, LiveRows
    <3>2. Numbered(g) => flowVersion'[flowReq[g].number].row = NoRow
      BY <1>3, <2>2, <2>7
    <3>3. QED
      BY <1>0, <1>1, <2>1, <2>6, <2>8, <3>1, <3>2 DEF FlowRequestOK
  <2>9. CASE flowReq[g].op = "version"
    <3>1. /\ flowReq[g].row \in FlowRows
          /\ VersionsOf(flowReq[g].row) \subseteq VersionsOf(flowReq[g].row)'
          /\ Numbered(g) => VersionsOf(flowReq[g].row)' = VersionsOf(flowReq[g].row)
          /\ flowRow'[flowReq[g].row] # "Absent"
      BY <1>0, <1>1, <2>3, <2>4, <2>5, <2>7, <2>9 DEF FlowRequestOK
    <3>2. Numbered(g) => flowVersion'[flowReq[g].number].row = NoRow
      BY <1>3, <2>2, <2>7
    <3>3. QED
      BY <1>0, <1>1, <2>1, <2>6, <2>9, <3>1, <3>2 DEF FlowRequestOK
  <2>10. CASE flowReq[g].op = "archive"
    <3>1. \A k \in flowReq[g].seen : k # n /\ k \in FlowNumbers
      BY <1>1, <2>1, <2>10 DEF FlowRequestOK, FlowRequests
    <3>2. ~Numbered(g)
      BY <2>10 DEF Numbered, Inserted, HoldsVersions
    <3>3. QED
      BY <1>0, <1>1, <2>1, <2>2, <2>6, <2>10, <3>1, <3>2 DEF FlowRequestOK
  <2>11. CASE flowReq[g].op = "idle"
    BY <1>0, <2>6, <2>11 DEF FlowRequestOK, Numbered, Inserted, HoldsVersions
  <2>12. QED
    BY <1>1, <2>8, <2>9, <2>10, <2>11 DEF FlowRequests
<1>9. CASE MarkArchived(h)
  <2>1. /\ UNCHANGED <<flowVersion, flowArgo, flowClock, flowBegun>>
        /\ \A u \in FlowRows : flowRow'[u] = "Absent" <=> flowRow[u] = "Absent"
        /\ LiveRows' = {}
    BY <1>2, <1>9 DEF MarkArchived, LiveRows
  <2>2. VersionsOf(flowReq[g].row)' = VersionsOf(flowReq[g].row)
        /\ Inserted(g)' = Inserted(g) /\ Numbered(g)' = Numbered(g)
    BY <1>0, <2>1 DEF VersionsOf, Inserted, Numbered, HoldsVersions
  <2>3. QED
    BY <1>0, <1>1, <2>1, <2>2 DEF FlowRequestOK
<1>10. QED
  BY <1>4, <1>5, <1>6, <1>7, <1>8, <1>9
     DEF FlowStep, FlowAdvance, CreateFlow, AddVersion, FindFlow, InsertFlow, OutdateVersions, LockVersions,
         ReadLatest, ListVersions, BreakOff

LEMMA FlowIdleOK ==
    ASSUME NEW h \in FlowHandlers, flowReq'[h] = FlowIdle
    PROVE  FlowRequestOK(h)' /\ ~Inserted(h)' /\ ~Numbered(h)'
  BY DEF FlowIdle, FlowRequestOK, Inserted, Numbered, HoldsVersions

LEMMA FlowSelfKept ==
    ASSUME FlowInv, NEW h \in FlowHandlers, FlowStep(h)
    PROVE  FlowRequestOK(h)'
<1>0. FlowTypeOK' /\ FlowTypeOK /\ FlowStoreOK
  BY FlowTypeKept DEF FlowInv
<1>1. /\ FlowRequestOK(h) /\ flowReq[h] \in FlowRequests
      /\ flowBegun \subseteq FlowRows /\ NoRow \notin FlowRows
      /\ flowClock \in 0..MaxFlowVersions /\ MaxFlowVersions \in Nat /\ flowClock' \in 0..MaxFlowVersions
  BY <1>0, FlowFacts DEF FlowTypeOK
<1>2. /\ flowReq \in [FlowHandlers -> FlowRequests]
      /\ flowArgo \in [FlowNumbers -> {"None", "Plain", "Latest"}]
      /\ flowVersion \in [FlowNumbers -> [row : FlowRows \cup {NoRow}, latest : BOOLEAN]]
  BY <1>0 DEF FlowTypeOK
<1>3. CASE FlowDone(h)
  <2>1. flowReq'[h] = FlowIdle
    BY <1>2, <1>3 DEF FlowDone
  <2>2. QED
    BY <2>1, FlowIdleOK
<1>4. CASE \E t \in FlowRows : CreateFlow(h, t) \/ AddVersion(h, t)
  <2>1. PICK t \in FlowRows : CreateFlow(h, t) \/ AddVersion(h, t)
    BY <1>4
  <2>2. UNCHANGED <<flowRow, flowVersion>>
    BY <2>1 DEF CreateFlow, AddVersion
  <2>3. CASE CreateFlow(h, t)
    <3>1. flowReq'[h] = [FlowIdle EXCEPT !.op = "create", !.step = "insert", !.row = t]
          /\ flowRow'[t] = "Absent"
      BY <1>2, <2>3 DEF CreateFlow, FlowStart
    <3>2. QED
      BY <3>1 DEF FlowIdle, FlowRequestOK, Inserted, Numbered, HoldsVersions
  <2>4. CASE AddVersion(h, t)
    <3>1. flowReq'[h] = [FlowIdle EXCEPT !.op = "version", !.step = "outdate", !.row = t]
          /\ flowRow'[t] # "Absent"
      BY <1>2, <2>4 DEF AddVersion, FlowStart, LiveRows
    <3>2. QED
      BY <3>1 DEF FlowIdle, FlowRequestOK, Inserted, Numbered, HoldsVersions
  <2>5. QED
    BY <2>1, <2>3, <2>4
<1>5. CASE FindFlow(h)
  <2>1. PICK t : flowReq'[h] = [FlowIdle EXCEPT !.op = "archive", !.step = "list", !.row = t]
    BY <1>2, <1>5 DEF FindFlow, FlowStart
  <2>2. QED
    BY <2>1 DEF FlowIdle, FlowRequestOK, Inserted, Numbered, HoldsVersions
<1>6. ASSUME flowClock' = flowClock + 1
      PROVE  flowClock + 1 \in 1..flowClock' /\ flowVersion[flowClock + 1].row = NoRow
             /\ \A u : \A n \in VersionsOf(u) : u # NoRow => n < flowClock + 1
  <2>1. flowClock + 1 \in FlowNumbers
    BY <1>1, <1>6 DEF FlowNumbers
  <2>2. \A n \in FlowNumbers : flowVersion[n].row # NoRow => n <= flowClock
    BY <1>0 DEF FlowStoreOK
  <2>3. \A n \in FlowNumbers : n \in Nat
    BY DEF FlowNumbers
  <2>4. QED
    BY <1>1, <1>6, <2>1, <2>2, <2>3 DEF VersionsOf
<1>7. CASE InsertFlow(h) /\ LiveRows = {} /\ NumberVersion(h, "argo")
  <2>1. /\ flowReq'[h] = [flowReq[h] EXCEPT !.step = "argo", !.number = flowClock + 1]
        /\ flowClock' = flowClock + 1 /\ UNCHANGED <<flowRow, flowVersion>>
        /\ flowReq[h].op = "create"
    BY <1>2, <1>7 DEF InsertFlow, NumberVersion, FlowAt
  <2>2. /\ flowReq'[h].op = "create" /\ flowReq'[h].row = flowReq[h].row /\ flowReq'[h].step = "argo"
        /\ flowReq'[h].number = flowClock + 1
    BY <1>1, <2>1 DEF FlowRequests
  <2>3. LiveRows' = {} /\ VersionsOf(flowReq[h].row)' = VersionsOf(flowReq[h].row)
    BY <1>7, <2>1, <2>2 DEF LiveRows, VersionsOf
  <2>4. QED
    BY <1>1, <1>6, <2>1, <2>2, <2>3 DEF FlowRequestOK, Inserted, Numbered, HoldsVersions
<1>8. CASE CreateArgoTemplate(h)
  <2>1. /\ flowReq'[h] = [flowReq[h] EXCEPT !.step = IF flowReq[h].op = "create" THEN "commit" ELSE "unlabel"]
        /\ UNCHANGED <<flowRow, flowVersion, flowClock, flowBegun>> /\ flowReq[h].step = "argo"
        /\ flowArgo' = [flowArgo EXCEPT ![flowReq[h].number] = "Latest"]
    BY <1>2, <1>8 DEF CreateArgoTemplate, FlowMove
  <2>2. /\ flowReq'[h].op = flowReq[h].op /\ flowReq'[h].row = flowReq[h].row
        /\ flowReq'[h].number = flowReq[h].number /\ flowReq'[h].seen = flowReq[h].seen
        /\ flowReq'[h].step = IF flowReq[h].op = "create" THEN "commit" ELSE "unlabel"
    BY <1>1, <2>1 DEF FlowRequests
  <2>3. LiveRows' = LiveRows /\ VersionsOf(flowReq[h].row)' = VersionsOf(flowReq[h].row)
    BY <2>1, <2>2 DEF LiveRows, VersionsOf
  <2>4. Inserted(h)' = Inserted(h) /\ Numbered(h)' = Numbered(h)
    BY <2>1, <2>2 DEF Inserted, Numbered, HoldsVersions
  <2>5. Numbered(h) => flowReq[h].number \in FlowNumbers
    BY <1>1 DEF FlowRequestOK, FlowNumbers
  <2>6. Numbered(h) => flowArgo'[flowReq[h].number] # "None"
    BY <1>2, <2>1, <2>5
  <2>7. QED
    BY <1>1, <2>1, <2>2, <2>3, <2>4, <2>6 DEF FlowRequestOK
<1>9. CASE OutdateVersions(h)
  <2>1. /\ flowReq'[h] = [flowReq[h] EXCEPT !.step = "lock", !.seen = VersionsOf(flowReq[h].row)]
        /\ flowReq[h].op = "version" /\ UNCHANGED <<flowRow, flowVersion>>
    BY <1>2, <1>9 DEF OutdateVersions, FlowAt
  <2>2. /\ flowReq'[h].op = "version" /\ flowReq'[h].row = flowReq[h].row /\ flowReq'[h].step = "lock"
        /\ flowReq'[h].seen = VersionsOf(flowReq[h].row)
    BY <1>1, <2>1 DEF FlowRequests
  <2>3. VersionsOf(flowReq[h].row)' = VersionsOf(flowReq[h].row)
    BY <2>1, <2>2 DEF VersionsOf
  <2>4. QED
    BY <1>1, <2>1, <2>2, <2>3 DEF FlowRequestOK, Inserted, Numbered, HoldsVersions
<1>10. CASE LockVersions(h)
  <2>1. /\ flowReq'[h] = [flowReq[h] EXCEPT !.step = "latest", !.number = flowClock + 1]
        /\ flowClock' = flowClock + 1 /\ UNCHANGED <<flowRow, flowVersion>>
        /\ flowReq[h].op = "version"
    BY <1>2, <1>10 DEF LockVersions, NumberVersion, FlowAt
  <2>2. /\ flowReq'[h].op = "version" /\ flowReq'[h].row = flowReq[h].row /\ flowReq'[h].step = "latest"
        /\ flowReq'[h].number = flowClock + 1 /\ flowReq'[h].seen = flowReq[h].seen
    BY <1>1, <2>1 DEF FlowRequests
  <2>3. VersionsOf(flowReq[h].row)' = VersionsOf(flowReq[h].row)
    BY <2>1, <2>2 DEF VersionsOf
  <2>4. QED
    BY <1>1, <1>6, <2>1, <2>2, <2>3 DEF FlowRequestOK, Inserted, Numbered, HoldsVersions
<1>11. ASSUME NEW r, flowReq'[h] = r, UNCHANGED <<flowRow, flowVersion, flowClock, flowBegun>>,
              r.op = flowReq[h].op, r.row = flowReq[h].row, r.number = flowReq[h].number,
              r.seen \subseteq flowReq[h].seen,
              \/ Numbered(h) /\ r.step # "insert"
              \/ r.op = "archive",
              r.step \in {"unlabel", "commit"} => flowArgo'[r.number] # "None"
       PROVE  FlowRequestOK(h)'
  <2>1. LiveRows' = LiveRows /\ VersionsOf(flowReq[h].row)' = VersionsOf(flowReq[h].row)
    BY <1>11 DEF LiveRows, VersionsOf
  <2>2. (r.op = "archive" => ~Numbered(h)') /\ (Inserted(h)' => Inserted(h) \/ r.op = "archive")
    BY <1>11 DEF Inserted, Numbered, HoldsVersions
  <2>3. QED
    BY <1>1, <1>11, <2>1, <2>2 DEF FlowRequestOK, Inserted, Numbered, HoldsVersions
<1>12. CASE ReadLatest(h) /\ ~FlowDone(h)
  <2>1. PICK n \in FlowNumbers : flowReq'[h] = [flowReq[h] EXCEPT !.step = "argo", !.older = n]
    BY <1>2, <1>12 DEF ReadLatest
  <2>2. /\ flowReq'[h].op = flowReq[h].op /\ flowReq'[h].row = flowReq[h].row
        /\ flowReq'[h].number = flowReq[h].number /\ flowReq'[h].seen = flowReq[h].seen
        /\ flowReq'[h].step = "argo"
    BY <1>1, <2>1 DEF FlowRequests
  <2>3. Numbered(h) /\ UNCHANGED <<flowRow, flowVersion, flowClock, flowBegun>>
    BY <1>12 DEF ReadLatest, FlowAt, Numbered, HoldsVersions
  <2>4. QED
    BY <1>11, <2>2, <2>3
<1>13. CASE UnlabelOlder(h) /\ ~FlowDone(h)
  <2>1. flowReq'[h] = [flowReq[h] EXCEPT !.step = "commit"]
    BY <1>2, <1>13 DEF UnlabelOlder, FlowMove
  <2>2. /\ flowReq'[h].op = flowReq[h].op /\ flowReq'[h].row = flowReq[h].row
        /\ flowReq'[h].number = flowReq[h].number /\ flowReq'[h].seen = flowReq[h].seen
        /\ flowReq'[h].step = "commit"
    BY <1>1, <2>1 DEF FlowRequests
  <2>3. /\ Numbered(h) /\ flowReq[h].step = "unlabel"
        /\ UNCHANGED <<flowRow, flowVersion, flowClock, flowBegun>>
        /\ \A n \in FlowNumbers : flowArgo[n] # "None" => flowArgo'[n] # "None"
    BY <1>2, <1>13 DEF UnlabelOlder, FlowAt, Numbered, HoldsVersions
  <2>4. flowReq[h].number \in FlowNumbers /\ flowArgo[flowReq[h].number] # "None"
    BY <1>1, <2>3 DEF FlowRequestOK, FlowNumbers
  <2>5. flowArgo'[flowReq[h].number] # "None"
    BY <2>3, <2>4
  <2>6. QED
    BY <1>11, <2>2, <2>3, <2>5
<1>14. CASE ListVersions(h)
  <2>1. /\ flowReq'[h] = [flowReq[h] EXCEPT !.step = "delete",
                            !.seen = UNION {VersionsOf(t) : t \in LiveRows}]
        /\ flowReq[h].op = "archive" /\ UNCHANGED <<flowRow, flowVersion>>
        /\ flowBegun' = flowBegun \cup LiveRows
    BY <1>2, <1>14 DEF ListVersions, FlowAt
  <2>2. flowReq'[h].op = "archive" /\ flowReq'[h].seen = UNION {VersionsOf(t) : t \in LiveRows}
    BY <1>1, <2>1 DEF FlowRequests
  <2>3. \A n \in flowReq'[h].seen : flowVersion[n].row \in LiveRows
    BY <2>2 DEF VersionsOf
  <2>4. QED
    BY <2>1, <2>2, <2>3 DEF FlowRequestOK, Inserted, Numbered, HoldsVersions
<1>15. CASE DeleteVersion(h) /\ ~FlowDone(h)
  <2>1. PICK n : flowReq'[h] = [flowReq[h] EXCEPT !.seen = flowReq[h].seen \ {n}]
    BY <1>2, <1>15 DEF DeleteVersion
  <2>2. /\ flowReq'[h].op = flowReq[h].op /\ flowReq'[h].row = flowReq[h].row
        /\ flowReq'[h].number = flowReq[h].number /\ flowReq'[h].seen \subseteq flowReq[h].seen
        /\ flowReq'[h].step = flowReq[h].step
    BY <1>1, <2>1 DEF FlowRequests
  <2>3. flowReq[h].op = "archive" /\ flowReq[h].step = "delete"
        /\ UNCHANGED <<flowRow, flowVersion, flowClock, flowBegun>>
    BY <1>15 DEF DeleteVersion, FlowAt
  <2>4. QED
    BY <1>11, <2>2, <2>3
<1>16. QED
  BY <1>3, <1>4, <1>5, <1>7, <1>8, <1>9, <1>10, <1>12, <1>13, <1>14, <1>15
     DEF FlowStep, FlowAdvance, InsertFlow, CommitFlow, CommitVersion, MarkArchived, CommitFlowFails, BreakOff

(* A request that keeps its row and its number, or ends, and numbers no     *)
(* version, stays apart from the others.                                    *)
LEMMA FlowApartSame ==
    ASSUME FlowInv, NEW h \in FlowHandlers, NEW g \in FlowHandlers \ {h}, flowReq'[g] = flowReq[g],
           \/ flowReq'[h] = FlowIdle
           \/ /\ flowReq'[h].op = flowReq[h].op /\ flowReq'[h].row = flowReq[h].row
              /\ Inserted(h)' => Inserted(h)
              /\ Numbered(h)' => Numbered(h) /\ flowReq'[h].number = flowReq[h].number
    PROVE  FlowApart(g, h)' /\ FlowApart(h, g)'
<1>1. FlowApart(g, h) /\ FlowApart(h, g) /\ FlowRequestOK(g) /\ NoRow \notin FlowRows
  BY FlowFacts
<1>2. Inserted(g)' = Inserted(g) /\ Numbered(g)' = Numbered(g)
  BY DEF Inserted, Numbered, HoldsVersions
<1>3. CASE flowReq'[h] = FlowIdle
  <2>1. ~Inserted(h)' /\ ~Numbered(h)' /\ flowReq'[h].row = NoRow /\ flowReq'[h].op = "idle"
    BY <1>3, FlowIdleOK DEF FlowIdle
  <2>2. flowReq[g].op = "create" => flowReq[g].row # NoRow
    BY <1>1 DEF FlowRequestOK
  <2>3. QED
    BY <1>2, <2>1, <2>2 DEF FlowApart
<1>4. CASE flowReq'[h] # FlowIdle
  BY <1>1, <1>2, <1>4 DEF FlowApart
<1>5. QED
  BY <1>3, <1>4

LEMMA FlowApartKept ==
    ASSUME FlowInv, NEW h \in FlowHandlers, FlowStep(h), NEW g \in FlowHandlers \ {h}
    PROVE  FlowApart(g, h)' /\ FlowApart(h, g)'
<1>0. flowReq'[g] = flowReq[g]
  BY FlowTypeKept DEF FlowReqOK, FlowInv
<1>1. /\ FlowApart(g, h) /\ FlowApart(h, g) /\ FlowRequestOK(g) /\ FlowRequestOK(h)
      /\ flowReq[g] \in FlowRequests /\ flowReq[h] \in FlowRequests
      /\ NoRow \notin FlowRows /\ flowClock \in 0..MaxFlowVersions /\ MaxFlowVersions \in Nat
  BY FlowFacts
<1>2. flowReq \in [FlowHandlers -> FlowRequests]
  BY DEF FlowInv, FlowTypeOK
<1>3. Inserted(g)' = Inserted(g) /\ Numbered(g)' = Numbered(g)
  BY <1>0 DEF Inserted, Numbered, HoldsVersions
<1>4. CASE FlowDone(h)
  <2>1. flowReq'[h] = FlowIdle
    BY <1>2, <1>4 DEF FlowDone
  <2>2. QED
    BY <1>0, <2>1, FlowApartSame
<1>5. CASE \E t \in FlowRows : CreateFlow(h, t) \/ AddVersion(h, t)
  <2>1. PICK t \in FlowRows : CreateFlow(h, t) \/ AddVersion(h, t)
    BY <1>5
  <2>2. CASE CreateFlow(h, t)
    <3>1. flowReq'[h] = [FlowIdle EXCEPT !.op = "create", !.step = "insert", !.row = t]
          /\ flowReq[g].row # t
      BY <1>2, <2>2 DEF CreateFlow, FlowStart
    <3>2. ~Inserted(h)' /\ ~Numbered(h)' /\ flowReq'[h].row = t
      BY <3>1 DEF FlowIdle, Inserted, Numbered, HoldsVersions
    <3>3. QED
      BY <1>0, <3>1, <3>2 DEF FlowApart
  <2>3. CASE AddVersion(h, t)
    <3>1. flowReq'[h] = [FlowIdle EXCEPT !.op = "version", !.step = "outdate", !.row = t]
          /\ flowRow[t] = "Live"
      BY <1>2, <2>3 DEF AddVersion, FlowStart, LiveRows
    <3>2. ~Inserted(h)' /\ ~Numbered(h)' /\ flowReq'[h].row = t /\ flowReq'[h].op = "version"
      BY <3>1 DEF FlowIdle, Inserted, Numbered, HoldsVersions
    <3>3. flowReq[g].op = "create" => flowReq[g].row # t
      BY <1>1, <3>1 DEF FlowRequestOK
    <3>4. QED
      BY <1>0, <3>2, <3>3 DEF FlowApart
  <2>4. QED
    BY <2>1, <2>2, <2>3
<1>6. CASE FindFlow(h)
  <2>1. PICK t \in FlowRows : /\ flowRow[t] = "Live"
                              /\ flowReq'[h] = [FlowIdle EXCEPT !.op = "archive", !.step = "list", !.row = t]
    BY <1>2, <1>6 DEF FindFlow, FlowStart, LiveRows
  <2>2. ~Inserted(h)' /\ ~Numbered(h)' /\ flowReq'[h].row = t /\ flowReq'[h].op = "archive"
    BY <2>1 DEF FlowIdle, Inserted, Numbered, HoldsVersions
  <2>3. flowReq[g].op = "create" => flowReq[g].row # t
    BY <1>1, <2>1 DEF FlowRequestOK
  <2>4. QED
    BY <1>0, <2>2, <2>3 DEF FlowApart
<1>7. CASE (InsertFlow(h) \/ LockVersions(h)) /\ ~FlowDone(h)
  <2>1. PICK step \in {"argo", "latest"} : NumberVersion(h, step)
    BY <1>7 DEF InsertFlow, LockVersions
  <2>2. /\ flowReq'[h].op = flowReq[h].op /\ flowReq'[h].row = flowReq[h].row
        /\ flowReq'[h].number = flowClock + 1
    BY <1>1, <1>2, <2>1 DEF NumberVersion, FlowRequests
  <2>3. Numbered(g) => flowReq[g].number # flowClock + 1
    BY <1>1 DEF FlowRequestOK
  <2>4. CASE InsertFlow(h)
    <3>1. ~Inserted(g) /\ flowReq[h].op = "create"
      BY <2>4 DEF InsertFlow, InsertPending, FlowAt
    <3>2. QED
      BY <1>0, <1>1, <1>3, <2>2, <2>3, <3>1 DEF FlowApart
  <2>5. CASE LockVersions(h)
    <3>1. flowReq[h].op = "version" /\ ~HoldsVersions(g, flowReq[h].row)
      BY <2>5 DEF LockVersions, FlowAt
    <3>2. Numbered(g) => flowReq[g].row # flowReq[h].row
      BY <1>1, <3>1 DEF FlowApart, Numbered, Inserted
    <3>3. ~Inserted(h)'
      BY <2>2, <3>1 DEF Inserted
    <3>4. QED
      BY <1>0, <1>1, <1>3, <2>2, <2>3, <3>1, <3>2, <3>3 DEF FlowApart
  <2>6. QED
    BY <1>7, <2>4, <2>5
<1>8. CASE CreateArgoTemplate(h)
  <2>1. /\ flowReq[h].step = "argo"
        /\ flowReq'[h] = [flowReq[h] EXCEPT !.step = IF flowReq[h].op = "create" THEN "commit" ELSE "unlabel"]
    BY <1>2, <1>8 DEF CreateArgoTemplate, FlowMove
  <2>2. /\ flowReq'[h].op = flowReq[h].op /\ flowReq'[h].row = flowReq[h].row
        /\ flowReq'[h].number = flowReq[h].number
    BY <1>1, <2>1 DEF FlowRequests
  <2>3. (Inserted(h)' => Inserted(h)) /\ (Numbered(h)' => Numbered(h))
    BY <2>1, <2>2 DEF Inserted, Numbered, HoldsVersions
  <2>4. QED
    BY <1>0, <2>2, <2>3, FlowApartSame
<1>9. CASE OutdateVersions(h)
  <2>1. /\ flowReq[h].op = "version"
        /\ flowReq'[h] = [flowReq[h] EXCEPT !.step = "lock", !.seen = VersionsOf(flowReq[h].row)]
    BY <1>2, <1>9 DEF OutdateVersions, FlowAt
  <2>2. flowReq'[h].op = flowReq[h].op /\ flowReq'[h].row = flowReq[h].row /\ flowReq'[h].step = "lock"
    BY <1>1, <2>1 DEF FlowRequests
  <2>3. ~Inserted(h)' /\ ~Numbered(h)'
    BY <2>1, <2>2 DEF Inserted, Numbered, HoldsVersions
  <2>4. QED
    BY <1>0, <2>2, <2>3, FlowApartSame
<1>10. CASE ReadLatest(h) /\ ~FlowDone(h)
  <2>1. PICK n \in FlowNumbers : flowReq'[h] = [flowReq[h] EXCEPT !.step = "argo", !.older = n]
    BY <1>2, <1>10 DEF ReadLatest
  <2>2. /\ flowReq'[h].op = flowReq[h].op /\ flowReq'[h].row = flowReq[h].row
        /\ flowReq'[h].number = flowReq[h].number
    BY <1>1, <2>1 DEF FlowRequests
  <2>3. Numbered(h) /\ flowReq[h].op = "version"
    BY <1>10 DEF ReadLatest, FlowAt, Numbered, HoldsVersions
  <2>4. QED
    BY <1>0, <2>2, <2>3, FlowApartSame DEF Inserted
<1>11. CASE UnlabelOlder(h) /\ ~FlowDone(h)
  <2>1. flowReq'[h] = [flowReq[h] EXCEPT !.step = "commit"]
    BY <1>2, <1>11 DEF UnlabelOlder, FlowMove
  <2>2. /\ flowReq'[h].op = flowReq[h].op /\ flowReq'[h].row = flowReq[h].row
        /\ flowReq'[h].number = flowReq[h].number
    BY <1>1, <2>1 DEF FlowRequests
  <2>3. Numbered(h) /\ flowReq[h].op = "version"
    BY <1>11 DEF UnlabelOlder, FlowAt, Numbered, HoldsVersions
  <2>4. QED
    BY <1>0, <2>2, <2>3, FlowApartSame DEF Inserted
<1>12. CASE (ListVersions(h) \/ DeleteVersion(h)) /\ ~FlowDone(h)
  <2>1. flowReq[h].op = "archive"
    BY <1>12 DEF ListVersions, DeleteVersion, FlowAt
  <2>2. flowReq'[h].op = flowReq[h].op /\ flowReq'[h].row = flowReq[h].row
    BY <1>1, <1>2, <1>12 DEF ListVersions, DeleteVersion, FlowRequests
  <2>3. ~Inserted(h)' /\ ~Numbered(h)'
    BY <2>1, <2>2 DEF Inserted, Numbered, HoldsVersions
  <2>4. QED
    BY <1>0, <2>2, <2>3, FlowApartSame
<1>13. QED
  BY <1>4, <1>5, <1>6, <1>7, <1>8, <1>9, <1>10, <1>11, <1>12
     DEF FlowStep, FlowAdvance, InsertFlow, CommitFlow, CommitVersion, MarkArchived, CommitFlowFails, BreakOff

----------------------------------------------------------------------------
(* The rows.                                                                *)

(* What a commit does to the versions, and what it needs.                   *)
LEMMA FlowCommit ==
    ASSUME FlowInv, NEW h \in FlowHandlers, CommitFlow(h) \/ CommitVersion(h)
    PROVE  LET n == flowReq[h].number
               t == flowReq[h].row
           IN  /\ t \in FlowRows /\ n \in FlowNumbers /\ n <= flowClock /\ flowArgo[n] # "None"
               /\ flowVersion[n].row = NoRow /\ \A k \in VersionsOf(t) : k < n
               /\ \A u \in FlowRows : VersionsOf(u)' = IF u = t THEN VersionsOf(u) \cup {n} ELSE VersionsOf(u)
               /\ flowVersion'[n] = [row |-> t, latest |-> TRUE]
               /\ \A k \in FlowNumbers \ {n} : flowVersion'[k].row = flowVersion[k].row
               /\ \A u \in FlowRows \ {t} : \A k \in VersionsOf(u) : flowVersion'[k] = flowVersion[k]
               /\ \A u \in FlowRows \ {t} : flowRow'[u] = flowRow[u]
               /\ flowRow'[t] # "Absent"
<1> DEFINE n == flowReq[h].number
           t == flowReq[h].row
<1>0. /\ FlowRequestOK(h) /\ flowReq[h] \in FlowRequests
      /\ NoRow \notin FlowRows /\ flowClock \in 0..MaxFlowVersions /\ MaxFlowVersions \in Nat
  BY FlowFacts
<1>1. /\ flowVersion \in [FlowNumbers -> [row : FlowRows \cup {NoRow}, latest : BOOLEAN]]
      /\ flowRow \in [FlowRows -> {"Absent", "Live", "Archived"}]
  BY DEF FlowInv, FlowTypeOK
<1>2. Numbered(h) /\ flowReq[h].step = "commit"
  BY DEF CommitFlow, CommitVersion, FlowAt, Numbered, Inserted, HoldsVersions
<1>3. /\ t \in FlowRows /\ n \in FlowNumbers /\ n <= flowClock /\ flowArgo[n] # "None"
      /\ flowVersion[n].row = NoRow /\ \A k \in VersionsOf(t) : k < n
  BY <1>0, <1>2 DEF FlowRequestOK, FlowNumbers, CommitFlow, CommitVersion, FlowAt
<1>4. flowVersion'[n] = [row |-> t, latest |-> TRUE]
      /\ \A k \in FlowNumbers \ {n} : flowVersion'[k].row = flowVersion[k].row
  <2>1. CASE CommitFlow(h)
    BY <1>1, <1>3, <2>1 DEF CommitFlow
  <2>2. CASE CommitVersion(h)
    BY <1>1, <1>3, <2>2 DEF CommitVersion
  <2>3. QED
    BY <2>1, <2>2
<1>5. \A u \in FlowRows : VersionsOf(u)' = IF u = t THEN VersionsOf(u) \cup {n} ELSE VersionsOf(u)
  BY <1>0, <1>3, <1>4 DEF VersionsOf
<1>6. \A u \in FlowRows \ {t} : \A k \in VersionsOf(u) : flowVersion'[k] = flowVersion[k]
  <2>1. CASE CommitFlow(h)
    BY <1>0, <1>1, <1>3, <2>1 DEF CommitFlow, VersionsOf
  <2>2. CASE CommitVersion(h)
    <3>1. flowReq[h].seen \subseteq VersionsOf(t)
      BY <1>0, <2>2 DEF CommitVersion, FlowAt, FlowRequestOK
    <3>2. QED
      BY <1>0, <1>1, <1>3, <2>2, <3>1 DEF CommitVersion, VersionsOf
  <2>3. QED
    BY <2>1, <2>2
<1>7. \A u \in FlowRows \ {t} : flowRow'[u] = flowRow[u]
  BY <1>1 DEF CommitFlow, CommitVersion
<1>8. flowRow'[t] # "Absent"
  BY <1>0, <1>1, <1>3 DEF CommitFlow, CommitVersion, FlowRequestOK, FlowAt
<1>9. QED
  BY <1>3, <1>4, <1>5, <1>6, <1>7, <1>8

LEMMA FlowStoreKept ==
    ASSUME FlowInv, NEW h \in FlowHandlers, FlowStep(h)
    PROVE  FlowStoreOK' /\ NewestIsLatest' /\ VersionRunnable'
<1>0. flowClock <= flowClock' /\ flowClock' \in 0..MaxFlowVersions
  BY FlowTypeKept DEF FlowInv, FlowTypeOK
<1>1. /\ FlowStoreOK /\ NewestIsLatest /\ VersionRunnable
      /\ FlowRequestOK(h) /\ flowReq[h] \in FlowRequests
      /\ NoRow \notin FlowRows /\ flowClock \in 0..MaxFlowVersions /\ MaxFlowVersions \in Nat
      /\ flowBegun \subseteq FlowRows
  BY FlowFacts DEF FlowInv
<1>2. /\ flowVersion \in [FlowNumbers -> [row : FlowRows \cup {NoRow}, latest : BOOLEAN]]
      /\ flowRow \in [FlowRows -> {"Absent", "Live", "Archived"}]
      /\ flowArgo \in [FlowNumbers -> {"None", "Plain", "Latest"}]
      /\ \A n \in FlowNumbers : n \in Nat
  BY DEF FlowInv, FlowTypeOK, FlowNumbers
<1>3. CASE CommitFlow(h) \/ CommitVersion(h)
  <2> DEFINE n == flowReq[h].number
             t == flowReq[h].row
  <2>1. /\ t \in FlowRows /\ n \in FlowNumbers /\ n <= flowClock /\ flowArgo[n] # "None"
        /\ \A k \in VersionsOf(t) : k < n
        /\ \A u \in FlowRows : VersionsOf(u)' = IF u = t THEN VersionsOf(u) \cup {n} ELSE VersionsOf(u)
        /\ flowVersion'[n] = [row |-> t, latest |-> TRUE]
        /\ \A k \in FlowNumbers \ {n} : flowVersion'[k].row = flowVersion[k].row
        /\ \A u \in FlowRows \ {t} : \A k \in VersionsOf(u) : flowVersion'[k] = flowVersion[k]
        /\ \A u \in FlowRows \ {t} : flowRow'[u] = flowRow[u]
        /\ flowRow'[t] # "Absent"
    BY <1>3, FlowCommit
  <2>2. UNCHANGED <<flowArgo, flowClock, flowBegun>>
    BY <1>3 DEF CommitFlow, CommitVersion
  <2>3. t \in LiveRows' \ flowBegun' => t \in LiveRows \ flowBegun \/ VersionsOf(t) = {}
    BY <1>1, <1>2, <1>3, <2>1, <2>2 DEF LiveRows, CommitFlow, CommitVersion, FlowRequestOK, FlowAt, FlowStoreOK
  <2> HIDE DEF n, t
  <2>4. FlowStoreOK'
    BY <1>1, <2>1, <2>2 DEF FlowStoreOK
  <2>5. ASSUME NEW u \in LiveRows'
        PROVE  \E m \in VersionsOf(u)' : flowVersion'[m].latest /\ \A k \in VersionsOf(u)' : k <= m
    <3>1. CASE u = t
      <4>1. VersionsOf(u)' = VersionsOf(u) \cup {n}
        BY <2>1, <3>1
      <4>2. \A k \in VersionsOf(u) : k <= n
        BY <1>2, <2>1, <3>1 DEF VersionsOf
      <4>3. n <= n
        BY <1>2, <2>1
      <4>4. QED
        BY <2>1, <4>1, <4>2, <4>3
    <3>2. CASE u # t
      <4>1. u \in LiveRows /\ u \in FlowRows
        BY <2>1, <3>2 DEF LiveRows
      <4>2. VersionsOf(u)' = VersionsOf(u) /\ \A k \in VersionsOf(u) : flowVersion'[k] = flowVersion[k]
        BY <2>1, <3>2, <4>1
      <4>3. PICK m \in VersionsOf(u) : flowVersion[m].latest /\ \A k \in VersionsOf(u) : k <= m
        BY <1>1, <4>1 DEF NewestIsLatest
      <4>4. QED
        BY <4>2, <4>3
    <3>3. QED
      BY <3>1, <3>2
  <2>6. ASSUME NEW u \in LiveRows' \ flowBegun', NEW k \in VersionsOf(u)'  PROVE flowArgo'[k] # "None"
    <3>1. CASE u = t
      BY <1>1, <2>1, <2>2, <2>3, <2>6, <3>1 DEF VersionRunnable
    <3>2. CASE u # t
      BY <1>1, <2>1, <2>2, <2>6, <3>2 DEF VersionRunnable, LiveRows
    <3>3. QED
      BY <3>1, <3>2
  <2>7. QED
    BY <2>4, <2>5, <2>6 DEF NewestIsLatest, VersionRunnable
<1>4. CASE MarkArchived(h)
  <2>1. /\ UNCHANGED <<flowVersion, flowArgo, flowClock, flowBegun>> /\ LiveRows' = {}
        /\ \A u \in FlowRows : flowRow'[u] = "Absent" <=> flowRow[u] = "Absent"
    BY <1>2, <1>4 DEF MarkArchived, LiveRows
  <2>2. QED
    BY <1>1, <2>1 DEF FlowStoreOK, NewestIsLatest, VersionRunnable, VersionsOf
<1>5. ASSUME UNCHANGED <<flowRow, flowVersion>>, flowBegun \subseteq flowBegun',
             \A n \in FlowNumbers : flowVersion[n].row \notin flowBegun \cup {NoRow} /\ flowArgo[n] # "None"
                                    => flowArgo'[n] # "None"
      PROVE  FlowStoreOK' /\ NewestIsLatest' /\ VersionRunnable'
  <2>1. LiveRows' = LiveRows /\ \A u \in FlowRows : VersionsOf(u)' = VersionsOf(u)
    BY <1>5 DEF LiveRows, VersionsOf
  <2>2. FlowStoreOK'
    BY <1>0, <1>1, <1>2, <1>5, <2>1 DEF FlowStoreOK
  <2>3. NewestIsLatest'
    BY <1>1, <1>5, <2>1 DEF NewestIsLatest, LiveRows
  <2>4. VersionRunnable'
    BY <1>1, <1>5, <2>1 DEF VersionRunnable, LiveRows, VersionsOf
  <2>5. QED
    BY <2>2, <2>3, <2>4
<1>6. CASE CreateArgoTemplate(h) \/ UnlabelOlder(h)
  <2>1. \A n \in FlowNumbers : flowArgo[n] # "None" => flowArgo'[n] # "None"
    BY <1>2, <1>6 DEF CreateArgoTemplate, UnlabelOlder
  <2>2. QED
    BY <1>5, <1>6, <2>1 DEF CreateArgoTemplate, UnlabelOlder
<1>7. CASE CommitFlowFails(h)
  <2>1. Numbered(h)
    BY <1>7 DEF CommitFlowFails, FlowAt, Numbered, Inserted
  <2>2. flowVersion[flowReq[h].number].row = NoRow
    BY <1>1, <2>1 DEF FlowRequestOK
  <2>3. \A n \in FlowNumbers : flowVersion[n].row # NoRow => flowArgo'[n] = flowArgo[n]
    BY <1>2, <1>7, <2>2 DEF CommitFlowFails
  <2>4. QED
    BY <1>5, <1>7, <2>3 DEF CommitFlowFails
<1>8. CASE DeleteVersion(h)
  <2>1. \A n \in flowReq[h].seen : flowVersion[n].row \in flowBegun
    BY <1>1, <1>8 DEF DeleteVersion, FlowAt, FlowRequestOK
  <2>2. \A n \in FlowNumbers : n \notin flowReq[h].seen => flowArgo'[n] = flowArgo[n]
    BY <1>2, <1>8 DEF DeleteVersion
  <2>3. QED
    BY <1>5, <1>8, <2>1, <2>2 DEF DeleteVersion
<1>9. CASE UNCHANGED <<flowRow, flowVersion, flowArgo>> /\ flowBegun \subseteq flowBegun'
  BY <1>5, <1>9
<1>10. QED
  BY <1>3, <1>4, <1>6, <1>7, <1>8, <1>9
     DEF FlowStep, FlowAdvance, CreateFlow, AddVersion, FindFlow, InsertFlow, OutdateVersions, LockVersions,
         ReadLatest, ListVersions, BreakOff

----------------------------------------------------------------------------
LEMMA FlowInitInv == FlowInit => FlowInv
<1> SUFFICES ASSUME FlowInit  PROVE FlowInv
  OBVIOUS
<1> USE FlowAssumption
<1>1. FlowTypeOK
  <2>1. 0 \in 0..MaxFlowVersions /\ 0 \in 0..MaxFlowFaults
    OBVIOUS
  <2>2. [row |-> NoRow, latest |-> FALSE] \in [row : FlowRows \cup {NoRow}, latest : BOOLEAN]
    OBVIOUS
  <2>3. QED
    BY <2>1, <2>2, FlowIdleType DEF FlowInit, FlowTypeOK
<1>2. Unnumbered = {}
  BY DEF FlowInit, Unnumbered, FlowIdle
<1>3. FlowRoom
  BY <1>2, FS_EmptySet DEF FlowRoom, FlowInit
<1>4. FlowStoreOK /\ NewestIsLatest /\ VersionRunnable
  BY DEF FlowInit, FlowStoreOK, NewestIsLatest, VersionRunnable, LiveRows, VersionsOf
<1>5. \A g \in FlowHandlers : flowReq[g] = FlowIdle
  BY DEF FlowInit
<1>6. \A g \in FlowHandlers : FlowRequestOK(g) /\ ~Inserted(g) /\ ~Numbered(g)
  BY <1>5 DEF FlowIdle, FlowRequestOK, Inserted, Numbered, HoldsVersions
<1>7. \A g, h \in FlowHandlers : FlowApart(g, h)
  BY <1>5, <1>6 DEF FlowIdle, FlowApart
<1>8. QED
  BY <1>1, <1>3, <1>4, <1>6, <1>7 DEF FlowInv

LEMMA FlowNextStep == FlowNext => \E h \in FlowHandlers : FlowStep(h)
  BY DEF FlowNext, FlowStep

LEMMA FlowInvKept == FlowInv /\ [FlowNext]_flowVars => FlowInv'
<1> SUFFICES ASSUME FlowInv, [FlowNext]_flowVars  PROVE FlowInv'
  OBVIOUS
<1>1. CASE FlowNext
  <2>1. PICK h \in FlowHandlers : FlowStep(h)
    BY <1>1, FlowNextStep
  <2>2. FlowTypeOK' /\ FlowRoom' /\ FlowReqOK(h)
    BY <2>1, FlowTypeKept DEF FlowInv
  <2>3. FlowStoreOK' /\ NewestIsLatest' /\ VersionRunnable'
    BY <2>1, FlowStoreKept
  <2>4. \A g \in FlowHandlers : FlowRequestOK(g)'
    BY <2>1, FlowSelfKept, FlowOthersKept
  <2>5. ASSUME NEW g \in FlowHandlers, NEW k \in FlowHandlers \ {g}  PROVE FlowApart(g, k)'
    <3>1. CASE g = h \/ k = h
      BY <2>1, <2>5, <3>1, FlowApartKept
    <3>2. CASE g # h /\ k # h
      <4>1. FlowApart(g, k)
        BY <2>5 DEF FlowInv
      <4>2. flowReq'[g] = flowReq[g] /\ flowReq'[k] = flowReq[k]
        BY <2>2, <2>5, <3>2 DEF FlowReqOK
      <4>3. QED
        BY <4>1, <4>2 DEF FlowApart, Inserted, Numbered, HoldsVersions
    <3>3. QED
      BY <3>1, <3>2
  <2>6. QED
    BY <2>2, <2>3, <2>4, <2>5 DEF FlowInv
<1>2. CASE UNCHANGED flowVars
  <2>1. /\ FlowTypeOK' /\ FlowRoom' /\ FlowStoreOK' /\ NewestIsLatest' /\ VersionRunnable'
    BY <1>2 DEF flowVars, FlowInv, FlowTypeOK, FlowRoom, Unnumbered, FlowStoreOK, NewestIsLatest,
                VersionRunnable, LiveRows, VersionsOf
  <2>2. \A g \in FlowHandlers : FlowRequestOK(g)'
    BY <1>2 DEF flowVars, FlowInv, FlowRequestOK, LiveRows, VersionsOf, Inserted, Numbered, HoldsVersions
  <2>3. \A g \in FlowHandlers : \A h \in FlowHandlers \ {g} : FlowApart(g, h)'
    BY <1>2 DEF flowVars, FlowInv, FlowApart, Inserted, Numbered, HoldsVersions
  <2>4. QED
    BY <2>1, <2>2, <2>3 DEF FlowInv
<1>3. QED
  BY <1>1, <1>2

(* Requests of any number, interleaved and broken off anywhere, keep what   *)
(* the invariant says of rows, requests and Argo templates.                 *)
THEOREM FlowInvariant == FlowSpec => []FlowInv
BY FlowInitInv, FlowInvKept, PTL DEF FlowSpec

(* The newest version of a live template is always marked latest.           *)
THEOREM NewestStaysLatest == FlowSpec => []NewestIsLatest
BY FlowInvariant, PTL DEF FlowInv

(* No failure leaves a version users can choose without its Argo template   *)
(* before an archive of its template has begun.                             *)
THEOREM VersionsStayRunnable == FlowSpec => []VersionRunnable
BY FlowInvariant, PTL DEF FlowInv

(* One template of a uid is live at a time, an archived one stays archived, *)
(* and versions are only ever added at the end of a template's history.     *)
THEOREM RowsImplementHistory == FlowSpec => ImplementsHistory
<1>1. FlowInit => History!Init
  BY FlowAssumption DEF FlowInit, History!Init, VersionsOf
<1>2. FlowInv /\ [FlowNext]_flowVars => [History!Next]_<<flowRow, [t \in FlowRows |-> VersionsOf(t)]>>
  <2> SUFFICES ASSUME FlowInv, [FlowNext]_flowVars
               PROVE  History!Next \/ UNCHANGED <<flowRow, [t \in FlowRows |-> VersionsOf(t)]>>
    OBVIOUS
  <2>1. ASSUME UNCHANGED <<flowRow, flowVersion>>
        PROVE  UNCHANGED <<flowRow, [t \in FlowRows |-> VersionsOf(t)]>>
    BY <2>1 DEF VersionsOf
  <2>2. flowRow \in [FlowRows -> {"Absent", "Live", "Archived"}]
    BY DEF FlowInv, FlowTypeOK
  <2>3. ASSUME NEW h \in FlowHandlers, CommitFlow(h) \/ CommitVersion(h)  PROVE History!Next
    <3> DEFINE n == flowReq[h].number
               t == flowReq[h].row
    <3>1. /\ t \in FlowRows /\ n \in FlowNumbers /\ \A k \in VersionsOf(t) : k < n
          /\ \A u \in FlowRows : VersionsOf(u)' = IF u = t THEN VersionsOf(u) \cup {n} ELSE VersionsOf(u)
      BY <2>3, FlowCommit
    <3>2. FlowRequestOK(h) /\ FlowStoreOK
      BY FlowFacts DEF FlowInv
    <3>3. [u \in FlowRows |-> VersionsOf(u)]' = [[u \in FlowRows |-> VersionsOf(u)] EXCEPT ![t] = @ \cup {n}]
      BY <3>1
    <3>4. CASE CommitFlow(h)
      <4>1. LiveRows = {} /\ flowRow[t] = "Absent" /\ flowRow' = [flowRow EXCEPT ![t] = "Live"]
        BY <3>2, <3>4 DEF CommitFlow, FlowAt, FlowRequestOK, Inserted
      <4>2. VersionsOf(t) = {}
        BY <3>1, <3>2, <4>1 DEF FlowStoreOK
      <4>3. [u \in FlowRows |-> VersionsOf(u)]' = [[u \in FlowRows |-> VersionsOf(u)] EXCEPT ![t] = {n}]
        BY <3>1, <4>2
      <4>4. History!Found(t, n)
        BY <4>1, <4>3 DEF History!Found, History!Live, LiveRows
      <4>5. QED
        BY <3>1, <4>4 DEF History!Next
    <3>5. CASE CommitVersion(h)
      <4>1. flowRow[t] # "Absent" /\ flowRow' = flowRow
        BY <3>2, <3>5 DEF CommitVersion, FlowAt, FlowRequestOK
      <4>2. History!Publish(t, n)
        BY <3>1, <3>3, <4>1 DEF History!Publish
      <4>3. QED
        BY <3>1, <4>2 DEF History!Next
    <3>6. QED
      BY <2>3, <3>4, <3>5
  <2>4. ASSUME NEW h \in FlowHandlers, MarkArchived(h)  PROVE History!Next
    <3>1. [u \in FlowRows |-> VersionsOf(u)]' = [u \in FlowRows |-> VersionsOf(u)]
      BY <2>4 DEF MarkArchived, VersionsOf
    <3>2. History!Retire
      BY <2>4, <3>1 DEF MarkArchived, History!Retire, History!Live, LiveRows
    <3>3. QED
      BY <3>2 DEF History!Next
  <2>5. CASE FlowNext
    <3>1. PICK h \in FlowHandlers : FlowStep(h)
      BY <2>5, FlowNextStep
    <3>2. QED
      BY <2>1, <2>3, <2>4, <3>1
         DEF FlowStep, FlowAdvance, CreateFlow, AddVersion, FindFlow, InsertFlow, CreateArgoTemplate,
             CommitFlowFails, OutdateVersions, LockVersions, ReadLatest, UnlabelOlder, ListVersions,
             DeleteVersion, BreakOff
  <2>6. CASE UNCHANGED flowVars
    BY <2>1, <2>6 DEF flowVars
  <2>7. QED
    BY <2>5, <2>6
<1>3. QED
  BY <1>1, <1>2, FlowInvariant, PTL DEF FlowSpec, ImplementsHistory, History!Spec
----------------------------------------------------------------------------
(* While nothing has failed and no archive has met another request, Argo is *)
(* where the rows and the requests say.                                     *)

FlowStepOK(g) ==
    /\ flowReq[g].op = "idle" => flowReq[g].step = "idle"
    /\ flowReq[g].op = "create" => flowReq[g].step \in {"insert", "argo", "commit"}
    /\ flowReq[g].op = "version" => flowReq[g].step \in {"outdate", "lock", "latest", "argo", "unlabel", "commit"}
    /\ flowReq[g].op = "archive" => flowReq[g].step \in {"list", "delete"}

(* A request has made the Argo template n and not committed the version.    *)
Making(g, n) == Numbered(g) /\ flowReq[g].step \in {"unlabel", "commit"} /\ flowReq[g].number = n
Made(n) == \E g \in FlowHandlers : Making(g, n)

(* An archive has deleted the Argo template n.                              *)
Removing(g, n) == flowReq[g].op = "archive" /\ flowReq[g].step = "delete" /\ n \notin flowReq[g].seen
InForce(n) == flowVersion[n].row \in LiveRows /\ \A g \in FlowHandlers : ~Removing(g, n)

(* A request has taken the label from the newest version.                   *)
Relabelling(g) == flowReq[g].op = "version" /\ flowReq[g].step = "commit"
Labelled(n) ==
    /\ \A k \in VersionsOf(flowVersion[n].row) : k <= n
    /\ \A g \in FlowHandlers : ~Relabelling(g)

ArgoFollows(n) ==
    /\ flowArgo[n] # "None" <=> InForce(n) \/ Made(n)
    /\ flowArgo[n] = "Latest" <=> Made(n) \/ (InForce(n) /\ Labelled(n))

FlowTurn(g) ==
    /\ flowReq[g].op = "archive" =>
         /\ \A h \in FlowHandlers \ {g} : flowReq[h] = FlowIdle
         /\ \A n \in flowReq[g].seen : flowVersion[n].row \in LiveRows
    /\ flowReq[g].op = "version" => flowReq[g].row \in LiveRows
    /\ flowReq[g].op = "version" /\ flowReq[g].step \in {"argo", "unlabel"} =>
         flowReq[g].older \in VersionsOf(flowReq[g].row) /\ \A k \in VersionsOf(flowReq[g].row) : k <= flowReq[g].older

FlowEven == \A g \in FlowHandlers : FlowTurn(g)
ArgoEven == \A n \in FlowNumbers : ArgoFollows(n)

FlowOrder ==
    /\ \A g \in FlowHandlers : FlowStepOK(g)
    /\ \A t, u \in LiveRows : t = u
    /\ flowFaults = 0 /\ ~flowRaced => FlowEven /\ ArgoEven

(* Archives are alone, versions are added to a live template, and the       *)
(* template they will relabel is that of its newest version.                *)
LEMMA OrderFacts ==
    ASSUME FlowInv, FlowOrder, flowFaults = 0, ~flowRaced, NEW h \in FlowHandlers
    PROVE  /\ FlowStepOK(h) /\ FlowTurn(h) /\ FlowRequestOK(h) /\ flowReq[h] \in FlowRequests
           /\ \A g \in FlowHandlers \ {h} : FlowApart(g, h) /\ FlowRequestOK(g) /\ FlowTurn(g) /\ FlowStepOK(g)
           /\ FlowEven /\ ArgoEven
           /\ \A t, u \in LiveRows : t = u
           /\ NoRow \notin FlowRows /\ LiveRows \subseteq FlowRows
           /\ flowReq \in [FlowHandlers -> FlowRequests]
  BY FlowFacts DEF FlowOrder, FlowEven, FlowInv, FlowTypeOK, LiveRows

(* While a request is at work no other is an archive, and while an archive  *)
(* is at work nobody else is.                                               *)
LEMMA AtWork ==
    ASSUME FlowEven, NEW h \in FlowHandlers, flowReq[h] # FlowIdle
    PROVE  /\ \A g \in FlowHandlers \ {h} : flowReq[g].op # "archive"
           /\ flowReq[h].op = "archive" => \A g \in FlowHandlers \ {h} : flowReq[g] = FlowIdle
  BY DEF FlowEven, FlowTurn

(* What the others make, remove or relabel is as it was.                    *)
LEMMA OthersSame ==
    ASSUME NEW h \in FlowHandlers, FlowReqOK(h)
    PROVE  \A g \in FlowHandlers \ {h} : \A n :
             (Making(g, n)' <=> Making(g, n)) /\ (Removing(g, n)' <=> Removing(g, n)) /\ (Relabelling(g)' <=> Relabelling(g))
  BY DEF FlowReqOK, Making, Removing, Relabelling, Numbered, Inserted, HoldsVersions

(* The row of two versions that are added at once would be the same.        *)
LEMMA OnlyMaker ==
    ASSUME FlowInv, FlowOrder, flowFaults = 0, ~flowRaced, NEW h \in FlowHandlers, Numbered(h)
    PROVE  \A g \in FlowHandlers \ {h} : ~Numbered(g)
<1> SUFFICES ASSUME NEW g \in FlowHandlers \ {h}, Numbered(g)  PROVE FALSE
  OBVIOUS
<1>1. /\ FlowTurn(h) /\ FlowRequestOK(h) /\ FlowTurn(g) /\ FlowRequestOK(g) /\ FlowApart(g, h)
      /\ \A t, u \in LiveRows : t = u
  BY OrderFacts
<1>2. CASE Inserted(h) \/ Inserted(g)
  <2>1. LiveRows = {}
    BY <1>1, <1>2 DEF FlowRequestOK, Inserted
  <2>2. flowReq[h].op # "version" /\ flowReq[g].op # "version"
    BY <1>1, <2>1 DEF FlowTurn
  <2>3. Inserted(h) /\ Inserted(g)
    BY <2>2 DEF Numbered, HoldsVersions
  <2>4. QED
    BY <1>1, <2>3 DEF FlowApart
<1>3. CASE ~Inserted(h) /\ ~Inserted(g)
  <2>1. flowReq[h].op = "version" /\ flowReq[g].op = "version"
    BY <1>3 DEF Numbered, HoldsVersions
  <2>2. flowReq[g].row = flowReq[h].row
    BY <1>1, <2>1 DEF FlowTurn
  <2>3. QED
    BY <1>1, <2>2 DEF FlowApart
<1>4. QED
  BY <1>2, <1>3

(* A step that is not a start leaves the others their turn.                 *)
LEMMA TurnsKept ==
    ASSUME FlowInv, FlowOrder, flowFaults = 0, ~flowRaced, NEW h \in FlowHandlers, FlowReqOK(h), flowReq[h] # FlowIdle,
           LiveRows \subseteq LiveRows' \/ flowReq[h].op = "archive",
           Numbered(h) \/ UNCHANGED flowVersion,
           FlowTurn(h)'
    PROVE  FlowEven'
<1> SUFFICES ASSUME NEW g \in FlowHandlers \ {h}  PROVE FlowTurn(g)'
  BY DEF FlowEven
<1>1. flowReq'[g] = flowReq[g] /\ FlowTurn(g) /\ FlowStepOK(g) /\ FlowApart(g, h) /\ flowReq[g].op # "archive"
  BY OrderFacts, AtWork DEF FlowReqOK
<1>2. CASE flowReq[h].op = "archive"
  <2>1. flowReq'[g].op = "idle"
    BY <1>1, <1>2, AtWork, OrderFacts DEF FlowIdle
  <2>2. QED
    BY <2>1 DEF FlowTurn
<1>3. CASE flowReq[h].op # "archive"
  <2>1. SUFFICES ASSUME flowReq[g].op = "version"
                 PROVE  /\ flowReq[g].row \in LiveRows'
                        /\ flowReq[g].step \in {"argo", "unlabel"} =>
                             /\ flowReq[g].older \in VersionsOf(flowReq[g].row)'
                             /\ \A k \in VersionsOf(flowReq[g].row)' : k <= flowReq[g].older
    BY <1>1 DEF FlowTurn
  <2>2. flowReq[g].row \in LiveRows'
    BY <1>1, <1>3, <2>1 DEF FlowTurn
  <2>3. ASSUME flowReq[g].step \in {"argo", "unlabel"}
        PROVE  VersionsOf(flowReq[g].row)' = VersionsOf(flowReq[g].row)
    <3>1. Numbered(g)
      BY <2>1, <2>3 DEF Numbered, HoldsVersions
    <3>2. ~Numbered(h)
      BY <3>1, OnlyMaker
    <3>3. QED
      BY <1>1, <3>2 DEF VersionsOf
  <2>4. QED
    BY <1>1, <2>1, <2>2, <2>3 DEF FlowTurn
<1>4. QED
  BY <1>2, <1>3

(* Steps that neither make, remove nor relabel.                             *)
FlowCalm == {"idle", "insert", "outdate", "lock", "latest", "argo", "list"}

LEMMA CalmStep ==
    ASSUME NEW h \in FlowHandlers, FlowReqOK(h), ArgoEven, UNCHANGED <<flowRow, flowVersion, flowArgo>>,
           flowReq[h].step \in FlowCalm, flowReq'[h].step \in FlowCalm
    PROVE  ArgoEven'
<1>1. \A n : /\ ~Making(h, n) /\ ~Making(h, n)' /\ ~Removing(h, n) /\ ~Removing(h, n)'
             /\ ~Relabelling(h) /\ ~Relabelling(h)'
  BY DEF Making, Removing, Relabelling, FlowCalm
<1>2. \A g \in FlowHandlers : \A n :
        (Making(g, n)' <=> Making(g, n)) /\ (Removing(g, n)' <=> Removing(g, n)) /\ (Relabelling(g)' <=> Relabelling(g))
  BY <1>1, OthersSame
<1>3. ASSUME NEW n \in FlowNumbers PROVE ArgoFollows(n)'
  <2>1. Made(n)' <=> Made(n)
    BY <1>2 DEF Made
  <2>2. InForce(n)' <=> InForce(n)
    BY <1>2 DEF InForce, LiveRows
  <2>3. Labelled(n)' <=> Labelled(n)
    BY <1>2 DEF Labelled, VersionsOf
  <2>4. ArgoFollows(n)
    BY DEF ArgoEven
  <2>5. QED
    BY <2>1, <2>2, <2>3, <2>4 DEF ArgoFollows
<1>4. QED
  BY <1>3 DEF ArgoEven

(* The order while nothing is disturbed, before or after a step.            *)
Orderly == FlowEven /\ ArgoEven

LEMMA StartsOrderly ==
    ASSUME FlowInv, FlowOrder, flowFaults = 0, ~flowRaced, ~flowRaced', NEW h \in FlowHandlers, FlowReqOK(h),
           NEW op \in {"create", "version", "archive"}, NEW step \in {"insert", "outdate", "list"}, NEW t,
           FlowStart(h, op, step, t), op = "version" => t \in LiveRows, UNCHANGED <<flowRow, flowVersion, flowArgo>>
    PROVE  Orderly'
<1>1. /\ flowReq[h] = FlowIdle /\ ~Overlaps(op)
      /\ flowReq'[h] = [FlowIdle EXCEPT !.op = op, !.step = step, !.row = t]
  BY OrderFacts DEF FlowStart
<1>2. flowReq[h].step = "idle" /\ flowReq[h].op = "idle" /\ flowReq'[h].step = step /\ flowReq'[h].op = op
      /\ flowReq'[h].row = t /\ flowReq'[h].seen = {}
  BY <1>1 DEF FlowIdle
<1>3. ArgoEven'
  BY <1>2, CalmStep, OrderFacts DEF FlowCalm
<1>4. LiveRows' = LiveRows
  BY DEF LiveRows
<1>5. ASSUME NEW g \in FlowHandlers \ {h}  PROVE FlowTurn(g)'
  <2>1. FlowTurn(g) /\ flowReq'[g] = flowReq[g] /\ flowReq[g].op # "archive"
    BY <1>1, OrderFacts DEF FlowReqOK, Overlaps
  <2>2. VersionsOf(flowReq[g].row)' = VersionsOf(flowReq[g].row)
    BY <2>1 DEF VersionsOf
  <2>3. QED
    BY <1>4, <2>1, <2>2 DEF FlowTurn
<1>6. FlowTurn(h)'
  <2>1. op = "archive" => \A g \in FlowHandlers \ {h} : flowReq'[g] = FlowIdle
    BY <1>1 DEF Overlaps, FlowReqOK
  <2>2. QED
    BY <1>2, <1>4, <2>1 DEF FlowTurn
<1>7. QED
  BY <1>3, <1>5, <1>6 DEF Orderly, FlowEven

(* A request that goes on without a change to Argo or to the rows.          *)
LEMMA CalmOrderly ==
    ASSUME FlowInv, FlowOrder, flowFaults = 0, ~flowRaced, NEW h \in FlowHandlers, FlowReqOK(h), flowReq[h] # FlowIdle,
           UNCHANGED <<flowRow, flowVersion, flowArgo>>,
           flowReq[h].step \in FlowCalm, flowReq'[h].step \in FlowCalm, FlowTurn(h)'
    PROVE  Orderly'
<1>1. ArgoEven'
  BY CalmStep, OrderFacts
<1>2. LiveRows' = LiveRows
  BY DEF LiveRows
<1>3. FlowEven'
  BY <1>2, TurnsKept
<1>4. QED
  BY <1>1, <1>3 DEF Orderly

LEMMA IdleTurn ==
    ASSUME NEW h \in FlowHandlers, flowReq \in [FlowHandlers -> FlowRequests], FlowDone(h)
    PROVE  flowReq'[h] = FlowIdle /\ FlowTurn(h)' /\ flowReq'[h].step = "idle" /\ flowReq'[h].op = "idle"
<1>1. flowReq'[h] = FlowIdle
  BY DEF FlowDone
<1>2. QED
  BY <1>1 DEF FlowIdle, FlowTurn

LEMMA InsertFlowOrderly ==
    ASSUME FlowInv, FlowOrder, flowFaults = 0, ~flowRaced, NEW h \in FlowHandlers, FlowReqOK(h), InsertFlow(h)
    PROVE  Orderly'
<1>1. /\ flowReq[h].op = "create" /\ flowReq[h].step = "insert" /\ flowReq[h] \in FlowRequests
      /\ flowReq \in [FlowHandlers -> FlowRequests] /\ flowReq[h] # FlowIdle
      /\ UNCHANGED <<flowRow, flowVersion, flowArgo>>
  BY OrderFacts DEF InsertFlow, FlowAt, FlowIdle
<1>2. CASE NumberVersion(h, "argo")
  <2>1. flowReq'[h].step = "argo" /\ flowReq'[h].op = "create"
    BY <1>1, <1>2 DEF NumberVersion, FlowRequests
  <2>2. FlowTurn(h)'
    BY <2>1 DEF FlowTurn
  <2>3. QED
    BY <1>1, <2>1, <2>2, CalmOrderly DEF FlowCalm
<1>3. CASE FlowDone(h)
  BY <1>1, <1>3, IdleTurn, CalmOrderly DEF FlowCalm
<1>4. QED
  BY <1>2, <1>3 DEF InsertFlow

LEMMA OutdateOrderly ==
    ASSUME FlowInv, FlowOrder, flowFaults = 0, ~flowRaced, NEW h \in FlowHandlers, FlowReqOK(h),
           OutdateVersions(h) \/ LockVersions(h)
    PROVE  Orderly'
<1>1. /\ flowReq[h].op = "version" /\ flowReq[h].step \in {"outdate", "lock"} /\ flowReq[h] \in FlowRequests
      /\ flowReq \in [FlowHandlers -> FlowRequests] /\ flowReq[h] # FlowIdle /\ FlowTurn(h)
      /\ UNCHANGED <<flowRow, flowVersion, flowArgo>>
  BY OrderFacts DEF OutdateVersions, LockVersions, FlowAt, FlowIdle
<1>2. flowReq'[h].step \in {"lock", "latest"} /\ flowReq'[h].op = "version" /\ flowReq'[h].row = flowReq[h].row
  <2>1. CASE OutdateVersions(h)
    BY <1>1, <2>1 DEF OutdateVersions, FlowRequests
  <2>2. CASE LockVersions(h)
    BY <1>1, <2>2 DEF LockVersions, NumberVersion, FlowRequests
  <2>3. QED
    BY <2>1, <2>2
<1>3. FlowTurn(h)'
  BY <1>1, <1>2 DEF FlowTurn, LiveRows
<1>4. QED
  BY <1>1, <1>2, <1>3, CalmOrderly DEF FlowCalm

(* What Argo labels latest, while the rows are locked, is the newest.       *)
LEMMA ReadLatestOrderly ==
    ASSUME FlowInv, FlowOrder, flowFaults = 0, ~flowRaced, NEW h \in FlowHandlers, FlowReqOK(h), ReadLatest(h)
    PROVE  Orderly'
<1>1. /\ flowReq[h].op = "version" /\ flowReq[h].step = "latest" /\ flowReq[h] \in FlowRequests
      /\ flowReq \in [FlowHandlers -> FlowRequests] /\ flowReq[h] # FlowIdle /\ FlowTurn(h)
      /\ UNCHANGED <<flowRow, flowVersion, flowArgo>> /\ Numbered(h) /\ ArgoEven
      /\ \A t, u \in LiveRows : t = u
  BY OrderFacts DEF ReadLatest, FlowAt, FlowIdle, Numbered, HoldsVersions
<1>2. CASE FlowDone(h)
  BY <1>1, <1>2, IdleTurn, CalmOrderly DEF FlowCalm
<1>3. ASSUME NEW n \in FlowNumbers, LatestInArgo = {n}, flowReq' = [flowReq EXCEPT ![h].step = "argo", ![h].older = n]
      PROVE  Orderly'
  <2>1. /\ flowReq'[h].step = "argo" /\ flowReq'[h].op = "version" /\ flowReq'[h].row = flowReq[h].row
        /\ flowReq'[h].older = n
    BY <1>1, <1>3 DEF FlowRequests
  <2>2. ~Made(n)
    BY <1>1, OnlyMaker DEF Made, Making
  <2>3. flowArgo[n] = "Latest"
    BY <1>3 DEF LatestInArgo
  <2>4. InForce(n) /\ Labelled(n)
    BY <1>1, <2>2, <2>3 DEF ArgoEven, ArgoFollows
  <2>5. flowVersion[n].row = flowReq[h].row
    BY <1>1, <2>4 DEF InForce, FlowTurn
  <2>6. n \in VersionsOf(flowReq[h].row) /\ \A k \in VersionsOf(flowReq[h].row) : k <= n
    BY <2>4, <2>5 DEF Labelled, VersionsOf
  <2>7. FlowTurn(h)'
    BY <1>1, <2>1, <2>6 DEF FlowTurn, LiveRows, VersionsOf
  <2>8. QED
    BY <1>1, <2>1, <2>7, CalmOrderly DEF FlowCalm
<1>4. QED
  BY <1>2, <1>3 DEF ReadLatest

(* The Argo template that a number is for is made before its version.       *)
LEMMA MakeOrderly ==
    ASSUME FlowInv, FlowOrder, flowFaults = 0, ~flowRaced, NEW h \in FlowHandlers, FlowReqOK(h), CreateArgoTemplate(h)
    PROVE  Orderly'
<1>1. /\ flowReq[h].step = "argo" /\ flowReq[h] \in FlowRequests /\ FlowStepOK(h)
      /\ flowReq \in [FlowHandlers -> FlowRequests] /\ flowReq[h] # FlowIdle /\ FlowTurn(h)
      /\ UNCHANGED <<flowRow, flowVersion>> /\ ArgoEven
      /\ NoRow \notin FlowRows /\ LiveRows \subseteq FlowRows
  BY OrderFacts DEF CreateArgoTemplate, FlowIdle
<1>2. flowReq[h].op \in {"create", "version"} /\ Numbered(h)
  BY <1>1 DEF FlowRequests, FlowStepOK, Numbered, Inserted, HoldsVersions
<1> PICK m \in FlowNumbers : m = flowReq[h].number /\ flowVersion[m].row = NoRow
  BY <1>2, FlowFacts DEF FlowRequestOK, FlowNumbers
<1>3. /\ flowReq'[h].op = flowReq[h].op /\ flowReq'[h].row = flowReq[h].row /\ flowReq'[h].older = flowReq[h].older
      /\ flowReq'[h].number = m /\ flowReq'[h].step = IF flowReq[h].op = "create" THEN "commit" ELSE "unlabel"
  BY <1>1, <1>2 DEF CreateArgoTemplate, FlowMove, FlowRequests
<1>4. \A n : /\ ~Making(h, n) /\ ~Removing(h, n) /\ ~Relabelling(h)
             /\ ~Removing(h, n)' /\ ~Relabelling(h)' /\ (Making(h, n)' <=> n = m)
  BY <1>1, <1>2, <1>3 DEF Making, Removing, Relabelling, Numbered, Inserted, HoldsVersions
<1>5. LiveRows' = LiveRows /\ \A u : VersionsOf(u)' = VersionsOf(u)
  BY <1>1 DEF LiveRows, VersionsOf
<1>6. flowArgo'[m] = "Latest" /\ \A n \in FlowNumbers \ {m} : flowArgo'[n] = flowArgo[n]
  BY DEF CreateArgoTemplate, FlowInv, FlowTypeOK
<1>7. ASSUME NEW n \in FlowNumbers  PROVE ArgoFollows(n)'
  <2>1. Made(n)' <=> Made(n) \/ n = m
    BY <1>4, OthersSame DEF Made
  <2>2. InForce(n)' <=> InForce(n)
    BY <1>1, <1>4, <1>5, OthersSame DEF InForce
  <2>3. Labelled(n)' <=> Labelled(n)
    BY <1>1, <1>4, OthersSame DEF Labelled, VersionsOf
  <2>4. ArgoFollows(n)
    BY <1>1 DEF ArgoEven
  <2>5. QED
    BY <1>6, <2>1, <2>2, <2>3, <2>4 DEF ArgoFollows
<1>8. FlowTurn(h)'
  BY <1>1, <1>2, <1>3, <1>5 DEF FlowTurn, VersionsOf
<1>9. FlowEven'
  BY <1>1, <1>5, <1>8, TurnsKept
<1>10. QED
  BY <1>7, <1>9 DEF Orderly, ArgoEven

(* The first version: nothing else is there.                                *)
LEMMA CommitFlowOrderly ==
    ASSUME FlowInv, FlowOrder, flowFaults = 0, ~flowRaced, NEW h \in FlowHandlers, FlowReqOK(h), CommitFlow(h)
    PROVE  Orderly'
<1>1. /\ flowReq[h].op = "create" /\ flowReq[h].step = "commit" /\ flowReq[h] # FlowIdle /\ Numbered(h) /\ Inserted(h)
      /\ flowReq \in [FlowHandlers -> FlowRequests] /\ ArgoEven /\ flowReq'[h] = FlowIdle /\ FlowTurn(h)'
      /\ flowReq'[h].step = "idle" /\ flowReq'[h].op = "idle" /\ flowArgo' = flowArgo
  BY OrderFacts, IdleTurn DEF CommitFlow, FlowAt, FlowIdle, Numbered, Inserted
<1>2. LiveRows = {} /\ flowReq[h].row \in FlowRows /\ flowRow[flowReq[h].row] = "Absent"
  BY <1>1, OrderFacts DEF FlowRequestOK
<1> PICK t \in FlowRows : t = flowReq[h].row
  BY <1>2
<1> PICK m \in FlowNumbers : m = flowReq[h].number /\ flowVersion[m].row = NoRow
  BY <1>1, FlowFacts DEF FlowRequestOK, FlowNumbers
<1>3. LiveRows' = {t}
  BY <1>2 DEF CommitFlow, LiveRows, FlowInv, FlowTypeOK
<1>4. flowVersion'[m].row = t /\ \A n \in FlowNumbers \ {m} : flowVersion'[n] = flowVersion[n]
  BY DEF CommitFlow, FlowInv, FlowTypeOK
<1>5. VersionsOf(t) = {}
  BY <1>2 DEF FlowInv, FlowStoreOK
<1>6. \A g \in FlowHandlers \ {h} : /\ ~Numbered(g)
                                    /\ flowReq[g].op \notin {"archive", "version"}
  BY <1>1, <1>2, OnlyMaker, AtWork, OrderFacts DEF FlowTurn
<1>7. \A g \in FlowHandlers : \A n : ~Making(g, n)' /\ ~Removing(g, n)' /\ ~Relabelling(g)'
  <2>1. \A n : ~Making(h, n)' /\ ~Removing(h, n)' /\ ~Relabelling(h)'
    BY <1>1 DEF Making, Removing, Relabelling
  <2>2. QED
    BY <1>6, <2>1, OthersSame DEF Making, Removing, Relabelling
<1>8. \A n \in FlowNumbers : Made(n) <=> n = m
  BY <1>1, <1>6 DEF Made, Making
<1>9. ASSUME NEW n \in FlowNumbers  PROVE ArgoFollows(n)'
  <2>1. flowArgo[n] # "None" <=> n = m
    BY <1>1, <1>2, <1>8 DEF ArgoEven, ArgoFollows, InForce
  <2>2. flowArgo[n] = "Latest" <=> n = m
    BY <1>1, <1>2, <1>8 DEF ArgoEven, ArgoFollows, InForce
  <2>3. ~Made(n)'
    BY <1>7 DEF Made
  <2>4. flowVersion'[n].row = t <=> n = m
    BY <1>4, <1>5 DEF VersionsOf
  <2>5. InForce(n)' <=> n = m
    BY <1>3, <1>7, <2>4 DEF InForce
  <2>6. n = m => Labelled(n)'
    <3>1. SUFFICES ASSUME n = m  PROVE \A k \in FlowNumbers : flowVersion'[k].row = t => k <= m
      BY <1>4, <1>7 DEF Labelled, VersionsOf
    <3>2. QED
      BY <1>4, <1>5 DEF VersionsOf, FlowNumbers
  <2>7. QED
    BY <1>1, <2>1, <2>2, <2>3, <2>5, <2>6 DEF ArgoFollows
<1>10. FlowEven'
  BY <1>1, <1>2, TurnsKept
<1>11. QED
  BY <1>9, <1>10 DEF Orderly, ArgoEven

(* What a request that adds a version finds, once the rows are its own.     *)
LEMMA MakerFinds ==
    ASSUME FlowInv, FlowOrder, flowFaults = 0, ~flowRaced, NEW h \in FlowHandlers, flowReq[h].op = "version", Numbered(h)
    PROVE  /\ flowReq[h].row \in LiveRows /\ \A t \in LiveRows : t = flowReq[h].row
           /\ \A g \in FlowHandlers \ {h} : ~Numbered(g) /\ flowReq[g].op # "archive" /\ ~Relabelling(g)
           /\ \A g \in FlowHandlers : \A n : ~Removing(g, n)
<1>1. /\ FlowTurn(h) /\ flowReq[h] # FlowIdle /\ FlowEven /\ \A t, u \in LiveRows : t = u
  BY OrderFacts DEF FlowIdle
<1>2. \A g \in FlowHandlers \ {h} : ~Numbered(g) /\ flowReq[g].op # "archive"
  BY <1>1, OnlyMaker, AtWork
<1>3. \A g \in FlowHandlers \ {h} : ~Relabelling(g)
  BY <1>2 DEF Relabelling, Numbered, HoldsVersions
<1>4. \A g \in FlowHandlers : \A n : ~Removing(g, n)
  BY <1>2 DEF Removing
<1>5. QED
  BY <1>1, <1>2, <1>3, <1>4 DEF FlowTurn

(* The label goes from the newest version, which has it.                    *)
LEMMA UnlabelOrderly ==
    ASSUME FlowInv, FlowOrder, flowFaults = 0, ~flowRaced, NEW h \in FlowHandlers, FlowReqOK(h), UnlabelOlder(h)
    PROVE  Orderly'
<1>1. /\ flowReq[h].op = "version" /\ flowReq[h].step = "unlabel" /\ flowReq[h] # FlowIdle /\ Numbered(h)
      /\ flowReq[h] \in FlowRequests /\ flowReq \in [FlowHandlers -> FlowRequests] /\ ArgoEven /\ FlowTurn(h)
      /\ UNCHANGED <<flowRow, flowVersion>> /\ NoRow \notin FlowRows /\ LiveRows \subseteq FlowRows
  BY OrderFacts DEF UnlabelOlder, FlowAt, FlowIdle, Numbered, HoldsVersions
<1>2. /\ flowReq[h].row \in LiveRows /\ \A t \in LiveRows : t = flowReq[h].row
      /\ \A g \in FlowHandlers \ {h} : ~Numbered(g) /\ flowReq[g].op # "archive" /\ ~Relabelling(g)
      /\ \A g \in FlowHandlers : \A n : ~Removing(g, n)
  BY <1>1, MakerFinds
<1> PICK t \in FlowRows : t = flowReq[h].row
  BY <1>1, <1>2
<1>3. flowReq[h].older \in VersionsOf(t) /\ \A k \in VersionsOf(t) : k <= flowReq[h].older
  BY <1>1 DEF FlowTurn
<1> PICK m \in FlowNumbers : m = flowReq[h].older /\ flowVersion[m].row = t
  BY <1>3 DEF VersionsOf
<1>4. InForce(m) /\ Labelled(m)
  BY <1>1, <1>2, <1>3 DEF InForce, Labelled, Relabelling
<1>5. flowArgo[m] = "Latest"
  BY <1>1, <1>4 DEF ArgoEven, ArgoFollows
<1>6. /\ FlowMove(h, "commit")
      /\ flowArgo'[m] = "Plain" /\ \A n \in FlowNumbers \ {m} : flowArgo'[n] = flowArgo[n]
  BY <1>5 DEF UnlabelOlder, FlowInv, FlowTypeOK
<1>7. /\ flowReq'[h].op = "version" /\ flowReq'[h].row = t /\ flowReq'[h].step = "commit"
      /\ flowReq'[h].number = flowReq[h].number
  BY <1>1, <1>6 DEF FlowMove, FlowRequests
<1>8. \A n : /\ ~Removing(h, n)' /\ (Making(h, n)' <=> Making(h, n))
             /\ Relabelling(h)'
  BY <1>1, <1>7 DEF Making, Removing, Relabelling, Numbered, Inserted, HoldsVersions
<1>9. LiveRows' = LiveRows /\ \A u : VersionsOf(u)' = VersionsOf(u)
  BY <1>1 DEF LiveRows, VersionsOf
<1>10. ~Made(m)
  <2>1. Making(h, m) => flowVersion[m].row = NoRow
    BY <1>1, OrderFacts DEF Making, FlowRequestOK
  <2>2. QED
    BY <1>1, <1>2, <2>1 DEF Made, Making
<1>11. ASSUME NEW n \in FlowNumbers  PROVE ArgoFollows(n)'
  <2>1. Made(n)' <=> Made(n)
    BY <1>8, OthersSame DEF Made
  <2>2. InForce(n)' <=> InForce(n)
    BY <1>1, <1>2, <1>8, <1>9, OthersSame DEF InForce
  <2>3. ~Labelled(n)'
    BY <1>8 DEF Labelled
  <2>4. ArgoFollows(n)
    BY <1>1 DEF ArgoEven
  <2>5. InForce(n) /\ Labelled(n) => n = m
    <3>1. SUFFICES ASSUME InForce(n), Labelled(n)  PROVE n = m
      OBVIOUS
    <3>2. flowVersion[n].row = t
      BY <1>2, <3>1 DEF InForce
    <3>3. m <= n /\ n <= m
      BY <1>3, <3>1, <3>2 DEF Labelled, VersionsOf
    <3>4. QED
      BY <3>3 DEF FlowNumbers
  <2>6. QED
    BY <1>5, <1>6, <1>10, <2>1, <2>2, <2>3, <2>4, <2>5 DEF ArgoFollows
<1>12. FlowTurn(h)'
  BY <1>2, <1>7, <1>9 DEF FlowTurn
<1>13. FlowEven'
  BY <1>1, <1>9, <1>12, TurnsKept
<1>14. QED
  BY <1>11, <1>13 DEF Orderly, ArgoEven

(* The version that Argo labels becomes the newest.                         *)
LEMMA CommitVersionOrderly ==
    ASSUME FlowInv, FlowOrder, flowFaults = 0, ~flowRaced, NEW h \in FlowHandlers, FlowReqOK(h), CommitVersion(h)
    PROVE  Orderly'
<1>1. /\ flowReq[h].op = "version" /\ flowReq[h].step = "commit" /\ flowReq[h] # FlowIdle /\ Numbered(h) /\ Relabelling(h)
      /\ flowReq \in [FlowHandlers -> FlowRequests] /\ ArgoEven /\ flowReq'[h] = FlowIdle /\ FlowTurn(h)'
      /\ flowReq'[h].step = "idle" /\ flowReq'[h].op = "idle" /\ UNCHANGED <<flowArgo, flowRow>>
      /\ NoRow \notin FlowRows /\ LiveRows \subseteq FlowRows
  BY OrderFacts, IdleTurn DEF CommitVersion, FlowAt, FlowIdle, Numbered, HoldsVersions, Relabelling
<1>2. /\ flowReq[h].row \in LiveRows /\ \A t \in LiveRows : t = flowReq[h].row
      /\ \A g \in FlowHandlers \ {h} : ~Numbered(g) /\ flowReq[g].op # "archive" /\ ~Relabelling(g)
      /\ \A g \in FlowHandlers : \A n : ~Removing(g, n)
  BY <1>1, MakerFinds
<1> PICK t \in FlowRows : t = flowReq[h].row
  BY <1>1, <1>2
<1> PICK m \in FlowNumbers : m = flowReq[h].number /\ flowVersion[m].row = NoRow
  BY <1>1, FlowFacts DEF FlowRequestOK, FlowNumbers
<1>3. \A n \in VersionsOf(t) : n < m
  BY <1>1, OrderFacts DEF FlowRequestOK
<1>4. \A n \in FlowNumbers : flowVersion'[n].row = IF n = m THEN t ELSE flowVersion[n].row
  BY DEF CommitVersion, FlowInv, FlowTypeOK
<1>5. LiveRows' = LiveRows
  BY <1>1 DEF LiveRows
<1>6. \A g \in FlowHandlers : \A n : ~Making(g, n)' /\ ~Removing(g, n)' /\ ~Relabelling(g)'
  <2>1. \A n : ~Making(h, n)' /\ ~Removing(h, n)' /\ ~Relabelling(h)'
    BY <1>1 DEF Making, Removing, Relabelling
  <2>2. QED
    BY <1>2, <2>1, OthersSame DEF Making
<1>7. \A n \in FlowNumbers : Made(n) <=> n = m
  BY <1>1, <1>2 DEF Made, Making
<1>8. ASSUME NEW n \in FlowNumbers  PROVE ArgoFollows(n)'
  <2>1. flowArgo[n] # "None" <=> flowVersion[n].row \in LiveRows \/ n = m
    BY <1>1, <1>2, <1>7 DEF ArgoEven, ArgoFollows, InForce
  <2>2. flowArgo[n] = "Latest" <=> n = m
    BY <1>1, <1>7 DEF ArgoEven, ArgoFollows, Labelled
  <2>3. ~Made(n)'
    BY <1>6 DEF Made
  <2>4. InForce(n)' <=> flowVersion[n].row \in LiveRows \/ n = m
    BY <1>2, <1>4, <1>5, <1>6 DEF InForce
  <2>5. n = m => Labelled(n)'
    <3>1. SUFFICES ASSUME n = m  PROVE \A k \in FlowNumbers : flowVersion'[k].row = t => k <= m
      BY <1>4, <1>6 DEF Labelled, VersionsOf
    <3>2. QED
      BY <1>3, <1>4 DEF VersionsOf, FlowNumbers
  <2>6. flowVersion[n].row \in LiveRows => ~Labelled(n)'
    <3>1. SUFFICES ASSUME flowVersion[n].row \in LiveRows, n # m
                   PROVE  \E k \in FlowNumbers : flowVersion'[k].row = flowVersion'[n].row /\ ~(k <= n)
      BY <1>1 DEF Labelled, VersionsOf
    <3>2. flowVersion[n].row = t
      BY <1>2, <3>1
    <3>3. n < m
      BY <1>3, <3>2 DEF VersionsOf
    <3>4. QED
      BY <1>4, <3>1, <3>2, <3>3 DEF FlowNumbers
  <2>7. QED
    BY <1>1, <2>1, <2>2, <2>3, <2>4, <2>5, <2>6 DEF ArgoFollows
<1>9. FlowEven'
  BY <1>1, <1>5, TurnsKept
<1>10. QED
  BY <1>8, <1>9 DEF Orderly, ArgoEven

(* An archive is alone.                                                     *)
LEMMA ArchiveAlone ==
    ASSUME FlowInv, FlowOrder, flowFaults = 0, ~flowRaced, NEW h \in FlowHandlers, flowReq[h].op = "archive", FlowReqOK(h)
    PROVE  /\ \A g \in FlowHandlers \ {h} : flowReq[g] = FlowIdle /\ flowReq'[g] = FlowIdle
           /\ \A g \in FlowHandlers : \A n : ~Making(g, n) /\ ~Relabelling(g)
           /\ \A g \in FlowHandlers \ {h} : \A n : ~Removing(g, n) /\ ~Making(g, n)' /\ ~Relabelling(g)' /\ ~Removing(g, n)'
           /\ flowReq[h] # FlowIdle /\ flowReq[h] \in FlowRequests /\ flowReq \in [FlowHandlers -> FlowRequests]
           /\ FlowTurn(h) /\ ArgoEven
<1>1. /\ flowReq[h] # FlowIdle /\ FlowEven /\ flowReq[h] \in FlowRequests /\ flowReq \in [FlowHandlers -> FlowRequests]
      /\ FlowTurn(h) /\ ArgoEven
  BY OrderFacts DEF FlowIdle
<1>2. \A g \in FlowHandlers \ {h} : flowReq[g] = FlowIdle /\ flowReq'[g] = FlowIdle
  BY <1>1, AtWork DEF FlowReqOK
<1>3. FlowIdle.op = "idle" /\ FlowIdle.step = "idle"
  BY DEF FlowIdle
<1>4. \A g \in FlowHandlers \ {h} : \A n : /\ ~Making(g, n) /\ ~Removing(g, n) /\ ~Relabelling(g)
                                           /\ ~Making(g, n)' /\ ~Relabelling(g)' /\ ~Removing(g, n)'
  BY <1>2, <1>3 DEF Making, Removing, Relabelling
<1>5. \A n : ~Making(h, n) /\ ~Relabelling(h)
  BY DEF Making, Relabelling, Numbered, Inserted, HoldsVersions
<1>6. QED
  BY <1>1, <1>2, <1>4, <1>5

LEMMA ListOrderly ==
    ASSUME FlowInv, FlowOrder, flowFaults = 0, ~flowRaced, NEW h \in FlowHandlers, FlowReqOK(h), ListVersions(h)
    PROVE  Orderly'
<1>1. flowReq[h].op = "archive" /\ flowReq[h].step = "list" /\ UNCHANGED <<flowRow, flowVersion, flowArgo>>
  BY DEF ListVersions, FlowAt
<1>2. /\ \A g \in FlowHandlers \ {h} : flowReq[g] = FlowIdle /\ flowReq'[g] = FlowIdle
      /\ \A g \in FlowHandlers : \A n : ~Making(g, n) /\ ~Relabelling(g)
      /\ \A g \in FlowHandlers \ {h} : \A n : ~Removing(g, n) /\ ~Making(g, n)' /\ ~Relabelling(g)' /\ ~Removing(g, n)'
      /\ flowReq[h] # FlowIdle /\ flowReq[h] \in FlowRequests /\ flowReq \in [FlowHandlers -> FlowRequests]
      /\ ArgoEven
  BY <1>1, ArchiveAlone
<1>3. /\ flowReq'[h].op = "archive" /\ flowReq'[h].step = "delete"
      /\ flowReq'[h].seen = UNION {VersionsOf(t) : t \in LiveRows}
  BY <1>1, <1>2 DEF ListVersions, FlowRequests
<1>4. \A n \in FlowNumbers : n \in flowReq'[h].seen <=> flowVersion[n].row \in LiveRows
  BY <1>3 DEF VersionsOf
<1>5. LiveRows' = LiveRows
  BY <1>1 DEF LiveRows
<1>6. \A n : ~Making(h, n)' /\ ~Relabelling(h)' /\ ~Removing(h, n) /\ (Removing(h, n)' <=> n \notin flowReq'[h].seen)
  BY <1>1, <1>3 DEF Making, Relabelling, Removing, Numbered, Inserted, HoldsVersions
<1>7. ASSUME NEW n \in FlowNumbers  PROVE ArgoFollows(n)'
  <2>1. ~Made(n)' /\ ~Made(n)
    BY <1>2, <1>6 DEF Made
  <2>2. InForce(n)' <=> InForce(n)
    BY <1>1, <1>2, <1>4, <1>5, <1>6 DEF InForce
  <2>3. Labelled(n)' <=> Labelled(n)
    BY <1>1, <1>2, <1>6 DEF Labelled, VersionsOf
  <2>4. ArgoFollows(n)
    BY <1>2 DEF ArgoEven
  <2>5. QED
    BY <1>1, <2>1, <2>2, <2>3, <2>4 DEF ArgoFollows
<1>8. FlowTurn(h)'
  <2>1. \A n \in flowReq'[h].seen : flowVersion'[n].row \in LiveRows'
    BY <1>1, <1>3, <1>5 DEF VersionsOf
  <2>2. QED
    BY <1>2, <1>3, <2>1 DEF FlowTurn
<1>9. FlowEven'
  BY <1>1, <1>2, <1>5, <1>8, TurnsKept
<1>10. QED
  BY <1>7, <1>9 DEF Orderly, ArgoEven

(* Every listed version is still there when its turn comes.                 *)
LEMMA ListedIsThere ==
    ASSUME FlowInv, FlowOrder, flowFaults = 0, ~flowRaced, NEW h \in FlowHandlers,
           flowReq[h].op = "archive", NEW m \in flowReq[h].seen, flowReq[h].step = "delete"
    PROVE  m \in FlowNumbers /\ flowVersion[m].row \in LiveRows /\ flowArgo[m] # "None"
<1>1. /\ flowReq[h] # FlowIdle /\ FlowEven /\ flowReq[h] \in FlowRequests /\ FlowTurn(h) /\ ArgoEven
  BY OrderFacts DEF FlowIdle
<1>2. m \in FlowNumbers /\ flowVersion[m].row \in LiveRows
  BY <1>1 DEF FlowRequests, FlowTurn
<1>3. \A g \in FlowHandlers \ {h} : flowReq[g].op # "archive"
  BY <1>1, AtWork
<1>4. InForce(m)
  BY <1>2, <1>3 DEF InForce, Removing
<1>5. QED
  BY <1>1, <1>2, <1>4 DEF ArgoEven, ArgoFollows

(* So a deletion removes one more template of a version in force.           *)
LEMMA DeleteOrderly ==
    ASSUME FlowInv, FlowOrder, flowFaults = 0, ~flowRaced, NEW h \in FlowHandlers, FlowReqOK(h), DeleteVersion(h)
    PROVE  Orderly'
<1>1. flowReq[h].op = "archive" /\ flowReq[h].step = "delete" /\ UNCHANGED <<flowRow, flowVersion>>
  BY DEF DeleteVersion, FlowAt
<1>2. /\ \A g \in FlowHandlers \ {h} : flowReq[g] = FlowIdle /\ flowReq'[g] = FlowIdle
      /\ \A g \in FlowHandlers : \A n : ~Making(g, n) /\ ~Relabelling(g)
      /\ \A g \in FlowHandlers \ {h} : \A n : ~Removing(g, n) /\ ~Making(g, n)' /\ ~Relabelling(g)' /\ ~Removing(g, n)'
      /\ flowReq[h] # FlowIdle /\ flowReq[h] \in FlowRequests /\ flowReq \in [FlowHandlers -> FlowRequests]
      /\ FlowTurn(h) /\ ArgoEven
  BY <1>1, ArchiveAlone
<1>3. PICK m \in flowReq[h].seen :
        IF flowArgo[m] = "None"
        THEN FlowDone(h) /\ UNCHANGED flowArgo
        ELSE flowArgo' = [flowArgo EXCEPT ![m] = "None"] /\ flowReq' = [flowReq EXCEPT ![h].seen = @ \ {m}]
  BY DEF DeleteVersion
<1>4. m \in FlowNumbers /\ flowVersion[m].row \in LiveRows
  BY <1>1, <1>2 DEF FlowRequests, FlowTurn
<1>5. flowArgo[m] # "None"
  BY <1>1, <1>3, ListedIsThere
<1>6. /\ flowArgo'[m] = "None" /\ \A n \in FlowNumbers \ {m} : flowArgo'[n] = flowArgo[n]
      /\ flowReq'[h].op = "archive" /\ flowReq'[h].step = "delete" /\ flowReq'[h].seen = flowReq[h].seen \ {m}
  BY <1>1, <1>2, <1>3, <1>4, <1>5 DEF FlowRequests, FlowInv, FlowTypeOK
<1>7. LiveRows' = LiveRows
  BY <1>1 DEF LiveRows
<1>8. \A n : ~Making(h, n)' /\ ~Relabelling(h)' /\ (Removing(h, n)' <=> Removing(h, n) \/ n = m)
  BY <1>1, <1>6 DEF Making, Relabelling, Removing, Numbered, Inserted, HoldsVersions
<1>9. ASSUME NEW n \in FlowNumbers  PROVE ArgoFollows(n)'
  <2>1. ~Made(n)' /\ ~Made(n)
    BY <1>2, <1>8 DEF Made
  <2>2. InForce(n)' <=> InForce(n) /\ n # m
    BY <1>1, <1>2, <1>7, <1>8 DEF InForce
  <2>3. Labelled(n)' <=> Labelled(n)
    BY <1>1, <1>2, <1>8 DEF Labelled, VersionsOf
  <2>4. ArgoFollows(n)
    BY <1>2 DEF ArgoEven
  <2>5. QED
    BY <1>6, <2>1, <2>2, <2>3, <2>4 DEF ArgoFollows
<1>10. FlowTurn(h)'
  BY <1>1, <1>2, <1>6, <1>7 DEF FlowTurn
<1>11. FlowEven'
  BY <1>1, <1>2, <1>7, <1>10, TurnsKept
<1>12. QED
  BY <1>9, <1>11 DEF Orderly, ArgoEven

(* The row goes when nothing is left in Argo.                               *)
LEMMA ArchivedOrderly ==
    ASSUME FlowInv, FlowOrder, flowFaults = 0, ~flowRaced, NEW h \in FlowHandlers, FlowReqOK(h), MarkArchived(h)
    PROVE  Orderly'
<1>1. /\ flowReq[h].op = "archive" /\ flowReq[h].step = "delete" /\ flowReq[h].seen = {}
      /\ UNCHANGED <<flowVersion, flowArgo>>
  BY DEF MarkArchived, FlowAt
<1>2. /\ \A g \in FlowHandlers \ {h} : flowReq[g] = FlowIdle /\ flowReq'[g] = FlowIdle
      /\ \A g \in FlowHandlers : \A n : ~Making(g, n) /\ ~Relabelling(g)
      /\ \A g \in FlowHandlers \ {h} : \A n : ~Removing(g, n) /\ ~Making(g, n)' /\ ~Relabelling(g)' /\ ~Removing(g, n)'
      /\ flowReq[h] # FlowIdle /\ flowReq \in [FlowHandlers -> FlowRequests] /\ ArgoEven
  BY <1>1, ArchiveAlone
<1>3. flowReq'[h].step = "idle" /\ flowReq'[h].op = "idle" /\ FlowTurn(h)'
  BY <1>2, IdleTurn DEF MarkArchived
<1>4. LiveRows' = {}
  BY DEF MarkArchived, LiveRows
<1>5. ASSUME NEW n \in FlowNumbers  PROVE ArgoFollows(n)'
  <2>1. ~Made(n)' /\ ~Made(n)
    BY <1>2, <1>3 DEF Made, Making
  <2>2. ~InForce(n)
    BY <1>1 DEF InForce, Removing
  <2>3. flowArgo[n] = "None"
    BY <1>2, <2>1, <2>2 DEF ArgoEven, ArgoFollows
  <2>4. ~InForce(n)'
    BY <1>4 DEF InForce
  <2>5. QED
    BY <1>1, <2>1, <2>3, <2>4 DEF ArgoFollows
<1>6. FlowEven'
  BY <1>1, <1>2, <1>3, TurnsKept
<1>7. QED
  BY <1>5, <1>6 DEF Orderly, ArgoEven
----------------------------------------------------------------------------
LEMMA StepsKept ==
    ASSUME FlowInv, FlowOrder, NEW h \in FlowHandlers, FlowStep(h)
    PROVE  \A g \in FlowHandlers : FlowStepOK(g)'
<1>0. FlowReqOK(h) /\ flowReq \in [FlowHandlers -> FlowRequests] /\ flowReq[h] \in FlowRequests /\ FlowStepOK(h)
  BY FlowTypeKept, FlowFacts DEF FlowInv, FlowTypeOK, FlowOrder
<1>1. \A g \in FlowHandlers \ {h} : FlowStepOK(g)'
  BY <1>0 DEF FlowOrder, FlowReqOK, FlowStepOK
<1>2. CASE FlowDone(h)
  BY <1>0, <1>1, <1>2, IdleTurn DEF FlowStepOK
<1>3. ASSUME NEW op, NEW step, NEW t, FlowStart(h, op, step, t),
             <<op, step>> \in {<<"create", "insert">>, <<"version", "outdate">>, <<"archive", "list">>}
      PROVE  FlowStepOK(h)'
  <2>1. flowReq'[h].op = op /\ flowReq'[h].step = step
    BY <1>0, <1>3 DEF FlowStart, FlowIdle
  <2>2. QED
    BY <1>3, <2>1 DEF FlowStepOK
<1>4. CASE (\E t \in FlowRows : CreateFlow(h, t) \/ AddVersion(h, t)) \/ FindFlow(h)
  BY <1>1, <1>3, <1>4 DEF CreateFlow, AddVersion, FindFlow
<1>5. ASSUME ~FlowDone(h), FlowAdvance(h)  PROVE FlowStepOK(h)'
  <2>1. flowReq'[h].op = flowReq[h].op
    BY <1>0, <1>5 DEF FlowAdvance, InsertFlow, CreateArgoTemplate, CommitFlow, OutdateVersions, LockVersions, ReadLatest,
       UnlabelOlder, CommitVersion, ListVersions, DeleteVersion, MarkArchived, NumberVersion, FlowMove, FlowRequests
  <2>2. CASE InsertFlow(h) \/ CreateArgoTemplate(h)
    BY <1>0, <1>5, <2>1, <2>2 DEF InsertFlow, CreateArgoTemplate, NumberVersion, FlowMove, FlowRequests, FlowStepOK, FlowAt
  <2>3. CASE OutdateVersions(h) \/ LockVersions(h) \/ ReadLatest(h) \/ UnlabelOlder(h)
    BY <1>0, <1>5, <2>1, <2>3 DEF OutdateVersions, LockVersions, ReadLatest, UnlabelOlder, NumberVersion, FlowMove,
       FlowRequests, FlowStepOK, FlowAt
  <2>4. CASE ListVersions(h) \/ DeleteVersion(h)
    BY <1>0, <1>5, <2>1, <2>4 DEF ListVersions, DeleteVersion, FlowRequests, FlowStepOK, FlowAt
  <2>5. QED
    BY <1>5, <2>2, <2>3, <2>4 DEF FlowAdvance, CommitFlow, CommitVersion, MarkArchived
<1>6. QED
  BY <1>1, <1>2, <1>4, <1>5 DEF FlowStep, CommitFlowFails, BreakOff

(* The index lets one row be live.                                          *)
LEMMA OneLiveKept ==
    ASSUME FlowInv, FlowOrder, NEW h \in FlowHandlers, FlowStep(h)
    PROVE  \A t, u \in LiveRows' : t = u
<1>0. /\ \A t, u \in LiveRows : t = u
      /\ flowRow \in [FlowRows -> {"Absent", "Live", "Archived"}]
  BY DEF FlowOrder, FlowInv, FlowTypeOK
<1>1. CASE CommitFlow(h)
  <2>1. LiveRows = {}
    BY <1>1, FlowFacts DEF CommitFlow, FlowAt, FlowRequestOK, Inserted
  <2>2. QED
    BY <1>0, <1>1, <2>1 DEF CommitFlow, LiveRows
<1>2. CASE MarkArchived(h)
  BY <1>2 DEF MarkArchived, LiveRows
<1>3. CASE UNCHANGED flowRow
  BY <1>0, <1>3 DEF LiveRows
<1>4. QED
  BY <1>1, <1>2, <1>3 DEF FlowStep, FlowAdvance, CreateFlow, AddVersion, FindFlow, InsertFlow, CreateArgoTemplate,
     OutdateVersions, LockVersions, ReadLatest, UnlabelOlder, CommitVersion, ListVersions, DeleteVersion,
     CommitFlowFails, BreakOff

(* One lemma for each action.                                               *)
(* Failures and overlaps are never taken back.                              *)
LEMMA FlowCounted ==
    ASSUME FlowTypeOK, NEW h \in FlowHandlers, FlowStep(h)
    PROVE  /\ flowFaults \in Nat /\ (flowFaults' = flowFaults \/ flowFaults' = flowFaults + 1)
           /\ flowRaced => flowRaced'
<1>1. flowFaults \in Nat
  BY FlowAssumption DEF FlowTypeOK
<1>2. flowFaults' = flowFaults \/ flowFaults' = flowFaults + 1
  BY DEF FlowStep, FlowAdvance, CreateFlow, AddVersion, FindFlow, InsertFlow, CreateArgoTemplate, CommitFlow,
     OutdateVersions, LockVersions, ReadLatest, UnlabelOlder, CommitVersion, ListVersions, DeleteVersion, MarkArchived,
     CommitFlowFails, BreakOff
<1>3. flowRaced => flowRaced'
  BY DEF FlowStep, FlowAdvance, CreateFlow, AddVersion, FindFlow, InsertFlow, CreateArgoTemplate, CommitFlow, FlowStart,
     OutdateVersions, LockVersions, ReadLatest, UnlabelOlder, CommitVersion, ListVersions, DeleteVersion, MarkArchived,
     CommitFlowFails, BreakOff
<1>4. QED
  BY <1>1, <1>2, <1>3

LEMMA FlowOrderKept ==
    ASSUME FlowInv, FlowOrder, NEW h \in FlowHandlers, FlowStep(h)
    PROVE  FlowOrder'
<1>0. FlowReqOK(h)
  BY FlowTypeKept DEF FlowInv
<1>1. SUFFICES ASSUME flowFaults' = 0, ~flowRaced'  PROVE Orderly'
  BY StepsKept, OneLiveKept DEF FlowOrder, Orderly
<1>3. flowFaults = 0 /\ flowFaults' = flowFaults
  BY <1>1, FlowCounted DEF FlowInv
<1>4. ~flowRaced
  BY <1>1, FlowCounted DEF FlowInv
<1>5. ASSUME NEW t \in FlowRows, CreateFlow(h, t) \/ AddVersion(h, t)  PROVE Orderly'
  <2>1. UNCHANGED <<flowRow, flowVersion, flowArgo>>
    BY <1>5 DEF CreateFlow, AddVersion
  <2>2. CASE CreateFlow(h, t)
    <3>1. FlowStart(h, "create", "insert", t)
      BY <2>2 DEF CreateFlow
    <3>2. QED
      BY <1>0, <1>1, <1>3, <1>4, <2>1, <3>1, StartsOrderly
  <2>3. CASE AddVersion(h, t)
    <3>1. FlowStart(h, "version", "outdate", t) /\ t \in LiveRows
      BY <2>3 DEF AddVersion
    <3>2. QED
      BY <1>0, <1>1, <1>3, <1>4, <2>1, <3>1, StartsOrderly
  <2>4. QED
    BY <1>5, <2>2, <2>3
<1>6. CASE FindFlow(h)
  <2>1. PICK t : FlowStart(h, "archive", "list", t) /\ UNCHANGED <<flowRow, flowVersion, flowArgo>>
    BY <1>6 DEF FindFlow
  <2>2. QED
    BY <1>0, <1>1, <1>3, <1>4, <2>1, StartsOrderly
<1>7. CASE InsertFlow(h) \/ CreateArgoTemplate(h) \/ CommitFlow(h)
  BY <1>0, <1>3, <1>4, <1>7, InsertFlowOrderly, MakeOrderly, CommitFlowOrderly
<1>8. CASE OutdateVersions(h) \/ LockVersions(h) \/ ReadLatest(h) \/ UnlabelOlder(h) \/ CommitVersion(h)
  BY <1>0, <1>3, <1>4, <1>8, OutdateOrderly, ReadLatestOrderly, UnlabelOrderly, CommitVersionOrderly
<1>9. CASE ListVersions(h) \/ DeleteVersion(h) \/ MarkArchived(h)
  BY <1>0, <1>3, <1>4, <1>9, ListOrderly, DeleteOrderly, ArchivedOrderly
<1>10. CASE CommitFlowFails(h) \/ BreakOff(h)
  BY <1>1, <1>3, <1>10 DEF CommitFlowFails, BreakOff
<1>11. QED
  BY <1>5, <1>6, <1>7, <1>8, <1>9, <1>10 DEF FlowStep, FlowAdvance

LEMMA FlowOrderAtFirst == FlowInit => FlowOrder
<1> SUFFICES ASSUME FlowInit  PROVE FlowOrder
  OBVIOUS
<1>1. LiveRows = {} /\ \A h \in FlowHandlers : flowReq[h].op = "idle" /\ flowReq[h].step = "idle"
  BY DEF FlowInit, LiveRows, FlowIdle
<1>2. \A h \in FlowHandlers : FlowStepOK(h) /\ FlowTurn(h)
  BY <1>1 DEF FlowStepOK, FlowTurn
<1>3. \A n \in FlowNumbers : ~InForce(n) /\ ~Made(n)
  BY <1>1 DEF InForce, Made, Making
<1>4. ArgoEven
  BY <1>3 DEF FlowInit, ArgoEven, ArgoFollows
<1>5. QED
  BY <1>1, <1>2, <1>4 DEF FlowOrder, FlowEven

(* What an undisturbed template, its requests and Argo say of each other,   *)
(* in every state.                                                          *)
THEOREM FlowOrderInvariant == FlowSpec => []FlowOrder
<1>1. FlowInv /\ FlowOrder /\ [FlowNext]_flowVars => FlowOrder'
  <2> SUFFICES ASSUME FlowInv, FlowOrder, [FlowNext]_flowVars  PROVE FlowOrder'
    OBVIOUS
  <2>1. CASE FlowNext
    BY <2>1, FlowNextStep, FlowOrderKept
  <2>2. CASE UNCHANGED flowVars
    BY <2>2 DEF flowVars, FlowOrder, FlowStepOK, FlowEven, FlowTurn, ArgoEven, ArgoFollows, Made, Making, InForce, Removing,
       Labelled, Relabelling, Numbered, Inserted, HoldsVersions, LiveRows, VersionsOf
  <2>3. QED
    BY <2>1, <2>2
<1>2. QED
  BY <1>1, FlowOrderAtFirst, FlowInvariant, PTL DEF FlowSpec

(* Between requests, Argo holds exactly the versions of the live template   *)
(* and labels the newest of them latest, unless a request has failed or an  *)
(* archive has overlapped another (createWorkflowTemplate,                  *)
(* CreateWorkflowTemplateVersion, ArchiveWorkflowTemplate).                 *)
THEOREM ArgoStaysInStep == FlowSpec => []FlowAgrees
<1>1. FlowOrder => FlowAgrees
  <2> SUFFICES ASSUME FlowOrder, FlowQuiet, flowFaults = 0, ~flowRaced, NEW n \in FlowNumbers
               PROVE  /\ flowArgo[n] # "None" <=> flowVersion[n].row \in LiveRows
                      /\ flowArgo[n] = "Latest" <=> /\ flowVersion[n].row \in LiveRows
                                                    /\ \A k \in VersionsOf(flowVersion[n].row) : k <= n
    BY DEF FlowAgrees
  <2>1. \A g \in FlowHandlers : flowReq[g].op = "idle" /\ flowReq[g].step = "idle"
    BY DEF FlowQuiet, FlowIdle
  <2>2. ~Made(n)
    BY <2>1 DEF Made, Making
  <2>3. InForce(n) <=> flowVersion[n].row \in LiveRows
    BY <2>1 DEF InForce, Removing
  <2>4. Labelled(n) <=> \A k \in VersionsOf(flowVersion[n].row) : k <= n
    BY <2>1 DEF Labelled, Relabelling
  <2>5. ArgoFollows(n)
    BY DEF FlowOrder, ArgoEven
  <2>6. QED
    BY <2>2, <2>3, <2>4, <2>5 DEF ArgoFollows
<1>2. QED
  BY <1>1, FlowOrderInvariant, PTL

(* An archive whose answer is true has left no live template, unless a      *)
(* request has failed or met the archive.                                   *)
THEOREM ArchivesEndArchived == FlowSpec => ArchiveEndsArchived
<1> DEFINE Ends == \A h \in FlowHandlers :
                      flowReq[h].op = "archive" /\ flowReq'[h] = FlowIdle =>
                          LiveRows' = {} \/ flowFaults' > 0 \/ flowRaced'
<1>1. FlowInv /\ FlowOrder /\ FlowInv' /\ [FlowNext]_flowVars => [Ends]_flowVars
  <2> SUFFICES ASSUME FlowInv, FlowOrder, FlowInv', FlowNext, NEW h \in FlowHandlers,
                      flowReq[h].op = "archive", flowReq'[h] = FlowIdle, ~(flowFaults' > 0), ~flowRaced'
               PROVE  LiveRows' = {}
    BY DEF flowVars
  <2>1. PICK g \in FlowHandlers : FlowStep(g)
    BY FlowNextStep
  <2>2. /\ flowFaults \in Nat /\ (flowFaults' = flowFaults \/ flowFaults' = flowFaults + 1)
        /\ flowRaced => flowRaced'
    BY <2>1, FlowCounted DEF FlowInv
  <2>3. flowFaults = 0 /\ flowFaults' = 0 /\ ~flowRaced
    BY <2>2
  <2>4. flowReq[h] # FlowIdle /\ FlowReqOK(g)
    BY <2>1, FlowTypeKept DEF FlowIdle, FlowInv
  <2>5. g = h
    BY <2>4 DEF FlowReqOK
  <2>6. CASE DeleteVersion(h)
    <3>1. PICK m \in flowReq[h].seen :
            IF flowArgo[m] = "None"
            THEN FlowDone(h) /\ UNCHANGED flowArgo
            ELSE flowArgo' = [flowArgo EXCEPT ![m] = "None"] /\ flowReq' = [flowReq EXCEPT ![h].seen = @ \ {m}]
      BY <2>6 DEF DeleteVersion
    <3>2. flowReq' = [flowReq EXCEPT ![h].seen = @ \ {m}]
      BY <2>3, <2>6, <3>1, ListedIsThere DEF DeleteVersion, FlowAt
    <3>3. flowReq'[h].op = "archive"
      BY <3>2 DEF FlowInv, FlowTypeOK, FlowRequests
    <3>4. QED
      BY <3>3 DEF FlowIdle
  <2>7. CASE MarkArchived(h)
    BY <2>7 DEF MarkArchived, LiveRows
  <2>8. CASE ListVersions(h)
    <3>1. flowReq'[h].op = "archive"
      <4>1. flowReq[h] \in FlowRequests /\ flowReq \in [FlowHandlers -> FlowRequests]
        BY DEF FlowInv, FlowTypeOK
      <4>2. \E seen : flowReq' = [flowReq EXCEPT ![h] = [flowReq[h] EXCEPT !.step = "delete", !.seen = seen]]
        BY <2>8, <4>1 DEF ListVersions
      <4>3. QED
        BY <4>1, <4>2 DEF FlowRequests
    <3>2. QED
      BY <3>1 DEF FlowIdle
  <2>9. CASE CommitFlowFails(h) \/ BreakOff(h)
    BY <2>3, <2>9 DEF CommitFlowFails, BreakOff
  <2>10. FlowStepOK(h)
    BY DEF FlowOrder
  <2>11. DeleteVersion(h) \/ MarkArchived(h) \/ ListVersions(h) \/ CommitFlowFails(h) \/ BreakOff(h)
    BY <2>1, <2>4, <2>5, <2>10
       DEF FlowStepOK, FlowStep, FlowAdvance, FlowAt, CreateFlow, AddVersion, FindFlow, FlowStart, InsertFlow,
           CreateArgoTemplate, CommitFlow, OutdateVersions, LockVersions, ReadLatest, UnlabelOlder, CommitVersion
  <2>12. QED
    BY <2>6, <2>7, <2>8, <2>9, <2>11
<1>2. QED
  BY <1>1, FlowInvariant, FlowOrderInvariant, PTL DEF FlowSpec, ArchiveEndsArchived
=============================================================================
