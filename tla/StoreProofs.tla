------------------------------ MODULE StoreProofs ------------------------------
(***************************************************************************)
(* Proofs of what Secret, Labels and Metrics keep under interleaved        *)
(* requests, for every set of keys, namespaces, metrics and request        *)
(* goroutines.                                                             *)
(***************************************************************************)
EXTENDS MCStores, WorkspaceTemplateProofs, CronWorkflowProofs, WellFoundedInduction

----------------------------------------------------------------------------
(* Secrets.                                                                 *)

SecretRequests == [op : {"idle", "add", "delete", "update"}, key : SecretKeys \cup {NoKey}, empty : BOOLEAN]

(* Until two of them overlap, a request that read an empty secret is the    *)
(* only one, and the secret is empty still: its map overwrites nothing.     *)
EmptyReader ==
    ~secOverlap =>
        \A h \in SecretHandlers : secReq[h].empty =>
            secData = {} /\ \A g \in SecretHandlers \ {h} : ~secReq[g].empty

SecretInv ==
    /\ secData \subseteq SecretKeys /\ secPromised \subseteq SecretKeys
    /\ secExists \in BOOLEAN /\ secOverlap \in BOOLEAN
    /\ secReq \in [SecretHandlers -> SecretRequests]
    /\ \A h \in SecretHandlers : secReq[h].op # "idle" => secReq[h].key \in SecretKeys
    /\ ~secExists => secPromised = {} /\ secData = {}
    /\ EmptyReader
    /\ AdditionsKept

LEMMA SecretDoneFacts ==
    ASSUME SecretInv, NEW h \in SecretHandlers, SecretDone(h)
    PROVE  /\ secReq' \in [SecretHandlers -> SecretRequests]
           /\ ~secReq'[h].empty /\ secReq'[h].op = "idle"
           /\ \A g \in SecretHandlers \ {h} : secReq'[g] = secReq[g]
  BY DEF SecretInv, SecretDone, SecretIdle, SecretRequests

LEMMA SecretStep == SecretInv /\ [SecretNext]_secVars => SecretInv'
<1> SUFFICES ASSUME SecretInv, [SecretNext]_secVars  PROVE SecretInv'
  OBVIOUS
<1>0. secReq \in [SecretHandlers -> SecretRequests]
  BY DEF SecretInv
<1>1. CASE DeleteSecret
  BY <1>1 DEF DeleteSecret, SecretInv, EmptyReader, AdditionsKept
<1>2. CASE CreateSecret
  <2>1. secOverlap' = (secOverlap \/ \E g \in SecretHandlers : secReq[g].empty)
        /\ secReq' = secReq /\ secPromised = {} /\ secPromised' = {}
    BY <1>2 DEF CreateSecret, SecretInv
  <2>2. EmptyReader' /\ AdditionsKept'
    BY <2>1 DEF EmptyReader, AdditionsKept
  <2>3. QED
    BY <1>2, <2>1, <2>2 DEF CreateSecret, SecretInv
<1>3. ASSUME NEW h \in SecretHandlers, NEW k \in SecretKeys, NEW op \in {"add", "delete", "update"},
             ReadSecret(h, op, k)
      PROVE  SecretInv'
  <2> DEFINE r == [op |-> op, key |-> k, empty |-> secData = {}]
  <2>1. r \in SecretRequests
    BY DEF SecretRequests
  <2>2. secReq' = [secReq EXCEPT ![h] = r]
    BY <1>3 DEF ReadSecret
  <2>3. secReq' \in [SecretHandlers -> SecretRequests]
        /\ (secReq'[h].empty <=> secData = {}) /\ secReq'[h].key = k
        /\ \A g \in SecretHandlers \ {h} : secReq'[g] = secReq[g]
    BY <1>0, <2>1, <2>2
  <2>4. UNCHANGED <<secExists, secData, secPromised>>
        /\ secOverlap' = (secOverlap \/ (secData = {} /\ \E g \in SecretHandlers : secReq[g].empty))
    BY <1>3 DEF ReadSecret
  <2>5. EmptyReader'
    BY <2>3, <2>4 DEF EmptyReader, SecretInv
  <2>6. QED
    BY <2>3, <2>4, <2>5 DEF SecretInv, AdditionsKept
<1>4. ASSUME NEW h \in SecretHandlers, PatchAdd(h)  PROVE SecretInv'
  <2>1. /\ secReq' \in [SecretHandlers -> SecretRequests] /\ ~secReq'[h].empty
        /\ secReq'[h].op = "idle" /\ \A g \in SecretHandlers \ {h} : secReq'[g] = secReq[g]
    BY <1>4, SecretDoneFacts DEF PatchAdd
  <2>2. /\ secReq[h].op = "add" /\ secExists /\ (secReq[h].empty \/ secData # {})
        /\ secData' = (IF secReq[h].empty THEN {} ELSE secData) \cup {secReq[h].key}
        /\ secPromised' = secPromised \cup {secReq[h].key}
        /\ UNCHANGED <<secExists, secOverlap>>
    BY <1>4 DEF PatchAdd
  <2>3. secReq[h].key \in SecretKeys
    BY <1>4 DEF PatchAdd, SecretInv
  <2>4. EmptyReader'
    BY <2>1, <2>2 DEF EmptyReader, SecretInv
  <2>5. AdditionsKept'
    BY <2>2 DEF EmptyReader, AdditionsKept, SecretInv
  <2>6. QED
    BY <2>1, <2>2, <2>3, <2>4, <2>5 DEF SecretInv
<1>5. ASSUME NEW h \in SecretHandlers, PatchRemove(h) \/ PatchReplace(h) \/ PatchFails(h)  PROVE SecretInv'
  <2>1. /\ secReq' \in [SecretHandlers -> SecretRequests] /\ ~secReq'[h].empty
        /\ secReq'[h].op = "idle" /\ \A g \in SecretHandlers \ {h} : secReq'[g] = secReq[g]
    BY <1>5, SecretDoneFacts DEF PatchRemove, PatchReplace, PatchFails
  <2>2. /\ UNCHANGED <<secExists, secOverlap>>
        /\ \/ UNCHANGED <<secData, secPromised>>
           \/ secData' = secData \ {secReq[h].key} /\ secPromised' = secPromised \ {secReq[h].key}
    BY <1>5 DEF PatchRemove, PatchReplace, PatchFails
  <2>3. QED
    BY <2>1, <2>2 DEF SecretInv, EmptyReader, AdditionsKept
<1>6. CASE UNCHANGED secVars
  BY <1>6 DEF secVars, SecretInv, EmptyReader, AdditionsKept
<1>7. QED
  BY <1>1, <1>2, <1>3, <1>4, <1>5, <1>6 DEF SecretNext

LEMMA SecretStarts == SecretInit => SecretInv
<1>1. SecretIdle \in SecretRequests /\ SecretIdle.op = "idle" /\ ~SecretIdle.empty
  BY DEF SecretIdle, SecretRequests
<1>2. QED
  BY <1>1 DEF SecretInit, SecretInv, EmptyReader, AdditionsKept

(* A key that was added stays until it is removed, but for additions that   *)
(* met in an empty secret.                                                  *)
THEOREM AddedKeysStay == SecretSpec => []AdditionsKept
<1>1. SecretInv => AdditionsKept
  BY DEF SecretInv
<1>2. QED
  BY <1>1, SecretStarts, SecretStep, PTL DEF SecretSpec

----------------------------------------------------------------------------
(* Labels.                                                                  *)

LabelRequests ==
    [step : {"idle", "read", "update"}, space : LabelSpaces \cup {NoSpaceOfLabels},
     labels : Labellings, read : Labellings, fresh : {"yes", "no"}]

(* The value v of key k is the row's, or one a request for n asked for.     *)
Accounted(n, k, v) == v = labRow[n][k] \/ <<k, v>> \in labOver[n]

(* A request under way for n that will write key k.                         *)
Writes(h, n, k) == labReq[h].space = n /\ labReq[h].labels[k] # NoLabel

(* Until the requests under way for n are done, a key of its row that is    *)
(* not right on the object is still to be written by one of them, and each  *)
(* of them writes what is right.                                            *)
Following(n) ==
    \A k \in LabelKeys : labRow[n][k] # NoLabel =>
        /\ Accounted(n, k, labTags[n][k]) \/ \E h \in LabelHandlers : Writes(h, n, k)
        /\ \A h \in LabelHandlers : Writes(h, n, k) => Accounted(n, k, labReq[h].labels[k])

LabelsInv ==
    /\ labRow \in [LabelSpaces -> Labellings]
    /\ labTags \in [LabelSpaces -> Labellings]
    /\ labReq \in [LabelHandlers -> LabelRequests]
    /\ labApart \subseteq LabelSpaces
    /\ labOver \in [LabelSpaces -> SUBSET (LabelKeys \X LabelValues)]
    /\ \A h \in LabelHandlers :
        /\ labReq[h] # LabelsIdle => labReq[h].space \in LabelSpaces
        /\ labReq[h].step = "update" /\ labReq[h].fresh = "yes" => labReq[h].read = labTags[labReq[h].space]
        /\ labReq[h].step \in {"read", "idle"} => labReq[h].fresh = "no"
    /\ \A n \in LabelSpaces \ labApart : Following(n)

LEMMA LabelsIdleFacts ==
    /\ LabelsIdle \in LabelRequests /\ LabelsIdle.step = "idle" /\ LabelsIdle.fresh = "no"
    /\ LabelsIdle.space \notin LabelSpaces
  BY LabelAssumption DEF LabelsIdle, LabelRequests, NoLabels, Labellings

LEMMA MergeLabelsFacts ==
    ASSUME NEW old \in Labellings, NEW labels \in Labellings
    PROVE  /\ MergeLabels(old, labels) \in Labellings
           /\ \A k \in LabelKeys : MergeLabels(old, labels)[k] = IF labels[k] = NoLabel THEN old[k] ELSE labels[k]
  BY DEF MergeLabels, Labellings

LEMMA PairsFacts ==
    ASSUME NEW labels \in Labellings
    PROVE  /\ Pairs(labels) \subseteq LabelKeys \X LabelValues
           /\ \A k \in LabelKeys : labels[k] # NoLabel => <<k, labels[k]>> \in Pairs(labels)
  BY DEF Pairs, Labellings

LEMMA UnderWayFacts ==
    ASSUME labReq \in [LabelHandlers -> LabelRequests], NEW n
    PROVE  /\ PairsUnderWay(n) \subseteq LabelKeys \X LabelValues
           /\ \A h \in LabelHandlers, k \in LabelKeys :
                Writes(h, n, k) => <<k, labReq[h].labels[k]>> \in PairsUnderWay(n)
<1>1. \A h \in LabelHandlers : labReq[h].labels \in Labellings
  BY DEF LabelRequests
<1>2. QED
  BY <1>1, PairsFacts DEF PairsUnderWay, Writes

(* A step that leaves the row, the object and the history of n alone keeps  *)
(* n followed, if no request for n appears or goes.                         *)
LEMMA FollowingStays ==
    ASSUME NEW n \in LabelSpaces, Following(n),
           labRow'[n] = labRow[n], labTags'[n] = labTags[n], labOver'[n] = labOver[n],
           \A h \in LabelHandlers : labReq[h].space = n \/ labReq'[h].space = n =>
               labReq'[h].space = labReq[h].space /\ labReq'[h].labels = labReq[h].labels
    PROVE  Following(n)'
<1>1. \A h \in LabelHandlers, k \in LabelKeys : Writes(h, n, k)' <=> Writes(h, n, k)
  BY DEF Writes
<1>2. \A k \in LabelKeys : \A v : Accounted(n, k, v)' <=> Accounted(n, k, v)
  BY DEF Accounted
<1>3. \A h \in LabelHandlers, k \in LabelKeys : Writes(h, n, k) => labReq'[h].labels[k] = labReq[h].labels[k]
  BY DEF Writes
<1>4. QED
  BY <1>1, <1>2, <1>3 DEF Following

LEMMA LabelsStep == LabelsInv /\ [LabelsNext]_labVars => LabelsInv'
<1> SUFFICES ASSUME LabelsInv, [LabelsNext]_labVars  PROVE LabelsInv'
  OBVIOUS
<1>0. /\ labReq \in [LabelHandlers -> LabelRequests]
      /\ labRow \in [LabelSpaces -> Labellings]
      /\ labTags \in [LabelSpaces -> Labellings]
      /\ labApart \subseteq LabelSpaces
      /\ labOver \in [LabelSpaces -> SUBSET (LabelKeys \X LabelValues)]
      /\ \A h \in LabelHandlers :
          /\ labReq[h] # LabelsIdle => labReq[h].space \in LabelSpaces
          /\ labReq[h].step = "update" /\ labReq[h].fresh = "yes" => labReq[h].read = labTags[labReq[h].space]
          /\ labReq[h].step \in {"read", "idle"} => labReq[h].fresh = "no"
      /\ \A n \in LabelSpaces \ labApart : Following(n)
  BY DEF LabelsInv
<1>1. ASSUME NEW h \in LabelHandlers, NEW n \in LabelSpaces, NEW labels \in Labellings,
             WriteRow(h, n, labels) \/ AddLabels(h, n, labels)
      PROVE  LabelsInv'
  <2> DEFINE r == [LabelsIdle EXCEPT !.step = "read", !.space = n, !.labels = labels]
  <2>1. labReq[h] = LabelsIdle /\ labReq' = [labReq EXCEPT ![h] = r] /\ labTags' = labTags
    BY <1>1 DEF WriteRow, AddLabels, Begins
  <2>2. r \in LabelRequests /\ r.step = "read" /\ r.space = n /\ r.labels = labels /\ r.fresh = "no"
    BY LabelsIdleFacts DEF LabelsIdle, LabelRequests
  <2> HIDE DEF r
  <2>3. labReq' \in [LabelHandlers -> LabelRequests] /\ labReq'[h] = r
        /\ \A g \in LabelHandlers \ {h} : labReq'[g] = labReq[g]
    BY <1>0, <2>1, <2>2
  <2>4. \A g \in LabelHandlers, k \in LabelKeys : Writes(g, n, k)' <=>
            IF g = h THEN labels[k] # NoLabel ELSE Writes(g, n, k)
    BY <2>2, <2>3 DEF Writes
  <2>5. \A g \in LabelHandlers :
          /\ labReq'[g] # LabelsIdle => labReq'[g].space \in LabelSpaces
          /\ labReq'[g].step = "update" /\ labReq'[g].fresh = "yes" => labReq'[g].read = labTags'[labReq'[g].space]
          /\ labReq'[g].step \in {"read", "idle"} => labReq'[g].fresh = "no"
    BY <1>0, <2>1, <2>2, <2>3
  <2>6. CASE WriteRow(h, n, labels)
    <3>1. /\ labRow' = [m \in LabelSpaces |-> labels] /\ labApart' = LabelSpaces \ {n}
          /\ labOver' = [m \in LabelSpaces |-> IF m = n THEN PairsUnderWay(n) ELSE {}]
      BY <2>6 DEF WriteRow
    <3>2. Following(n)'
      <4> SUFFICES ASSUME NEW k \in LabelKeys, labels[k] # NoLabel
                   PROVE  /\ \E g \in LabelHandlers : Writes(g, n, k)'
                          /\ \A g \in LabelHandlers : Writes(g, n, k)' => Accounted(n, k, labReq[g].labels[k])'
        BY <3>1 DEF Following
      <4>1. Writes(h, n, k)'
        BY <2>4
      <4>2. ASSUME NEW g \in LabelHandlers, Writes(g, n, k)'  PROVE Accounted(n, k, labReq[g].labels[k])'
        <5>1. CASE g = h
          BY <2>2, <2>3, <3>1, <5>1 DEF Accounted
        <5>2. CASE g # h
          <6>1. <<k, labReq[g].labels[k]>> \in PairsUnderWay(n)
            BY <1>0, <2>4, <4>2, <5>2, UnderWayFacts
          <6>2. QED
            BY <2>3, <3>1, <5>2, <6>1 DEF Accounted
        <5>3. QED
          BY <5>1, <5>2
      <4>3. QED
        BY <4>1, <4>2
    <3>3. labOver' \in [LabelSpaces -> SUBSET (LabelKeys \X LabelValues)]
      BY <1>0, <3>1, UnderWayFacts
    <3>4. labRow' \in [LabelSpaces -> Labellings] /\ labApart' \subseteq LabelSpaces
          /\ \A m \in LabelSpaces \ labApart' : Following(m)'
      BY <3>1, <3>2
    <3>5. QED
      BY <1>0, <2>1, <2>3, <2>5, <3>3, <3>4 DEF LabelsInv
  <2>7. CASE AddLabels(h, n, labels)
    <3>1. UNCHANGED <<labRow, labApart>> /\ labOver' = [labOver EXCEPT ![n] = @ \cup Pairs(labels)]
      BY <2>7 DEF AddLabels
    <3>2. ASSUME Following(n)  PROVE Following(n)'
      <4> SUFFICES ASSUME NEW k \in LabelKeys, labRow[n][k] # NoLabel
                   PROVE  /\ Accounted(n, k, labTags[n][k])' \/ \E g \in LabelHandlers : Writes(g, n, k)'
                          /\ \A g \in LabelHandlers : Writes(g, n, k)' => Accounted(n, k, labReq[g].labels[k])'
        BY <3>1 DEF Following
      <4>1. labOver'[n] = labOver[n] \cup Pairs(labels)
        BY <1>0, <3>1
      <4>2. \A v : Accounted(n, k, v) => Accounted(n, k, v)'
        BY <3>1, <4>1 DEF Accounted
      <4>3. /\ Accounted(n, k, labTags[n][k]) \/ \E g \in LabelHandlers : Writes(g, n, k)
            /\ \A g \in LabelHandlers : Writes(g, n, k) => Accounted(n, k, labReq[g].labels[k])
        BY <3>2 DEF Following
      <4>4. \A g \in LabelHandlers : Writes(g, n, k) => Writes(g, n, k)'
        BY <2>1, <2>4, LabelsIdleFacts DEF Writes
      <4>5. Accounted(n, k, labTags[n][k])' \/ \E g \in LabelHandlers : Writes(g, n, k)'
        <5>1. labTags'[n][k] = labTags[n][k]
          BY <2>1
        <5>2. QED
          BY <4>2, <4>3, <4>4, <5>1
      <4>6. ASSUME NEW g \in LabelHandlers, Writes(g, n, k)'  PROVE Accounted(n, k, labReq[g].labels[k])'
        <5>1. CASE g = h
          <6>1. <<k, labels[k]>> \in labOver'[n]
            BY <2>4, <4>1, <4>6, <5>1, PairsFacts
          <6>2. QED
            BY <2>2, <2>3, <5>1, <6>1 DEF Accounted
        <5>2. CASE g # h
          <6>1. Accounted(n, k, labReq[g].labels[k]) /\ labReq'[g].labels[k] = labReq[g].labels[k]
            BY <2>3, <2>4, <4>3, <4>6, <5>2
          <6>2. QED
            BY <4>2, <6>1
        <5>3. QED
          BY <5>1, <5>2
      <4>7. QED
        BY <4>5, <4>6
    <3>3. ASSUME NEW m \in LabelSpaces \ {n}, Following(m)  PROVE Following(m)'
      BY <1>0, <2>1, <2>2, <2>3, <3>1, <3>3, FollowingStays, LabelsIdleFacts
    <3>4. labOver' \in [LabelSpaces -> SUBSET (LabelKeys \X LabelValues)]
      BY <1>0, <3>1, PairsFacts
    <3>5. \A m \in LabelSpaces \ labApart' : Following(m)'
      BY <1>0, <3>1, <3>2, <3>3
    <3>6. QED
      BY <1>0, <2>1, <2>3, <2>5, <3>1, <3>4, <3>5 DEF LabelsInv
  <2>8. QED
    BY <1>1, <2>6, <2>7
<1>2. ASSUME NEW h \in LabelHandlers, ReadObject(h)  PROVE LabelsInv'
  <2> DEFINE o == labReq[h]
             tags == labTags[labReq[h].space]
             r == [o EXCEPT !.step = "update", !.read = tags, !.fresh = "yes"]
  <2>1. /\ labReq' = [labReq EXCEPT ![h] = r] /\ UNCHANGED <<labRow, labTags, labApart, labOver>>
        /\ labReq[h].space \in LabelSpaces
    BY <1>0, <1>2, LabelsIdleFacts DEF ReadObject, LabelsAt
  <2>2. /\ r \in LabelRequests /\ r.step = "update" /\ r.space = labReq[h].space
        /\ r.labels = labReq[h].labels /\ r.read = labTags[labReq[h].space]
    <3>1. o \in LabelRequests /\ tags \in Labellings
      BY <1>0, <2>1
    <3>2. r \in LabelRequests /\ r.step = "update" /\ r.space = o.space /\ r.labels = o.labels /\ r.read = tags
      <4> HIDE DEF o, tags
      <4>1. QED
        BY <3>1 DEF LabelRequests
    <3>3. QED
      BY <3>2
  <2> HIDE DEF r
  <2>3. labReq' \in [LabelHandlers -> LabelRequests] /\ labReq'[h] = r
        /\ \A g \in LabelHandlers \ {h} : labReq'[g] = labReq[g]
    BY <1>0, <2>1, <2>2
  <2>4. ASSUME NEW m \in LabelSpaces, Following(m)  PROVE Following(m)'
    BY <2>1, <2>2, <2>3, <2>4, FollowingStays
  <2>5. QED
    BY <1>0, <2>1, <2>2, <2>3, <2>4 DEF LabelsInv
<1>3. ASSUME NEW h \in LabelHandlers, UpdateObject(h)  PROVE LabelsInv'
  <2>0. PICK n : n = labReq[h].space
    OBVIOUS
  <2> DEFINE labels == labReq[h].labels
             merged == MergeLabels(labReq[h].read, labels)
  <2>1. /\ labReq[h].step = "update" /\ labReq[h].fresh = "yes"
        /\ labTags' = [labTags EXCEPT ![n] = merged]
        /\ labReq' = [g \in LabelHandlers |->
                        IF g = h THEN LabelsIdle
                        ELSE IF labReq[g].space = n /\ labTags' # labTags THEN [labReq[g] EXCEPT !.fresh = "no"]
                        ELSE labReq[g]]
        /\ UNCHANGED <<labRow, labApart, labOver>>
    BY <1>3, <2>0 DEF UpdateObject, LabelsAt
  <2>2. n \in LabelSpaces /\ labReq[h].read = labTags[n] /\ labels \in Labellings
    BY <1>0, <2>0, <2>1, LabelsIdleFacts DEF LabelRequests
  <2>3. /\ labTags' \in [LabelSpaces -> Labellings]
        /\ \A k \in LabelKeys : labTags'[n][k] = IF labels[k] = NoLabel THEN labTags[n][k] ELSE labels[k]
        /\ \A m \in LabelSpaces \ {n} : labTags'[m] = labTags[m]
    <3>1. labTags[n] \in Labellings
      BY <1>0, <2>2
    <3>2. merged \in Labellings
          /\ \A k \in LabelKeys : merged[k] = IF labels[k] = NoLabel THEN labTags[n][k] ELSE labels[k]
      BY <2>2, <3>1, MergeLabelsFacts
    <3> HIDE DEF merged, labels
    <3>3. labTags'[n] = merged
      BY <1>0, <2>1, <2>2
    <3>4. QED
      BY <1>0, <2>1, <2>2, <3>2, <3>3
  <2>4. /\ labReq'[h] = LabelsIdle
        /\ \A g \in LabelHandlers \ {h} :
             /\ labReq'[g] \in LabelRequests
             /\ labReq'[g].space = labReq[g].space /\ labReq'[g].labels = labReq[g].labels
             /\ labReq'[g].step = labReq[g].step /\ labReq'[g].read = labReq[g].read
             /\ labReq'[g].fresh = "yes" => labReq[g].fresh = "yes" /\ (labReq[g].space # n \/ labTags' = labTags)
             /\ labReq[g].space # n => labReq'[g] = labReq[g]
    <3>1. labReq'[h] = LabelsIdle
      BY <2>1
    <3>2. ASSUME NEW g \in LabelHandlers \ {h}
          PROVE  /\ labReq[g].space # n => labReq'[g] = labReq[g]
                 /\ \/ labReq'[g] = labReq[g] /\ labTags' = labTags
                    \/ labReq[g].space # n
                    \/ labReq'[g] = [labReq[g] EXCEPT !.fresh = "no"]
                 /\ labReq[g] \in LabelRequests
      BY <1>0, <2>1
    <3>3. ASSUME NEW r \in LabelRequests
          PROVE  LET q == [r EXCEPT !.fresh = "no"]
                 IN  q \in LabelRequests /\ q.space = r.space /\ q.labels = r.labels /\ q.step = r.step
                     /\ q.read = r.read /\ q.fresh = "no"
      BY DEF LabelRequests
    <3>4. QED
      <4> SUFFICES ASSUME NEW g \in LabelHandlers \ {h}
                   PROVE  /\ labReq'[g] \in LabelRequests
                          /\ labReq'[g].space = labReq[g].space /\ labReq'[g].labels = labReq[g].labels
                          /\ labReq'[g].step = labReq[g].step /\ labReq'[g].read = labReq[g].read
                          /\ labReq'[g].fresh = "yes" =>
                               labReq[g].fresh = "yes" /\ (labReq[g].space # n \/ labTags' = labTags)
                          /\ labReq[g].space # n => labReq'[g] = labReq[g]
        BY <3>1
      <4>1. CASE labReq'[g] = labReq[g] /\ (labReq[g].space # n \/ labTags' = labTags)
        BY <3>2, <4>1
      <4>2. CASE labReq'[g] = [labReq[g] EXCEPT !.fresh = "no"]
        BY <3>2, <3>3, <4>2
      <4>3. QED
        BY <3>2, <4>1, <4>2
  <2>5. labReq' \in [LabelHandlers -> LabelRequests]
    BY <2>1, <2>4, LabelsIdleFacts
  <2>6. ASSUME NEW m \in LabelSpaces \ {n}, Following(m)  PROVE Following(m)'
    <3>1. labReq[h].space # m /\ labReq'[h].space # m
      BY <2>0, <2>4, LabelsIdleFacts
    <3>2. QED
      BY <2>1, <2>3, <2>4, <2>6, <3>1, FollowingStays
  <2>7. ASSUME Following(n)  PROVE Following(n)'
    <3> SUFFICES ASSUME NEW k \in LabelKeys, labRow[n][k] # NoLabel
                 PROVE  /\ Accounted(n, k, labTags[n][k])' \/ \E g \in LabelHandlers : Writes(g, n, k)'
                        /\ \A g \in LabelHandlers : Writes(g, n, k)' => Accounted(n, k, labReq[g].labels[k])'
      BY <2>1, <2>2 DEF Following
    <3>1. /\ Accounted(n, k, labTags[n][k]) \/ \E g \in LabelHandlers : Writes(g, n, k)
          /\ \A g \in LabelHandlers : Writes(g, n, k) => Accounted(n, k, labReq[g].labels[k])
      BY <2>7, <2>1 DEF Following
    <3>2. \A v : Accounted(n, k, v)' <=> Accounted(n, k, v)
      BY <2>1 DEF Accounted
    <3>3. \A g \in LabelHandlers : Writes(g, n, k)' <=> g # h /\ Writes(g, n, k)
      BY <2>2, <2>4, LabelsIdleFacts DEF Writes
    <3>4. \A g \in LabelHandlers \ {h} : labReq'[g].labels[k] = labReq[g].labels[k]
      BY <2>4
    <3>5. Writes(h, n, k) <=> labels[k] # NoLabel
      BY <2>0 DEF Writes
    <3>6. labTags'[n][k] = IF labels[k] = NoLabel THEN labTags[n][k] ELSE labels[k]
      BY <2>3
    <3>7. QED
      BY <3>1, <3>2, <3>3, <3>4, <3>5, <3>6
  <2>8. \A g \in LabelHandlers :
          /\ labReq'[g] # LabelsIdle => labReq'[g].space \in LabelSpaces
          /\ labReq'[g].step = "update" /\ labReq'[g].fresh = "yes" => labReq'[g].read = labTags'[labReq'[g].space]
          /\ labReq'[g].step \in {"read", "idle"} => labReq'[g].fresh = "no"
    <3>1. \A g \in LabelHandlers \ {h} : labReq[g].step = "update" => labReq[g].space \in LabelSpaces
      BY <1>0, LabelsIdleFacts
    <3>2. ASSUME NEW g \in LabelHandlers \ {h}
          PROVE  /\ labReq'[g] # LabelsIdle => labReq'[g].space \in LabelSpaces
                 /\ labReq'[g].step = "update" /\ labReq'[g].fresh = "yes" =>
                      labReq'[g].read = labTags'[labReq'[g].space]
                 /\ labReq'[g].step \in {"read", "idle"} => labReq'[g].fresh = "no"
      <4>0. labReq'[g].fresh \in {"yes", "no"} /\ labReq[g].fresh \in {"yes", "no"}
        BY <1>0, <2>4 DEF LabelRequests
      <4>1. CASE labReq[g].space = n
        BY <1>0, <2>2, <2>4, <3>2, <4>0, <4>1
      <4>2. CASE labReq[g].space # n
        BY <1>0, <2>3, <2>4, <3>1, <3>2, <4>2
      <4>3. QED
        BY <4>1, <4>2
    <3>3. QED
      BY <2>4, <3>2, LabelsIdleFacts
  <2>9. \A m \in LabelSpaces \ labApart' : Following(m)'
    BY <1>0, <2>1, <2>2, <2>6, <2>7
  <2>10. QED
    BY <1>0, <2>1, <2>3, <2>5, <2>8, <2>9 DEF LabelsInv
<1>4. ASSUME NEW h \in LabelHandlers, ObjectFails(h)  PROVE LabelsInv'
  <2>1. /\ labReq' = [labReq EXCEPT ![h] = LabelsIdle] /\ UNCHANGED <<labRow, labTags, labOver>>
        /\ labApart' = labApart \cup {labReq[h].space} /\ labReq[h].space \in LabelSpaces
    BY <1>0, <1>4 DEF ObjectFails, LabelsDone
  <2>2. labReq' \in [LabelHandlers -> LabelRequests] /\ labReq'[h] = LabelsIdle
        /\ \A g \in LabelHandlers \ {h} : labReq'[g] = labReq[g]
    BY <1>0, <2>1, LabelsIdleFacts
  <2>3. ASSUME NEW m \in LabelSpaces \ {labReq[h].space}, Following(m)  PROVE Following(m)'
    BY <2>1, <2>2, <2>3, FollowingStays, LabelsIdleFacts
  <2>4. QED
    BY <1>0, <2>1, <2>2, <2>3, LabelsIdleFacts DEF LabelsInv
<1>5. CASE UNCHANGED labVars
  BY <1>5 DEF labVars, LabelsInv, Following, Accounted, Writes
<1>6. QED
  BY <1>1, <1>2, <1>3, <1>4, <1>5 DEF LabelsNext

LEMMA LabelsStart == LabelsInit => LabelsInv
<1> SUFFICES ASSUME LabelsInit  PROVE LabelsInv
  OBVIOUS
<1>1. \A n \in LabelSpaces, h \in LabelHandlers, k \in LabelKeys : ~Writes(h, n, k)
  BY LabelsIdleFacts DEF LabelsInit, Writes
<1>2. \A n \in LabelSpaces : Following(n)
  BY <1>1 DEF LabelsInit, Following, Accounted
<1>3. QED
  BY <1>2, LabelsIdleFacts DEF LabelsInit, LabelsInv

(* Once the requests have ended the object of an execution has the labels   *)
(* of its row, with their values, but for an error, a namesake's row, or    *)
(* another request's value for the same key.                                *)
THEOREM ObjectsFollowRows == LabelsSpec => []LabelsFollow
<1>1. LabelsInit => LabelsInv
  BY LabelsStart
<1>2. LabelsInv => LabelsFollow
  <2> SUFFICES ASSUME LabelsInv, \A h \in LabelHandlers : labReq[h] = LabelsIdle,
                      NEW n \in LabelSpaces \ labApart, NEW k \in LabelKeys, labRow[n][k] # NoLabel
               PROVE  labTags[n][k] = labRow[n][k] \/ <<k, labTags[n][k]>> \in labOver[n]
    BY DEF LabelsFollow
  <2>1. \A h \in LabelHandlers : ~Writes(h, n, k)
    BY LabelsIdleFacts DEF Writes
  <2>2. Following(n)
    BY DEF LabelsInv
  <2>3. QED
    BY <2>1, <2>2 DEF Following, Accounted
<1>3. QED
  BY <1>1, <1>2, LabelsStep, PTL DEF LabelsSpec

----------------------------------------------------------------------------
(* Metrics.                                                                 *)

(* An override leaves one value for the name, that of the metric added.     *)
LEMMA EntriesOfAdded ==
    ASSUME NEW metrics \in Seq(Metric), NEW m \in Metric
    PROVE  /\ AddMetric(metrics, m, TRUE) \in Seq(Metric)
           /\ AddMetric(metrics, m, FALSE) = Append(metrics, m)
           /\ Entries(AddMetric(metrics, m, TRUE)) = {e \in Entries(metrics) : e.name # m.name} \cup {m}
<1> USE DEF Entries, NamesIn
<1>1. AddMetric(metrics, m, FALSE) = Append(metrics, m)
  BY DEF AddMetric
<1>2. CASE m.name \in NamesIn(metrics)
  <2> DEFINE Added == [i \in DOMAIN metrics |-> IF metrics[i].name = m.name THEN m ELSE metrics[i]]
  <2>1. AddMetric(metrics, m, TRUE) = Added
    BY <1>2 DEF AddMetric
  <2>2. Added \in Seq(Metric) /\ DOMAIN Added = DOMAIN metrics
    OBVIOUS
  <2>3. PICK i \in DOMAIN metrics : metrics[i].name = m.name
    BY <1>2
  <2>4. Added[i] = m
    BY <2>3
  <2>5. \A j \in DOMAIN metrics : Added[j] = m \/ (Added[j] = metrics[j] /\ metrics[j].name # m.name)
    OBVIOUS
  <2>6. \A j \in DOMAIN metrics : metrics[j].name # m.name => Added[j] = metrics[j]
    OBVIOUS
  <2> HIDE DEF Added
  <2>7. Entries(Added) = {e \in Entries(metrics) : e.name # m.name} \cup {m}
    BY <2>2, <2>3, <2>4, <2>5, <2>6
  <2>8. QED
    BY <1>1, <2>1, <2>2, <2>7
<1>3. CASE m.name \notin NamesIn(metrics)
  <2>1. AddMetric(metrics, m, TRUE) = Append(metrics, m)
    BY <1>3 DEF AddMetric
  <2>2. /\ DOMAIN Append(metrics, m) = DOMAIN metrics \cup {Len(metrics) + 1}
        /\ \A i \in DOMAIN metrics : Append(metrics, m)[i] = metrics[i]
        /\ Append(metrics, m)[Len(metrics) + 1] = m
    OBVIOUS
  <2>3. Entries(Append(metrics, m)) = Entries(metrics) \cup {m}
    BY <2>2
  <2>4. \A e \in Entries(metrics) : e.name # m.name
    BY <1>3
  <2>5. Append(metrics, m) \in Seq(Metric)
    OBVIOUS
  <2>6. Entries(metrics) = {e \in Entries(metrics) : e.name # m.name}
    BY <2>4
  <2> HIDE DEF Entries, NamesIn
  <2>7. QED
    BY <1>1, <2>1, <2>3, <2>5, <2>6
<1>4. QED
  BY <1>2, <1>3

(* A set of numbers that is not empty has a least.                          *)
LEMMA LeastNumber ==
    ASSUME NEW T, T \subseteq Nat, T # {}
    PROVE  \E m \in T : \A n \in T : m <= n
<1> DEFINE R == OpToRel(<, Nat)
<1>1. ASSUME NEW m \in Nat, NEW n \in Nat, n < m
      PROVE  <<n, m>> \in R
  <2>1. R = {ss \in Nat \X Nat : ss[1] < ss[2]}
    BY DEF OpToRel
  <2> HIDE DEF R
  <2>2. QED
    BY <1>1, <2>1
<1>2. IsWellFoundedOn(R, Nat)
  BY NatLessThanWellFounded
<1> HIDE DEF R
<1>3. PICK m \in T : \A n \in T : ~(<<n, m>> \in R)
  BY <1>2, WFMin
<1>4. m \in Nat /\ \A n \in T : n \in Nat /\ ~(n < m)
  BY <1>1, <1>3
<1>5. \A n \in T : m <= n
  BY <1>4
<1>6. QED
  BY <1>5

(* The metrics that are added, one after the other: there is such a list of *)
(* lists, and each has the one before it and a metric more.                 *)
LEMMA MergedExists ==
    ASSUME NEW metrics, NEW input, Len(input) \in Nat, NEW override \in BOOLEAN
    PROVE  \E merged :
             /\ merged = [i \in 0..Len(input) |->
                            IF i = 0 THEN metrics ELSE AddMetric(merged[i - 1], input[i], override)]
             /\ MergeMetrics(metrics, input, override) = merged[Len(input)]
<1> DEFINE Next(f, i) == IF i = 0 THEN metrics ELSE AddMetric(f[i - 1], input[i], override)
           IsMerged(f, n) == f = [i \in 0..n |-> Next(f, i)]
           Short == {n \in Nat : ~ \E f : IsMerged(f, n)}
<1>1. Short = {}
  <2> SUFFICES ASSUME Short # {}  PROVE FALSE
    OBVIOUS
  <2>1. PICK n \in Short : \A k \in Short : n <= k
    BY LeastNumber
  <2>2. n \in Nat /\ ~ \E f : IsMerged(f, n)
    OBVIOUS
  <2>3. CASE n = 0
    <3>1. IsMerged([i \in 0..0 |-> metrics], 0)
      OBVIOUS
    <3>2. QED
      BY <2>2, <2>3, <3>1
  <2>4. CASE n # 0
    <3>1. n - 1 \in Nat /\ n - 1 \notin Short
      BY <2>1, <2>2, <2>4
    <3>2. PICK f : IsMerged(f, n - 1)
      BY <3>1
    <3> DEFINE g == [i \in 0..n |-> IF i = n THEN AddMetric(f[n - 1], input[n], override) ELSE f[i]]
    <3>3. \A i \in 0..n : g[i] = Next(g, i)
      <4> TAKE i \in 0..n
      <4>1. CASE i = n
        BY <2>2, <2>4, <4>1
      <4>2. CASE i # n
        <5>1. i \in 0..(n - 1) /\ i \in 0..n /\ (i # 0 => i - 1 \in 0..n /\ i - 1 # n)
          BY <2>2, <4>2
        <5>2. g[i] = f[i] /\ (i # 0 => g[i - 1] = f[i - 1])
          BY <4>2, <5>1
        <5>3. f[i] = Next(f, i)
          BY <3>2, <5>1
        <5>4. QED
          BY <5>2, <5>3
      <4>3. QED
        BY <4>1, <4>2
    <3>4. IsMerged(g, n)
      BY <3>3
    <3>5. QED
      BY <2>2, <3>4
  <2>5. QED
    BY <2>3, <2>4
<1>2. PICK f : IsMerged(f, Len(input))
  BY <1>1
<1> DEFINE merged[i \in 0..Len(input)] == IF i = 0 THEN metrics ELSE AddMetric(merged[i - 1], input[i], override)
<1>3. IsMerged(merged, Len(input))
  BY <1>2
<1>4. MergeMetrics(metrics, input, override) = merged[Len(input)]
  BY DEF MergeMetrics
<1>5. QED
  BY <1>3, <1>4

(* The two cases of override.                                               *)
LEMMA MergedWithout ==
    ASSUME NEW metrics, NEW input, Len(input) \in Nat
    PROVE  \E merged :
             /\ merged = [i \in 0..Len(input) |->
                            IF i = 0 THEN metrics ELSE AddMetric(merged[i - 1], input[i], FALSE)]
             /\ MergeMetrics(metrics, input, FALSE) = merged[Len(input)]
<1>1. FALSE \in BOOLEAN
  OBVIOUS
<1>2. QED
  BY <1>1, MergedExists, Zenon

LEMMA MergedWith ==
    ASSUME NEW metrics, NEW input, Len(input) \in Nat
    PROVE  \E merged :
             /\ merged = [i \in 0..Len(input) |->
                            IF i = 0 THEN metrics ELSE AddMetric(merged[i - 1], input[i], TRUE)]
             /\ MergeMetrics(metrics, input, TRUE) = merged[Len(input)]
<1> DEFINE yes == TRUE
<1>1. yes \in BOOLEAN
  OBVIOUS
<1> HIDE DEF yes
<1>2. \E merged :
        /\ merged = [i \in 0..Len(input) |->
                       IF i = 0 THEN metrics ELSE AddMetric(merged[i - 1], input[i], yes)]
        /\ MergeMetrics(metrics, input, yes) = merged[Len(input)]
  BY <1>1, MergedExists
<1>3. QED
  BY <1>2 DEF yes

(* Without override the input follows what was there.                       *)
LEMMA MergeAppends ==
    ASSUME NEW metrics \in Seq(Metric), NEW input \in Seq(Metric)
    PROVE  /\ MergeMetrics(metrics, input, FALSE) \in Seq(Metric)
           /\ Entries(MergeMetrics(metrics, input, FALSE)) = Entries(metrics) \cup Entries(input)
<1>1. Len(input) \in Nat
  OBVIOUS
<1>2. PICK merged :
        /\ merged = [i \in 0..Len(input) |->
                       IF i = 0 THEN metrics ELSE AddMetric(merged[i - 1], input[i], FALSE)]
        /\ MergeMetrics(metrics, input, FALSE) = merged[Len(input)]
  BY <1>1, MergedWithout
<1> DEFINE To(k) == {input[j] : j \in 1..k}
           Right(k) == merged[k] \in Seq(Metric) /\ Entries(merged[k]) = Entries(metrics) \cup To(k)
           Wrong == {k \in 0..Len(input) : ~Right(k)}
<1>3. Wrong = {}
  <2> SUFFICES ASSUME Wrong # {}  PROVE FALSE
    OBVIOUS
  <2>0. Wrong \subseteq Nat
    BY <1>1
  <2>1. PICK k \in Wrong : \A n \in Wrong : k <= n
    <3> HIDE DEF Wrong
    <3>1. QED
      BY <2>0, LeastNumber
  <2>2. k \in 0..Len(input) /\ ~Right(k)
    OBVIOUS
  <2>3. CASE k = 0
    <3>1. merged[0] = metrics
      BY <1>1, <1>2
    <3>2. To(0) = {}
      OBVIOUS
    <3>3. QED
      BY <2>2, <2>3, <3>1, <3>2
  <2>4. CASE k # 0
    <3>0. k - 1 \in 0..Len(input) /\ k \in 1..Len(input)
      BY <1>1, <2>2, <2>4
    <3>1. k - 1 \in 0..Len(input) /\ k - 1 \notin Wrong /\ k \in 1..Len(input)
      <4> HIDE DEF Wrong
      <4>1. QED
        BY <2>1, <3>0
    <3>2. Right(k - 1)
      BY <3>1
    <3>3. merged[k] = AddMetric(merged[k - 1], input[k], FALSE) /\ input[k] \in Metric
      BY <1>2, <2>4, <3>1
    <3>4. merged[k] = Append(merged[k - 1], input[k])
      BY <3>2, <3>3, EntriesOfAdded
    <3>5. Entries(merged[k]) = Entries(merged[k - 1]) \cup {input[k]} /\ merged[k] \in Seq(Metric)
      <4> DEFINE was == merged[k - 1]
      <4>1. was \in Seq(Metric) /\ input[k] \in Metric
        BY <3>2, <3>3
      <4> HIDE DEF was
      <4>2. /\ DOMAIN Append(was, input[k]) = DOMAIN was \cup {Len(was) + 1}
            /\ \A i \in DOMAIN was : Append(was, input[k])[i] = was[i]
            /\ Append(was, input[k])[Len(was) + 1] = input[k]
            /\ Append(was, input[k]) \in Seq(Metric)
        BY <4>1
      <4>3. Entries(Append(was, input[k])) = Entries(was) \cup {input[k]}
        BY <4>2 DEF Entries
      <4>4. QED
        BY <3>4, <4>2, <4>3 DEF was
    <3>6. To(k) = To(k - 1) \cup {input[k]}
      <4>1. 1..k = 1..(k - 1) \cup {k}
        BY <1>1, <3>1
      <4>2. QED
        BY <4>1
    <3>7. QED
      BY <2>2, <3>2, <3>5, <3>6
  <2>5. QED
    BY <2>3, <2>4
<1>4. Right(Len(input))
  <2>1. Len(input) \in 0..Len(input)
    BY <1>1
  <2> HIDE DEF Right
  <2>2. QED
    BY <1>3, <2>1
<1>5. To(Len(input)) = Entries(input)
  BY DEF Entries
<1>6. QED
  BY <1>2, <1>4, <1>5

(* With override an entry stays if the input has not its name, and of the   *)
(* input the last of each name is there.                                    *)
LEMMA MergeOverrides ==
    ASSUME NEW metrics \in Seq(Metric), NEW input \in Seq(Metric)
    PROVE  /\ MergeMetrics(metrics, input, TRUE) \in Seq(Metric)
           /\ Entries(MergeMetrics(metrics, input, TRUE)) =
                {e \in Entries(metrics) : e.name \notin NamesIn(input)} \cup LastOfEach(input)
<1>1. Len(input) \in Nat /\ \A i \in 1..Len(input) : input[i] \in Metric
  OBVIOUS
<1>2. PICK merged :
        /\ merged = [i \in 0..Len(input) |->
                       IF i = 0 THEN metrics ELSE AddMetric(merged[i - 1], input[i], TRUE)]
        /\ MergeMetrics(metrics, input, TRUE) = merged[Len(input)]
  BY <1>1, MergedWith
<1> DEFINE NamesTo(k) == {input[j].name : j \in 1..k}
           LastAt(k) == {i \in 1..k : \A j \in 1..k : i < j => input[j].name # input[i].name}
           Last(k) == {input[i] : i \in LastAt(k)}
           Kept(k) == {e \in Entries(metrics) : e.name \notin NamesTo(k)}
           Right(k) == merged[k] \in Seq(Metric) /\ Entries(merged[k]) = Kept(k) \cup Last(k)
           Wrong == {k \in 0..Len(input) : ~Right(k)}
<1>3. Wrong = {}
  <2> SUFFICES ASSUME Wrong # {}  PROVE FALSE
    OBVIOUS
  <2>0. Wrong \subseteq Nat
    BY <1>1
  <2>1. PICK k \in Wrong : \A n \in Wrong : k <= n
    <3> HIDE DEF Wrong
    <3>1. QED
      BY <2>0, LeastNumber
  <2>2. k \in 0..Len(input) /\ ~Right(k)
    OBVIOUS
  <2>3. CASE k = 0
    <3>1. merged[0] = metrics
      BY <1>1, <1>2
    <3>2. NamesTo(0) = {} /\ Last(0) = {}
      OBVIOUS
    <3>3. Kept(0) = Entries(metrics)
      BY <3>2
    <3>4. QED
      BY <2>2, <2>3, <3>1, <3>2, <3>3
  <2>4. CASE k # 0
    <3>0. k - 1 \in 0..Len(input) /\ k \in 1..Len(input)
      BY <1>1, <2>2, <2>4
    <3>1. k - 1 \in 0..Len(input) /\ k - 1 \notin Wrong /\ k \in 1..Len(input)
      <4> HIDE DEF Wrong
      <4>1. QED
        BY <2>1, <3>0
    <3>2. Right(k - 1)
      BY <3>1
    <3>3. merged[k] = AddMetric(merged[k - 1], input[k], TRUE) /\ input[k] \in Metric
      <4>1. input[k] \in Metric /\ k \in 0..Len(input)
        BY <1>1, <3>1
      <4> HIDE DEF Right, Wrong, Kept, Last, LastAt, NamesTo
      <4>2. merged[k] = IF k = 0 THEN metrics ELSE AddMetric(merged[k - 1], input[k], TRUE)
        BY <1>2, <4>1, Zenon
      <4>3. QED
        BY <2>4, <4>1, <4>2
    <3>4. /\ merged[k] \in Seq(Metric)
          /\ Entries(merged[k]) = {e \in Entries(merged[k - 1]) : e.name # input[k].name} \cup {input[k]}
      <4>1. merged[k - 1] \in Seq(Metric)
        BY <3>2
      <4> HIDE DEF Right, Wrong, Kept, Last, LastAt, NamesTo
      <4>2. /\ AddMetric(merged[k - 1], input[k], TRUE) \in Seq(Metric)
            /\ Entries(AddMetric(merged[k - 1], input[k], TRUE)) =
                 {e \in Entries(merged[k - 1]) : e.name # input[k].name} \cup {input[k]}
        BY <3>3, <4>1, EntriesOfAdded, Zenon
      <4>3. QED
        BY <3>3, <4>2, Zenon
    <3>5. 1..k = 1..(k - 1) \cup {k}
      BY <1>1, <3>1
    <3>6. Kept(k) = {e \in Kept(k - 1) : e.name # input[k].name}
      BY <3>5
    <3>7. Last(k) = {e \in Last(k - 1) : e.name # input[k].name} \cup {input[k]}
      <4>1. LastAt(k) = {i \in LastAt(k - 1) : input[i].name # input[k].name} \cup {k}
        BY <1>1, <3>1, <3>5
      <4> HIDE DEF LastAt
      <4>2. QED
        BY <4>1
    <3> HIDE DEF Kept, Last
    <3>8. Entries(merged[k]) = Kept(k) \cup Last(k)
      BY <3>2, <3>4, <3>6, <3>7
    <3>9. QED
      BY <2>2, <3>4, <3>8
  <2>5. QED
    BY <2>3, <2>4
<1>4. Right(Len(input))
  <2>1. Len(input) \in 0..Len(input)
    BY <1>1
  <2> HIDE DEF Right
  <2>2. QED
    BY <1>3, <2>1
<1>5. NamesTo(Len(input)) = NamesIn(input)
  BY DEF NamesIn, Entries
<1>6. Last(Len(input)) = LastOfEach(input)
  BY DEF LastOfEach
<1>7. QED
  BY <1>2, <1>4, <1>5, <1>6

(* Until two of them overlap, a request under way is the only one, and what *)
(* it has read is still in the column.                                      *)
ReadIsCurrent ==
    ~metMixed =>
        \A h \in MetHandlers : metReq[h] # MetIdle =>
            /\ metReq[h].read = metRow
            /\ \A g \in MetHandlers \ {h} : metReq[g] = MetIdle

MetInv ==
    /\ MetTypeOK
    /\ \A h \in MetHandlers : metReq[h] # MetIdle => metReq[h].op # "idle"
    /\ ReadIsCurrent
    /\ MetricsAsAnswered

LEMMA InputsAreLists == MetInputs \subseteq Seq(Metric)
<1> SUFFICES ASSUME NEW k \in 0..MaxMetInput, NEW input \in [1..k -> Metric]
             PROVE  input \in Seq(Metric)
  BY DEF MetInputs
<1>1. k \in Nat
  BY MetAssumption
<1>2. QED
  BY <1>1

LEMMA MetIdleType ==
    MetIdle \in [op : {"idle", "add", "override", "update"}, read : Seq(Metric), input : MetInputs]
<1>1. <<>> \in [1..0 -> Metric] /\ 0 \in 0..MaxMetInput
  BY MetAssumption
<1>2. <<>> \in MetInputs
  BY <1>1 DEF MetInputs
<1>3. QED
  BY <1>2 DEF MetIdle

(* What the column says of a list and of the last of each name is a set of  *)
(* metrics.                                                                 *)
LEMMA EntriesType ==
    ASSUME NEW metrics \in Seq(Metric)
    PROVE  Entries(metrics) \subseteq Metric /\ LastOfEach(metrics) \subseteq Metric
<1>1. \A i \in DOMAIN metrics : metrics[i] \in Metric
  OBVIOUS
<1>2. QED
  BY <1>1 DEF Entries, LastOfEach

LEMMA MetDoneFacts ==
    ASSUME MetInv, NEW h \in MetHandlers, metReq' = [metReq EXCEPT ![h] = MetIdle], UNCHANGED metMixed
    PROVE  /\ metReq' \in [MetHandlers -> [op : {"idle", "add", "override", "update"},
                                          read : Seq(Metric), input : MetInputs]]
           /\ \A g \in MetHandlers : metReq'[g] # MetIdle => metReq'[g].op # "idle"
           /\ metReq[h] # MetIdle /\ ~metMixed' => \A g \in MetHandlers : metReq'[g] = MetIdle
  BY MetIdleType DEF MetInv, MetTypeOK, ReadIsCurrent

LEMMA MetReadStep ==
    ASSUME MetInv, NEW h \in MetHandlers, NEW op \in {"add", "override", "update"},
           NEW input \in MetInputs, ReadMetrics(h, op, input)
    PROVE  MetInv'
<1> DEFINE new == [op |-> op, read |-> metRow, input |-> input]
<1>1. new \in [op : {"idle", "add", "override", "update"}, read : Seq(Metric), input : MetInputs]
  BY DEF MetInv, MetTypeOK
<1>2. metReq' = [metReq EXCEPT ![h] = new] /\ metReq[h] = MetIdle
  BY DEF ReadMetrics
<1>3. new.read = metRow
  OBVIOUS
<1> HIDE DEF new
<1>4. MetTypeOK'
  BY <1>1, <1>2, MetAssumption DEF MetInv, MetTypeOK, ReadMetrics
<1>5. ReadIsCurrent'
  <2> SUFFICES ASSUME ~metMixed', NEW g \in MetHandlers, metReq'[g] # MetIdle
               PROVE  /\ metReq'[g].read = metRow'
                      /\ \A f \in MetHandlers \ {g} : metReq'[f] = MetIdle
    BY DEF ReadIsCurrent
  <2>1. \A f \in MetHandlers : metReq[f] = MetIdle
    BY DEF ReadMetrics
  <2>2. g = h
    BY <1>2, <2>1 DEF MetInv, MetTypeOK
  <2>3. QED
    BY <1>2, <1>3, <2>1, <2>2 DEF ReadMetrics, MetInv, MetTypeOK
<1>6. MetricsAsAnswered'
  BY DEF MetInv, MetricsAsAnswered, ReadMetrics
<1>7. \A g \in MetHandlers : metReq'[g] # MetIdle => metReq'[g].op # "idle"
  <2>1. new.op # "idle"
    BY DEF new
  <2>2. QED
    BY <1>2, <2>1 DEF MetInv, MetTypeOK
<1>8. QED
  BY <1>4, <1>5, <1>6, <1>7 DEF MetInv

LEMMA MetWriteStep ==
    ASSUME MetInv, NEW h \in MetHandlers, WriteMetrics(h)
    PROVE  MetInv'
<1> DEFINE r == metReq[h]
<1>1. /\ r.op \in {"idle", "add", "override", "update"} /\ r.read \in Seq(Metric)
      /\ r.input \in MetInputs /\ r.input \in Seq(Metric) /\ r # MetIdle /\ r.op # "idle"
  BY InputsAreLists DEF MetInv, MetTypeOK, WriteMetrics
<1>2. ~metMixed' => r.read = metRow /\ Entries(r.read) = metAnswered
  BY <1>1 DEF MetInv, ReadIsCurrent, MetricsAsAnswered, WriteMetrics
<1>3. /\ Entries(r.input) \subseteq Metric /\ LastOfEach(r.input) \subseteq Metric
      /\ metAnswered \subseteq Metric
  BY <1>1, EntriesType DEF MetInv, MetTypeOK
<1>4. metRow' \in Seq(Metric) /\ metAnswered' \subseteq Metric /\ (~metMixed' => Entries(metRow') = metAnswered')
  <2>1. CASE r.op = "update"
    <3>1. metRow' = r.input /\ metAnswered' = Entries(r.input)
      BY <2>1 DEF WriteMetrics
    <3>2. QED
      BY <1>1, <1>3, <3>1
  <2>2. CASE r.op = "add"
    <3>1. metRow' = MergeMetrics(r.read, r.input, FALSE) /\ metAnswered' = metAnswered \cup Entries(r.input)
      BY <2>2 DEF WriteMetrics
    <3>2. metRow' \in Seq(Metric) /\ Entries(metRow') = Entries(r.read) \cup Entries(r.input)
      BY <1>1, <3>1, MergeAppends
    <3>3. QED
      BY <1>2, <1>3, <3>1, <3>2
  <2>3. CASE r.op = "override"
    <3>1. /\ metRow' = MergeMetrics(r.read, r.input, TRUE)
          /\ metAnswered' = {m \in metAnswered : m.name \notin NamesIn(r.input)} \cup LastOfEach(r.input)
      BY <2>3 DEF WriteMetrics
    <3>2. /\ metRow' \in Seq(Metric)
          /\ Entries(metRow') = {m \in Entries(r.read) : m.name \notin NamesIn(r.input)} \cup LastOfEach(r.input)
      BY <1>1, <3>1, MergeOverrides
    <3>3. QED
      BY <1>2, <1>3, <3>1, <3>2
  <2>4. QED
    BY <1>1, <2>1, <2>2, <2>3
<1>5. QED
  BY <1>1, <1>4, MetDoneFacts DEF MetInv, MetTypeOK, ReadIsCurrent, MetricsAsAnswered, WriteMetrics

LEMMA MetStep == MetInv /\ [MetNext]_metVars => MetInv'
<1> SUFFICES ASSUME MetInv, [MetNext]_metVars  PROVE MetInv'
  OBVIOUS
<1>1. ASSUME NEW h \in MetHandlers, MetricsFail(h)  PROVE MetInv'
  BY <1>1, MetDoneFacts DEF MetInv, MetTypeOK, ReadIsCurrent, MetricsAsAnswered, MetricsFail
<1>2. CASE ArchiveExecution
  BY <1>2 DEF MetInv, MetTypeOK, ReadIsCurrent, MetricsAsAnswered, ArchiveExecution
<1>3. CASE UNCHANGED metVars
  BY <1>3 DEF MetInv, MetTypeOK, ReadIsCurrent, MetricsAsAnswered, metVars
<1>4. QED
  BY <1>1, <1>2, <1>3, MetReadStep, MetWriteStep DEF MetNext

LEMMA MetStarts == MetInit => MetInv
<1> SUFFICES ASSUME MetInit  PROVE MetInv
  OBVIOUS
<1>1. Entries(<<>>) = {} /\ <<>> \in Seq(Metric)
  BY DEF Entries
<1>2. MetTypeOK
  <2>1. 0 \in 0..MaxMetWrites /\ FALSE \in BOOLEAN
    BY MetAssumption
  <2>2. QED
    BY <1>1, <2>1, MetIdleType DEF MetInit, MetTypeOK
<1>3. ReadIsCurrent /\ MetricsAsAnswered
  BY <1>1 DEF MetInit, ReadIsCurrent, MetricsAsAnswered
<1>4. QED
  BY <1>2, <1>3 DEF MetInit, MetInv

(* Of requests that do not overlap each is kept as it says: an addition in  *)
(* full, an override in every entry of its names, however many metrics a    *)
(* request carries and whatever the column holds.                           *)
THEOREM MetricsAreAsAnswered == MetSpec => []MetricsAsAnswered
<1>1. MetInit => MetInv
  BY MetStarts
<1>2. MetInv => MetricsAsAnswered
  BY DEF MetInv
<1>3. QED
  BY <1>1, <1>2, MetStep, PTL DEF MetSpec

----------------------------------------------------------------------------
(* The five components in one run.                                          *)

StoresInv == TplInv /\ CronInv /\ CronCounted /\ SecretInv /\ LabelsInv /\ MetInv

(* A behaviour of the run is one of each component.                         *)
LEMMA StoresMoveOne ==
    ASSUME [StoresNext]_storesVars
    PROVE  [TplNext]_tplVars /\ [CronNext]_cronVars /\ [SecretNext]_secVars /\ [LabelsNext]_labVars
             /\ [MetNext]_metVars
<1>1. CASE UNCHANGED storesVars
  <2>1. UNCHANGED <<tplVars, cronVars, secVars, labVars, metVars>>
    BY <1>1 DEF storesVars
  <2>2. QED
    BY <2>1
<1>2. CASE StoresNext
  BY <1>2 DEF StoresNext
<1>3. QED
  BY <1>1, <1>2

(* Every variable of the five components keeps its type, whatever the uids, *)
(* the crons, the keys, the metrics and the requests.                       *)
THEOREM StoresTypes == StoresSpec => []StoresTypeOK
<1>1. StoresInit => StoresInv
  BY TplInvInit, TplAssumption, CronInvAtFirst, CronCountedAtFirst, SecretStarts, LabelsStart, MetStarts
     DEF StoresInit, StoresInv
<1>2. StoresInv /\ [StoresNext]_storesVars => StoresInv'
  <2> SUFFICES ASSUME StoresInv, [StoresNext]_storesVars  PROVE StoresInv'
    OBVIOUS
  <2>1. TplInv'
    BY StoresMoveOne, TplStepKeeps, TplStutters, TplAssumption DEF StoresInv
  <2>2. CronInv' /\ CronCounted'
    BY StoresMoveOne, CronInvKept, CronCountedKept, CronAssumption DEF StoresInv, CronInv
  <2>3. SecretInv'
    BY StoresMoveOne, SecretStep DEF StoresInv
  <2>4. LabelsInv'
    BY StoresMoveOne, LabelsStep DEF StoresInv
  <2>5. MetInv'
    BY StoresMoveOne, MetStep DEF StoresInv
  <2>6. QED
    BY <2>1, <2>2, <2>3, <2>4, <2>5 DEF StoresInv
<1>3. StoresInv => StoresTypeOK
  <2> SUFFICES ASSUME StoresInv  PROVE StoresTypeOK
    OBVIOUS
  <2>1. TplTypeOK
    BY TplKindsType DEF StoresInv, TplInv
  <2>2. CronTypeOK
    BY CronKindsType DEF StoresInv, CronInv
  <2>3. SecretTypeOK
    BY DEF StoresInv, SecretInv, SecretRequests, SecretTypeOK
  <2>4. LabelsTypeOK
    BY DEF StoresInv, LabelsInv, LabelRequests, LabelsTypeOK
  <2>5. MetTypeOK
    BY DEF StoresInv, MetInv
  <2>6. QED
    BY <2>1, <2>2, <2>3, <2>4, <2>5 DEF StoresTypeOK
<1>4. QED
  BY <1>1, <1>2, <1>3, PTL DEF StoresSpec
=============================================================================
