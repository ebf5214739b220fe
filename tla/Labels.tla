-------------------------------- MODULE Labels --------------------------------
(***************************************************************************)
(* The labels of workflow executions of one uid, one in each namespace     *)
(* (pkg/labels.go): a column of the row and, under a prefix, the labels of *)
(* the Argo workflow.  DeleteLabels is not an action: it deletes from a    *)
(* table that 20200807161614 dropped, so it only ever answers an error.    *)
(***************************************************************************)
EXTENDS Naturals, FiniteSets

CONSTANTS LabelSpaces, LabelKeys, LabelValues, LabelHandlers, NoSpaceOfLabels, NoLabel

ASSUME LabelAssumption == NoSpaceOfLabels \notin LabelSpaces /\ NoLabel \notin LabelValues

VARIABLES
    labRow,         \* labRow[n][k]: value in the row, NoLabel if the key is not there
    labTags,        \* labTags[n][k]: value under the prefix on the Argo workflow
    labReq,         \* labReq[h] = [step, space, labels, read, fresh]
    labApart,       \* history: n whose row was written for another namespace, or an update of
                    \*   whose object has failed since the row was written
    labOver         \* history: labOver[n]: <<k, v>> of requests for n that were under way when the
                    \*   row was written, and of the AddLabels since

labVars == <<labRow, labTags, labReq, labApart, labOver>>

Labellings == [LabelKeys -> LabelValues \cup {NoLabel}]
NoLabels == [k \in LabelKeys |-> NoLabel]
Pairs(labels) == {<<k, labels[k]>> : k \in {x \in LabelKeys : labels[x] # NoLabel}}

LabelsIdle ==
    [step |-> "idle", space |-> NoSpaceOfLabels, labels |-> NoLabels, read |-> NoLabels, fresh |-> "no"]

(* An execution is created with the labels of its row.                      *)
LabelsInit ==
    /\ labRow \in [LabelSpaces -> Labellings]
    /\ labTags = labRow
    /\ labReq = [h \in LabelHandlers |-> LabelsIdle]
    /\ labApart = {}
    /\ labOver = [n \in LabelSpaces |-> {}]

LabelsAt(h, step) == labReq[h].step = step
LabelsDone(h) == labReq' = [labReq EXCEPT ![h] = LabelsIdle]

Begins(h, n, labels) ==
    /\ labReq[h] = LabelsIdle
    /\ labReq' = [labReq EXCEPT ![h] = [LabelsIdle EXCEPT !.step = "read", !.space = n, !.labels = labels]]

(* What the requests under way for n may still write.                       *)
PairsUnderWay(n) == UNION {Pairs(labReq[h].labels) : h \in {g \in LabelHandlers : labReq[g].space = n}}

(* ReplaceLabels commits its UPDATE first.  It selects by uid and           *)
(* is_archived, not by namespace.                                           *)
WriteRow(h, n, labels) ==
    /\ Begins(h, n, labels)
    /\ labRow' = [m \in LabelSpaces |-> labels]
    /\ labApart' = LabelSpaces \ {n}
    /\ labOver' = [m \in LabelSpaces |-> IF m = n THEN PairsUnderWay(n) ELSE {}]
    /\ UNCHANGED labTags

(* AddLabels goes to the object at once; the row is not written.            *)
AddLabels(h, n, labels) ==
    /\ Begins(h, n, labels)
    /\ labOver' = [labOver EXCEPT ![n] = @ \cup Pairs(labels)]
    /\ UNCHANGED <<labRow, labTags, labApart>>

(* GetK8sLabelResource.                                                     *)
ReadObject(h) ==
    /\ LabelsAt(h, "read")
    /\ labReq' = [labReq EXCEPT ![h].step = "update", ![h].read = labTags[labReq[h].space], ![h].fresh = "yes"]
    /\ UNCHANGED <<labRow, labTags, labApart, labOver>>

(* MergeLabels: the additions win.                                          *)
MergeLabels(old, labels) == [k \in LabelKeys |-> IF labels[k] = NoLabel THEN old[k] ELSE labels[k]]

(* For contrast: the object is written whatever became of it since.         *)
OverwriteObject(h) ==
    /\ LabelsAt(h, "update")
    /\ labTags' = [labTags EXCEPT ![labReq[h].space] = MergeLabels(labReq[h].read, labReq[h].labels)]
    /\ LabelsDone(h)
    /\ UNCHANGED <<labRow, labApart, labOver>>

(* MergeLabelsPrefix and the Update, which is refused if the object has     *)
(* changed since it was read.  One that changes nothing is no change.       *)
UpdateObject(h) ==
    /\ LabelsAt(h, "update") /\ labReq[h].fresh = "yes"
    /\ labTags' = [labTags EXCEPT ![labReq[h].space] = MergeLabels(labReq[h].read, labReq[h].labels)]
    /\ labReq' = [g \in LabelHandlers |->
                    IF g = h THEN LabelsIdle
                    ELSE IF labReq[g].space = labReq[h].space /\ labTags' # labTags
                    THEN [labReq[g] EXCEPT !.fresh = "no"]
                    ELSE labReq[g]]
    /\ UNCHANGED <<labRow, labApart, labOver>>

(* The conflict, another error, or the end of the process.                  *)
ObjectFails(h) ==
    /\ labReq[h] # LabelsIdle
    /\ LabelsDone(h)
    /\ labApart' = labApart \cup {labReq[h].space}
    /\ UNCHANGED <<labRow, labTags, labOver>>

LabelsNext ==
    \E h \in LabelHandlers :
       \/ \E n \in LabelSpaces, labels \in Labellings : WriteRow(h, n, labels) \/ AddLabels(h, n, labels)
       \/ ReadObject(h) \/ UpdateObject(h) \/ ObjectFails(h)

LabelsSpec == LabelsInit /\ [][LabelsNext]_labVars
----------------------------------------------------------------------------
LabelsTypeOK ==
    /\ \A n \in LabelSpaces : labRow[n] \in Labellings /\ labTags[n] \in Labellings
    /\ \A h \in LabelHandlers : labReq[h].step \in {"idle", "read", "update"} /\ labReq[h].labels \in Labellings
    /\ labApart \subseteq LabelSpaces
    /\ \A n \in LabelSpaces : labOver[n] \subseteq LabelKeys \X LabelValues

(* When nothing is under way the object of an execution carries every label *)
(* of its row with the row's value, however requests interleaved since the  *)
(* row was written.  Three things part them: a request answered with an     *)
(* error, a row written for a namesake, and another value for the same key  *)
(* from an overlapping request or from an AddLabels, which writes no row;   *)
(* even then the value is one that a request asked for.                     *)
LabelsFollow ==
    (\A h \in LabelHandlers : labReq[h] = LabelsIdle) =>
        \A n \in LabelSpaces \ labApart, k \in LabelKeys :
            labRow[n][k] # NoLabel =>
                labTags[n][k] = labRow[n][k] \/ <<k, labTags[n][k]>> \in labOver[n]
=============================================================================
