------------------------------- MODULE Metrics -------------------------------
(***************************************************************************)
(* The metrics of one workflow execution, a JSON column that two requests  *)
(* write: AddWorkflowExecutionMetrics and UpdateWorkflowExecutionMetrics   *)
(* (pkg/workflow_execution.go), with Metrics.Add and Merge (pkg/types.go). *)
(***************************************************************************)
EXTENDS Naturals, Sequences

CONSTANTS
    MetricNames, MetricValues,
    MetHandlers,    \* request goroutines
    MaxMetInput,    \* bound: metrics in a request
    MaxMetWrites    \* bound: requests

ASSUME MetAssumption == {MaxMetInput, MaxMetWrites} \subseteq Nat

VARIABLES
    metRow,         \* the column
    metGone,        \* the execution has been archived
    metReq,         \* metReq[h]: the request each handler serves, with what it has read
    metWrites,
    metAnswered,    \* history: what the requests that were answered say, one after the other
    metMixed        \* history: two requests have overlapped

metVars == <<metRow, metGone, metReq, metWrites, metAnswered, metMixed>>

Metric == [name : MetricNames, value : MetricValues]
MetInputs == UNION {[1..k -> Metric] : k \in 0..MaxMetInput}

MetIdle == [op |-> "idle", read |-> <<>>, input |-> <<>>]

Entries(metrics) == {metrics[i] : i \in DOMAIN metrics}
NamesIn(metrics) == {m.name : m \in Entries(metrics)}

(* What a list says if a later entry of a name replaces an earlier one.     *)
LastOfEach(metrics) ==
    {metrics[i] : i \in {i \in DOMAIN metrics :
        \A j \in DOMAIN metrics : i < j => metrics[j].name # metrics[i].name}}

MetInit ==
    /\ metRow = <<>>
    /\ metGone = FALSE
    /\ metReq = [h \in MetHandlers |-> MetIdle]
    /\ metWrites = 0
    /\ metAnswered = {}
    /\ metMixed = FALSE
----------------------------------------------------------------------------
(* Metrics.Add: an override reaches every entry of that name; if there is  *)
(* none, and without override, the metric goes to the end.                  *)

(* For contrast: the search stops at the first entry of the name.           *)
AddToFirst(metrics, m, override) ==
    LET found == {i \in DOMAIN metrics : metrics[i].name = m.name} IN
    IF override /\ found # {}
    THEN [metrics EXCEPT ![CHOOSE i \in found : \A j \in found : i <= j] = m]
    ELSE Append(metrics, m)

AddMetric(metrics, m, override) ==
    IF override /\ m.name \in NamesIn(metrics)
    THEN [i \in DOMAIN metrics |-> IF metrics[i].name = m.name THEN m ELSE metrics[i]]
    ELSE Append(metrics, m)

(* merged[i] is the list once i metrics of the input have been added.       *)
MergeMetrics(metrics, input, override) ==
    LET merged[i \in 0..Len(input)] ==
          IF i = 0 THEN metrics ELSE AddMetric(merged[i - 1], input[i], override)
    IN  merged[Len(input)]
----------------------------------------------------------------------------
(* GetWorkflowExecution finds no archived row.                              *)
ReadMetrics(h, op, input) ==
    /\ metReq[h] = MetIdle
    /\ metWrites < MaxMetWrites
    /\ ~metGone
    /\ metReq' = [metReq EXCEPT ![h] = [op |-> op, read |-> metRow, input |-> input]]
    /\ metWrites' = metWrites + 1
    /\ metMixed' = (metMixed \/ \E g \in MetHandlers : metReq[g] # MetIdle)
    /\ UNCHANGED <<metRow, metGone, metAnswered>>

(* The UPDATE writes the whole column, of an archived row too.              *)
WriteMetrics(h) ==
    /\ metReq[h] # MetIdle
    /\ LET r == metReq[h] IN
       /\ metRow' = IF r.op = "update" THEN r.input
                    ELSE MergeMetrics(r.read, r.input, r.op = "override")
       /\ metAnswered' = CASE r.op = "update"   -> Entries(r.input)
                           [] r.op = "add"      -> metAnswered \cup Entries(r.input)
                           [] r.op = "override" -> {m \in metAnswered : m.name \notin NamesIn(r.input)}
                                                   \cup LastOfEach(r.input)
    /\ metReq' = [metReq EXCEPT ![h] = MetIdle]
    /\ UNCHANGED <<metGone, metWrites, metMixed>>

(* The statement fails, or the server stops.                                *)
MetricsFail(h) ==
    /\ metReq[h] # MetIdle
    /\ metReq' = [metReq EXCEPT ![h] = MetIdle]
    /\ UNCHANGED <<metRow, metGone, metWrites, metAnswered, metMixed>>

ArchiveExecution ==
    /\ ~metGone
    /\ metGone' = TRUE
    /\ UNCHANGED <<metRow, metReq, metWrites, metAnswered, metMixed>>

MetNext ==
    \/ \E h \in MetHandlers :
         \/ \E op \in {"add", "override", "update"}, input \in MetInputs : ReadMetrics(h, op, input)
         \/ WriteMetrics(h) \/ MetricsFail(h)
    \/ ArchiveExecution

MetSpec == MetInit /\ [][MetNext]_metVars
----------------------------------------------------------------------------
MetTypeOK ==
    /\ metRow \in Seq(Metric)
    /\ metReq \in [MetHandlers -> [op : {"idle", "add", "override", "update"},
                                   read : Seq(Metric), input : MetInputs]]
    /\ metWrites \in 0..MaxMetWrites
    /\ metAnswered \subseteq Metric
    /\ {metGone, metMixed} \subseteq BOOLEAN

(* AddWorkflowExecutionMetrics merges the metrics provided with the ones    *)
(* present in the execution (the comment at workflow_execution.go:2225):    *)
(* the column holds what the answered requests say, taken one after the     *)
(* other, if none overlapped another.  An override reaches every entry of   *)
(* its name, however often additions have repeated it.                      *)
MetricsAsAnswered == ~metMixed => Entries(metRow) = metAnswered
=============================================================================
