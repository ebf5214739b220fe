---------------------------- MODULE ExecutionWatch ----------------------------
(***************************************************************************)
(* WatchWorkflowExecution: a goroutine reads the events of a Kubernetes    *)
(* watch, hands each to the client's stream over an unbuffered channel and *)
(* opens a new watch when the old one is closed.  Argo, the watch and the  *)
(* client go their own way.                                                *)
(***************************************************************************)
EXTENDS Naturals, Sequences

CONSTANT MaxEvents      \* bound: events of a watch that are not yet read

ASSUME WatchAssumption == MaxEvents \in Nat \ {0}

VARIABLES
    wchPhase,       \* the Argo workflow: "Pending", "Running", "Finished", "Gone"
    wchOpen,        \* the watch is open
    wchEvents,      \* its events that are not yet read
    wchLoop,        \* the goroutine: "range", "send", "get", "watch", "done", "panicked"
    wchHeld,        \* the event it is sending
    wchTimeouts,    \* timeout events it has counted
    wchClient,      \* "reading", "left", "ended", "cut"
    wchSeen,        \* the last phase the client was sent
    wchBroken       \* history: the watch was closed or has sent a status

wchArgo == <<wchPhase, wchOpen, wchEvents>>
wchVars == <<wchArgo, wchLoop, wchHeld, wchTimeouts, wchClient, wchSeen, wchBroken>>

(* The execution was found and the first watch opened.  A watch begins with *)
(* the object as it is.                                                     *)
WatchInit ==
    /\ wchPhase \in {"Pending", "Running", "Finished"}
    /\ wchOpen = TRUE /\ wchEvents = <<wchPhase>>
    /\ wchLoop = "range" /\ wchHeld = "none" /\ wchTimeouts = 0
    /\ wchClient = "reading" /\ wchSeen = "none" /\ wchBroken = FALSE

----------------------------------------------------------------------------
(* The cluster.                                                             *)

Deliver(event) ==
    /\ wchOpen => Len(wchEvents) < MaxEvents
    /\ wchEvents' = IF wchOpen THEN Append(wchEvents, event) ELSE wchEvents

WorkflowMoves ==
    /\ \/ wchPhase = "Pending" /\ wchPhase' \in {"Running", "Finished"}
       \/ wchPhase = "Running" /\ wchPhase' \in {"Running", "Finished"}
    /\ Deliver(wchPhase')
    /\ UNCHANGED <<wchOpen, wchLoop, wchHeld, wchTimeouts, wchClient, wchSeen, wchBroken>>

(* The event of a deletion carries the object as it was.                    *)
WorkflowDeleted ==
    /\ wchPhase # "Gone"
    /\ wchPhase' = "Gone"
    /\ Deliver(wchPhase)
    /\ UNCHANGED <<wchOpen, wchLoop, wchHeld, wchTimeouts, wchClient, wchSeen, wchBroken>>

(* The connection is closed, with some events unread or lost.               *)
WatchClosed ==
    /\ wchOpen
    /\ wchOpen' = FALSE
    /\ \E n \in 0..Len(wchEvents) : wchEvents' = SubSeq(wchEvents, 1, n)
    /\ wchBroken' = TRUE
    /\ UNCHANGED <<wchPhase, wchLoop, wchHeld, wchTimeouts, wchClient, wchSeen>>

WatchReports(status) ==
    /\ wchOpen
    /\ Deliver(status)
    /\ wchBroken' = TRUE
    /\ UNCHANGED <<wchPhase, wchOpen, wchLoop, wchHeld, wchTimeouts, wchClient, wchSeen>>

----------------------------------------------------------------------------
(* The goroutine.                                                           *)

(* For contrast: timeouts are retried without an end.                       *)
ReadEventUncapped ==
    /\ wchLoop = "range" /\ wchEvents # <<>>
    /\ wchEvents' = Tail(wchEvents)
    /\ IF Head(wchEvents) = "timeout"
       THEN wchTimeouts' = wchTimeouts + 1 /\ UNCHANGED <<wchLoop, wchHeld>>
       ELSE wchLoop' = "send" /\ wchHeld' = Head(wchEvents) /\ UNCHANGED wchTimeouts
    /\ UNCHANGED <<wchPhase, wchOpen, wchClient, wchSeen, wchBroken>>

ReadEvent ==
    /\ wchLoop = "range" /\ wchEvents # <<>>
    /\ wchEvents' = Tail(wchEvents)
    /\ CASE Head(wchEvents) = "timeout" ->
              /\ wchLoop' = IF wchTimeouts > 5 THEN "done" ELSE "range"
              /\ wchTimeouts' = IF wchTimeouts > 5 THEN wchTimeouts ELSE wchTimeouts + 1
              /\ UNCHANGED wchHeld
         [] Head(wchEvents) = "status" ->
              wchLoop' = "done" /\ UNCHANGED <<wchTimeouts, wchHeld>>
         [] OTHER ->
              wchLoop' = "send" /\ wchHeld' = Head(wchEvents) /\ UNCHANGED wchTimeouts
    /\ UNCHANGED <<wchPhase, wchOpen, wchClient, wchSeen, wchBroken>>

(* For contrast: the end of the workflow is not looked for.                 *)
SendAndGoOn ==
    /\ wchLoop = "send" /\ wchClient = "reading"
    /\ wchSeen' = wchHeld
    /\ wchLoop' = "range" /\ wchHeld' = "none"
    /\ UNCHANGED <<wchArgo, wchTimeouts, wchClient, wchBroken>>

(* For contrast: the end of the workflow is looked for before it is sent.   *)
EndBeforeSend ==
    /\ wchLoop = "send" /\ wchClient = "reading"
    /\ wchSeen' = IF wchHeld = "Finished" THEN wchSeen ELSE wchHeld
    /\ wchLoop' = IF wchHeld = "Finished" THEN "done" ELSE "range"
    /\ wchHeld' = "none"
    /\ UNCHANGED <<wchArgo, wchTimeouts, wchClient, wchBroken>>

(* The channel has no buffer: with a client that has left the send never    *)
(* returns and the goroutine stays.                                         *)
SendEvent ==
    /\ wchLoop = "send" /\ wchClient = "reading"
    /\ wchSeen' = wchHeld
    /\ wchLoop' = IF wchHeld = "Finished" THEN "done" ELSE "range"
    /\ wchHeld' = "none"
    /\ UNCHANGED <<wchArgo, wchTimeouts, wchClient, wchBroken>>

FindWatchClosed ==
    /\ wchLoop = "range" /\ wchEvents = <<>> /\ ~wchOpen
    /\ wchLoop' = "get"
    /\ UNCHANGED <<wchArgo, wchHeld, wchTimeouts, wchClient, wchSeen, wchBroken>>

(* Only a running workflow is watched again; an error ends the loop.        *)
GetWorkflow ==
    /\ wchLoop = "get"
    /\ wchLoop' \in IF wchPhase = "Running" THEN {"watch", "done"} ELSE {"done"}
    /\ UNCHANGED <<wchArgo, wchHeld, wchTimeouts, wchClient, wchSeen, wchBroken>>

(* A Watch that fails leaves watcher nil, and watcher.Stop() after the loop *)
(* panics in a goroutine that nothing recovers: the process of the server   *)
(* ends, the channel is never closed and the client's connection is cut.    *)
WatchAgain ==
    /\ wchLoop = "watch"
    /\ \/ /\ wchOpen' = TRUE
          /\ wchEvents' = IF wchPhase = "Gone" THEN <<>> ELSE <<wchPhase>>
          /\ wchLoop' = "range"
          /\ UNCHANGED wchClient
       \/ /\ wchLoop' = "panicked"
          /\ wchClient' = IF wchClient = "reading" THEN "cut" ELSE wchClient
          /\ UNCHANGED <<wchOpen, wchEvents>>
    /\ UNCHANGED <<wchPhase, wchHeld, wchTimeouts, wchSeen, wchBroken>>

----------------------------------------------------------------------------
(* The handler in server/workflow_server.go.                                *)

(* The channel is closed: the stream ends.                                  *)
EndStream ==
    /\ wchLoop = "done" /\ wchClient = "reading"
    /\ wchClient' = "ended"
    /\ UNCHANGED <<wchArgo, wchLoop, wchHeld, wchTimeouts, wchSeen, wchBroken>>

(* stream.Send fails.                                                       *)
ClientLeaves ==
    /\ wchClient = "reading"
    /\ wchClient' = "left"
    /\ UNCHANGED <<wchArgo, wchLoop, wchHeld, wchTimeouts, wchSeen, wchBroken>>

WatchGoroutine ==
    ReadEvent \/ SendEvent \/ FindWatchClosed \/ GetWorkflow \/ WatchAgain \/ EndStream

WatchNext ==
    \/ WorkflowMoves \/ WorkflowDeleted \/ WatchClosed \/ ClientLeaves \/ WatchGoroutine
    \/ WatchReports("timeout") \/ WatchReports("status")

(* The goroutine and the handler run; nothing is assumed of the cluster.    *)
WatchSpec == WatchInit /\ [][WatchNext]_wchVars /\ WF_wchVars(WatchGoroutine)
----------------------------------------------------------------------------
WatchTypeOK ==
    /\ wchPhase \in {"Pending", "Running", "Finished", "Gone"}
    /\ wchOpen \in BOOLEAN
    /\ Len(wchEvents) <= MaxEvents
    /\ wchLoop \in {"range", "send", "get", "watch", "done", "panicked"}
    /\ wchTimeouts \in 0..6
    /\ wchClient \in {"reading", "left", "ended", "cut"}

(* A stream whose watch was never disturbed ends only when the client has   *)
(* been sent the end of the workflow.  (After a disturbance it may end      *)
(* without: a workflow that finishes before the Get is not sent again.)     *)
LastSeen == wchClient = "ended" /\ ~wchBroken => wchSeen = "Finished"

(* However the watch was disturbed, the stream of a workflow that has       *)
(* finished does not stay open: the handler ends it, unless the client has  *)
(* left, or a watch that could not be opened again took the server down     *)
(* with every request it was serving.                                       *)
WatchEnds ==
    wchPhase = "Finished" ~>
        wchClient \in {"ended", "left"} \/ wchLoop = "panicked" \/ wchPhase = "Gone"
=============================================================================
