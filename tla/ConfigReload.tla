----------------------------- MODULE ConfigReload -----------------------------
(***************************************************************************)
(* The server follows its configuration (main.go): a loop loads it, starts *)
(* an RPC server and waits on stopCh; an informer watches the config map   *)
(* and sends on stopCh for each change it is told of.  The channel has no  *)
(* buffer: the informer's callback waits until the loop receives.          *)
(***************************************************************************)
EXTENDS Naturals

CONSTANTS
    MaxVersions,    \* bound: versions of the config map
    MaxCrashes      \* bound: times the process dies by itself

ASSUME ReloadAssumption == MaxVersions \in Nat \ {0} /\ MaxCrashes \in Nat

VARIABLES
    cfgVersion,     \* the version of the config map
    cfgLoaded,      \* the version the loop has loaded, 0 before the first
    cfgLoop,        \* where the loop is: "boot", "load", "start", "wait", "stop"
    cfgServe,       \* the goroutine of Serve: "none", "starting", "serving", "refused"
    cfgListed,      \* the version the informer found when it began, 0 before
    cfgSeen,        \* the version the informer knows
    cfgSending,     \* its callback waits to send on stopCh
    cfgCrashes

cfgProcess == <<cfgLoaded, cfgLoop, cfgServe, cfgListed, cfgSeen, cfgSending>>
cfgVars == <<cfgVersion, cfgProcess, cfgCrashes>>

NewProcess ==
    /\ cfgLoaded' = 0 /\ cfgLoop' = "boot" /\ cfgServe' = "none"
    /\ cfgListed' = 0 /\ cfgSeen' = 0 /\ cfgSending' = FALSE

ReloadInit ==
    /\ cfgVersion = 1
    /\ cfgLoaded = 0 /\ cfgLoop = "boot" /\ cfgServe = "none"
    /\ cfgListed = 0 /\ cfgSeen = 0 /\ cfgSending = FALSE
    /\ cfgCrashes = 0

EditConfig ==
    /\ cfgVersion < MaxVersions
    /\ cfgVersion' = cfgVersion + 1
    /\ UNCHANGED <<cfgProcess, cfgCrashes>>

----------------------------------------------------------------------------
(* The loop.                                                                *)

(* Migrations are done; the informer's goroutine is started.                *)
FinishBoot ==
    /\ cfgLoop = "boot"
    /\ cfgLoop' = "load"
    /\ UNCHANGED <<cfgVersion, cfgLoaded, cfgServe, cfgListed, cfgSeen, cfgSending, cfgCrashes>>

(* ClearSystemConfigCache, then GetSystemConfig.                            *)
LoadConfig ==
    /\ cfgLoop = "load"
    /\ cfgLoaded' = cfgVersion
    /\ cfgLoop' = "start"
    /\ UNCHANGED <<cfgVersion, cfgServe, cfgListed, cfgSeen, cfgSending, cfgCrashes>>

StartRPCServer ==
    /\ cfgLoop = "start"
    /\ cfgServe' = "starting"
    /\ cfgLoop' = "wait"
    /\ UNCHANGED <<cfgVersion, cfgLoaded, cfgListed, cfgSeen, cfgSending, cfgCrashes>>

BeginServing ==
    /\ cfgServe = "starting"
    /\ cfgServe' = "serving"
    /\ UNCHANGED <<cfgVersion, cfgLoaded, cfgLoop, cfgListed, cfgSeen, cfgSending, cfgCrashes>>

(* Both ends of stopCh meet.                                                *)
PassToken ==
    /\ cfgLoop = "wait" /\ cfgSending
    /\ cfgLoop' = "stop"
    /\ cfgSending' = FALSE
    /\ UNCHANGED <<cfgVersion, cfgLoaded, cfgServe, cfgListed, cfgSeen, cfgCrashes>>

(* s.Stop().  A Serve that has not begun will be refused.                   *)
StopRPCServer ==
    /\ cfgLoop = "stop" /\ cfgServe # "refused"
    /\ \/ /\ cfgServe = "serving"
          /\ cfgServe' = "none" /\ cfgLoop' = "load"
       \/ /\ cfgServe = "starting"
          /\ cfgServe' = "refused" /\ UNCHANGED cfgLoop
    /\ UNCHANGED <<cfgVersion, cfgLoaded, cfgListed, cfgSeen, cfgSending, cfgCrashes>>

(* log.Fatalf in the goroutine of Serve, or in the loop, whose next         *)
(* listener finds the port taken: the pod starts again.                     *)
FatalServe ==
    /\ cfgServe = "refused"
    /\ NewProcess
    /\ UNCHANGED <<cfgVersion, cfgCrashes>>

CrashProcess ==
    /\ cfgCrashes < MaxCrashes
    /\ cfgCrashes' = cfgCrashes + 1
    /\ NewProcess
    /\ UNCHANGED cfgVersion

----------------------------------------------------------------------------
(* watchConfigmapChanges.                                                   *)

(* The first list adds the config map: there is no handler for that.        *)
ListConfig ==
    /\ cfgLoop # "boot" /\ cfgSeen = 0
    /\ cfgListed' = cfgVersion /\ cfgSeen' = cfgVersion
    /\ UNCHANGED <<cfgVersion, cfgLoaded, cfgLoop, cfgServe, cfgSending, cfgCrashes>>

(* For contrast: a send that does not wait is lost when nobody receives.    *)
NoticeAndForget ==
    /\ cfgSeen > 0 /\ ~cfgSending
    /\ cfgSeen' \in (cfgSeen + 1)..cfgVersion
    /\ cfgSending' = (cfgLoop = "wait")
    /\ UNCHANGED <<cfgVersion, cfgLoaded, cfgLoop, cfgServe, cfgListed, cfgCrashes>>

(* UpdateFunc: the informer may skip versions but ends at the last.  While  *)
(* its callback waits it processes nothing.                                 *)
NoticeChange ==
    /\ cfgSeen > 0 /\ ~cfgSending
    /\ cfgSeen' \in (cfgSeen + 1)..cfgVersion
    /\ cfgSending' = TRUE
    /\ UNCHANGED <<cfgVersion, cfgLoaded, cfgLoop, cfgServe, cfgListed, cfgCrashes>>

ReloadLoop ==
    FinishBoot \/ LoadConfig \/ StartRPCServer \/ PassToken \/ StopRPCServer \/ FatalServe
ReloadInformer == ListConfig \/ NoticeChange

ReloadNext == EditConfig \/ CrashProcess \/ ReloadLoop \/ BeginServing \/ ReloadInformer

(* Goroutines run, and the cluster answers the informer.                    *)
ReloadSpec ==
    /\ ReloadInit
    /\ [][ReloadNext]_cfgVars
    /\ WF_cfgVars(ReloadLoop) /\ WF_cfgVars(BeginServing) /\ WF_cfgVars(ReloadInformer)
----------------------------------------------------------------------------
ReloadTypeOK ==
    /\ cfgVersion \in 1..MaxVersions
    /\ cfgLoaded \in 0..cfgVersion /\ cfgListed \in 0..cfgVersion /\ cfgSeen \in 0..cfgVersion
    /\ cfgLoop \in {"boot", "load", "start", "wait", "stop"}
    /\ cfgServe \in {"none", "starting", "serving", "refused"}
    /\ cfgSending \in BOOLEAN

(* Every change the informer is told of after its first list reaches the    *)
(* server: it is on its way through stopCh, the loop is about to load, or   *)
(* what is served was loaded after it (the callback of main.go:84-89).      *)
NoChangeForgotten ==
    cfgSeen > cfgListed =>
        cfgSending \/ cfgLoop \in {"stop", "load"} \/ cfgLoaded >= cfgSeen

(* "so the server has the latest configuration" (main.go:56): once nobody   *)
(* edits it any more the server comes to serve with the last version and    *)
(* stays so, over crashes and changes in the middle of a reload; the one    *)
(* change it never hears of is the one the informer finds at its first      *)
(* list, after the loop has loaded an older version.                        *)
Converges ==
    <>[](cfgServe = "serving" /\ cfgLoop = "wait" /\ (cfgLoaded = cfgVersion \/ cfgListed = cfgVersion))
=============================================================================
