-------------------------------- MODULE Secret --------------------------------
(***************************************************************************)
(* The keys of one Kubernetes secret (pkg/secret.go).  Every request reads *)
(* the secret, decides from what it read and sends a JSON patch; the patch *)
(* says nothing about what was read.                                       *)
(***************************************************************************)
EXTENDS Naturals, FiniteSets

CONSTANTS SecretKeys, SecretHandlers, NoKey

ASSUME SecretAssumption == NoKey \notin SecretKeys

VARIABLES
    secExists,      \* the secret is there
    secData,        \* its keys; Kubernetes drops an empty data
    secReq,         \* secReq[h] = [op, key, empty]: empty says no data was read
    secPromised,    \* history: keys whose addition was answered true, not removed since
    secOverlap      \* history: an addition that met an empty secret met company

secVars == <<secExists, secData, secReq, secPromised, secOverlap>>

SecretIdle == [op |-> "idle", key |-> NoKey, empty |-> FALSE]

SecretInit ==
    /\ secExists = TRUE
    /\ secData \in SUBSET SecretKeys
    /\ secReq = [h \in SecretHandlers |-> SecretIdle]
    /\ secPromised = {}
    /\ secOverlap = FALSE

SecretDone(h) == secReq' = [secReq EXCEPT ![h] = SecretIdle]

(* The read of a request whose condition on what it read holds; a request   *)
(* whose condition does not hold is answered at once and changes nothing.   *)
ReadSecret(h, op, k) ==
    /\ secReq[h] = SecretIdle /\ secExists
    /\ k \in secData <=> op # "add"
    /\ secReq' = [secReq EXCEPT ![h] = [op |-> op, key |-> k, empty |-> secData = {}]]
    /\ secOverlap' = (secOverlap \/ (secData = {} /\ \E g \in SecretHandlers : secReq[g].empty))
    /\ UNCHANGED <<secExists, secData, secPromised>>

(* For contrast: the addition always puts a new map at /data.               *)
PatchAddMap(h) ==
    /\ secReq[h].op = "add" /\ secExists
    /\ secData' = {secReq[h].key}
    /\ secPromised' = secPromised \cup {secReq[h].key}
    /\ SecretDone(h)
    /\ UNCHANGED <<secExists, secOverlap>>

(* AddSecretKeyValue: a map at /data if none was read, else /data/key, an   *)
(* error if /data is gone.                                                  *)
PatchAdd(h) ==
    /\ secReq[h].op = "add" /\ secExists
    /\ secReq[h].empty \/ secData # {}
    /\ secData' = (IF secReq[h].empty THEN {} ELSE secData) \cup {secReq[h].key}
    /\ secPromised' = secPromised \cup {secReq[h].key}
    /\ SecretDone(h)
    /\ UNCHANGED <<secExists, secOverlap>>

(* DeleteSecretKey: "remove" is refused if the key is gone.                 *)
PatchRemove(h) ==
    /\ secReq[h].op = "delete" /\ secExists
    /\ secReq[h].key \in secData
    /\ secData' = secData \ {secReq[h].key}
    /\ secPromised' = secPromised \ {secReq[h].key}
    /\ SecretDone(h)
    /\ UNCHANGED <<secExists, secOverlap>>

(* UpdateSecretKeyValue: "replace" is refused if the key is gone; values    *)
(* are left out.                                                            *)
PatchReplace(h) ==
    /\ secReq[h].op = "update" /\ secExists
    /\ secReq[h].key \in secData
    /\ SecretDone(h)
    /\ UNCHANGED <<secExists, secData, secPromised, secOverlap>>

(* The patch is refused or does not arrive: an error is answered.           *)
PatchFails(h) ==
    /\ secReq[h] # SecretIdle
    /\ SecretDone(h)
    /\ UNCHANGED <<secExists, secData, secPromised, secOverlap>>

DeleteSecret ==
    /\ secExists
    /\ secExists' = FALSE /\ secData' = {} /\ secPromised' = {}
    /\ UNCHANGED <<secReq, secOverlap>>

CreateSecret ==
    /\ ~secExists
    /\ secExists' = TRUE
    /\ secData' \in SUBSET SecretKeys
    /\ secOverlap' = (secOverlap \/ \E g \in SecretHandlers : secReq[g].empty)
    /\ UNCHANGED <<secReq, secPromised>>

SecretNext ==
    \/ DeleteSecret \/ CreateSecret
    \/ \E h \in SecretHandlers :
          \/ \E k \in SecretKeys, op \in {"add", "delete", "update"} : ReadSecret(h, op, k)
          \/ PatchAdd(h) \/ PatchRemove(h) \/ PatchReplace(h) \/ PatchFails(h)

SecretSpec == SecretInit /\ [][SecretNext]_secVars
----------------------------------------------------------------------------
SecretTypeOK ==
    /\ secExists \in BOOLEAN /\ secOverlap \in BOOLEAN
    /\ secData \subseteq SecretKeys /\ secPromised \subseteq SecretKeys
    /\ \A h \in SecretHandlers : secReq[h].op \in {"idle", "add", "delete", "update"}

(* A key whose addition was answered with success is in the secret until it *)
(* or the secret is deleted, however requests interleave, with one          *)
(* exception: the addition of a first key puts a whole map, over whatever   *)
(* another first key or a new secret of the name has put there meanwhile.   *)
AdditionsKept == ~secOverlap => secPromised \subseteq secData
=============================================================================
