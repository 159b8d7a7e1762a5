---------------------------- MODULE Availability ----------------------------
(***************************************************************************)
(* What a replica knows of the subsystems it depends on, Argo CD and the   *)
(* state backend (internal/argocd/argo.go): its probe checks one after the *)
(* other and caches which are down, for the gate of AddTask, the           *)
(* reachability endpoint and the watcher of the WebSocket hub.             *)
(***************************************************************************)
EXTENDS Naturals

Subsystem == {"argocd", "database"}

VARIABLES
  down,       \* the subsystems that are down
  probe,      \* the state of the probe's Check
  reason      \* the cached set of subsystems found down, which the gauges of the
              \* metrics show; {} is ReasonNone

availVars == <<down, probe, reason>>

(* Before the first check the cache holds ReasonNone.                       *)
AvailInit ==
  /\ down \in SUBSET Subsystem
  /\ probe = "waiting"
  /\ reason \in {{}, down}

IsAvailable == reason = {}

GoesDown(s) ==
  /\ s \notin down
  /\ down' = down \cup {s}
  /\ UNCHANGED <<probe, reason>>

ComesUp(s) ==
  /\ s \in down
  /\ down' = down \ {s}
  /\ UNCHANGED <<probe, reason>>

(* Check asks the state backend first ...                                   *)
CheckState ==
  /\ probe = "waiting"
  /\ probe' = IF "database" \in down THEN "databaseDown" ELSE "databaseUp"
  /\ UNCHANGED <<down, reason>>

(* ... and then Argo CD, whatever the first answer was: unreachable and not *)
(* logged in are both down.  setReason stores it.                           *)
CheckArgo ==
  /\ probe # "waiting"
  /\ reason' = (down \cap {"argocd"}) \cup (IF probe = "databaseUp" THEN {} ELSE {"database"})
  /\ probe' = "waiting"
  /\ UNCHANGED down
=============================================================================
