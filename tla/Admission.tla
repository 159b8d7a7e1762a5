----------------------------- MODULE Admission -----------------------------
(***************************************************************************)
(* A deployment request on its way through POST /api/v1/tasks              *)
(* (internal/server/handlers.go and Argo.AddTask): the deployment lock,    *)
(* the deploy token and the availability gate are consulted one after the  *)
(* other while operators and schedules go on.  Composes Lockdown; what the *)
(* availability gate knows is Availability's, and what follows an accepted *)
(* task is Supersession's.                                                 *)
(***************************************************************************)
EXTENDS Lockdown

CONSTANT Request   \* requests, on any replica

VARIABLES
  stage,    \* [Request -> how far it has come]
  body,     \* [Request -> its payload and credential]
  row,      \* [Request -> the lock row it read]
  manualOff, scheduleOff  \* [Request -> BOOLEAN], the lock, or the schedules, let
                          \* deployments pass at an instant of its handling (history)

requestVars == <<stage, body, row, manualOff, scheduleOff>>
vars == <<lockVars, requestVars>>

(* A payload that does not decode, a credential the server rejects, no      *)
(* images or no application name, and none of these.                        *)
Body == {"malformed", "badToken", "incomplete", "valid"}

Init ==
  /\ LockInit
  /\ stage = [q \in Request |-> "none"]
  /\ body \in [Request -> Body]
  /\ row = [q \in Request |-> Unreadable]
  /\ manualOff = [q \in Request |-> FALSE]
  /\ scheduleOff = [q \in Request |-> FALSE]

-----------------------------------------------------------------------------
Goes(q, from, to) == stage[q] = from /\ stage' = [stage EXCEPT ![q] = to]

(* The handler decodes the body before anything else.                       *)
bindJSON(q) ==
  /\ Goes(q, "none", IF body[q] = "malformed" THEN "malformed" ELSE "bound")
  /\ UNCHANGED row

(* IsLocked reads the row, or fails to ...                                  *)
ReadLock(q) ==
  /\ Goes(q, "bound", "read")
  /\ \E answer \in {Read(store), Unreadable} : row' = [row EXCEPT ![q] = answer]

(* Faulty variant: what cannot be read is taken for unlocked.              *)
IsLockedFailOpen(q) ==
  /\ Goes(q, "read", IF ~row[q].err /\ resolve(row[q], now) THEN "locked" ELSE "unlocked")
  /\ UNCHANGED row

(* ... and evaluates it, with the schedules, an instant later.              *)
IsLocked(q) ==
  /\ Goes(q, "read", IF resolve(row[q], now) THEN "locked" ELSE "unlocked")
  /\ UNCHANGED row

(* A credential is optional; one that is offered and rejected is a 401.     *)
validateToken(q) ==
  /\ Goes(q, "unlocked", IF body[q] = "badToken" THEN "unauthorized" ELSE "validated")
  /\ UNCHANGED row

(* AddTask of Argo: the cached reachability (either answer: Availability),  *)
(* then the task's contents; the repository's insert may fail.              *)
AddTask(q) ==
  /\ \/ Goes(q, "validated", "unavailable")
     \/ /\ body[q] = "incomplete"
        /\ Goes(q, "validated", "incomplete")
     \/ /\ body[q] = "valid"
        /\ \E answer \in {"accepted", "failed"} : Goes(q, "validated", answer)
  /\ UNCHANGED row

Handle(q) == bindJSON(q) \/ ReadLock(q) \/ IsLocked(q) \/ validateToken(q) \/ AddTask(q)

(* The history variables note what the lock allows after the step.          *)
Noted ==
  LET open(q) == stage'[q] # "none" IN
  /\ manualOff' = [q \in Request |->
                     manualOff[q] \/ (open(q) /\ ~store'.manualLock)]
  /\ scheduleOff' = [q \in Request |->
                       scheduleOff[q] \/ (open(q) /\ (now' < store'.overrideUntil \/ ~scheduleActive(now')))]

Next ==
  /\ \/ \E q \in Request : Handle(q) /\ UNCHANGED <<lockVars, body>>
     \/ LockNext /\ UNCHANGED <<stage, body, row>>
  /\ Noted

Spec == Init /\ [][Next]_vars /\ LockFairness

-----------------------------------------------------------------------------
(* Properties *)

(* A deployment is accepted only if the operators' lock, and the schedules, *)
(* let deployments pass while it was being handled: a lock acknowledged     *)
(* before the request arrives, and not released since, stops it on every    *)
(* replica, also when the row cannot be read.                               *)
FreezeIsEffective ==
  \A q \in Request : stage[q] = "accepted" => manualOff[q] /\ scheduleOff[q]
=============================================================================
