------------------------------ MODULE TaskLease ------------------------------
(***************************************************************************)
(* Ownership of a deployment task in a fleet of argo-watcher replicas.     *)
(*                                                                         *)
(* Every replica runs one goroutine (here: a monitor) per deployment it    *)
(* watches.  A claim on the task is a lease in the task's row: the owner   *)
(* and the instant the claim lapses.  The monitor's lease guard renews it; *)
(* the reaper of any replica takes lapsed tasks over; a graceful shutdown  *)
(* releases them.  The module follows internal/state/lease.go,             *)
(* internal/argocd/lease_guard.go, internal/argocd/resume.go,              *)
(* internal/server/task_reaper.go and the part of waitForRollout           *)
(* (internal/argocd/argo_status_updater.go) that decides whether a monitor *)
(* may record an outcome.                                                  *)
(*                                                                         *)
(* Time is discrete; now is the clock of Postgres, and the replicas        *)
(* measure elapsed time at the same rate.  A delay the code does not bound *)
(* itself is bounded by a constant, and Tick does not pass its end; the    *)
(* delay before a status write may be as long as it likes, also longer     *)
(* than the margin the lease guard leaves it (Overdue).                    *)
(***************************************************************************)
EXTENDS Integers, FiniteSets

CONSTANTS
  Replica,       \* server processes; a restarted pod is a new element (newOwnerId)
  Task,          \* task rows
  Monitor,       \* goroutines that may watch a rollout
  At,            \* [Monitor -> Replica], the process a monitor runs in
  Of,            \* [Monitor -> Task], the task it watches
  Acceptor,      \* the monitors addTask starts; the reaper starts the others
  TTL,           \* TaskLeaseTTL
  Interval,      \* TaskLeaseRenewInterval
  RenewTimeout,  \* the context timeout of RenewLease
  StartDelay,    \* bound: from the row's insert, or a takeover, to the lease guard
  WriteDelay,    \* bound: from the last Lost() check to the status write
  Skew,          \* bound: clock of the accepting replica against Postgres
  BatchSize,     \* TaskReapBatchSize
  MaxTime,       \* bound on the clock
  NoOwner        \* owner_id NULL

ASSUME ConstantsAssumption ==
  /\ Acceptor \subseteq Monitor
  /\ At \in [Monitor -> Replica]
  /\ Of \in [Monitor -> Task]
  /\ NoOwner \notin Replica
  /\ {TTL, Interval, RenewTimeout} \subseteq Nat \ {0}
  /\ {StartDelay, WriteDelay, Skew, BatchSize, MaxTime} \subseteq Nat

VARIABLES
  now,         \* the clock
  status,      \* [Task -> Status], tasks.status
  owner,       \* [Task -> Replica \cup {NoOwner}], tasks.owner_id
  lease,       \* [Task -> Int], tasks.lease_expires_at, NoLease for NULL
  created,     \* [Task -> Int], tasks.created, written by the accepting replica
  pc,          \* [Monitor -> control point]
  since,       \* [Monitor -> Nat], when the bounded delay at pc began
  lastRenewed, \* [Monitor -> Nat], leaseGuard.lastRenewed
  lost,        \* [Monitor -> BOOLEAN], leaseGuard.lost
  renewal,     \* [Monitor -> state of the renewal statement]
  issued,      \* [Monitor -> Nat], when that statement was issued
  phase,       \* [Replica -> phase of its life]
  sweeping,    \* replicas whose reaper has passed its draining check
  outcomes,    \* [Task -> Nat], outcomes monitors have recorded (history)
  late         \* [Task -> Nat], those of them written overdue (history)

rowVars == <<status, owner, lease, created>>
guardVars == <<lastRenewed, lost, renewal, issued>>
monVars == <<pc, since, guardVars>>
vars == <<now, rowVars, monVars, phase, sweeping, outcomes, late>>

NoLease == -1
Status == {"none", "in progress", "cancelled", "final"}
Control == {"idle", "accepted", "claimed", "watching", "deciding", "gone"}
Renewal == {"none", "sent", "applied", "refused"}
Phase == {"up", "draining", "exiting", "down"}

TypeOK ==
  /\ now \in Nat
  /\ status \in [Task -> Status]
  /\ owner \in [Task -> Replica \cup {NoOwner}]
  /\ lease \in [Task -> Int]
  /\ created \in [Task -> Int]
  /\ pc \in [Monitor -> Control]
  /\ since \in [Monitor -> Nat]
  /\ lastRenewed \in [Monitor -> Nat]
  /\ lost \in [Monitor -> BOOLEAN]
  /\ renewal \in [Monitor -> Renewal]
  /\ issued \in [Monitor -> Nat]
  /\ phase \in [Replica -> Phase]
  /\ sweeping \in SUBSET Replica
  /\ outcomes \in [Task -> Nat]
  /\ late \in [Task -> Nat]

Init ==
  /\ now = 0
  /\ status = [t \in Task |-> "none"]
  /\ owner = [t \in Task |-> NoOwner]
  /\ lease = [t \in Task |-> NoLease]
  /\ created = [t \in Task |-> 0]
  /\ pc = [m \in Monitor |-> "idle"]
  /\ since = [m \in Monitor |-> 0]
  /\ lastRenewed = [m \in Monitor |-> 0]
  /\ lost = [m \in Monitor |-> FALSE]
  /\ renewal = [m \in Monitor |-> "none"]
  /\ issued = [m \in Monitor |-> 0]
  /\ phase = [r \in Replica |-> "up"]
  /\ sweeping = {}
  /\ outcomes = [t \in Task |-> 0]
  /\ late = [t \in Task |-> 0]

-----------------------------------------------------------------------------
(* leaseGuard *)

(* Faulty variant of aged: without the safety margin of one interval.       *)
agedAtTheLease(m) == now - lastRenewed[m] >= TTL

aged(m) == now - lastRenewed[m] + Interval >= TTL

Lost(m) == lost[m] \/ aged(m)

Guarded(m) == pc[m] \in {"watching", "deciding"}

(* What is left of the claim, at the least, when Lost() says no: the guard  *)
(* gives up an interval early, of which the way from the claim to the guard *)
(* and the difference of the clocks may have used a part.                   *)
Margin == Interval + 1 - StartDelay - Skew

(* m passed its last check so long ago that its claim may have lapsed       *)
(* since: the resource tree was slow, and the write is still to come.       *)
Overdue(m) == pc[m] = "deciding" /\ now > since[m] + Margin

(* Faulty variant of Lapsed: no grace for a row not claimed yet.            *)
LapsedWithoutGrace(t) == status[t] = "in progress" /\ lease[t] < now

(* When a sweep may take the row over: lease_expires_at < now(), or a row   *)
(* never claimed whose creation is a whole TTL ago.                         *)
Lapsed(t) ==
  /\ status[t] = "in progress"
  /\ IF lease[t] = NoLease THEN created[t] < now - TTL ELSE lease[t] < now

(* The goroutines of the set M end, and what they kept with them.           *)
End(M) ==
  /\ pc' = [m \in Monitor |-> IF m \in M THEN "gone" ELSE pc[m]]
  /\ since' = [m \in Monitor |-> IF m \in M THEN 0 ELSE since[m]]
  /\ lastRenewed' = [m \in Monitor |-> IF m \in M THEN 0 ELSE lastRenewed[m]]
  /\ lost' = [m \in Monitor |-> IF m \in M THEN FALSE ELSE lost[m]]
  /\ renewal' = [m \in Monitor |-> IF m \in M THEN "none" ELSE renewal[m]]
  /\ issued' = [m \in Monitor |-> IF m \in M THEN 0 ELSE issued[m]]

-----------------------------------------------------------------------------
(* Accepting a task: State.AddTask, then ClaimTask, then the goroutine.     *)

AddTask(m) ==
  /\ m \in Acceptor
  /\ pc[m] = "idle"
  /\ status[Of[m]] = "none"
  /\ phase[At[m]] \in {"up", "draining"}
  /\ status' = [status EXCEPT ![Of[m]] = "in progress"]
  /\ \E d \in (-Skew)..Skew : created' = [created EXCEPT ![Of[m]] = now + d]
  /\ pc' = [pc EXCEPT ![m] = "accepted"]
  /\ since' = [since EXCEPT ![m] = now]
  /\ UNCHANGED <<now, owner, lease, guardVars, phase, sweeping, outcomes, late>>

(* The UPDATE names the row only: neither the owner nor the status is       *)
(* checked.                                                                 *)
ClaimTask(m) ==
  /\ pc[m] = "accepted"
  /\ owner' = [owner EXCEPT ![Of[m]] = At[m]]
  /\ lease' = [lease EXCEPT ![Of[m]] = now + TTL]
  /\ pc' = [pc EXCEPT ![m] = "claimed"]
  /\ UNCHANGED <<now, status, created, since, guardVars, phase, sweeping, outcomes, late>>

(* A claim that fails is logged; the task is monitored all the same.        *)
ClaimTaskFails(m) ==
  /\ pc[m] = "accepted"
  /\ pc' = [pc EXCEPT ![m] = "claimed"]
  /\ UNCHANGED <<now, rowVars, since, guardVars, phase, sweeping, outcomes, late>>

(* waitForRollout creates the guard before anything else.  A resumed task   *)
(* gets here only if its replica is not draining (resumeSafely).            *)
newLeaseGuard(m) ==
  /\ pc[m] = "claimed"
  /\ m \in Acceptor \/ phase[At[m]] = "up"
  /\ pc' = [pc EXCEPT ![m] = "watching"]
  /\ since' = [since EXCEPT ![m] = 0]
  /\ lastRenewed' = [lastRenewed EXCEPT ![m] = now]
  /\ UNCHANGED <<now, rowVars, lost, renewal, issued, phase, sweeping, outcomes, late>>

(* resumeSafely on a draining replica, or a resume that panicked.           *)
NotResumed(m) ==
  /\ pc[m] = "claimed"
  /\ m \notin Acceptor
  /\ End({m})
  /\ UNCHANGED <<now, rowVars, phase, sweeping, outcomes, late>>

-----------------------------------------------------------------------------
(* The reaper of replica r: the draining check, then one UPDATE that claims *)
(* a batch.  FOR UPDATE SKIP LOCKED lets it take any part of the lapsed     *)
(* rows; ClaimExpiredTasks and the goroutines it leads to are one step.     *)

ReapTick(r) ==
  /\ phase[r] = "up"
  /\ r \notin sweeping
  /\ sweeping' = sweeping \cup {r}
  /\ UNCHANGED <<now, rowVars, monVars, phase, outcomes, late>>

ClaimExpiredTasks(r) ==
  /\ r \in sweeping
  /\ sweeping' = sweeping \ {r}
  /\ \E M \in SUBSET {m \in Monitor \ Acceptor :
                        At[m] = r /\ pc[m] = "idle" /\ Lapsed(Of[m])} :
       /\ Cardinality(M) <= BatchSize
       /\ \A m, n \in M : m # n => Of[m] # Of[n]
       /\ owner' = [t \in Task |-> IF \E m \in M : Of[m] = t THEN r ELSE owner[t]]
       /\ lease' = [t \in Task |-> IF \E m \in M : Of[m] = t THEN now + TTL ELSE lease[t]]
       /\ pc' = [m \in Monitor |-> IF m \in M THEN "claimed" ELSE pc[m]]
       /\ since' = [m \in Monitor |-> IF m \in M THEN now ELSE since[m]]
  /\ UNCHANGED <<now, status, created, guardVars, phase, outcomes, late>>

-----------------------------------------------------------------------------
(* The renewing goroutine of a lease guard.                                 *)

RenewIssue(m) ==
  /\ Guarded(m) /\ ~lost[m] /\ renewal[m] = "none"
  /\ ~aged(m)
  /\ renewal' = [renewal EXCEPT ![m] = "sent"]
  /\ issued' = [issued EXCEPT ![m] = now]
  /\ UNCHANGED <<now, rowVars, pc, since, lastRenewed, lost, phase, sweeping, outcomes, late>>

GiveUpAged(m) ==
  /\ Guarded(m) /\ ~lost[m] /\ renewal[m] = "none"
  /\ aged(m)
  /\ lost' = [lost EXCEPT ![m] = TRUE]
  /\ UNCHANGED <<now, rowVars, pc, since, lastRenewed, renewal, issued, phase, sweeping, outcomes, late>>

(* The UPDATE reaches Postgres: it matches a row this replica owns.         *)
RenewLease(m) ==
  /\ Guarded(m) /\ renewal[m] = "sent"
  /\ \/ /\ owner[Of[m]] = At[m]
        /\ lease' = [lease EXCEPT ![Of[m]] = now + TTL]
        /\ renewal' = [renewal EXCEPT ![m] = "applied"]
     \/ /\ owner[Of[m]] # At[m]
        /\ renewal' = [renewal EXCEPT ![m] = "refused"]
        /\ UNCHANGED lease
  /\ UNCHANGED <<now, status, owner, created, pc, since, lastRenewed, lost, issued, phase, sweeping, outcomes, late>>

(* Faulty variant of RenewReturns: the result "not held" is ignored.        *)
RenewReturnsUnread(m) ==
  /\ Guarded(m) /\ renewal[m] \in {"applied", "refused"}
  /\ lastRenewed' = [lastRenewed EXCEPT ![m] = issued[m]]
  /\ renewal' = [renewal EXCEPT ![m] = "none"]
  /\ issued' = [issued EXCEPT ![m] = 0]
  /\ UNCHANGED <<now, rowVars, pc, since, lost, phase, sweeping, outcomes, late>>

RenewReturns(m) ==
  /\ Guarded(m) /\ renewal[m] \in {"applied", "refused"}
  /\ \/ /\ renewal[m] = "applied"
        /\ lastRenewed' = [lastRenewed EXCEPT ![m] = issued[m]]
        /\ UNCHANGED lost
     \/ /\ renewal[m] = "refused"
        /\ lost' = [lost EXCEPT ![m] = TRUE]
        /\ UNCHANGED lastRenewed
  /\ renewal' = [renewal EXCEPT ![m] = "none"]
  /\ issued' = [issued EXCEPT ![m] = 0]
  /\ UNCHANGED <<now, rowVars, pc, since, phase, sweeping, outcomes, late>>

(* Faulty variant of RenewFails: a failed renewal is taken for a held one.  *)
RenewFailsAsHeld(m) ==
  /\ Guarded(m) /\ renewal[m] # "none"
  /\ lastRenewed' = [lastRenewed EXCEPT ![m] = issued[m]]
  /\ renewal' = [renewal EXCEPT ![m] = "none"]
  /\ issued' = [issued EXCEPT ![m] = 0]
  /\ UNCHANGED <<now, rowVars, pc, since, lost, phase, sweeping, outcomes, late>>

(* The statement failed, or timed out before or after Postgres applied it.  *)
RenewFails(m) ==
  /\ Guarded(m) /\ renewal[m] # "none"
  /\ renewal' = [renewal EXCEPT ![m] = "none"]
  /\ issued' = [issued EXCEPT ![m] = 0]
  /\ UNCHANGED <<now, rowVars, pc, since, lastRenewed, lost, phase, sweeping, outcomes, late>>

-----------------------------------------------------------------------------
(* The outcome.  waitForRollout consults Lost() and then writes; everything *)
(* between the two (handleDeploymentFailure fetches the resource tree       *)
(* there) takes up to WriteDelay.                                           *)

(* A resumed monitor also gives up as soon as its replica drains.           *)
Abandons(m) ==
  /\ pc[m] = "watching"
  /\ Lost(m) \/ (m \notin Acceptor /\ phase[At[m]] # "up")
  /\ End({m})
  /\ UNCHANGED <<now, rowVars, phase, sweeping, outcomes, late>>

(* Superseded: the cancelled status is already stored, nothing is written.  *)
StopsSuperseded(m) ==
  /\ pc[m] = "watching"
  /\ ~Lost(m)
  /\ status[Of[m]] = "cancelled"
  /\ End({m})
  /\ UNCHANGED <<now, rowVars, phase, sweeping, outcomes, late>>

(* Faulty variant of Decides: the claim is not re-checked after the poll    *)
(* loop has ended.                                                          *)
DecidesUnchecked(m) ==
  /\ pc[m] = "watching"
  /\ pc' = [pc EXCEPT ![m] = "deciding"]
  /\ since' = [since EXCEPT ![m] = now]
  /\ UNCHANGED <<now, rowVars, guardVars, phase, sweeping, outcomes, late>>

Decides(m) ==
  /\ pc[m] = "watching"
  /\ ~Lost(m)
  /\ m \in Acceptor \/ phase[At[m]] = "up"
  /\ pc' = [pc EXCEPT ![m] = "deciding"]
  /\ since' = [since EXCEPT ![m] = now]
  /\ UNCHANGED <<now, rowVars, guardVars, phase, sweeping, outcomes, late>>

(* SetTaskStatus names the row only; a deferred Stop ends the guard.        *)
RecordOutcome(m) ==
  /\ status' = [status EXCEPT ![Of[m]] = "final"]
  /\ outcomes' = [outcomes EXCEPT ![Of[m]] = @ + 1]
  /\ late' = [late EXCEPT ![Of[m]] = IF Overdue(m) THEN @ + 1 ELSE @]
  /\ End({m})
  /\ UNCHANGED <<now, owner, lease, created, phase, sweeping>>

SetTaskStatus(m) == pc[m] = "deciding" /\ RecordOutcome(m)

(* The write fails: it is logged, the row stays as it is.                   *)
SetTaskStatusFails(m) ==
  /\ pc[m] = "deciding"
  /\ End({m})
  /\ UNCHANGED <<now, rowVars, phase, sweeping, outcomes, late>>

(* ResumeRollout on a task whose window elapsed: no guard, no Lost() check. *)
abortStaleTask(m) ==
  /\ pc[m] = "claimed"
  /\ m \notin Acceptor
  /\ phase[At[m]] = "up"
  /\ RecordOutcome(m)

(* A newer deployment of the same application: CancelInProgressTasks.       *)
Cancel(t) ==
  /\ status[t] = "in progress"
  /\ status' = [status EXCEPT ![t] = "cancelled"]
  /\ UNCHANGED <<now, owner, lease, created, monVars, phase, sweeping, outcomes, late>>

-----------------------------------------------------------------------------
(* The life of a replica.                                                   *)

beginDraining(r) ==
  /\ phase[r] = "up"
  /\ phase' = [phase EXCEPT ![r] = "draining"]
  /\ UNCHANGED <<now, rowVars, monVars, sweeping, outcomes, late>>

(* The last shutdown phase; main returns right after it.                    *)
ReleaseOwnedLeases(r) ==
  LET released == {t \in Task : owner[t] = r /\ status[t] = "in progress"} IN
  /\ phase[r] = "draining"
  /\ phase' = [phase EXCEPT ![r] = "exiting"]
  /\ owner' = [t \in Task |-> IF t \in released THEN NoOwner ELSE owner[t]]
  /\ lease' = [t \in Task |-> IF t \in released THEN now ELSE lease[t]]
  /\ UNCHANGED <<now, status, created, monVars, sweeping, outcomes, late>>

(* The process ends: after the release, after a release that failed, or by  *)
(* a crash at any moment.  Its goroutines end with it.                      *)
Exit(r) ==
  /\ phase[r] # "down"
  /\ phase' = [phase EXCEPT ![r] = "down"]
  /\ sweeping' = sweeping \ {r}
  /\ End({m \in Monitor : At[m] = r /\ pc[m] # "idle"})
  /\ UNCHANGED <<now, rowVars, outcomes, late>>

-----------------------------------------------------------------------------
(* Time passes unless a bounded delay has run out.                          *)
Tick ==
  /\ now < MaxTime
  /\ \A r \in Replica : phase[r] # "exiting"
  /\ \A m \in Monitor :
       /\ pc[m] \in {"accepted", "claimed"} => now < since[m] + StartDelay
       /\ pc[m] = "deciding" => now < since[m] + WriteDelay
       /\ Guarded(m) /\ renewal[m] # "none" => now < issued[m] + RenewTimeout
  /\ now' = now + 1
  /\ UNCHANGED <<rowVars, monVars, phase, sweeping, outcomes, late>>

MonitorStep(m) ==
  \/ AddTask(m) \/ ClaimTask(m) \/ ClaimTaskFails(m)
  \/ newLeaseGuard(m) \/ NotResumed(m)
  \/ RenewIssue(m) \/ GiveUpAged(m) \/ RenewLease(m) \/ RenewReturns(m) \/ RenewFails(m)
  \/ Abandons(m) \/ StopsSuperseded(m) \/ Decides(m)
  \/ SetTaskStatus(m) \/ SetTaskStatusFails(m) \/ abortStaleTask(m)

ReplicaStep(r) ==
  \/ ReapTick(r) \/ ClaimExpiredTasks(r)
  \/ beginDraining(r) \/ ReleaseOwnedLeases(r) \/ Exit(r)

Next ==
  \/ \E m \in Monitor : MonitorStep(m)
  \/ \E r \in Replica : ReplicaStep(r)
  \/ \E t \in Task : Cancel(t)
  \/ Tick

Spec == Init /\ [][Next]_vars

-----------------------------------------------------------------------------
(* Properties *)

(* m would, at its next check, go on with the rollout, or is to write its   *)
(* outcome within the margin: the rollout is watched by m.                  *)
Attends(m) ==
  \/ pc[m] = "deciding" /\ ~Overdue(m)
  \/ pc[m] = "watching" /\ ~Lost(m)

(* Each deployment is monitored by at most one goroutine at a time, in the  *)
(* whole fleet and within one replica: no two of them would both go on at   *)
(* their next Lost() check.  (One whose write is overdue may be left over.) *)
ExclusiveMonitor ==
  \A m, n \in Monitor : m # n /\ Of[m] = Of[n] => ~(Attends(m) /\ Attends(n))

(* What the documentation says: a monitor that lost its claim never         *)
(* overwrites the outcome another one recorded, so a task gets at most one  *)
(* outcome from its monitors.  The code allows a second one (Overdue).      *)
OneOutcome == \A t \in Task : outcomes[t] <= 1

(* What the code ensures: the outcomes that were written within the margin  *)
(* of their last check are at most one for a task, whatever was written     *)
(* late besides, and whoever took the task over meanwhile.                  *)
OneOutcomeInTime == \A t \in Task : outcomes[t] - late[t] <= 1

(* A claim leaves a replica only when no monitor there would still go on:   *)
(* by a takeover, never while the rollout is attended (one whose status     *)
(* write is overdue may be taken over); or by the replica's own release on  *)
(* the way out.                                                             *)
NoTakeoverOfAttended ==
  [][\A m \in Monitor :
       Attends(m) /\ status[Of[m]] = "in progress" /\ owner'[Of[m]] # owner[Of[m]]
         => owner'[Of[m]] \in {At[m], NoOwner}]_vars
=============================================================================
