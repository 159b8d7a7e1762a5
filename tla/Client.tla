------------------------------- MODULE Client -------------------------------
(***************************************************************************)
(* A client waits for its deployment (internal/client/client.go,           *)
(* utility.go) while the hourly sweep of a replica ages the task's row     *)
(* (internal/state/postgres_state.go, ProcessObsoleteTasks).               *)
(*                                                                         *)
(* The rollout itself, its monitors and its handovers are those of         *)
(* RolloutDeadline; this module adds the row, what its monitors write, the *)
(* sweep and the client's polls.  A task is leased while it is attended    *)
(* and for some time after (TaskLease).                                    *)
(***************************************************************************)
EXTENDS RolloutDeadline

CONSTANTS
  Stale,         \* age at which the sweep aborts a rollout in progress (1 h)
  SweepInterval, \* between two sweeps (1 h)
  Retention,     \* age past which a finished row is deleted
  RetryInterval, \* what the client sleeps between polls
  MaxTransientRetries,
  RetryTime      \* bound: a transient failure and the sleep after it

(* The longest time from one answer to the next.                            *)
PollSlack == RetryInterval + MaxTransientRetries * RetryTime

ASSUME ClientAssumption ==
  /\ {Stale, SweepInterval, Retention, RetryInterval, MaxTransientRetries, RetryTime}
       \subseteq Nat
  /\ Stale + SweepInterval + PollSlack < Retention

VARIABLES
  row,      \* the status of the task, or "deleted"
  leased,   \* whether the row is under an unexpired lease
  wake,     \* when the client polls next
  retries,  \* transient failures since its last answer
  verdict   \* what it returned: "none" while it waits, a status, "lost" for a
            \* task not found, or "error" if it cannot tell

clientVars == <<wake, retries, verdict>>
allVars == <<vars, row, leased, clientVars>>

Status == {"inProgress", "deployed", "failed", "cancelled", "aborted",
           "appNotFound", "argoUnavailable"}

(* Accepted, and the client told so, or the answer lost: POST is not        *)
(* retried.                                                                 *)
ClientInit ==
  /\ Init
  /\ row = "inProgress" /\ leased = TRUE
  /\ wake = 0 /\ retries = 0
  /\ verdict \in {"none", "error"}

-----------------------------------------------------------------------------
(* Steps of the rollout.                                                    *)

(* A monitor records an outcome: by id, whatever the row says, and to no    *)
(* effect if it is gone.  One that sees that it is superseded records       *)
(* nothing; one that is past its last check overwrites the cancellation.    *)
SetTaskStatus ==
  /\ RolloutEnds
  /\ row' \in CASE row = "deleted"   -> {row}
               [] row = "cancelled" -> Status \ {"inProgress"}
               [] OTHER             -> Status \ {"inProgress", "cancelled"}
  /\ UNCHANGED <<leased, clientVars>>

(* A monitor starts to poll; or it is lost, after which the task waits for  *)
(* another unless its row has left progress.                                *)
Monitored ==
  /\ \/ StartPolling
     \/ row = "inProgress" /\ Abandoned
     \/ row # "inProgress" /\ RolloutEnds
  /\ UNCHANGED <<row, leased, clientVars>>

(* Only a row in progress whose lease has lapsed is claimed.                *)
ClaimExpiredTasks ==
  /\ row = "inProgress" /\ ~leased
  /\ \/ ResumeRollout /\ leased' = TRUE /\ UNCHANGED row
     \/ abortStaleTask /\ row' = "aborted" /\ UNCHANGED leased
  /\ UNCHANGED clientVars

LeaseLapses ==
  /\ leased /\ phase \notin Attended
  /\ leased' = FALSE
  /\ UNCHANGED <<vars, row, clientVars>>

(* A row that leaves progress unattended stays so: its rollout has ended.   *)
EndsIfUnattended ==
  /\ phase' = IF phase = "unattended" THEN "ended" ELSE phase
  /\ UNCHANGED <<now, asked, since, timeout, deadline>>

(* A newer deployment cancels this one.                                     *)
CancelInProgressTasks ==
  /\ row = "inProgress"
  /\ row' = "cancelled"
  /\ EndsIfUnattended
  /\ UNCHANGED <<leased, clientVars>>

-----------------------------------------------------------------------------
(* Faulty variant: the sweep deletes whatever is old and not in progress.  *)
DeletableUnleased(status) == now > Retention /\ status # "inProgress"

(* deleteExpiredTasks spares rows in progress and rows under a lease.       *)
Deletable(status) == now > Retention /\ status # "inProgress" /\ ~leased

(* doProcessPostgresObsoleteTasks: deletes an application that was not      *)
(* found, aborts what is still in progress, and then applies the retention, *)
(* which may meet a row this pass aborted.                                  *)
Swept ==
  LET stale == now > Stale
      aged == IF stale /\ row = "inProgress" THEN "aborted" ELSE row
  IN IF (stale /\ row = "appNotFound") \/ Deletable(aged) THEN "deleted" ELSE aged

ProcessObsoleteTasks ==
  /\ row # "deleted" /\ Swept # row
  /\ row' = Swept
  /\ EndsIfUnattended
  /\ UNCHANGED <<leased, clientVars>>

-----------------------------------------------------------------------------
(* Faulty variant: a status that is neither a failure nor progress passes  *)
(* for success.                                                            *)
OutcomeLenient(status) ==
  CASE status \in {"failed", "cancelled", "appNotFound", "argoUnavailable"} -> status
    [] OTHER -> "deployed"

(* waitForDeployment: what each status makes of the wait, and an error.     *)
Outcome(status) == IF status = "404" THEN "lost" ELSE status

(* What the server answers a poll.                                          *)
Answer == IF row = "deleted" THEN "404" ELSE row

Polling == verdict = "none" /\ now >= wake

(* The poll is answered: the client goes on while in progress, else returns.*)
getTaskStatus ==
  /\ Polling
  /\ retries' = 0
  /\ \/ Answer = "inProgress" /\ wake' = now + RetryInterval /\ UNCHANGED verdict
     \/ Answer # "inProgress" /\ verdict' = Outcome(Answer) /\ UNCHANGED wake
  /\ UNCHANGED <<vars, row, leased>>

(* Faulty variant: retries are not bounded.                                *)
getJSONForever ==
  /\ Polling
  /\ wake' = now + RetryTime
  /\ UNCHANGED <<vars, row, leased, verdict, retries>>

(* A network error or a 5xx is retried, up to a bound.                      *)
getJSON ==
  /\ Polling
  /\ IF retries < MaxTransientRetries
       THEN /\ retries' = retries + 1 /\ wake' = now + RetryTime /\ UNCHANGED verdict
       ELSE verdict' = "error" /\ UNCHANGED <<retries, wake>>
  /\ UNCHANGED <<vars, row, leased>>

(* Time passes, but a poll or a sweep that is due comes first.              *)
Passes ==
  /\ \/ Tick
     \/ phase = "ended" /\ now < MaxTime /\ now' = now + 1
        /\ UNCHANGED <<asked, phase, since, timeout, deadline>>
  /\ verdict = "none" => now < wake
  /\ row = "inProgress" => now < Stale + SweepInterval
  /\ UNCHANGED <<row, leased, clientVars>>

ClientNext ==
  \/ SetTaskStatus \/ Monitored \/ ClaimExpiredTasks \/ LeaseLapses
  \/ CancelInProgressTasks \/ ProcessObsoleteTasks
  \/ getTaskStatus \/ getJSON
  \/ Passes

ClientFairness ==
  /\ WF_allVars(Passes) /\ WF_allVars(ProcessObsoleteTasks)
  /\ WF_allVars(StartPolling /\ Monitored) /\ WF_allVars(SetTaskStatus)
  /\ WF_allVars(ClaimExpiredTasks) /\ WF_allVars(LeaseLapses)
  /\ WF_allVars(getTaskStatus \/ getJSON)

ClientSpec == ClientInit /\ [][ClientNext]_allVars /\ ClientFairness

-----------------------------------------------------------------------------
(* Properties *)

(* The types, and the bounds of the client's retries and of its sleep.      *)
ClientTypeOK ==
  /\ TypeOK
  /\ row \in Status \cup {"deleted"}
  /\ leased \in BOOLEAN
  /\ wake \in 0..(MaxTime + RetryInterval + RetryTime)
  /\ retries \in 0..MaxTransientRetries
  /\ verdict \in (Status \ {"inProgress"}) \cup {"none", "error", "lost"}

(* A rollout whose last moment comes before the staleness window ends.      *)
Short == rolloutWindow(asked) + Delay + Prelude + PollSlack < Stale

(* The sweep judges a rollout by its age alone: it never aborts one that a  *)
(* replica still attends, as long as the window of the task is short enough *)
(* (ProcessObsoleteTasks; StaleTaskAbortReason).                            *)
SweepSparesAttended ==
  [][Short /\ row = "inProgress" /\ row' = "aborted" /\ phase' = phase =>
       phase \notin Attended]_allVars

(* However long its window and however often it was handed over, the row of *)
(* a rollout that is attended is not deleted under its monitor              *)
(* (deleteExpiredTasks: "deleted out from under the replica finishing it"). *)
NeverDeletesAttended == phase \in Attended => row # "deleted"

(* What a client returns for a short rollout is what its row says from then *)
(* on, unless it returned a cancellation, which the outcome of the monitor  *)
(* may still overwrite; and no client is told that its task is not there.   *)
ClientTruthful ==
  Short => /\ verdict # "lost"
           /\ verdict \notin {"none", "error"} =>
                \/ row \in {verdict, "deleted"}
                \/ verdict = "cancelled" /\ row # "inProgress"

(* The wait ends, whatever becomes of the rollout, the server or the        *)
(* network.                                                                 *)
ClientReturns == <>(verdict # "none")
=============================================================================
