---------------------------- MODULE ClientProofs ----------------------------
(***************************************************************************)
(* Proofs about RolloutDeadline (the window's arithmetic, and the bound on *)
(* what handovers add) and about Client: what the sweep spares, what the   *)
(* retention spares, and what the client is told.                          *)
(***************************************************************************)
EXTENDS Client, TLAPS

(* Whole steps of d in x do not exceed x.                                   *)
LEMMA WholeSteps ==
  ASSUME NEW x \in Nat, NEW d \in Nat \ {0}
  PROVE  /\ x \div d \in Nat
         /\ (x \div d) * d <= x
  OBVIOUS

(* A window is a whole number of polls; that of a positive timeout is the   *)
(* timeout rounded up by at most one poll interval.                         *)
LEMMA WindowBound ==
  ASSUME NEW t \in Int
  PROVE  /\ rolloutWindow(t) \in Nat
         /\ t >= 1 => rolloutWindow(t) <= t + Delay
<1>1. CASE t <= 0
  <2>1. rolloutWindow(t) = DefaultAttempts * Delay
    BY <1>1 DEF rolloutWindow, rolloutAttempts
  <2> QED
    BY <1>1, <2>1, DeadlineAssumption
<1>2. CASE ~(t <= 0)
  <2> DEFINE n == t \div Delay
  <2>1. n \in Nat /\ n * Delay <= t
    BY <1>2, WholeSteps, DeadlineAssumption
  <2>2. rolloutWindow(t) = (n + 1) * Delay
    BY <1>2 DEF rolloutWindow, rolloutAttempts
  <2> HIDE DEF n
  <2>3. (n + 1) * Delay = n * Delay + Delay /\ n * Delay \in Nat
    BY <2>1, DeadlineAssumption
  <2> QED
    BY <2>1, <2>2, <2>3, DeadlineAssumption
<1> QED
  BY <1>1, <1>2

-----------------------------------------------------------------------------
(* The inductive invariant *)

(* A monitor that prepares carries the whole timeout or what its takeover   *)
(* left of the window, and has not prepared for longer than the bound; one  *)
(* that polls has a deadline that already accounts for both.                *)
PreparesInTime ==
  phase = "preparing" =>
    /\ since <= now /\ now <= since + Prelude
    /\ \/ since = 0 /\ timeout = asked
       \/ timeout >= 1 /\ timeout = rolloutWindow(asked) - since

PollsInTime ==
  phase = "polling" =>
    now <= deadline /\ deadline <= rolloutWindow(asked) + Delay + Prelude

DeadlineInv == TypeOK /\ PreparesInTime /\ PollsInTime

LEMMA InitDeadlineInv == Init => DeadlineInv
BY DeadlineAssumption DEF Init, DeadlineInv, TypeOK, Attended, PreparesInTime, PollsInTime

LEMMA StepDeadlineInv == DeadlineInv /\ [Next]_vars => DeadlineInv'
<1> SUFFICES ASSUME DeadlineInv, [Next]_vars PROVE DeadlineInv'
  OBVIOUS
<1> USE DEF DeadlineInv, TypeOK, Attended, PreparesInTime, PollsInTime
<1> DEFINE W == rolloutWindow(asked)
<1>1. W \in Nat
  BY WindowBound
<1>2. CASE StartPolling
  <2>1. /\ rolloutWindow(timeout) \in Nat
        /\ timeout >= 1 => rolloutWindow(timeout) <= timeout + Delay
    BY WindowBound
  <2>2. /\ phase = "preparing" /\ phase' = "polling" /\ now' = now /\ asked' = asked
        /\ deadline' = now + rolloutWindow(timeout)
        /\ since' = since /\ timeout' = timeout
    BY <1>2 DEF StartPolling
  <2>3. now + rolloutWindow(timeout) <= W + Delay + Prelude
    <3>1. CASE since = 0 /\ timeout = asked
      BY <1>1, <2>2, <3>1, DeadlineAssumption
    <3>2. CASE timeout >= 1 /\ timeout = W - since
      <4> HIDE DEF W
      <4> QED
        BY <1>1, <2>1, <2>2, <3>2, DeadlineAssumption
    <3> QED
      BY <2>2, <3>1, <3>2
  <2>4. rolloutWindow(asked)' = W
    BY <2>2 DEF rolloutWindow, rolloutAttempts
  <2> QED
    BY <1>1, <2>1, <2>2, <2>3, <2>4, DeadlineAssumption
<1>3. CASE ResumeRollout
  <2>1. /\ phase' = "preparing" /\ since' = now /\ now' = now /\ asked' = asked
        /\ timeout' = W - now /\ W - now >= 1 /\ deadline' = deadline
    BY <1>3 DEF ResumeRollout, Resumable, remainingWindow
  <2>2. rolloutWindow(asked)' = W
    BY <2>1 DEF rolloutWindow, rolloutAttempts
  <2> QED
    BY <1>1, <2>1, <2>2, DeadlineAssumption
<1>4. CASE RolloutEnds \/ Abandoned \/ abortStaleTask
  BY <1>4 DEF RolloutEnds, Abandoned, abortStaleTask
<1>5. CASE Tick
  <2>1. /\ now' = now + 1 /\ asked' = asked /\ phase' = phase /\ since' = since
        /\ timeout' = timeout /\ deadline' = deadline
        /\ phase = "preparing" => now < since + Prelude
        /\ phase = "polling" => now < deadline
    BY <1>5 DEF Tick
  <2>2. rolloutWindow(asked)' = W
    BY <2>1 DEF rolloutWindow, rolloutAttempts
  <2> QED
    BY <1>1, <2>1, <2>2, DeadlineAssumption
<1>6. CASE UNCHANGED vars
  <2>1. rolloutWindow(asked)' = W
    BY <1>6 DEF vars, rolloutWindow, rolloutAttempts
  <2> QED
    BY <1>6, <2>1 DEF vars
<1> QED
  BY <1>2, <1>3, <1>4, <1>5, <1>6 DEF Next, Sweep

(* Every variable keeps its type: a resumed monitor's timeout included.     *)
THEOREM TypeCorrect == Spec => []TypeOK
<1>1. DeadlineInv => TypeOK
  BY DEF DeadlineInv
<1> QED
  BY <1>1, InitDeadlineInv, StepDeadlineInv, PTL DEF Spec

LEMMA DeadlineKept == DeadlineInv => HandoversKeepDeadline
<1> SUFFICES ASSUME DeadlineInv, phase \in Attended
             PROVE  now <= rolloutWindow(asked) + Delay + Prelude
  BY DEF HandoversKeepDeadline
<1>1. rolloutWindow(asked) \in Nat
  BY WindowBound DEF DeadlineInv, TypeOK
<1>2. CASE phase = "preparing"
  BY <1>1, <1>2, DeadlineAssumption DEF DeadlineInv, TypeOK, PreparesInTime
<1>3. CASE phase = "polling"
  BY <1>1, <1>3, DeadlineAssumption DEF DeadlineInv, TypeOK, PollsInTime
<1> QED
  BY <1>2, <1>3 DEF Attended

(* However often a deployment is handed over, no monitor attends it later   *)
(* than its window, one poll interval and one preparation after it was      *)
(* accepted: remainingWindow measures every takeover from the creation.     *)
THEOREM HandoversBounded == Spec => []HandoversKeepDeadline
BY DeadlineKept, InitDeadlineInv, StepDeadlineInv, PTL DEF Spec

-----------------------------------------------------------------------------
(* The client's inductive invariant *)

LEMMA Numbers ==
  /\ Stale \in Nat /\ SweepInterval \in Nat /\ Retention \in Nat
  /\ RetryInterval \in Nat /\ MaxTransientRetries \in Nat /\ RetryTime \in Nat
  /\ Delay \in Nat /\ Prelude \in Nat /\ MaxTime \in Nat
BY ClientAssumption, DeadlineAssumption

(* What r transient failures cost is part of what all of them may.          *)
LEMMA Retried ==
  ASSUME NEW r \in 0..MaxTransientRetries
  PROVE  /\ r * RetryTime \in Nat
         /\ MaxTransientRetries * RetryTime \in Nat
         /\ r * RetryTime <= MaxTransientRetries * RetryTime
         /\ (r + 1) * RetryTime = r * RetryTime + RetryTime
BY Numbers

LastMoment == rolloutWindow(asked) + Delay + Prelude

(* A row that is attended is under a lease, and is at most cancelled or     *)
(* aborted; one that waits for a monitor is in progress.                    *)
Leases ==
  /\ phase \in Attended => leased /\ row \in {"inProgress", "cancelled", "aborted"}
  /\ phase = "unattended" => row = "inProgress"
  /\ row = "inProgress" => now <= Stale + SweepInterval

(* A short rollout is not aborted while it is attended.                     *)
Spared == Short /\ phase \in Attended => row # "aborted"

(* A client polls within its slack of the last time it saw the rollout in   *)
(* progress, which is before the row may be gone.                           *)
Waits ==
  verdict = "none" =>
    /\ now <= wake
    /\ wake <= now + RetryInterval + retries * RetryTime
    /\ wake <= Stale + SweepInterval + RetryInterval + retries * RetryTime
    /\ row = "appNotFound" => wake <= LastMoment + RetryInterval + retries * RetryTime
    /\ Short => row # "deleted"

ClientInv ==
  /\ DeadlineInv /\ now <= MaxTime
  /\ ClientTypeOK /\ Leases /\ Spared /\ Waits /\ ClientTruthful

LEMMA InitClientInv == ClientInit => ClientInv
<1> SUFFICES ASSUME ClientInit PROVE ClientInv
  OBVIOUS
<1>1. DeadlineInv
  BY InitDeadlineInv DEF ClientInit
<1>2. /\ now = 0 /\ wake = 0 /\ retries = 0 /\ row = "inProgress"
      /\ verdict \in {"none", "error"} /\ phase = "preparing"
  BY DEF ClientInit, Init
<1>6. leased /\ leased \in BOOLEAN
  BY Zenon DEF ClientInit
<1>3. 0 * RetryTime = 0
  BY Numbers
<1>4. ClientTypeOK /\ now <= MaxTime
  <2>1. wake \in 0..(MaxTime + RetryInterval + RetryTime) /\ retries \in 0..MaxTransientRetries
    BY <1>2, Numbers
  <2> QED
    BY <1>1, <1>2, <1>6, <2>1, Numbers DEF ClientTypeOK, DeadlineInv, Status
<1>5. Leases /\ Spared
  BY <1>2, <1>6, Numbers DEF Leases, Spared, Attended
<1>7. Waits /\ ClientTruthful
  BY <1>2, <1>3, Numbers DEF Waits, ClientTruthful
<1> QED
  BY <1>1, <1>4, <1>5, <1>7 DEF ClientInv

(* The window of a task is the same after every step.                       *)
LEMMA SameWindow ==
  ASSUME [ClientNext]_allVars
  PROVE  /\ asked' = asked /\ rolloutWindow(asked)' = rolloutWindow(asked)
         /\ LastMoment' = LastMoment /\ Short' = Short
<1>1. asked' = asked
  BY DEF ClientNext, SetTaskStatus, Monitored, ClaimExpiredTasks, LeaseLapses,
         CancelInProgressTasks, ProcessObsoleteTasks, EndsIfUnattended, getTaskStatus, getJSON,
         Passes, StartPolling, RolloutEnds, Abandoned, ResumeRollout, abortStaleTask, Tick,
         vars, allVars
<1> QED
  BY <1>1 DEF rolloutWindow, rolloutAttempts, LastMoment, Short

(* To the rollout, a step of Client is a step of RolloutDeadline, or the    *)
(* end of a rollout nobody attends, or time after its end.                  *)
LEMMA ClientDeadline ==
  ASSUME ClientInv, [ClientNext]_allVars
  PROVE  DeadlineInv' /\ (now <= MaxTime)'
<1> USE DEF ClientInv
<1>1. ASSUME [Next]_vars PROVE DeadlineInv' /\ (now <= MaxTime)'
  <2>1. DeadlineInv'
    BY <1>1, StepDeadlineInv
  <2>2. now' = now \/ (now < MaxTime /\ now' = now + 1)
    BY <1>1 DEF Next, Sweep, StartPolling, RolloutEnds, Abandoned, ResumeRollout,
                abortStaleTask, Tick, vars
  <2> QED
    BY <2>1, <2>2, Numbers DEF DeadlineInv, TypeOK
<1>2. ASSUME EndsIfUnattended PROVE DeadlineInv' /\ (now <= MaxTime)'
  <2>1. rolloutWindow(asked)' = rolloutWindow(asked)
    BY <1>2 DEF EndsIfUnattended, rolloutWindow, rolloutAttempts
  <2> QED
    BY <1>2, <2>1
    DEF EndsIfUnattended, DeadlineInv, TypeOK, PreparesInTime, PollsInTime, Attended
<1>3. ASSUME phase = "ended", now < MaxTime, now' = now + 1,
             UNCHANGED <<asked, phase, since, timeout, deadline>>
      PROVE  DeadlineInv' /\ (now <= MaxTime)'
  BY <1>3, Numbers DEF DeadlineInv, TypeOK, PreparesInTime, PollsInTime, Attended
<1> QED
  BY <1>1, <1>2, <1>3
  DEF ClientNext, SetTaskStatus, Monitored, ClaimExpiredTasks, LeaseLapses,
      CancelInProgressTasks, ProcessObsoleteTasks, getTaskStatus, getJSON, Passes, Next, Sweep,
      allVars

(* An attended short rollout is younger than the sweep's threshold.         *)
LEMMA Young ==
  ASSUME ClientInv, phase \in Attended
  PROVE  /\ now \in Nat /\ LastMoment \in Nat /\ now <= LastMoment
         /\ Short => now <= Stale
<1>1. now \in Nat /\ asked \in Int /\ now <= LastMoment
  BY DeadlineKept DEF ClientInv, DeadlineInv, TypeOK, HandoversKeepDeadline, LastMoment
<1>2. rolloutWindow(asked) \in Nat
  BY <1>1, WindowBound
<1>3. PollSlack \in Nat
  BY Retried, Numbers DEF PollSlack
<1> QED
  BY <1>1, <1>2, <1>3, Numbers DEF LastMoment, Short

(* What the client and the clock do not change is not at stake in most      *)
(* steps: the row and the phase alone decide.                               *)
LEMMA RowStep ==
  ASSUME ClientInv, [ClientNext]_allVars, UNCHANGED <<now, clientVars>>,
         row' \in Status \cup {"deleted"}, leased' \in BOOLEAN, Leases', Spared',
         verdict = "none" =>
           /\ row' = "appNotFound" => wake <= LastMoment + RetryInterval + retries * RetryTime
           /\ Short => row' # "deleted",
         Short /\ verdict \notin {"none", "error"} =>
           \/ row' \in {verdict, "deleted"}
           \/ verdict = "cancelled" /\ row' # "inProgress"
  PROVE  ClientInv'
<1>1. DeadlineInv' /\ (now <= MaxTime)' /\ LastMoment' = LastMoment /\ Short' = Short
  BY ClientDeadline, SameWindow
<1>2. ClientTypeOK'
  BY <1>1 DEF ClientInv, ClientTypeOK, DeadlineInv, clientVars
<1>3. Waits'
  BY <1>1 DEF ClientInv, Waits, clientVars
<1>4. ClientTruthful'
  BY <1>1 DEF ClientInv, ClientTruthful, clientVars
<1> QED
  BY <1>1, <1>2, <1>3, <1>4 DEF ClientInv

LEMMA SetTaskStatusInv ==
  ASSUME ClientInv, SetTaskStatus PROVE ClientInv'
<1>1. phase \in Attended /\ phase' = "ended" /\ UNCHANGED <<now, asked, leased, clientVars>>
  BY DEF SetTaskStatus, RolloutEnds
<1>2. row \in {"inProgress", "cancelled", "aborted"} /\ (Short => row # "aborted")
  BY <1>1 DEF ClientInv, Leases, Spared
<1>3. /\ row' \in Status \ {"inProgress"}
      /\ row' = "cancelled" => row = "cancelled"
  BY <1>2 DEF SetTaskStatus, Status
<1>4. Leases' /\ Spared'
  BY <1>1, <1>3 DEF Leases, Spared, Attended
<1>5. verdict = "none" => wake <= LastMoment + RetryInterval + retries * RetryTime
  <2>1. now \in Nat /\ LastMoment \in Nat /\ now <= LastMoment
    BY <1>1, Young
  <2>2. retries * RetryTime \in Nat /\ wake \in Nat
    BY Retried, Numbers DEF ClientInv, ClientTypeOK
  <2> QED
    BY <2>1, <2>2, Numbers DEF ClientInv, Waits
<1>6. Short /\ verdict \notin {"none", "error"} => verdict = "cancelled" /\ row' # "inProgress"
  BY <1>2, <1>3 DEF ClientInv, ClientTruthful, ClientTypeOK
<1>7. leased \in BOOLEAN /\ row' # "deleted"
  BY <1>3 DEF ClientInv, ClientTypeOK, Status
<1> QED
  BY <1>1, <1>3, <1>4, <1>5, <1>6, <1>7, RowStep DEF ClientNext

LEMMA MonitoredInv ==
  ASSUME ClientInv, Monitored PROVE ClientInv'
<1>1. UNCHANGED <<now, row, leased, clientVars>>
  BY DEF Monitored, StartPolling, Abandoned, RolloutEnds
<1>2. \/ phase \in Attended /\ phase' \in {"polling", "ended"}
      \/ row = "inProgress" /\ phase' = "unattended"
  BY DEF Monitored, StartPolling, Abandoned, RolloutEnds, Attended
<1>3. Short' = Short
  BY SameWindow DEF ClientNext
<1>4. Leases' /\ Spared'
  BY <1>1, <1>2, <1>3 DEF ClientInv, Leases, Spared, Attended
<1> QED
  BY <1>1, <1>4, RowStep
  DEF ClientNext, ClientInv, ClientTypeOK, Waits, ClientTruthful

LEMMA ClaimInv ==
  ASSUME ClientInv, ClaimExpiredTasks PROVE ClientInv'
<1>1. UNCHANGED <<now, clientVars>> /\ row = "inProgress" /\ phase = "unattended"
  BY DEF ClaimExpiredTasks, ResumeRollout, abortStaleTask
<1>2. \/ phase' = "preparing" /\ leased' /\ leased' \in BOOLEAN /\ row' = row
      \/ phase' = "ended" /\ leased' = leased /\ row' = "aborted"
  <2>1. CASE ResumeRollout /\ leased' = TRUE /\ UNCHANGED row
    <3>1. phase' = "preparing"
      BY <2>1 DEF ResumeRollout
    <3> QED
      BY <2>1, <3>1, Zenon
  <2>2. CASE abortStaleTask /\ row' = "aborted" /\ UNCHANGED leased
    BY <2>2 DEF abortStaleTask
  <2> QED
    BY <2>1, <2>2 DEF ClaimExpiredTasks
<1>3. leased \in BOOLEAN
  BY DEF ClientInv, ClientTypeOK
<1>4. Leases' /\ Spared'
  BY <1>1, <1>2 DEF ClientInv, Leases, Spared, Attended
<1>5. verdict \in {"none", "error"} \/ ~Short
  BY <1>1 DEF ClientInv, ClientTruthful, ClientTypeOK
<1>6. row' \in {"inProgress", "aborted"} /\ leased' \in BOOLEAN
  BY <1>1, <1>2, <1>3
<1> QED
  BY <1>1, <1>4, <1>5, <1>6, RowStep DEF ClientNext, Status

LEMMA LapseInv ==
  ASSUME ClientInv, LeaseLapses PROVE ClientInv'
<1>1. UNCHANGED <<now, row, phase, clientVars>> /\ phase \notin Attended /\ leased' \in BOOLEAN
  BY DEF LeaseLapses, vars
<1>2. Leases' /\ Spared'
  BY <1>1 DEF ClientInv, Leases, Spared
<1> QED
  BY <1>1, <1>2, RowStep DEF ClientNext, ClientInv, ClientTypeOK, Waits, ClientTruthful

LEMMA CancelInv ==
  ASSUME ClientInv, CancelInProgressTasks PROVE ClientInv'
<1>1. /\ UNCHANGED <<now, leased, clientVars>> /\ row = "inProgress" /\ row' = "cancelled"
      /\ phase' = IF phase = "unattended" THEN "ended" ELSE phase
  BY DEF CancelInProgressTasks, EndsIfUnattended
<1>2. Leases' /\ Spared'
  BY <1>1 DEF ClientInv, Leases, Spared, Attended, DeadlineInv, TypeOK
<1>3. verdict \in {"none", "error"} \/ ~Short
  BY <1>1 DEF ClientInv, ClientTruthful, ClientTypeOK
<1> QED
  BY <1>1, <1>2, <1>3, RowStep DEF ClientNext, ClientInv, ClientTypeOK, Status

(* The sweep aborts no attended short rollout, and deletes nothing that a   *)
(* client still waits for.                                                  *)
LEMMA SweepInv ==
  ASSUME ClientInv, ProcessObsoleteTasks PROVE ClientInv'
<1>1. /\ UNCHANGED <<now, leased, clientVars>> /\ row \in Status
      /\ phase' = IF phase = "unattended" THEN "ended" ELSE phase
  BY DEF ProcessObsoleteTasks, EndsIfUnattended, ClientInv, ClientTypeOK
<1>2. \/ row = "inProgress" /\ row' = "aborted" /\ now > Stale
      \/ row = "inProgress" /\ row' = "deleted" /\ now > Stale /\ now > Retention /\ ~leased
      \/ row = "appNotFound" /\ row' = "deleted" /\ now > Stale
      \/ row # "inProgress" /\ row' = "deleted" /\ now > Retention /\ ~leased
  BY <1>1 DEF ProcessObsoleteTasks, Swept, Deletable
<1>3. now \in Nat /\ wake \in Nat /\ retries \in 0..MaxTransientRetries
  BY Numbers DEF ClientInv, ClientTypeOK, DeadlineInv, TypeOK
<1>4. /\ retries * RetryTime \in Nat /\ MaxTransientRetries * RetryTime \in Nat
      /\ retries * RetryTime <= MaxTransientRetries * RetryTime
  BY <1>3, Retried
<1>5. verdict = "none" => now <= Retention
  BY <1>3, <1>4, Numbers, ClientAssumption DEF ClientInv, Waits, PollSlack
<1>6. verdict = "none" /\ Short /\ row = "appNotFound" => now <= Stale
  <2>1. LastMoment \in Nat
    BY WindowBound, Numbers DEF LastMoment, ClientInv, DeadlineInv, TypeOK
  <2> QED
    BY <1>3, <1>4, <2>1, Numbers DEF ClientInv, Waits, Short, LastMoment, PollSlack
<1>7. phase \in Attended =>
        leased /\ row \in {"inProgress", "cancelled", "aborted"} /\ (Short => now <= Stale)
  BY Young DEF ClientInv, Leases
<1>8. Short' = Short
  BY SameWindow DEF ClientNext
<1>9. phase \in Attended => ~Short /\ row' = "aborted"
  BY <1>2, <1>3, <1>7, Numbers
<1>10. phase' \in Attended => phase \in Attended /\ leased'
  <2>1. leased' = leased
    BY <1>1
  <2> QED
    BY <1>1, <1>7, <2>1 DEF Attended
<1>11. phase' # "unattended" /\ row' \in {"aborted", "deleted"}
  BY <1>1, <1>2
<1>12. Leases' /\ Spared'
  BY <1>8, <1>9, <1>10, <1>11 DEF Leases, Spared
<1>13. verdict = "none" => (Short => row' # "deleted")
  BY <1>2, <1>3, <1>5, <1>6, Numbers
<1>14. Short /\ verdict \notin {"none", "error"} =>
         \/ row' \in {verdict, "deleted"}
         \/ verdict = "cancelled" /\ row' # "inProgress"
  BY <1>2 DEF ClientInv, ClientTruthful, ClientTypeOK
<1> QED
  BY <1>1, <1>11, <1>12, <1>13, <1>14, RowStep DEF ClientNext, ClientInv, ClientTypeOK, Status

-----------------------------------------------------------------------------
(* Steps of the client and of the clock *)

LEMMA PollInv ==
  ASSUME ClientInv, getTaskStatus PROVE ClientInv'
<1>1. /\ UNCHANGED <<now, row, leased, phase>> /\ verdict = "none" /\ retries' = 0
      /\ \/ row = "inProgress" /\ wake' = now + RetryInterval /\ verdict' = verdict
         \/ row # "inProgress" /\ verdict' = Outcome(Answer) /\ wake' = wake
  BY DEF getTaskStatus, Polling, Answer, vars
<1>2. DeadlineInv' /\ (now <= MaxTime)' /\ LastMoment' = LastMoment /\ Short' = Short
  BY ClientDeadline, SameWindow DEF ClientNext
<1>3. /\ now \in Nat /\ now <= MaxTime /\ row \in Status \cup {"deleted"}
      /\ wake \in 0..(MaxTime + RetryInterval + RetryTime) /\ leased \in BOOLEAN
  BY DEF ClientInv, ClientTypeOK, DeadlineInv, TypeOK
<1>4. Outcome(Answer) = IF row = "deleted" THEN "lost" ELSE row
  BY <1>3 DEF Outcome, Answer, Status
<1>5. Leases' /\ Spared'
  BY <1>1, <1>2 DEF ClientInv, Leases, Spared
<1>6. ClientTypeOK'
  <2>1. wake' \in 0..(MaxTime + RetryInterval + RetryTime)
    BY <1>1, <1>3, Numbers
  <2>2. verdict' \in (Status \ {"inProgress"}) \cup {"none", "error", "lost"}
    BY <1>1, <1>3, <1>4
  <2>3. 0 \in 0..MaxTransientRetries
    BY Numbers
  <2> QED
    BY <1>1, <1>2, <1>3, <2>1, <2>2, <2>3 DEF ClientTypeOK, DeadlineInv
<1>7. Waits'
  <2>1. 0 * RetryTime = 0
    BY Numbers
  <2>2. CASE row = "inProgress"
    <3>1. now <= Stale + SweepInterval
      BY <2>2 DEF ClientInv, Leases
    <3> QED
      BY <1>1, <1>2, <1>3, <2>1, <2>2, <3>1, Numbers DEF Waits
  <2>3. CASE row # "inProgress"
    BY <1>1, <1>3, <1>4, <2>3 DEF Waits, Status
  <2> QED
    BY <2>2, <2>3
<1>8. ClientTruthful'
  <2>1. Short => row # "deleted"
    BY <1>1 DEF ClientInv, Waits
  <2> QED
    BY <1>1, <1>2, <1>3, <1>4, <2>1 DEF ClientTruthful, Status
<1> QED
  BY <1>2, <1>5, <1>6, <1>7, <1>8 DEF ClientInv

LEMMA RetryInv ==
  ASSUME ClientInv, getJSON PROVE ClientInv'
<1>1. /\ UNCHANGED <<now, row, leased, phase>> /\ verdict = "none" /\ now >= wake
      /\ \/ /\ retries < MaxTransientRetries /\ retries' = retries + 1
            /\ wake' = now + RetryTime /\ verdict' = verdict
         \/ verdict' = "error" /\ retries' = retries /\ wake' = wake
  BY DEF getJSON, Polling, vars
<1>2. DeadlineInv' /\ (now <= MaxTime)' /\ LastMoment' = LastMoment /\ Short' = Short
  BY ClientDeadline, SameWindow DEF ClientNext
<1>3. /\ now \in Nat /\ now <= MaxTime /\ wake \in Nat /\ retries \in 0..MaxTransientRetries
      /\ wake \in 0..(MaxTime + RetryInterval + RetryTime)
  BY Numbers DEF ClientInv, ClientTypeOK, DeadlineInv, TypeOK
<1>4. Leases' /\ Spared'
  BY <1>1, <1>2 DEF ClientInv, Leases, Spared
<1>5. ClientTypeOK'
  <2>1. wake' \in 0..(MaxTime + RetryInterval + RetryTime) /\ retries' \in 0..MaxTransientRetries
    BY <1>1, <1>3, Numbers
  <2> QED
    BY <1>1, <1>2, <2>1 DEF ClientInv, ClientTypeOK, DeadlineInv
<1>6. Waits'
  <2> SUFFICES ASSUME verdict' = "none" PROVE Waits'
    BY DEF Waits
  <2>1. retries' = retries + 1 /\ wake' = wake + RetryTime /\ now = wake
    BY <1>1, <1>3 DEF ClientInv, Waits
  <2>2. retries' * RetryTime = retries * RetryTime + RetryTime /\ retries * RetryTime \in Nat
    BY <1>3, <2>1, Retried
  <2>3. LastMoment \in Nat
    BY WindowBound, Numbers DEF LastMoment, ClientInv, DeadlineInv, TypeOK
  <2> QED
    BY <1>1, <1>2, <1>3, <2>1, <2>2, <2>3, Numbers DEF ClientInv, Waits
<1>7. ClientTruthful'
  BY <1>1, <1>2 DEF ClientInv, ClientTruthful
<1> QED
  BY <1>2, <1>4, <1>5, <1>6, <1>7 DEF ClientInv

LEMMA PassesInv ==
  ASSUME ClientInv, Passes PROVE ClientInv'
<1>1. /\ now' = now + 1 /\ UNCHANGED <<row, leased, phase, wake, retries, verdict>>
      /\ verdict = "none" => now < wake
      /\ row = "inProgress" => now < Stale + SweepInterval
  BY DEF Passes, Tick, clientVars
<1>2. DeadlineInv' /\ (now <= MaxTime)' /\ LastMoment' = LastMoment /\ Short' = Short
  BY ClientDeadline, SameWindow DEF ClientNext
<1>3. now \in Nat /\ wake \in Nat /\ retries * RetryTime \in Nat
  BY Retried, Numbers DEF ClientInv, ClientTypeOK, DeadlineInv, TypeOK
<1>4. Leases' /\ Spared'
  BY <1>1, <1>2, <1>3, Numbers DEF ClientInv, Leases, Spared
<1>5. ClientTypeOK'
  BY <1>1, <1>2 DEF ClientInv, ClientTypeOK, DeadlineInv
<1>6. Waits'
  BY <1>1, <1>2, <1>3, Numbers DEF ClientInv, Waits
<1>7. ClientTruthful'
  BY <1>1, <1>2 DEF ClientInv, ClientTruthful
<1> QED
  BY <1>2, <1>4, <1>5, <1>6, <1>7 DEF ClientInv

LEMMA StepClientInv == ClientInv /\ [ClientNext]_allVars => ClientInv'
<1> SUFFICES ASSUME ClientInv, [ClientNext]_allVars PROVE ClientInv'
  OBVIOUS
<1>1. CASE UNCHANGED allVars
  <2>1. DeadlineInv' /\ LastMoment' = LastMoment /\ Short' = Short
    BY ClientDeadline, SameWindow
  <2> QED
    BY <1>1, <2>1
    DEF allVars, vars, clientVars, ClientInv, ClientTypeOK, DeadlineInv, Leases, Spared, Waits,
        ClientTruthful
<1> QED
  BY <1>1, SetTaskStatusInv, MonitoredInv, ClaimInv, LapseInv, CancelInv, SweepInv, PollInv,
     RetryInv, PassesInv DEF ClientNext

-----------------------------------------------------------------------------
(* Theorems *)

(* The types of Client, and the bound of the client's retries and sleeps.   *)
THEOREM ClientTypeCorrect == ClientSpec => []ClientTypeOK
<1>1. ClientInv => ClientTypeOK
  BY DEF ClientInv
<1> QED
  BY <1>1, InitClientInv, StepClientInv, PTL DEF ClientSpec

(* For every window, however long: retention never deletes the row of a     *)
(* rollout that is attended.                                                *)
THEOREM AttendedNotDeleted == ClientSpec => []NeverDeletesAttended
<1>1. ClientInv => NeverDeletesAttended
  BY DEF ClientInv, Leases, NeverDeletesAttended
<1> QED
  BY <1>1, InitClientInv, StepClientInv, PTL DEF ClientSpec

(* For every window that fits in the staleness threshold, no sweep aborts a *)
(* rollout that is attended, after any number of handovers.                 *)
THEOREM AttendedSpared == ClientSpec => SweepSparesAttended
<1>1. ASSUME ClientInv, [ClientNext]_allVars, Short, row = "inProgress", row' = "aborted",
             phase' = phase, phase \in Attended
      PROVE  FALSE
  <2>1. phase' \in Attended /\ Short'
    BY <1>1, SameWindow
  <2>2. Spared'
    BY <1>1, StepClientInv DEF ClientInv
  <2> QED
    BY <1>1, <2>1, <2>2 DEF Spared
<1>2. ClientInv /\ [ClientNext]_allVars =>
        [Short /\ row = "inProgress" /\ row' = "aborted" /\ phase' = phase =>
           phase \notin Attended]_allVars
  BY <1>1
<1> QED
  BY <1>2, InitClientInv, StepClientInv, PTL DEF ClientSpec, SweepSparesAttended

(* For every such window the client is told what the row says from then on, *)
(* whatever fails on the way, and never that its task is not there.         *)
THEOREM ClientToldTruth == ClientSpec => []ClientTruthful
<1>1. ClientInv => ClientTruthful
  BY DEF ClientInv
<1> QED
  BY <1>1, InitClientInv, StepClientInv, PTL DEF ClientSpec
=============================================================================
