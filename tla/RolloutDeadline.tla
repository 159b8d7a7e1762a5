--------------------------- MODULE RolloutDeadline ---------------------------
(***************************************************************************)
(* The time a deployment is given, across any number of handovers.         *)
(*                                                                         *)
(* A monitor prepares (first fetch, git write-back) and then polls until   *)
(* its deadline, a whole number of poll intervals.  A task whose monitor   *)
(* is lost is resumed with what is left of its window, measured from its   *)
(* creation, or aborted if nothing is left.  The module follows            *)
(* internal/argocd/deployment_monitor.go (configureRetryOptions,           *)
(* rolloutAttempts, rolloutWindow, WaitRollout) and                        *)
(* internal/argocd/resume.go.  Who may resume a task: TaskLease.           *)
(*                                                                         *)
(* Time is in whole seconds since the task was created.                    *)
(***************************************************************************)
EXTENDS Integers

CONSTANTS
  Timeouts,        \* what a submission may ask for
  Delay,           \* the poll interval
  DefaultAttempts, \* polls of a task that carries no timeout
  Prelude,         \* bound: the first fetch and the write-back
  MaxTime          \* bound on the clock

ASSUME DeadlineAssumption ==
  /\ Timeouts \subseteq Int
  /\ Delay \in Nat \ {0}
  /\ DefaultAttempts \in Nat \ {0}
  /\ Prelude \in Nat
  /\ MaxTime \in Nat

VARIABLES
  now,
  asked,    \* tasks.timeout, the row's
  phase,    \* what happens to the task
  since,    \* when its monitor started
  timeout,  \* the timeout in the monitor's copy of the task
  deadline  \* of the poll loop's context

vars == <<now, asked, phase, since, timeout, deadline>>

Attended == {"preparing", "polling"}

TypeOK ==
  /\ now \in Nat
  /\ asked \in Int
  /\ phase \in Attended \cup {"unattended", "ended"}
  /\ since \in Nat
  /\ timeout \in Int
  /\ deadline \in Nat

Init ==
  /\ now = 0
  /\ phase = "preparing"
  /\ since = 0
  /\ asked \in Timeouts
  /\ timeout = asked
  /\ deadline = 0

-----------------------------------------------------------------------------

(* The polls a timeout pays for; one that is not positive reads as "no      *)
(* timeout of its own".                                                     *)
rolloutAttempts(t) == IF t <= 0 THEN DefaultAttempts ELSE t \div Delay + 1

rolloutWindow(t) == rolloutAttempts(t) * Delay

(* Faulty variant of remainingWindow: measured from the takeover.           *)
remainingWindowAfresh == rolloutWindow(asked)

remainingWindow == rolloutWindow(asked) - now

(* Faulty variant of Resumable: a remainder of zero is handed on.           *)
ResumableAtZero == remainingWindow >= 0

Resumable == remainingWindow >= 1

StartPolling ==
  /\ phase = "preparing"
  /\ phase' = "polling"
  /\ deadline' = now + rolloutWindow(timeout)
  /\ UNCHANGED <<now, asked, since, timeout>>

(* The monitor records an outcome, or the task is superseded.               *)
RolloutEnds ==
  /\ phase \in Attended
  /\ phase' = "ended"
  /\ UNCHANGED <<now, asked, since, timeout, deadline>>

(* The monitor's replica crashes or drains, or it loses its claim.          *)
Abandoned ==
  /\ phase \in Attended
  /\ phase' = "unattended"
  /\ UNCHANGED <<now, asked, since, timeout, deadline>>

ResumeRollout ==
  /\ phase = "unattended"
  /\ Resumable
  /\ phase' = "preparing"
  /\ since' = now
  /\ timeout' = remainingWindow
  /\ UNCHANGED <<now, asked, deadline>>

abortStaleTask ==
  /\ phase = "unattended"
  /\ ~Resumable
  /\ phase' = "ended"
  /\ UNCHANGED <<now, asked, since, timeout, deadline>>

Tick ==
  /\ now < MaxTime
  /\ phase # "ended"
  /\ phase = "preparing" => now < since + Prelude
  /\ phase = "polling" => now < deadline
  /\ now' = now + 1
  /\ UNCHANGED <<asked, phase, since, timeout, deadline>>

Sweep == ResumeRollout \/ abortStaleTask

Next == StartPolling \/ RolloutEnds \/ Abandoned \/ Sweep \/ Tick

Spec == Init /\ [][Next]_vars

-----------------------------------------------------------------------------
(* Properties *)

(* No number of handovers keeps a deployment going for longer than its      *)
(* window, one poll interval, and the time its last monitor took before it  *)
(* polled.                                                                  *)
HandoversKeepDeadline ==
  phase \in Attended => now <= rolloutWindow(asked) + Delay + Prelude
=============================================================================
