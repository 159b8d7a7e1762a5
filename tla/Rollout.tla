------------------------------- MODULE Rollout -------------------------------
(***************************************************************************)
(* The monitors of one deployment, from start to announcement              *)
(* (internal/argocd/argo_status_updater.go, deployment_monitor.go,         *)
(* resume.go and internal/notifications).                                  *)
(*                                                                         *)
(* A monitor checks for supersession, fetches the application, writes the  *)
(* tag back, polls until the rollout is decided, records the outcome and   *)
(* announces it; it stops silently when its claim is lost, and, if it      *)
(* resumed the rollout, when its replica drains.  Who may hold the claim   *)
(* is TaskLease's subject: here a claim may be lost at any moment, also    *)
(* after the last check, and a rollout whose claim nobody has is resumed.  *)
(* RolloutDeadline bounds the time of the polls; here the deadline may     *)
(* pass at any moment, and a monitor polls MaxPolls times.                 *)
(***************************************************************************)
EXTENDS RolloutStatus

CONSTANTS
  Monitor,     \* monitors of the deployment, each on a replica of its own
  Acceptor,    \* the one of the replica that accepted it
  refresh,     \* whether the task has Argo CD refresh the application
  MaxPolls,    \* bound on the polls of a monitor
  Faults       \* what may fail: "read", "write" of the task row

ASSUME RolloutAssumption ==
  /\ Acceptor \in Monitor
  /\ refresh \in BOOLEAN
  /\ MaxPolls \in Nat \ {0}

VARIABLES
  row,      \* the status of the task
  pc,       \* [Monitor -> where it is]
  err,      \* [Monitor -> the error it goes on with]
  local,    \* [Monitor -> its variables: the images it saved, the application it saw
            \* last, whether it validated the desired images, its polls, the
            \* status it ended the rollout with, whether it wrote that, and the
            \* report: the application, its details, the tree and the lines]
  down,     \* [Monitor -> "up", "draining", "closed" (its batcher too)]
  lost,     \* monitors whose claim is lost and that will notice
  late,     \* monitors whose claim was lost after their last check
  ends,     \* the terminal announcements, in order
  overtaken, \* whether the rollout was resumed while a late monitor had yet to
            \* record or to announce its end (history)
  orphaned  \* whether the rollout was ended, unannounced, with nobody left who
            \* is sure to announce it (history)

claims == <<lost, late>>
history == <<overtaken, orphaned>>
vars == <<row, pc, err, local, down, claims, ends, history>>

NoApp == [health |-> "none"]
NoReason == [lines |-> {}]
Fresh == [saved |-> {}, seen |-> NoApp, validated |-> FALSE, polls |-> 0,
          result |-> "none", written |-> FALSE, reason |-> NoReason]

Init ==
  /\ row = "inProgress"
  /\ pc = [m \in Monitor |-> "idle"]
  /\ err = [m \in Monitor |-> "none"]
  /\ local = [m \in Monitor |-> Fresh]
  /\ down = [m \in Monitor |-> "up"]
  /\ lost = {}
  /\ late = {}
  /\ ends = <<>>
  /\ overtaken = FALSE
  /\ orphaned = FALSE

-----------------------------------------------------------------------------
Goes(m, from, to) == pc[m] = from /\ pc' = [pc EXCEPT ![m] = to]
With(m, e) == err' = [err EXCEPT ![m] = e]

(* taskSuperseded: a row that cannot be read counts as not superseded.      *)
SeenSuperseded == row = "cancelled"
SeenInProgress == row # "cancelled" \/ "read" \in Faults

Draining(m) == m # Acceptor /\ down[m] # "up"
Abandoned(m) == m \in lost \/ Draining(m)

(* The answers of a fetch other than an application in any state: Argo CD   *)
(* or a proxy cannot be reached or fails, it does not have the application, *)
(* or else.                                                                 *)
FetchError == {"unavailable", "other", "notFound"}

(* WaitForRollout begins; the start is announced.                           *)
WaitForRollout ==
  /\ Goes(Acceptor, "idle", "check")
  /\ UNCHANGED <<row, err, local, down, claims, ends, history>>

Runs(m) == pc[m] # "done" /\ (pc[m] = "idle" => m = Acceptor)

(* The claim on the task is m's.                                            *)
Claims(m) == Runs(m) /\ m \notin lost \cup late

(* m runs, and is not one that will end silently: it has passed its last    *)
(* check, or will pass it.                                                  *)
Attends(m) == Runs(m) /\ (m \in lost => pc[m] \in {"handle", "finish"})

(* m is sure to announce an end, whatever others do to the row.             *)
Bound(m) == Attends(m) /\ (~Draining(m) \/ pc[m] \in {"handle", "finish"})

(* The rollout has ended and is not announced, and nobody is left who is    *)
(* sure to do it.                                                           *)
NoteOrphaned ==
  orphaned' = (\/ orphaned
               \/ row' # "inProgress" /\ ends' = <<>> /\ ~\E m \in Monitor : Bound(m)')

Unattended(m) ==
  /\ m # Acceptor
  /\ row = "inProgress"
  /\ down[m] = "up"
  /\ \A n \in Monitor : ~Claims(n)

NoteOvertaken == overtaken' = (overtaken \/ late # {})

(* Faulty variant: the abort of an elapsed rollout is not announced.       *)
ResumeRolloutQuietly(m) ==
  /\ Unattended(m)
  /\ \/ Goes(m, "idle", "check") /\ UNCHANGED row
     \/ Goes(m, "idle", "done") /\ row' = "aborted"
  /\ NoteOvertaken
  /\ UNCHANGED <<err, local, down, claims, ends, orphaned>>

(* A sweep of another replica finds the rollout unattended and resumes it,  *)
(* or ends it when its window has elapsed.                                  *)
ResumeRollout(m) ==
  /\ Unattended(m)
  /\ \/ Goes(m, "idle", "check") /\ UNCHANGED err
     \/ Goes(m, "idle", "handle") /\ With(m, "stale")
  /\ NoteOvertaken
  /\ UNCHANGED <<row, local, down, claims, ends, orphaned>>

(* waitForApplicationDeployment: the first check ...                        *)
Check(m) ==
  /\ \/ SeenSuperseded /\ Goes(m, "check", "decide") /\ With(m, "superseded")
     \/ SeenInProgress /\ Goes(m, "check", "confirm") /\ UNCHANGED err
  /\ UNCHANGED <<row, local, down, claims, ends, history>>

(* ... the fetch that confirms the application and saves its images ...     *)
ConfirmApplication(m) ==
  /\ \/ /\ Goes(m, "confirm", "writeBack")
        /\ \E app \in Apps : local' = [local EXCEPT ![m].saved = app.images]
        /\ UNCHANGED err
     \/ /\ Goes(m, "confirm", "decide")
        /\ \E e \in FetchError : With(m, e)
        /\ UNCHANGED local
  /\ UNCHANGED <<row, down, claims, ends, history>>

(* ... and the write-back, if the application asks for one: it succeeds,    *)
(* fails, meets the closed batcher, or is stopped, for the reason that      *)
(* abortedWriteBackCause then finds.                                        *)
UpdateIfNeeded(m) ==
  /\ \/ Goes(m, "writeBack", "poll") /\ UNCHANGED err
     \/ /\ Goes(m, "writeBack", "decide")
        /\ \/ \E e \in {"other", "unavailable"} : With(m, e)
           \/ down[m] = "closed" /\ With(m, "closed")
           \/ SeenSuperseded /\ With(m, "superseded")
           \/ Abandoned(m) /\ SeenInProgress /\ With(m, "lost")
  /\ UNCHANGED <<row, local, down, claims, ends, history>>

(* Faulty variant: a degraded application escapes as an error.             *)
rolloutStateAlreadyObservedButDegraded(e) == e \in {"force", "deadline"}

rolloutStateAlreadyObserved(e) == e \in {"force", "degraded", "deadline"}

(* WaitRollout returns the application it saw last and the error, which it  *)
(* leaves out if it only says that this application's state is the result.  *)
Returns(m, from, l, e) ==
  /\ Goes(m, from, "decide")
  /\ With(m, IF l.seen # NoApp /\ rolloutStateAlreadyObserved(e) THEN "none" ELSE e)
  /\ local' = [local EXCEPT ![m] = [Fresh EXCEPT !.seen = l.seen]]

(* The end of an iteration: final, or retried until the polls run out.      *)
Iterated(m, from, l, e) ==
  LET again == e \in {"force", "unavailable", "other"} /\ l.polls + 1 < MaxPolls IN
  \/ /\ again
     /\ Goes(m, from, "poll")
     /\ local' = [local EXCEPT ![m] = [l EXCEPT !.polls = @ + 1]]
     /\ UNCHANGED err
  \/ ~again /\ Returns(m, from, l, e)

Evaluate(m, app, l) ==
  LET validates == /\ ~l.validated /\ refresh
                   /\ ~app.fireAndForget /\ shouldValidateDesiredImages(app)
  IN \/ ~validates /\ Iterated(m, "poll", l, checkRolloutStatus(app, l.saved))
     \/ /\ validates
        /\ Goes(m, "poll", "validate")
        /\ local' = [local EXCEPT ![m] = [l EXCEPT !.validated = TRUE]]
        /\ UNCHANGED err

(* A poll: the two reasons to stop, then the fetch.  An application that    *)
(* settled without an image has its desired images validated, once.         *)
(* A cancellation between the check and the fetch is one after the poll.    *)
Poll(m) ==
  /\ pc[m] = "poll"
  /\ \/ SeenSuperseded /\ Returns(m, "poll", local[m], "superseded")
     \/ SeenInProgress /\ Abandoned(m) /\ Returns(m, "poll", local[m], "lost")
     \/ /\ SeenInProgress /\ ~Abandoned(m)
        /\ \/ \E e \in FetchError : Iterated(m, "poll", local[m], e)
           \/ \E app \in Apps : Evaluate(m, app, [local[m] EXCEPT !.seen = app])
  /\ UNCHANGED <<row, down, claims, ends, history>>

(* The desired state, read a moment after the application was; anything but *)
(* the proof that an image is missing keeps the polls going.                *)
validateDesiredImages(m) ==
  /\ pc[m] = "validate"
  /\ \/ /\ \E app \in Apps : Absent(local[m].seen, app.desired)
        /\ Iterated(m, "validate", local[m], "image")
     \/ Iterated(m, "validate", local[m], "force")
  /\ UNCHANGED <<row, down, claims, ends, history>>

(* The deadline of the loop passes.                                         *)
Deadline(m) ==
  /\ pc[m] \in {"poll", "validate"}
  /\ Returns(m, pc[m], local[m], "deadline")
  /\ UNCHANGED <<row, down, claims, ends, history>>

(* A monitor that returns leaves nothing behind.                            *)
Ended(m) ==
  /\ local' = [local EXCEPT ![m] = Fresh]
  /\ With(m, "none")
  /\ lost' = lost \ {m}
  /\ late' = late \ {m}
  /\ down' = [down EXCEPT ![m] = "up"]

(* Faulty variant: the claim is not checked again before the outcome.      *)
DecideUnchecked(m) ==
  /\ \/ /\ err[m] # "superseded" /\ Draining(m)
        /\ Goes(m, "decide", "done") /\ Ended(m)
     \/ Goes(m, "decide", "handle") /\ UNCHANGED <<err, local, down, claims>>
  /\ UNCHANGED <<row, ends, history>>

(* Faulty variant: a draining replica goes on to the outcome.              *)
DecideHeedless(m) ==
  LET silent == m \in lost \/ err[m] = "lost" IN
  /\ \/ silent /\ Goes(m, "decide", "done") /\ Ended(m)
     \/ ~silent /\ Goes(m, "decide", "handle") /\ UNCHANGED <<err, local, down, claims>>
  /\ UNCHANGED <<row, ends, history>>

(* Whatever the rollout ended as, a lost claim and, unless superseded, a    *)
(* draining replica end it silently.                                        *)
Decide(m) ==
  LET silent == m \in lost \/ (err[m] # "superseded" /\ (Draining(m) \/ err[m] = "lost")) IN
  /\ \/ silent /\ Goes(m, "decide", "done") /\ Ended(m)
     \/ ~silent /\ Goes(m, "decide", "handle") /\ UNCHANGED <<err, local, down, claims>>
  /\ UNCHANGED <<row, ends, history>>

(* The status each way to end is recorded as, unless it was chosen before.  *)
Result(m) ==
  IF local[m].result # "none" THEN local[m].result ELSE
  CASE err[m] = "superseded"                             -> "cancelled"
    [] err[m] = "none" /\ FinalStatus(local[m].seen) = "success" -> "deployed"
    [] err[m] = "notFound"                               -> "appNotFound"
    [] err[m] \in {"unavailable", "deadline", "stale"}    -> "aborted"
    [] OTHER                                             -> "failed"

(* A failed rollout is reported with the state last seen, and the resource  *)
(* tree if it can be fetched.                                               *)
ReportOf(app, d, tree) ==
  [app |-> app, d |-> d, tree |-> tree, lines |-> GetRolloutMessage(app, d, tree)]
ReportsOn(app) ==
  UNION {{ReportOf(app, d, tree) : tree \in {Tree(d), NoTree}} : d \in Details}

(* A report says what its own monitor saw: when two monitors may end the    *)
(* rollout theirs are left out.                                             *)
Reports(m) ==
  IF late = {} /\ ~overtaken /\ err[m] = "none" /\ Result(m) = "failed"
    THEN ReportsOn(local[m].seen) ELSE {NoReason}

(* The status is chosen: nothing else that m saw matters any more.          *)
Chosen(m, written, reason) ==
  /\ local' = [local EXCEPT ![m] = [Fresh EXCEPT !.result = Result(m), !.written = written,
                                                !.reason = reason]]
  /\ With(m, "none")

(* ProcessDeploymentResult and its siblings write the status; only a        *)
(* superseded task has none to write.  A write that fails is only logged.   *)
SetTaskStatus(m) ==
  /\ Goes(m, "handle", "finish")
  /\ \/ /\ Result(m) = "cancelled" \/ "write" \in Faults
        /\ Chosen(m, Result(m) = "cancelled", NoReason)
        /\ UNCHANGED row
     \/ /\ Result(m) # "cancelled"
        /\ \E r \in Reports(m) : Chosen(m, TRUE, r)
        /\ row' = Result(m)
  /\ UNCHANGED <<down, claims, ends, history>>

(* The outcome is announced.                                                *)
Announce(m) ==
  /\ Goes(m, "finish", "done")
  /\ Ended(m)
  /\ ends' = Append(ends, [status |-> local[m].result, written |-> local[m].written])
  /\ UNCHANGED <<row, history>>

-----------------------------------------------------------------------------
(* The others *)

(* A newer deployment cancels this one (Supersession), or the hourly sweep  *)
(* aborts it; its monitor goes on all the same.                             *)
Supersede ==
  /\ row = "inProgress"
  /\ row' = "cancelled"
  /\ UNCHANGED <<pc, err, local, down, claims, ends, overtaken>>
  /\ NoteOrphaned

ProcessObsoleteTasks ==
  /\ row = "inProgress"
  /\ row' = "aborted"
  /\ UNCHANGED <<pc, err, local, down, claims, ends, overtaken>>
  /\ NoteOrphaned

(* Trouble of a replica, as long as another one can resume the rollout.     *)
Spared(m) == \E n \in Monitor \ {m, Acceptor} : pc[n] = "idle" /\ down[n] = "up"

(* A monitor that loses its claim before its last check changes nothing     *)
(* that others see until it comes to it.                                    *)
LoseClaim(m) ==
  /\ Spared(m) /\ m \notin lost /\ Attends(m) /\ pc[m] \notin {"handle", "finish"}
  /\ lost' = lost \cup {m}
  /\ pc' = [pc EXCEPT ![m] = "decide"]
  /\ local' = [local EXCEPT ![m] = Fresh]
  /\ With(m, "lost")
  /\ down' = [down EXCEPT ![m] = "up"]
  /\ UNCHANGED <<row, late, ends, overtaken>>
  /\ NoteOrphaned

(* One that loses it after that check, while it fetches the resource tree   *)
(* or writes the status, does not notice: it records its end, by the row's  *)
(* id only, and announces it.  Nothing comes of it once the row has ended:  *)
(* then nobody resumes the rollout.                                         *)
OutlivesClaim(m) ==
  /\ row = "inProgress"
  /\ pc[m] \in {"handle", "finish"} /\ m \notin late
  /\ late' = late \cup {m}
  /\ Chosen(m, local[m].written, NoReason)
  /\ down' = [down EXCEPT ![m] = "up"]
  /\ UNCHANGED <<row, pc, lost, ends, history>>

Crash(m) ==
  /\ Spared(m) /\ Attends(m)
  /\ pc' = [pc EXCEPT ![m] = "done"]
  /\ Ended(m)
  /\ UNCHANGED <<row, ends, overtaken>>
  /\ NoteOrphaned

(* A shutdown begins to drain, and then closes the batcher.  A monitor past *)
(* its last check takes no notice of either.                                *)
BeginDraining(m) ==
  /\ Spared(m) /\ down[m] = "up" /\ Attends(m) /\ pc[m] \notin {"handle", "finish"}
  /\ down' = [down EXCEPT ![m] = "draining"]
  /\ UNCHANGED <<row, pc, err, local, claims, ends, overtaken>>
  /\ NoteOrphaned

CloseBatcher(m) ==
  /\ down[m] = "draining" /\ pc[m] \notin {"handle", "finish", "done"}
  /\ down' = [down EXCEPT ![m] = "closed"]
  /\ UNCHANGED <<row, pc, err, local, claims, ends, history>>

Monitors(m) ==
  \/ ResumeRollout(m) \/ Check(m) \/ ConfirmApplication(m) \/ UpdateIfNeeded(m)
  \/ Poll(m) \/ validateDesiredImages(m) \/ Deadline(m)
  \/ Decide(m) \/ SetTaskStatus(m) \/ Announce(m)

Next ==
  \/ WaitForRollout \/ Supersede \/ ProcessObsoleteTasks
  \/ \E m \in Monitor : \/ Monitors(m) \/ LoseClaim(m) \/ OutlivesClaim(m)
                         \/ Crash(m) \/ BeginDraining(m) \/ CloseBatcher(m)

(* A goroutine runs on, and the reaper's ticker finds what it may resume.   *)
Fairness == WF_vars(WaitForRollout) /\ \A m \in Monitor : WF_vars(Monitors(m))

Spec == Init /\ [][Next]_vars /\ Fairness

-----------------------------------------------------------------------------
(* Properties *)

(* What is announced is what stays: once a monitor has announced an end it  *)
(* recorded, or found recorded, no other monitor of the deployment          *)
(* announces another, and the task keeps the status announced.  Unless a    *)
(* monitor whose claim lapsed after its last check was overtaken meanwhile: *)
(* then two of them end the rollout, and the code prevents neither.         *)
AnnouncedOutcome ==
  ~overtaken =>
    \A i \in DOMAIN ends :
      ends[i].written => i = Len(ends) /\ row = ends[i].status

(* A shutdown never fails a rollout another replica will resume: the closed *)
(* batcher of a draining replica is nobody's outcome.                       *)
ShutdownFailsNothing ==
  \A m \in Monitor \ {Acceptor} : err[m] = "closed" => pc[m] \in {"decide", "done"}

(* An error that only steers the polls is never reported as Argo CD's: what *)
(* ends an application that was seen is its state.                          *)
NoSentinelEscapes ==
  \A m \in Monitor :
    pc[m] = "handle" => err[m] \notin {"force", "degraded"}

(* Every rollout is announced in the end, through any lost claims, crashes, *)
(* drains, cancellations and sweeps, unless it had ended, unannounced, at a *)
(* moment when no monitor was left that goes on to its end: none at all, or *)
(* only ones that lost their claim or whose replica drains.                 *)
RolloutAnnounced == <>(ends # <<>> \/ orphaned)

Reason(m) == local[m].reason
Reported(m) == Reason(m) # NoReason

(* The cause is in the report, whatever the rollout failed as: if Argo CD   *)
(* shows the resource tree, each of its unhealthy nodes, and for an         *)
(* application still progressing with its images each node it waits for.    *)
CauseReported ==
  \A m \in Monitor : Reported(m) /\ Reason(m).tree.known =>
    \A n \in Reason(m).tree.nodes :
      \/ isProblemHealthStatus(n.health)
      \/ /\ n.health = "Progressing" /\ Reason(m).app.health = "Progressing"
         /\ GetRolloutStatus(Reason(m).app) # "notSynced"
      => \E line \in Reason(m).lines : line[2] = n.name /\ line[3] = n.health

(* No resource is listed twice by a report that has no resource tree, and   *)
(* none is listed as failed with a word that says it succeeded.             *)
ReportConsistent ==
  \A m \in Monitor : Reported(m) =>
    /\ ~Reason(m).tree.known =>
         \A r \in Reason(m).d.resources :
           ~({"resources", "unhealthyResources"} \subseteq
               {line[1] : line \in {l \in Reason(m).lines : l[2] = r.name}})
    /\ \A line \in Reason(m).lines :
         line[1] = "failedResources" => line[3] \notin {"none", "Synced", "Running", "Succeeded"}

(* A drift is blamed on the live state only if each source is compared at   *)
(* the revision the last sync applied, in whichever fields Argo CD reports  *)
(* the revisions.                                                           *)
DriftIsReal ==
  \A m \in Monitor : Reported(m) => \A line \in Reason(m).lines :
    line[1] = "drift" =>
      (line[3] = "notConverged" <=> Reason(m).d.appliedAt = Reason(m).d.comparedAt)
=============================================================================
