----------------------------- MODULE Supersession -----------------------------
(***************************************************************************)
(* A newer deployment supersedes the older ones of the same images, and    *)
(* its tag must be the one that stays in the GitOps repository.            *)
(*                                                                         *)
(* The accept path (Argo.AddTask) cancels the rows it supersedes, with a   *)
(* query and an update, and inserts its own; the goroutine it starts       *)
(* checks for a cancellation before each write-back attempt and each poll. *)
(* Nothing else keeps deployments apart but the per-repository lock and    *)
(* git's refusal of a push that is not a fast-forward.                     *)
(*                                                                         *)
(* The module follows internal/argocd/argo.go (AddTask),                   *)
(* internal/state/postgres_state.go, internal/argocd/git_updater.go,       *)
(* internal/argocd/git_writeback.go and internal/argocd/                   *)
(* argo_status_updater.go.  One repository branch; every application is    *)
(* managed by the watcher and has an override file of its own.             *)
(***************************************************************************)
EXTENDS Naturals, FiniteSets

CONSTANTS
  Deploy,       \* deployment requests; each asks for a tag of its own
  App, Image,
  AppOf,        \* [Deploy -> App]
  ImagesOf,     \* [Deploy -> SUBSET Image], image names, tags left out
  Validated,    \* the requests that presented a valid credential
  MaxAttempts,  \* GIT_MAX_ATTEMPTS
  Faults,       \* what may fail: see Fault
  MaxCrashes,   \* bound on the replicas lost
  NoDeploy

Fault == {"cancel", "insert", "read", "record", "git", "lock"}

ASSUME SupersessionAssumption ==
  /\ AppOf \in [Deploy -> App]
  /\ ImagesOf \in [Deploy -> SUBSET Image]
  /\ Validated \subseteq Deploy
  /\ MaxAttempts \in Nat \ {0}
  /\ Faults \subseteq Fault
  /\ MaxCrashes \in Nat
  /\ NoDeploy \notin Deploy

VARIABLES
  stage,      \* [Deploy -> Stage], the request's or its goroutine's control point
  found,      \* [Deploy -> SUBSET Deploy], the rows the first query returned
  status,     \* [Deploy -> Status], tasks.status
  lock,       \* the holder of the repository's advisory lock
  attempt,    \* [Deploy -> Nat], failed write-back attempts
  fresh,      \* deployments whose clone is at the branch's tip
  git,        \* [App -> [Image -> deployment whose tag the branch holds]]
  crashes,    \* replicas lost so far
  cancelledBy,\* [Deploy -> who cancelled the row first, or NoDeploy] (history)
  replacedBy  \* [Deploy -> rows inserted after the cancellation] (history)

rowVars == <<found, status, cancelledBy, replacedBy>>
gitVars == <<lock, attempt, fresh, git>>
vars == <<stage, rowVars, gitVars, crashes>>

Status == {"none", "in progress", "cancelled", "final"}
Locked == {"attempting", "cloning", "pushing"}
Stage == {"new", "cancelling", "adding", "refused", "monitored", "waiting",
          "polling", "deciding", "ended", "orphaned"} \cup Locked

TypeOK ==
  /\ stage \in [Deploy -> Stage]
  /\ found \in [Deploy -> SUBSET Deploy]
  /\ status \in [Deploy -> Status]
  /\ lock \in Deploy \cup {NoDeploy}
  /\ attempt \in [Deploy -> 0..MaxAttempts]
  /\ fresh \in SUBSET Deploy
  /\ git \in [App -> [Image -> Deploy \cup {NoDeploy}]]
  /\ crashes \in 0..MaxCrashes
  /\ cancelledBy \in [Deploy -> Deploy \cup {NoDeploy}]
  /\ replacedBy \in [Deploy -> SUBSET Deploy]

Init ==
  /\ stage = [d \in Deploy |-> "new"]
  /\ found = [d \in Deploy |-> {}]
  /\ status = [d \in Deploy |-> "none"]
  /\ lock = NoDeploy
  /\ attempt = [d \in Deploy |-> 0]
  /\ fresh = {}
  /\ git = [a \in App |-> [i \in Image |-> NoDeploy]]
  /\ crashes = 0
  /\ cancelledBy = [d \in Deploy |-> NoDeploy]
  /\ replacedBy = [d \in Deploy |-> {}]

-----------------------------------------------------------------------------
(* Accepting a request *)

(* Faulty variant of maySupersede: credentials are not compared.             *)
maySupersedeAnyone(new, old) == TRUE

maySupersede(new, old) == new \in Validated \/ old \notin Validated

imageNamesOverlap(d, e) == ImagesOf[d] \cap ImagesOf[e] # {}

Supersedes(new, old) ==
  AppOf[new] = AppOf[old] /\ maySupersede(new, old) /\ imageNamesOverlap(new, old)

Goes(d, s) == stage' = [stage EXCEPT ![d] = s]

(* CancelInProgressTasks selects the rows in progress, in one query ...      *)
SelectInProgress(d) ==
  LET ids == {e \in Deploy : status[e] = "in progress" /\ Supersedes(d, e)} IN
  /\ stage[d] = "new"
  /\ found' = [found EXCEPT ![d] = ids]
  /\ Goes(d, IF ids = {} THEN "adding" ELSE "cancelling")
  /\ UNCHANGED <<status, cancelledBy, replacedBy, gitVars, crashes>>

(* Faulty variant of CancelSelected: the update does not look at the status. *)
CancelSelectedBlindly(d) ==
  /\ stage[d] = "cancelling"
  /\ status' = [e \in Deploy |-> IF e \in found[d] THEN "cancelled" ELSE status[e]]
  /\ cancelledBy' = [e \in Deploy |-> IF e \in found[d] THEN d ELSE cancelledBy[e]]
  /\ found' = [found EXCEPT ![d] = {}]
  /\ Goes(d, "adding")
  /\ UNCHANGED <<replacedBy, gitVars, crashes>>

(* ... and cancels those of them still in progress with another.             *)
CancelSelected(d) ==
  LET ids == {e \in found[d] : status[e] = "in progress"} IN
  /\ stage[d] = "cancelling"
  /\ status' = [e \in Deploy |-> IF e \in ids THEN "cancelled" ELSE status[e]]
  /\ cancelledBy' = [e \in Deploy |-> IF e \in ids THEN d ELSE cancelledBy[e]]
  /\ found' = [found EXCEPT ![d] = {}]
  /\ Goes(d, "adding")
  /\ UNCHANGED <<replacedBy, gitVars, crashes>>

(* Either statement fails; the deployment is added all the same.             *)
CancelFails(d) ==
  /\ "cancel" \in Faults
  /\ stage[d] \in {"new", "cancelling"}
  /\ found' = [found EXCEPT ![d] = {}]
  /\ Goes(d, "adding")
  /\ UNCHANGED <<status, cancelledBy, replacedBy, gitVars, crashes>>

(* The row is inserted and its goroutine started (its claim: TaskLease).     *)
AddTask(d) ==
  /\ stage[d] = "adding"
  /\ status' = [status EXCEPT ![d] = "in progress"]
  /\ replacedBy' = [e \in Deploy |->
       IF cancelledBy[e] # NoDeploy /\ AppOf[e] = AppOf[d] /\ imageNamesOverlap(d, e)
         THEN replacedBy[e] \cup {d} ELSE replacedBy[e]]
  /\ Goes(d, "monitored")
  /\ UNCHANGED <<found, cancelledBy, gitVars, crashes>>

(* Faulty variant of AddTaskFails: the goroutine is started all the same.    *)
AddTaskFailsMonitored(d) ==
  /\ "insert" \in Faults
  /\ stage[d] = "adding"
  /\ Goes(d, "monitored")
  /\ UNCHANGED <<rowVars, gitVars, crashes>>

(* The insert fails: the request is refused, after it has cancelled others.  *)
AddTaskFails(d) ==
  /\ "insert" \in Faults
  /\ stage[d] = "adding"
  /\ Goes(d, "refused")
  /\ UNCHANGED <<rowVars, gitVars, crashes>>

-----------------------------------------------------------------------------
(* Monitoring a deployment *)

(* taskSuperseded may answer yes, and may answer no: a read that fails       *)
(* counts as no.                                                             *)
SeenSuperseded(d) == status[d] = "cancelled"
SeenInProgress(d) == status[d] # "cancelled" \/ "read" \in Faults

Unlock(d) == lock' = IF lock = d THEN NoDeploy ELSE lock

(* Faulty variant of Leaves: the lock is kept when the write-back ends.      *)
LeavesLocked(d, s) ==
  /\ Goes(d, s)
  /\ attempt' = [attempt EXCEPT ![d] = 0]
  /\ fresh' = fresh \ {d}
  /\ UNCHANGED lock

(* The goroutine leaves the write-back for s, and the lock with it.          *)
Leaves(d, s) ==
  /\ Goes(d, s)
  /\ attempt' = [attempt EXCEPT ![d] = 0]
  /\ fresh' = fresh \ {d}
  /\ Unlock(d)

(* A check before the first fetch, before an attempt or before a poll sees   *)
(* the cancellation: the goroutine ends without writing a status.            *)
StopsSuperseded(d) ==
  /\ stage[d] \in {"monitored", "attempting", "polling"}
  /\ SeenSuperseded(d)
  /\ Leaves(d, "ended")
  /\ UNCHANGED <<rowVars, git, crashes>>

(* waitForApplicationDeployment goes on to the write-back; without a         *)
(* credential there is none.                                                 *)
FetchApplication(d) ==
  /\ stage[d] = "monitored"
  /\ SeenInProgress(d)
  /\ Goes(d, IF d \in Validated THEN "waiting" ELSE "polling")
  /\ UNCHANGED <<rowVars, gitVars, crashes>>

WithLock(d) ==
  /\ stage[d] = "waiting"
  /\ lock = NoDeploy
  /\ lock' = d
  /\ Goes(d, "attempting")
  /\ UNCHANGED <<rowVars, attempt, fresh, git, crashes>>

(* The advisory lock's transaction could not be opened.                      *)
WithLockFails(d) ==
  /\ "lock" \in Faults
  /\ stage[d] = "waiting"
  /\ Goes(d, "deciding")
  /\ UNCHANGED <<rowVars, gitVars, crashes>>

(* It loses its connection: Postgres frees the lock, the write-back goes on. *)
LoseConnection(d) ==
  /\ "lock" \in Faults
  /\ lock = d
  /\ lock' = NoDeploy
  /\ UNCHANGED <<stage, rowVars, attempt, fresh, git, crashes>>

(* Faulty variant of StartAttempt: no check before the attempt.              *)
StartAttemptUnchecked(d) ==
  /\ stage[d] = "attempting"
  /\ Goes(d, "cloning")
  /\ UNCHANGED <<rowVars, gitVars, crashes>>

StartAttempt(d) ==
  /\ stage[d] = "attempting"
  /\ SeenInProgress(d)
  /\ Goes(d, "cloning")
  /\ UNCHANGED <<rowVars, gitVars, crashes>>

Written(d) == [i \in Image |-> IF i \in ImagesOf[d] THEN d ELSE git[AppOf[d]][i]]

(* A write-back that succeeds ends with the commit of the lock's             *)
(* transaction, which fails on a lost connection.                            *)
WrittenBack(d) == IF lock = d THEN "polling" ELSE "deciding"

(* Clone fetches and hard-resets to the tip; UpdateApp merges and commits.   *)
(* With the tags already there nothing is committed or pushed.               *)
CloneAndCommit(d) ==
  /\ stage[d] = "cloning"
  /\ \/ /\ Written(d) = git[AppOf[d]]
        /\ Leaves(d, WrittenBack(d))
     \/ /\ Written(d) # git[AppOf[d]]
        /\ fresh' = fresh \cup {d}
        /\ Goes(d, "pushing")
        /\ UNCHANGED <<lock, attempt>>
  /\ UNCHANGED <<rowVars, git, crashes>>

Push(d) ==
  /\ stage[d] = "pushing"
  /\ d \in fresh
  /\ git' = [git EXCEPT ![AppOf[d]] = Written(d)]
  /\ fresh' = {}

PushAccepted(d) ==
  /\ Push(d)
  /\ attempt' = [attempt EXCEPT ![d] = 0]
  /\ Unlock(d)
  /\ Goes(d, WrittenBack(d))
  /\ UNCHANGED <<rowVars, crashes>>

(* An attempt failed.  The loop checks again before the next one; out of     *)
(* attempts, or after a permanent error, the deployment fails.               *)
Retries(d) ==
  \/ /\ attempt[d] + 1 < MaxAttempts
     /\ attempt' = [attempt EXCEPT ![d] = @ + 1]
     /\ Goes(d, "attempting")
     /\ UNCHANGED lock
  \/ /\ attempt' = [attempt EXCEPT ![d] = 0]
     /\ Goes(d, "deciding")
     /\ Unlock(d)

(* The branch moved since the clone: the push is not a fast-forward.         *)
PushRejected(d) ==
  /\ stage[d] = "pushing"
  /\ d \notin fresh
  /\ Retries(d)
  /\ UNCHANGED <<rowVars, fresh, git, crashes>>

(* The clone, the commit or the push fails or times out ...                  *)
AttemptFails(d) ==
  /\ "git" \in Faults
  /\ stage[d] \in {"cloning", "pushing"}
  /\ fresh' = fresh \ {d}
  /\ Retries(d)
  /\ UNCHANGED <<rowVars, git, crashes>>

(* ... or the push times out although the remote accepted it.                *)
PushUnanswered(d) ==
  /\ "git" \in Faults
  /\ Push(d)
  /\ Retries(d)
  /\ UNCHANGED <<rowVars, crashes>>

(* Another writer advances the branch; it leaves the override files alone.   *)
ForeignPush ==
  /\ fresh # {}
  /\ fresh' = {}
  /\ UNCHANGED <<stage, rowVars, lock, attempt, git, crashes>>

(* The rollout reaches its outcome or its deadline, or cannot be fetched.    *)
PollEnds(d) ==
  /\ stage[d] \in {"monitored", "polling"}
  /\ SeenInProgress(d)
  /\ Goes(d, "deciding")
  /\ UNCHANGED <<rowVars, gitVars, crashes>>

(* SetTaskStatus names the row only: the last writer wins.                   *)
SetTaskStatus(d) ==
  /\ stage[d] = "deciding"
  /\ status' = [status EXCEPT ![d] = "final"]
  /\ Goes(d, "ended")
  /\ UNCHANGED <<found, cancelledBy, replacedBy, gitVars, crashes>>

SetTaskStatusFails(d) ==
  /\ "record" \in Faults
  /\ stage[d] = "deciding"
  /\ Goes(d, "ended")
  /\ UNCHANGED <<rowVars, gitVars, crashes>>

-----------------------------------------------------------------------------
(* A replica is lost, with one deployment it watches; Postgres ends its      *)
(* transaction, and with it the advisory lock.                               *)
Crash(d) ==
  /\ crashes < MaxCrashes
  /\ stage[d] \in {"monitored", "waiting", "polling", "deciding"} \cup Locked
  /\ Leaves(d, "orphaned")
  /\ crashes' = crashes + 1
  /\ UNCHANGED <<rowVars, git>>

(* A sweep takes the task over if it is still in progress ...                *)
Resume(d) ==
  /\ stage[d] = "orphaned"
  /\ status[d] = "in progress"
  /\ Goes(d, "monitored")
  /\ UNCHANGED <<rowVars, gitVars, crashes>>

(* ... and aborts it if its window has elapsed.                              *)
ResumeTooLate(d) ==
  /\ stage[d] = "orphaned"
  /\ status[d] = "in progress"
  /\ status' = [status EXCEPT ![d] = "final"]
  /\ Goes(d, "ended")
  /\ UNCHANGED <<found, cancelledBy, replacedBy, gitVars, crashes>>

(* The hourly sweep aborts what is in progress for more than an hour,        *)
(* watched or not (a task may ask for a longer window).                      *)
AbortObsolete(d) ==
  /\ status[d] = "in progress"
  /\ status' = [status EXCEPT ![d] = "final"]
  /\ UNCHANGED <<stage, found, cancelledBy, replacedBy, gitVars, crashes>>

Accept(d) ==
  \/ SelectInProgress(d) \/ CancelSelected(d) \/ CancelFails(d)
  \/ AddTask(d) \/ AddTaskFails(d)

Monitor(d) ==
  \/ StopsSuperseded(d) \/ FetchApplication(d)
  \/ StartAttempt(d) \/ CloneAndCommit(d)
  \/ PushAccepted(d) \/ PushRejected(d) \/ AttemptFails(d) \/ PushUnanswered(d)
  \/ PollEnds(d) \/ SetTaskStatus(d) \/ SetTaskStatusFails(d)

Next ==
  \/ \E d \in Deploy :
       \/ Accept(d) \/ Monitor(d)
       \/ WithLock(d) \/ WithLockFails(d) \/ LoseConnection(d)
       \/ Crash(d) \/ Resume(d) \/ ResumeTooLate(d) \/ AbortObsolete(d)
  \/ ForeignPush

(* A goroutine that can run does: its calls are bounded by timeouts and its  *)
(* poll loop by the rollout window.  Waiters for the lock are served in      *)
(* turn.  A sweep comes every TaskReapInterval.  Nothing makes a request     *)
(* arrive, and nothing makes the environment fail.                           *)
Fairness ==
  \A d \in Deploy :
    /\ WF_vars(Monitor(d))
    /\ SF_vars(WithLock(d))
    /\ WF_vars(Resume(d) \/ ResumeTooLate(d))

Spec == Init /\ [][Next]_vars /\ Fairness

-----------------------------------------------------------------------------
(* Properties *)

(* A tag is never put back over the tag of a deployment accepted after it    *)
(* was cancelled: the check in runGitUpdateWithRetry comes after the lock,   *)
(* and the lock is kept until the push.                                      *)
NoStaleOverwrite ==
  [][\A a \in App, i \in Image :
       LET old == git[a][i]
           new == git'[a][i]
       IN new \in Deploy => old \notin replacedBy[new]]_vars

(* A cancellation never replaces a recorded outcome, whatever happened       *)
(* between CancelInProgressTasks' two statements.                            *)
CancelSparesFinished ==
  [][\A d \in Deploy : status[d] = "final" => status'[d] # "cancelled"]_vars

(* A request without a credential changes nothing in git, and stops no       *)
(* deployment that presented one.                                            *)
AnonymousHarmless ==
  /\ \A a \in App, i \in Image : git[a][i] \in Validated \cup {NoDeploy}
  /\ \A d \in Validated : cancelledBy[d] \in Validated \cup {NoDeploy}

(* What WriteBacks sees of a deployment; each stands for its own tag.       *)
content == [d \in Deploy |-> [i \in ImagesOf[d] |-> d]]

progress == [d \in Deploy |->
  CASE stage[d] \in {"new", "cancelling", "adding"} -> "new"
    [] stage[d] \in {"refused", "ended"} -> "over"
    [] OTHER -> "active"]

superseded == {d \in Deploy : cancelledBy[d] # NoDeploy}

barred == [n \in Deploy |-> {d \in Deploy : n \in replacedBy[d]}]

Promise ==
  INSTANCE WriteBacks WITH
    Writer <- Deploy, Branch <- App, Slot <- Image, Tag <- Deploy, NoTag <- NoDeploy,
    Where <- AppOf, Writes <- content,
    state <- progress, tree <- git, stopped <- superseded, barred <- barred

(* The write-backs of single deployments do what WriteBacks allows: whole   *)
(* contents, each by a deployment at work, never over a successor's.        *)
WriteBackSpec == Promise!Spec

(* A deployment that is accepted comes to an end: recorded, superseded, or   *)
(* left by a lost replica after another step gave its row a final status.    *)
DeploymentEnds ==
  \A d \in Deploy :
    stage[d] = "monitored" ~>
      \/ stage[d] = "ended"
      \/ stage[d] = "orphaned" /\ status[d] # "in progress"
=============================================================================
