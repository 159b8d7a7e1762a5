# argo-watcher in TLA+

argo-watcher is told by a CI pipeline that an application should be running certain
images. It stores the request as a task, may commit the new tags to the GitOps repository,
polls Argo CD until the application runs them (or its time is up), and records the outcome.
Several replicas share one Postgres database. These modules model the parts whose
correctness depends on the order in which replicas, goroutines, the database and git act;
TLC checks them on small instances and TLAPS proves the central ones for every instance.

Paths below are relative to `src/`.

## 1. The system

### Components, their state and operations

| Component | State | Operations | What makes it correct |
|---|---|---|---|
| Task leases (`internal/state/lease.go`, `internal/argocd/lease_guard.go`, `resume.go`, `internal/server/task_reaper.go`) | `tasks.owner_id`, `lease_expires_at`; per monitor `leaseGuard.lastRenewed`, `lost` | `ClaimTask`, `RenewLease`, `ClaimExpiredTasks`, `ReleaseOwnedLeases`, the guard's renewal loop, the reaper | one monitor per deployment in the whole fleet; a monitor that lost its claim writes nothing; only an unattended task is taken over |
| Accept path and supersession (`argo.go` `AddTask`, `postgres_state.go` `CancelInProgressTasks`) | `tasks.status` | gate, cancel the older deployments of the same images, insert, claim, start the monitor | the newest tag stays in git; a request without a credential stops no credentialed one |
| Git write-back (`git_updater.go`, `git_writeback.go`, `updater/updater.go`, `lock/postgres.go`) | the repository's advisory lock, the local clone, the remote branch | lock, check for supersession, clone, commit, push, retry | a superseded deployment does not overwrite its successor; the lock is always left |
| Batched write-backs (`batcher.go`, `git_writeback_batch.go`) | `Batcher.pending`, `active`, `closed`; the outcomes map of a batch | `Submit`, the flush loop, the attempts, the drain, `Close` | every `Submit` is answered exactly once, and truthfully |
| Rollout monitor (`argo_status_updater.go`, `deployment_monitor.go`) | the task's window, the last answer of Argo CD | first fetch, write-back, poll, decide, write the status, notify | what is announced is what was recorded, and stays; every rollout is announced; a shutdown fails none; all of it within the task's window |
| Rollout status (`models/argo.go`) | none | the decision over images, health and sync; the report of a failure | the report names the cause, once, and blames a drift only where there is one |
| Shutdown (`server.go`, `env.go`) | draining flag, connections, phases and their budgets | readiness down, HTTP drain, WebSocket drain, batcher drain, release of leases | queued write-backs have their share of the budget, and the claims are always given away |
| Deployment lock (`lockdown.go`, `handlers_lock.go`, `deploy_lock*.go`) | manual lock, override deadline, schedules | set, release, resolve, watch transitions | nothing slips past a freeze, also when the row cannot be read; a suspended freeze returns; the browsers come to know what stays |
| Reachability (`argo.go` `Check`) | the cached reason | probe, gate of `AddTask`, endpoint, watcher | gate and banners settle on what is down |
| WebSocket hub (`websocket.go`) | the connection list, per-connection goroutines | register, heartbeat, broadcast, shutdown | nothing registers after the shutdown has begun waiting; every goroutine ends |
| Authentication (`internal/auth`) | the decision cache | strategy chain, JWT, OIDC userinfo | a revoked session is accepted for a bounded time; privileges are never remembered; no outage signs a valid session out |
| Retention (`postgres_state.go`, `in_memory_state.go`) | rows | abort obsolete tasks, delete old ones | nothing attended is aborted or deleted |
| Client (`internal/client`) | attempt counters | submit, poll, retry | it returns, with what the row says from then on |
| Web UI (`web/src/data/wsStatusService.ts`) | a tab's socket, pending fetch and banner | connect, apply a frame, apply the fetched state | an answer that a frame overtook is dropped |
| Argo CD API client, HTTP routing, notifications | — | what their answers and errors mean to the above | in part: see section 7 |
| In-memory state and lock, metrics, configuration, migrations | — | — | not modelled: see section 7 |

### How they interact

`addTask` (HTTP) calls `Argo.AddTask`, which changes other rows and inserts its own, and starts
a goroutine that calls `WaitForRollout`. That goroutine creates a lease guard (a second
goroutine, renewing the claim in the row), fetches the application, waits for the repository's
lock or in the batcher's queue, and polls. Replicas talk to each other only through rows
(status, owner, lease), through the advisory lock, and through the git remote. The reaper of
every replica sweeps rows whose lease lapsed and starts the same monitor on them; another, hourly,
sweep aborts and deletes by age. Clients poll the row over HTTP; browsers follow frames of the
WebSocket hub, which the two watchers (deploy lock, reachability) send. At shutdown the draining
flag is set first and the leases are released last.

### What is hard

* **Checks that are not atomic with what they protect.** The claim is checked, then the
  status is written by row id alone; the cancellation is checked, then the tag is pushed; the
  rows to cancel are selected, then updated, and only then is the new row inserted.
* **Time.** A lease lapses on Postgres' clock while its owner measures it on its own; a
  renewal may time out after it was applied; a whole safety margin is one renewal interval.
* **Crashes and drains** at any step, with the goroutines of a replica dying while rows,
  lock and remote stay, and restarts that must not take their predecessor's claims for theirs.
* **The git remote**: pushes that are rejected, fail, or succeed without an answer; other
  writers; a lock that Postgres frees when a connection is lost.
* **Errors that mean something to the next step**: an error that steers the poll loop, one that says
  "another replica goes on", one of a closed batcher, one of the provider that is not a rejection. Each
  must end where it belongs and nowhere else.
* **Two sources of one fact**: a frame and a fetch, a cached and a fresh decision, a lock row and a
  schedule evaluated a moment later, a status row and the client's last poll of it.
* **Handovers between a caller and a flush loop** that is about to end, and a retry budget,
  a drain and a supersession that meet at the retry boundary.

`PROJECT.json` lists each hazard at its line under `hazards`.

## 2. Modules

```
TaskOwnership          what the lease protocol promises (abstract)
   ^ implemented by
TaskLease              leases, guards, reaper, shutdown, crash         <- MCTaskLeaseFleet
   ^ EXTENDS
TaskLeaseMargin        the timing assumption, the inductive invariant, the refinement mapping
   ^ EXTENDS                            ^ EXTENDS
TaskLeaseProofs                     MCTaskLease

Lockdown               the deployment lock and its watchers
   ^ EXTENDS
Admission              a request through the gates                     <- MCAdmission, AdmissionProofs
WriteBacks             what the git write-backs promise (abstract)
   ^ implemented by                     ^ implemented by
Supersession                        BatchWriteBack
   accept path, supersession,          batched write-backs
   git write-back                      <- MCBatchWriteBack, BatchWriteBackProofs
   <- MCSupersession, SupersessionProofs

RolloutStatus          what Argo CD's answers mean; the failure report
   ^ EXTENDS
Rollout                the monitors of one deployment                  <- MCRollout, RolloutProofs

RolloutDeadline        the window of a task over handovers
   ^ EXTENDS
Client                 a client, the sweep and retention               <- MCClient, ClientProofs

Availability           probe and cached reason
   ^ EXTENDS
Server                 WebSocket hub, banner, shutdown                 <- MCServer, ServerProofs

Access                 requests with an OIDC session                   <- MCAccess, AccessProofs
```

A request passes `Admission`, is accepted in `Supersession`, held in `TaskLease`, monitored in
`Rollout` (its time: `RolloutDeadline`, its write-back: `Supersession` or `BatchWriteBack`), and
watched by `Client`. Each of these modules keeps only as much of its neighbours as its own properties
need, and says which: in `Rollout` a claim may be lost at any moment, before or after the monitor's last
check of it, in `TaskLease` a monitor may end with any outcome.

### TaskLease, TaskOwnership

One row per `Task` (`status`, `owner`, `lease`, `created`), one `Monitor` per goroutine that may
ever watch a task: the one `addTask` starts (`Acceptor`), and one for each takeover by each
replica. `pc` follows a monitor through `accepted` (row inserted), `claimed`, `watching` (its
guard runs), `deciding` (past its last `Lost()` check) and `gone`. `since` dates the delay that
is running, `lastRenewed`, `lost`, `renewal` and `issued` are the lease guard and the renewal
statement on its way. `phase` is the life of a replica and `sweeping` the reapers that are
between their draining check and their claim. `outcomes` counts what monitors recorded, `late` how much of it
came from a monitor that was `Overdue`: past its last check for longer than its claim was sure to last.

| Action | Code |
|---|---|
| `AddTask`, `ClaimTask`, `ClaimTaskFails` | the insert, then the claim, whose failure is logged only (`argo.go`) |
| `newLeaseGuard`, `RenewIssue`, `RenewLease`, `RenewReturns`, `RenewFails`, `GiveUpAged` | `lease_guard.go`; issuing, applying and returning are three steps, so that a takeover, a release or a crash falls between any two |
| `ReapTick`, `ClaimExpiredTasks`, `NotResumed`, `abortStaleTask` | `task_reaper.go`, the sweep's `UPDATE ... FOR UPDATE SKIP LOCKED`, `resume.go` |
| `Abandons`, `StopsSuperseded`, `Decides`, `SetTaskStatus`, `SetTaskStatusFails` | the end of `waitForRollout` and the status write |
| `Cancel` | a newer deployment (the details: Supersession) |
| `beginDraining`, `ReleaseOwnedLeases`, `Exit` | shutdown, and a crash at any moment |
| `Tick` | time; it stops at the end of every delay the model bounds |

A restarted pod is a new element of `Replica`, because `newOwnerId` draws a fresh identity.

**The margin.** A guard gives its claim up when less than one renewal interval is left. What a
monitor does without checking again must fit in it. `TaskLeaseMargin` assumes of the delays before and of the guard
that `StartDelay + Skew + RenewTimeout <= Interval + 1`, where `StartDelay` is the time from a claim to
its guard, and `Skew` the difference between the accepting replica's clock and Postgres'. The `+ 1` is the instant at
which a lease still holds (`lease_expires_at < now()` is strict, and time is discrete). The code does not enforce
this, but each of the delays is that of one or two statements.

Nothing is assumed of `WriteDelay`, the time from the last check to the status write: the code fetches the
resource tree in between, for up to 10 s against an interval of 6 s. A monitor may stay in `deciding` for longer than
the `Margin` that its check left it. It is then `Overdue`, no longer counted as attending its task (`Attends`,
`Holds`), another replica may take the task over, and what it still writes counts as `late`. The run `lease` has such
monitors, and shows that they are the only ones that do harm; `lease_slow_write` shows the harm.

**Refinement.** `TaskOwnership` is the promise without time: a task has at most one holder, only a
held task gets an outcome, only a task nobody holds is taken over. `TaskLeaseMargin` instantiates it
(`INSTANCE TaskOwnership WITH ...`) with the holders of a task mapped to the monitors for which `Holds` is
true: those that can still record an outcome, counting a guard that has aged but still waits for a
renewal that may have been applied, and not counting an overdue one. Its `WriteLate` is the write of a goroutine that
let its hold slip.

### Lockdown, Admission

`store` is the shared row (`manualLock`, `overrideUntil`), `call` and `until` the two halves of a release
(`ReleaseLock` evaluates the schedule and computes the override, `Release` writes it), `last` and `told` what a
watcher recorded and what it sent. `SetLock`, `Release` and `WriteFails` may each answer an error
although the row was or was not written. `timeWithinSchedule`, `dayInRange`, `isLockedWith` and
`resolve` are the functions of those names. `Admission` sends a request through `bindJSON`, the
lock (`ReadLock`, then `IsLocked` a moment later, with the row it read and the schedules of then), the
token and `Argo.AddTask`, while the operators and the clock go on. `manualOff` and `scheduleOff` are history.

### Supersession

Deployments (`Deploy`) with an application and a set of images; those in `Validated` presented
a credential. `SelectInProgress`, `CancelSelected`, `AddTask` are the three statements of the
accept path, each of which may fail. The goroutine then goes through `monitored` (first check and
fetch), `waiting` (for the advisory lock), `attempting`, `cloning`, `pushing`, `polling`,
`deciding`. `git` is the tag each image has at the branch's tip and `fresh` the clones based on
that tip; a push from any other clone is rejected. `Faults` selects what may fail: the cancelling
statements, the insert, reading the task, recording the outcome, git, and the lock's
transaction. A push may also succeed unanswered. `Crash` loses a replica with a deployment it
watches; `Resume` and `ResumeTooLate` are the sweep that finds it. `cancelledBy` and
`replacedBy` are history.

### WriteBacks

What both ways of writing back promise, without locks, clones, attempts or replicas. Writers are accepted or
refused, stopped, and leave; a branch changes only by `Write(b, S)`, one push that carries the whole content of
the writers `S`, all at work, and nothing else, and that puts no writer's tag over the tag of one accepted after
the first had been stopped (`barred`, `MayReplace`). Both modules instantiate it as `Promise` and check
`WriteBackSpec`:

| `WriteBacks` | `Supersession` | `BatchWriteBack` |
|---|---|---|
| `Writer`, `Branch`, `Slot` | deployments, applications (one override file each), images | requests, branches, slots |
| `Writes` | each of the deployment's images, with the deployment for its tag | the request's tags |
| `state` | `progress`, from the stage: one left by a crash is still at work, for the sweep may resume it | `progress`, from the answer of `Submit` |
| `tree` | `git` | `remote` |
| `stopped` | `superseded`: cancelled by a newer one | `stopped` |
| `barred` | `replacedBy`, turned around | the part of `replaced` that meets in a slot |

A push of a single write-back is a `Write` of one deployment; a push of a batch one of all the requests committed in the
attempt. Everything else the modules do is `Accept`, `Refuse`, `Stop`, `Leave` or a stutter.

### BatchWriteBack

Queues are `(batcher, branch)` pairs; `pending`, `active`, `closed` are the batcher's fields and
`loop`, `batch`, `outcome`, `todo`, `attempt` the local state of a flush goroutine (`todo` are the
requests of the batch still to be applied, in the batch's order). The clone is
two trees, `disk` (files) and `head` (last commit): a commit that fails may leave the file
written, and "nothing to commit" is decided on the file. `committed` is what the attempt has
committed but not pushed. `Stop` stands for everything that makes `isSuperseded` answer yes: a newer
deployment, a lost claim, a drain. `landed` and `replaced` are history. Files are
abstracted to their tags, so the code's comparison of whole files is a comparison of tags.

### RolloutStatus, Rollout

`RolloutStatus` is pure: `GetRolloutStatus` and `FinalStatus` decide, `checkRolloutStatus` is the verdict of a
poll, `validateDesiredImages` (with `Absent`) the proof that an image can never appear, and
`GetRolloutMessage` with the operators under it the report of a failure, as a set of lines
`<<section, resource, what it says>>` without their wording. An application is what the polls read
(`Apps`); what only a report reads is in `Details`, with the revisions encoded in either of Argo CD's two
fields.

`Rollout` runs the monitors of one deployment: `pc` follows `waitForRollout` through `check`, `confirm`,
`writeBack`, `poll`, `validate`, `decide` (the last look at the claim), `handle` (the status write) and
`finish` (the announcement). `err` is the error the code hands on, one of its classes; `local` its
local variables and the report it wrote. Argo CD answers each fetch with any application or error, whatever it
answered before. `LoseClaim`, `Crash`, `BeginDraining` and `CloseBatcher` may fall between any two steps,
as long as one replica is left that can resume (`Spared`): a rollout whose last replica is gone is nobody's
to announce. A claim lost before the last check is noticed there (`lost`). One lost after it, while the resource tree
is fetched or the status written, is not (`OutlivesClaim`, `late`): its monitor goes on to record and to announce
an end, and the sweep of another replica may resume the rollout meanwhile, so that two monitors decide it.
`overtaken` notes that. `Supersede` and `ProcessObsoleteTasks` change the row under its monitors. `orphaned` notes the
rollouts that had ended, unannounced, when no monitor was `Bound` to announce them: see section 3.

### RolloutDeadline, Client

`RolloutDeadline` is one task over any number of monitors, in whole seconds since its creation: `asked`
is the timeout in the row (absent, malformed, short, long), `timeout` what the present monitor
was given, `deadline` its poll loop's. `rolloutAttempts`, `rolloutWindow` and `remainingWindow`
are the functions of those names. A fraction of a second is dropped by the code when a
remainder is handed over, and by the model always.

`Client` composes it with the row (`row`, `leased`), the client's wait (`wake`, `retries`, `verdict`)
and the hourly sweep. A monitor's step is `RolloutDeadline`'s with what it writes; `Swept` is the sweep's
three statements in their order (delete an application not found, abort the stale, delete the old), over one
row. `getJSON` is a transient failure and its retry, `getTaskStatus` an answered poll.

### Availability, Server

`Availability` is the probe: `CheckState`, then `CheckArgo`, then the cached `reason`. `Server` adds the
watcher that compares it with `lastReason` and broadcasts (`sends` are the writes still to be
done, which succeed or fail one by one), connections from the handshake (`request`, `upgrading`, `accepted`) to the
end of their goroutine, the registered `connections`, and tabs with a socket, an inbox, a fetch in flight and the
banner they show. The upgrade is answered (`Accept`, on which the tab fetches) before the connection is registered
(`Register`), and a broadcast may fall in between. The shutdown is the sequence `beginDraining`, `CloseListener`,
`HttpDrained`, `ShutdownDone` or `ShutdownExpires`, `releaseTaskLeases`; each may take up to its share, and `spent` adds
up what they took. The release of the claims is a statement without a deadline: its return is assumed, its duration
is not counted.

Probe and watcher run independently. The probe's ticker has an interval of 30 s and buffers one tick, and a check
may outlast it (three attempts with a timeout of 60 s each), so the next one follows at once, and the reason
may change any number of times between two samples of the watcher, which are 5 s apart. `untold` are the tabs whose
last fetch told them something that then changed without anybody telling them: the reason came back to what the
watcher had told before, or the change was broadcast while their connection was not registered. A tab notices that its
socket is dead, and its fetches do not fail. A connection is a name that a tab takes again once both ends have left it.

### Access

One OIDC session at a provider that demotes, revokes and goes down, the decision cached for
its token, and concurrent requests, each walking over the headers it came with: in any order (`walk`
ranges over a map), except where `requireOIDCAuth` and `authorizeWebSocket` fix one (`Candidates`). `get`,
`put`, `entryTTL`, `cacheTTL` are the cache's functions; `resolveUserinfoURL` and `fetchUserInfo` ask the
provider, and `Told` is the answer that arrives later and is remembered, after others may have been. The cache holds one
token's entry; `evictOneLocked` is the other tokens' claim on its place.

## 3. Properties and runs

| Run | Checks | Distinct states | Shows |
|---|---|---|---|
| `lease` | `LeaseInv`, `ExclusiveMonitor`, `OneOutcomeInTime`, `NoTakeoverOfAttended`, `OwnershipSpec` | 1,102,438 | with starts and renewals that fit in the margin, and status writes that may not: one monitor per task, at most one outcome but for overdue ones, an attended task leaves its replica only by that replica's release, and the refinement of `TaskOwnership` |
| `lease_slow_write` | `OneOutcome` (violated) | — | a status write that comes too late after the last check overwrites the successor's outcome |
| `admission` | `ScheduleIsInterval`, `FreezeReturns`, `FreezeIsEffective`, `WatcherSettles` | 871,106 | two operators' calls, a watcher and a request around the edges of three schedules: no request is accepted unless lock and schedules let it pass at an instant of its handling, a release suspends a schedule for one override at most, and each watcher's last message is what stays |
| `supersession` | `AnonymousHarmless`, `NoStaleOverwrite`, `WriteBackSpec` | 161,137 | three deployments of one application with failing statements, git faults and a crash: the newest tag stays, a request without a credential does no harm, and the refinement of `WriteBacks` |
| `supersession_faults` | `CancelSparesFinished`, `DeploymentEnds` | 15,717 | with every fault the model has, a cancellation spares finished rows and every accepted deployment ends |
| `batch` | `QueuedOnce`, `NilMeansLanded`, `Answered` | 309,005 | a queue longer than its batch, with failing clones, commits and pushes, a drain and an exit: each request is answered once and truthfully, unless its process ends |
| `batch_replicas` | `NoStaleOverwrite`, `WriteBackSpec` | 244,874 | two replicas on one branch, locks lost, two attempts: a stopped request never overwrites its successor, no push carries a part of a request, and the refinement of `WriteBacks` |
| `batch_same_file` | `NilMeansWritten` (violated) | — | two requests with one content: the second is answered from the first's unpushed commit |
| `rollout` | `AnnouncedOutcome`, `ShutdownFailsNothing`, `NoSentinelEscapes`, `CauseReported`, `ReportConsistent`, `DriftIsReal`, `RolloutAnnounced` | 455,626 | three monitors of one deployment through drains, crashes, claims lost before and after the last check, and failing reads and writes: what is announced and recorded stays unless a monitor past its check was overtaken, errors end where they belong, the report names its cause, and every rollout is announced unless it ended when nobody was bound to |
| `client` | `HandoversKeepDeadline`, `NeverDeletesAttended`, `SweepSparesAttended`, `ClientTruthful`, `ClientReturns` | 1,308,118 | handovers neither stretch the window by more than one interval nor expose a rollout to the sweep; the client returns, with what the row says from then on |
| `server` | `WriteBacksNotStarved`, `NoneLeft`, `NoAddAfterWait`, `BannerSettles`, `ShutdownCompletes` | 1,132,397 | the banner of a tab that was told of every change settles on what stays down, through lost connections and overtaken fetches; the shutdown keeps its shares, leaves no connection and always releases the claims |
| `access` | `StalenessBounded`, `PrivilegeIsCurrent`, `OutageForgotten`, `ValidSessionNotRejected` | 4,442,091 | two concurrent requests with one session through revocation, demotion and outages |

A violated property states what a document or a comment of the repository says; the entries of
`findings` quote it. Every property is broken by a faulty variant of a definition of its model (the
definitions commented "Faulty variant"), each a plausible bug of the code it models.

### What the violations mean

* `lease_slow_write`. The last `Lost()` check is in `waitForRollout`. For a failed rollout
  `handleDeploymentFailure` then fetches the resource tree, up to 10 s, against a margin of 6 s, and
  `SetTaskStatus` names the row by its id only. A unit of the run is three seconds: TTL 10, interval 2, and
  4 for the fetch and the write after it.
* `batch_same_file`. `applyRequest` answers nil when the file in the clone already matches,
  which may be the work of an earlier request of the same attempt; if that push fails for good
  the earlier request fails and this one has been told it succeeded.

### Where properties stop

* `NoStaleOverwrite` of `Supersession` needs a check that can read its row and a lock that lasts. With the
  fault `"read"` it fails (`taskSuperseded` fails open: a read error counts as "no", while the environment
  reference has a superseded task abort before every attempt), and with `"lock"` too (clone after
  the newer push, then push). So the run `supersession` leaves both out of `Faults`, and
  `supersession_faults`, which has them, checks other properties. In `BatchWriteBack` a lost lock does no harm,
  because its check comes after the clone.
* `AnnouncedOutcome` constrains announcements of an end that was recorded, or found recorded. After a status write that
  failed (it is only logged) the rollout is announced, resumed and announced again. And it excepts a rollout that was
  `overtaken`: resumed while a monitor whose claim lapsed after its last check had not finished. Without the exception
  TLC finds it violated, by the slow write of `lease_slow_write`, at the same disagreement with the
  high-availability page: two ends are announced, and the row changes after the first.
* `OneOutcomeInTime` counts the outcomes but those of overdue monitors. `OneOutcome`, what the high-availability page
  promises, counts all of them and is violated.
* `RolloutAnnounced` excepts a rollout that was `orphaned`: it had ended in its row, by a cancellation or the hourly
  sweep's abort, without an announcement, at a moment when no monitor was sure to go on to its end: there was none, or
  each had lost its claim or was draining before its last check. An abort or a cancellation under a healthy monitor is
  announced by that monitor and is not excepted.
* `ShutdownFailsNothing` is about the monitors of resumed rollouts. One that its own replica accepted goes on
  deciding while it drains (`neverDraining`; its comment says so), and may record the closed batcher's error.
  The high-availability page promises that every replica that shuts down stops deciding. `OneOutcomeInTime` and
  `OwnershipSpec` hold with draining replicas that decide.
* `HandoversKeepDeadline` has the overshoot the code has: one poll interval, and the first fetch and the
  write-back before the window starts (`Prelude`). The documentation counts the interval only.
* `SweepSparesAttended` and `ClientTruthful` are about windows shorter than the staleness threshold (`Short`). A longer
  one is aborted by the sweep while it is attended, and its monitor's own outcome comes later.
* `ClientTruthful` excepts a cancellation, which a monitor past its last check may overwrite. `Client` follows one
  monitor at a time: what an overdue one writes over the row after the client has returned is `lease_slow_write`'s.
* `ValidSessionNotRejected` excepts a handshake whose other credential was rejected
  (`authorizeWebSocket` turns to the subprotocol only if no header was tried), and privileged requests: `addTask` answers
  401 to a provider's failure too.
* `WatcherSettles` and `BannerSettles` are about what stays. A lock set and released between two samples is
  never broadcast.
* `BannerSettles` excepts the tabs nobody told (`untold`). Without the exception TLC finds it violated in two ways. A tab
  fetches a reason that the probe then takes back before the watcher's next sample (`argo.go:152`, `env.go:122`): the
  watcher sees no change, and the tab keeps what it fetched. Or the watcher tells a change after a tab's
  upgrade was answered and its fetch too, and before its connection was registered (`websocket.go:122-130`). Either banner
  stays wrong until the next frame or reconnection, while the high-availability page has clients see a change within
  a few seconds.
* `ShutdownCompletes` assumes that the statement that releases the claims returns. It has no deadline in the code.
* `ScheduleIsInterval` has the code's one exception: a schedule that ends on the day it starts, earlier, freezes nothing.

## 4. Bounds

* `lease`: two replicas, one task, three monitors (`r1` accepts, either may take over once), TTL 5,
  interval 1, clock to 8; the start and the renewal take up to 1, a status write up to 3, so that
  it may be overdue. The fleet needs two replicas for a takeover and a third monitor so that the accepting replica may get its own task back; the clock outlasts a lease, a
  takeover and the new lease's first renewals. Tasks only meet in a sweep's batch, whose rows do
  not influence each other; the proofs cover any number of them.
  The ratio TTL : interval is the code's 5 : 1 so that several renewals may fail.
* `admission`: days of two minutes, beginning late on Friday (`Start` 11) and five minutes long: schedules that
  wrap around the week (Saturday to Sunday), lie within a day and end before they start. Override of two
  minutes, so that it runs out within the clock and within a freeze. Two operator calls suffice for every
  interleaving of a release's two halves with a lock or another release.
* `supersession`: one application and two images; two credentialed deployments with overlapping,
  different image sets and one anonymous; two attempts; one crash. Two deployments are enough for
  an overwrite, and the third tests the anonymous rule from both sides. Applications do not
  meet: each has its own override file, and another application's push is what `ForeignPush` does.
* `batch`: three requests through batches of two, two slots, one misconfigured request, one
  attempt. Three is the least that leaves a remainder and lets `Submit` meet a running flush.
  `batch_replicas` has two requests on two replicas and two attempts, so that retries meet the other
  replica's pushes and a stop during the backoff. One of them writes two slots and the other one of these, so that
  a push of half a request, or over half of one, would show.
* `rollout`: the accepting monitor and two that resume, two polls each (a forced retry, then the end of the
  attempts), ten applications that cover every branch of the decision, and thirty-odd details: the
  revisions of one or two sources in both encodings, failed hooks, failed syncs, missing and progressing nodes.
* `client`: interval 2, default 2 polls, timeouts `-1, 0, 1, 4, 17` (none, malformed, below an interval, a whole number of
  intervals, longer than the staleness threshold), `Prelude` 1, `Stale` 13, a sweep every 2, `Retention`
  19, polls every 2 with one retry, clock to 26: past the longest window with its overshoot and past retention. The
  orders of these are the code's: poll interval < default window < one hour < retention.
* `server`: one tab and two connections (so that a tab can reconnect while its old connection is still
  registered), two faults in all, and a shutdown in units of five seconds with the shares 1, 1 and 2 of a
  budget of 5: the code's 5, 5, 10 and 25 seconds, one unit being left.
* `access`: validation interval 2, rejections remembered for 1, round trips up to 1, expiry 3, clock
  to 4, two changes at the provider, two requests drawn from seven combinations of kind and headers. The
  expiry falls within a cached decision, and a rejection is forgotten before an acceptance, as in the code. The two
  requests are symmetric.

All runs but `access` set `CHECK_DEADLOCK FALSE`: each system may come to rest (every request answered, every
replica down, the deployment ended, the clock at its bound).

## 5. Fairness

* `TaskLease` and `Access` have none: their properties are safety properties.
* `Supersession`: weak fairness of each goroutine (its calls are bounded by `GIT_OP_TIMEOUT`, by
  the HTTP client's timeouts and by the rollout window), strong fairness of obtaining the lock
  (Postgres grants `pg_advisory_xact_lock` in the order of waiting), weak fairness of the sweep (a timer
  on every replica). No fairness for requests, faults, crashes or other writers.
* `BatchWriteBack`: weak fairness of each flush loop, strong fairness of the lock. None for
  `Submit`, `Stop`, `Close` and `Exit`.
* `Rollout`: weak fairness of each monitor, whose calls time out, and of the sweep that resumes. None for lost
  claims, crashes, drains and cancellations; they are bounded by the number of monitors.
* `Client`: time passes, a monitor goes on, sweeps come, a lapsed lease is seen, the client's timer fires and its request
  returns (the HTTP client has a timeout). Nothing prevents a monitor from being lost again and again, or every
  poll from failing.
* `Admission`: the watcher's ticker. Its property is about what stays, so nothing else need ever happen.
* `Server`: while the replica serves, its goroutines and tickers, the messages and the tab's reconnection; in the
  shutdown only the shutdown's own sequence, because a handler or a connection's goroutine may outlast it.

## 6. Proofs

TLAPS checks every leaf; a proof holds for all values of the constants that satisfy the named
assumptions. Each module with proofs states an inductive invariant, which TLC has checked on the
module's run, proves that the initial states satisfy it and that each action preserves it, and
derives its theorems from it. The types of `Supersession`, `BatchWriteBack`, `Server` and `Client` are proved and no longer
checked by a run.

**TaskLeaseProofs** (assumptions: `ConstantsAssumption`, and `MarginAssumption`: the start of a monitor, a renewal and the
clocks' difference fit in one renewal interval). All but `TypeCorrect` are conditional on that margin. None assumes
anything of the duration of a status write: each says what holds of the monitors that are not overdue with theirs.

* `TypeCorrect`: `Spec => []TypeOK`.
* `LeaseInvariant`: `Spec => []LeaseInv`. Exclusion alone is not inductive: nothing in it
  stops a sweep from taking a row whose monitor is about to decide. `LeaseInv` adds why that cannot
  be. `Covered` says that while a monitor holds a task in progress, the row names its replica
  or nobody, and that the row's deadline (`lease`, or for a row never claimed `created + TTL`) is late
  enough for the longest thing the monitor may still do from where it is; each control point has
  its own bound, up to the moment it is overdue. `DelaysKept` and `IssuedInTime` tie those bounds to the clock, and the margin
  assumptions turn them into `now <= Deadline`, so the row is not `Lapsed`. The release is the
  one exception: it makes the row available at once, and `Leaving` records that the process then
  ends before time passes. `ExclusiveHolder`, `HeldHasNoOutcome`, `OutcomeMatchesStatus`,
  `NoneIsUntouched` and `ExitedIsGone` complete it. The proof goes action by action; steps that only
  touch the guard or end a monitor share one lemma (`LocalStepInv`, `EndsLocally`), and the
  arithmetic of the margin is in lemmas of its own (`StartMargin` ... `SkewMargin`).
* `MonitorsExclude`, `OutcomeOnceInTime`: corollaries. `AttendedIsKept`: the action property, from
  `HeldNotLapsed` and `OwnerStep`.
* `ImplementsOwnership`: `Spec => OwnershipSpec`. `OwnershipNext` maps each step to `Accept`,
  `LetGo`, `TakeOver`, `Record`, `WriteLate` or `Cancel` of `TaskOwnership`, or to a stutter; a `Tick` that makes a
  monitor overdue is its `LetGo`.

**AdmissionProofs** (assumption: `LockdownAssumption`), for any schedules, operators, watchers and requests

* `SchedulesAreIntervals`: the branches of `timeWithinSchedule` against the order of the times of the week.
* `FreezesReturn`: the invariant `OverrideBounded` bounds every computed and every stored override by the clock, so
  that a `Release` that comes late writes an override that ends no later than one that comes at once.
* `FreezesAreEffective`: `ReadWasSo` says that the row a request read was the shared row, or unreadable, at an
  instant of its handling.

**SupersessionProofs** (assumption: `SupersessionAssumption`), for any number of deployments,
applications, images and crashes

* `TypeCorrect`, `OnlyCredentialed` (`Spec => []AnonymousHarmless`) and `FinishedSpared`
  (`Spec => CancelSparesFinished`) hold whatever fails. `OnlyCredentialed` needs that only credentialed
  deployments reach the lock (`WritersValidated`) and that the rows a request has selected stay rows it may
  supersede between its two statements (`FoundAllowed`).
* `NewerTagStays`: `Spec => NoStaleOverwrite` under the hypothesis `ChecksAndLockHold`, that neither
  `"read"` nor `"lock"` is in `Faults` (section 3). The
  invariant `OrderInv`: write-backs are serial (`Serial`); a cancelled row stays cancelled as long as its
  goroutine runs (`CancelledStays`), so a check after the cancellation sees it; hence a write-back past its
  check finds no tag of a successor in git (`NoSuccessorYet`): a successor that came later still waits for the
  lock. `NotYetInserted` and `WrittenAccepted` keep a request from being cancelled, or its tag from being in
  git, before its row exists.
* `ImplementsWriteBacks`: `Spec => WriteBackSpec` under the same hypothesis, without which a push may do what
  `MayReplace` forbids. Each step is sorted by what it does to rows, stages and git, and mapped to one of the actions of
  `WriteBacks`. `SuccessorAccepted`, that only an accepted request succeeds another, makes the insert the one
  step that fills its `barred`.
* `LockIsReleased`: `Spec => []LockAtWork`, whatever fails: the lock is held by a deployment that is writing back, so
  every way out of the retries (a push, a cancellation, the last failure, a permanent one, a crash) gives it up. It is
  the safety part of `DeploymentEnds`, whose liveness needs that nobody waits behind one that has left.

**BatchWriteBackProofs** (assumption: `BatchAssumption`), for any batchers, branches, requests, sizes of batches and attempts,
whatever fails

* `TypeCorrect`; `SubmitsKeptOnce` (`Spec => []QueuedOnce`): `Queues` keeps a queue and its batch free of
  repetitions and of each other's requests, `Kept` keeps a waiting request in one of them, and `Phases`
  says when a batch may be replaced; cutting the queue in two is a lemma on sequences.
* `NilIsTrue` (`Spec => []NilMeansLanded`): a request may be told "nothing to write" only because of what is in
  the clone, so `NilLanded` carries, for every request of the batch still to be applied, that a clone that
  already has its tags has them from the branch, or from a request of its queue that shares one of them.
  `Resolved` says that no request is left without an outcome when they are delivered.
* `SuccessorStays`: `Spec => NoStaleOverwrite` under the hypothesis `DistinctTags`, that no two requests of a branch
  write the same tag to the same slot (else a tag in the file does not say whose it is); `batch_replicas` is
  such an instance. The locks do not enter: a push is a fast-forward of the branch the clone was taken from, so
  `SuccessorInv` compares the two. A clone differs from its branch only by commits made in it (`Explained`), a
  tag is in no branch before its request (`Unseen`), and as the check follows the clone, a clone of a
  branch with the successor's tag has no commit of what had been stopped before the successor came (`Unreplaced`).
* `ImplementsWriteBacks`: `Spec => WriteBackSpec` under `DistinctTags`. Beyond the above it needs that a clone that will be
  pushed holds the whole of every request committed in it (`Whole`), and that whoever is committed still waits for
  its answer, so that the push is one of writers at work. The hypothesis is needed because two
  deployments of one tag are not told apart by the branch.
* `SubmitsAttended`: `Spec => []NobodyStranded`: who waits in `Submit` waits for a flush loop that runs. `Attended` is
  its induction: a loop ends only with an empty queue, and a loop is at its batch exactly while it
  holds the lock or has lost it with its connection. `BatchesExclude` (`Spec => []LockExclusive`): no two loops are
  at their batches unless one of them lost its connection, and a loop elsewhere keeps nobody waiting. Together
  they are the safety part of `Answered`.

**RolloutProofs** (assumptions: `RolloutAssumption`, `RolloutStatusAssumption`, `ReportAssumption`), for any monitors, polls and
answers of Argo CD

* `AnnouncementStands`, `DrainSpares`, `SentinelsStay` from the invariant `RolloutInv`: unless the rollout was overtaken
  (`OneDecides`), at most one monitor attends (`OneAttends`), what it takes for its outcome is the row's
  (`OutcomeStands`), and after an announcement of a recorded end nobody attends or resumes (`LastWord`). So
  `AnnouncementStands` says that a lapsed claim of a monitor past its last check, resumed by another, is the only thing
  that can put an end over another. `Stages` and `ClosedDrains` say where
  each error may be.
* `AnnouncementIsOwed`: `Spec => []OutcomeOwed`, the safety part of `RolloutAnnounced`: as long as nothing is
  announced, a monitor is bound to announce an end unless trouble comes, or the rollout is in progress and a replica is
  free to resume it, unless it was `orphaned`: ended when no monitor was `Bound`. Its induction adds why a monitor stops silently (`LostExplained`)
  and that who drains has left somebody to resume (`DrainsSpare`); a step either goes on (`Continues`) or
  ends its monitor (`Leaves`).
* `CausesAreReported`, `DriftsAreReal`, `ReportsAreConsistent` go through the operators of `RolloutStatus`, one
  lemma per section of the report. `ReportAssumption` is what Argo CD is assumed to return: revisions
  of the sources in one of its two encodings, and a result status it knows.

**ClientProofs** (assumptions: `DeadlineAssumption`, `ClientAssumption`)

* `TypeCorrect` and `HandoversBounded` are about `RolloutDeadline`. `DeadlineInv` says that a monitor started
  with timeout `t` at `s` either is the first one or has `s + t` equal to the task's window; `WindowBound` says
  that rounding `t` up to whole polls adds at most one interval, which is why the overshoot does not accumulate.
* `ClientTypeCorrect`, `AttendedNotDeleted`, `AttendedSpared`, `ClientToldTruth` from `ClientInv`: an attended
  rollout is leased and its row there (`Leases`), a short one is over before it is stale (`Spared`), and a waiting
  client polls within its slack of the last time it saw the rollout in progress, before retention can
  reach the row (`Waits`). `ClientAssumption` is that retention is longer than the threshold, a sweep's period and
  that slack.

**ServerProofs** (assumption: `BudgetAssumption`)

* `NothingLeft`, `WriteBacksHaveTime`, `NothingAdded` from `ServerInv`, which contains the types: a registered
  connection has a goroutine that will remove it (`Registered`), no handshake is waiting once the HTTP
  drain ended by itself (`NoRequest`), and no phase begins later than the shares before it allow (`Shares`).
  `BudgetAssumption` is that the shares add up to less than the budget, as the constants of `server.go` do.
* `BannersAreCurrent`: `Spec => []BannerCurrent`, the safety part of `BannerSettles` for any number of tabs: a tab
  with a standing connection and nothing on its way shows the cached reason, unless the watcher has yet to tell of a
  change or the tab is one that nobody told (`untold`). The invariant says what a tab will show in the end (`Follows`): the write under way, else the last
  frame, else the answer of its fetch, else what it shows; `Wires` keeps every open connection registered, an accepted one without writes, every
  pending write one of the last reason, and every connection with one tab. TLC checked it for two tabs and two
  connections (17,684,166 states up to symmetry).

**AccessProofs** (assumptions: `AccessAssumption`, `RequestsAssumption`), for any requests, intervals and changes

* `StalenessIsBounded`, `PrivilegesAreCurrent`, `OutagesAreForgotten`, `ValidSessionsStay` from `AccessInv`: what a
  request has been told was so at an instant since it asked (`Sound`), and what is remembered was so at an instant from
  which it has not yet expired (`Remembered`), whoever's answer it is.

**Only model-checked**: every liveness property (`DeploymentEnds`, `Answered`, `RolloutAnnounced`, `ClientReturns`,
`WatcherSettles`, `BannerSettles`, `ShutdownCompletes`), since the prover does not reason about fairness and ENABLED. What
keeps four of them from failing for good is an invariant and is proved: `LockAtWork`, `NobodyStranded` with
`LockExclusive`, `OutcomeOwed` and `BannerCurrent`. These are defined beside their proofs; TLC has checked each, with its
induction, on the constants of `supersession_faults`, `batch_replicas`, `rollout` and (with a second tab) `server`.

## 7. What is not modelled

* Clock differences between replicas other than `Skew` (which enters a row's `created`), and
  drift: replicas measure elapsed time at the same rate.
* In `TaskLease`, the obsolete-task sweep and retention (they are in `Client`, and as single steps in `Rollout` and
  `Supersession`).
* In `Supersession`, the batched path (BatchWriteBack) and lost claims (TaskLease). Rollback detection,
  which labels a metric. Which override parameters the annotations select, the commit message, the cache of
  clones on disk.
* In `BatchWriteBack`, the index of the clone: a file staged by a commit that failed is in the
  next commit of the same attempt. The check `isSuperseded` is exact there; its failing
  reads are in `Supersession`.
* In `RolloutDeadline`, the wait for the advisory lock is part of `Prelude`, which the code does not bound.
* In `Rollout`, the wording of announcements and reports, and delivery of a notification (one attempt, whose failure is
  logged). In `RolloutStatus`, the parsing of the desired manifests.
* In `Server`, fetches that fail and a tab that does not notice its dead socket. In `Client`, the redirect
  guard, the credentials and the printed address. In `Access`, what makes a JWT valid, and other tokens than one.
* External: Argo CD, Postgres' own clock and connections, the git remote, the OIDC provider; their answers are choices
  of the modules that use them.
* Listing tasks, CORS, Swagger, static files, metrics, configuration, logging: input and output that no
  decision reads. Migrations run before the server starts. Of the web UI only the status service is modelled; the rest
  presents what the API returns. The in-memory repository and lock do each operation in one step under a mutex, and
  serve a single replica.

Documentation and code also differ where no run is needed: the high-availability page has
the owner renew every 10 s, the code every `TaskLeaseTTL / 5` = 6 s.

## 8. What is left

The plan the modules followed put the fleet first (leases, supersession, batches), then a rollout from
start to announcement, then what surrounds it (the lock, the client, the server, the sessions), and proofs last. What
remains of it, in order of worth:

1. The index of the clone in `BatchWriteBack`, and the cache of clones on disk with its reset after a failure.
2. `Rollout` composed with `TaskLease`, so that a lost claim has its cause, and with `Server`'s shutdown.
3. The liveness of ownership without time: an unattended task is eventually attended.

Questions the models already can ask, each a disagreement between code and a comment that
is waiting for a run: an error of the lock after the push (`Deliver` with `cut`), a drain after an unanswered
push, deployments cancelled for a request whose insert then fails, two requests accepted together,
the cancellation whose check cannot read its row, and the lost lock of `Supersession`.
