--------------------------- MODULE BatchWriteBack ---------------------------
(***************************************************************************)
(* Coalesced git write-backs.  A replica's batcher queues the write-backs  *)
(* of its deployments per repository branch; one goroutine per non-empty   *)
(* queue takes a batch, and under the repository's lock clones, commits    *)
(* every request and pushes once, retrying what stays unresolved.  Every   *)
(* request waits for its own outcome.                                      *)
(*                                                                         *)
(* The module follows internal/argocd/batcher.go and internal/argocd/      *)
(* git_writeback_batch.go, with Clone, CommitAppLocal and push of          *)
(* internal/updater/updater.go.  All branches are of one repository, so    *)
(* there is one lock.  A slot is one image parameter of one override file. *)
(***************************************************************************)
EXTENDS Naturals, Sequences, SequencesExt

CONSTANTS
  Request,     \* batchWriteRequests
  Batcher,     \* one per replica
  Branch,
  Slot, Tag,
  At,          \* [Request -> Batcher \X Branch], the queue a request joins
  Writes,      \* [Request -> [a set of slots -> Tag]], its override content
  MaxBatch,    \* GIT_BATCH_MAX_SIZE
  MaxAttempts, \* GIT_MAX_ATTEMPTS
  Faults,      \* what may fail: see Fault
  MayMisconfigure, \* requests whose application's annotations may be refused
  NoTag, NoQueue

Fault == {"git", "commit", "lock"}
Queue == Batcher \X Branch
Tree == [Slot -> Tag \cup {NoTag}]

ASSUME BatchAssumption ==
  /\ At \in [Request -> Queue]
  /\ \A r \in Request : DOMAIN Writes[r] \subseteq Slot /\ Writes[r] \in [DOMAIN Writes[r] -> Tag]
  /\ MaxBatch \in Nat \ {0}
  /\ MaxAttempts \in Nat \ {0}
  /\ Faults \subseteq Fault
  /\ MayMisconfigure \subseteq Request
  /\ NoTag \notin Tag /\ NoQueue \notin Queue

VARIABLES
  answer,     \* [Request -> what its resultCh delivered, or "new", "waiting", "gone"]
  pending,    \* [Queue -> Seq(Request)], Batcher.pending
  active,     \* the queues with a flush goroutine, Batcher.active
  closed,     \* closed batchers, their drainCh with them
  exited,     \* batchers whose process has ended
  loop,       \* [Queue -> control point of its flush goroutine]
  batch,      \* [Queue -> Seq(Request)]
  outcome,    \* [Request -> Outcome or "none"], the outcomes map of its batch
  committed,  \* requests with a local commit in the attempt under way
  todo,       \* [Queue -> the requests the attempt has still to apply]
  attempt,    \* [Queue -> Nat]
  disk, head, \* [Queue -> Tree], files and last commit of the queue's clone
  fresh,      \* queues whose clone is based on the branch's tip
  lock,       \* the queue holding the repository's advisory lock
  cut,        \* queues whose lock transaction has lost its connection
  remote,     \* [Branch -> Tree]
  misconfigured, \* requests whose annotations are refused
  stopped,    \* requests whose isSuperseded() holds
  landed,     \* requests whose commit was pushed, or whose tags the branch held
              \* while they waited (history)
  replaced    \* [Request -> those stopped before it was submitted] (history)

queueVars == <<answer, pending, active, batch>>
runVars == <<outcome, attempt>>
cloneVars == <<committed, todo, disk, head, fresh>>
lockVars == <<lock, cut>>
gitVars == <<remote, landed>>
envVars == <<closed, exited, misconfigured, stopped, replaced>>
vars == <<queueVars, loop, runVars, cloneVars, lockVars, gitVars, envVars>>

Outcome == {"nil", "superseded", "config", "failed", "draining", "lock", "closed"}
Loop == {"idle", "picking", "locking", "attempting", "applying", "pushing",
         "backoff", "delivering"}

TypeOK ==
  /\ answer \in [Request -> Outcome \cup {"new", "waiting", "gone"}]
  /\ pending \in [Queue -> Seq(Request)]
  /\ active \in SUBSET Queue
  /\ closed \in SUBSET Batcher /\ exited \in SUBSET Batcher
  /\ loop \in [Queue -> Loop]
  /\ batch \in [Queue -> Seq(Request)]
  /\ outcome \in [Request -> Outcome \cup {"none"}]
  /\ committed \in SUBSET Request
  /\ todo \in [Queue -> SUBSET Request]
  /\ attempt \in [Queue -> 0..MaxAttempts]
  /\ disk \in [Queue -> Tree] /\ head \in [Queue -> Tree]
  /\ fresh \in SUBSET Queue
  /\ lock \in Queue \cup {NoQueue}
  /\ cut \in SUBSET Queue
  /\ remote \in [Branch -> Tree]
  /\ misconfigured \in SUBSET Request
  /\ stopped \in SUBSET Request /\ landed \in SUBSET Request
  /\ replaced \in [Request -> SUBSET Request]

Empty == [s \in Slot |-> NoTag]

Init ==
  /\ answer = [r \in Request |-> "new"]
  /\ pending = [q \in Queue |-> <<>>]
  /\ active = {} /\ closed = {} /\ exited = {}
  /\ loop = [q \in Queue |-> "idle"]
  /\ batch = [q \in Queue |-> <<>>]
  /\ outcome = [r \in Request |-> "none"]
  /\ committed = {}
  /\ todo = [q \in Queue |-> {}]
  /\ attempt = [q \in Queue |-> 0]
  /\ disk = [q \in Queue |-> Empty] /\ head = [q \in Queue |-> Empty]
  /\ fresh = {} /\ lock = NoQueue /\ cut = {}
  /\ remote = [b \in Branch |-> Empty]
  /\ misconfigured \in SUBSET MayMisconfigure
  /\ stopped = {} /\ landed = {}
  /\ replaced = [r \in Request |-> {}]

Goes(q, l) == loop' = [loop EXCEPT ![q] = l]

Written(tree, r) ==
  [s \in Slot |-> IF s \in DOMAIN Writes[r] THEN Writes[r][s] ELSE tree[s]]

Holds(tree, r) == Written(tree, r) = tree

-----------------------------------------------------------------------------
(* Submit and the flush goroutine of a queue *)

Submit(r) ==
  LET q == At[r] IN
  /\ answer[r] = "new"
  /\ q[1] \notin exited
  /\ \/ /\ q[1] \in closed
        /\ answer' = [answer EXCEPT ![r] = "closed"]
        /\ UNCHANGED <<pending, active, loop, landed, replaced>>
     \/ /\ q[1] \notin closed
        /\ answer' = [answer EXCEPT ![r] = "waiting"]
        /\ pending' = [pending EXCEPT ![q] = Append(@, r)]
        /\ active' = active \cup {q}
        /\ loop' = IF q \in active THEN loop ELSE [loop EXCEPT ![q] = "picking"]
        /\ landed' = IF Holds(remote[q[2]], r) THEN landed \cup {r} ELSE landed
        /\ replaced' = [replaced EXCEPT ![r] = stopped]
  /\ UNCHANGED <<batch, runVars, cloneVars, lockVars, remote, closed, exited,
                 misconfigured, stopped>>

Least(a, b) == IF a < b THEN a ELSE b

(* Faulty variant of TakeBatch: the remainder starts one request too early. *)
TakeBatchOverlapping(q) ==
  LET n == Least(Len(pending[q]), MaxBatch) IN
  /\ loop[q] = "picking"
  /\ n > 0
  /\ batch' = [batch EXCEPT ![q] = SubSeq(pending[q], 1, n)]
  /\ pending' = [pending EXCEPT ![q] = SubSeq(@, n, Len(@))]
  /\ Goes(q, "locking")
  /\ UNCHANGED <<answer, active, runVars, cloneVars, lockVars, gitVars,
                 envVars>>

TakeBatch(q) ==
  LET n == Least(Len(pending[q]), MaxBatch) IN
  /\ loop[q] = "picking"
  /\ n > 0
  /\ batch' = [batch EXCEPT ![q] = SubSeq(pending[q], 1, n)]
  /\ pending' = [pending EXCEPT ![q] = SubSeq(@, n + 1, Len(@))]
  /\ Goes(q, "locking")
  /\ UNCHANGED <<answer, active, runVars, cloneVars, lockVars, gitVars,
                 envVars>>

(* Faulty variant of LoopEnds: the queue is still marked active.            *)
LoopEndsActive(q) ==
  /\ loop[q] = "picking"
  /\ pending[q] = <<>>
  /\ Goes(q, "idle")
  /\ UNCHANGED <<queueVars, runVars, cloneVars, lockVars, gitVars, envVars>>

(* The emptiness check and the clearing of active are one critical section. *)
LoopEnds(q) ==
  /\ loop[q] = "picking"
  /\ pending[q] = <<>>
  /\ active' = active \ {q}
  /\ Goes(q, "idle")
  /\ UNCHANGED <<answer, pending, batch, runVars, cloneVars, lockVars,
                 gitVars, envVars>>

(* What the clone of q holds is of no more use (Clone resets it); the       *)
(* clones of the queues Q are behind their branch.                          *)
Discard(q, Q) ==
  /\ committed' = committed \ ToSet(batch[q])
  /\ todo' = [todo EXCEPT ![q] = {}]
  /\ disk' = [disk EXCEPT ![q] = Empty]
  /\ head' = [head EXCEPT ![q] = Empty]
  /\ fresh' = fresh \ Q

(* The requests of the batch get their results.                             *)
Answers(q, result) ==
  /\ answer' = [r \in Request |-> IF r \in ToSet(batch[q]) THEN result[r] ELSE answer[r]]
  /\ batch' = [batch EXCEPT ![q] = <<>>]
  /\ outcome' = [r \in Request |-> IF r \in ToSet(batch[q]) THEN "none" ELSE outcome[r]]
  /\ attempt' = [attempt EXCEPT ![q] = 0]
  /\ cut' = cut \ {q}

(* NewGitRepo or the lock's transaction failed before anything was done.    *)
WithLockFails(q) ==
  /\ "lock" \in Faults
  /\ loop[q] = "locking"
  /\ Answers(q, [r \in Request |-> "lock"])
  /\ Goes(q, "picking")
  /\ UNCHANGED <<pending, active, cloneVars, lock, gitVars, envVars>>

WithLock(q) ==
  /\ loop[q] = "locking"
  /\ lock = NoQueue
  /\ lock' = q
  /\ attempt' = [attempt EXCEPT ![q] = 1]
  /\ Goes(q, "attempting")
  /\ UNCHANGED <<queueVars, outcome, cloneVars, cut, gitVars, envVars>>

-----------------------------------------------------------------------------
(* runBatchWriteBack *)

unresolvedRequests(q, out) == {r \in ToSet(batch[q]) : out[r] = "none"}

(* An attempt is over, and the outcomes map is out.                         *)
AttemptOver(q, out, Q) ==
  /\ outcome' = out
  /\ Discard(q, Q)
  /\ Goes(q, IF unresolvedRequests(q, out) = {} THEN "delivering" ELSE "backoff")

Resolve(q, R, o) ==
  [r \in Request |-> IF r \in R /\ r \in ToSet(batch[q]) THEN o ELSE outcome[r]]

Clone(q) ==
  /\ loop[q] = "attempting"
  /\ disk' = [disk EXCEPT ![q] = remote[q[2]]]
  /\ head' = [head EXCEPT ![q] = remote[q[2]]]
  /\ fresh' = fresh \cup {q}
  /\ todo' = [todo EXCEPT ![q] = unresolvedRequests(q, outcome)]
  /\ committed' = committed \ ToSet(batch[q])
  /\ Goes(q, "applying")
  /\ UNCHANGED <<queueVars, runVars, lockVars, gitVars, envVars>>

(* The clone or the push fails, or times out: transiently, ...              *)
AttemptFails(q) ==
  /\ "git" \in Faults
  /\ loop[q] \in {"attempting", "pushing"}
  /\ AttemptOver(q, outcome, {q})
  /\ UNCHANGED <<queueVars, attempt, lockVars, gitVars, envVars>>

(* ... or permanently (updater.IsPermanent): nothing is retried.            *)
FailsPermanently(q) ==
  /\ "git" \in Faults
  /\ loop[q] \in {"attempting", "pushing"}
  /\ AttemptOver(q, Resolve(q, unresolvedRequests(q, outcome), "failed"), {q})
  /\ UNCHANGED <<queueVars, attempt, lockVars, gitVars, envVars>>

(* The next request of the attempt, in the order of the batch               *)
Applying(q, r) ==
  /\ loop[q] = "applying"
  /\ r \in todo[q]
  /\ \E i \in DOMAIN batch[q] :
       batch[q][i] = r /\ \A j \in 1..(i - 1) : batch[q][j] \notin todo[q]

Applied(q, r) == todo' = [todo EXCEPT ![q] = @ \ {r}]

ApplyStopped(q, r) ==
  /\ Applying(q, r)
  /\ r \in stopped
  /\ Applied(q, r)
  /\ outcome' = [outcome EXCEPT ![r] = "superseded"]
  /\ UNCHANGED <<queueVars, loop, attempt, committed, disk, head, fresh,
                 lockVars, gitVars, envVars>>

(* generateOverrideFileContent refuses the application's annotations.       *)
ApplyMisconfigured(q, r) ==
  /\ Applying(q, r)
  /\ r \in misconfigured \ stopped
  /\ Applied(q, r)
  /\ outcome' = [outcome EXCEPT ![r] = "config"]
  /\ UNCHANGED <<queueVars, loop, attempt, committed, disk, head, fresh,
                 lockVars, gitVars, envVars>>

(* CommitAppLocal fails, before or after it wrote the file.                 *)
CommitFails(q, r) ==
  /\ "commit" \in Faults
  /\ Applying(q, r)
  /\ r \notin stopped \cup misconfigured
  /\ Applied(q, r)
  /\ disk' \in {disk, [disk EXCEPT ![q] = Written(@, r)]}
  /\ UNCHANGED <<queueVars, loop, runVars, committed, head, fresh, lockVars,
                 gitVars, envVars>>

(* The file has the tags already: nothing to write.                         *)
ApplyUnchanged(q, r) ==
  /\ Applying(q, r)
  /\ r \notin stopped \cup misconfigured
  /\ Holds(disk[q], r)
  /\ Applied(q, r)
  /\ outcome' = [outcome EXCEPT ![r] = "nil"]
  /\ UNCHANGED <<queueVars, loop, attempt, committed, disk, head, fresh,
                 lockVars, gitVars, envVars>>

(* Faulty variant of CommitAppLocal: isSuperseded is not consulted again.   *)
CommitAppLocalUnchecked(q, r) ==
  /\ Applying(q, r)
  /\ r \notin misconfigured
  /\ ~Holds(disk[q], r)
  /\ Applied(q, r)
  /\ disk' = [disk EXCEPT ![q] = Written(@, r)]
  /\ head' = [head EXCEPT ![q] = Written(@, r)]
  /\ committed' = committed \cup {r}
  /\ UNCHANGED <<queueVars, loop, runVars, fresh, lockVars, gitVars, envVars>>

CommitAppLocal(q, r) ==
  /\ Applying(q, r)
  /\ r \notin stopped \cup misconfigured
  /\ ~Holds(disk[q], r)
  /\ Applied(q, r)
  /\ disk' = [disk EXCEPT ![q] = Written(@, r)]
  /\ head' = [head EXCEPT ![q] = Written(@, r)]
  /\ committed' = committed \cup {r}
  /\ UNCHANGED <<queueVars, loop, runVars, fresh, lockVars, gitVars, envVars>>

(* Every request applied: push if there is a commit.                        *)
EndApply(q) ==
  /\ loop[q] = "applying"
  /\ todo[q] = {}
  /\ IF committed \cap ToSet(batch[q]) = {}
       THEN AttemptOver(q, outcome, {q})
       ELSE Goes(q, "pushing") /\ UNCHANGED <<outcome, cloneVars>>
  /\ UNCHANGED <<queueVars, attempt, lockVars, gitVars, envVars>>

SameBranch(q) == {p \in Queue : p[2] = q[2]}

(* Faulty variant of Push: a push that is not a fast-forward goes through.  *)
PushForced(q) ==
  /\ loop[q] = "pushing"
  /\ remote' = [remote EXCEPT ![q[2]] = head[q]]
  /\ landed' = landed \cup (committed \cap ToSet(batch[q])) \cup {r \in Request :
       answer[r] = "waiting" /\ At[r][2] = q[2] /\ Holds(head[q], r)}

Push(q) ==
  /\ loop[q] = "pushing"
  /\ q \in fresh
  /\ remote' = [remote EXCEPT ![q[2]] = head[q]]
  /\ landed' = landed \cup (committed \cap ToSet(batch[q])) \cup {r \in Request :
       answer[r] = "waiting" /\ At[r][2] = q[2] /\ Holds(head[q], r)}

PushAccepted(q) ==
  /\ Push(q)
  /\ AttemptOver(q, Resolve(q, committed, "nil"), SameBranch(q))
  /\ UNCHANGED <<queueVars, attempt, lockVars, envVars>>

(* The push times out although the remote accepted it.                      *)
PushUnanswered(q) ==
  /\ "git" \in Faults
  /\ Push(q)
  /\ AttemptOver(q, outcome, SameBranch(q))
  /\ UNCHANGED <<queueVars, attempt, lockVars, envVars>>

(* Faulty variant of PushRejected: the commits count as pushed.             *)
PushRejectedUnseen(q) ==
  /\ loop[q] = "pushing"
  /\ q \notin fresh
  /\ AttemptOver(q, Resolve(q, committed, "nil"), {q})
  /\ UNCHANGED <<queueVars, attempt, lockVars, gitVars, envVars>>

(* The branch moved since the clone: not a fast-forward.                    *)
PushRejected(q) ==
  /\ loop[q] = "pushing"
  /\ q \notin fresh
  /\ AttemptOver(q, outcome, {q})
  /\ UNCHANGED <<queueVars, attempt, lockVars, gitVars, envVars>>

(* backoffBeforeBatchRetry: out of attempts, stopped by the drain, or again  *)
(* (the backoff may end as the drain begins, and either may be seen first). *)
Exhausted(q) == attempt[q] >= MaxAttempts

Retry(q) ==
  /\ loop[q] = "backoff"
  /\ ~Exhausted(q)
  /\ attempt' = [attempt EXCEPT ![q] = @ + 1]
  /\ Goes(q, "attempting")
  /\ UNCHANGED <<queueVars, outcome, cloneVars, lockVars, gitVars, envVars>>

resolveRemaining(q) ==
  /\ loop[q] = "backoff"
  /\ Exhausted(q) \/ q[1] \in closed
  /\ outcome' = Resolve(q, unresolvedRequests(q, outcome),
                         IF Exhausted(q) THEN "failed" ELSE "draining")
  /\ Goes(q, "delivering")
  /\ UNCHANGED <<queueVars, attempt, cloneVars, lockVars, gitVars, envVars>>

(* The lock's transaction ends; if its commit fails, every request gets     *)
(* that error instead of its outcome.                                       *)
Deliver(q) ==
  /\ loop[q] = "delivering"
  /\ Answers(q, [r \in Request |-> IF q \in cut THEN "lock" ELSE outcome[r]])
  /\ lock' = IF lock = q THEN NoQueue ELSE lock
  /\ Goes(q, "picking")
  /\ UNCHANGED <<pending, active, cloneVars, gitVars, envVars>>

-----------------------------------------------------------------------------
(* The environment *)

(* The transaction holding the lock loses its connection; Postgres frees    *)
(* the lock, the write-back goes on.                                        *)
LoseConnection(q) ==
  /\ "lock" \in Faults
  /\ lock = q
  /\ lock' = NoQueue
  /\ cut' = cut \cup {q}
  /\ UNCHANGED <<queueVars, loop, runVars, cloneVars, gitVars, envVars>>

(* A newer deployment, a lost claim, or a draining replica.                 *)
Stop(r) ==
  /\ r \notin stopped
  /\ answer[r] = "waiting"
  /\ stopped' = stopped \cup {r}
  /\ UNCHANGED <<queueVars, loop, runVars, cloneVars, lockVars, gitVars,
                 closed, exited, misconfigured, replaced>>

(* Another writer advances a branch; it leaves the override files alone.    *)
ForeignPush(b) ==
  /\ "git" \in Faults
  /\ \E q \in fresh : q[2] = b
  /\ fresh' = {q \in fresh : q[2] # b}
  /\ UNCHANGED <<queueVars, loop, runVars, committed, todo, disk, head,
                 lockVars, gitVars, envVars>>

Close(b) ==
  /\ b \notin closed \cup exited
  /\ closed' = closed \cup {b}
  /\ UNCHANGED <<queueVars, loop, runVars, cloneVars, lockVars, gitVars,
                 exited, misconfigured, stopped, replaced>>

(* The process ends once Close has returned (drained, or out of time).      *)
Exit(b) ==
  LET mine == {q \in Queue : q[1] = b} IN
  /\ b \in closed \ exited
  /\ exited' = exited \cup {b}
  /\ answer' = [r \in Request |->
       IF At[r] \in mine /\ answer[r] = "waiting" THEN "gone" ELSE answer[r]]
  /\ pending' = [q \in Queue |-> IF q \in mine THEN <<>> ELSE pending[q]]
  /\ batch' = [q \in Queue |-> IF q \in mine THEN <<>> ELSE batch[q]]
  /\ loop' = [q \in Queue |-> IF q \in mine THEN "idle" ELSE loop[q]]
  /\ attempt' = [q \in Queue |-> IF q \in mine THEN 0 ELSE attempt[q]]
  /\ todo' = [q \in Queue |-> IF q \in mine THEN {} ELSE todo[q]]
  /\ disk' = [q \in Queue |-> IF q \in mine THEN Empty ELSE disk[q]]
  /\ head' = [q \in Queue |-> IF q \in mine THEN Empty ELSE head[q]]
  /\ outcome' = [r \in Request |-> IF At[r] \in mine THEN "none" ELSE outcome[r]]
  /\ committed' = {r \in committed : At[r] \notin mine}
  /\ active' = active \ mine
  /\ fresh' = fresh \ mine
  /\ cut' = cut \ mine
  /\ lock' = IF lock \in mine THEN NoQueue ELSE lock
  /\ UNCHANGED <<gitVars, closed, misconfigured, stopped, replaced>>

Flush(q) ==
  \/ TakeBatch(q) \/ LoopEnds(q)
  \/ Clone(q) \/ AttemptFails(q) \/ FailsPermanently(q)
  \/ \E r \in Request :
       \/ ApplyStopped(q, r) \/ ApplyMisconfigured(q, r) \/ CommitFails(q, r)
       \/ ApplyUnchanged(q, r) \/ CommitAppLocal(q, r)
  \/ EndApply(q) \/ PushAccepted(q) \/ PushUnanswered(q) \/ PushRejected(q)
  \/ Retry(q) \/ resolveRemaining(q) \/ Deliver(q)

Next ==
  \/ \E q \in Queue : Flush(q) \/ WithLock(q) \/ WithLockFails(q) \/ LoseConnection(q)
  \/ \E r \in Request : Submit(r) \/ Stop(r)
  \/ \E b \in Branch : ForeignPush(b)
  \/ \E b \in Batcher : Close(b) \/ Exit(b)

(* A flush goroutine that can run does (its git calls are bounded by        *)
(* GIT_OP_TIMEOUT), and waiters for the lock are served in turn.            *)
Fairness == \A q \in Queue : WF_vars(Flush(q)) /\ SF_vars(WithLock(q))

Spec == Init /\ [][Next]_vars /\ Fairness

-----------------------------------------------------------------------------
(* Properties *)

(* Where a request is in its queue and in its batch.                        *)
Places(r) ==
  {<<"pending", i>> : i \in {i \in DOMAIN pending[At[r]] : pending[At[r]][i] = r}} \cup
  {<<"batch", i>> : i \in {i \in DOMAIN batch[At[r]] : batch[At[r]][i] = r}}

(* A submitted request is in its queue or in its batch, once, until it is   *)
(* answered, so that resultCh (of capacity one) gets exactly one result.    *)
QueuedOnce ==
  \A r \in Request :
    IF answer[r] = "waiting" THEN \E p \in Places(r) : Places(r) = {p}
                             ELSE Places(r) = {}

(* A deployment waiting in Submit gets an outcome unless its process ends:  *)
(* no hand-over between a Submit and an ending flush loop loses it.         *)
Answered == \A r \in Request : answer[r] = "waiting" ~> answer[r] # "waiting"

SharesTag(r, p) ==
  /\ p # r /\ At[p] = At[r]
  /\ \E s \in DOMAIN Writes[p] \cap DOMAIN Writes[r] : Writes[p][s] = Writes[r][s]

(* The outcome nil means the commit was pushed, or the branch had its tags  *)
(* already; requests for a tag another one of the queue writes to the same  *)
(* file are left to NilMeansWritten.                                        *)
NilMeansLanded ==
  \A r \in Request :
    answer[r] = "nil" => r \in landed \/ \E p \in Request : SharesTag(r, p)

(* The tags of a request stopped before a newer one was submitted never     *)
(* replace the newer one's, whatever the attempts, the replicas and the     *)
(* lock do (the check in applyRequest comes after the clone).               *)
NoStaleOverwrite ==
  [][\A q \in Queue, s \in Slot, new \in Request :
       LET old == remote[q[2]][s]
           now == remote'[q[2]][s]
       IN s \in DOMAIN Writes[new] /\ At[new][2] = q[2] /\ old = Writes[new][s] /\ now # old
            => \E r \in Request \ replaced[new] :
                 s \in DOMAIN Writes[r] /\ Writes[r][s] = now]_vars

(* What WriteBacks sees of a request.                                       *)
branchOf == [r \in Request |-> At[r][2]]

progress == [r \in Request |->
  CASE answer[r] = "new" -> "new"
    [] answer[r] = "waiting" -> "active"
    [] OTHER -> "over"]

barred == [r \in Request |-> {p \in replaced[r] :
  At[p][2] = At[r][2] /\ DOMAIN Writes[p] \cap DOMAIN Writes[r] # {}}]

Promise ==
  INSTANCE WriteBacks WITH
    Writer <- Request, Branch <- Branch, Slot <- Slot, Tag <- Tag, NoTag <- NoTag,
    Where <- branchOf, Writes <- Writes,
    state <- progress, tree <- remote, stopped <- stopped, barred <- barred

(* The write-backs, coalesced and retried on any number of replicas, do     *)
(* what WriteBacks allows: whole contents, each of a request that waits,    *)
(* never over a successor's.                                                *)
WriteBackSpec == Promise!Spec

(* What runBatchWriteBack says of the outcome nil: committed and pushed, or *)
(* nothing to write.                                                        *)
NilMeansWritten == \A r \in Request : answer[r] = "nil" => r \in landed
=============================================================================
