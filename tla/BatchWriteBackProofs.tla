------------------------ MODULE BatchWriteBackProofs ------------------------
(***************************************************************************)
(* Proofs about BatchWriteBack: no Submit is lost or answered twice, what  *)
(* the outcome nil means, and that a stopped request does not overwrite    *)
(* its successor, for any number of batchers, branches, requests and       *)
(* attempts, whatever fails.                                               *)
(***************************************************************************)
EXTENDS BatchWriteBack, SequenceTheorems, TLAPS

-----------------------------------------------------------------------------
(* The inductive invariant *)

(* The queue and the batch of q hold requests of q that wait, none twice.   *)
Queues ==
  \A q \in Queue :
    /\ \A i \in DOMAIN pending[q] : At[pending[q][i]] = q /\ answer[pending[q][i]] = "waiting"
    /\ \A i \in DOMAIN batch[q] : At[batch[q][i]] = q /\ answer[batch[q][i]] = "waiting"
    /\ \A i, j \in DOMAIN pending[q] : pending[q][i] = pending[q][j] => i = j
    /\ \A i, j \in DOMAIN batch[q] : batch[q][i] = batch[q][j] => i = j
    /\ \A i \in DOMAIN pending[q], j \in DOMAIN batch[q] : pending[q][i] # batch[q][j]

(* No waiting request is lost.                                              *)
Kept ==
  \A r \in Request : answer[r] = "waiting" =>
    \/ \E i \in DOMAIN pending[At[r]] : pending[At[r]][i] = r
    \/ \E i \in DOMAIN batch[At[r]] : batch[At[r]][i] = r

(* A loop that picks has no batch, a queue that is not active no loop, and  *)
(* requests are left to apply only while they are applied.                  *)
Phases ==
  \A q \in Queue :
    /\ loop[q] \in {"idle", "picking"} => batch[q] = <<>>
    /\ q \notin active => loop[q] = "idle"
    /\ loop[q] # "applying" => todo[q] = {}
    /\ todo[q] \subseteq ToSet(batch[q])

(* What NilMeansLanded asks of the outcome nil.                             *)
Landed(r) == r \in landed \/ \E p \in Request : SharesTag(r, p)

(* A request whose tags the branch holds while it waits has landed; one     *)
(* still to be applied whose tags are in the clone landed before the clone  *)
(* was taken, unless another request of its queue wrote one of them.        *)
NilLanded ==
  /\ \A r \in Request : outcome[r] = "nil" \/ answer[r] = "nil" => Landed(r)
  /\ \A r \in Request :
       answer[r] = "waiting" /\ Holds(remote[At[r][2]], r) => r \in landed
  /\ \A q \in Queue, r \in Request : r \in todo[q] /\ Holds(disk[q], r) => Landed(r)

(* Every request of a batch has its outcome when they are delivered.        *)
Resolved ==
  \A q \in Queue : loop[q] = "delivering" => \A r \in ToSet(batch[q]) : outcome[r] # "none"

BatchInv == TypeOK /\ Queues /\ Kept /\ Phases /\ Resolved /\ NilLanded

LEMMA InitBatchInv == Init => BatchInv
<1> SUFFICES ASSUME Init PROVE BatchInv
  OBVIOUS
<1> USE BatchAssumption DEF Init
<1>1. TypeOK
  BY DEF TypeOK, Outcome, Loop, Tree, Empty
<1>2. Queues /\ Kept
  BY DEF Queues, Kept
<1>3. Phases /\ Resolved
  BY DEF Phases, Resolved
<1>4. NilLanded
  BY DEF NilLanded
<1> QED
  BY <1>1, <1>2, <1>3, <1>4 DEF BatchInv

-----------------------------------------------------------------------------
(* Trees *)

LEMMA WrittenTree ==
  ASSUME NEW tree \in Tree, NEW r \in Request
  PROVE  Written(tree, r) \in Tree
BY BatchAssumption DEF Written, Tree

LEMMA HoldsTags ==
  ASSUME NEW tree \in Tree, NEW r \in Request
  PROVE  Holds(tree, r) <=> \A s \in DOMAIN Writes[r] : tree[s] = Writes[r][s]
<1>1. /\ DOMAIN Writes[r] \subseteq Slot
      /\ tree = [s \in Slot |-> tree[s]]
  BY BatchAssumption DEF Tree
<1> QED
  BY <1>1 DEF Holds, Written

(* A clone in which p has just been written holds r only if it did before,  *)
(* or if they share a tag.                                                  *)
LEMMA WriteSharesTag ==
  ASSUME NEW tree \in Tree, NEW p \in Request, NEW r \in Request \ {p},
         At[p] = At[r], Holds(Written(tree, p), r)
  PROVE  Holds(tree, r) \/ SharesTag(r, p)
<1>1. \A s \in DOMAIN Writes[r] : Written(tree, p)[s] = Writes[r][s]
  BY WrittenTree, HoldsTags
<1>2. \A s \in Slot : Written(tree, p)[s] = IF s \in DOMAIN Writes[p] THEN Writes[p][s] ELSE tree[s]
  BY DEF Written
<1>3. DOMAIN Writes[r] \subseteq Slot
  BY BatchAssumption
<1>4. CASE \E s \in DOMAIN Writes[p] \cap DOMAIN Writes[r] : TRUE
  BY <1>1, <1>2, <1>3, <1>4 DEF SharesTag
<1>5. CASE ~\E s \in DOMAIN Writes[p] \cap DOMAIN Writes[r] : TRUE
  BY <1>1, <1>2, <1>3, <1>5, HoldsTags
<1> QED
  BY <1>4, <1>5

-----------------------------------------------------------------------------
(* Types *)

LEMMA BatchTypes ==
  ASSUME TypeOK, NEW q \in Queue
  PROVE  /\ ToSet(batch[q]) \subseteq Request
         /\ ToSet(pending[q]) \subseteq Request
<1>1. batch[q] \in Seq(Request) /\ pending[q] \in Seq(Request)
  BY DEF TypeOK
<1> QED
  BY <1>1, ElementOfSeq DEF ToSet

LEMMA EmptyTree == Empty \in Tree
BY DEF Empty, Tree

LEMMA LandedGrows ==
  ASSUME NEW r \in Request, Landed(r), landed \subseteq landed'
  PROVE  Landed(r)'
BY DEF Landed

-----------------------------------------------------------------------------
(* The steps of a write-back *)

(* A step of the write-back of q that leaves l, R, d as the control point,  *)
(* the requests to apply and the files of q.                                *)
Works(q, l, R, d) ==
  /\ UNCHANGED <<answer, pending, active, batch, closed, exited, misconfigured, stopped, replaced>>
  /\ loop' = [loop EXCEPT ![q] = l]
  /\ todo' = [todo EXCEPT ![q] = R]
  /\ disk' = [disk EXCEPT ![q] = d]

(* The other variables keep their types.                                    *)
OthersTyped ==
  /\ outcome' \in [Request -> Outcome \cup {"none"}]
  /\ committed' \in SUBSET Request
  /\ attempt' \in [Queue -> 0..MaxAttempts]
  /\ head' \in [Queue -> Tree]
  /\ fresh' \in SUBSET Queue
  /\ lock' \in Queue \cup {NoQueue}
  /\ cut' \in SUBSET Queue
  /\ remote' \in [Branch -> Tree]
  /\ landed' \in SUBSET Request

LEMMA WorkKeepsInv ==
  ASSUME BatchInv, NEW q \in Queue, loop[q] \notin {"idle", "picking"},
         NEW l \in Loop \ {"idle", "picking"}, NEW R \in SUBSET ToSet(batch[q]),
         NEW d \in Tree, Works(q, l, R, d), OthersTyped,
         l # "applying" => R = {},
         \A r \in Request : outcome'[r] # outcome[r] =>
           r \in ToSet(batch[q]) /\ outcome'[r] # "none" /\ (outcome'[r] = "nil" => Landed(r)'),
         l = "delivering" => \A r \in ToSet(batch[q]) : outcome'[r] # "none",
         landed \subseteq landed',
         \A r \in Request :
           answer[r] = "waiting" /\ Holds(remote'[At[r][2]], r) => r \in landed',
         \A r \in R : Holds(d, r) => Landed(r)'
  PROVE  BatchInv'
<1> USE DEF BatchInv
<1>1. ToSet(batch[q]) \subseteq Request
  BY BatchTypes
<1>2. TypeOK'
  BY <1>1 DEF TypeOK, Works, OthersTyped
<1>3. Queues' /\ Kept'
  BY DEF Queues, Kept, Works
<1>4. Phases'
  BY DEF Phases, Works, TypeOK
<1>5. Resolved'
  <2> SUFFICES ASSUME NEW p \in Queue, loop'[p] = "delivering", NEW r \in ToSet(batch[p])
               PROVE  outcome'[r] # "none"
    BY DEF Resolved, Works
  <2>1. r \in Request
    BY BatchTypes
  <2>2. CASE p = q
    BY <2>2 DEF Works, TypeOK
  <2>3. CASE p # q
    BY <2>1, <2>3 DEF Works, TypeOK, Resolved
  <2> QED
    BY <2>2, <2>3
<1>6. NilLanded'
  <2>1. \A r \in Request : outcome'[r] = "nil" \/ answer'[r] = "nil" => Landed(r)'
    BY LandedGrows DEF NilLanded, Works
  <2>2. \A r \in Request :
          answer'[r] = "waiting" /\ Holds(remote'[At[r][2]], r) => r \in landed'
    BY DEF Works
  <2>3. ASSUME NEW p \in Queue, NEW r \in Request, r \in todo'[p], Holds(disk'[p], r)
        PROVE  Landed(r)'
    <3>1. CASE p = q
      BY <2>3, <3>1 DEF Works, TypeOK
    <3>2. CASE p # q
      BY <2>3, <3>2, LandedGrows DEF Works, TypeOK, NilLanded
    <3> QED
      BY <3>1, <3>2
  <2>4. \A r \in Request : Holds(remote[At[r][2]], r)' <=> Holds(remote'[At[r][2]], r)
    BY DEF Holds, Written
  <2>5. \A p \in Queue, r \in Request : Holds(disk[p], r)' <=> Holds(disk'[p], r)
    BY DEF Holds, Written
  <2> QED
    BY <2>1, <2>2, <2>3, <2>4, <2>5 DEF NilLanded
<1> QED
  BY <1>2, <1>3, <1>4, <1>5, <1>6

(* The branches keep what they hold, or keep their promise.                 *)
LEMMA RemoteSame ==
  ASSUME BatchInv, remote' = remote, landed \subseteq landed'
  PROVE  \A r \in Request :
           answer[r] = "waiting" /\ Holds(remote'[At[r][2]], r) => r \in landed'
BY DEF BatchInv, NilLanded

(* The end of an attempt                                                    *)
LEMMA OverKeepsInv ==
  ASSUME BatchInv, NEW q \in Queue, loop[q] \in {"attempting", "applying", "pushing"},
         NEW out \in [Request -> Outcome \cup {"none"}], NEW Q, AttemptOver(q, out, Q),
         UNCHANGED <<queueVars, attempt, lockVars, envVars>>,
         remote' \in [Branch -> Tree], landed' \in SUBSET Request, landed \subseteq landed',
         \A r \in Request : out[r] # outcome[r] =>
           r \in ToSet(batch[q]) /\ out[r] # "none" /\ (out[r] = "nil" => Landed(r)'),
         \A r \in Request :
           answer[r] = "waiting" /\ Holds(remote'[At[r][2]], r) => r \in landed'
  PROVE  BatchInv'
<1> DEFINE l == IF unresolvedRequests(q, out) = {} THEN "delivering" ELSE "backoff"
<1>1. l \in Loop \ {"idle", "picking", "applying"}
  BY DEF Loop
<1>2. Works(q, l, {}, Empty)
  BY DEF Works, AttemptOver, Discard, Goes, queueVars, envVars
<1>3. OthersTyped
  BY EmptyTree DEF BatchInv, TypeOK, OthersTyped, AttemptOver, Discard, lockVars
<1>4. l = "delivering" => \A r \in ToSet(batch[q]) : outcome'[r] # "none"
  BY DEF AttemptOver, unresolvedRequests
<1>5. outcome' = out
  BY DEF AttemptOver
<1> HIDE DEF l
<1> QED
  BY <1>1, <1>2, <1>3, <1>4, <1>5, EmptyTree, WorkKeepsInv

LEMMA CloneKeepsInv ==
  ASSUME BatchInv, NEW q \in Queue, Clone(q)
  PROVE  BatchInv'
<1> USE DEF Clone, queueVars, runVars, lockVars, gitVars, envVars
<1> DEFINE R == unresolvedRequests(q, outcome)
           d == remote[q[2]]
<1>1. d \in Tree /\ q[2] \in Branch /\ R \subseteq ToSet(batch[q])
  BY DEF BatchInv, TypeOK, Queue, unresolvedRequests
<1>2. Works(q, "applying", R, d)
  BY DEF Works, Goes
<1>3. OthersTyped
  BY <1>1 DEF BatchInv, TypeOK, OthersTyped
<1>4. \A r \in R : Holds(d, r) => Landed(r)'
  <2> SUFFICES ASSUME NEW r \in ToSet(batch[q]), Holds(d, r) PROVE Landed(r)'
    BY <1>1
  <2>1. r \in Request /\ At[r] = q /\ answer[r] = "waiting"
    BY BatchTypes DEF BatchInv, Queues, ToSet
  <2> QED
    BY <2>1 DEF BatchInv, NilLanded, Landed
<1>5. "applying" \in Loop
  BY DEF Loop
<1> HIDE DEF R, d
<1> QED
  BY <1>1, <1>2, <1>3, <1>4, <1>5, RemoteSame, WorkKeepsInv

LEMMA FailureKeepsInv ==
  ASSUME BatchInv, NEW q \in Queue,
         AttemptFails(q) \/ FailsPermanently(q) \/ PushRejected(q)
  PROVE  BatchInv'
<1> USE DEF gitVars
<1>1. loop[q] \in {"attempting", "applying", "pushing"}
  BY DEF AttemptFails, FailsPermanently, PushRejected
<1>2. outcome \in [Request -> Outcome \cup {"none"}] /\ landed \in SUBSET Request
      /\ remote \in [Branch -> Tree]
  BY DEF BatchInv, TypeOK
<1>3. CASE AttemptFails(q) \/ PushRejected(q)
  BY <1>1, <1>2, <1>3, RemoteSame, OverKeepsInv DEF AttemptFails, PushRejected
<1>4. CASE FailsPermanently(q)
  <2> DEFINE out == Resolve(q, unresolvedRequests(q, outcome), "failed")
  <2>1. /\ out \in [Request -> Outcome \cup {"none"}]
        /\ \A r \in Request : out[r] # outcome[r] => r \in ToSet(batch[q]) /\ out[r] = "failed"
    BY <1>2 DEF Resolve, Outcome
  <2>2. AttemptOver(q, out, {q}) /\ UNCHANGED <<queueVars, attempt, lockVars, gitVars, envVars>>
    BY <1>4 DEF FailsPermanently
  <2> HIDE DEF out
  <2> QED
    BY <1>1, <1>2, <2>1, <2>2, RemoteSame, OverKeepsInv
<1> QED
  BY <1>3, <1>4

(* The requests of an attempt                                               *)
LEMMA ApplyKeepsInv ==
  ASSUME BatchInv, NEW q \in Queue, NEW r \in Request,
         \/ ApplyStopped(q, r) \/ ApplyMisconfigured(q, r) \/ ApplyUnchanged(q, r)
         \/ CommitFails(q, r) \/ CommitAppLocal(q, r)
  PROVE  BatchInv'
<1> USE DEF queueVars, runVars, lockVars, gitVars, envVars
<1>1. /\ loop[q] = "applying" /\ r \in todo[q]
      /\ todo' = [todo EXCEPT ![q] = @ \ {r}]
      /\ loop' = loop /\ remote' = remote /\ landed' = landed
      /\ UNCHANGED <<answer, pending, active, batch, closed, exited, misconfigured, stopped, replaced>>
      /\ UNCHANGED <<attempt, fresh, lock, cut>>
  BY DEF ApplyStopped, ApplyMisconfigured, ApplyUnchanged, CommitFails, CommitAppLocal, Applying, Applied
<1> DEFINE R == todo[q] \ {r}
<1>2. /\ R \subseteq ToSet(batch[q]) /\ r \in ToSet(batch[q]) /\ disk[q] \in Tree
      /\ At[r] = q /\ todo[q] \subseteq Request
      /\ \A p \in R : At[p] = q
  BY <1>1 DEF BatchInv, Phases, Queues, ToSet, TypeOK
<1>3. \A p \in R : Holds(disk[q], p) => Landed(p)'
  BY <1>1, <1>2 DEF BatchInv, NilLanded, Landed
<1>4. /\ \E d \in {disk[q], Written(disk[q], r)} :
           disk' = [disk EXCEPT ![q] = d]
      /\ committed' \in SUBSET Request
      /\ head' \in [Queue -> Tree]
  <2>1. Written(disk[q], r) \in Tree /\ Written(head[q], r) \in Tree
    BY WrittenTree DEF BatchInv, TypeOK
  <2>2. disk = [disk EXCEPT ![q] = disk[q]]
    BY DEF BatchInv, TypeOK
  <2>3. head \in [Queue -> Tree] /\ committed \in SUBSET Request
    BY DEF BatchInv, TypeOK
  <2> QED
    BY <2>1, <2>2, <2>3 DEF ApplyStopped, ApplyMisconfigured, ApplyUnchanged, CommitFails, CommitAppLocal
<1>5. PICK d \in {disk[q], Written(disk[q], r)} : disk' = [disk EXCEPT ![q] = d]
  BY <1>4
<1>6. d \in Tree
  BY <1>2, WrittenTree
<1>7. \A p \in R : Holds(d, p) => Landed(p)'
  <2> SUFFICES ASSUME NEW p \in R, Holds(d, p) PROVE Landed(p)'
    OBVIOUS
  <2>1. Holds(disk[q], p) \/ SharesTag(p, r)
    BY <1>2, <1>5, WriteSharesTag
  <2> QED
    BY <1>2, <1>3, <2>1 DEF Landed
<1>8. /\ outcome' \in [Request -> Outcome \cup {"none"}]
      /\ \A p \in Request : outcome'[p] # outcome[p] =>
           p = r /\ outcome'[p] # "none" /\ (outcome'[p] = "nil" => Landed(p)')
  <2>1. outcome \in [Request -> Outcome \cup {"none"}]
    BY DEF BatchInv, TypeOK
  <2>2. CASE ApplyUnchanged(q, r)
    <3>1. outcome' = [outcome EXCEPT ![r] = "nil"] /\ Landed(r)'
      BY <1>1, <2>2 DEF ApplyUnchanged, BatchInv, NilLanded, Landed
    <3> QED
      BY <2>1, <3>1 DEF Outcome
  <2>3. CASE \E o \in {"superseded", "config"} : outcome' = [outcome EXCEPT ![r] = o]
    BY <2>1, <2>3 DEF Outcome
  <2>4. CASE outcome' = outcome
    BY <2>1, <2>4
  <2> QED
    BY <2>2, <2>3, <2>4 DEF ApplyStopped, ApplyMisconfigured, CommitFails, CommitAppLocal
<1>9. Works(q, "applying", R, d)
  BY <1>1, <1>5 DEF Works, BatchInv, TypeOK
<1>10. OthersTyped
  BY <1>1, <1>4, <1>8 DEF OthersTyped, BatchInv, TypeOK
<1>11. "applying" \in Loop
  BY DEF Loop
<1> HIDE DEF R
<1> QED
  BY <1>1, <1>2, <1>6, <1>7, <1>8, <1>9, <1>10, <1>11, RemoteSame, WorkKeepsInv

LEMMA EndApplyKeepsInv ==
  ASSUME BatchInv, NEW q \in Queue, EndApply(q)
  PROVE  BatchInv'
<1> USE DEF EndApply, queueVars, lockVars, gitVars, envVars
<1>1. /\ outcome \in [Request -> Outcome \cup {"none"}] /\ landed \in SUBSET Request
      /\ remote \in [Branch -> Tree] /\ disk \in [Queue -> Tree]
      /\ todo \in [Queue -> SUBSET Request]
  BY DEF BatchInv, TypeOK
<1>2. CASE AttemptOver(q, outcome, {q})
  BY <1>1, <1>2, RemoteSame, OverKeepsInv
<1>3. CASE Goes(q, "pushing") /\ UNCHANGED <<outcome, cloneVars>>
  <2>1. Works(q, "pushing", {}, disk[q])
    BY <1>1, <1>3 DEF Works, Goes, cloneVars
  <2>2. OthersTyped
    BY <1>3 DEF OthersTyped, BatchInv, TypeOK, cloneVars
  <2>3. "pushing" \in Loop
    BY DEF Loop
  <2> QED
    BY <1>1, <1>3, <2>1, <2>2, <2>3, RemoteSame, WorkKeepsInv
<1> QED
  BY <1>2, <1>3

(* A push moves a branch; what waits and is held by it then has landed.     *)
LEMMA PushKeepsPromise ==
  ASSUME BatchInv, NEW q \in Queue, Push(q), answer' = answer
  PROVE  /\ remote' \in [Branch -> Tree] /\ landed' \in SUBSET Request
         /\ landed \subseteq landed'
         /\ committed \cap ToSet(batch[q]) \subseteq landed'
         /\ \A r \in Request :
              answer[r] = "waiting" /\ Holds(remote'[At[r][2]], r) => r \in landed'
<1>1. /\ q[2] \in Branch /\ head[q] \in Tree /\ remote \in [Branch -> Tree]
      /\ landed \in SUBSET Request /\ committed \in SUBSET Request
  BY DEF BatchInv, TypeOK, Queue
<1>2. /\ remote' = [remote EXCEPT ![q[2]] = head[q]]
      /\ landed' = landed \cup (committed \cap ToSet(batch[q])) \cup {r \in Request :
           answer[r] = "waiting" /\ At[r][2] = q[2] /\ Holds(head[q], r)}
  BY DEF Push
<1>3. ASSUME NEW r \in Request, answer[r] = "waiting", Holds(remote'[At[r][2]], r)
      PROVE  r \in landed'
  <2>1. At[r][2] \in Branch
    BY BatchAssumption DEF Queue
  <2>2. CASE At[r][2] = q[2]
    <3>1. remote'[At[r][2]] = head[q]
      BY <1>1, <1>2, <2>2
    <3>2. Holds(head[q], r)
      BY <1>3, <3>1
    <3> QED
      BY <1>2, <1>3, <2>2, <3>2
  <2>3. CASE At[r][2] # q[2]
    BY <1>1, <1>2, <1>3, <2>1, <2>3 DEF BatchInv, NilLanded
  <2> QED
    BY <2>2, <2>3
<1> QED
  BY <1>1, <1>2, <1>3

LEMMA PushKeepsInv ==
  ASSUME BatchInv, NEW q \in Queue, PushAccepted(q) \/ PushUnanswered(q)
  PROVE  BatchInv'
<1>1. /\ loop[q] = "pushing" /\ Push(q) /\ answer' = answer
      /\ UNCHANGED <<queueVars, attempt, lockVars, envVars>>
      /\ outcome \in [Request -> Outcome \cup {"none"}]
  BY DEF PushAccepted, PushUnanswered, Push, queueVars, BatchInv, TypeOK
<1>2. /\ remote' \in [Branch -> Tree] /\ landed' \in SUBSET Request
      /\ landed \subseteq landed'
      /\ committed \cap ToSet(batch[q]) \subseteq landed'
      /\ \A r \in Request :
           answer[r] = "waiting" /\ Holds(remote'[At[r][2]], r) => r \in landed'
  BY <1>1, PushKeepsPromise
<1>3. CASE PushUnanswered(q)
  BY <1>1, <1>2, <1>3, OverKeepsInv DEF PushUnanswered
<1>4. CASE PushAccepted(q)
  <2> DEFINE out == Resolve(q, committed, "nil")
  <2>1. /\ out \in [Request -> Outcome \cup {"none"}]
        /\ \A r \in Request : out[r] # outcome[r] =>
             r \in committed \cap ToSet(batch[q]) /\ out[r] = "nil"
    BY <1>1 DEF Resolve, Outcome
  <2>2. \A r \in Request : out[r] # outcome[r] => Landed(r)'
    BY <1>2, <2>1 DEF Landed
  <2>3. AttemptOver(q, out, SameBranch(q))
    BY <1>4 DEF PushAccepted
  <2> HIDE DEF out
  <2> QED
    BY <1>1, <1>2, <2>1, <2>2, <2>3, OverKeepsInv
<1> QED
  BY <1>3, <1>4

(* Between attempts                                                         *)
LEMMA RetryKeepsInv ==
  ASSUME BatchInv, NEW q \in Queue, WithLock(q) \/ Retry(q) \/ resolveRemaining(q)
  PROVE  BatchInv'
<1> USE DEF queueVars, cloneVars, lockVars, gitVars, envVars
<1>1. /\ loop[q] \in {"locking", "backoff"} /\ todo[q] = {}
      /\ outcome \in [Request -> Outcome \cup {"none"}]
      /\ disk \in [Queue -> Tree] /\ todo \in [Queue -> SUBSET Request]
      /\ landed' = landed /\ remote' = remote
  BY DEF WithLock, Retry, resolveRemaining, BatchInv, TypeOK, Phases
<1>2. CASE WithLock(q) \/ Retry(q)
  <2>1. Works(q, "attempting", {}, disk[q])
    BY <1>1, <1>2 DEF WithLock, Retry, Works, Goes
  <2>2. outcome' = outcome
    BY <1>2 DEF WithLock, Retry
  <2>3. attempt' \in [Queue -> 0..MaxAttempts]
    <3>1. attempt \in [Queue -> 0..MaxAttempts] /\ MaxAttempts \in Nat \ {0}
      BY BatchAssumption DEF BatchInv, TypeOK
    <3>2. attempt[q] \in 0..MaxAttempts
      BY <3>1
    <3>3. PICK a \in {1, attempt[q] + 1} :
            attempt' = [attempt EXCEPT ![q] = a] /\ (a = 1 \/ attempt[q] < MaxAttempts)
      BY <1>2, <3>1, <3>2 DEF WithLock, Retry, Exhausted
    <3>4. a \in 0..MaxAttempts
      BY <3>1, <3>2, <3>3
    <3> QED
      BY <3>1, <3>3, <3>4
  <2>4. OthersTyped
    BY <1>2, <2>3 DEF WithLock, Retry, OthersTyped, BatchInv, TypeOK
  <2>5. "attempting" \in Loop
    BY DEF Loop
  <2> QED
    BY <1>1, <2>1, <2>2, <2>4, <2>5, RemoteSame, WorkKeepsInv
<1>3. CASE resolveRemaining(q)
  <2> DEFINE o == IF Exhausted(q) THEN "failed" ELSE "draining"
             out == Resolve(q, unresolvedRequests(q, outcome), o)
  <2>1. o \in Outcome /\ o \notin {"none", "nil"}
    BY DEF Outcome
  <2>2. /\ out \in [Request -> Outcome \cup {"none"}]
        /\ \A r \in Request : out[r] # outcome[r] => r \in ToSet(batch[q]) /\ out[r] = o
        /\ \A r \in ToSet(batch[q]) : r \in Request => out[r] # "none"
    BY <1>1, <2>1 DEF Resolve, unresolvedRequests
  <2>3. outcome' = out
    BY <1>3 DEF resolveRemaining
  <2>4. \A r \in ToSet(batch[q]) : out[r] # "none"
    BY <2>2, BatchTypes DEF BatchInv
  <2> HIDE DEF out, o
  <2>5. Works(q, "delivering", {}, disk[q])
    BY <1>1, <1>3 DEF resolveRemaining, Works, Goes
  <2>6. OthersTyped
    BY <1>3, <2>2, <2>3 DEF resolveRemaining, OthersTyped, BatchInv, TypeOK
  <2>7. "delivering" \in Loop
    BY DEF Loop
  <2> QED
    BY <1>1, <2>1, <2>2, <2>3, <2>4, <2>5, <2>6, <2>7, RemoteSame, WorkKeepsInv
<1> QED
  BY <1>2, <1>3

-----------------------------------------------------------------------------
(* The queue *)

(* What the steps of the queue leave alone.                                 *)
LEMMA FilesKept ==
  ASSUME BatchInv, UNCHANGED <<cloneVars, remote>>, landed \subseteq landed'
  PROVE  /\ \A q \in Queue, r \in Request : r \in todo'[q] /\ Holds(disk'[q], r) => Landed(r)'
         /\ \A r \in Request : Holds(remote[At[r][2]], r)' <=> Holds(remote[At[r][2]], r)
         /\ \A q \in Queue, r \in Request : Holds(disk[q], r)' <=> Holds(disk'[q], r)
<1>1. todo' = todo /\ disk' = disk /\ remote' = remote
  BY DEF cloneVars
<1>2. \A r \in Request : Landed(r) => Landed(r)'
  BY LandedGrows
<1>3. \A q \in Queue, r \in Request : r \in todo'[q] /\ Holds(disk'[q], r) => Landed(r)'
  BY <1>1, <1>2 DEF BatchInv, NilLanded
<1>4. /\ \A r \in Request : Holds(remote[At[r][2]], r)' <=> Holds(remote[At[r][2]], r)
      /\ \A q \in Queue, r \in Request : Holds(disk[q], r)' <=> Holds(disk'[q], r)
  BY <1>1 DEF Holds, Written
<1> QED
  BY <1>3, <1>4

(* With the files as they are, an answer is sound if it was an outcome.     *)
LEMMA AnswersSound ==
  ASSUME BatchInv, UNCHANGED <<cloneVars, remote>>, landed \subseteq landed',
         \A r \in Request : outcome'[r] = "nil" => outcome[r] = "nil",
         \A r \in Request : answer'[r] = "nil" => "nil" \in {answer[r], outcome[r]},
         \A r \in Request :
           answer'[r] = "waiting" /\ Holds(remote[At[r][2]], r) =>
             answer[r] = "waiting" \/ r \in landed'
  PROVE  NilLanded'
<1>1. /\ \A q \in Queue, r \in Request : r \in todo'[q] /\ Holds(disk'[q], r) => Landed(r)'
      /\ \A r \in Request : Holds(remote[At[r][2]], r)' <=> Holds(remote[At[r][2]], r)
      /\ \A q \in Queue, r \in Request : Holds(disk[q], r)' <=> Holds(disk'[q], r)
  BY FilesKept
<1>2. \A r \in Request : outcome'[r] = "nil" \/ answer'[r] = "nil" => Landed(r)'
  BY LandedGrows DEF BatchInv, NilLanded
<1>3. \A r \in Request :
        answer'[r] = "waiting" /\ Holds(remote[At[r][2]], r)' => r \in landed'
  BY <1>1 DEF BatchInv, NilLanded
<1> QED
  BY <1>1, <1>2, <1>3 DEF NilLanded

LEMMA SubmitKeepsInv ==
  ASSUME BatchInv, NEW r \in Request, Submit(r)
  PROVE  BatchInv'
<1> USE DEF BatchInv
<1> DEFINE q == At[r]
<1>1. /\ q \in Queue /\ answer[r] = "new"
      /\ UNCHANGED <<batch, runVars, cloneVars, lockVars, remote, closed, exited,
                     misconfigured, stopped>>
  BY BatchAssumption DEF Submit
<1>4. \A p \in Queue : /\ \A i \in DOMAIN pending[p] : pending[p][i] \in Request \ {r}
                       /\ \A i \in DOMAIN batch[p] : batch[p][i] \in Request \ {r}
  <2>1. \A p \in Queue : pending[p] \in Seq(Request) /\ batch[p] \in Seq(Request)
    BY DEF TypeOK
  <2>2. \A p \in Queue : /\ \A i \in DOMAIN pending[p] : pending[p][i] \in Request
                         /\ \A i \in DOMAIN batch[p] : batch[p][i] \in Request
    BY <2>1, ElementOfSeq
  <2> QED
    BY <1>1, <2>2 DEF Queues
<1>2. CASE /\ answer' = [answer EXCEPT ![r] = "closed"]
           /\ UNCHANGED <<pending, active, loop, landed, replaced>>
  <2> USE <1>1, <1>2 DEF runVars, cloneVars, lockVars
  <2>1. TypeOK'
    BY DEF TypeOK, Outcome
  <2>2. Queues' /\ Kept'
    <3>1. /\ \A p \in Request \ {r} : answer'[p] = answer[p]
          /\ answer'[r] # "waiting"
      BY DEF TypeOK
    <3>2. pending' = pending /\ batch' = batch
      OBVIOUS
    <3> HIDE <1>1, <1>2
    <3>3. Queues'
      BY <1>4, <3>1, <3>2 DEF Queues
    <3>4. Kept'
      BY <3>1, <3>2 DEF Kept
    <3> QED
      BY <3>3, <3>4
  <2>3. Phases' /\ Resolved'
    BY DEF Phases, Resolved
  <2>4. NilLanded'
    BY AnswersSound DEF TypeOK
  <2> QED
    BY <2>1, <2>2, <2>3, <2>4
<1>3. CASE /\ answer' = [answer EXCEPT ![r] = "waiting"]
           /\ pending' = [pending EXCEPT ![q] = Append(@, r)]
           /\ active' = active \cup {q}
           /\ loop' = IF q \in active THEN loop ELSE [loop EXCEPT ![q] = "picking"]
           /\ landed' = IF Holds(remote[q[2]], r) THEN landed \cup {r} ELSE landed
           /\ replaced' = [replaced EXCEPT ![r] = stopped]
  <2> USE <1>1, <1>3 DEF runVars, cloneVars, lockVars
  <2>1. /\ pending[q] \in Seq(Request) /\ Append(pending[q], r) \in Seq(Request)
        /\ Len(Append(pending[q], r)) = Len(pending[q]) + 1
        /\ \A i \in 1..Len(pending[q]) : Append(pending[q], r)[i] = pending[q][i]
        /\ Append(pending[q], r)[Len(pending[q]) + 1] = r
        /\ DOMAIN pending[q] = 1..Len(pending[q]) /\ Len(pending[q]) \in Nat
        /\ DOMAIN Append(pending[q], r) = 1..(Len(pending[q]) + 1)
    BY AppendProperties, LenProperties DEF TypeOK
  <2>2. \A p \in Queue \ {q} : pending'[p] = pending[p]
    BY DEF TypeOK
  <2>3. pending'[q] = Append(pending[q], r)
    BY DEF TypeOK
  <2>4. TypeOK'
    BY <2>1 DEF TypeOK, Loop
  <2>5. \A p \in Request \ {r} : answer'[p] = answer[p]
    BY DEF TypeOK
  <2>6. answer'[r] = "waiting" /\ answer[r] # "waiting"
    BY DEF TypeOK
  <2> HIDE <1>3 DEF q
  <2>8. Queues'
    <3>1. ASSUME NEW p \in Queue, p # q
          PROVE  /\ \A i \in DOMAIN pending'[p] : At[pending'[p][i]] = p /\ answer'[pending'[p][i]] = "waiting"
                 /\ \A i \in DOMAIN batch[p] : At[batch[p][i]] = p /\ answer'[batch[p][i]] = "waiting"
                 /\ \A i, j \in DOMAIN pending'[p] : pending'[p][i] = pending'[p][j] => i = j
                 /\ \A i, j \in DOMAIN batch[p] : batch[p][i] = batch[p][j] => i = j
                 /\ \A i \in DOMAIN pending'[p], j \in DOMAIN batch[p] : pending'[p][i] # batch[p][j]
      BY <2>2, <2>5, <1>4, <3>1 DEF Queues
    <3>2. /\ \A i \in DOMAIN pending'[q] : At[pending'[q][i]] = q /\ answer'[pending'[q][i]] = "waiting"
          /\ \A i \in DOMAIN batch[q] : At[batch[q][i]] = q /\ answer'[batch[q][i]] = "waiting"
          /\ \A i, j \in DOMAIN pending'[q] : pending'[q][i] = pending'[q][j] => i = j
          /\ \A i, j \in DOMAIN batch[q] : batch[q][i] = batch[q][j] => i = j
          /\ \A i \in DOMAIN pending'[q], j \in DOMAIN batch[q] : pending'[q][i] # batch[q][j]
      <4>1. \A i \in DOMAIN pending'[q] :
              \/ i \in DOMAIN pending[q] /\ pending'[q][i] = pending[q][i]
              \/ i = Len(pending[q]) + 1 /\ pending'[q][i] = r
        BY <2>1, <2>3
      <4>2. At[r] = q
        BY DEF q
      <4> QED
        BY <2>5, <2>6, <1>4, <4>1, <4>2 DEF Queues
    <3> QED
      BY <3>1, <3>2 DEF Queues
  <2>9. Kept'
    <3> SUFFICES ASSUME NEW p \in Request, answer'[p] = "waiting"
                 PROVE  \/ \E i \in DOMAIN pending'[At[p]] : pending'[At[p]][i] = p
                        \/ \E i \in DOMAIN batch[At[p]] : batch[At[p]][i] = p
      BY DEF Kept
    <3>1. CASE p = r
      <4>1. Len(pending[q]) + 1 \in DOMAIN pending'[q] /\ pending'[q][Len(pending[q]) + 1] = r
        BY <2>1, <2>3
      <4> QED
        BY <3>1, <4>1 DEF q
    <3>2. CASE p # r
      <4>1. \/ \E i \in DOMAIN pending[At[p]] : pending[At[p]][i] = p
            \/ \E i \in DOMAIN batch[At[p]] : batch[At[p]][i] = p
        BY <2>5, <3>2 DEF Kept
      <4>2. At[p] \in Queue
        BY BatchAssumption
      <4>3. \A i \in DOMAIN pending[At[p]] :
              i \in DOMAIN pending'[At[p]] /\ pending'[At[p]][i] = pending[At[p]][i]
        BY <2>1, <2>2, <2>3, <4>2
      <4> QED
        BY <4>1, <4>3
    <3> QED
      BY <3>1, <3>2
  <2>10. Phases' /\ Resolved'
    BY <1>3 DEF Phases, Resolved, TypeOK
  <2>11. NilLanded'
    <3>1. landed \subseteq landed'
      BY <1>3
    <3>2. Holds(remote[At[r][2]], r) => r \in landed'
      BY <1>3 DEF q
    <3> QED
      BY <2>5, <2>6, <3>1, <3>2, AnswersSound
  <2> QED
    BY <2>4, <2>8, <2>9, <2>10, <2>11
<1> QED
  BY <1>2, <1>3 DEF Submit

(* A batch is the head of its queue, the rest stays.                        *)
LEMMA SplitQueue ==
  ASSUME NEW s \in Seq(Request), NEW n \in 1..Len(s)
  PROVE  /\ SubSeq(s, 1, n) \in Seq(Request) /\ SubSeq(s, n + 1, Len(s)) \in Seq(Request)
         /\ DOMAIN s = 1..Len(s) /\ Len(s) \in Nat
         /\ DOMAIN SubSeq(s, 1, n) = 1..n
         /\ \A i \in 1..n : SubSeq(s, 1, n)[i] = s[i]
         /\ DOMAIN SubSeq(s, n + 1, Len(s)) = 1..(Len(s) - n)
         /\ \A i \in 1..(Len(s) - n) : SubSeq(s, n + 1, Len(s))[i] = s[n + i]
<1>1. Len(s) \in Nat /\ DOMAIN s = 1..Len(s) /\ s \in [1..Len(s) -> Request]
  BY LenProperties
<1>2. /\ SubSeq(s, 1, n) = [i \in 1..n |-> s[i]]
      /\ SubSeq(s, n + 1, Len(s)) = [i \in 1..(Len(s) - n) |-> s[n + i]]
  BY <1>1
<1>3. /\ \A i \in 1..n : s[i] \in Request
      /\ \A i \in 1..(Len(s) - n) : s[n + i] \in Request
  BY <1>1
<1>4. [i \in 1..n |-> s[i]] \in Seq(Request) /\ [i \in 1..(Len(s) - n) |-> s[n + i]] \in Seq(Request)
  BY <1>1, <1>3, IsASeq
<1> QED
  BY <1>1, <1>2, <1>4

LEMMA TakeKeepsInv ==
  ASSUME BatchInv, NEW q \in Queue, TakeBatch(q)
  PROVE  BatchInv'
<1> USE DEF BatchInv
<1> DEFINE n == Least(Len(pending[q]), MaxBatch)
           taken == SubSeq(pending[q], 1, n)
           rest == SubSeq(pending[q], n + 1, Len(pending[q]))
<1>1. /\ loop[q] = "picking" /\ n > 0
      /\ batch' = [batch EXCEPT ![q] = taken]
      /\ pending' = [pending EXCEPT ![q] = rest]
      /\ loop' = [loop EXCEPT ![q] = "locking"]
      /\ UNCHANGED <<answer, active, outcome, attempt, committed, todo, disk, head, fresh, lock,
                     cut, remote, landed, closed, exited, misconfigured, stopped, replaced>>
  BY DEF TakeBatch, Goes, runVars, cloneVars, lockVars, gitVars, envVars
<1>2. pending[q] \in Seq(Request) /\ Len(pending[q]) \in Nat /\ n \in 1..Len(pending[q])
  <2>1. pending[q] \in Seq(Request)
    BY DEF TypeOK
  <2>2. Len(pending[q]) \in Nat
    BY <2>1, LenProperties
  <2> QED
    BY <1>1, <2>1, <2>2, BatchAssumption DEF Least
<1>3. /\ taken \in Seq(Request) /\ rest \in Seq(Request)
      /\ DOMAIN pending[q] = 1..Len(pending[q])
      /\ DOMAIN taken = 1..n /\ \A i \in 1..n : taken[i] = pending[q][i]
      /\ DOMAIN rest = 1..(Len(pending[q]) - n)
      /\ \A i \in 1..(Len(pending[q]) - n) : rest[i] = pending[q][n + i]
  BY <1>2, SplitQueue
<1> HIDE DEF n, taken, rest
<1>4. /\ \A p \in Queue \ {q} : pending'[p] = pending[p] /\ batch'[p] = batch[p] /\ loop'[p] = loop[p]
      /\ pending'[q] = rest /\ batch'[q] = taken /\ loop'[q] = "locking"
  BY <1>1 DEF TypeOK
<1>5. TypeOK'
  BY <1>1, <1>3 DEF TypeOK, Loop
<1>6. Queues'
  <2>1. ASSUME NEW p \in Queue, p # q
        PROVE  /\ \A i \in DOMAIN pending'[p] : At[pending'[p][i]] = p /\ answer[pending'[p][i]] = "waiting"
               /\ \A i \in DOMAIN batch'[p] : At[batch'[p][i]] = p /\ answer[batch'[p][i]] = "waiting"
               /\ \A i, j \in DOMAIN pending'[p] : pending'[p][i] = pending'[p][j] => i = j
               /\ \A i, j \in DOMAIN batch'[p] : batch'[p][i] = batch'[p][j] => i = j
               /\ \A i \in DOMAIN pending'[p], j \in DOMAIN batch'[p] : pending'[p][i] # batch'[p][j]
    BY <1>4, <2>1 DEF Queues
  <2>2. /\ \A i \in 1..n : i \in DOMAIN pending[q]
        /\ \A i \in 1..(Len(pending[q]) - n) : n + i \in DOMAIN pending[q] /\ n + i > n
    BY <1>2, <1>3
  <2>3. /\ \A i \in DOMAIN rest : At[rest[i]] = q /\ answer[rest[i]] = "waiting"
        /\ \A i \in DOMAIN taken : At[taken[i]] = q /\ answer[taken[i]] = "waiting"
    BY <1>3, <2>2 DEF Queues
  <2>4. \A i, j \in DOMAIN rest : rest[i] = rest[j] => i = j
    <3> SUFFICES ASSUME NEW i \in DOMAIN rest, NEW j \in DOMAIN rest, rest[i] = rest[j]
                 PROVE  i = j
      OBVIOUS
    <3>2. /\ n + i \in DOMAIN pending[q] /\ n + j \in DOMAIN pending[q]
          /\ pending[q][n + i] = pending[q][n + j]
      BY <1>3, <2>2
    <3>1. n + i = n + j
      BY <3>2 DEF Queues
    <3> QED
      BY <1>2, <1>3, <3>1
  <2>5. \A i, j \in DOMAIN taken : taken[i] = taken[j] => i = j
    BY <1>3, <2>2 DEF Queues
  <2>6. \A i \in DOMAIN rest, j \in DOMAIN taken : rest[i] # taken[j]
    <3> SUFFICES ASSUME NEW i \in DOMAIN rest, NEW j \in DOMAIN taken, rest[i] = taken[j]
                 PROVE  FALSE
      OBVIOUS
    <3>2. /\ n + i \in DOMAIN pending[q] /\ j \in DOMAIN pending[q]
          /\ pending[q][n + i] = pending[q][j]
      BY <1>3, <2>2
    <3>1. n + i = j
      BY <3>2 DEF Queues
    <3> QED
      BY <1>2, <1>3, <3>1
  <2> QED
    BY <1>1, <1>4, <2>1, <2>3, <2>4, <2>5, <2>6 DEF Queues
<1>7. Kept'
  <2> SUFFICES ASSUME NEW r \in Request, answer[r] = "waiting"
               PROVE  \/ \E i \in DOMAIN pending'[At[r]] : pending'[At[r]][i] = r
                      \/ \E i \in DOMAIN batch'[At[r]] : batch'[At[r]][i] = r
    BY <1>1 DEF Kept
  <2>1. At[r] \in Queue
    BY BatchAssumption
  <2>2. CASE At[r] # q
    BY <1>4, <2>1, <2>2 DEF Kept
  <2>3. CASE At[r] = q
    <3>1. batch[q] = <<>>
      BY <1>1 DEF Phases
    <3>0. DOMAIN batch[q] = {}
      BY <3>1
    <3>2. PICK i \in DOMAIN pending[q] : pending[q][i] = r
      BY <2>3, <3>0 DEF Kept
    <3>3. CASE i <= n
      <4>1. i \in 1..n
        BY <1>2, <1>3, <3>3
      <4>2. i \in DOMAIN taken /\ taken[i] = r
        BY <1>3, <3>2, <4>1
      <4> QED
        BY <1>4, <2>3, <4>2
    <3>4. CASE i > n
      <4>1. i - n \in DOMAIN rest /\ rest[i - n] = pending[q][i]
        <5>1. i - n \in 1..(Len(pending[q]) - n) /\ n + (i - n) = i
          BY <1>2, <1>3, <3>4
        <5> QED
          BY <1>3, <5>1
      <4> QED
        BY <1>4, <2>3, <3>2, <4>1
    <3> QED
      BY <1>2, <1>3, <3>3, <3>4
  <2> QED
    BY <2>2, <2>3
<1>8. Phases'
  <2>1. todo[q] = {}
    BY <1>1 DEF Phases
  <2> QED
    BY <1>1, <1>4, <2>1 DEF Phases
<1>9. Resolved'
  BY <1>1, <1>4 DEF Resolved
<1>10. NilLanded'
  BY <1>1, AnswersSound DEF cloneVars
<1> QED
  BY <1>5, <1>6, <1>7, <1>8, <1>9, <1>10

LEMMA LoopEndsKeepsInv ==
  ASSUME BatchInv, NEW q \in Queue, LoopEnds(q)
  PROVE  BatchInv'
<1> USE DEF BatchInv, LoopEnds, Goes, runVars, cloneVars, lockVars, gitVars, envVars
<1>1. TypeOK'
  BY DEF TypeOK, Loop
<1>2. Queues' /\ Kept'
  BY DEF Queues, Kept
<1>3. Phases' /\ Resolved'
  BY DEF Phases, Resolved, TypeOK
<1>4. NilLanded'
  BY AnswersSound
<1> QED
  BY <1>1, <1>2, <1>3, <1>4

(* The batch gets its answers.                                              *)
LEMMA AnswerKeepsInv ==
  ASSUME BatchInv, NEW q \in Queue, loop[q] \in {"locking", "delivering"},
         NEW result, \A r \in ToSet(batch[q]) : result[r] \in Outcome,
         \A r \in ToSet(batch[q]) : result[r] = "nil" => outcome[r] = "nil",
         Answers(q, result), Goes(q, "picking"), lock' \in Queue \cup {NoQueue},
         UNCHANGED <<pending, active, cloneVars, gitVars, envVars>>
  PROVE  BatchInv'
<1> USE DEF BatchInv
<1>1. /\ \A r \in Request \ ToSet(batch[q]) : answer'[r] = answer[r] /\ outcome'[r] = outcome[r]
      /\ \A r \in ToSet(batch[q]) : r \in Request /\ answer'[r] = result[r] /\ outcome'[r] = "none"
      /\ batch' = [batch EXCEPT ![q] = <<>>]
      /\ loop' = [loop EXCEPT ![q] = "picking"]
      /\ pending' = pending /\ active' = active /\ todo' = todo
  BY BatchTypes DEF Answers, Goes, cloneVars
<1>2. /\ \A p \in Queue \ {q} : batch'[p] = batch[p] /\ loop'[p] = loop[p]
      /\ batch'[q] = <<>> /\ loop'[q] = "picking" /\ DOMAIN batch'[q] = {}
  BY <1>1 DEF TypeOK
<1>3. TypeOK'
  <2>1. answer' \in [Request -> Outcome \cup {"new", "waiting", "gone"}]
    BY <1>1 DEF TypeOK, Answers
  <2>2. /\ batch' \in [Queue -> Seq(Request)] /\ loop' \in [Queue -> Loop]
    BY <1>1, EmptySeq DEF TypeOK, Loop
  <2>3. outcome' \in [Request -> Outcome \cup {"none"}]
    BY DEF Answers, TypeOK
  <2>4. attempt' \in [Queue -> 0..MaxAttempts] /\ cut' \in SUBSET Queue
    BY BatchAssumption DEF Answers, TypeOK
  <2> QED
    BY <2>1, <2>2, <2>3, <2>4 DEF TypeOK, cloneVars, gitVars, envVars
<1>4. Queues' /\ Kept'
  <2>1. \A p \in Queue : /\ \A i \in DOMAIN pending[p] : pending[p][i] \in Request \ ToSet(batch[q])
                         /\ p # q => \A i \in DOMAIN batch[p] : batch[p][i] \in Request \ ToSet(batch[q])
    <3>1. \A p \in Queue : pending[p] \in Seq(Request) /\ batch[p] \in Seq(Request)
      BY DEF TypeOK
    <3>2. \A p \in Queue : /\ \A i \in DOMAIN pending[p] : pending[p][i] \in Request
                           /\ \A i \in DOMAIN batch[p] : batch[p][i] \in Request
      BY <3>1, ElementOfSeq
    <3> QED
      BY <3>2 DEF Queues, ToSet
  <2>2. Queues'
    BY <1>1, <1>2, <2>1 DEF Queues
  <2>3. Kept'
    <3> SUFFICES ASSUME NEW r \in Request, answer'[r] = "waiting"
                 PROVE  \/ \E i \in DOMAIN pending[At[r]] : pending[At[r]][i] = r
                        \/ \E i \in DOMAIN batch'[At[r]] : batch'[At[r]][i] = r
      BY <1>1 DEF Kept
    <3>1. r \notin ToSet(batch[q]) /\ answer[r] = "waiting"
      BY <1>1 DEF Outcome
    <3>2. \A i \in DOMAIN batch[q] : batch[q][i] # r
      BY <3>1 DEF ToSet
    <3>3. At[r] \in Queue
      BY BatchAssumption
    <3> QED
      BY <1>2, <3>1, <3>2, <3>3 DEF Kept
  <2> QED
    BY <2>2, <2>3
<1>5. Phases'
  <2>1. todo[q] = {}
    BY DEF Phases
  <2> QED
    BY <1>1, <1>2, <2>1 DEF Phases
<1>6. Resolved'
  <2> SUFFICES ASSUME NEW p \in Queue, loop'[p] = "delivering", NEW r \in ToSet(batch'[p])
               PROVE  outcome'[r] # "none"
    BY DEF Resolved
  <2>1. p # q /\ loop[p] = "delivering" /\ r \in ToSet(batch[p])
    BY <1>2
  <2>2. r \in Request /\ r \notin ToSet(batch[q])
    BY <2>1, BatchTypes DEF Queues, ToSet
  <2> QED
    BY <1>1, <2>1, <2>2 DEF Resolved
<1>7. NilLanded'
  <2>1. /\ \A r \in Request : outcome'[r] = "nil" => outcome[r] = "nil"
        /\ \A r \in Request : answer'[r] = "nil" => "nil" \in {answer[r], outcome[r]}
        /\ \A r \in Request : answer'[r] = "waiting" => answer[r] = "waiting"
    BY <1>1 DEF Outcome
  <2> QED
    BY <2>1, AnswersSound DEF gitVars
<1> QED
  BY <1>3, <1>4, <1>5, <1>6, <1>7

LEMMA DeliverKeepsInv ==
  ASSUME BatchInv, NEW q \in Queue, WithLockFails(q) \/ Deliver(q)
  PROVE  BatchInv'
<1>1. ToSet(batch[q]) \subseteq Request
  BY BatchTypes DEF BatchInv
<1>2. CASE WithLockFails(q)
  <2> DEFINE result == [r \in Request |-> "lock"]
  <2>1. \A r \in ToSet(batch[q]) : result[r] \in Outcome /\ result[r] # "nil"
    BY <1>1 DEF Outcome
  <2>2. /\ loop[q] = "locking" /\ Answers(q, result) /\ Goes(q, "picking")
        /\ lock' \in Queue \cup {NoQueue}
        /\ UNCHANGED <<pending, active, cloneVars, gitVars, envVars>>
    BY <1>2 DEF WithLockFails, BatchInv, TypeOK
  <2> HIDE DEF result
  <2> QED
    BY <2>1, <2>2, AnswerKeepsInv
<1>3. CASE Deliver(q)
  <2> DEFINE result == [r \in Request |-> IF q \in cut THEN "lock" ELSE outcome[r]]
  <2>1. \A r \in ToSet(batch[q]) : outcome[r] \in Outcome
    BY <1>1, <1>3 DEF Deliver, BatchInv, TypeOK, Resolved
  <2>2. \A r \in ToSet(batch[q]) :
          result[r] \in Outcome /\ (result[r] = "nil" => outcome[r] = "nil")
    BY <1>1, <2>1 DEF Outcome
  <2>3. /\ loop[q] = "delivering" /\ Answers(q, result) /\ Goes(q, "picking")
        /\ lock' \in Queue \cup {NoQueue}
        /\ UNCHANGED <<pending, active, cloneVars, gitVars, envVars>>
    BY <1>3 DEF Deliver, BatchInv, TypeOK
  <2> HIDE DEF result
  <2> QED
    BY <2>2, <2>3, AnswerKeepsInv
<1> QED
  BY <1>2, <1>3

-----------------------------------------------------------------------------
(* The environment *)

LEMMA EnvironmentKeepsInv ==
  ASSUME BatchInv,
         \/ \E q \in Queue : LoseConnection(q)
         \/ \E r \in Request : Stop(r)
         \/ \E b \in Branch : ForeignPush(b)
         \/ \E b \in Batcher : Close(b)
         \/ UNCHANGED vars
  PROVE  BatchInv'
<1> USE DEF BatchInv, LoseConnection, Stop, ForeignPush, Close, vars,
            queueVars, runVars, cloneVars, lockVars, gitVars, envVars
<1>1. UNCHANGED <<queueVars, loop, outcome, attempt, committed, todo, disk, head, remote, landed>>
  OBVIOUS
<1>2. TypeOK'
  BY DEF TypeOK
<1> HIDE DEF LoseConnection, Stop, ForeignPush, Close, vars
<1>3. Queues' /\ Kept'
  BY <1>1 DEF Queues, Kept
<1>4. Phases' /\ Resolved'
  BY <1>1 DEF Phases, Resolved
<1>5. NilLanded'
  <2>1. /\ \A q \in Queue, r \in Request : Holds(disk[q], r)' <=> Holds(disk[q], r)
        /\ \A r \in Request : Holds(remote[At[r][2]], r)' <=> Holds(remote[At[r][2]], r)
    BY <1>1 DEF Holds, Written
  <2>2. \A r \in Request : Landed(r)' <=> Landed(r)
    BY <1>1 DEF Landed
  <2> QED
    BY <1>1, <2>1, <2>2 DEF NilLanded
<1> QED
  BY <1>2, <1>3, <1>4, <1>5

(* The end of a process takes its queues along; what waited there is gone.  *)
LEMMA ExitKeepsInv ==
  ASSUME BatchInv, NEW b \in Batcher, Exit(b)
  PROVE  BatchInv'
<1> USE DEF BatchInv
<1> DEFINE mine == {q \in Queue : q[1] = b}
<1>1. /\ answer' = [r \in Request |->
           IF At[r] \in mine /\ answer[r] = "waiting" THEN "gone" ELSE answer[r]]
      /\ pending' = [q \in Queue |-> IF q \in mine THEN <<>> ELSE pending[q]]
      /\ batch' = [q \in Queue |-> IF q \in mine THEN <<>> ELSE batch[q]]
      /\ loop' = [q \in Queue |-> IF q \in mine THEN "idle" ELSE loop[q]]
      /\ todo' = [q \in Queue |-> IF q \in mine THEN {} ELSE todo[q]]
      /\ disk' = [q \in Queue |-> IF q \in mine THEN Empty ELSE disk[q]]
      /\ outcome' = [r \in Request |-> IF At[r] \in mine THEN "none" ELSE outcome[r]]
      /\ active' = active \ mine
      /\ remote' = remote /\ landed' = landed
  BY DEF Exit, gitVars
<1>2. TypeOK'
  <2>1. /\ head' \in [Queue -> Tree] /\ attempt' \in [Queue -> 0..MaxAttempts]
        /\ committed' \in SUBSET Request /\ fresh' \in SUBSET Queue /\ cut' \in SUBSET Queue
        /\ lock' \in Queue \cup {NoQueue} /\ exited' \in SUBSET Batcher
        /\ UNCHANGED <<closed, misconfigured, stopped, replaced>>
    BY EmptyTree, BatchAssumption DEF Exit, TypeOK
  <2>2. /\ pending' \in [Queue -> Seq(Request)] /\ batch' \in [Queue -> Seq(Request)]
    BY <1>1, EmptySeq DEF TypeOK
  <2>3. /\ answer' \in [Request -> Outcome \cup {"new", "waiting", "gone"}]
        /\ outcome' \in [Request -> Outcome \cup {"none"}]
    BY <1>1 DEF TypeOK
  <2>4. loop' \in [Queue -> Loop] /\ todo' \in [Queue -> SUBSET Request]
    BY <1>1 DEF TypeOK, Loop
  <2>5. disk' \in [Queue -> Tree] /\ active' \in SUBSET Queue
    BY <1>1, EmptyTree DEF TypeOK
  <2> QED
    BY <1>1, <2>1, <2>2, <2>3, <2>4, <2>5 DEF TypeOK
<1> HIDE DEF mine
<1>3. \A q \in Queue :
        /\ q \in mine => /\ pending'[q] = <<>> /\ batch'[q] = <<>> /\ loop'[q] = "idle"
                         /\ todo'[q] = {} /\ DOMAIN pending'[q] = {} /\ DOMAIN batch'[q] = {}
        /\ q \notin mine => /\ pending'[q] = pending[q] /\ batch'[q] = batch[q]
                            /\ loop'[q] = loop[q] /\ todo'[q] = todo[q] /\ disk'[q] = disk[q]
  BY <1>1
<1>4. \A r \in Request : At[r] \notin mine => answer'[r] = answer[r] /\ outcome'[r] = outcome[r]
  BY <1>1
<1>5. \A q \in Queue : /\ \A i \in DOMAIN pending[q] : pending[q][i] \in Request
                       /\ \A i \in DOMAIN batch[q] : batch[q][i] \in Request
  <2>1. \A q \in Queue : pending[q] \in Seq(Request) /\ batch[q] \in Seq(Request)
    BY DEF TypeOK
  <2> QED
    BY <2>1, ElementOfSeq
<1>6. Queues'
  <2> SUFFICES ASSUME NEW q \in Queue
        PROVE  /\ \A i \in DOMAIN pending'[q] : At[pending'[q][i]] = q /\ answer'[pending'[q][i]] = "waiting"
               /\ \A i \in DOMAIN batch'[q] : At[batch'[q][i]] = q /\ answer'[batch'[q][i]] = "waiting"
               /\ \A i, j \in DOMAIN pending'[q] : pending'[q][i] = pending'[q][j] => i = j
               /\ \A i, j \in DOMAIN batch'[q] : batch'[q][i] = batch'[q][j] => i = j
               /\ \A i \in DOMAIN pending'[q], j \in DOMAIN batch'[q] : pending'[q][i] # batch'[q][j]
    BY DEF Queues
  <2>1. CASE q \in mine
    BY <1>3, <2>1
  <2>2. CASE q \notin mine
    BY <1>3, <1>4, <1>5, <2>2 DEF Queues
  <2> QED
    BY <2>1, <2>2
<1>7. Kept'
  <2> SUFFICES ASSUME NEW r \in Request, answer'[r] = "waiting"
               PROVE  \/ \E i \in DOMAIN pending'[At[r]] : pending'[At[r]][i] = r
                      \/ \E i \in DOMAIN batch'[At[r]] : batch'[At[r]][i] = r
    BY DEF Kept
  <2>1. At[r] \in Queue /\ At[r] \notin mine /\ answer[r] = "waiting"
    BY <1>1, BatchAssumption
  <2> QED
    BY <1>3, <2>1 DEF Kept
<1>8. Phases'
  <2> SUFFICES ASSUME NEW q \in Queue
        PROVE  /\ loop'[q] \in {"idle", "picking"} => batch'[q] = <<>>
               /\ q \notin active' => loop'[q] = "idle"
               /\ loop'[q] # "applying" => todo'[q] = {}
               /\ todo'[q] \subseteq ToSet(batch'[q])
    BY DEF Phases
  <2>1. CASE q \in mine
    BY <1>3, <2>1
  <2>2. CASE q \notin mine
    BY <1>1, <1>3, <2>2 DEF Phases
  <2> QED
    BY <2>1, <2>2
<1>9. Resolved'
  <2> SUFFICES ASSUME NEW q \in Queue, loop'[q] = "delivering", NEW r \in ToSet(batch'[q])
               PROVE  outcome'[r] # "none"
    BY DEF Resolved
  <2>1. q \notin mine /\ loop[q] = "delivering" /\ r \in ToSet(batch[q])
    BY <1>3
  <2>2. r \in Request /\ At[r] = q
    BY <1>5, <2>1 DEF Queues, ToSet
  <2> QED
    BY <1>4, <2>1, <2>2 DEF Resolved
<1>10. NilLanded'
  <2>1. /\ \A q \in Queue, r \in Request : Holds(disk[q], r)' <=> Holds(disk'[q], r)
        /\ \A r \in Request : Holds(remote[At[r][2]], r)' <=> Holds(remote[At[r][2]], r)
    BY <1>1 DEF Holds, Written
  <2>2. \A r \in Request : Landed(r)' <=> Landed(r)
    BY <1>1 DEF Landed
  <2>3. \A r \in Request : outcome'[r] = "nil" \/ answer'[r] = "nil" => Landed(r)
    BY <1>1 DEF NilLanded
  <2>4. \A r \in Request : answer'[r] = "waiting" => answer[r] = "waiting"
    BY <1>1
  <2>5. \A q \in Queue, r \in Request : r \in todo'[q] /\ Holds(disk'[q], r) => Landed(r)
    BY <1>3 DEF NilLanded
  <2> QED
    BY <1>1, <2>1, <2>2, <2>3, <2>4, <2>5 DEF NilLanded
<1> QED
  BY <1>2, <1>6, <1>7, <1>8, <1>9, <1>10

LEMMA StepBatchInv == BatchInv /\ [Next]_vars => BatchInv'
<1> SUFFICES ASSUME BatchInv, [Next]_vars PROVE BatchInv'
  OBVIOUS
<1>1. ASSUME NEW q \in Queue, Flush(q) PROVE BatchInv'
  BY <1>1, TakeKeepsInv, LoopEndsKeepsInv, CloneKeepsInv, FailureKeepsInv, ApplyKeepsInv,
     EndApplyKeepsInv, PushKeepsInv, RetryKeepsInv, DeliverKeepsInv DEF Flush
<1>2. ASSUME NEW q \in Queue, WithLock(q) \/ WithLockFails(q) PROVE BatchInv'
  BY <1>2, RetryKeepsInv, DeliverKeepsInv
<1>3. ASSUME NEW r \in Request, Submit(r) PROVE BatchInv'
  BY <1>3, SubmitKeepsInv
<1>4. ASSUME NEW b \in Batcher, Exit(b) PROVE BatchInv'
  BY <1>4, ExitKeepsInv
<1> QED
  BY <1>1, <1>2, <1>3, <1>4, EnvironmentKeepsInv DEF Next

LEMMA BatchInvAlways == Spec => []BatchInv
BY InitBatchInv, StepBatchInv, PTL DEF Spec

-----------------------------------------------------------------------------
(* Every variable of BatchWriteBack keeps its type: the attempts within     *)
(* their maximum, and an answer always one of the outcomes.                 *)
THEOREM TypeCorrect == Spec => []TypeOK
<1>1. BatchInv => TypeOK
  BY DEF BatchInv
<1> QED
  BY <1>1, BatchInvAlways, PTL

(* However the submits meet the ends of the loops, the batches, the drains  *)
(* and the exits, a waiting request is in one place once.                   *)
THEOREM SubmitsKeptOnce == Spec => []QueuedOnce
<1>1. ASSUME BatchInv, NEW r \in Request
      PROVE  IF answer[r] = "waiting" THEN \E p \in Places(r) : Places(r) = {p}
                                      ELSE Places(r) = {}
  <2>1. At[r] \in Queue
    BY BatchAssumption
  <2>2. CASE answer[r] # "waiting"
    BY <1>1, <2>1, <2>2 DEF BatchInv, Queues, Places
  <2>3. CASE answer[r] = "waiting"
    <3>1. CASE \E i \in DOMAIN pending[At[r]] : pending[At[r]][i] = r
      <4>1. PICK i \in DOMAIN pending[At[r]] : pending[At[r]][i] = r
        BY <3>1
      <4>2. Places(r) = {<<"pending", i>>}
        BY <1>1, <2>1, <4>1 DEF BatchInv, Queues, Places
      <4> QED
        BY <2>3, <4>2
    <3>2. CASE \E i \in DOMAIN batch[At[r]] : batch[At[r]][i] = r
      <4>1. PICK i \in DOMAIN batch[At[r]] : batch[At[r]][i] = r
        BY <3>2
      <4>2. Places(r) = {<<"batch", i>>}
        BY <1>1, <2>1, <4>1 DEF BatchInv, Queues, Places
      <4> QED
        BY <2>3, <4>2
    <3> QED
      BY <1>1, <2>3, <3>1, <3>2 DEF BatchInv, Kept
  <2> QED
    BY <2>2, <2>3
<1>2. BatchInv => QueuedOnce
  BY <1>1 DEF QueuedOnce
<1> QED
  BY <1>2, BatchInvAlways, PTL

(* Whatever fails and whoever writes, a Submit that returned nil has its    *)
(* tags in git, unless another request of its queue wrote one of them.      *)
THEOREM NilIsTrue == Spec => []NilMeansLanded
<1>1. BatchInv => NilMeansLanded
  BY DEF BatchInv, NilLanded, Landed, NilMeansLanded
<1> QED
  BY <1>1, BatchInvAlways, PTL
-----------------------------------------------------------------------------
(* Loops and the lock *)

Working == {"attempting", "applying", "pushing", "backoff", "delivering"}

(* A loop ends only when it leaves nothing behind; and a loop is at its     *)
(* batch exactly while it holds the lock, or lost it with its connection.   *)
Attended ==
  \A q \in Queue :
    /\ loop[q] = "idle" => q \notin active /\ pending[q] = <<>>
    /\ loop[q] \in Working <=> lock = q \/ q \in cut
    /\ lock = q => q \notin cut

(* Whoever waits in Submit waits for a flush loop that runs: no hand-over   *)
(* between a Submit and an ending loop, and no way out of an attempt,       *)
(* leaves a request behind (Batcher.Submit, flushLoop).                     *)
NobodyStranded ==
  \A r \in Request : answer[r] = "waiting" => At[r] \in active /\ loop[At[r]] # "idle"

(* Two loops are at their batches at once only if one of them has lost its  *)
(* connection, and a loop that is not at a batch keeps no other waiting.    *)
LockExclusive ==
  /\ \A p \in Queue : \A q \in Queue :
       loop[p] \in Working /\ loop[q] \in Working /\ p # q => p \in cut \/ q \in cut
  /\ \A q \in Queue : lock = q => loop[q] \in Working

(* What is done in an attempt, and between two of them.                     *)
Attempts(q) ==
  \/ Clone(q) \/ AttemptFails(q) \/ FailsPermanently(q)
  \/ \E r \in Request :
       \/ ApplyStopped(q, r) \/ ApplyMisconfigured(q, r) \/ CommitFails(q, r)
       \/ ApplyUnchanged(q, r) \/ CommitAppLocal(q, r)
  \/ EndApply(q) \/ PushAccepted(q) \/ PushUnanswered(q) \/ PushRejected(q)
  \/ Retry(q) \/ resolveRemaining(q)

Moves(q, L, M) ==
  /\ loop[q] \in L /\ loop'[q] \in M
  /\ \A p \in Queue \ {q} : loop'[p] = loop[p]

LEMMA AttemptMoves ==
  ASSUME TypeOK, NEW q \in Queue, Attempts(q)
  PROVE  Moves(q, Working, Working) /\ UNCHANGED <<pending, active, lock, cut>>
<1> USE DEF Moves, Working, queueVars, runVars, lockVars
<1>0. loop \in [Queue -> Loop]
  BY DEF TypeOK
<1>1. ASSUME NEW out, NEW Q, AttemptOver(q, out, Q)
      PROVE  loop'[q] \in {"delivering", "backoff"} /\ \A p \in Queue \ {q} : loop'[p] = loop[p]
  BY <1>0, <1>1 DEF AttemptOver, Goes
<1>2. CASE Clone(q)
  BY <1>0, <1>2 DEF Clone, Goes
<1>3. CASE AttemptFails(q) \/ FailsPermanently(q)
  BY <1>1, <1>3 DEF AttemptFails, FailsPermanently
<1>4. ASSUME NEW r \in Request,
             \/ ApplyStopped(q, r) \/ ApplyMisconfigured(q, r) \/ CommitFails(q, r)
             \/ ApplyUnchanged(q, r) \/ CommitAppLocal(q, r)
      PROVE  Moves(q, Working, Working) /\ UNCHANGED <<pending, active, lock, cut>>
  <2>1. UNCHANGED <<pending, active, loop, lock, cut>>
    BY <1>4 DEF ApplyStopped, ApplyMisconfigured, CommitFails, ApplyUnchanged, CommitAppLocal
  <2>2. loop[q] = "applying"
    BY <1>4
    DEF ApplyStopped, ApplyMisconfigured, CommitFails, ApplyUnchanged, CommitAppLocal, Applying
  <2> QED
    BY <2>1, <2>2
<1>5. CASE EndApply(q)
  <2>1. UNCHANGED <<pending, active, lock, cut>> /\ loop[q] = "applying"
    BY <1>5 DEF EndApply
  <2>2. CASE AttemptOver(q, outcome, {q})
    BY <1>1, <2>1, <2>2
  <2>3. CASE Goes(q, "pushing")
    BY <1>0, <2>1, <2>3 DEF Goes
  <2> QED
    BY <1>5, <2>2, <2>3 DEF EndApply
<1>6. CASE PushAccepted(q) \/ PushUnanswered(q) \/ PushRejected(q)
  BY <1>1, <1>6 DEF PushAccepted, PushUnanswered, PushRejected, Push
<1>7. CASE Retry(q) \/ resolveRemaining(q)
  BY <1>0, <1>7 DEF Retry, resolveRemaining, Goes
<1> QED
  BY <1>2, <1>3, <1>4, <1>5, <1>6, <1>7 DEF Attempts

LEMMA StepAttended ==
  ASSUME BatchInv, Attended, [Next]_vars
  PROVE  Attended'
<1>0. /\ loop \in [Queue -> Loop] /\ pending \in [Queue -> Seq(Request)] /\ NoQueue \notin Queue
      /\ At \in [Request -> Queue] /\ attempt \in [Queue -> 0..MaxAttempts]
      /\ TypeOK /\ Phases
  BY BatchAssumption DEF BatchInv, TypeOK
<1> USE DEF Attended, Working
<1>1. ASSUME NEW q \in Queue, Attempts(q) PROVE Attended'
  BY <1>0, <1>1, AttemptMoves DEF Moves
<1>2. ASSUME NEW q \in Queue, TakeBatch(q) PROVE Attended'
  <2>1. Moves(q, {"picking"}, {"locking"}) /\ UNCHANGED <<active, lock, cut>>
    BY <1>0, <1>2 DEF TakeBatch, Moves, Goes, lockVars
  <2>2. \A p \in Queue \ {q} : pending'[p] = pending[p]
    BY <1>0, <1>2 DEF TakeBatch
  <2> QED
    BY <2>1, <2>2 DEF Moves
<1>3. ASSUME NEW q \in Queue, LoopEnds(q) PROVE Attended'
  <2>1. /\ Moves(q, {"picking"}, {"idle"}) /\ UNCHANGED <<pending, lock, cut>>
        /\ active' = active \ {q} /\ pending[q] = <<>>
    BY <1>0, <1>3 DEF LoopEnds, Moves, Goes, lockVars
  <2> QED
    BY <2>1 DEF Moves
<1>4. ASSUME NEW q \in Queue, WithLockFails(q) PROVE Attended'
  <2>1. Moves(q, {"locking"}, {"picking"}) /\ UNCHANGED <<pending, active, lock>> /\ cut' = cut \ {q}
    BY <1>0, <1>4 DEF WithLockFails, Answers, Moves, Goes
  <2> QED
    BY <2>1 DEF Moves
<1>5. ASSUME NEW q \in Queue, WithLock(q) PROVE Attended'
  <2>1. /\ Moves(q, {"locking"}, {"attempting"}) /\ UNCHANGED <<pending, active, cut>>
        /\ lock = NoQueue /\ lock' = q
    BY <1>0, <1>5 DEF WithLock, Moves, Goes, queueVars
  <2> QED
    BY <1>0, <2>1 DEF Moves
<1>6. ASSUME NEW q \in Queue, Deliver(q) PROVE Attended'
  <2>1. /\ Moves(q, {"delivering"}, {"picking"}) /\ UNCHANGED <<pending, active>>
        /\ cut' = cut \ {q} /\ lock' = IF lock = q THEN NoQueue ELSE lock
    BY <1>0, <1>6 DEF Deliver, Answers, Moves, Goes
  <2> QED
    BY <1>0, <2>1 DEF Moves
<1>7. ASSUME NEW q \in Queue, LoseConnection(q) PROVE Attended'
  <2>1. UNCHANGED <<pending, active, loop>> /\ lock = q /\ lock' = NoQueue /\ cut' = cut \cup {q}
    BY <1>7 DEF LoseConnection, queueVars
  <2> QED
    BY <1>0, <2>1
<1>8. ASSUME NEW r \in Request, Submit(r) PROVE Attended'
  <2> DEFINE q == At[r]
  <2>1. q \in Queue /\ UNCHANGED <<lock, cut>>
    BY <1>0, <1>8 DEF Submit, lockVars
  <2>2. CASE UNCHANGED <<pending, active, loop>>
    BY <2>1, <2>2
  <2>3. CASE /\ pending' = [pending EXCEPT ![q] = Append(@, r)] /\ active' = active \cup {q}
             /\ loop' = IF q \in active THEN loop ELSE [loop EXCEPT ![q] = "picking"]
    <3> HIDE DEF q
    <3>1. \A p \in Queue \ {q} : pending'[p] = pending[p] /\ loop'[p] = loop[p]
      BY <1>0, <2>1, <2>3
    <3>2. loop'[q] # "idle" /\ (loop'[q] \in Working <=> loop[q] \in Working)
      <4>1. CASE q \in active
        BY <2>1, <2>3, <4>1
      <4>2. CASE q \notin active
        <5>1. loop[q] = "idle" /\ loop'[q] = "picking"
          BY <1>0, <2>1, <2>3, <4>2 DEF Phases
        <5> QED
          BY <5>1
      <4> QED
        BY <4>1, <4>2
    <3> QED
      BY <2>1, <2>3, <3>1, <3>2
  <2> QED
    BY <1>8, <2>2, <2>3 DEF Submit
<1>9. ASSUME NEW b \in Batcher, Exit(b) PROVE Attended'
  <2> DEFINE mine == {q \in Queue : q[1] = b}
  <2>1. /\ \A q \in mine : pending'[q] = <<>> /\ loop'[q] = "idle"
        /\ \A q \in Queue \ mine : pending'[q] = pending[q] /\ loop'[q] = loop[q]
        /\ active' = active \ mine /\ cut' = cut \ mine
        /\ lock' = IF lock \in mine THEN NoQueue ELSE lock
    BY <1>9 DEF Exit
  <2> HIDE DEF mine
  <2> QED
    BY <1>0, <2>1
<1>10. CASE \/ \E r \in Request : Stop(r) 
            \/ \E b \in Branch : ForeignPush(b)
            \/ \E b \in Batcher : Close(b)
            \/ UNCHANGED vars
  <2>1. UNCHANGED <<pending, active, loop, lock, cut>>
    BY <1>10 DEF Stop, ForeignPush, Close, vars, queueVars, lockVars
  <2> QED
    BY <2>1
<1> QED
  BY <1>1, <1>2, <1>3, <1>4, <1>5, <1>6, <1>7, <1>8, <1>9, <1>10 DEF Next, Flush, Attempts

LEMMA AttendedAlways == Spec => [](BatchInv /\ Attended)
<1>1. Init => BatchInv /\ Attended
  <2>1. Init => Attended
    BY BatchAssumption DEF Init, Attended, Working
  <2> QED
    BY <2>1, InitBatchInv
<1>2. BatchInv /\ Attended /\ [Next]_vars => (BatchInv /\ Attended)'
  BY StepBatchInv, StepAttended
<1> QED
  BY <1>1, <1>2, PTL DEF Spec

(* For any number of queues and requests, and whatever fails: as long as a  *)
(* Submit waits, its queue has a loop.                                      *)
THEOREM SubmitsAttended == Spec => []NobodyStranded
<1>1. BatchInv /\ Attended => NobodyStranded
  <2> SUFFICES ASSUME BatchInv, Attended, NEW r \in Request, answer[r] = "waiting"
               PROVE  At[r] \in active /\ loop[At[r]] # "idle"
    BY DEF NobodyStranded
  <2>1. At[r] \in Queue
    BY BatchAssumption
  <2>2. pending[At[r]] # <<>> \/ batch[At[r]] # <<>>
    BY <2>1 DEF BatchInv, Kept
  <2>3. loop[At[r]] # "idle"
    BY <2>1, <2>2 DEF BatchInv, Phases, Attended
  <2> QED
    BY <2>1, <2>3 DEF BatchInv, Phases
<1> QED
  BY <1>1, AttendedAlways, PTL

(* The lock excludes whatever the batches do, as long as its connection     *)
(* lasts, and no way out of a batch leaves it locked.                       *)
THEOREM BatchesExclude == Spec => []LockExclusive
<1>1. BatchInv /\ Attended => LockExclusive
  BY DEF Attended, LockExclusive
<1> QED
  BY <1>1, AttendedAlways, PTL
-----------------------------------------------------------------------------
(* A stopped request and its successor *)

(* No two requests of a branch write the same tag to the same slot: two     *)
(* deployments of one tag are not told apart by what the file holds.        *)
DistinctTags ==
  \A p, r \in Request : p # r /\ At[p][2] = At[r][2] =>
    \A s \in DOMAIN Writes[p] \cap DOMAIN Writes[r] : Writes[p][s] # Writes[r][s]

(* The requests whose commits a push of q would carry                       *)
Commits(q) == committed \cap ToSet(batch[q])

(* The tags of a request are in no branch and no commit before its Submit.  *)
Unseen ==
  \A r \in Request, s \in Slot : answer[r] = "new" /\ s \in DOMAIN Writes[r] =>
    /\ remote[At[r][2]][s] # Writes[r][s]
    /\ \A q \in Queue : q[2] = At[r][2] => head[q][s] # Writes[r][s]

(* Where the last commit of a clone differs from the branch it is based on, *)
(* one of the commits made in the clone wrote the difference.               *)
Explained ==
  \A q \in fresh, s \in Slot : head[q][s] # remote[q[2]][s] =>
    \E r \in Commits(q) : s \in DOMAIN Writes[r] /\ Writes[r][s] = head[q][s]

(* A clone based on a branch that holds a tag of new has no commit of a     *)
(* request that had been stopped when new was submitted.                    *)
Unreplaced ==
  \A q \in fresh, r \in Request, new \in Request, s \in Slot :
    /\ r \in Commits(q)
    /\ At[new][2] = q[2] /\ s \in DOMAIN Writes[new] /\ remote[q[2]][s] = Writes[new][s]
    => r \notin replaced[new]

(* A clone carries the whole content of the requests committed in it: what  *)
(* one of them wrote is there, unless another of them wrote over it.        *)
Whole ==
  \A q \in fresh : \A r \in Commits(q) : \A s \in DOMAIN Writes[r] :
    \E p \in Commits(q) : s \in DOMAIN Writes[p] /\ Writes[p][s] = head[q][s]

SuccessorInv ==
  /\ \A r \in Request : replaced[r] \subseteq stopped
  /\ \A q \in fresh : loop[q] \in {"applying", "pushing"}
  /\ Unseen /\ Explained /\ Unreplaced /\ Whole

LEMMA InitSuccessorInv == Init => SuccessorInv
<1> SUFFICES ASSUME Init PROVE SuccessorInv
  OBVIOUS
<1>1. Unseen
  <2>1. \A r \in Request : At[r] \in Queue /\ At[r][2] \in Branch
    BY BatchAssumption DEF Queue
  <2>2. \A r \in Request : \A s \in DOMAIN Writes[r] : Writes[r][s] # NoTag
    BY BatchAssumption
  <2> QED
    BY <2>1, <2>2 DEF Init, Empty, Unseen
<1>2. (\A r \in Request : replaced[r] \subseteq stopped) /\ fresh = {}
  BY DEF Init
<1> QED
  BY <1>1, <1>2 DEF SuccessorInv, Explained, Unreplaced, Whole

(* A batch holds waiting requests of its own queue.                         *)
LEMMA BatchOfQueue ==
  ASSUME BatchInv, NEW q \in Queue, NEW r \in ToSet(batch[q])
  PROVE  r \in Request /\ At[r] = q /\ answer[r] = "waiting"
<1>1. r \in Request
  BY BatchTypes DEF BatchInv
<1> QED
  BY <1>1 DEF BatchInv, Queues, ToSet

(* What the steps that neither clone, commit, push nor submit leave alone   *)
Tame ==
  /\ remote' = remote /\ replaced' = replaced /\ stopped \subseteq stopped'
  /\ \A r \in Request : answer'[r] = "new" => answer[r] = "new"
  /\ \A q \in Queue : head'[q] \in {head[q], Empty}
  /\ fresh' \subseteq fresh
  /\ \A q \in fresh' : /\ head'[q] = head[q]
                       /\ loop'[q] \in {"applying", "pushing"}
                       /\ Commits(q)' = Commits(q)

LEMMA TameKeeps ==
  ASSUME BatchInv, SuccessorInv, Tame
  PROVE  SuccessorInv'
<1>1. fresh \in SUBSET Queue
  BY DEF BatchInv, TypeOK
<1>2. Unseen'
  <2> SUFFICES ASSUME NEW r \in Request, NEW s \in Slot, answer'[r] = "new", s \in DOMAIN Writes[r]
               PROVE  /\ remote'[At[r][2]][s] # Writes[r][s]
                      /\ \A q \in Queue : q[2] = At[r][2] => head'[q][s] # Writes[r][s]
    BY DEF Unseen
  <2>1. Empty[s] # Writes[r][s]
    BY BatchAssumption DEF Empty
  <2> QED
    BY <2>1 DEF Tame, SuccessorInv, Unseen
<1>3. Explained'
  BY <1>1 DEF Tame, SuccessorInv, Explained
<1>4. Unreplaced' /\ Whole'
  BY <1>1 DEF Tame, SuccessorInv, Unreplaced, Whole
<1>5. (\A r \in Request : replaced[r] \subseteq stopped)'
  BY DEF Tame, SuccessorInv
<1>6. \A q \in fresh' : loop'[q] \in {"applying", "pushing"}
  BY DEF Tame
<1> QED
  BY <1>2, <1>3, <1>4, <1>5, <1>6 DEF SuccessorInv

(* The end of an attempt of q leaves the commits of the other clones.       *)
LEMMA OtherCommits ==
  ASSUME BatchInv, NEW q \in Queue, NEW p \in Queue \ {q}
  PROVE  (committed \ ToSet(batch[q])) \cap ToSet(batch[p]) = Commits(p)
BY BatchOfQueue DEF Commits

LEMMA OverTame ==
  ASSUME BatchInv, SuccessorInv, NEW q \in Queue, NEW out, NEW Q, q \in Q,
         AttemptOver(q, out, Q), UNCHANGED <<queueVars, envVars>>, remote' = remote
  PROVE  SuccessorInv'
<1>1. Tame
  <2>1. /\ loop \in [Queue -> Loop] /\ head \in [Queue -> Tree] /\ fresh \in SUBSET Queue
    BY DEF BatchInv, TypeOK
  <2>2. /\ committed' = committed \ ToSet(batch[q])
        /\ head' = [head EXCEPT ![q] = Empty]
        /\ fresh' = fresh \ Q
        /\ batch' = batch /\ answer' = answer /\ replaced' = replaced /\ stopped' = stopped
        /\ \A p \in Queue \ {q} : loop'[p] = loop[p]
    BY <2>1 DEF AttemptOver, Discard, Goes, queueVars, envVars
  <2>3. \A p \in fresh' : p \in fresh /\ p \in Queue \ {q}
    BY <2>1, <2>2
  <2>4. \A p \in fresh' : Commits(p)' = Commits(p)
    BY <2>2, <2>3, OtherCommits DEF Commits
  <2>5. \A p \in fresh' : loop'[p] \in {"applying", "pushing"} /\ head'[p] = head[p]
    BY <2>1, <2>2, <2>3 DEF SuccessorInv
  <2> QED
    BY <2>1, <2>2, <2>4, <2>5 DEF Tame
<1> QED
  BY <1>1, TameKeeps

LEMMA PushKeepsSuccessor ==
  ASSUME BatchInv, SuccessorInv, NEW q \in Queue, Push(q), NEW out,
         AttemptOver(q, out, SameBranch(q)), UNCHANGED <<queueVars, envVars>>
  PROVE  SuccessorInv'
<1>1. /\ loop \in [Queue -> Loop] /\ head \in [Queue -> Tree] /\ fresh \in SUBSET Queue
      /\ remote \in [Branch -> Tree] /\ q[2] \in Branch
  BY DEF BatchInv, TypeOK, Queue
<1>2. /\ committed' = committed \ ToSet(batch[q])
      /\ head' = [head EXCEPT ![q] = Empty]
      /\ fresh' = fresh \ SameBranch(q)
      /\ batch' = batch /\ answer' = answer /\ replaced' = replaced /\ stopped' = stopped
      /\ \A p \in Queue \ {q} : loop'[p] = loop[p]
      /\ remote' = [remote EXCEPT ![q[2]] = head[q]]
  BY <1>1 DEF Push, AttemptOver, Discard, Goes, queueVars, envVars
<1>3. \A p \in fresh' : /\ p \in fresh /\ p \in Queue \ {q}
                        /\ remote'[p[2]] = remote[p[2]] /\ head'[p] = head[p]
                        /\ loop'[p] = loop[p]
  BY <1>1, <1>2 DEF SameBranch
<1>4. \A p \in fresh' : Commits(p)' = Commits(p)
  BY <1>2, <1>3, OtherCommits DEF Commits
<1>5. Unseen'
  <2> SUFFICES ASSUME NEW r \in Request, NEW s \in Slot, answer[r] = "new", s \in DOMAIN Writes[r]
               PROVE  /\ remote'[At[r][2]][s] # Writes[r][s]
                      /\ \A p \in Queue : p[2] = At[r][2] => head'[p][s] # Writes[r][s]
    BY <1>2 DEF Unseen
  <2>1. Empty[s] # Writes[r][s]
    BY BatchAssumption DEF Empty
  <2>2. At[r][2] \in Branch
    BY BatchAssumption DEF Queue
  <2> QED
    BY <1>1, <1>2, <2>1, <2>2 DEF SuccessorInv, Unseen
<1>6. Explained'
  BY <1>3, <1>4 DEF SuccessorInv, Explained
<1>7. Unreplaced' /\ Whole'
  BY <1>2, <1>3, <1>4 DEF SuccessorInv, Unreplaced, Whole
<1> QED
  BY <1>1, <1>2, <1>3, <1>5, <1>6, <1>7 DEF SuccessorInv

LEMMA CloneKeepsSuccessor ==
  ASSUME BatchInv, SuccessorInv, NEW q \in Queue, Clone(q)
  PROVE  SuccessorInv'
<1>1. /\ loop \in [Queue -> Loop] /\ head \in [Queue -> Tree] /\ fresh \in SUBSET Queue
  BY DEF BatchInv, TypeOK
<1>2. /\ committed' = committed \ ToSet(batch[q])
      /\ head' = [head EXCEPT ![q] = remote[q[2]]]
      /\ fresh' = fresh \cup {q}
      /\ batch' = batch /\ answer' = answer /\ replaced' = replaced /\ stopped' = stopped
      /\ loop' = [loop EXCEPT ![q] = "applying"]
      /\ remote' = remote
  BY DEF Clone, Goes, queueVars, envVars, gitVars
<1>3. /\ Commits(q)' = {}
      /\ \A p \in Queue \ {q} : Commits(p)' = Commits(p)
  BY <1>2, OtherCommits DEF Commits
<1>4. Unseen'
  BY <1>1, <1>2 DEF SuccessorInv, Unseen
<1>5. Explained'
  BY <1>1, <1>2, <1>3 DEF SuccessorInv, Explained
<1>6. Unreplaced' /\ Whole'
  BY <1>1, <1>2, <1>3 DEF SuccessorInv, Unreplaced, Whole
<1> QED
  BY <1>1, <1>2, <1>4, <1>5, <1>6 DEF SuccessorInv

(* A commit is made of a request that is not stopped: not of one that was   *)
(* when its successor was submitted.                                        *)
LEMMA CommitKeepsSuccessor ==
  ASSUME DistinctTags, BatchInv, SuccessorInv, NEW q \in Queue, NEW r \in Request,
         CommitAppLocal(q, r)
  PROVE  SuccessorInv'
<1>1. head \in [Queue -> Tree] /\ fresh \in SUBSET Queue
  BY DEF BatchInv, TypeOK
<1>2. r \in ToSet(batch[q])
  BY DEF CommitAppLocal, Applying, BatchInv, Phases
<1>3. At[r] = q /\ answer[r] = "waiting"
  BY <1>2, BatchOfQueue
<1>4. /\ head' = [head EXCEPT ![q] = Written(head[q], r)]
      /\ committed' = committed \cup {r} /\ r \notin stopped
      /\ batch' = batch /\ answer' = answer /\ replaced' = replaced /\ stopped' = stopped
      /\ loop' = loop /\ remote' = remote /\ fresh' = fresh
  BY DEF CommitAppLocal, queueVars, envVars, gitVars
<1>5. \A s \in Slot :
        head'[q][s] = IF s \in DOMAIN Writes[r] THEN Writes[r][s] ELSE head[q][s]
  BY <1>1, <1>4 DEF Written
<1>6. /\ Commits(q)' = Commits(q) \cup {r}
      /\ \A p \in Queue \ {q} : Commits(p)' = Commits(p)
  BY <1>2, <1>3, <1>4, BatchOfQueue DEF Commits
<1>7. Unseen'
  <2> SUFFICES ASSUME NEW n \in Request, NEW s \in Slot, answer[n] = "new", s \in DOMAIN Writes[n],
                      NEW p \in Queue, p[2] = At[n][2]
               PROVE  head'[p][s] # Writes[n][s]
    BY <1>4 DEF SuccessorInv, Unseen
  <2>1. head[p][s] # Writes[n][s]
    BY DEF SuccessorInv, Unseen
  <2>2. CASE p = q /\ s \in DOMAIN Writes[r]
    BY <1>3, <1>5, <2>2 DEF DistinctTags
  <2>3. CASE ~(p = q /\ s \in DOMAIN Writes[r])
    BY <1>1, <1>4, <1>5, <2>1, <2>3
  <2> QED
    BY <2>2, <2>3
<1>8. Explained'
  <2> SUFFICES ASSUME NEW p \in fresh, NEW s \in Slot, head'[p][s] # remote[p[2]][s]
               PROVE  \E x \in Commits(p)' : s \in DOMAIN Writes[x] /\ Writes[x][s] = head'[p][s]
    BY <1>4 DEF Explained
  <2>1. CASE p # q
    BY <1>1, <1>4, <1>6, <2>1 DEF SuccessorInv, Explained
  <2>2. CASE p = q /\ s \in DOMAIN Writes[r]
    BY <1>5, <1>6, <2>2
  <2>3. CASE p = q /\ s \notin DOMAIN Writes[r]
    BY <1>5, <1>6, <2>3 DEF SuccessorInv, Explained
  <2> QED
    BY <2>1, <2>2, <2>3
<1>9. Unreplaced'
  BY <1>1, <1>4, <1>6 DEF SuccessorInv, Unreplaced
<1>10. Whole'
  <2> SUFFICES ASSUME NEW p \in fresh, NEW x \in Commits(p)', NEW s \in DOMAIN Writes[x]
               PROVE  \E y \in Commits(p)' : s \in DOMAIN Writes[y] /\ Writes[y][s] = head'[p][s]
    BY <1>4 DEF Whole
  <2>1. CASE p # q
    BY <1>1, <1>4, <1>6, <2>1 DEF SuccessorInv, Whole
  <2>2. CASE p = q /\ s \in DOMAIN Writes[r]
    <3>1. s \in Slot
      BY <2>2, BatchAssumption
    <3> QED
      BY <1>5, <1>6, <2>2, <3>1
  <2>3. CASE p = q /\ s \notin DOMAIN Writes[r]
    <3>1. x \in Commits(q)
      BY <1>6, <2>3
    <3>2. PICK y \in Commits(q) : s \in DOMAIN Writes[y] /\ Writes[y][s] = head[q][s]
      BY <2>3, <3>1 DEF SuccessorInv, Whole
    <3>3. s \in Slot
      BY <3>2, BatchOfQueue, BatchAssumption DEF Commits
    <3> QED
      BY <1>5, <1>6, <2>3, <3>2, <3>3
  <2> QED
    BY <2>1, <2>2, <2>3
<1> QED
  BY <1>4, <1>7, <1>8, <1>9, <1>10 DEF SuccessorInv

(* A submit finds none of its tags in the branch.                           *)
LEMMA SubmitKeepsSuccessor ==
  ASSUME BatchInv, SuccessorInv, NEW r \in Request, Submit(r)
  PROVE  SuccessorInv'
<1>1. /\ answer \in [Request -> Outcome \cup {"new", "waiting", "gone"}]
      /\ fresh \in SUBSET Queue /\ replaced \in [Request -> SUBSET Request]
  BY DEF BatchInv, TypeOK
<1>2. /\ answer[r] = "new" /\ batch' = batch /\ committed' = committed /\ head' = head
      /\ fresh' = fresh /\ stopped' = stopped /\ remote' = remote
      /\ replaced' = replaced \/ replaced' = [replaced EXCEPT ![r] = stopped]
      /\ \A n \in Request : answer'[n] = "new" => answer[n] = "new"
  BY <1>1 DEF Submit, cloneVars
<1>3. \A q \in fresh : loop'[q] = loop[q]
  <2>1. \A q \in fresh : q \in active
    BY <1>1 DEF SuccessorInv, BatchInv, Phases
  <2> QED
    BY <1>1, <2>1 DEF Submit, BatchInv, TypeOK
<1>4. \A q \in Queue : Commits(q)' = Commits(q)
  BY <1>2 DEF Commits
<1>5. Unseen' /\ Explained'
  BY <1>1, <1>2, <1>4 DEF SuccessorInv, Unseen, Explained
<1>6. Unreplaced' /\ Whole'
  BY <1>1, <1>2, <1>4 DEF SuccessorInv, Unreplaced, Unseen, Whole
<1>7. \A n \in Request : replaced'[n] \subseteq stopped'
  BY <1>1, <1>2 DEF SuccessorInv
<1> QED
  BY <1>2, <1>3, <1>5, <1>6, <1>7 DEF SuccessorInv

(* The steps of a flush goroutine that are tame                             *)
LEMMA FlushTame ==
  ASSUME BatchInv, SuccessorInv, NEW q \in Queue,
         \/ TakeBatch(q) \/ LoopEnds(q) \/ WithLock(q) \/ WithLockFails(q)
         \/ Retry(q) \/ resolveRemaining(q) \/ Deliver(q)
  PROVE  SuccessorInv'
<1>1. /\ loop \in [Queue -> Loop] /\ batch \in [Queue -> Seq(Request)] /\ fresh \in SUBSET Queue
      /\ answer \in [Request -> Outcome \cup {"new", "waiting", "gone"}]
  BY DEF BatchInv, TypeOK
<1>2. q \notin fresh
  BY DEF SuccessorInv, TakeBatch, LoopEnds, WithLock, WithLockFails, Retry, resolveRemaining, Deliver
<1>3. /\ remote' = remote /\ replaced' = replaced /\ stopped' = stopped
      /\ head' = head /\ fresh' = fresh /\ committed' = committed
  BY DEF TakeBatch, LoopEnds, WithLock, WithLockFails, Retry, resolveRemaining, Deliver,
         cloneVars, gitVars, envVars
<1>4. \A p \in Queue \ {q} : loop'[p] = loop[p] /\ batch'[p] = batch[p]
  BY <1>1 DEF TakeBatch, LoopEnds, WithLock, WithLockFails, Retry, resolveRemaining, Deliver,
              Goes, Answers, queueVars
<1>5. \A r \in Request : answer'[r] = "new" => answer[r] = "new"
  <2>1. CASE answer' = answer
    BY <2>1
  <2>2. CASE WithLockFails(q)
    BY <1>1, <2>2 DEF WithLockFails, Answers
  <2>3. ASSUME Deliver(q), NEW r \in Request, answer'[r] = "new" PROVE answer[r] = "new"
    <3>1. outcome[r] \in Outcome \cup {"none"}
      BY DEF BatchInv, TypeOK
    <3> QED
      BY <1>1, <2>3, <3>1 DEF Deliver, Answers, Outcome
  <2> QED
    BY <2>1, <2>2, <2>3 DEF TakeBatch, LoopEnds, WithLock, Retry, resolveRemaining, queueVars
<1>6. Tame
  BY <1>1, <1>2, <1>3, <1>4, <1>5 DEF Tame, Commits, SuccessorInv
<1> QED
  BY <1>6, TameKeeps

(* The steps of an attempt that make no commit, and of the environment      *)
LEMMA AttemptTame ==
  ASSUME BatchInv, SuccessorInv,
         \/ \E q \in Queue, r \in Request :
              ApplyStopped(q, r) \/ ApplyMisconfigured(q, r) \/ CommitFails(q, r) \/ ApplyUnchanged(q, r)
         \/ \E q \in Queue : LoseConnection(q)
         \/ \E r \in Request : Stop(r)
         \/ \E b \in Branch : ForeignPush(b)
         \/ \E b \in Batcher : Close(b)
         \/ UNCHANGED vars
  PROVE  SuccessorInv'
<1>1. /\ remote' = remote /\ replaced' = replaced /\ stopped \subseteq stopped' /\ answer' = answer
      /\ head' = head /\ fresh' \subseteq fresh /\ committed' = committed /\ batch' = batch
      /\ loop' = loop
  BY DEF ApplyStopped, ApplyMisconfigured, CommitFails, ApplyUnchanged, LoseConnection, Stop,
         ForeignPush, Close, vars, queueVars, runVars, cloneVars, lockVars, gitVars, envVars
<1>2. Tame
  BY <1>1 DEF Tame, Commits, SuccessorInv
<1> QED
  BY <1>2, TameKeeps

LEMMA EndApplyKeepsSuccessor ==
  ASSUME BatchInv, SuccessorInv, NEW q \in Queue, EndApply(q)
  PROVE  SuccessorInv'
<1>1. CASE AttemptOver(q, outcome, {q})
  BY <1>1, OverTame DEF EndApply, gitVars
<1>2. CASE Goes(q, "pushing") /\ UNCHANGED <<outcome, cloneVars>>
  <2>1. loop \in [Queue -> Loop] /\ fresh \in SUBSET Queue
    BY DEF BatchInv, TypeOK
  <2>2. Tame
    BY <1>2, <2>1 DEF EndApply, Goes, Tame, Commits, SuccessorInv, cloneVars, queueVars, envVars, gitVars
  <2> QED
    BY <2>2, TameKeeps
<1> QED
  BY <1>1, <1>2 DEF EndApply

LEMMA ExitKeepsSuccessor ==
  ASSUME BatchInv, SuccessorInv, NEW b \in Batcher, Exit(b)
  PROVE  SuccessorInv'
<1> DEFINE mine == {q \in Queue : q[1] = b}
<1>1. fresh \in SUBSET Queue /\ committed \in SUBSET Request
  BY DEF BatchInv, TypeOK
<1>2. /\ answer' = [r \in Request |->
           IF At[r] \in mine /\ answer[r] = "waiting" THEN "gone" ELSE answer[r]]
      /\ batch' = [q \in Queue |-> IF q \in mine THEN <<>> ELSE batch[q]]
      /\ loop' = [q \in Queue |-> IF q \in mine THEN "idle" ELSE loop[q]]
      /\ head' = [q \in Queue |-> IF q \in mine THEN Empty ELSE head[q]]
      /\ committed' = {r \in committed : At[r] \notin mine}
      /\ fresh' = fresh \ mine
      /\ remote' = remote /\ replaced' = replaced /\ stopped' = stopped
  BY DEF Exit, gitVars
<1> HIDE DEF mine
<1>3. \A q \in fresh' : /\ q \in fresh /\ q \in Queue \ mine
                        /\ batch'[q] = batch[q] /\ loop'[q] = loop[q] /\ head'[q] = head[q]
  BY <1>1, <1>2
<1>4. ASSUME NEW q \in fresh' PROVE Commits(q)' = Commits(q)
  <2>1. q \in Queue \ mine /\ batch'[q] = batch[q]
    BY <1>3
  <2>2. \A r \in ToSet(batch[q]) : At[r] \notin mine
    BY <2>1, BatchOfQueue
  <2>3. \A r \in ToSet(batch[q]) : r \in committed' <=> r \in committed
    BY <1>2, <2>2
  <2>4. Commits(q)' = committed' \cap ToSet(batch[q])
    BY <2>1 DEF Commits
  <2> QED
    BY <2>3, <2>4 DEF Commits
<1>5. Tame
  BY <1>1, <1>2, <1>3, <1>4 DEF Tame, SuccessorInv
<1> QED
  BY <1>5, TameKeeps

LEMMA StepSuccessorInv ==
  ASSUME DistinctTags, BatchInv, SuccessorInv, [Next]_vars
  PROVE  SuccessorInv'
<1>1. ASSUME NEW q \in Queue, AttemptFails(q) \/ FailsPermanently(q) \/ PushRejected(q)
      PROVE  SuccessorInv'
  BY <1>1, OverTame DEF AttemptFails, FailsPermanently, PushRejected, gitVars
<1>2. ASSUME NEW q \in Queue, PushAccepted(q) \/ PushUnanswered(q) PROVE SuccessorInv'
  BY <1>2, PushKeepsSuccessor DEF PushAccepted, PushUnanswered
<1>3. ASSUME NEW q \in Queue, Flush(q) PROVE SuccessorInv'
  BY <1>1, <1>2, <1>3, FlushTame, AttemptTame, CloneKeepsSuccessor, CommitKeepsSuccessor,
     EndApplyKeepsSuccessor DEF Flush
<1>4. ASSUME NEW q \in Queue, WithLock(q) \/ WithLockFails(q) PROVE SuccessorInv'
  BY <1>4, FlushTame
<1>5. ASSUME NEW r \in Request, Submit(r) PROVE SuccessorInv'
  BY <1>5, SubmitKeepsSuccessor
<1>6. ASSUME NEW b \in Batcher, Exit(b) PROVE SuccessorInv'
  BY <1>6, ExitKeepsSuccessor
<1> QED
  BY <1>3, <1>4, <1>5, <1>6, AttemptTame DEF Next

(* What a step does to the branches and to what a Submit has been told      *)
Answering(q) == WithLockFails(q) \/ Deliver(q)

LEMMA StepKinds ==
  ASSUME [Next]_vars
  PROVE  \/ UNCHANGED <<answer, remote, stopped, replaced>>
         \/ \E q \in Queue : Push(q) /\ UNCHANGED <<answer, stopped, replaced>>
         \/ \E q \in Queue : Answering(q)
         \/ \E r \in Request : Submit(r) \/ Stop(r)
         \/ \E b \in Batcher : Exit(b)
<1> DEFINE Same == UNCHANGED <<answer, remote, stopped, replaced>>
<1> USE DEF queueVars, gitVars, envVars
<1>1. ASSUME NEW q \in Queue,
             \/ TakeBatch(q) \/ LoopEnds(q) \/ WithLock(q) \/ Clone(q) \/ Retry(q)
             \/ resolveRemaining(q) \/ LoseConnection(q)
      PROVE  Same
  BY <1>1 DEF TakeBatch, LoopEnds, WithLock, Clone, Retry, resolveRemaining, LoseConnection
<1>2. ASSUME NEW q \in Queue,
             AttemptFails(q) \/ FailsPermanently(q) \/ PushRejected(q) \/ EndApply(q)
      PROVE  Same
  BY <1>2 DEF AttemptFails, FailsPermanently, PushRejected, EndApply
<1>3. ASSUME NEW q \in Queue, NEW r \in Request,
             \/ ApplyStopped(q, r) \/ ApplyMisconfigured(q, r) \/ CommitFails(q, r)
             \/ ApplyUnchanged(q, r) \/ CommitAppLocal(q, r)
      PROVE  Same
  BY <1>3 DEF ApplyStopped, ApplyMisconfigured, CommitFails, ApplyUnchanged, CommitAppLocal
<1>4. ASSUME NEW q \in Queue, PushAccepted(q) \/ PushUnanswered(q)
      PROVE  Push(q) /\ UNCHANGED <<answer, stopped, replaced>>
  BY <1>4 DEF PushAccepted, PushUnanswered
<1>5. ASSUME NEW b \in Branch, ForeignPush(b) PROVE Same
  BY <1>5 DEF ForeignPush
<1>6. ASSUME NEW b \in Batcher, Close(b) PROVE Same
  BY <1>6 DEF Close
<1>7. UNCHANGED vars => Same
  BY DEF vars
<1> HIDE DEF Same
<1>8. ASSUME NEW q \in Queue, Flush(q)
      PROVE  Same \/ (Push(q) /\ UNCHANGED <<answer, stopped, replaced>>) \/ Answering(q)
  BY <1>1, <1>2, <1>3, <1>4, <1>8 DEF Flush, Answering
<1>9. ASSUME NEW q \in Queue, WithLock(q) \/ WithLockFails(q) \/ LoseConnection(q)
      PROVE  Same \/ Answering(q)
  BY <1>1, <1>9 DEF Answering
<1> QED
  BY <1>5, <1>6, <1>7, <1>8, <1>9 DEF Next, Same

(* Only a push changes a branch, and it writes what its commits explain.    *)
LEMMA StepWritesUnreplaced ==
  ASSUME BatchInv, SuccessorInv, [Next]_vars, NEW b \in Branch, NEW s \in Slot, NEW new \in Request,
         s \in DOMAIN Writes[new], At[new][2] = b, remote[b][s] = Writes[new][s],
         remote'[b][s] # remote[b][s]
  PROVE  \E r \in Request \ replaced[new] : s \in DOMAIN Writes[r] /\ Writes[r][s] = remote'[b][s]
<1>1. PICK q \in Queue : Push(q)
  <2>1. remote' # remote
    OBVIOUS
  <2>2. ASSUME NEW q \in Queue, Answering(q) PROVE remote' = remote
    BY <2>2 DEF Answering, WithLockFails, Deliver, gitVars
  <2>3. ASSUME NEW r \in Request, Submit(r) \/ Stop(r) PROVE remote' = remote
    BY <2>3 DEF Submit, Stop, gitVars
  <2>4. ASSUME NEW c \in Batcher, Exit(c) PROVE remote' = remote
    BY <2>4 DEF Exit, gitVars
  <2> QED
    BY <2>1, <2>2, <2>3, <2>4, StepKinds
<1>2. q \in fresh /\ q[2] = b /\ remote'[b] = head[q]
  BY <1>1 DEF Push, BatchInv, TypeOK
<1>3. PICK r \in Commits(q) : s \in DOMAIN Writes[r] /\ Writes[r][s] = head[q][s]
  BY <1>2 DEF SuccessorInv, Explained
<1>4. r \in Request
  BY <1>3, BatchOfQueue DEF Commits
<1>5. r \notin replaced[new]
  BY <1>2, <1>3, <1>4 DEF SuccessorInv, Unreplaced
<1> QED
  BY <1>2, <1>3, <1>4, <1>5

(* However many attempts, replicas and lost locks there are: the tags of a  *)
(* request that had been stopped when a newer one was submitted are not     *)
(* pushed over the newer one's, if no two requests of the branch write the  *)
(* same tag to the same slot.                                               *)
THEOREM SuccessorStays == DistinctTags /\ Spec => NoStaleOverwrite
<1> SUFFICES ASSUME DistinctTags PROVE Spec => NoStaleOverwrite
  OBVIOUS
<1>1. SuccessorInv /\ BatchInv /\ [Next]_vars => SuccessorInv'
  BY StepSuccessorInv
<1>2. SuccessorInv /\ BatchInv /\ [Next]_vars =>
        [\A q \in Queue, s \in Slot, new \in Request :
           LET old == remote[q[2]][s]
               now == remote'[q[2]][s]
           IN s \in DOMAIN Writes[new] /\ At[new][2] = q[2] /\ old = Writes[new][s] /\ now # old
                => \E r \in Request \ replaced[new] :
                     s \in DOMAIN Writes[r] /\ Writes[r][s] = now]_vars
  <2>1. \A q \in Queue : q[2] \in Branch
    BY DEF Queue
  <2> QED
    BY <2>1, StepWritesUnreplaced
<1> QED
  BY <1>1, <1>2, InitSuccessorInv, BatchInvAlways, PTL DEF Spec, NoStaleOverwrite

-----------------------------------------------------------------------------
(* The coalesced write-backs implement WriteBacks.                          *)

LEMMA ProgressFacts ==
  ASSUME NEW r \in Request
  PROVE  /\ progress[r] = "new" <=> answer[r] = "new"
         /\ progress[r] = "active" <=> answer[r] = "waiting"
         /\ progress[r] \in {"new", "active", "over"}
         /\ branchOf[r] = At[r][2]
BY DEF progress, branchOf

LEMMA InitPromise == Init => Promise!Init
BY DEF Init, Empty, Promise!Init, progress, barred

(* A push carries the content of the requests committed in the clone.       *)
LEMMA PushPromise ==
  ASSUME BatchInv, SuccessorInv, NEW q \in Queue, Push(q), UNCHANGED <<answer, stopped, replaced>>
  PROVE  Promise!Next
<1> DEFINE S == Commits(q)
           b == q[2]
<1>1. /\ q \in fresh /\ b \in Branch /\ head[q] \in [Slot -> Tag \cup {NoTag}]
      /\ remote' = [remote EXCEPT ![b] = head[q]]
  BY DEF Push, BatchInv, TypeOK, Queue, Tree
<1>2. S \in SUBSET Request /\ \A r \in S : progress[r] = "active" /\ branchOf[r] = b
  BY BatchOfQueue, ProgressFacts DEF Commits
<1>3. progress' = progress /\ barred' = barred
  BY DEF progress, barred
<1>4. ASSUME NEW s \in Slot, head[q][s] # remote[b][s]
      PROVE  \E r \in S : Promise!Asks(r, s, head[q][s]) /\ Promise!MayReplace(r, s, remote[b][s])
  <2>1. PICK r \in S : s \in DOMAIN Writes[r] /\ Writes[r][s] = head[q][s]
    BY <1>1, <1>4 DEF SuccessorInv, Explained
  <2>2. ASSUME NEW n \in Request, branchOf[n] = branchOf[r], Promise!Asks(n, s, remote[b][s])
        PROVE  r \notin barred[n]
    <3>1. At[n][2] = b /\ s \in DOMAIN Writes[n] /\ remote[b][s] = Writes[n][s]
      BY <1>2, <2>2, ProgressFacts DEF Promise!Asks
    <3>2. r \notin replaced[n]
      BY <1>1, <1>2, <3>1 DEF SuccessorInv, Unreplaced
    <3> QED
      BY <3>2 DEF barred
  <2>3. Promise!MayReplace(r, s, remote[b][s])
    BY <2>2 DEF Promise!MayReplace
  <2> QED
    BY <2>1, <2>3 DEF Promise!Asks
<1>5. \A r \in S : \A s \in DOMAIN Writes[r] : \E p \in S : Promise!Asks(p, s, head[q][s])
  BY <1>1 DEF SuccessorInv, Whole, Promise!Asks
<1> HIDE DEF S, b
<1>6. Promise!Write(b, S)
  BY <1>1, <1>2, <1>3, <1>4, <1>5 DEF Promise!Write
<1> QED
  BY <1>1, <1>2, <1>6 DEF Promise!Next

(* Requests that waited get their answers, or go with their process.        *)
LEMMA LeavePromise ==
  ASSUME NEW S \in SUBSET Request, \A r \in S : answer[r] = "waiting",
         \A r \in S : answer'[r] \notin {"new", "waiting"},
         \A r \in Request \ S : answer'[r] = answer[r],
         UNCHANGED <<remote, stopped, replaced>>
  PROVE  Promise!Next
<1>1. progress' = [r \in Request |-> IF r \in S THEN "over" ELSE progress[r]]
  BY DEF progress
<1>2. barred' = barred
  BY DEF barred
<1>3. \A r \in S : progress[r] = "active"
  BY ProgressFacts
<1>4. Promise!Leave(S)
  BY <1>1, <1>2, <1>3 DEF Promise!Leave
<1> QED
  BY <1>4 DEF Promise!Next

LEMMA AnsweringPromise ==
  ASSUME BatchInv, NEW q \in Queue, Answering(q)
  PROVE  Promise!Next
<1> DEFINE S == ToSet(batch[q])
<1>1. S \in SUBSET Request /\ \A r \in S : answer[r] = "waiting"
  BY BatchOfQueue
<1>2. UNCHANGED <<remote, stopped, replaced>>
  BY DEF Answering, WithLockFails, Deliver, gitVars, envVars
<1>3. \A r \in Request \ S : answer'[r] = answer[r]
  BY DEF Answering, WithLockFails, Deliver, Answers
<1>4. \A r \in S : answer'[r] \notin {"new", "waiting"}
  <2>1. CASE WithLockFails(q)
    BY <1>1, <2>1 DEF WithLockFails, Answers
  <2>2. CASE Deliver(q)
    <3>1. \A r \in S : outcome[r] \in Outcome
      BY <1>1, <2>2 DEF Deliver, BatchInv, Resolved, TypeOK
    <3>2. \A r \in S : answer'[r] \in {"lock", outcome[r]}
      BY <1>1, <2>2 DEF Deliver, Answers
    <3> QED
      BY <3>1, <3>2 DEF Outcome
  <2> QED
    BY <2>1, <2>2 DEF Answering
<1> HIDE DEF S
<1> QED
  BY <1>1, <1>2, <1>3, <1>4, LeavePromise

LEMMA ExitPromise ==
  ASSUME NEW b \in Batcher, Exit(b)
  PROVE  Promise!Next
<1> DEFINE S == {r \in Request : At[r] \in {q \in Queue : q[1] = b} /\ answer[r] = "waiting"}
<1>1. /\ \A r \in S : answer'[r] = "gone"
      /\ \A r \in Request \ S : answer'[r] = answer[r]
      /\ UNCHANGED <<remote, stopped, replaced>>
  BY DEF Exit, gitVars
<1>2. S \in SUBSET Request /\ \A r \in S : answer[r] = "waiting"
  OBVIOUS
<1> HIDE DEF S
<1> QED
  BY <1>1, <1>2, LeavePromise

(* A submit is accepted with what has been stopped by then, or refused.     *)
LEMMA SubmitPromise ==
  ASSUME BatchInv, NEW r \in Request, Submit(r)
  PROVE  Promise!Next
<1>1. /\ answer \in [Request -> Outcome \cup {"new", "waiting", "gone"}]
      /\ replaced \in [Request -> SUBSET Request] /\ stopped \in SUBSET Request
  BY DEF BatchInv, TypeOK
<1>2. answer[r] = "new" /\ progress[r] = "new" /\ UNCHANGED <<remote, stopped>>
  BY ProgressFacts DEF Submit
<1>3. CASE answer' = [answer EXCEPT ![r] = "closed"] /\ UNCHANGED replaced
  <2>1. progress' = [progress EXCEPT ![r] = "over"] /\ barred' = barred
    BY <1>1, <1>3 DEF progress, barred
  <2>2. Promise!Refuse(r)
    BY <1>2, <2>1 DEF Promise!Refuse
  <2> QED
    BY <2>2 DEF Promise!Next
<1>4. CASE answer' = [answer EXCEPT ![r] = "waiting"] /\ replaced' = [replaced EXCEPT ![r] = stopped]
  <2>1. progress' = [progress EXCEPT ![r] = "active"]
    BY <1>1, <1>4 DEF progress
  <2>2. \A p \in Request :
          Promise!Rivals(r, p) <=> At[p][2] = At[r][2] /\ DOMAIN Writes[p] \cap DOMAIN Writes[r] # {}
    BY ProgressFacts DEF Promise!Rivals
  <2>3. barred'[r] = {p \in stopped : Promise!Rivals(r, p)}
    BY <1>1, <1>4, <2>2 DEF barred
  <2>4. \A n \in Request \ {r} : barred'[n] = barred[n]
    BY <1>1, <1>4 DEF barred
  <2>5. barred' = [barred EXCEPT ![r] = {p \in stopped : Promise!Rivals(r, p)}]
    BY <2>3, <2>4 DEF barred
  <2>6. Promise!Accept(r)
    BY <1>2, <2>1, <2>5 DEF Promise!Accept
  <2> QED
    BY <2>6 DEF Promise!Next
<1> QED
  BY <1>3, <1>4 DEF Submit

LEMMA StopPromise ==
  ASSUME NEW r \in Request, Stop(r)
  PROVE  Promise!Next
<1>1. /\ stopped' = stopped \cup {r} /\ answer[r] = "waiting"
      /\ answer' = answer /\ remote' = remote /\ replaced' = replaced
  BY DEF Stop, queueVars, gitVars
<1>2. progress' = progress /\ barred' = barred
  BY <1>1 DEF progress, barred
<1>3. Promise!Stop({r})
  BY <1>1, <1>2, ProgressFacts DEF Promise!Stop
<1> QED
  BY <1>3 DEF Promise!Next

LEMMA PromiseNext ==
  BatchInv /\ SuccessorInv /\ [Next]_vars => [Promise!Next]_Promise!vars
<1>1. UNCHANGED <<answer, remote, stopped, replaced>> => UNCHANGED Promise!vars
  BY DEF Promise!vars, progress, barred
<1> QED
  BY <1>1, StepKinds, PushPromise, AnsweringPromise, ExitPromise, SubmitPromise, StopPromise

(* The queues, batches, attempts, drains and lost locks of any number of    *)
(* replicas do what WriteBacks allows, if no two requests of a branch write *)
(* the same tag to the same slot: a push carries whole contents, of         *)
(* requests that still wait for it, and none over the tag of a successor.   *)
THEOREM ImplementsWriteBacks == DistinctTags /\ Spec => WriteBackSpec
<1> SUFFICES ASSUME DistinctTags PROVE Spec => WriteBackSpec
  OBVIOUS
<1>1. SuccessorInv /\ BatchInv /\ [Next]_vars => SuccessorInv' /\ [Promise!Next]_Promise!vars
  BY StepSuccessorInv, PromiseNext
<1> QED
  BY <1>1, InitSuccessorInv, InitPromise, BatchInvAlways, PTL DEF Spec, WriteBackSpec, Promise!Spec
=============================================================================
