-------------------------- MODULE SupersessionProofs --------------------------
(***************************************************************************)
(* Proofs about Supersession, for any number of deployments, applications  *)
(* and images: its types, what a request without a credential may not do,  *)
(* and the order of the tags in git.                                       *)
(***************************************************************************)
EXTENDS Supersession, TLAPS

LEMMA ConstantFacts ==
  /\ AppOf \in [Deploy -> App]
  /\ ImagesOf \in [Deploy -> SUBSET Image]
  /\ Validated \subseteq Deploy
  /\ MaxAttempts \in Nat /\ 1 <= MaxAttempts
  /\ MaxCrashes \in Nat
  /\ NoDeploy \notin Deploy
BY SupersessionAssumption

-----------------------------------------------------------------------------
(* Types *)

LEMMA InitTypes == Init => TypeOK
BY ConstantFacts DEF Init, TypeOK, Stage, Status

LEMMA WrittenType ==
  ASSUME TypeOK, NEW d \in Deploy
  PROVE  Written(d) \in [Image -> Deploy \cup {NoDeploy}]
BY ConstantFacts DEF TypeOK, Written

LEMMA UnlockType ==
  ASSUME TypeOK, NEW d \in Deploy, Unlock(d)
  PROVE  lock' \in Deploy \cup {NoDeploy}
BY DEF TypeOK, Unlock

LEMMA PushTypes ==
  ASSUME TypeOK, NEW d \in Deploy, Push(d)
  PROVE  /\ git' \in [App -> [Image -> Deploy \cup {NoDeploy}]]
         /\ fresh' \in SUBSET Deploy
BY WrittenType, ConstantFacts DEF TypeOK, Push

LEMMA LeavesTypes ==
  ASSUME TypeOK, NEW d \in Deploy, NEW s \in Stage, Leaves(d, s)
  PROVE  /\ stage' \in [Deploy -> Stage]
         /\ attempt' \in [Deploy -> 0..MaxAttempts]
         /\ fresh' \in SUBSET Deploy
         /\ lock' \in Deploy \cup {NoDeploy}
BY UnlockType, ConstantFacts DEF TypeOK, Leaves, Goes

LEMMA RetriesTypes ==
  ASSUME TypeOK, NEW d \in Deploy, Retries(d)
  PROVE  /\ stage' \in [Deploy -> Stage]
         /\ attempt' \in [Deploy -> 0..MaxAttempts]
         /\ lock' \in Deploy \cup {NoDeploy}
<1> USE ConstantFacts DEF TypeOK, Goes, Stage, Locked
<1>1. CASE attempt[d] + 1 < MaxAttempts /\ attempt' = [attempt EXCEPT ![d] = @ + 1]
           /\ Goes(d, "attempting") /\ UNCHANGED lock
  <2>1. attempt[d] \in 0..MaxAttempts
    OBVIOUS
  <2>2. attempt[d] + 1 \in 0..MaxAttempts
    BY <1>1, <2>1
  <2> QED BY <1>1, <2>2
<1>2. CASE attempt' = [attempt EXCEPT ![d] = 0] /\ Goes(d, "deciding") /\ Unlock(d)
  BY <1>2, UnlockType
<1> QED BY <1>1, <1>2 DEF Retries

LEMMA StepTypes == TypeOK /\ [Next]_vars => TypeOK'
<1> SUFFICES ASSUME TypeOK, [Next]_vars PROVE TypeOK'
  OBVIOUS
<1> USE ConstantFacts
<1>1. ASSUME NEW d \in Deploy, SelectInProgress(d) PROVE TypeOK'
  BY <1>1 DEF SelectInProgress, Goes, TypeOK, Stage, Status, Locked, rowVars, gitVars
<1>2. ASSUME NEW d \in Deploy, CancelSelected(d) PROVE TypeOK'
  BY <1>2 DEF CancelSelected, Goes, TypeOK, Stage, Status, Locked, rowVars, gitVars
<1>3. ASSUME NEW d \in Deploy, CancelFails(d) PROVE TypeOK'
  BY <1>3 DEF CancelFails, Goes, TypeOK, Stage, Status, Locked, rowVars, gitVars
<1>4. ASSUME NEW d \in Deploy, AddTask(d) PROVE TypeOK'
  BY <1>4 DEF AddTask, Goes, TypeOK, Stage, Status, Locked, rowVars, gitVars
<1>5. ASSUME NEW d \in Deploy, AddTaskFails(d) PROVE TypeOK'
  BY <1>5 DEF AddTaskFails, Goes, TypeOK, Stage, Status, Locked, rowVars, gitVars
<1>6. ASSUME NEW d \in Deploy, StopsSuperseded(d) PROVE TypeOK'
  BY <1>6, LeavesTypes DEF StopsSuperseded, TypeOK, Stage, Status, Locked, rowVars, gitVars
<1>7. ASSUME NEW d \in Deploy, FetchApplication(d) PROVE TypeOK'
  BY <1>7 DEF FetchApplication, Goes, SeenInProgress, TypeOK, Stage, Status, Locked, rowVars, gitVars
<1>8. ASSUME NEW d \in Deploy, StartAttempt(d) PROVE TypeOK'
  BY <1>8 DEF StartAttempt, Goes, SeenInProgress, TypeOK, Stage, Status, Locked, rowVars, gitVars
<1>9. ASSUME NEW d \in Deploy, CloneAndCommit(d) PROVE TypeOK'
  BY <1>9, LeavesTypes DEF CloneAndCommit, WrittenBack, Goes, TypeOK, Stage, Status, Locked, rowVars, gitVars
<1>10. ASSUME NEW d \in Deploy, PushAccepted(d) PROVE TypeOK'
  <2>1. WrittenBack(d) \in Stage
    BY DEF WrittenBack, Stage
  <2>2. stage' \in [Deploy -> Stage] /\ attempt' \in [Deploy -> 0..MaxAttempts]
    BY <1>10, <2>1 DEF PushAccepted, Goes, TypeOK
  <2> QED
    BY <1>10, <2>2, PushTypes, UnlockType DEF PushAccepted, TypeOK, rowVars
<1>11. ASSUME NEW d \in Deploy, PushRejected(d) PROVE TypeOK'
  BY <1>11, RetriesTypes DEF PushRejected, TypeOK, Stage, Status, Locked, rowVars, gitVars
<1>12. ASSUME NEW d \in Deploy, AttemptFails(d) PROVE TypeOK'
  BY <1>12, RetriesTypes DEF AttemptFails, TypeOK, Stage, Status, Locked, rowVars, gitVars
<1>13. ASSUME NEW d \in Deploy, PushUnanswered(d) PROVE TypeOK'
  BY <1>13, PushTypes, RetriesTypes DEF PushUnanswered, TypeOK, Stage, Status, Locked, rowVars, gitVars
<1>14. ASSUME NEW d \in Deploy, PollEnds(d) PROVE TypeOK'
  BY <1>14 DEF PollEnds, Goes, SeenInProgress, TypeOK, Stage, Status, Locked, rowVars, gitVars
<1>15. ASSUME NEW d \in Deploy, SetTaskStatus(d) PROVE TypeOK'
  BY <1>15 DEF SetTaskStatus, Goes, TypeOK, Stage, Status, Locked, rowVars, gitVars
<1>16. ASSUME NEW d \in Deploy, SetTaskStatusFails(d) PROVE TypeOK'
  BY <1>16 DEF SetTaskStatusFails, Goes, TypeOK, Stage, Status, Locked, rowVars, gitVars
<1>17. ASSUME NEW d \in Deploy, WithLock(d) PROVE TypeOK'
  BY <1>17 DEF WithLock, Goes, TypeOK, Stage, Status, Locked, rowVars, gitVars
<1>18. ASSUME NEW d \in Deploy, WithLockFails(d) PROVE TypeOK'
  BY <1>18 DEF WithLockFails, Goes, TypeOK, Stage, Status, Locked, rowVars, gitVars
<1>19. ASSUME NEW d \in Deploy, LoseConnection(d) PROVE TypeOK'
  BY <1>19 DEF LoseConnection, TypeOK, Stage, Status, Locked, rowVars, gitVars
<1>20. ASSUME NEW d \in Deploy, Crash(d) PROVE TypeOK'
  <2>1. crashes' \in 0..MaxCrashes
    BY <1>20 DEF Crash, TypeOK
  <2>2. "orphaned" \in Stage
    BY DEF Stage
  <2> QED
    BY <1>20, <2>1, <2>2, LeavesTypes DEF Crash, TypeOK, rowVars
<1>21. ASSUME NEW d \in Deploy, Resume(d) PROVE TypeOK'
  BY <1>21 DEF Resume, Goes, TypeOK, Stage, Status, Locked, rowVars, gitVars
<1>22. ASSUME NEW d \in Deploy, ResumeTooLate(d) PROVE TypeOK'
  BY <1>22 DEF ResumeTooLate, Goes, TypeOK, Stage, Status, Locked, rowVars, gitVars
<1>23. ASSUME NEW d \in Deploy, AbortObsolete(d) PROVE TypeOK'
  BY <1>23 DEF AbortObsolete, TypeOK, Stage, Status, Locked, rowVars, gitVars
<1>24. ASSUME ForeignPush PROVE TypeOK'
  BY <1>24 DEF ForeignPush, TypeOK, Stage, Status, Locked, rowVars, gitVars
<1>25. ASSUME UNCHANGED vars PROVE TypeOK'
  BY <1>25 DEF vars, TypeOK, Stage, Status, Locked, rowVars, gitVars
<1> QED
  BY <1>1, <1>2, <1>3, <1>4, <1>5, <1>6, <1>7, <1>8, <1>9, <1>10, <1>11, <1>12, <1>13, <1>14,
     <1>15, <1>16, <1>17, <1>18, <1>19, <1>20, <1>21, <1>22, <1>23, <1>24, <1>25 DEF Next, Accept, Monitor

(* Every variable of Supersession keeps its type, the budget of attempts    *)
(* included (runGitUpdateWithRetry counts no further than GIT_MAX_ATTEMPTS).*)
THEOREM TypeCorrect == Spec => []TypeOK
<1>1. Init => TypeOK BY InitTypes
<1>2. TypeOK /\ [Next]_vars => TypeOK' BY StepTypes
<1> QED BY <1>1, <1>2, PTL DEF Spec

-----------------------------------------------------------------------------
(* What a request without a credential may not do *)

(* Only a credentialed deployment gets as far as the lock.                  *)
WritersValidated ==
  \A d \in Deploy : stage[d] \in Locked \cup {"waiting"} => d \in Validated

(* The rows a request has selected are rows it may supersede.               *)
FoundAllowed ==
  \A d, e \in Deploy : e \in found[d] => maySupersede(d, e)

CredentialInv == AnonymousHarmless /\ WritersValidated /\ FoundAllowed

LEMMA InitCredentials == Init => CredentialInv
BY ConstantFacts DEF Init, CredentialInv, AnonymousHarmless, WritersValidated, FoundAllowed, Locked

LEMMA StepCredentials == TypeOK /\ CredentialInv /\ [Next]_vars => CredentialInv'
<1> SUFFICES ASSUME TypeOK, CredentialInv, [Next]_vars PROVE CredentialInv'
  OBVIOUS
<1> USE ConstantFacts DEF TypeOK, CredentialInv, AnonymousHarmless, WritersValidated, FoundAllowed, Locked
<1>1. ASSUME NEW d \in Deploy, SelectInProgress(d) PROVE CredentialInv'
  BY <1>1 DEF SelectInProgress, Goes, Supersedes, rowVars, gitVars
<1>2. ASSUME NEW d \in Deploy, CancelSelected(d) PROVE CredentialInv'
  BY <1>2 DEF CancelSelected, Goes, maySupersede, rowVars, gitVars
<1>3. ASSUME NEW d \in Deploy, CancelFails(d) PROVE CredentialInv'
  BY <1>3 DEF CancelFails, Goes, rowVars, gitVars
<1>4. ASSUME NEW d \in Deploy, AddTask(d) PROVE CredentialInv'
  BY <1>4 DEF AddTask, Goes, rowVars, gitVars
<1>5. ASSUME NEW d \in Deploy, AddTaskFails(d) PROVE CredentialInv'
  BY <1>5 DEF AddTaskFails, Goes, rowVars, gitVars
<1>6. ASSUME NEW d \in Deploy, StopsSuperseded(d) PROVE CredentialInv'
  BY <1>6 DEF StopsSuperseded, Leaves, Goes, Unlock, SeenSuperseded, rowVars, gitVars
<1>7. ASSUME NEW d \in Deploy, FetchApplication(d) PROVE CredentialInv'
  BY <1>7 DEF FetchApplication, Goes, SeenInProgress, rowVars, gitVars
<1>8. ASSUME NEW d \in Deploy, StartAttempt(d) PROVE CredentialInv'
  BY <1>8 DEF StartAttempt, Goes, SeenInProgress, rowVars, gitVars
<1>9. ASSUME NEW d \in Deploy, CloneAndCommit(d) PROVE CredentialInv'
  BY <1>9 DEF CloneAndCommit, Goes, Leaves, Unlock, WrittenBack, Written, rowVars, gitVars
<1>10. ASSUME NEW d \in Deploy, PushAccepted(d) PROVE CredentialInv'
  BY <1>10 DEF PushAccepted, Push, Goes, Unlock, WrittenBack, Written, rowVars, gitVars
<1>11. ASSUME NEW d \in Deploy, PushRejected(d) PROVE CredentialInv'
  BY <1>11 DEF PushRejected, Retries, Goes, Unlock, rowVars, gitVars
<1>12. ASSUME NEW d \in Deploy, AttemptFails(d) PROVE CredentialInv'
  BY <1>12 DEF AttemptFails, Retries, Goes, Unlock, rowVars, gitVars
<1>13. ASSUME NEW d \in Deploy, PushUnanswered(d) PROVE CredentialInv'
  BY <1>13 DEF PushUnanswered, Push, Retries, Goes, Unlock, Written, rowVars, gitVars
<1>14. ASSUME NEW d \in Deploy, PollEnds(d) PROVE CredentialInv'
  BY <1>14 DEF PollEnds, Goes, SeenInProgress, rowVars, gitVars
<1>15. ASSUME NEW d \in Deploy, SetTaskStatus(d) PROVE CredentialInv'
  BY <1>15 DEF SetTaskStatus, Goes, rowVars, gitVars
<1>16. ASSUME NEW d \in Deploy, SetTaskStatusFails(d) PROVE CredentialInv'
  BY <1>16 DEF SetTaskStatusFails, Goes, rowVars, gitVars
<1>17. ASSUME NEW d \in Deploy, WithLock(d) PROVE CredentialInv'
  BY <1>17 DEF WithLock, Goes, rowVars, gitVars
<1>18. ASSUME NEW d \in Deploy, WithLockFails(d) PROVE CredentialInv'
  BY <1>18 DEF WithLockFails, Goes, rowVars, gitVars
<1>19. ASSUME NEW d \in Deploy, LoseConnection(d) PROVE CredentialInv'
  BY <1>19 DEF LoseConnection, rowVars, gitVars
<1>20. ASSUME NEW d \in Deploy, Crash(d) PROVE CredentialInv'
  BY <1>20 DEF Crash, Leaves, Goes, Unlock, rowVars, gitVars
<1>21. ASSUME NEW d \in Deploy, Resume(d) PROVE CredentialInv'
  BY <1>21 DEF Resume, Goes, rowVars, gitVars
<1>22. ASSUME NEW d \in Deploy, ResumeTooLate(d) PROVE CredentialInv'
  BY <1>22 DEF ResumeTooLate, Goes, rowVars, gitVars
<1>23. ASSUME NEW d \in Deploy, AbortObsolete(d) PROVE CredentialInv'
  BY <1>23 DEF AbortObsolete, rowVars, gitVars
<1>24. ASSUME ForeignPush PROVE CredentialInv'
  BY <1>24 DEF ForeignPush, rowVars, gitVars
<1>25. ASSUME UNCHANGED vars PROVE CredentialInv'
  BY <1>25 DEF vars, rowVars, gitVars
<1> QED
  BY <1>1, <1>2, <1>3, <1>4, <1>5, <1>6, <1>7, <1>8, <1>9, <1>10, <1>11, <1>12, <1>13, <1>14,
     <1>15, <1>16, <1>17, <1>18, <1>19, <1>20, <1>21, <1>22, <1>23, <1>24, <1>25 DEF Next, Accept, Monitor

(* A request without a credential writes nothing to git and cancels no       *)
(* deployment that presented one (maySupersede, UpdateIfNeeded), whatever    *)
(* fails.                                                                    *)
THEOREM OnlyCredentialed == Spec => []AnonymousHarmless
<1>1. Init => TypeOK /\ CredentialInv BY InitTypes, InitCredentials
<1>2. TypeOK /\ CredentialInv /\ [Next]_vars => TypeOK' /\ CredentialInv'
  BY StepTypes, StepCredentials
<1>3. CredentialInv => AnonymousHarmless BY DEF CredentialInv
<1> QED BY <1>1, <1>2, <1>3, PTL DEF Spec

LEMMA StepSparesFinished ==
  TypeOK /\ [Next]_vars =>
    \A d \in Deploy : status[d] = "final" => status'[d] # "cancelled"
<1> DEFINE Spared == \A d \in Deploy : status[d] = "final" => status'[d] # "cancelled"
<1> SUFFICES ASSUME TypeOK, [Next]_vars PROVE Spared
  OBVIOUS
<1>1. ASSUME NEW d \in Deploy, CancelSelected(d) PROVE Spared
  BY <1>1 DEF CancelSelected, TypeOK
<1>2. ASSUME NEW d \in Deploy, AddTask(d) PROVE Spared
  BY <1>2 DEF AddTask, TypeOK
<1>3. ASSUME NEW d \in Deploy, SetTaskStatus(d) \/ ResumeTooLate(d) \/ AbortObsolete(d) PROVE Spared
  BY <1>3 DEF SetTaskStatus, ResumeTooLate, AbortObsolete, TypeOK
<1>4. CASE UNCHANGED status
  BY <1>4
<1>5. ASSUME NEW d \in Deploy,
             SelectInProgress(d) \/ CancelFails(d) \/ AddTaskFails(d) \/ StopsSuperseded(d)
               \/ FetchApplication(d) \/ StartAttempt(d) \/ CloneAndCommit(d) \/ PushAccepted(d)
               \/ PushRejected(d) \/ AttemptFails(d) \/ PushUnanswered(d) \/ PollEnds(d)
               \/ SetTaskStatusFails(d) \/ WithLock(d) \/ WithLockFails(d) \/ LoseConnection(d)
               \/ Crash(d) \/ Resume(d)
      PROVE  UNCHANGED status
  BY <1>5 DEF SelectInProgress, CancelFails, AddTaskFails, StopsSuperseded, FetchApplication,
              StartAttempt, CloneAndCommit, PushAccepted, PushRejected, AttemptFails,
              PushUnanswered, PollEnds, SetTaskStatusFails, WithLock, WithLockFails,
              LoseConnection, Crash, Resume, rowVars
<1>6. ForeignPush \/ UNCHANGED vars => UNCHANGED status
  BY DEF ForeignPush, vars, rowVars
<1> QED
  BY <1>1, <1>2, <1>3, <1>4, <1>5, <1>6 DEF Next, Accept, Monitor

(* A cancellation never replaces a recorded outcome: CancelInProgressTasks' *)
(* update looks at the status again, whatever was decided since its select. *)
THEOREM FinishedSpared == Spec => CancelSparesFinished
<1>1. TypeOK /\ [Next]_vars =>
        [\A d \in Deploy : status[d] = "final" => status'[d] # "cancelled"]_vars
  BY StepSparesFinished
<1> QED BY <1>1, TypeCorrect, PTL DEF Spec, CancelSparesFinished

-----------------------------------------------------------------------------
(* The lock, whatever fails                                                 *)

(* Whoever holds the repository's lock is at its write-back: an attempt     *)
(* that ends, by a cancellation, a push, its last failure or a crash, takes *)
(* the lock with it, and no deployment waits behind one that has left       *)
(* (PostgresLocker.WithLock, runGitUpdateWithRetry).                        *)
LockAtWork == \A d \in Deploy : lock = d => stage[d] \in Locked

(* One goroutine moves, and has the lock afterwards only inside of it.      *)
LEMMA OneMoves ==
  ASSUME TypeOK, LockAtWork, NEW d \in Deploy,
         \A e \in Deploy \ {d} : stage'[e] = stage[e],
         lock' \in {lock, d, NoDeploy},
         lock' = d => stage'[d] \in Locked
  PROVE  LockAtWork'
BY ConstantFacts DEF LockAtWork

LEMMA LeavesUnlocked ==
  ASSUME TypeOK, LockAtWork, NEW d \in Deploy, NEW s, Leaves(d, s)
  PROVE  LockAtWork'
<1>1. lock' \in {lock, NoDeploy} /\ lock' # d
  BY ConstantFacts DEF Leaves, Unlock
<1>2. \A e \in Deploy \ {d} : stage'[e] = stage[e]
  BY DEF TypeOK, Leaves, Goes
<1> QED
  BY <1>1, <1>2, OneMoves

LEMMA RetriesUnlocked ==
  ASSUME TypeOK, LockAtWork, NEW d \in Deploy, Retries(d)
  PROVE  LockAtWork'
<1>1. \A e \in Deploy \ {d} : stage'[e] = stage[e]
  BY DEF TypeOK, Retries, Goes
<1>2. CASE Goes(d, "attempting") /\ UNCHANGED lock
  <2>1. stage'[d] = "attempting"
    BY <1>2 DEF TypeOK, Goes
  <2> QED
    BY <1>1, <1>2, <2>1, OneMoves DEF Locked
<1>3. CASE Unlock(d)
  <2>1. lock' \in {lock, NoDeploy} /\ lock' # d
    BY <1>3, ConstantFacts DEF Unlock
  <2> QED
    BY <1>1, <2>1, OneMoves
<1> QED
  BY <1>2, <1>3 DEF Retries

(* A step of a goroutine outside its write-back, to any other such stage.   *)
LEMMA OutsideUnlocked ==
  ASSUME TypeOK, LockAtWork, NEW d \in Deploy, NEW s, Goes(d, s), UNCHANGED lock,
         stage[d] \notin Locked \/ s \in Locked
  PROVE  LockAtWork'
<1>1. stage'[d] = s /\ \A e \in Deploy \ {d} : stage'[e] = stage[e]
  BY DEF TypeOK, Goes
<1>2. lock = d => s \in Locked
  BY DEF LockAtWork
<1> QED
  BY <1>1, <1>2, OneMoves

LEMMA StepLockAtWork ==
  ASSUME TypeOK, LockAtWork, [Next]_vars
  PROVE  LockAtWork'
<1>1. CASE \/ \E d \in Deploy : LoseConnection(d) \/ AbortObsolete(d)
           \/ ForeignPush \/ UNCHANGED vars
  <2>1. stage' = stage /\ lock' \in {lock, NoDeploy}
    BY <1>1 DEF LoseConnection, AbortObsolete, ForeignPush, gitVars, vars
  <2> QED
    BY <2>1, ConstantFacts DEF LockAtWork
<1>2. ASSUME NEW d \in Deploy, Accept(d) \/ Resume(d) \/ ResumeTooLate(d)
      PROVE  LockAtWork'
  <2>1. UNCHANGED lock /\ \E s \in Stage : Goes(d, s)
    BY <1>2
    DEF Accept, SelectInProgress, CancelSelected, CancelFails, AddTask, AddTaskFails,
        Resume, ResumeTooLate, gitVars, Stage
  <2>2. stage[d] \in {"new", "cancelling", "adding", "orphaned"}
    BY <1>2
    DEF Accept, SelectInProgress, CancelSelected, CancelFails, AddTask, AddTaskFails,
        Resume, ResumeTooLate
  <2> QED
    BY <2>1, <2>2, OutsideUnlocked DEF Locked
<1>3. ASSUME NEW d \in Deploy,
             \/ FetchApplication(d) \/ PollEnds(d) \/ WithLockFails(d)
             \/ SetTaskStatus(d) \/ SetTaskStatusFails(d)
      PROVE  LockAtWork'
  <2>1. UNCHANGED lock /\ \E s \in Stage : Goes(d, s)
    BY <1>3
    DEF FetchApplication, PollEnds, WithLockFails, SetTaskStatus, SetTaskStatusFails, gitVars, Stage
  <2>2. stage[d] \in {"monitored", "polling", "waiting", "deciding"}
    BY <1>3 DEF FetchApplication, PollEnds, WithLockFails, SetTaskStatus, SetTaskStatusFails
  <2> QED
    BY <2>1, <2>2, OutsideUnlocked DEF Locked
<1>4. ASSUME NEW d \in Deploy, WithLock(d)
      PROVE  LockAtWork'
  <2>1. /\ lock' = d /\ stage'[d] = "attempting"
        /\ \A e \in Deploy \ {d} : stage'[e] = stage[e]
    BY <1>4 DEF TypeOK, WithLock, Goes
  <2> QED
    BY <2>1, OneMoves DEF Locked
<1>5. ASSUME NEW d \in Deploy, StartAttempt(d)
      PROVE  LockAtWork'
  BY <1>5, OutsideUnlocked DEF StartAttempt, gitVars, Locked
<1>6. ASSUME NEW d \in Deploy, StopsSuperseded(d) \/ Crash(d)
      PROVE  LockAtWork'
  BY <1>6, LeavesUnlocked DEF StopsSuperseded, Crash
<1>7. ASSUME NEW d \in Deploy, CloneAndCommit(d)
      PROVE  LockAtWork'
  BY <1>7, LeavesUnlocked, OutsideUnlocked DEF CloneAndCommit, Locked
<1>8. ASSUME NEW d \in Deploy, PushAccepted(d)
      PROVE  LockAtWork'
  <2>1. lock' \in {lock, NoDeploy} /\ lock' # d
    BY <1>8, ConstantFacts DEF PushAccepted, Unlock
  <2>2. \A e \in Deploy \ {d} : stage'[e] = stage[e]
    BY <1>8 DEF TypeOK, PushAccepted, Goes
  <2> QED
    BY <2>1, <2>2, OneMoves
<1>9. ASSUME NEW d \in Deploy, PushRejected(d) \/ AttemptFails(d) \/ PushUnanswered(d)
      PROVE  LockAtWork'
  BY <1>9, RetriesUnlocked DEF PushRejected, AttemptFails, PushUnanswered
<1> QED
  BY <1>1, <1>2, <1>3, <1>4, <1>5, <1>6, <1>7, <1>8, <1>9 DEF Next, Monitor

(* Whatever fails, nobody leaves a write-back with the lock.                *)
THEOREM LockIsReleased == Spec => []LockAtWork
<1>1. Init => LockAtWork
  BY ConstantFacts DEF Init, LockAtWork
<1>2. TypeOK /\ LockAtWork /\ [Next]_vars => LockAtWork'
  BY StepLockAtWork
<1> QED
  BY <1>1, <1>2, TypeCorrect, PTL DEF Spec

-----------------------------------------------------------------------------
(* The order of the tags in git, where the check for a cancellation reads   *)
(* the row and the lock lasts as long as its write-back                     *)

ChecksAndLockHold == "read" \notin Faults /\ "lock" \notin Faults

(* Write-backs are serial.                                                  *)
Serial == \A d \in Deploy : stage[d] \in Locked => lock = d

(* A row does not exist before it is inserted, ...                          *)
NotYetInserted ==
  \A d \in Deploy :
    stage[d] \in {"new", "cancelling", "adding", "refused"} => status[d] = "none"

(* ... and once cancelled it stays so for as long as its goroutine runs.    *)
CancelledStays ==
  \A d \in Deploy :
    cancelledBy[d] # NoDeploy /\ stage[d] # "ended" => status[d] = "cancelled"

(* Only cancelled rows have successors, inserted later.                     *)
ReplacedCancelled ==
  \A d \in Deploy :
    /\ replacedBy[d] # {} => cancelledBy[d] # NoDeploy
    /\ d \notin replacedBy[d]

(* What git holds was written by a deployment that had been accepted.       *)
WrittenAccepted ==
  \A a \in App, i \in Image :
    git[a][i] \in Deploy => stage[git[a][i]] \notin {"new", "cancelling", "adding", "refused"}

(* A write-back past its check finds no tag of a successor: none could have *)
(* been pushed since, because the lock is held.                             *)
NoSuccessorYet ==
  \A d \in Deploy : stage[d] \in {"cloning", "pushing"} =>
    \A a \in App, i \in Image : git[a][i] \notin replacedBy[d]

(* Only a deployment that was accepted succeeds another.                    *)
SuccessorAccepted ==
  \A d, n \in Deploy :
    n \in replacedBy[d] => stage[n] \notin {"new", "cancelling", "adding", "refused"}

OrderInv ==
  Serial /\ NotYetInserted /\ CancelledStays /\ ReplacedCancelled
    /\ WrittenAccepted /\ NoSuccessorYet /\ SuccessorAccepted

LEMMA InitOrder == Init => OrderInv
BY ConstantFacts DEF Init, OrderInv, Serial, NotYetInserted, CancelledStays, ReplacedCancelled,
                     WrittenAccepted, NoSuccessorYet, SuccessorAccepted, Locked

Unaccepted == {"new", "cancelling", "adding", "refused"}

(* A step of the goroutine of d, or of the sweep that restarts it: it       *)
(* leaves the rows alone, holds the lock while it writes back, gets past    *)
(* the check only if it is not cancelled, and changes git only by a push.   *)
Works(d, s) ==
  /\ Goes(d, s) /\ UNCHANGED rowVars
  /\ stage[d] \notin Unaccepted \cup {"ended"}
  /\ s \in Locked => lock' = d
  /\ \A e \in Deploy \ {d} : lock = e => lock' = e
  /\ s \in {"cloning", "pushing"} =>
       stage[d] \in {"cloning", "pushing"} \/ status[d] # "cancelled"
  /\ \/ git' = git
     \/ /\ git' = [git EXCEPT ![AppOf[d]] = Written(d)]
        /\ stage[d] = "pushing" /\ s \notin {"cloning", "pushing", "ended"}

LEMMA WorkKeepsOrder ==
  ASSUME TypeOK, OrderInv, NEW d \in Deploy, NEW s \in Stage \ Unaccepted, Works(d, s)
  PROVE  OrderInv'
<1>1. /\ stage' = [stage EXCEPT ![d] = s]
      /\ found' = found /\ status' = status /\ cancelledBy' = cancelledBy /\ replacedBy' = replacedBy
  BY DEF Works, Goes, rowVars
<1>2. \A e \in Deploy \ {d} : stage'[e] = stage[e]
  BY <1>1 DEF TypeOK
<1>3. stage'[d] = s
  BY <1>1 DEF TypeOK
<1>4. \A a \in App, i \in Image : git'[a][i] = git[a][i] \/ git'[a][i] = d
  <2>1. CASE git' = git
    BY <2>1
  <2>2. CASE git' = [git EXCEPT ![AppOf[d]] = Written(d)]
    <3>1. git \in [App -> [Image -> Deploy \cup {NoDeploy}]] /\ AppOf[d] \in App
      BY ConstantFacts DEF TypeOK
    <3>2. \A a \in App : git'[a] = IF a = AppOf[d] THEN Written(d) ELSE git[a]
      BY <2>2, <3>1
    <3>3. \A i \in Image : Written(d)[i] = d \/ Written(d)[i] = git[AppOf[d]][i]
      BY DEF Written
    <3> QED
      BY <3>2, <3>3
  <2> QED
    BY <2>1, <2>2 DEF Works
<1>5. Serial'
  BY <1>2, <1>3 DEF Works, OrderInv, Serial
<1>6. NotYetInserted'
  BY <1>1, <1>2, <1>3 DEF OrderInv, NotYetInserted, Unaccepted
<1>7. CancelledStays'
  BY <1>1, <1>2, <1>3 DEF Works, OrderInv, CancelledStays
<1>8. ReplacedCancelled'
  BY <1>1 DEF OrderInv, ReplacedCancelled
<1>9. WrittenAccepted'
  BY <1>2, <1>3, <1>4 DEF OrderInv, WrittenAccepted, Unaccepted
<1>10. NoSuccessorYet'
  <2> SUFFICES ASSUME NEW e \in Deploy, stage'[e] \in {"cloning", "pushing"},
                      NEW a \in App, NEW i \in Image
               PROVE  git'[a][i] \notin replacedBy[e]
    BY <1>1 DEF NoSuccessorYet
  <2>1. CASE e # d
    <3>1. stage[e] \in {"cloning", "pushing"} /\ lock = e
      BY <1>2, <2>1 DEF OrderInv, Serial, Locked
    <3>2. stage[d] # "pushing"
      BY <2>1, <3>1 DEF OrderInv, Serial, Locked
    <3>3. git' = git
      BY <3>2 DEF Works
    <3> QED
      BY <3>1, <3>3 DEF OrderInv, NoSuccessorYet
  <2>2. CASE e = d
    <3>1. git' = git
      BY <1>3, <2>2 DEF Works
    <3>2. CASE stage[d] \in {"cloning", "pushing"}
      BY <2>2, <3>1, <3>2 DEF OrderInv, NoSuccessorYet
    <3>3. CASE status[d] # "cancelled"
      <4>1. cancelledBy[d] = NoDeploy
        BY <3>3 DEF Works, OrderInv, CancelledStays
      <4>2. replacedBy[d] = {}
        BY <4>1 DEF OrderInv, ReplacedCancelled
      <4> QED
        BY <2>2, <4>2
    <3> QED
      BY <1>3, <2>2, <3>2, <3>3 DEF Works
  <2> QED
    BY <2>1, <2>2
<1>11. SuccessorAccepted'
  BY <1>1, <1>2, <1>3 DEF OrderInv, SuccessorAccepted, Unaccepted
<1> QED
  BY <1>5, <1>6, <1>7, <1>8, <1>9, <1>10, <1>11 DEF OrderInv

(* The end of a write-back, or of an attempt, is such a step.               *)
LEMMA UnlockKeeps ==
  ASSUME NEW d \in Deploy, Unlock(d)
  PROVE  \A e \in Deploy \ {d} : lock = e => lock' = e
BY DEF Unlock

LEMMA RetriesWork ==
  ASSUME TypeOK, OrderInv, NEW d \in Deploy, stage[d] \in {"cloning", "pushing"}, Retries(d),
         UNCHANGED rowVars,
         \/ git' = git
         \/ stage[d] = "pushing" /\ git' = [git EXCEPT ![AppOf[d]] = Written(d)]
  PROVE  \E s \in {"attempting", "deciding"} : Works(d, s)
<1>1. lock = d
  BY DEF OrderInv, Serial, Locked
<1> QED
  BY <1>1, UnlockKeeps DEF Retries, Works, Locked, Unaccepted

LEMMA LeavesWork ==
  ASSUME TypeOK, OrderInv, NEW d \in Deploy, NEW s \in Stage \ (Unaccepted \cup Locked),
         Leaves(d, s), stage[d] \notin Unaccepted \cup {"ended"}, UNCHANGED <<rowVars, git>>
  PROVE  Works(d, s)
BY UnlockKeeps DEF Leaves, Works, Locked

LEMMA MonitorWorks ==
  ASSUME ChecksAndLockHold, TypeOK, OrderInv, NEW d \in Deploy,
         \/ StopsSuperseded(d) \/ FetchApplication(d) \/ StartAttempt(d) \/ CloneAndCommit(d)
         \/ PushAccepted(d) \/ PushRejected(d) \/ AttemptFails(d) \/ PushUnanswered(d)
         \/ PollEnds(d) \/ SetTaskStatusFails(d) \/ WithLock(d) \/ Crash(d) \/ Resume(d)
  PROVE  \E s \in Stage \ Unaccepted : Works(d, s)
<1>1. /\ {"attempting", "deciding", "waiting", "polling", "cloning", "pushing", "ended",
          "monitored", "orphaned"} \subseteq Stage \ Unaccepted
      /\ {"deciding", "polling", "ended", "orphaned"} \subseteq Stage \ (Unaccepted \cup Locked)
      /\ WrittenBack(d) \in {"deciding", "polling"}
  BY DEF Stage, Locked, Unaccepted, WrittenBack
<1>2. stage[d] \in Locked => lock = d
  BY DEF OrderInv, Serial
<1>3. CASE StopsSuperseded(d)
  BY <1>1, <1>3, LeavesWork DEF StopsSuperseded, Unaccepted
<1>4. CASE FetchApplication(d) \/ PollEnds(d) \/ SetTaskStatusFails(d) \/ Resume(d)
  BY <1>1, <1>2, <1>4 DEF FetchApplication, PollEnds, SetTaskStatusFails, Resume, Works, Unaccepted,
                          Locked, gitVars
<1>5. CASE StartAttempt(d)
  <2>1. status[d] # "cancelled"
    BY <1>5 DEF StartAttempt, SeenInProgress, ChecksAndLockHold
  <2> QED
    BY <1>1, <1>2, <1>5, <2>1 DEF StartAttempt, Works, Unaccepted, Locked, gitVars
<1>6. CASE CloneAndCommit(d)
  <2>1. CASE Leaves(d, WrittenBack(d))
    BY <1>1, <1>6, <2>1, LeavesWork DEF CloneAndCommit, Unaccepted
  <2>2. CASE Goes(d, "pushing") /\ UNCHANGED lock
    BY <1>1, <1>2, <1>6, <2>2 DEF CloneAndCommit, Works, Unaccepted, Locked
  <2> QED
    BY <1>6, <2>1, <2>2 DEF CloneAndCommit
<1>7. CASE PushAccepted(d)
  BY <1>1, <1>7, UnlockKeeps DEF PushAccepted, Push, Works, Unaccepted, Locked
<1>8. CASE PushRejected(d) \/ AttemptFails(d) \/ PushUnanswered(d)
  <2>1. /\ Retries(d) /\ UNCHANGED rowVars /\ stage[d] \in {"cloning", "pushing"}
        /\ \/ git' = git
           \/ stage[d] = "pushing" /\ git' = [git EXCEPT ![AppOf[d]] = Written(d)]
    <3>1. CASE PushRejected(d)
      BY <3>1 DEF PushRejected
    <3>2. CASE AttemptFails(d)
      BY <3>2 DEF AttemptFails
    <3>3. CASE PushUnanswered(d)
      BY <3>3 DEF PushUnanswered, Push
    <3> QED
      BY <1>8, <3>1, <3>2, <3>3
  <2>2. \E s \in {"attempting", "deciding"} : Works(d, s)
    BY <2>1, RetriesWork
  <2> QED
    BY <1>1, <2>2
<1>9. CASE WithLock(d)
  BY <1>1, <1>9, ConstantFacts DEF WithLock, Works, Unaccepted
<1>10. CASE Crash(d)
  BY <1>1, <1>10, LeavesWork DEF Crash, Unaccepted, Locked
<1> QED
  BY <1>3, <1>4, <1>5, <1>6, <1>7, <1>8, <1>9, <1>10

(* A request that is not accepted yet has written nothing.                  *)
LEMMA UnacceptedUnwritten ==
  ASSUME OrderInv, NEW d \in Deploy, stage[d] \in Unaccepted, NEW a \in App, NEW i \in Image
  PROVE  git[a][i] # d
BY DEF OrderInv, WrittenAccepted, Unaccepted

LEMMA AcceptKeepsOrder ==
  ASSUME TypeOK, OrderInv, NEW d \in Deploy, Accept(d)
  PROVE  OrderInv'
<1>1. /\ stage[d] \in {"new", "cancelling", "adding"} /\ stage'[d] \in Unaccepted \cup {"monitored"}
      /\ \A e \in Deploy \ {d} : stage'[e] = stage[e]
      /\ git' = git /\ lock' = lock
  BY DEF Accept, SelectInProgress, CancelSelected, CancelFails, AddTask, AddTaskFails, Goes, gitVars,
         TypeOK, Unaccepted
<1>2. Serial'
  BY <1>1 DEF OrderInv, Serial, Locked, Unaccepted
<1>3. WrittenAccepted'
  BY <1>1, UnacceptedUnwritten DEF OrderInv, WrittenAccepted, Unaccepted
<1>4. ASSUME NEW e \in Deploy, NEW n \in Deploy, n \in replacedBy[e]
      PROVE  stage'[n] \notin Unaccepted
  <2>1. stage[n] \notin Unaccepted
    BY <1>4 DEF OrderInv, SuccessorAccepted, Unaccepted
  <2>2. n # d
    BY <1>1, <2>1 DEF Unaccepted
  <2> QED
    BY <1>1, <2>1, <2>2
<1>5. CASE SelectInProgress(d) \/ CancelFails(d) \/ AddTaskFails(d)
  <2>1. UNCHANGED <<status, cancelledBy, replacedBy>> /\ stage'[d] \in Unaccepted
    BY <1>1, <1>5 DEF SelectInProgress, CancelFails, AddTaskFails, Goes, rowVars, TypeOK, Unaccepted
  <2>2. NotYetInserted' /\ CancelledStays' /\ ReplacedCancelled'
    BY <1>1, <2>1 DEF OrderInv, NotYetInserted, CancelledStays, ReplacedCancelled, Unaccepted
  <2>3. NoSuccessorYet'
    BY <1>1, <2>1 DEF OrderInv, NoSuccessorYet, Unaccepted
  <2>4. SuccessorAccepted'
    BY <1>4, <2>1 DEF SuccessorAccepted, Unaccepted
  <2> QED
    BY <1>2, <1>3, <2>2, <2>3, <2>4 DEF OrderInv
<1>6. CASE CancelSelected(d)
  <2>1. /\ UNCHANGED replacedBy /\ stage'[d] = "adding"
        /\ \A e \in Deploy :
             \/ status'[e] = status[e] /\ cancelledBy'[e] = cancelledBy[e]
             \/ status[e] = "in progress" /\ status'[e] = "cancelled" /\ cancelledBy'[e] = d
    BY <1>6 DEF CancelSelected, Goes, TypeOK
  <2>2. NotYetInserted' /\ CancelledStays'
    BY <1>1, <2>1 DEF OrderInv, NotYetInserted, CancelledStays, Unaccepted
  <2>3. ReplacedCancelled'
    BY <2>1, ConstantFacts DEF OrderInv, ReplacedCancelled
  <2>4. NoSuccessorYet'
    BY <1>1, <2>1 DEF OrderInv, NoSuccessorYet, Unaccepted
  <2>5. SuccessorAccepted'
    BY <1>4, <2>1 DEF SuccessorAccepted, Unaccepted
  <2> QED
    BY <1>2, <1>3, <2>2, <2>3, <2>4, <2>5 DEF OrderInv
<1>7. CASE AddTask(d)
  <2>1. /\ UNCHANGED cancelledBy /\ stage[d] = "adding" /\ stage'[d] = "monitored"
        /\ \A e \in Deploy \ {d} : status'[e] = status[e]
        /\ \A e \in Deploy : \/ replacedBy'[e] = replacedBy[e]
                             \/ cancelledBy[e] # NoDeploy /\ replacedBy'[e] = replacedBy[e] \cup {d}
    BY <1>7 DEF AddTask, Goes, TypeOK
  <2>2. cancelledBy[d] = NoDeploy
    BY <2>1 DEF OrderInv, NotYetInserted, CancelledStays
  <2>3. NotYetInserted' /\ CancelledStays'
    BY <1>1, <2>1, <2>2 DEF OrderInv, NotYetInserted, CancelledStays
  <2>4. ReplacedCancelled'
    BY <2>1, <2>2 DEF OrderInv, ReplacedCancelled
  <2>5. NoSuccessorYet'
    <3> SUFFICES ASSUME NEW e \in Deploy, stage'[e] \in {"cloning", "pushing"},
                        NEW a \in App, NEW i \in Image
                 PROVE  git[a][i] \notin replacedBy'[e]
      BY <1>1 DEF NoSuccessorYet
    <3>1. git[a][i] \notin replacedBy[e]
      BY <1>1, <2>1 DEF OrderInv, NoSuccessorYet
    <3>2. git[a][i] # d
      BY <2>1, UnacceptedUnwritten DEF Unaccepted
    <3> QED
      BY <2>1, <3>1, <3>2
  <2>6. SuccessorAccepted'
    BY <1>4, <2>1 DEF SuccessorAccepted, Unaccepted
  <2> QED
    BY <1>2, <1>3, <2>3, <2>4, <2>5, <2>6 DEF OrderInv
<1> QED
  BY <1>5, <1>6, <1>7 DEF Accept

(* A row that is recorded is one in progress, or its goroutine ends.        *)
Records(d) ==
  /\ status' = [status EXCEPT ![d] = "final"]
  /\ cancelledBy' = cancelledBy /\ replacedBy' = replacedBy
  /\ git' = git /\ lock' = lock
  /\ \/ stage' = stage /\ status[d] = "in progress"
     \/ /\ stage' = [stage EXCEPT ![d] = "ended"]
        /\ stage[d] = "deciding" \/ status[d] = "in progress"

LEMMA RecordSteps ==
  ASSUME NEW d \in Deploy, SetTaskStatus(d) \/ ResumeTooLate(d) \/ AbortObsolete(d)
  PROVE  Records(d)
<1>1. CASE SetTaskStatus(d)
  BY <1>1 DEF SetTaskStatus, Records, Goes, gitVars
<1>2. CASE ResumeTooLate(d)
  BY <1>2 DEF ResumeTooLate, Records, Goes, gitVars
<1>3. CASE AbortObsolete(d)
  BY <1>3 DEF AbortObsolete, Records, gitVars
<1> QED
  BY <1>1, <1>2, <1>3

LEMMA RecordsAccepted ==
  ASSUME OrderInv, NEW d \in Deploy, Records(d)
  PROVE  stage[d] \notin Unaccepted
BY DEF Records, OrderInv, NotYetInserted, Unaccepted

LEMMA RecordKeepsOrder ==
  ASSUME TypeOK, OrderInv, NEW d \in Deploy, Records(d)
  PROVE  OrderInv'
<1>1. stage[d] \notin Unaccepted
  BY RecordsAccepted
<1>2. /\ cancelledBy' = cancelledBy /\ replacedBy' = replacedBy /\ git' = git /\ lock' = lock
      /\ \A e \in Deploy : stage'[e] = stage[e] \/ (e = d /\ stage'[e] = "ended")
      /\ \A e \in Deploy \ {d} : status'[e] = status[e]
      /\ stage'[d] = "ended" \/ status[d] = "in progress"
  BY DEF Records, TypeOK
<1>3. Serial' /\ WrittenAccepted' /\ NoSuccessorYet' /\ SuccessorAccepted'
  BY <1>1, <1>2 DEF OrderInv, Serial, WrittenAccepted, NoSuccessorYet, SuccessorAccepted, Locked, Unaccepted
<1>4. NotYetInserted' /\ CancelledStays' /\ ReplacedCancelled'
  BY <1>1, <1>2 DEF OrderInv, NotYetInserted, CancelledStays, ReplacedCancelled, Unaccepted
<1> QED
  BY <1>3, <1>4 DEF OrderInv

(* What a step does to the rows, the lock and git                           *)
LEMMA StepKinds ==
  ASSUME ChecksAndLockHold, TypeOK, OrderInv, [Next]_vars
  PROVE  \/ \E d \in Deploy : Accept(d)
         \/ \E d \in Deploy : \E s \in Stage \ Unaccepted : Works(d, s)
         \/ \E d \in Deploy : Records(d)
         \/ UNCHANGED <<stage, rowVars, lock, git>>
<1>1. ASSUME NEW d \in Deploy, Monitor(d)
      PROVE  (\E s \in Stage \ Unaccepted : Works(d, s)) \/ Records(d)
  BY <1>1, MonitorWorks, RecordSteps DEF Monitor
<1>2. ASSUME NEW d \in Deploy, WithLock(d) \/ Crash(d) \/ Resume(d)
      PROVE  \E s \in Stage \ Unaccepted : Works(d, s)
  BY <1>2, MonitorWorks
<1>3. ASSUME NEW d \in Deploy, ResumeTooLate(d) \/ AbortObsolete(d) PROVE Records(d)
  BY <1>3, RecordSteps
<1>4. ASSUME NEW d \in Deploy, WithLockFails(d) \/ LoseConnection(d) PROVE FALSE
  BY <1>4 DEF WithLockFails, LoseConnection, ChecksAndLockHold
<1>5. ForeignPush \/ UNCHANGED vars => UNCHANGED <<stage, rowVars, lock, git>>
  BY DEF ForeignPush, vars, gitVars
<1> QED
  BY <1>1, <1>2, <1>3, <1>4, <1>5 DEF Next

LEMMA StepOrder == ChecksAndLockHold /\ TypeOK /\ OrderInv /\ [Next]_vars => OrderInv'
<1> SUFFICES ASSUME ChecksAndLockHold, TypeOK, OrderInv, [Next]_vars PROVE OrderInv'
  OBVIOUS
<1>1. CASE UNCHANGED <<stage, rowVars, lock, git>>
  BY <1>1 DEF OrderInv, Serial, NotYetInserted, CancelledStays, ReplacedCancelled, WrittenAccepted,
              NoSuccessorYet, SuccessorAccepted, rowVars
<1> QED
  BY <1>1, StepKinds, AcceptKeepsOrder, WorkKeepsOrder, RecordKeepsOrder

(* Only a push changes git; what it replaces is no tag of a successor.      *)
LEMMA StepWrites ==
  ASSUME ChecksAndLockHold, TypeOK, OrderInv, [Next]_vars
  PROVE  \/ git' = git
         \/ \E d \in Deploy : /\ stage[d] = "pushing"
                             /\ git' = [git EXCEPT ![AppOf[d]] = Written(d)]
<1>1. ASSUME NEW d \in Deploy, Accept(d) PROVE git' = git
  BY <1>1 DEF Accept, SelectInProgress, CancelSelected, CancelFails, AddTask, AddTaskFails, gitVars
<1> QED
  BY <1>1, StepKinds DEF Works, Records

LEMMA StepKeepsNewer ==
  ASSUME ChecksAndLockHold, TypeOK, OrderInv, [Next]_vars,
         NEW a \in App, NEW i \in Image, git'[a][i] \in Deploy
  PROVE  git[a][i] \notin replacedBy[git'[a][i]]
<1>1. CASE git' = git
  BY <1>1 DEF OrderInv, ReplacedCancelled
<1>2. ASSUME NEW d \in Deploy, stage[d] = "pushing", git' = [git EXCEPT ![AppOf[d]] = Written(d)]
      PROVE  git[a][i] \notin replacedBy[git'[a][i]]
  <2>1. git'[a][i] = d \/ git'[a][i] = git[a][i]
    BY <1>2, ConstantFacts DEF Written, TypeOK
  <2>2. git[a][i] \notin replacedBy[d]
    BY <1>2 DEF OrderInv, NoSuccessorYet
  <2> QED BY <2>1, <2>2 DEF OrderInv, ReplacedCancelled
<1> QED BY <1>1, <1>2, StepWrites

(* As long as the check for a cancellation can read the row and the lock    *)
(* lasts, the tag of a cancelled deployment never replaces the tag of one   *)
(* accepted after the cancellation, whatever else fails and however many    *)
(* deployments there are: runGitUpdateWithRetry checks under the lock.      *)
THEOREM NewerTagStays ==
  ASSUME ChecksAndLockHold
  PROVE  Spec => NoStaleOverwrite
<1>1. Init => TypeOK /\ OrderInv
  BY InitTypes, InitOrder
<1>2. TypeOK /\ OrderInv /\ [Next]_vars => TypeOK' /\ OrderInv'
  BY StepTypes, StepOrder, ChecksAndLockHold
<1>3. TypeOK /\ OrderInv /\ [Next]_vars =>
        [\A a \in App, i \in Image :
           LET old == git[a][i]
               new == git'[a][i]
           IN new \in Deploy => old \notin replacedBy[new]]_vars
  BY StepKeepsNewer, ChecksAndLockHold
<1> QED BY <1>1, <1>2, <1>3, PTL DEF Spec, NoStaleOverwrite

-----------------------------------------------------------------------------
(* The write-backs implement WriteBacks.                                    *)

LEMMA ContentFacts ==
  ASSUME NEW d \in Deploy
  PROVE  /\ DOMAIN content[d] = ImagesOf[d]
         /\ \A i \in Image : \A t : Promise!Asks(d, i, t) <=> i \in ImagesOf[d] /\ t = d
BY DEF content, Promise!Asks

LEMMA ProgressValues ==
  ASSUME NEW d \in Deploy
  PROVE  /\ progress[d] = "new" <=> stage[d] \in {"new", "cancelling", "adding"}
         /\ progress[d] = "over" <=> stage[d] \in {"refused", "ended"}
         /\ progress[d] \in {"new", "active", "over"}
BY DEF progress

LEMMA ProgressKept ==
  ASSUME NEW d \in Deploy, stage'[d] = stage[d]
  PROVE  progress'[d] = progress[d]
BY DEF progress

LEMMA InitPromise == Init => Promise!Init
BY DEF Init, Promise!Init, progress, superseded, barred

(* A step of one deployment that changes no tag and no cancellation         *)
LEMMA MovePromise ==
  ASSUME NEW d \in Deploy, \A e \in Deploy \ {d} : stage'[e] = stage[e],
         git' = git, cancelledBy' = cancelledBy, replacedBy' = replacedBy,
         progress[d] = progress'[d] \/ (progress'[d] = "over" /\ progress[d] # "over")
  PROVE  [Promise!Next]_Promise!vars
<1>1. superseded' = superseded /\ barred' = barred
  BY DEF superseded, barred
<1>2. \A e \in Deploy \ {d} : progress'[e] = progress[e]
  BY ProgressKept
<1>3. progress = [e \in Deploy |-> progress[e]] /\ progress' = [e \in Deploy |-> progress'[e]]
  BY DEF progress
<1>4. CASE progress'[d] = progress[d]
  <2>1. progress' = progress
    BY <1>2, <1>3, <1>4
  <2> QED
    BY <1>1, <2>1 DEF Promise!vars
<1>5. CASE progress[d] = "active" /\ progress'[d] = "over"
  <2>1. progress' = [e \in Deploy |-> IF e \in {d} THEN "over" ELSE progress[e]]
    BY <1>2, <1>3, <1>5
  <2>2. Promise!Leave({d})
    BY <1>1, <1>5, <2>1 DEF Promise!Leave
  <2> QED
    BY <2>2 DEF Promise!Next
<1>6. CASE progress[d] = "new" /\ progress'[d] = "over"
  <2>1. progress' = [progress EXCEPT ![d] = "over"]
    BY <1>2, <1>3, <1>6
  <2>2. Promise!Refuse(d)
    BY <1>1, <1>6, <2>1 DEF Promise!Refuse
  <2> QED
    BY <2>2 DEF Promise!Next
<1> QED
  BY <1>4, <1>5, <1>6, ProgressValues

(* Cancelling is Stop, inserting the row is Accept.                         *)
LEMMA AcceptPromise ==
  ASSUME TypeOK, OrderInv, NEW d \in Deploy, Accept(d)
  PROVE  [Promise!Next]_Promise!vars
<1>1. /\ git' = git /\ \A e \in Deploy \ {d} : stage'[e] = stage[e]
      /\ stage[d] \in {"new", "cancelling", "adding"}
  BY DEF Accept, SelectInProgress, CancelSelected, CancelFails, AddTask, AddTaskFails, Goes, gitVars,
         TypeOK
<1>2. progress = [e \in Deploy |-> progress[e]] /\ progress' = [e \in Deploy |-> progress'[e]]
  BY DEF progress
<1>3. CASE SelectInProgress(d) \/ CancelFails(d) \/ AddTaskFails(d)
  <2>1. /\ cancelledBy' = cancelledBy /\ replacedBy' = replacedBy
        /\ stage'[d] \in {"cancelling", "adding", "refused"}
    BY <1>3 DEF SelectInProgress, CancelFails, AddTaskFails, Goes, rowVars, TypeOK
  <2>2. progress[d] = "new" /\ progress'[d] \in {"new", "over"}
    BY <1>1, <2>1 DEF progress
  <2> QED
    BY <1>1, <2>1, <2>2, MovePromise
<1>4. CASE CancelSelected(d)
  <2> DEFINE ids == {e \in found[d] : status[e] = "in progress"}
  <2>1. /\ ids \in SUBSET Deploy /\ replacedBy' = replacedBy /\ stage'[d] = "adding"
        /\ cancelledBy' = [e \in Deploy |-> IF e \in ids THEN d ELSE cancelledBy[e]]
    BY <1>4 DEF CancelSelected, Goes, TypeOK
  <2>2. superseded' = superseded \cup ids
    BY <2>1, ConstantFacts DEF superseded
  <2>3. \A e \in ids : progress[e] # "new"
    BY <2>1, ProgressValues DEF OrderInv, NotYetInserted
  <2> HIDE DEF ids
  <2>4. progress'[d] = progress[d]
    BY <1>1, <2>1 DEF progress
  <2>5. progress' = progress /\ barred' = barred
    BY <1>1, <1>2, <2>1, <2>4, ProgressKept DEF barred
  <2>6. Promise!Stop(ids)
    BY <1>1, <2>2, <2>3, <2>5 DEF Promise!Stop
  <2> QED
    BY <2>1, <2>6 DEF Promise!Next
<1>5. CASE AddTask(d)
  <2>1. /\ stage[d] = "adding" /\ stage'[d] = "monitored" /\ cancelledBy' = cancelledBy
        /\ replacedBy' = [e \in Deploy |->
             IF cancelledBy[e] # NoDeploy /\ AppOf[e] = AppOf[d] /\ imageNamesOverlap(d, e)
               THEN replacedBy[e] \cup {d} ELSE replacedBy[e]]
    BY <1>5 DEF AddTask, Goes, TypeOK
  <2>2. progress[d] = "new" /\ progress'[d] = "active"
    BY <2>1 DEF progress
  <2>3. progress' = [progress EXCEPT ![d] = "active"]
    BY <1>1, <1>2, <2>2, ProgressKept
  <2>4. \A e \in Deploy : d \notin replacedBy[e]
    BY <2>1 DEF OrderInv, SuccessorAccepted
  <2>5. \A e \in Deploy : Promise!Rivals(d, e) <=> AppOf[e] = AppOf[d] /\ imageNamesOverlap(d, e)
    BY ContentFacts DEF Promise!Rivals, imageNamesOverlap
  <2>6. barred'[d] = {e \in superseded : Promise!Rivals(d, e)}
    BY <2>1, <2>4, <2>5 DEF barred, superseded
  <2>7. \A n \in Deploy \ {d} : barred'[n] = barred[n]
    BY <2>1 DEF barred
  <2>8. barred' = [barred EXCEPT ![d] = {e \in superseded : Promise!Rivals(d, e)}]
    BY <2>6, <2>7 DEF barred
  <2>9. superseded' = superseded
    BY <2>1 DEF superseded
  <2>10. Promise!Accept(d)
    BY <1>1, <2>2, <2>3, <2>8, <2>9 DEF Promise!Accept
  <2> QED
    BY <2>10 DEF Promise!Next
<1> QED
  BY <1>3, <1>4, <1>5 DEF Accept

(* A push carries the content of its deployment, over no successor's tag.   *)
LEMMA PushPromise ==
  ASSUME TypeOK, OrderInv, NEW d \in Deploy, stage[d] = "pushing",
         git' = [git EXCEPT ![AppOf[d]] = Written(d)],
         progress' = progress, superseded' = superseded, barred' = barred
  PROVE  Promise!Next
<1> DEFINE a == AppOf[d]
           new == Written(d)
<1>1. a \in App /\ new \in [Image -> Deploy \cup {NoDeploy}]
  BY ConstantFacts, WrittenType
<1>2. \A i \in Image : new[i] = IF i \in ImagesOf[d] THEN d ELSE git[a][i]
  BY DEF Written
<1>3. progress[d] = "active"
  BY DEF progress
<1>4. ASSUME NEW i \in Image PROVE Promise!MayReplace(d, i, git[a][i])
  <2>1. git[a][i] \notin replacedBy[d]
    BY <1>1 DEF OrderInv, NoSuccessorYet
  <2>2. ASSUME NEW n \in Deploy, Promise!Asks(n, i, git[a][i]) PROVE d \notin barred[n]
    <3>1. git[a][i] = n
      BY <2>2, ContentFacts
    <3> QED
      BY <2>1, <3>1 DEF barred
  <2> QED
    BY <2>2 DEF Promise!MayReplace
<1>5. \A i \in Image : new[i] # git[a][i] =>
        \E w \in {d} : Promise!Asks(w, i, new[i]) /\ Promise!MayReplace(w, i, git[a][i])
  BY <1>2, <1>4, ContentFacts
<1>6. \A w \in {d} : \A i \in DOMAIN content[w] : \E v \in {d} : Promise!Asks(v, i, new[i])
  BY <1>2, ContentFacts, ConstantFacts
<1> HIDE DEF new, a
<1>7. Promise!Write(a, {d})
  BY <1>1, <1>3, <1>5, <1>6 DEF Promise!Write, a, new
<1> QED
  BY <1>1, <1>7 DEF Promise!Next

LEMMA WorkPromise ==
  ASSUME TypeOK, OrderInv, NEW d \in Deploy, NEW s \in Stage \ Unaccepted, Works(d, s)
  PROVE  [Promise!Next]_Promise!vars
<1>1. /\ cancelledBy' = cancelledBy /\ replacedBy' = replacedBy /\ stage'[d] = s
      /\ \A e \in Deploy \ {d} : stage'[e] = stage[e]
      /\ progress[d] = "active" /\ progress'[d] \in {"active", "over"}
  BY DEF Works, Goes, rowVars, TypeOK, progress, Unaccepted
<1>2. CASE git' = git
  BY <1>1, <1>2, MovePromise
<1>3. CASE /\ git' = [git EXCEPT ![AppOf[d]] = Written(d)]
           /\ stage[d] = "pushing" /\ s \notin {"cloning", "pushing", "ended"}
  <2>1. progress'[d] = "active"
    BY <1>1, <1>3 DEF progress, Unaccepted
  <2>2. progress' = progress
    BY <1>1, <2>1, ProgressKept DEF progress
  <2>3. superseded' = superseded /\ barred' = barred
    BY <1>1 DEF superseded, barred
  <2> QED
    BY <1>3, <2>2, <2>3, PushPromise
<1> QED
  BY <1>2, <1>3 DEF Works

LEMMA RecordPromise ==
  ASSUME TypeOK, OrderInv, NEW d \in Deploy, Records(d)
  PROVE  [Promise!Next]_Promise!vars
<1>1. /\ cancelledBy' = cancelledBy /\ replacedBy' = replacedBy /\ git' = git
      /\ \A e \in Deploy \ {d} : stage'[e] = stage[e]
      /\ stage'[d] = stage[d] \/ stage'[d] = "ended"
  BY DEF Records, TypeOK
<1>2. progress'[d] = progress[d] \/ progress'[d] = "over"
  BY <1>1 DEF progress
<1> QED
  BY <1>1, <1>2, MovePromise

LEMMA PromiseNext ==
  ChecksAndLockHold /\ TypeOK /\ OrderInv /\ [Next]_vars => [Promise!Next]_Promise!vars
<1>1. ASSUME UNCHANGED <<stage, rowVars, lock, git>> PROVE UNCHANGED Promise!vars
  BY <1>1 DEF Promise!vars, progress, superseded, barred, rowVars
<1> QED
  BY <1>1, StepKinds, AcceptPromise, WorkPromise, RecordPromise

(* As long as the check for a cancellation can read the row and the lock    *)
(* lasts, the accept paths, the write-backs with their attempts and pushes, *)
(* the sweeps and the crashes do what WriteBacks allows, whatever else      *)
(* fails: whole contents only, of deployments at work, none over the tag of *)
(* a successor.                                                             *)
THEOREM ImplementsWriteBacks ==
  ASSUME ChecksAndLockHold
  PROVE  Spec => WriteBackSpec
<1>1. Init => TypeOK /\ OrderInv /\ Promise!Init
  BY InitTypes, InitOrder, InitPromise
<1>2. TypeOK /\ OrderInv /\ [Next]_vars => TypeOK' /\ OrderInv' /\ [Promise!Next]_Promise!vars
  BY StepTypes, StepOrder, PromiseNext, ChecksAndLockHold
<1> QED
  BY <1>1, <1>2, PTL DEF Spec, WriteBackSpec, Promise!Spec
=============================================================================
