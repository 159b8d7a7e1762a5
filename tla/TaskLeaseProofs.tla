--------------------------- MODULE TaskLeaseProofs ---------------------------
(***************************************************************************)
(* Proofs about TaskLease: types, the inductive invariant LeaseInv of      *)
(* TaskLeaseMargin, and what follows from it.                              *)
(***************************************************************************)
EXTENDS TaskLeaseMargin, TLAPS

(* What the assumptions say of the constants, in the form the steps use.    *)
LEMMA ConstantFacts ==
  /\ Acceptor \subseteq Monitor
  /\ \A m \in Monitor : At[m] \in Replica /\ Of[m] \in Task
  /\ NoOwner \notin Replica
  /\ TTL \in Nat /\ Interval \in Nat /\ RenewTimeout \in Nat
  /\ StartDelay \in Nat /\ WriteDelay \in Nat /\ Skew \in Nat /\ MaxTime \in Nat
  /\ 1 <= Interval /\ 1 <= RenewTimeout /\ Interval < TTL
  /\ StartDelay + Skew + RenewTimeout <= Interval + 1
BY ConstantsAssumption, MarginAssumption

LEMMA MarginFacts == Margin \in Nat /\ 1 <= Margin /\ Margin <= TTL
BY ConstantFacts DEF Margin

(* The arithmetic of the margin, away from the state.  n: now, s: since,    *)
(* i: issued, l: lastRenewed, d: the row's deadline.                        *)
LEMMA StartMargin ==
  ASSUME NEW n \in Nat, NEW s \in Nat, NEW d \in Int,
         s + TTL - Skew <= d, n <= s + StartDelay
  PROVE  n + TTL - StartDelay - Skew <= d
BY ConstantFacts

LEMMA DecisionMargin ==
  ASSUME NEW n \in Nat, NEW l \in Nat, NEW d \in Int,
         ~(n - l + Interval >= TTL), l + TTL - StartDelay - Skew <= d
  PROVE  n + Margin <= d
BY ConstantFacts DEF Margin

LEMMA UnagedMargin ==
  ASSUME NEW n \in Nat, NEW l \in Nat, NEW d \in Int,
         ~(n + 1 - l + Interval >= TTL), l + TTL - StartDelay - Skew <= d
  PROVE  n + 1 <= d
BY ConstantFacts

LEMMA RenewalMargin ==
  ASSUME NEW n \in Nat, NEW l \in Nat, NEW i \in Nat, NEW d \in Int,
         n < i + RenewTimeout, i + Interval < l + TTL, l + TTL - StartDelay - Skew <= d
  PROVE  n + 1 <= d
BY ConstantFacts

LEMMA AcceptMargin ==
  ASSUME NEW n \in Nat, NEW s \in Nat, NEW d \in Int,
         n < s + StartDelay, s + TTL - Skew <= d
  PROVE  n + 1 <= d
BY ConstantFacts

LEMMA ReturnMargin ==
  ASSUME NEW i \in Nat, NEW d \in Int, i + TTL <= d
  PROVE  i + TTL - StartDelay - Skew <= d
BY ConstantFacts

LEMMA SkewMargin ==
  ASSUME NEW n \in Nat, NEW d \in (-Skew)..Skew
  PROVE  n <= n + d + TTL /\ n + TTL - Skew <= n + d + TTL
BY ConstantFacts

(* A fresh lease covers whatever its holder may do next.                    *)
LEMMA FreshLease ==
  ASSUME NEW n \in Nat, NEW x \in Nat, x <= n
  PROVE  /\ n <= n + TTL
         /\ x + TTL - Skew <= n + TTL
         /\ x + TTL - StartDelay - Skew <= n + TTL
         /\ x + TTL <= n + TTL
         /\ x + Margin <= n + TTL
BY ConstantFacts, MarginFacts

LEMMA DeadlineType == ASSUME TypeOK, NEW t \in Task PROVE Deadline(t) \in Int
<1>1. lease[t] \in Int /\ created[t] \in Int
  BY DEF TypeOK
<1>2. created[t] + TTL \in Int
  BY <1>1, ConstantFacts
<1> QED
  BY <1>1, <1>2 DEF Deadline

LEMMA InitLeaseInv == Init => LeaseInv
<1> SUFFICES ASSUME Init PROVE LeaseInv
  OBVIOUS
<1>1. TypeOK
  BY ConstantFacts DEF Init, TypeOK, Status, Control, Renewal, Phase, NoLease
<1>2. \A m \in Monitor : ~Holds(m)
  BY DEF Init, Holds
<1>3. \A m \in Monitor : DelaysKept(m) /\ IssuedInTime(m) /\ Covered(m)
  <2>1. \A m \in Monitor : DelaysKept(m) /\ IssuedInTime(m)
    BY DEF Init, DelaysKept, IssuedInTime, Guarded
  <2>2. \A m \in Monitor : Covered(m)
    BY <1>2 DEF Covered
  <2> QED
    BY <2>1, <2>2
<1>4. ExclusiveHolder /\ HeldHasNoOutcome
  BY <1>2 DEF ExclusiveHolder, HeldHasNoOutcome
<1>5. OutcomeMatchesStatus /\ NoneIsUntouched /\ ExitedIsGone
  BY ConstantFacts DEF Init, OutcomeMatchesStatus, NoneIsUntouched, ExitedIsGone, NoLease
<1> QED
  BY <1>1, <1>3, <1>4, <1>5 DEF LeaseInv

-----------------------------------------------------------------------------
(* Types *)

LEMMA EndTypes ==
  ASSUME TypeOK, NEW M, End(M)
  PROVE  /\ pc' \in [Monitor -> Control] /\ since' \in [Monitor -> Nat]
         /\ lastRenewed' \in [Monitor -> Nat] /\ lost' \in [Monitor -> BOOLEAN]
         /\ renewal' \in [Monitor -> Renewal] /\ issued' \in [Monitor -> Nat]
BY DEF TypeOK, End, Control, Renewal

LEMMA MonitorTypes ==
  ASSUME TypeOK, NEW m \in Monitor, MonitorStep(m)
  PROVE  TypeOK'
<1> USE ConstantFacts DEF TypeOK, rowVars, guardVars
<1>1. CASE AddTask(m)
  <2>1. created' \in [Task -> Int]
    <3>1. PICK d \in (-Skew)..Skew : created' = [created EXCEPT ![Of[m]] = now + d]
      BY <1>1 DEF AddTask
    <3> QED
      BY <3>1
  <2> QED
    BY <1>1, <2>1 DEF AddTask, Status, Control
<1>2. CASE ClaimTask(m) \/ ClaimTaskFails(m) \/ newLeaseGuard(m)
  BY <1>2 DEF ClaimTask, ClaimTaskFails, newLeaseGuard, Control
<1>3. CASE RenewIssue(m)
  BY <1>3 DEF RenewIssue, Renewal
<1>9. CASE GiveUpAged(m)
  BY <1>9 DEF GiveUpAged
<1>10. CASE RenewFails(m)
  BY <1>10 DEF RenewFails, Renewal
<1>7. CASE RenewLease(m)
  BY <1>7 DEF RenewLease, Renewal
<1>8. CASE RenewReturns(m)
  BY <1>8 DEF RenewReturns, Renewal
<1>4. CASE NotResumed(m) \/ Abandons(m) \/ StopsSuperseded(m) \/ SetTaskStatusFails(m)
  BY <1>4, EndTypes DEF NotResumed, Abandons, StopsSuperseded, SetTaskStatusFails
<1>5. CASE Decides(m)
  BY <1>5 DEF Decides, Control
<1>6. CASE RecordOutcome(m)
  <2>1. status' \in [Task -> Status]
    BY <1>6 DEF RecordOutcome, Status
  <2>2. outcomes' \in [Task -> Nat]
    BY <1>6 DEF RecordOutcome
  <2> QED
    BY <1>6, <2>1, <2>2, EndTypes DEF RecordOutcome
<1> QED
  BY <1>1, <1>2, <1>3, <1>4, <1>5, <1>6, <1>7, <1>8, <1>9, <1>10 DEF MonitorStep, SetTaskStatus, abortStaleTask

LEMMA ReplicaTypes ==
  ASSUME TypeOK, NEW r \in Replica, ReplicaStep(r)
  PROVE  TypeOK'
<1> USE ConstantFacts DEF TypeOK, rowVars, monVars, guardVars
<1>1. CASE ReapTick(r)
  BY <1>1 DEF ReapTick
<1>2. CASE ClaimExpiredTasks(r)
  BY <1>2 DEF ClaimExpiredTasks, Control
<1>3. CASE beginDraining(r)
  BY <1>3 DEF beginDraining, Phase
<1>4. CASE ReleaseOwnedLeases(r)
  <2>1. owner' \in [Task -> Replica \cup {NoOwner}]
    BY <1>4 DEF ReleaseOwnedLeases
  <2>2. lease' \in [Task -> Int]
    <3>1. now \in Int
      OBVIOUS
    <3>2. PICK R : lease' = [t \in Task |-> IF t \in R THEN now ELSE lease[t]]
      BY <1>4 DEF ReleaseOwnedLeases
    <3> QED
      BY <3>1, <3>2
  <2> QED
    BY <1>4, <2>1, <2>2 DEF ReleaseOwnedLeases, Phase
<1>5. CASE Exit(r)
  BY <1>5, EndTypes DEF Exit, Phase
<1> QED
  BY <1>1, <1>2, <1>3, <1>4, <1>5 DEF ReplicaStep

LEMMA NextTypes == TypeOK /\ [Next]_vars => TypeOK'
<1> SUFFICES ASSUME TypeOK, [Next]_vars PROVE TypeOK'
  OBVIOUS
<1>1. ASSUME NEW t \in Task, Cancel(t) PROVE TypeOK'
  BY <1>1 DEF TypeOK, Cancel, Status, monVars, guardVars
<1>2. CASE Tick
  BY <1>2 DEF TypeOK, Tick, rowVars, monVars, guardVars
<1>3. CASE UNCHANGED vars
  BY <1>3 DEF TypeOK, vars, rowVars, monVars, guardVars
<1> QED
  BY <1>1, <1>2, <1>3, MonitorTypes, ReplicaTypes DEF Next

(* Every variable of the model keeps its type.                              *)
THEOREM TypeCorrect == Spec => []TypeOK
<1>1. Init => TypeOK
  BY InitLeaseInv DEF LeaseInv
<1> QED
  BY <1>1, NextTypes, PTL DEF Spec

-----------------------------------------------------------------------------
(* Steps that change the local state of one monitor only.                   *)

SameMonitor(n) ==
  /\ pc'[n] = pc[n] /\ since'[n] = since[n]
  /\ lastRenewed'[n] = lastRenewed[n] /\ lost'[n] = lost[n]
  /\ renewal'[n] = renewal[n] /\ issued'[n] = issued[n]

LocalStep(m) ==
  /\ UNCHANGED <<now, rowVars, phase, sweeping, outcomes, late>>
  /\ \A n \in Monitor : n # m => SameMonitor(n)
  /\ Holds(m)' => Holds(m)
  /\ pc[m] # "idle"
  /\ pc'[m] \in {"idle", "gone"} \/ pc[m] \notin {"idle", "gone"}

LEMMA LocalStepInv ==
  ASSUME LeaseInv, TypeOK', NEW m \in Monitor, LocalStep(m),
         DelaysKept(m)', IssuedInTime(m)', Covered(m)'
  PROVE  LeaseInv'
<1> USE DEF LocalStep, rowVars
<1>1. ASSUME NEW n \in Monitor, n # m
      PROVE  /\ Holds(n)' <=> Holds(n)
             /\ DelaysKept(n)' /\ IssuedInTime(n)' /\ Covered(n)'
  <2>1. SameMonitor(n) /\ DelaysKept(n) /\ IssuedInTime(n) /\ Covered(n)
    BY <1>1 DEF LeaseInv
  <2>2. Holds(n)' <=> Holds(n)
    BY <2>1 DEF SameMonitor, Holds, aged, Overdue
  <2>3. DelaysKept(n)' /\ IssuedInTime(n)'
    BY <2>1 DEF SameMonitor, DelaysKept, IssuedInTime, Guarded
  <2>4. Covered(n)'
    BY <2>1, <2>2 DEF SameMonitor, Covered, Deadline, Leaving
  <2> QED
    BY <2>2, <2>3, <2>4
<1>2. \A n \in Monitor : Holds(n)' => Holds(n)
  BY <1>1
<1>3. ExclusiveHolder' /\ HeldHasNoOutcome'
  BY <1>2 DEF LeaseInv, ExclusiveHolder, HeldHasNoOutcome
<1>4. OutcomeMatchesStatus'
  BY DEF LeaseInv, OutcomeMatchesStatus
<1>5. NoneIsUntouched'
  BY DEF LeaseInv, NoneIsUntouched, SameMonitor
<1>6. ExitedIsGone'
  BY DEF LeaseInv, ExitedIsGone, SameMonitor
<1> QED
  BY <1>1, <1>3, <1>4, <1>5, <1>6 DEF LeaseInv
(* An ended goroutine holds nothing and has no delay running.               *)
LEMMA EndsLocally ==
  ASSUME LeaseInv, TypeOK', NEW m \in Monitor, End({m}),
         UNCHANGED <<now, rowVars, phase, sweeping, outcomes, late>>,
         pc[m] # "idle"
  PROVE  LeaseInv'
<1>1. /\ pc'[m] = "gone" /\ since'[m] = 0 /\ issued'[m] = 0
      /\ lastRenewed'[m] = 0 /\ renewal'[m] = "none"
  BY DEF End, LeaseInv, TypeOK
<1>2. ~Holds(m)'
  BY <1>1 DEF Holds
<1>3. \A n \in Monitor : n # m => SameMonitor(n)
  BY DEF End, LeaseInv, TypeOK, SameMonitor
<1>4. DelaysKept(m)'
  <2>1. now \in Nat /\ now' = now
    BY DEF LeaseInv, TypeOK
  <2> QED
    BY <1>1, <2>1 DEF DelaysKept, Guarded
<1>7. IssuedInTime(m)' /\ Covered(m)'
  BY <1>1, <1>2 DEF IssuedInTime, Covered
<1>5. LocalStep(m)
  <2>1. pc'[m] \in {"idle", "gone"}
    BY <1>1
  <2> QED
    BY <1>2, <1>3, <2>1 DEF LocalStep
<1> QED
  BY <1>4, <1>5, <1>7, LocalStepInv

LEMMA EndingStepInv ==
  ASSUME LeaseInv, TypeOK', NEW m \in Monitor,
         NotResumed(m) \/ Abandons(m) \/ StopsSuperseded(m) \/ SetTaskStatusFails(m)
  PROVE  LeaseInv'
BY EndsLocally DEF NotResumed, Abandons, StopsSuperseded, SetTaskStatusFails, rowVars

LEMMA ClaimFailsInv ==
  ASSUME LeaseInv, TypeOK', NEW m \in Monitor, ClaimTaskFails(m)
  PROVE  LeaseInv'
<1> USE DEF ClaimTaskFails, rowVars, guardVars
<1>1. TypeOK /\ DelaysKept(m) /\ IssuedInTime(m) /\ Covered(m)
  BY DEF LeaseInv
<1>2. pc[m] = "accepted" /\ pc'[m] = "claimed" /\ Holds(m)
  BY <1>1 DEF TypeOK, Holds
<1>3. DelaysKept(m)' /\ IssuedInTime(m)' /\ Covered(m)'
  BY <1>1, <1>2 DEF DelaysKept, IssuedInTime, Covered, Guarded, Deadline, Leaving
<1>4. \A n \in Monitor : n # m => SameMonitor(n)
  BY <1>1 DEF TypeOK, SameMonitor
<1>5. LocalStep(m)
  BY <1>2, <1>4 DEF LocalStep
<1> QED
  BY <1>3, <1>5, LocalStepInv

LEMMA StartInv ==
  ASSUME LeaseInv, TypeOK', NEW m \in Monitor, newLeaseGuard(m)
  PROVE  LeaseInv'
<1>1. TypeOK /\ DelaysKept(m) /\ IssuedInTime(m) /\ Covered(m)
  BY DEF LeaseInv
<1>2. /\ pc[m] = "claimed" /\ pc'[m] = "watching" /\ Holds(m)
      /\ since'[m] = 0 /\ lastRenewed'[m] = now
      /\ issued'[m] = issued[m] /\ renewal'[m] = renewal[m]
      /\ UNCHANGED <<now, rowVars, phase, sweeping, outcomes, late>>
  BY <1>1 DEF TypeOK, Holds, newLeaseGuard
<1>3. renewal[m] = "none"
  BY <1>1, <1>2 DEF IssuedInTime, Guarded
<1>4. DelaysKept(m)' /\ IssuedInTime(m)'
  BY <1>1, <1>2, <1>3 DEF DelaysKept, IssuedInTime, Guarded, TypeOK
<1>5. Covered(m)'
  <2> SUFFICES ASSUME status[Of[m]] = "in progress", ~Leaving(m)
               PROVE  now + TTL - StartDelay - Skew <= Deadline(Of[m])
    BY <1>1, <1>2, <1>3 DEF Covered, Deadline, Leaving, rowVars
  <2>1. since[m] + TTL - Skew <= Deadline(Of[m])
    BY <1>1, <1>2 DEF Covered
  <2>2. now <= since[m] + StartDelay
    BY <1>1, <1>2 DEF DelaysKept
  <2>3. now \in Nat /\ since[m] \in Nat /\ Deadline(Of[m]) \in Int
    BY <1>1, DeadlineType, ConstantFacts DEF TypeOK
  <2> QED
    BY <2>1, <2>2, <2>3, StartMargin
<1>6. \A n \in Monitor : n # m => SameMonitor(n)
  BY <1>1 DEF TypeOK, SameMonitor, newLeaseGuard
<1>7. LocalStep(m)
  BY <1>2, <1>6 DEF LocalStep
<1> QED
  BY <1>4, <1>5, <1>7, LocalStepInv

LEMMA DecidesInv ==
  ASSUME LeaseInv, TypeOK', NEW m \in Monitor, Decides(m)
  PROVE  LeaseInv'
<1>1. TypeOK /\ DelaysKept(m) /\ IssuedInTime(m) /\ Covered(m)
  BY DEF LeaseInv
<1>2. /\ pc[m] = "watching" /\ pc'[m] = "deciding" /\ ~lost[m] /\ ~aged(m)
      /\ since'[m] = now
      /\ UNCHANGED <<now, rowVars, guardVars, phase, sweeping, outcomes, late>>
  BY <1>1 DEF TypeOK, Decides, Lost
<1>3. Holds(m) /\ Holds(m)'
  <2>1. ~(now > now + Margin)
    BY <1>1, MarginFacts DEF TypeOK
  <2> QED
    BY <1>2, <2>1 DEF Holds, Overdue
<1>4. DelaysKept(m)' /\ IssuedInTime(m)'
  <2>1. now <= now
    BY <1>1 DEF TypeOK
  <2> QED
    BY <1>1, <1>2, <2>1 DEF DelaysKept, IssuedInTime, Guarded, guardVars
<1>5. Covered(m)'
  <2> SUFFICES ASSUME status[Of[m]] = "in progress", ~Leaving(m)
               PROVE  now + Margin <= Deadline(Of[m])
    BY <1>1, <1>2, <1>3 DEF Covered, Deadline, Leaving, rowVars, guardVars
  <2>1. lastRenewed[m] + TTL - StartDelay - Skew <= Deadline(Of[m])
    BY <1>1, <1>2, <1>3 DEF Covered
  <2>2. now \in Nat /\ lastRenewed[m] \in Nat /\ Deadline(Of[m]) \in Int
    BY <1>1, DeadlineType, ConstantFacts DEF TypeOK
  <2>3. ~(now - lastRenewed[m] + Interval >= TTL)
    BY <1>2 DEF aged
  <2> QED
    BY <2>1, <2>2, <2>3, DecisionMargin
<1>6. \A n \in Monitor : n # m => SameMonitor(n)
  BY <1>1 DEF TypeOK, SameMonitor, Decides, guardVars
<1>7. LocalStep(m)
  BY <1>2, <1>3, <1>6 DEF LocalStep
<1> QED
  BY <1>4, <1>5, <1>7, LocalStepInv

LEMMA RenewIssueInv ==
  ASSUME LeaseInv, TypeOK', NEW m \in Monitor, RenewIssue(m)
  PROVE  LeaseInv'
<1>1. TypeOK /\ DelaysKept(m) /\ IssuedInTime(m) /\ Covered(m)
  BY DEF LeaseInv
<1>2. /\ Guarded(m) /\ ~lost[m] /\ ~aged(m)
      /\ renewal'[m] = "sent" /\ issued'[m] = now
      /\ UNCHANGED <<now, rowVars, pc, since, lastRenewed, lost, phase, sweeping, outcomes, late>>
  BY <1>1 DEF TypeOK, RenewIssue
<1>3. Holds(m)' => Holds(m)
  BY <1>2 DEF Holds, Guarded, Overdue
<1>4. DelaysKept(m)'
  <2>1. now \in Nat /\ now <= now + RenewTimeout
    BY <1>1, ConstantFacts DEF TypeOK
  <2> QED
    BY <1>1, <1>2, <2>1 DEF DelaysKept, Guarded
<1>5. IssuedInTime(m)'
  <2>1. now \in Nat /\ lastRenewed[m] \in Nat /\ ~(now - lastRenewed[m] + Interval >= TTL)
    BY <1>1, <1>2 DEF TypeOK, aged
  <2>2. now + Interval < lastRenewed[m] + TTL
    BY <2>1, ConstantFacts
  <2> QED
    BY <1>2, <2>2 DEF IssuedInTime, Guarded
<1>6. Covered(m)'
  BY <1>1, <1>2, <1>3 DEF Covered, Deadline, Leaving, rowVars
<1>7. \A n \in Monitor : n # m => SameMonitor(n)
  BY <1>1 DEF TypeOK, SameMonitor, RenewIssue
<1>8. LocalStep(m)
  BY <1>2, <1>3, <1>7 DEF LocalStep, Guarded
<1> QED
  BY <1>4, <1>5, <1>6, <1>8, LocalStepInv

LEMMA GiveUpInv ==
  ASSUME LeaseInv, TypeOK', NEW m \in Monitor, GiveUpAged(m)
  PROVE  LeaseInv'
<1>1. TypeOK /\ DelaysKept(m) /\ IssuedInTime(m) /\ Covered(m)
  BY DEF LeaseInv
<1>2. /\ Guarded(m) /\ lost'[m] = TRUE
      /\ UNCHANGED <<now, rowVars, pc, since, lastRenewed, renewal, issued, phase, sweeping, outcomes, late>>
  BY <1>1 DEF TypeOK, GiveUpAged
<1>3. Holds(m)' => Holds(m)
  BY <1>2 DEF Holds, Guarded, Overdue
<1>4. DelaysKept(m)' /\ IssuedInTime(m)'
  BY <1>1, <1>2 DEF DelaysKept, IssuedInTime, Guarded
<1>5. Covered(m)'
  BY <1>1, <1>2, <1>3 DEF Covered, Deadline, Leaving, rowVars
<1>6. \A n \in Monitor : n # m => SameMonitor(n)
  BY <1>1 DEF TypeOK, SameMonitor, GiveUpAged
<1>7. LocalStep(m)
  BY <1>2, <1>3, <1>6 DEF LocalStep, Guarded
<1> QED
  BY <1>4, <1>5, <1>7, LocalStepInv

LEMMA RenewEndsInv ==
  ASSUME LeaseInv, TypeOK', NEW m \in Monitor, RenewReturns(m) \/ RenewFails(m)
  PROVE  LeaseInv'
<1>1. TypeOK /\ DelaysKept(m) /\ IssuedInTime(m) /\ Covered(m)
  BY DEF LeaseInv
<1>2. /\ Guarded(m) /\ renewal[m] # "none" /\ renewal'[m] = "none" /\ issued'[m] = 0
      /\ \/ lastRenewed'[m] = lastRenewed[m]
         \/ lastRenewed'[m] = issued[m] /\ renewal[m] = "applied"
      /\ lost[m] => lost'[m]
      /\ UNCHANGED <<now, rowVars, pc, since, phase, sweeping, outcomes, late>>
  BY <1>1 DEF TypeOK, RenewReturns, RenewFails
<1>3. Holds(m)' => Holds(m)
  BY <1>2 DEF Holds, Guarded, Overdue
<1>4. DelaysKept(m)' /\ IssuedInTime(m)'
  <2>1. now \in Nat
    BY <1>1 DEF TypeOK
  <2> QED
    BY <1>1, <1>2, <2>1 DEF DelaysKept, IssuedInTime, Guarded
<1>5. Covered(m)'
  <2> SUFFICES ASSUME Holds(m)', status[Of[m]] = "in progress", ~Leaving(m), pc[m] = "watching"
               PROVE  lastRenewed'[m] + TTL - StartDelay - Skew <= Deadline(Of[m])
    BY <1>1, <1>2, <1>3 DEF Covered, Deadline, Leaving, rowVars
  <2>1. lastRenewed[m] + TTL - StartDelay - Skew <= Deadline(Of[m])
    BY <1>1, <1>3 DEF Covered
  <2>2. ASSUME lastRenewed'[m] = issued[m], renewal[m] = "applied"
        PROVE  issued[m] + TTL - StartDelay - Skew <= Deadline(Of[m])
    <3>1. issued[m] + TTL <= Deadline(Of[m])
      BY <1>1, <1>3, <2>2 DEF Covered
    <3>2. issued[m] \in Nat /\ Deadline(Of[m]) \in Int
      BY <1>1, DeadlineType, ConstantFacts DEF TypeOK
    <3> QED
      BY <3>1, <3>2, ReturnMargin
  <2> QED
    BY <1>2, <2>1, <2>2
<1>6. \A n \in Monitor : n # m => SameMonitor(n)
  BY <1>1 DEF TypeOK, SameMonitor, RenewReturns, RenewFails
<1>7. LocalStep(m)
  BY <1>2, <1>3, <1>6 DEF LocalStep, Guarded
<1> QED
  BY <1>4, <1>5, <1>7, LocalStepInv

-----------------------------------------------------------------------------
(* Steps that change a row.                                                 *)

LEMMA AddTaskInv ==
  ASSUME LeaseInv, TypeOK', NEW m \in Monitor, AddTask(m)
  PROVE  LeaseInv'
<1>1. TypeOK
  BY DEF LeaseInv
<1>2. PICK d \in (-Skew)..Skew : created' = [created EXCEPT ![Of[m]] = now + d]
  BY DEF AddTask
<1>3. /\ pc[m] = "idle" /\ pc'[m] = "accepted" /\ since'[m] = now
      /\ status[Of[m]] = "none" /\ status'[Of[m]] = "in progress"
      /\ created'[Of[m]] = now + d
      /\ phase[At[m]] # "down"
      /\ UNCHANGED <<now, owner, lease, guardVars, phase, sweeping, outcomes, late>>
  BY <1>1, <1>2, ConstantFacts DEF TypeOK, AddTask
<1>4. \A t \in Task : t # Of[m] => status'[t] = status[t] /\ created'[t] = created[t]
  BY <1>1, <1>2 DEF TypeOK, AddTask
<1>5. \A n \in Monitor : n # m => SameMonitor(n)
  BY <1>1 DEF TypeOK, AddTask, SameMonitor, guardVars
<1>6. \A n \in Monitor : Of[n] = Of[m] => pc[n] = "idle" /\ ~Holds(n)
  BY <1>3 DEF LeaseInv, NoneIsUntouched, Holds
<1>7. owner[Of[m]] = NoOwner /\ lease[Of[m]] = NoLease /\ outcomes[Of[m]] = 0 /\ late[Of[m]] = 0
  BY <1>3, ConstantFacts DEF LeaseInv, NoneIsUntouched, OutcomeMatchesStatus
<1>8. \A n \in Monitor : n # m => (Holds(n)' <=> Holds(n))
  BY <1>3, <1>5 DEF SameMonitor, Holds, aged, Overdue
<1>9. DelaysKept(m)' /\ IssuedInTime(m)'
  <2>1. DelaysKept(m) /\ IssuedInTime(m)
    BY DEF LeaseInv
  <2>2. now \in Nat /\ now <= now + StartDelay
    BY <1>1, ConstantFacts DEF TypeOK
  <2>3. renewal[m] = "none" /\ renewal'[m] = "none"
    BY <1>3, <2>1 DEF IssuedInTime, Guarded, guardVars
  <2>4. IssuedInTime(m)'
    BY <2>3 DEF IssuedInTime
  <2>5. now <= now /\ issued'[m] <= now /\ lastRenewed'[m] <= now
    <3>1. now <= now
      BY <2>2
    <3> QED
      BY <1>3, <2>1, <3>1 DEF DelaysKept, guardVars
  <2>6. DelaysKept(m)'
    BY <1>3, <2>2, <2>3, <2>5 DEF DelaysKept
  <2> QED
    BY <2>4, <2>6
<1>10. Covered(m)'
  <2>1. Deadline(Of[m])' = now + d + TTL
    BY <1>3, <1>7 DEF Deadline
  <2>2. now \in Nat
    BY <1>1 DEF TypeOK
  <2>3. now <= now + d + TTL /\ now + TTL - Skew <= now + d + TTL
    BY <2>2, SkewMargin
  <2> QED
    BY <1>3, <1>7, <2>1, <2>3 DEF Covered, Leaving
<1>11. ASSUME NEW n \in Monitor, n # m
       PROVE  DelaysKept(n)' /\ IssuedInTime(n)' /\ Covered(n)'
  <2>1. SameMonitor(n) /\ DelaysKept(n) /\ IssuedInTime(n) /\ Covered(n)
    BY <1>5, <1>11 DEF LeaseInv
  <2>2. DelaysKept(n)' /\ IssuedInTime(n)'
    BY <1>3, <2>1 DEF SameMonitor, DelaysKept, IssuedInTime, Guarded
  <2>3. CASE Of[n] = Of[m]
    BY <1>6, <1>8, <1>11, <2>2, <2>3 DEF Covered
  <2>4. CASE Of[n] # Of[m]
    <3>1. status'[Of[n]] = status[Of[n]] /\ created'[Of[n]] = created[Of[n]]
      BY <1>4, <2>4, ConstantFacts
    <3> QED
      BY <1>3, <1>8, <1>11, <2>1, <2>2, <3>1 DEF SameMonitor, Covered, Deadline, Leaving
  <2> QED
    BY <2>3, <2>4
<1>12. ExclusiveHolder' /\ HeldHasNoOutcome'
  <2>1. \A n \in Monitor : n # m /\ Holds(n)' => Holds(n) /\ Of[n] # Of[m]
    BY <1>6, <1>8
  <2>2. ExclusiveHolder'
    BY <2>1 DEF LeaseInv, ExclusiveHolder
  <2>3. HeldHasNoOutcome'
    BY <1>3, <1>4, <1>7, <2>1, ConstantFacts DEF LeaseInv, HeldHasNoOutcome
  <2> QED
    BY <2>2, <2>3
<1>13. OutcomeMatchesStatus'
  BY <1>3, <1>4, <1>7 DEF LeaseInv, OutcomeMatchesStatus
<1>14. NoneIsUntouched'
  BY <1>3, <1>4, <1>5, ConstantFacts DEF LeaseInv, NoneIsUntouched, SameMonitor
<1>15. ExitedIsGone'
  BY <1>3, <1>5 DEF LeaseInv, ExitedIsGone, SameMonitor
<1> QED
  BY <1>9, <1>10, <1>11, <1>12, <1>13, <1>14, <1>15 DEF LeaseInv

LEMMA ClaimTaskInv ==
  ASSUME LeaseInv, TypeOK', NEW m \in Monitor, ClaimTask(m)
  PROVE  LeaseInv'
<1>1. TypeOK /\ DelaysKept(m) /\ IssuedInTime(m)
  BY DEF LeaseInv
<1>2. /\ pc[m] = "accepted" /\ pc'[m] = "claimed"
      /\ owner'[Of[m]] = At[m] /\ lease'[Of[m]] = now + TTL
      /\ UNCHANGED <<now, status, created, since, guardVars, phase, sweeping, outcomes, late>>
  BY <1>1, ConstantFacts DEF TypeOK, ClaimTask
<1>3. \A t \in Task : t # Of[m] => owner'[t] = owner[t] /\ lease'[t] = lease[t]
  BY <1>1 DEF TypeOK, ClaimTask
<1>4. \A n \in Monitor : n # m => SameMonitor(n)
  BY <1>1 DEF TypeOK, ClaimTask, SameMonitor, guardVars
<1>5. Holds(m) /\ Holds(m)'
  BY <1>2 DEF Holds
<1>6. \A n \in Monitor : n # m => (Holds(n)' <=> Holds(n))
  BY <1>2, <1>4 DEF SameMonitor, Holds, aged, Overdue
<1>7. now + TTL # NoLease /\ now + TTL >= 0 /\ now \in Nat
  BY <1>1, ConstantFacts DEF TypeOK, NoLease
<1>8. DelaysKept(m)' /\ IssuedInTime(m)'
  BY <1>1, <1>2 DEF DelaysKept, IssuedInTime, Guarded, guardVars
<1>9. Covered(m)'
  <2>1. Deadline(Of[m])' = now + TTL
    BY <1>2, <1>7 DEF Deadline
  <2>2. since[m] <= now /\ since[m] \in Nat
    BY <1>1 DEF DelaysKept, TypeOK
  <2>3. now <= now + TTL /\ since[m] + TTL - Skew <= now + TTL
    BY <1>7, <2>2, FreshLease
  <2> QED
    BY <1>2, <2>1, <2>3 DEF Covered
<1>10. ASSUME NEW n \in Monitor, n # m
       PROVE  DelaysKept(n)' /\ IssuedInTime(n)' /\ Covered(n)'
  <2>1. SameMonitor(n) /\ DelaysKept(n) /\ IssuedInTime(n) /\ Covered(n)
    BY <1>4, <1>10 DEF LeaseInv
  <2>2. DelaysKept(n)' /\ IssuedInTime(n)'
    BY <1>2, <2>1 DEF SameMonitor, DelaysKept, IssuedInTime, Guarded
  <2>3. CASE Of[n] = Of[m]
    <3>1. ~Holds(n)'
      BY <1>5, <1>6, <1>10, <2>3 DEF LeaseInv, ExclusiveHolder
    <3> QED
      BY <2>2, <3>1 DEF Covered
  <2>4. CASE Of[n] # Of[m]
    <3>1. owner'[Of[n]] = owner[Of[n]] /\ lease'[Of[n]] = lease[Of[n]]
      BY <1>3, <2>4, ConstantFacts
    <3> QED
      BY <1>2, <1>6, <1>10, <2>1, <2>2, <3>1 DEF SameMonitor, Covered, Deadline, Leaving
  <2> QED
    BY <2>3, <2>4
<1>11. \A n \in Monitor : Holds(n)' => Holds(n)
  BY <1>5, <1>6
<1>12. ExclusiveHolder' /\ HeldHasNoOutcome'
  BY <1>2, <1>11 DEF LeaseInv, ExclusiveHolder, HeldHasNoOutcome
<1>13. OutcomeMatchesStatus'
  BY <1>2, <1>3, <1>7 DEF LeaseInv, OutcomeMatchesStatus
<1>14. NoneIsUntouched'
  <2>1. status[Of[m]] # "none"
    BY <1>5 DEF LeaseInv, HeldHasNoOutcome
  <2> QED
    BY <1>2, <1>3, <1>4, <2>1 DEF LeaseInv, NoneIsUntouched, SameMonitor
<1>15. ExitedIsGone'
  BY <1>2, <1>4 DEF LeaseInv, ExitedIsGone, SameMonitor
<1> QED
  BY <1>8, <1>9, <1>10, <1>12, <1>13, <1>14, <1>15 DEF LeaseInv

LEMMA RenewLeaseInv ==
  ASSUME LeaseInv, TypeOK', NEW m \in Monitor, RenewLease(m)
  PROVE  LeaseInv'
<1>1. TypeOK /\ DelaysKept(m) /\ IssuedInTime(m) /\ Covered(m)
  BY DEF LeaseInv
<1>2. /\ Guarded(m) /\ renewal[m] = "sent"
      /\ renewal'[m] \in {"applied", "refused"}
      /\ UNCHANGED <<now, status, owner, created, pc, since, lastRenewed, lost, issued, phase, sweeping, outcomes, late>>
  BY <1>1 DEF TypeOK, RenewLease
<1>3. \A n \in Monitor : n # m => SameMonitor(n)
  BY <1>1 DEF TypeOK, RenewLease, SameMonitor
<1>4. \A n \in Monitor : Holds(n)' <=> Holds(n)
  BY <1>2, <1>3 DEF SameMonitor, Holds, aged, Overdue
<1>5. DelaysKept(m)' /\ IssuedInTime(m)'
  BY <1>1, <1>2 DEF DelaysKept, IssuedInTime, Guarded
<1>6. CASE renewal'[m] = "refused"
  <2>1. UNCHANGED rowVars
    <3>1. renewal' # [renewal EXCEPT ![m] = "applied"]
      BY <1>1, <1>6 DEF TypeOK
    <3> QED
      BY <3>1 DEF RenewLease, rowVars
  <2>2. Covered(m)'
    BY <1>1, <1>2, <1>4, <1>6, <2>1 DEF Covered, Deadline, Leaving, rowVars
  <2>3. LocalStep(m)
    BY <1>2, <1>3, <1>4, <2>1 DEF LocalStep, Guarded
  <2> QED
    BY <1>5, <2>2, <2>3, LocalStepInv
<1>7. CASE renewal'[m] = "applied"
  <2>1. lease'[Of[m]] = now + TTL
    BY <1>1, <1>2, <1>7, ConstantFacts DEF TypeOK, RenewLease
  <2>2. \A t \in Task : t # Of[m] => lease'[t] = lease[t]
    BY <1>1, <1>2, <1>7 DEF TypeOK, RenewLease
  <2>3. now + TTL # NoLease /\ now + TTL >= 0 /\ now \in Nat
    BY <1>1, ConstantFacts DEF TypeOK, NoLease
  <2>4. ASSUME NEW n \in Monitor
        PROVE  DelaysKept(n)' /\ IssuedInTime(n)' /\ Covered(n)'
    <3>1. DelaysKept(n) /\ IssuedInTime(n) /\ Covered(n)
      BY DEF LeaseInv
    <3>2. DelaysKept(n)' /\ IssuedInTime(n)'
      BY <1>2, <1>3, <1>5, <3>1 DEF SameMonitor, DelaysKept, IssuedInTime, Guarded
    <3>3. CASE Of[n] = Of[m]
      <4>1. Deadline(Of[n])' = now + TTL
        BY <2>1, <2>3, <3>3 DEF Deadline
      <4>2. /\ since'[n] <= now /\ since'[n] \in Nat
            /\ issued'[n] <= now /\ issued'[n] \in Nat
            /\ lastRenewed'[n] <= now /\ lastRenewed'[n] \in Nat
        BY <1>2, <3>1, <1>1 DEF DelaysKept, TypeOK
      <4>3. /\ now <= now + TTL
            /\ since'[n] + TTL - Skew <= now + TTL
            /\ lastRenewed'[n] + TTL - StartDelay - Skew <= now + TTL
            /\ issued'[n] + TTL <= now + TTL
            /\ since'[n] + Margin <= now + TTL
        BY <2>3, <4>2, FreshLease
      <4>4. Holds(n)' /\ status'[Of[n]] = "in progress" => owner'[Of[n]] \in {At[n], NoOwner}
        BY <1>2, <1>4, <3>1 DEF Covered
      <4> QED
        BY <1>2, <3>2, <4>1, <4>3, <4>4 DEF Covered
    <3>4. CASE Of[n] # Of[m]
      <4>1. lease'[Of[n]] = lease[Of[n]] /\ n # m
        BY <2>2, <3>4, ConstantFacts
      <4> QED
        BY <1>2, <1>3, <1>4, <3>1, <3>2, <4>1 DEF SameMonitor, Covered, Deadline, Leaving
    <3> QED
      BY <3>3, <3>4
  <2>5. ExclusiveHolder' /\ HeldHasNoOutcome'
    BY <1>2, <1>4 DEF LeaseInv, ExclusiveHolder, HeldHasNoOutcome
  <2>6. OutcomeMatchesStatus'
    BY <1>2, <2>1, <2>2, <2>3 DEF LeaseInv, OutcomeMatchesStatus
  <2>7. NoneIsUntouched'
    <3>1. status[Of[m]] # "none"
      BY <1>2 DEF LeaseInv, NoneIsUntouched, Guarded
    <3> QED
      BY <1>2, <2>2, <3>1 DEF LeaseInv, NoneIsUntouched
  <2>8. ExitedIsGone'
    BY <1>2 DEF LeaseInv, ExitedIsGone
  <2> QED
    BY <2>4, <2>5, <2>6, <2>7, <2>8 DEF LeaseInv
<1> QED
  BY <1>2, <1>6, <1>7

LEMMA RecordOutcomeInv ==
  ASSUME LeaseInv, TypeOK', NEW m \in Monitor, RecordOutcome(m), Holds(m) \/ Overdue(m)
  PROVE  LeaseInv'
<1>1. TypeOK
  BY DEF LeaseInv
<1>2. /\ status'[Of[m]] = "final" /\ outcomes'[Of[m]] = outcomes[Of[m]] + 1
      /\ late'[Of[m]] = IF Overdue(m) THEN late[Of[m]] + 1 ELSE late[Of[m]]
      /\ UNCHANGED <<now, owner, lease, created, phase, sweeping>>
  BY <1>1, ConstantFacts DEF TypeOK, RecordOutcome
<1>3. \A t \in Task : t # Of[m] =>
        status'[t] = status[t] /\ outcomes'[t] = outcomes[t] /\ late'[t] = late[t]
  BY <1>1 DEF TypeOK, RecordOutcome
<1>4. /\ pc'[m] = "gone" /\ since'[m] = 0 /\ issued'[m] = 0
      /\ lastRenewed'[m] = 0 /\ renewal'[m] = "none"
  BY <1>1 DEF TypeOK, RecordOutcome, End
<1>5. \A n \in Monitor : n # m => SameMonitor(n)
  BY <1>1 DEF TypeOK, RecordOutcome, End, SameMonitor
<1>6. ~Holds(m)'
  BY <1>4 DEF Holds
<1>7. \A n \in Monitor : n # m => (Holds(n)' <=> Holds(n))
  BY <1>2, <1>5 DEF SameMonitor, Holds, aged, Overdue
<1>8. outcomes[Of[m]] \in Nat /\ late[Of[m]] \in Nat
  BY <1>1, ConstantFacts DEF TypeOK
<1>9. DelaysKept(m)' /\ IssuedInTime(m)' /\ Covered(m)'
  <2>1. now \in Nat /\ now' = now
    BY <1>1, <1>2 DEF TypeOK
  <2>2. DelaysKept(m)'
    BY <1>4, <2>1 DEF DelaysKept, Guarded
  <2> QED
    BY <1>4, <1>6, <2>2 DEF IssuedInTime, Covered
<1>10. ASSUME NEW n \in Monitor, n # m
       PROVE  DelaysKept(n)' /\ IssuedInTime(n)' /\ Covered(n)'
  <2>1. SameMonitor(n) /\ DelaysKept(n) /\ IssuedInTime(n) /\ Covered(n)
    BY <1>5, <1>10 DEF LeaseInv
  <2>2. DelaysKept(n)' /\ IssuedInTime(n)'
    BY <1>2, <2>1 DEF SameMonitor, DelaysKept, IssuedInTime, Guarded
  <2>3. CASE Of[n] = Of[m]
    BY <1>2, <2>2, <2>3 DEF Covered
  <2>4. CASE Of[n] # Of[m]
    <3>1. status'[Of[n]] = status[Of[n]]
      BY <1>3, <2>4, ConstantFacts
    <3> QED
      BY <1>2, <1>7, <1>10, <2>1, <2>2, <3>1 DEF SameMonitor, Covered, Deadline, Leaving
  <2> QED
    BY <2>3, <2>4
<1>11. ExclusiveHolder'
  BY <1>6, <1>7 DEF LeaseInv, ExclusiveHolder
<1>12. HeldHasNoOutcome'
  <2> SUFFICES ASSUME NEW n \in Monitor, Holds(n)'
               PROVE  /\ status'[Of[n]] \in {"in progress", "cancelled"} \/ late'[Of[n]] > 0
                      /\ status'[Of[n]] # "none"
                      /\ outcomes'[Of[n]] = late'[Of[n]]
    BY DEF HeldHasNoOutcome
  <2>1. n # m /\ Holds(n) /\ Of[n] \in Task
    BY <1>6, <1>7, ConstantFacts
  <2>2. CASE Of[n] = Of[m]
    <3>1. Overdue(m)
      BY <2>1, <2>2 DEF LeaseInv, ExclusiveHolder
    <3>2. outcomes[Of[m]] = late[Of[m]]
      BY <2>1, <2>2 DEF LeaseInv, HeldHasNoOutcome
    <3>3. late'[Of[m]] = late[Of[m]] + 1
      BY <1>2, <3>1
    <3>4. late'[Of[m]] > 0 /\ outcomes'[Of[m]] = late'[Of[m]]
      BY <1>2, <1>8, <3>2, <3>3
    <3> QED
      BY <1>2, <2>2, <3>4
  <2>3. CASE Of[n] # Of[m]
    BY <1>3, <2>1, <2>3 DEF LeaseInv, HeldHasNoOutcome
  <2> QED
    BY <2>2, <2>3
<1>13. OutcomeMatchesStatus'
  <2>1. outcomes'[Of[m]] - late'[Of[m]] \in {0, 1}
    <3>1. CASE Overdue(m)
      <4>1. outcomes[Of[m]] - late[Of[m]] \in {0, 1}
        BY ConstantFacts DEF LeaseInv, OutcomeMatchesStatus
      <4>2. late'[Of[m]] = late[Of[m]] + 1
        BY <1>2, <3>1
      <4> QED
        BY <1>2, <1>8, <4>1, <4>2
    <3>2. CASE ~Overdue(m)
      <4>1. outcomes[Of[m]] = late[Of[m]]
        BY <3>2 DEF LeaseInv, HeldHasNoOutcome
      <4>2. late'[Of[m]] = late[Of[m]]
        BY <1>2, <3>2
      <4> QED
        BY <1>2, <1>8, <4>1, <4>2
    <3> QED
      BY <3>1, <3>2
  <2> QED
    BY <1>2, <1>3, <2>1 DEF LeaseInv, OutcomeMatchesStatus
<1>14. NoneIsUntouched'
  BY <1>2, <1>3, <1>5, ConstantFacts DEF LeaseInv, NoneIsUntouched, SameMonitor
<1>15. ExitedIsGone'
  BY <1>2, <1>4, <1>5 DEF LeaseInv, ExitedIsGone, SameMonitor
<1> QED
  BY <1>9, <1>10, <1>11, <1>12, <1>13, <1>14, <1>15 DEF LeaseInv

LEMMA CancelInv ==
  ASSUME LeaseInv, TypeOK', NEW t \in Task, Cancel(t)
  PROVE  LeaseInv'
<1>1. TypeOK
  BY DEF LeaseInv
<1>2. /\ status[t] = "in progress" /\ status'[t] = "cancelled"
      /\ UNCHANGED <<now, owner, lease, created, pc, since, lastRenewed, lost, renewal, issued,
                     phase, sweeping, outcomes, late>>
  BY <1>1 DEF TypeOK, Cancel, monVars, guardVars
<1>3. \A u \in Task : u # t => status'[u] = status[u]
  BY <1>1 DEF TypeOK, Cancel
<1>4. \A n \in Monitor : Holds(n)' <=> Holds(n)
  BY <1>2 DEF Holds, aged, Overdue
<1>5. ASSUME NEW n \in Monitor
      PROVE  DelaysKept(n)' /\ IssuedInTime(n)' /\ Covered(n)'
  <2>1. DelaysKept(n) /\ IssuedInTime(n) /\ Covered(n)
    BY DEF LeaseInv
  <2>2. DelaysKept(n)' /\ IssuedInTime(n)'
    BY <1>2, <2>1 DEF DelaysKept, IssuedInTime, Guarded
  <2>3. Covered(n)'
    BY <1>2, <1>3, <1>4, <2>1, ConstantFacts DEF Covered, Deadline, Leaving
  <2> QED
    BY <2>2, <2>3
<1>6. ExclusiveHolder' /\ HeldHasNoOutcome'
  BY <1>2, <1>3, <1>4, ConstantFacts DEF LeaseInv, ExclusiveHolder, HeldHasNoOutcome
<1>7. OutcomeMatchesStatus' /\ NoneIsUntouched' /\ ExitedIsGone'
  BY <1>2, <1>3, ConstantFacts DEF LeaseInv, OutcomeMatchesStatus, NoneIsUntouched, ExitedIsGone
<1> QED
  BY <1>5, <1>6, <1>7 DEF LeaseInv

LEMMA MonitorStepInv ==
  ASSUME LeaseInv, NEW m \in Monitor, MonitorStep(m)
  PROVE  LeaseInv'
<1>1. TypeOK'
  BY MonitorTypes DEF LeaseInv
<1>2. ASSUME SetTaskStatus(m) \/ abortStaleTask(m)
      PROVE  LeaseInv'
  BY <1>1, <1>2, RecordOutcomeInv DEF SetTaskStatus, abortStaleTask, Holds
<1> QED
  BY <1>1, <1>2, AddTaskInv, ClaimTaskInv, ClaimFailsInv, StartInv, EndingStepInv, RenewIssueInv,
     GiveUpInv, RenewLeaseInv, RenewEndsInv, DecidesInv DEF MonitorStep

-----------------------------------------------------------------------------
(* The steps of a replica, and the clock.                                   *)

LEMMA SweepInv ==
  ASSUME LeaseInv, TypeOK', NEW r \in Replica, ClaimExpiredTasks(r)
  PROVE  LeaseInv'
<1>1. TypeOK
  BY DEF LeaseInv
<1>2. PICK M \in SUBSET {m \in Monitor \ Acceptor :
                           At[m] = r /\ pc[m] = "idle" /\ Lapsed(Of[m])} :
       /\ \A m, n \in M : m # n => Of[m] # Of[n]
       /\ owner' = [t \in Task |-> IF \E m \in M : Of[m] = t THEN r ELSE owner[t]]
       /\ lease' = [t \in Task |-> IF \E m \in M : Of[m] = t THEN now + TTL ELSE lease[t]]
       /\ pc' = [m \in Monitor |-> IF m \in M THEN "claimed" ELSE pc[m]]
       /\ since' = [m \in Monitor |-> IF m \in M THEN now ELSE since[m]]
  BY DEF ClaimExpiredTasks
<1>3. UNCHANGED <<now, status, created, lastRenewed, lost, renewal, issued, phase, outcomes, late>>
      /\ r \in sweeping /\ sweeping' = sweeping \ {r}
  BY DEF ClaimExpiredTasks, guardVars
<1>4. now + TTL # NoLease /\ now + TTL >= 0 /\ now \in Nat /\ now <= now + TTL
  BY <1>1, ConstantFacts DEF TypeOK, NoLease
<1>5. ASSUME NEW m \in M
      PROVE  /\ m \in Monitor /\ At[m] = r /\ pc[m] = "idle" /\ pc'[m] = "claimed"
             /\ since'[m] = now /\ owner'[Of[m]] = r /\ lease'[Of[m]] = now + TTL
             /\ status[Of[m]] = "in progress"
             /\ \A n \in Monitor : Of[n] = Of[m] => ~Holds(n)
  <2>1. m \in Monitor /\ At[m] = r /\ pc[m] = "idle" /\ Lapsed(Of[m]) /\ Of[m] \in Task
    BY <1>2, ConstantFacts
  <2>2. pc'[m] = "claimed" /\ since'[m] = now /\ owner'[Of[m]] = r /\ lease'[Of[m]] = now + TTL
    BY <1>2, <2>1
  <2>3. ASSUME NEW n \in Monitor, Of[n] = Of[m], Holds(n) PROVE FALSE
    <3>1. now <= Deadline(Of[m]) /\ status[Of[m]] = "in progress"
      BY <2>1, <2>3 DEF LeaseInv, Covered, Lapsed
    <3>2. CASE lease[Of[m]] = NoLease
      <4>1. created[Of[m]] \in Int /\ created[Of[m]] < now - TTL /\ now <= created[Of[m]] + TTL
        BY <1>1, <2>1, <3>1, <3>2 DEF Lapsed, Deadline, TypeOK
      <4> QED
        BY <1>4, <4>1, ConstantFacts
    <3>3. CASE lease[Of[m]] # NoLease
      <4>1. lease[Of[m]] \in Int /\ lease[Of[m]] < now /\ now <= lease[Of[m]]
        BY <1>1, <2>1, <3>1, <3>3 DEF Lapsed, Deadline, TypeOK
      <4> QED
        BY <1>4, <4>1
    <3> QED
      BY <3>2, <3>3
  <2> QED
    BY <2>1, <2>2, <2>3 DEF Lapsed
<1>6. ASSUME NEW n \in Monitor, n \notin M PROVE SameMonitor(n) /\ (Holds(n)' <=> Holds(n))
  <2>1. SameMonitor(n)
    BY <1>2, <1>3, <1>6 DEF SameMonitor
  <2> QED
    BY <1>3, <2>1 DEF SameMonitor, Holds, aged, Overdue
<1>7. ASSUME NEW m \in M
      PROVE  DelaysKept(m)' /\ IssuedInTime(m)' /\ Covered(m)'
  <2>1. m \in Monitor /\ DelaysKept(m) /\ IssuedInTime(m)
    BY <1>5 DEF LeaseInv
  <2>2. renewal[m] = "none"
    BY <1>5, <2>1 DEF IssuedInTime, Guarded
  <2>3. now <= now + StartDelay /\ now <= now /\ now + TTL - Skew <= now + TTL
    BY <1>4, ConstantFacts, FreshLease
  <2>4. Deadline(Of[m])' = now + TTL
    BY <1>4, <1>5 DEF Deadline
  <2>5. DelaysKept(m)'
    BY <1>3, <1>5, <2>1, <2>2, <2>3 DEF DelaysKept
  <2> QED
    BY <1>3, <1>4, <1>5, <2>2, <2>3, <2>4, <2>5 DEF IssuedInTime, Covered
<1>8. ASSUME NEW n \in Monitor, n \notin M
      PROVE  DelaysKept(n)' /\ IssuedInTime(n)' /\ Covered(n)'
  <2>1. SameMonitor(n) /\ DelaysKept(n) /\ IssuedInTime(n) /\ Covered(n)
    BY <1>6, <1>8 DEF LeaseInv
  <2>2. DelaysKept(n)' /\ IssuedInTime(n)'
    BY <1>3, <2>1 DEF SameMonitor, DelaysKept, IssuedInTime, Guarded
  <2>3. Covered(n)'
    <3>1. CASE \E m \in M : Of[m] = Of[n]
      BY <1>5, <1>6, <1>8, <3>1 DEF Covered
    <3>2. CASE ~\E m \in M : Of[m] = Of[n]
      <4>1. owner'[Of[n]] = owner[Of[n]] /\ lease'[Of[n]] = lease[Of[n]]
        BY <1>2, <3>2, ConstantFacts
      <4> QED
        BY <1>3, <1>6, <1>8, <2>1, <4>1 DEF SameMonitor, Covered, Deadline, Leaving
    <3> QED
      BY <3>1, <3>2
  <2> QED
    BY <2>2, <2>3
<1>9. ExclusiveHolder'
  <2> SUFFICES ASSUME NEW m \in Monitor, NEW n \in Monitor, Of[m] = Of[n], Holds(m)', Holds(n)'
               PROVE  m = n
    BY DEF ExclusiveHolder
  <2>1. CASE m \in M /\ n \in M
    BY <1>2, <2>1
  <2>2. CASE m \in M /\ n \notin M
    BY <1>5, <1>6, <2>2
  <2>3. CASE m \notin M /\ n \in M
    BY <1>5, <1>6, <2>3
  <2>4. CASE m \notin M /\ n \notin M
    BY <1>6, <2>4 DEF LeaseInv, ExclusiveHolder
  <2> QED
    BY <2>1, <2>2, <2>3, <2>4
<1>10. HeldHasNoOutcome'
  <2> SUFFICES ASSUME NEW m \in Monitor, Holds(m)'
               PROVE  /\ status'[Of[m]] \in {"in progress", "cancelled"} \/ late'[Of[m]] > 0
                      /\ status'[Of[m]] # "none"
                      /\ outcomes'[Of[m]] = late'[Of[m]]
    BY DEF HeldHasNoOutcome
  <2>1. CASE m \in M
    <3>1. status[Of[m]] = "in progress" /\ Of[m] \in Task
      BY <1>5, <2>1, ConstantFacts
    <3>2. outcomes[Of[m]] = 0 /\ late[Of[m]] = 0
      BY <3>1 DEF LeaseInv, OutcomeMatchesStatus
    <3> QED
      BY <1>3, <3>1, <3>2
  <2>2. CASE m \notin M
    BY <1>3, <1>6, <2>2 DEF LeaseInv, HeldHasNoOutcome
  <2> QED
    BY <2>1, <2>2
<1>11. OutcomeMatchesStatus'
  <2>1. \A t \in Task : lease'[t] = lease[t] \/ lease'[t] = now + TTL
    BY <1>2
  <2> QED
    BY <1>3, <1>4, <2>1 DEF LeaseInv, OutcomeMatchesStatus
<1>12. NoneIsUntouched'
  <2>1. \A m \in Monitor : status'[Of[m]] = "none" => pc'[m] = "idle"
    <3> SUFFICES ASSUME NEW m \in Monitor, status[Of[m]] = "none" PROVE pc'[m] = "idle"
      BY <1>3
    <3>1. m \notin M
      BY <1>5
    <3> QED
      BY <1>6, <3>1 DEF LeaseInv, NoneIsUntouched, SameMonitor
  <2>2. \A t \in Task : status'[t] = "none" => owner'[t] = NoOwner /\ lease'[t] = NoLease
    <3> SUFFICES ASSUME NEW t \in Task, status[t] = "none"
                 PROVE  owner'[t] = NoOwner /\ lease'[t] = NoLease
      BY <1>3
    <3>1. ~\E m \in M : Of[m] = t
      BY <1>5
    <3> QED
      BY <1>2, <3>1 DEF LeaseInv, NoneIsUntouched
  <2> QED
    BY <2>1, <2>2 DEF NoneIsUntouched
<1>13. ExitedIsGone'
  <2>1. phase[r] # "down"
    BY <1>3 DEF LeaseInv, ExitedIsGone
  <2>2. \A m \in Monitor : phase'[At[m]] = "down" => pc'[m] \in {"idle", "gone"}
    <3> SUFFICES ASSUME NEW m \in Monitor, phase[At[m]] = "down" PROVE pc'[m] \in {"idle", "gone"}
      BY <1>3
    <3>1. m \notin M
      BY <1>5, <2>1
    <3> QED
      BY <1>6, <3>1 DEF LeaseInv, ExitedIsGone, SameMonitor
  <2>3. \A s \in sweeping' : phase'[s] # "down"
    BY <1>3 DEF LeaseInv, ExitedIsGone
  <2> QED
    BY <2>2, <2>3 DEF ExitedIsGone
<1> QED
  BY <1>7, <1>8, <1>9, <1>10, <1>11, <1>12, <1>13 DEF LeaseInv

LEMMA ReleaseInv ==
  ASSUME LeaseInv, TypeOK', NEW r \in Replica, ReleaseOwnedLeases(r)
  PROVE  LeaseInv'
<1> DEFINE R == {t \in Task : owner[t] = r /\ status[t] = "in progress"}
<1>1. TypeOK
  BY DEF LeaseInv
<1>2. /\ phase' = [phase EXCEPT ![r] = "exiting"]
      /\ owner' = [t \in Task |-> IF t \in R THEN NoOwner ELSE owner[t]]
      /\ lease' = [t \in Task |-> IF t \in R THEN now ELSE lease[t]]
      /\ UNCHANGED <<now, status, created, pc, since, lastRenewed, lost, renewal, issued, sweeping, outcomes, late>>
  BY DEF ReleaseOwnedLeases, monVars, guardVars
<1>3. \A n \in Monitor : Holds(n)' <=> Holds(n)
  BY <1>2 DEF Holds, aged, Overdue
<1>4. now \in Nat /\ now # NoLease /\ now <= now /\ now >= 0
  BY <1>1 DEF TypeOK, NoLease
<1>5. phase'[r] = "exiting" /\ \A s \in Replica : s # r => phase'[s] = phase[s]
  BY <1>1, <1>2 DEF TypeOK
<1>6. ASSUME NEW n \in Monitor
      PROVE  DelaysKept(n)' /\ IssuedInTime(n)' /\ Covered(n)'
  <2>1. DelaysKept(n) /\ IssuedInTime(n) /\ Covered(n)
    BY DEF LeaseInv
  <2>2. DelaysKept(n)' /\ IssuedInTime(n)'
    BY <1>2, <2>1 DEF DelaysKept, IssuedInTime, Guarded
  <2>3. Covered(n)'
    <3> SUFFICES ASSUME Holds(n), status[Of[n]] = "in progress" PROVE Covered(n)'
      BY <1>2, <1>3 DEF Covered
    <3>1. CASE Of[n] \in R
      <4>1. At[n] = r
        BY <2>1, <3>1, ConstantFacts DEF Covered
      <4>2. Leaving(n)'
        BY <1>5, <4>1 DEF Leaving
      <4>3. owner'[Of[n]] = NoOwner /\ lease'[Of[n]] = now
        BY <1>2, <3>1
      <4>4. Deadline(Of[n])' = now
        BY <1>4, <4>3 DEF Deadline
      <4> QED
        BY <1>2, <1>4, <4>2, <4>3, <4>4 DEF Covered
    <3>2. CASE Of[n] \notin R
      <4>1. owner'[Of[n]] = owner[Of[n]] /\ lease'[Of[n]] = lease[Of[n]]
        BY <1>2, <3>2, ConstantFacts
      <4>2. Leaving(n) => Leaving(n)'
        BY <1>5, ConstantFacts DEF Leaving
      <4> QED
        BY <1>2, <2>1, <4>1, <4>2 DEF Covered, Deadline
    <3> QED
      BY <3>1, <3>2
  <2> QED
    BY <2>2, <2>3
<1>7. ExclusiveHolder' /\ HeldHasNoOutcome'
  BY <1>2, <1>3 DEF LeaseInv, ExclusiveHolder, HeldHasNoOutcome
<1>8. OutcomeMatchesStatus'
  <2>1. \A t \in Task : lease'[t] = lease[t] \/ lease'[t] = now
    BY <1>2
  <2> QED
    BY <1>2, <1>4, <2>1 DEF LeaseInv, OutcomeMatchesStatus
<1>9. NoneIsUntouched'
  <2>1. \A t \in Task : status[t] = "none" => owner'[t] = owner[t] /\ lease'[t] = lease[t]
    BY <1>2
  <2> QED
    BY <1>2, <2>1 DEF LeaseInv, NoneIsUntouched
<1>10. ExitedIsGone'
  BY <1>2, <1>5, ConstantFacts DEF LeaseInv, ExitedIsGone, TypeOK
<1> QED
  BY <1>6, <1>7, <1>8, <1>9, <1>10 DEF LeaseInv

LEMMA ExitInv ==
  ASSUME LeaseInv, TypeOK', NEW r \in Replica, Exit(r)
  PROVE  LeaseInv'
<1> DEFINE M == {m \in Monitor : At[m] = r /\ pc[m] # "idle"}
<1>1. TypeOK
  BY DEF LeaseInv
<1>2. /\ sweeping' = sweeping \ {r}
      /\ UNCHANGED <<now, status, owner, lease, created, outcomes, late>>
  BY DEF Exit, rowVars
<1>3. phase'[r] = "down" /\ \A s \in Replica : s # r => phase'[s] = phase[s]
  BY <1>1 DEF TypeOK, Exit
<1>4. ASSUME NEW m \in M
      PROVE  /\ pc'[m] = "gone" /\ since'[m] = 0 /\ issued'[m] = 0
             /\ lastRenewed'[m] = 0 /\ renewal'[m] = "none" /\ ~Holds(m)'
  <2>1. /\ pc'[m] = "gone" /\ since'[m] = 0 /\ issued'[m] = 0
        /\ lastRenewed'[m] = 0 /\ renewal'[m] = "none"
    BY DEF Exit, End
  <2> QED
    BY <2>1 DEF Holds
<1>5. ASSUME NEW n \in Monitor, n \notin M
      PROVE  SameMonitor(n) /\ (Holds(n)' <=> Holds(n))
  <2>1. SameMonitor(n)
    BY <1>5 DEF Exit, End, SameMonitor
  <2> QED
    BY <1>2, <2>1 DEF SameMonitor, Holds, aged, Overdue
<1>6. ASSUME NEW n \in Monitor
      PROVE  DelaysKept(n)' /\ IssuedInTime(n)' /\ Covered(n)'
  <2>1. CASE n \in M
    <3>1. now \in Nat
      BY <1>1 DEF TypeOK
    <3>2. DelaysKept(n)'
      BY <1>2, <1>4, <2>1, <3>1 DEF DelaysKept, Guarded
    <3> QED
      BY <1>4, <2>1, <3>2 DEF IssuedInTime, Covered
  <2>2. CASE n \notin M
    <3>1. SameMonitor(n) /\ DelaysKept(n) /\ IssuedInTime(n) /\ Covered(n) /\ (Holds(n)' <=> Holds(n))
      BY <1>5, <2>2 DEF LeaseInv
    <3>2. DelaysKept(n)' /\ IssuedInTime(n)'
      BY <1>2, <3>1 DEF SameMonitor, DelaysKept, IssuedInTime, Guarded
    <3>3. Covered(n)'
      <4>1. CASE At[n] = r
        <5>1. ~Holds(n)'
          BY <2>2, <3>1, <4>1 DEF Holds
        <5> QED
          BY <5>1 DEF Covered
      <4>2. CASE At[n] # r
        <5>1. phase'[At[n]] = phase[At[n]]
          BY <1>3, <4>2, ConstantFacts
        <5> QED
          BY <1>2, <3>1, <5>1 DEF SameMonitor, Covered, Deadline, Leaving
      <4> QED
        BY <4>1, <4>2
    <3> QED
      BY <3>2, <3>3
  <2> QED
    BY <2>1, <2>2
<1>7. \A n \in Monitor : Holds(n)' => Holds(n)
  BY <1>4, <1>5
<1>8. ExclusiveHolder' /\ HeldHasNoOutcome'
  BY <1>2, <1>7 DEF LeaseInv, ExclusiveHolder, HeldHasNoOutcome
<1>9. OutcomeMatchesStatus'
  BY <1>2 DEF LeaseInv, OutcomeMatchesStatus
<1>10. NoneIsUntouched'
  <2>1. \A m \in Monitor : pc[m] = "idle" => pc'[m] = "idle"
    BY <1>5 DEF SameMonitor
  <2> QED
    BY <1>2, <2>1 DEF LeaseInv, NoneIsUntouched
<1>11. ExitedIsGone'
  <2>1. \A m \in Monitor : phase'[At[m]] = "down" => pc'[m] \in {"idle", "gone"}
    <3> SUFFICES ASSUME NEW m \in Monitor, phase'[At[m]] = "down" PROVE pc'[m] \in {"idle", "gone"}
      OBVIOUS
    <3>1. CASE m \in M
      BY <1>4, <3>1
    <3>2. CASE m \notin M
      BY <1>3, <1>5, <3>2, ConstantFacts DEF LeaseInv, ExitedIsGone, SameMonitor
    <3> QED
      BY <3>1, <3>2
  <2>2. \A s \in sweeping' : phase'[s] # "down"
    BY <1>1, <1>2, <1>3 DEF LeaseInv, ExitedIsGone, TypeOK
  <2> QED
    BY <2>1, <2>2 DEF ExitedIsGone
<1> QED
  BY <1>6, <1>8, <1>9, <1>10, <1>11 DEF LeaseInv

LEMMA PhaseInv ==
  ASSUME LeaseInv, TypeOK', NEW r \in Replica, ReapTick(r) \/ beginDraining(r)
  PROVE  LeaseInv'
<1>1. TypeOK
  BY DEF LeaseInv
<1>2. /\ UNCHANGED <<now, status, owner, lease, created, pc, since, lastRenewed, lost, renewal, issued, outcomes, late>>
      /\ sweeping' \subseteq sweeping \cup {r}
      /\ phase[r] = "up" /\ phase'[r] \in {"up", "draining"}
      /\ \A s \in Replica : s # r => phase'[s] = phase[s]
  BY <1>1 DEF TypeOK, ReapTick, beginDraining, rowVars, monVars, guardVars
<1>3. \A s \in Replica : (phase'[s] = "down" <=> phase[s] = "down") /\ (phase'[s] = "exiting" <=> phase[s] = "exiting")
  BY <1>2
<1>4. \A n \in Monitor : Holds(n)' <=> Holds(n)
  BY <1>2 DEF Holds, aged, Overdue
<1>5. ASSUME NEW n \in Monitor
      PROVE  DelaysKept(n)' /\ IssuedInTime(n)' /\ Covered(n)'
  <2>1. DelaysKept(n) /\ IssuedInTime(n) /\ Covered(n)
    BY DEF LeaseInv
  <2>2. DelaysKept(n)' /\ IssuedInTime(n)'
    BY <1>2, <2>1 DEF DelaysKept, IssuedInTime, Guarded
  <2>3. Leaving(n)' <=> Leaving(n)
    BY <1>3, ConstantFacts DEF Leaving
  <2>4. Covered(n)'
    BY <1>2, <1>4, <2>1, <2>3 DEF Covered, Deadline
  <2> QED
    BY <2>2, <2>4
<1>6. ExclusiveHolder' /\ HeldHasNoOutcome'
  BY <1>2, <1>4 DEF LeaseInv, ExclusiveHolder, HeldHasNoOutcome
<1>7. OutcomeMatchesStatus' /\ NoneIsUntouched'
  BY <1>2 DEF LeaseInv, OutcomeMatchesStatus, NoneIsUntouched
<1>8. ExitedIsGone'
  BY <1>1, <1>2, <1>3, ConstantFacts DEF LeaseInv, ExitedIsGone, TypeOK
<1> QED
  BY <1>5, <1>6, <1>7, <1>8 DEF LeaseInv

(* One more tick before a bounded delay runs out.                           *)
LEMMA TickDecision ==
  ASSUME NEW n \in Nat, NEW s \in Nat, NEW d \in Int,
         ~(n + 1 > s + Margin), s + Margin <= d
  PROVE  n + 1 <= d
  BY MarginFacts

LEMMA TickInv ==
  ASSUME LeaseInv, TypeOK', Tick
  PROVE  LeaseInv'
<1>1. TypeOK
  BY DEF LeaseInv
<1>2. /\ now' = now + 1
      /\ \A r \in Replica : phase[r] # "exiting"
      /\ UNCHANGED <<status, owner, lease, created, pc, since, lastRenewed, lost, renewal, issued,
                     phase, sweeping, outcomes, late>>
  BY DEF Tick, rowVars, monVars, guardVars
<1>3. now \in Nat
  BY <1>1 DEF TypeOK
<1>4. ASSUME NEW n \in Monitor
      PROVE  /\ since[n] \in Nat /\ issued[n] \in Nat /\ lastRenewed[n] \in Nat
             /\ Of[n] \in Task /\ Deadline(Of[n]) \in Int
             /\ DelaysKept(n) /\ IssuedInTime(n) /\ Covered(n)
  BY <1>1, ConstantFacts, DeadlineType DEF LeaseInv, TypeOK
<1>5. ASSUME NEW n \in Monitor
      PROVE  DelaysKept(n)' /\ IssuedInTime(n)'
  <2>1. \A x \in Nat : x <= now => x <= now + 1
    BY <1>3
  <2>2. since[n] <= now + 1 /\ issued[n] <= now + 1 /\ lastRenewed[n] <= now + 1
    BY <1>4, <2>1 DEF DelaysKept
  <2>3. pc[n] \in {"accepted", "claimed"} => now + 1 <= since[n] + StartDelay
    BY <1>3, <1>4, ConstantFacts DEF Tick
  <2>5. Guarded(n) /\ renewal[n] # "none" => now + 1 <= issued[n] + RenewTimeout
    BY <1>3, <1>4, ConstantFacts DEF Tick
  <2> QED
    BY <1>2, <1>4, <2>2, <2>3, <2>5 DEF DelaysKept, IssuedInTime, Guarded
<1>a. ASSUME NEW n \in Monitor
      PROVE  aged(n)' <=> now + 1 - lastRenewed[n] + Interval >= TTL
  <2>1. now' - lastRenewed'[n] + Interval = now + 1 - lastRenewed[n] + Interval
    BY <1>2, <1>3, <1>4, ConstantFacts
  <2>2. aged(n)' <=> now' - lastRenewed'[n] + Interval >= TTL
    BY DEF aged
  <2> QED
    BY <2>1, <2>2
<1>b. ASSUME NEW n \in Monitor
      PROVE  /\ Overdue(n)' <=> pc[n] = "deciding" /\ now + 1 > since[n] + Margin
             /\ now > since[n] + Margin => now + 1 > since[n] + Margin
  <2>1. now > since[n] + Margin => now + 1 > since[n] + Margin
    BY <1>3, <1>4, MarginFacts
  <2> QED
    BY <1>2, <2>1 DEF Overdue
<1>6. ASSUME NEW n \in Monitor
      PROVE  Holds(n)' => Holds(n)
  <2>1. aged(n) => aged(n)'
    <3>1. now - lastRenewed[n] + Interval >= TTL => now + 1 - lastRenewed[n] + Interval >= TTL
      BY <1>3, <1>4, ConstantFacts
    <3> QED
      BY <1>a, <3>1 DEF aged
  <2>2. Overdue(n) => Overdue(n)'
    BY <1>b DEF Overdue
  <2> QED
    BY <1>2, <2>1, <2>2 DEF Holds
<1>7. ASSUME NEW n \in Monitor
      PROVE  Covered(n)'
  <2> DEFINE d == Deadline(Of[n])
  <2> SUFFICES ASSUME Holds(n)', status[Of[n]] = "in progress" PROVE Covered(n)'
    BY <1>2 DEF Covered
  <2>1. Holds(n) /\ ~Leaving(n) /\ ~Leaving(n)'
    BY <1>2, <1>6, ConstantFacts DEF Leaving
  <2>2. Deadline(Of[n])' = d
    BY <1>2 DEF Deadline
  <2>3. /\ owner[Of[n]] \in {At[n], NoOwner}
        /\ pc[n] \in {"accepted", "claimed"} => since[n] + TTL - Skew <= d
        /\ pc[n] = "watching" => lastRenewed[n] + TTL - StartDelay - Skew <= d
        /\ pc[n] = "watching" /\ renewal[n] = "applied" => issued[n] + TTL <= d
        /\ pc[n] = "deciding" => since[n] + Margin <= d
    BY <1>4, <2>1 DEF Covered
  <2>4. d \in Int
    BY <1>4
  <2> HIDE DEF d
  <2>5. now + 1 <= d
    <3>1. CASE pc[n] \in {"accepted", "claimed"}
      <4>1. now < since[n] + StartDelay
        BY <3>1 DEF Tick
      <4> QED
        BY <1>3, <1>4, <2>3, <2>4, <3>1, <4>1, AcceptMargin
    <3>2. CASE pc[n] = "deciding"
      <4>1. ~(now + 1 > since[n] + Margin) /\ since[n] + Margin <= d
        BY <1>2, <1>b, <2>3, <3>2 DEF Holds
      <4> QED
        BY <1>3, <1>4, <2>4, <4>1, TickDecision
    <3>3. CASE pc[n] = "watching" /\ renewal[n] # "none"
      <4>1. now < issued[n] + RenewTimeout
        BY <3>3 DEF Tick, Guarded
      <4>2. issued[n] + Interval < lastRenewed[n] + TTL
        BY <1>4, <3>3 DEF IssuedInTime
      <4> QED
        BY <1>3, <1>4, <2>3, <2>4, <3>3, <4>1, <4>2, RenewalMargin
    <3>4. CASE pc[n] = "watching" /\ renewal[n] = "none"
      <4>1. ~(now + 1 - lastRenewed[n] + Interval >= TTL)
        BY <1>2, <1>a, <3>4 DEF Holds
      <4> QED
        BY <1>3, <1>4, <2>3, <2>4, <3>4, <4>1, UnagedMargin
    <3> QED
      BY <2>1, <3>1, <3>2, <3>3, <3>4 DEF Holds
  <2> QED
    BY <1>2, <2>2, <2>3, <2>5 DEF Covered
<1>8. ExclusiveHolder' /\ HeldHasNoOutcome'
  BY <1>2, <1>6 DEF LeaseInv, ExclusiveHolder, HeldHasNoOutcome
<1>9. OutcomeMatchesStatus' /\ NoneIsUntouched' /\ ExitedIsGone'
  BY <1>2 DEF LeaseInv, OutcomeMatchesStatus, NoneIsUntouched, ExitedIsGone
<1> QED
  BY <1>5, <1>7, <1>8, <1>9 DEF LeaseInv

-----------------------------------------------------------------------------
(* The invariant, and what it gives.                                        *)

LEMMA StutterInv == LeaseInv /\ UNCHANGED vars => LeaseInv'
<1> SUFFICES ASSUME LeaseInv, UNCHANGED vars PROVE LeaseInv'
  OBVIOUS
<1> USE DEF vars, rowVars, monVars, guardVars
<1>1. TypeOK'
  BY NextTypes DEF LeaseInv
<1>2. \A m \in Monitor : Holds(m)' <=> Holds(m)
  BY DEF Holds, aged, Overdue
<1>3. \A m \in Monitor : DelaysKept(m)' /\ IssuedInTime(m)'
  BY DEF LeaseInv, DelaysKept, IssuedInTime, Guarded
<1>4. \A m \in Monitor : Deadline(Of[m])' = Deadline(Of[m]) /\ Leaving(m)' = Leaving(m)
  BY DEF Deadline, Leaving
<1>5. \A m \in Monitor : Covered(m)'
  BY <1>2, <1>4 DEF LeaseInv, Covered
<1>6. ExclusiveHolder' /\ HeldHasNoOutcome'
  BY <1>2 DEF LeaseInv, ExclusiveHolder, HeldHasNoOutcome
<1>7. OutcomeMatchesStatus' /\ NoneIsUntouched' /\ ExitedIsGone'
  BY DEF LeaseInv, OutcomeMatchesStatus, NoneIsUntouched, ExitedIsGone
<1> QED
  BY <1>1, <1>3, <1>5, <1>6, <1>7 DEF LeaseInv

LEMMA LeaseNext == LeaseInv /\ [Next]_vars => LeaseInv'
<1> SUFFICES ASSUME LeaseInv, [Next]_vars PROVE LeaseInv'
  OBVIOUS
<1>1. TypeOK'
  BY NextTypes DEF LeaseInv
<1>2. CASE \E m \in Monitor : MonitorStep(m)
  BY <1>2, MonitorStepInv
<1>3. CASE \E r \in Replica : ReplicaStep(r)
  BY <1>1, <1>3, SweepInv, ReleaseInv, ExitInv, PhaseInv DEF ReplicaStep
<1>4. CASE \E t \in Task : Cancel(t)
  BY <1>1, <1>4, CancelInv
<1>5. CASE Tick
  BY <1>1, <1>5, TickInv
<1>6. CASE UNCHANGED vars
  BY <1>6, StutterInv
<1> QED
  BY <1>2, <1>3, <1>4, <1>5, <1>6 DEF Next

(* LeaseInv holds throughout, however long a status write takes: whoever    *)
(* can still record an outcome is named by the task's row, and the row      *)
(* cannot be taken over before its delays have run out (lease_guard.go      *)
(* gives the claim up one interval early).  A monitor whose write is        *)
(* overdue is no longer counted among them.                                 *)
THEOREM LeaseInvariant == Spec => []LeaseInv
  BY InitLeaseInv, LeaseNext, PTL DEF Spec

LEMMA AttendsHolds == \A m \in Monitor : Attends(m) => Holds(m)
  BY DEF Attends, Holds, Lost

(* No two goroutines, of one replica or of two, go on with one deployment:  *)
(* the claim of ClaimExpiredTasks never meets a guard whose Lost() is       *)
(* false.  A monitor whose status write is overdue may be left over.        *)
THEOREM MonitorsExclude == Spec => []ExclusiveMonitor
<1>1. LeaseInv => ExclusiveMonitor
  BY AttendsHolds DEF LeaseInv, ExclusiveHolder, ExclusiveMonitor
<1> QED
  BY <1>1, LeaseInvariant, PTL

(* Of the outcomes written within the margin of their last Lost() check a   *)
(* task gets one at most, whatever is written late besides: a monitor that  *)
(* took over records once, also over the late write of a deposed one.       *)
THEOREM OutcomeOnceInTime == Spec => []OneOutcomeInTime
<1>1. LeaseInv => OneOutcomeInTime
  <2>1. \A x \in {0, 1} : x <= 1
    OBVIOUS
  <2> QED
    BY <2>1 DEF LeaseInv, OutcomeMatchesStatus, OneOutcomeInTime
<1> QED
  BY <1>1, LeaseInvariant, PTL

-----------------------------------------------------------------------------
(* What a step may do to a claim.                                           *)

(* A row within its deadline is not lapsed: ClaimExpiredTasks' WHERE clause *)
(* and the guard agree on the instant.                                      *)
LEMMA HeldNotLapsed ==
  ASSUME LeaseInv, NEW m \in Monitor, Holds(m)
  PROVE  ~Lapsed(Of[m])
<1> DEFINE t == Of[m]
<1>1. t \in Task /\ now \in Nat /\ lease[t] \in Int /\ created[t] \in Int
  BY ConstantFacts DEF LeaseInv, TypeOK
<1>2. status[t] = "in progress" => now <= Deadline(t)
  BY DEF LeaseInv, Covered
<1>3. CASE lease[t] = NoLease
  <2>1. status[t] = "in progress" => now <= created[t] + TTL
    BY <1>2, <1>3 DEF Deadline
  <2>2. now <= created[t] + TTL => ~(created[t] < now - TTL)
    BY <1>1, ConstantFacts
  <2> QED
    BY <1>3, <2>1, <2>2 DEF Lapsed
<1>4. CASE lease[t] # NoLease
  <2>1. status[t] = "in progress" => now <= lease[t]
    BY <1>2, <1>4 DEF Deadline
  <2>2. now <= lease[t] => ~(lease[t] < now)
    BY <1>1
  <2> QED
    BY <1>4, <2>1, <2>2 DEF Lapsed
<1> QED
  BY <1>3, <1>4

LEMMA OwnerStep ==
  ASSUME LeaseInv, Next, NEW m \in Monitor,
         Attends(m), owner'[Of[m]] # owner[Of[m]]
  PROVE  owner'[Of[m]] \in {At[m], NoOwner}
<1>1. TypeOK /\ Of[m] \in Task /\ Holds(m)
  BY ConstantFacts, AttendsHolds DEF LeaseInv
<1>2. ASSUME NEW n \in Monitor, MonitorStep(n)
      PROVE  FALSE
  <2>1. ClaimTask(n)
    BY <1>2 DEF MonitorStep, AddTask, ClaimTaskFails, newLeaseGuard, NotResumed, RenewIssue,
                GiveUpAged, RenewLease, RenewReturns, RenewFails, Abandons, StopsSuperseded,
                Decides, SetTaskStatus, SetTaskStatusFails, abortStaleTask, RecordOutcome, rowVars
  <2>2. owner \in [Task -> Replica \cup {NoOwner}]
    BY <1>1 DEF TypeOK
  <2>3. Of[n] = Of[m]
    BY <1>1, <2>1, <2>2 DEF ClaimTask
  <2>4. pc[n] = "accepted"
    BY <2>1 DEF ClaimTask
  <2>5. n = m
    BY <1>1, <2>3, <2>4 DEF LeaseInv, ExclusiveHolder, Holds
  <2> QED
    BY <2>4, <2>5 DEF Attends
<1>3. ASSUME NEW r \in Replica, ReplicaStep(r)
      PROVE  owner'[Of[m]] \in {At[m], NoOwner}
  <2>1. CASE ClaimExpiredTasks(r)
    <3>1. PICK M \in SUBSET {n \in Monitor \ Acceptor :
                               At[n] = r /\ pc[n] = "idle" /\ Lapsed(Of[n])} :
            owner' = [t \in Task |-> IF \E n \in M : Of[n] = t THEN r ELSE owner[t]]
      BY <2>1 DEF ClaimExpiredTasks
    <3>2. PICK n \in M : Of[n] = Of[m]
      BY <1>1, <3>1
    <3>3. Lapsed(Of[m])
      BY <3>1, <3>2
    <3> QED
      BY <1>1, <3>3, HeldNotLapsed
  <2>2. CASE ReleaseOwnedLeases(r)
    BY <1>1, <2>2 DEF ReleaseOwnedLeases
  <2>3. CASE ReapTick(r) \/ beginDraining(r) \/ Exit(r)
    BY <2>3 DEF ReapTick, beginDraining, Exit, rowVars
  <2> QED
    BY <1>3, <2>1, <2>2, <2>3 DEF ReplicaStep
<1>4. CASE Tick \/ \E t \in Task : Cancel(t)
  BY <1>4 DEF Tick, Cancel, rowVars
<1> QED
  BY <1>2, <1>3, <1>4 DEF Next

(* Neither a sweep nor another replica's claim takes an attended task: its  *)
(* owner changes only to the attending replica or, on release, to none.  A  *)
(* task whose monitor is overdue with its status write is not attended.     *)
THEOREM AttendedIsKept == Spec => NoTakeoverOfAttended
<1> DEFINE A == \A m \in Monitor :
                  Attends(m) /\ status[Of[m]] = "in progress" /\ owner'[Of[m]] # owner[Of[m]]
                    => owner'[Of[m]] \in {At[m], NoOwner}
<1>1. LeaseInv /\ [Next]_vars => [A]_vars
  BY OwnerStep
<1> QED
  BY <1>1, LeaseInvariant, PTL DEF Spec, NoTakeoverOfAttended

-----------------------------------------------------------------------------
(* The protocol implements TaskOwnership.                                   *)

LEMMA HoldersType == holders \in [Task -> SUBSET Monitor]
  BY DEF holders

(* A step that makes nobody a holder lets go of some tasks, or none.        *)
LEMMA LetGoStep ==
  ASSUME LeaseInv, UNCHANGED <<status, outcomes, late>>,
         \A n \in Monitor : Holds(n)' => Holds(n)
  PROVE  Ownership!Next
<1> DEFINE S == {t \in Task : holders'[t] = {}}
<1>1. ASSUME NEW t \in Task, t \notin S
      PROVE  holders'[t] = holders[t]
  <2>1. PICK m \in Monitor : Of[m] = t /\ Holds(m)'
    BY <1>1 DEF holders
  <2>2. \A n \in Monitor : Of[n] = t /\ Holds(n) => n = m
    BY <2>1 DEF LeaseInv, ExclusiveHolder
  <2> QED
    BY <2>1, <2>2 DEF holders
<1>2. holders' = [t \in Task |-> IF t \in S THEN {} ELSE holders[t]]
  BY <1>1 DEF holders
<1>3. Ownership!LetGo(S)
  BY <1>2 DEF Ownership!LetGo, kept
<1>4. S \in SUBSET Task
  OBVIOUS
<1> QED
  BY <1>3, <1>4 DEF Ownership!Next

LEMMA AcceptStep ==
  ASSUME LeaseInv, NEW m \in Monitor, AddTask(m)
  PROVE  Ownership!Next
<1>1. Of[m] \in Task /\ status[Of[m]] = "none"
  BY ConstantFacts DEF AddTask
<1>2. /\ status' = [status EXCEPT ![Of[m]] = "in progress"]
      /\ pc' = [pc EXCEPT ![m] = "accepted"]
      /\ since' = [since EXCEPT ![m] = now]
      /\ UNCHANGED <<now, lastRenewed, lost, renewal, outcomes, late>>
  BY DEF AddTask, guardVars
<1>3. pc \in [Monitor -> Control] /\ since \in [Monitor -> Nat]
  BY DEF LeaseInv, TypeOK
<1>4. \A n \in Monitor : Of[n] = Of[m] => pc[n] = "idle"
  BY <1>1 DEF LeaseInv, NoneIsUntouched
<1>5. \A n \in Monitor : n # m => (Holds(n)' <=> Holds(n))
  BY <1>2, <1>3 DEF Holds, aged, Overdue
<1>6. Holds(m)' /\ \A n \in Monitor : Of[n] = Of[m] => ~Holds(n)
  BY <1>2, <1>3, <1>4 DEF Holds
<1>7. {n \in Monitor : Of[n] = Of[m] /\ Holds(n)'} = {m}
  BY <1>5, <1>6
<1>8. \A t \in Task \ {Of[m]} : holders'[t] = holders[t]
  BY <1>5 DEF holders
<1>9. holders' = [holders EXCEPT ![Of[m]] = {m}]
  BY <1>1, <1>7, <1>8 DEF holders
<1> QED
  BY <1>1, <1>2, <1>9 DEF Ownership!Next, Ownership!Accept, kept

LEMMA RecordStep ==
  ASSUME LeaseInv, NEW m \in Monitor, Holds(m), RecordOutcome(m)
  PROVE  Ownership!Next
<1> DEFINE t == Of[m]
<1>1. /\ t \in Task /\ (status[t] \in {"in progress", "cancelled"} \/ late[t] > 0)
      /\ outcomes[t] = late[t] /\ outcomes \in [Task -> Nat] /\ late \in [Task -> Nat]
  BY ConstantFacts DEF LeaseInv, HeldHasNoOutcome, TypeOK
<1>2. /\ status' = [status EXCEPT ![t] = "final"]
      /\ outcomes' = [outcomes EXCEPT ![t] = @ + 1]
      /\ End({m}) /\ now' = now
  BY DEF RecordOutcome
<1>3. \A n \in Monitor : n # m => (Holds(n)' <=> Holds(n))
  BY <1>2 DEF Holds, aged, Overdue, End
<1>4. ~Holds(m)' /\ ~Overdue(m)
  BY <1>2 DEF Holds, Overdue, End
<1>5. \A n \in Monitor : Of[n] = t => ~Holds(n)'
  BY <1>3, <1>4 DEF LeaseInv, ExclusiveHolder
<1>6. t \in Task /\ holders[t] # {}
  BY ConstantFacts DEF holders
<1>7. \A u \in Task \ {t} : holders'[u] = holders[u]
  BY <1>3 DEF holders
<1>8. holders' = [holders EXCEPT ![t] = {}]
  <2>1. holders'[t] = {}
    BY <1>5, <1>6 DEF holders
  <2> HIDE DEF t
  <2> QED
    BY <1>6, <1>7, <2>1 DEF holders
<1>9. late' = late
  <2>1. late' = [late EXCEPT ![t] = late[t]]
    BY <1>4 DEF RecordOutcome
  <2> QED
    BY <1>1, <2>1
<1>10. kept[t] = 0 /\ kept' = [kept EXCEPT ![t] = 1]
  <2>1. t \in Task /\ \A u \in Task : outcomes[u] \in Nat /\ late[u] \in Nat
    BY <1>1, <1>6
  <2> HIDE DEF t
  <2>5. \A a \in Nat : a - a = 0 /\ a + 1 - a = 1
    OBVIOUS
  <2>6. outcomes[t] = late[t] /\ late[t] \in Nat
    BY <1>1, <2>1
  <2>2. kept[t] = 0
    BY <2>1, <2>5, <2>6 DEF kept
  <2>3. outcomes'[t] - late'[t] = 1
    <3>1. outcomes'[t] = outcomes[t] + 1 /\ late'[t] = late[t]
      BY <1>1, <1>2, <1>9, <2>1
    <3> QED
      BY <2>5, <2>6, <3>1
  <2>4. \A u \in Task \ {t} : outcomes'[u] - late'[u] = outcomes[u] - late[u]
    BY <1>1, <1>2, <1>9
  <2> QED
    BY <2>1, <2>2, <2>3, <2>4 DEF kept
<1>11. Ownership!Record(t)
  BY <1>1, <1>2, <1>6, <1>8, <1>9, <1>10 DEF Ownership!Record
<1> QED
  BY <1>6, <1>11 DEF Ownership!Next

(* The status write of an overdue monitor: nobody's hold changes.           *)
LEMMA LateStep ==
  ASSUME LeaseInv, NEW m \in Monitor, Overdue(m), RecordOutcome(m)
  PROVE  Ownership!Next
<1> DEFINE t == Of[m]
<1>1. t \in Task /\ status[t] # "none" /\ outcomes \in [Task -> Nat] /\ late \in [Task -> Nat]
  BY ConstantFacts DEF LeaseInv, NoneIsUntouched, TypeOK, Overdue
<1>2. /\ status' = [status EXCEPT ![t] = "final"]
      /\ outcomes' = [outcomes EXCEPT ![t] = @ + 1]
      /\ late' = [late EXCEPT ![t] = @ + 1]
      /\ End({m}) /\ now' = now
  BY DEF RecordOutcome
<1>3. \A n \in Monitor : n # m => (Holds(n)' <=> Holds(n))
  BY <1>2 DEF Holds, aged, Overdue, End
<1>4. ~Holds(m)' /\ ~Holds(m)
  BY <1>2 DEF Holds, Overdue, End
<1>5. holders' = holders
  BY <1>3, <1>4 DEF holders
<1>6. kept' = kept
  <2>1. \A u \in Task : outcomes'[u] - late'[u] = outcomes[u] - late[u]
    <3>1. outcomes'[t] - late'[t] = outcomes[t] - late[t]
      BY <1>1, <1>2
    <3>2. \A u \in Task \ {t} : outcomes'[u] = outcomes[u] /\ late'[u] = late[u]
      BY <1>1, <1>2
    <3> QED
      BY <3>1, <3>2
  <2> QED
    BY <2>1 DEF kept
<1> QED
  BY <1>1, <1>2, <1>5, <1>6 DEF Ownership!Next, Ownership!WriteLate

LEMMA TakeOverStep ==
  ASSUME LeaseInv, NEW r \in Replica, ClaimExpiredTasks(r)
  PROVE  Ownership!Next
<1>1. PICK M \in SUBSET {m \in Monitor \ Acceptor : At[m] = r /\ pc[m] = "idle" /\ Lapsed(Of[m])} :
        /\ \A m, n \in M : m # n => Of[m] # Of[n]
        /\ pc' = [m \in Monitor |-> IF m \in M THEN "claimed" ELSE pc[m]]
        /\ since' = [m \in Monitor |-> IF m \in M THEN now ELSE since[m]]
  BY DEF ClaimExpiredTasks
<1>2. UNCHANGED <<now, status, lastRenewed, lost, renewal, outcomes, late>>
  BY DEF ClaimExpiredTasks, guardVars
<1> DEFINE S == {Of[m] : m \in M}
           new == [t \in S |-> CHOOSE m \in M : Of[m] = t]
<1>3. S \in SUBSET Task /\ M \subseteq Monitor
  BY <1>1, ConstantFacts
<1>4. new \in [S -> Monitor] /\ \A t \in S : new[t] \in M /\ Of[new[t]] = t
  BY <1>1
<1>5. \A n \in Monitor : n \notin M => (Holds(n)' <=> Holds(n))
  BY <1>1, <1>2 DEF Holds, aged, Overdue
<1>6. \A n \in M : Holds(n)'
  BY <1>1, <1>3 DEF Holds
<1>7. \A t \in S : status[t] = "in progress" /\ holders[t] = {}
  <2>1. ASSUME NEW m \in M PROVE status[Of[m]] = "in progress" /\ holders[Of[m]] = {}
    <3>1. Lapsed(Of[m]) /\ Of[m] \in Task
      BY <1>1, <1>3
    <3>2. \A n \in Monitor : Of[n] = Of[m] => ~Holds(n)
      BY <3>1, HeldNotLapsed
    <3> QED
      BY <3>1, <3>2 DEF Lapsed, holders
  <2> QED
    BY <2>1
<1>8. \A t \in S : \A n \in Monitor : Of[n] = t => ~Holds(n)
  BY <1>3, <1>7 DEF holders
<1>9. \A t \in S : holders'[t] = {new[t]}
  <2> TAKE t \in S
  <2>1. new[t] \in M /\ Of[new[t]] = t /\ t \in Task
    BY <1>3, <1>4
  <2>2. \A n \in Monitor : Of[n] = t /\ Holds(n)' => n = new[t]
    BY <1>1, <1>5, <1>8, <2>1
  <2>3. new[t] \in Monitor /\ Holds(new[t])'
    BY <1>3, <1>6, <2>1
  <2> HIDE DEF new, S
  <2> QED
    BY <2>1, <2>2, <2>3 DEF holders
<1>10. \A t \in Task \ S : holders'[t] = holders[t]
  BY <1>5 DEF holders
<1>11. holders' = [t \in Task |-> IF t \in S THEN {new[t]} ELSE holders[t]]
  <2> HIDE DEF new, S
  <2> QED
    BY <1>9, <1>10 DEF holders
<1>12. Ownership!TakeOver(S, new)
  BY <1>2, <1>7, <1>11 DEF Ownership!TakeOver, kept
<1> QED
  BY <1>3, <1>4, <1>12 DEF Ownership!Next

(* A step of a monitor that neither accepts a task nor records an outcome   *)
(* makes nobody a holder.                                                   *)
LEMMA MonitorHolds ==
  ASSUME LeaseInv, NEW m \in Monitor, MonitorStep(m), ~AddTask(m),
         ~SetTaskStatus(m), ~abortStaleTask(m)
  PROVE  UNCHANGED <<status, outcomes, late>> /\ \A n \in Monitor : Holds(n)' => Holds(n)
<1>1. TypeOK /\ IssuedInTime(m) /\ DelaysKept(m)
  BY DEF LeaseInv
<1> USE DEF rowVars, guardVars
<1>2. CASE ClaimTask(m) \/ ClaimTaskFails(m)
  BY <1>1, <1>2 DEF ClaimTask, ClaimTaskFails, Holds, aged, Overdue, TypeOK
<1>3. CASE newLeaseGuard(m)
  <2>1. \A n \in Monitor : n # m => (Holds(n)' <=> Holds(n))
    BY <1>1, <1>3 DEF newLeaseGuard, Holds, aged, Overdue, TypeOK
  <2>2. Holds(m)
    BY <1>3 DEF newLeaseGuard, Holds
  <2> QED
    BY <1>3, <2>1, <2>2 DEF newLeaseGuard
<1>4. CASE RenewIssue(m) \/ GiveUpAged(m) \/ RenewLease(m) \/ Decides(m)
  <2>1. \A n \in Monitor : n # m => (Holds(n)' <=> Holds(n))
    BY <1>1, <1>4 DEF RenewIssue, GiveUpAged, RenewLease, Decides, Holds, aged, Overdue, TypeOK
  <2>2. Holds(m)' => Holds(m)
    BY <1>1, <1>4 DEF RenewIssue, GiveUpAged, RenewLease, Decides, Holds, aged, Overdue, TypeOK, Lost, Guarded
  <2> QED
    BY <1>4, <2>1, <2>2 DEF RenewIssue, GiveUpAged, RenewLease, Decides
<1>5. CASE RenewReturns(m) \/ RenewFails(m)
  <2>1. \A n \in Monitor : n # m => (Holds(n)' <=> Holds(n))
    BY <1>1, <1>5 DEF RenewReturns, RenewFails, Holds, aged, Overdue, TypeOK
  <2>2. Holds(m)' => Holds(m)
    BY <1>1, <1>5 DEF RenewReturns, RenewFails, Holds, aged, Overdue, TypeOK, Guarded
  <2> QED
    BY <1>5, <2>1, <2>2 DEF RenewReturns, RenewFails
<1>6. CASE NotResumed(m) \/ Abandons(m) \/ StopsSuperseded(m) \/ SetTaskStatusFails(m)
  <2>1. End({m}) /\ UNCHANGED <<now, rowVars, outcomes, late>>
    BY <1>6 DEF NotResumed, Abandons, StopsSuperseded, SetTaskStatusFails
  <2>2. ~Holds(m)'
    BY <2>1 DEF End, Holds
  <2>3. \A n \in Monitor \ {m} : Holds(n)' <=> Holds(n)
    BY <2>1 DEF End, Holds, aged, Overdue
  <2> QED
    BY <2>1, <2>2, <2>3
<1> QED
  BY <1>2, <1>3, <1>4, <1>5, <1>6 DEF MonitorStep

LEMMA ReplicaHolds ==
  ASSUME LeaseInv, NEW r \in Replica, ReplicaStep(r), ~ClaimExpiredTasks(r)
  PROVE  UNCHANGED <<status, outcomes, late>> /\ \A n \in Monitor : Holds(n)' => Holds(n)
<1> USE DEF rowVars, monVars, guardVars
<1>1. CASE ReapTick(r) \/ beginDraining(r) \/ ReleaseOwnedLeases(r)
  BY <1>1 DEF ReapTick, beginDraining, ReleaseOwnedLeases, Holds, aged, Overdue
<1>2. CASE Exit(r)
  BY <1>2 DEF Exit, End, Holds, aged, Overdue
<1> QED
  BY <1>1, <1>2 DEF ReplicaStep

LEMMA TickHolds ==
  ASSUME LeaseInv, Tick
  PROVE  UNCHANGED <<status, outcomes, late>> /\ \A n \in Monitor : Holds(n)' => Holds(n)
<1>1. now' = now + 1 /\ UNCHANGED <<status, pc, since, lost, lastRenewed, renewal, outcomes, late>>
  BY DEF Tick, rowVars, monVars, guardVars
<1>2. ASSUME NEW n \in Monitor
      PROVE  aged(n) => aged(n)'
  <2>1. now \in Nat /\ lastRenewed[n] \in Nat
    BY DEF LeaseInv, TypeOK
  <2>2. now' - lastRenewed'[n] + Interval = now + 1 - lastRenewed[n] + Interval
    BY <1>1, <2>1, ConstantFacts
  <2>3. now - lastRenewed[n] + Interval >= TTL => now + 1 - lastRenewed[n] + Interval >= TTL
    BY <2>1, ConstantFacts
  <2>4. aged(n)' <=> now' - lastRenewed'[n] + Interval >= TTL
    BY DEF aged
  <2>5. aged(n) <=> now - lastRenewed[n] + Interval >= TTL
    BY DEF aged
  <2> QED
    BY <2>2, <2>3, <2>4, <2>5
<1>3. ASSUME NEW n \in Monitor
      PROVE  Overdue(n) => Overdue(n)'
  <2>1. now \in Nat /\ since[n] \in Nat
    BY DEF LeaseInv, TypeOK
  <2>2. now > since[n] + Margin => now + 1 > since[n] + Margin
    BY <2>1, MarginFacts
  <2> QED
    BY <1>1, <2>2 DEF Overdue
<1> QED
  BY <1>1, <1>2, <1>3 DEF Holds

LEMMA OwnershipNext == LeaseInv /\ [Next]_vars => [Ownership!Next]_(Ownership!vars)
<1> SUFFICES ASSUME LeaseInv, [Next]_vars PROVE Ownership!Next \/ UNCHANGED Ownership!vars
  OBVIOUS
<1>1. ASSUME NEW m \in Monitor, MonitorStep(m)
      PROVE  Ownership!Next
  <2>1. CASE AddTask(m)
    BY <2>1, AcceptStep
  <2>2. CASE SetTaskStatus(m) \/ abortStaleTask(m)
    BY <2>2, RecordStep, LateStep DEF SetTaskStatus, abortStaleTask, Holds
  <2>3. CASE ~AddTask(m) /\ ~SetTaskStatus(m) /\ ~abortStaleTask(m)
    BY <1>1, <2>3, MonitorHolds, LetGoStep
  <2> QED
    BY <2>1, <2>2, <2>3
<1>2. ASSUME NEW r \in Replica, ReplicaStep(r)
      PROVE  Ownership!Next
  BY <1>2, TakeOverStep, ReplicaHolds, LetGoStep
<1>3. ASSUME NEW t \in Task, Cancel(t)
      PROVE  Ownership!Next
  <2>1. \A n \in Monitor : Holds(n)' <=> Holds(n)
    BY <1>3 DEF Cancel, monVars, guardVars, Holds, aged, Overdue
  <2>2. holders' = holders
    BY <2>1 DEF holders
  <2> QED
    BY <1>3, <2>2 DEF Cancel, Ownership!Next, Ownership!Cancel, kept
<1>4. CASE Tick
  BY <1>4, TickHolds, LetGoStep
<1>5. CASE UNCHANGED vars
  <2>1. UNCHANGED <<status, outcomes, late>> /\ \A n \in Monitor : Holds(n)' => Holds(n)
    BY <1>5 DEF vars, rowVars, monVars, guardVars, Holds, aged, Overdue
  <2> QED
    BY <2>1, LetGoStep
<1> QED
  BY <1>1, <1>2, <1>3, <1>4, <1>5 DEF Next

(* The fleet, with its leases, clocks and crashes, does what TaskOwnership  *)
(* allows: one holder per task, one outcome of a holder, takeover of unheld *)
(* tasks only, and late writes that give nobody a hold.                     *)
THEOREM ImplementsOwnership == Spec => OwnershipSpec
<1>1. Init => Ownership!Init
  BY DEF Init, Holds, holders, kept, Ownership!Init
<1> QED
  BY <1>1, OwnershipNext, LeaseInvariant, PTL DEF Spec, OwnershipSpec, Ownership!Spec
=============================================================================
