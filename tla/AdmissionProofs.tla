--------------------------- MODULE AdmissionProofs ---------------------------
(***************************************************************************)
(* The deployment lock, for any schedules, operators, watchers and         *)
(* requests: a schedule freezes an interval of the week, a freeze is only  *)
(* ever suspended, and a request passes only what let it.                  *)
(***************************************************************************)
EXTENDS Admission, TLAPS

(* The branches on days agree with the order of the times of the week.      *)
LEMMA TimeWithinScheduleIsInterval ==
  ASSUME NEW s \in Schedule, NEW day \in 0..6, NEW minute \in 0..(DayLength - 1)
  PROVE  timeWithinSchedule(day, minute, s) <=> Interval(day, minute, s)
<1> /\ s.startDay \in 0..6 /\ s.endDay \in 0..6
    /\ s.start \in 0..DayLength /\ s.end \in 0..DayLength /\ DayLength \in Nat
  BY LockdownAssumption DEF Schedule
<1>1. CASE s.startDay = s.endDay
  BY <1>1 DEF timeWithinSchedule, Interval, Precedes
<1>2. CASE s.startDay < s.endDay
  BY <1>2 DEF timeWithinSchedule, Interval, Precedes, dayInRange
<1>3. CASE s.startDay > s.endDay
  BY <1>3 DEF timeWithinSchedule, Interval, Precedes, dayInRange
<1> QED BY <1>1, <1>2, <1>3

LEMMA TimeOfWeek ==
  ASSUME NEW t \in Nat
  PROVE  Weekday(t) \in 0..6 /\ Minute(t) \in 0..(DayLength - 1)
BY LockdownAssumption DEF Weekday, Minute

-----------------------------------------------------------------------------
(* No override outlasts the last release by more than its duration, and no  *)
(* release under way carries a later deadline than one computed now.        *)
OverrideBounded ==
  /\ store.overrideUntil <=
       (IF releasedAt = Never THEN NoTime ELSE releasedAt + overrideDuration)
  /\ \A o \in Operator : until[o] <= now + overrideDuration

(* What a request has read, or already passed, was so at some instant of    *)
(* its handling.                                                            *)
ReadWasSo(q) ==
  /\ stage[q] = "read" /\ ~row[q].err =>
       /\ ~row[q].state.manualLock => manualOff[q]
       /\ now < row[q].state.overrideUntil => scheduleOff[q]
  /\ stage[q] \in {"unlocked", "validated", "accepted"} => manualOff[q] /\ scheduleOff[q]

Stage == {"none", "bound", "read", "unlocked", "validated",
          "malformed", "locked", "unauthorized", "unavailable", "incomplete", "failed", "accepted"}

RequestTypeOK ==
  /\ stage \in [Request -> Stage]
  /\ body \in [Request -> Body]
  /\ row \in [Request -> [err : BOOLEAN, state : [manualLock : BOOLEAN, overrideUntil : Nat]]]
  /\ manualOff \in [Request -> BOOLEAN]
  /\ scheduleOff \in [Request -> BOOLEAN]

(* The inductive invariant.                                                 *)
IInv ==
  /\ LockTypeOK
  /\ OverrideBounded
  /\ RequestTypeOK
  /\ \A q \in Request : ReadWasSo(q)

LEMMA InitIInv == Init => IInv
<1> SUFFICES ASSUME Init PROVE IInv
  OBVIOUS
<1> USE LockdownAssumption
<1>1. \A answer : resolve(answer, Start) \in BOOLEAN
  BY DEF resolve, isLockedWith, scheduleActive
<1>2. last \in [Watcher -> BOOLEAN]
  BY <1>1 DEF Init, LockInit
<1>3. LockTypeOK /\ OverrideBounded
  <2>1. store \in [manualLock : BOOLEAN, overrideUntil : Nat] /\ store.overrideUntil = 0
    BY DEF Init, LockInit, NeverLocked, NoTime
  <2>2. /\ call \in [Operator -> {"idle", "releasing", "locked", "released", "failed"}]
        /\ until = [o \in Operator |-> 0]
        /\ told \in [Watcher -> {NoMessage, "locked", "unlocked"}]
    BY DEF Init, LockInit, NoTime
  <2>3. now \in Nat /\ releasedAt = Never /\ overrideDuration \in Nat
    BY DEF Init, LockInit
  <2> QED BY <1>2, <2>1, <2>2, <2>3 DEF LockTypeOK, OverrideBounded, NoTime
<1>4. row \in [Request -> [err : BOOLEAN, state : [manualLock : BOOLEAN, overrideUntil : Nat]]]
  BY DEF Init, Unreadable, NeverLocked, NoTime
<1>5. RequestTypeOK
  BY <1>4 DEF Init, RequestTypeOK, Stage
<1>6. \A q \in Request : ReadWasSo(q)
  BY DEF Init, ReadWasSo
<1> QED BY <1>3, <1>5, <1>6 DEF IInv

(* What the lock's own steps keep.                                          *)
LEMMA LockStepKeeps ==
  ASSUME LockTypeOK, OverrideBounded, LockNext \/ UNCHANGED lockVars
  PROVE  LockTypeOK' /\ OverrideBounded' /\ now' >= now
<1> USE LockdownAssumption DEF LockTypeOK, OverrideBounded, NoTime, Never, NoMessage
<1>1. ASSUME NEW o \in Operator, SetLock(o) PROVE LockTypeOK' /\ OverrideBounded' /\ now' >= now
  BY <1>1 DEF SetLock
<1>2. ASSUME NEW o \in Operator, ReleaseLock(o) PROVE LockTypeOK' /\ OverrideBounded' /\ now' >= now
  <2> DEFINE d == IF scheduleActive(now) THEN now + overrideDuration ELSE NoTime
  <2>1. until' = [until EXCEPT ![o] = d] /\ UNCHANGED <<now, store, last, told, releasedAt>>
    BY <1>2 DEF ReleaseLock
  <2>2. d \in Nat /\ d <= now + overrideDuration
    OBVIOUS
  <2> HIDE DEF d
  <2>3. call' \in [Operator -> {"idle", "releasing", "locked", "released", "failed"}]
    BY <1>2 DEF ReleaseLock
  <2>4. until' \in [Operator -> Nat] /\ \A p \in Operator : until'[p] <= now' + overrideDuration
    BY <2>1, <2>2
  <2> QED BY <2>1, <2>3, <2>4
<1>3. ASSUME NEW o \in Operator, Release(o) PROVE LockTypeOK' /\ OverrideBounded' /\ now' >= now
  BY <1>3 DEF Release
<1>4. ASSUME NEW o \in Operator, WriteFails(o) PROVE LockTypeOK' /\ OverrideBounded' /\ now' >= now
  BY <1>4 DEF WriteFails
<1>5. ASSUME NEW w \in Watcher, WatchTransitions(w) PROVE LockTypeOK' /\ OverrideBounded' /\ now' >= now
  <2>1. isLockedWith(store, now) \in BOOLEAN
    BY DEF isLockedWith, scheduleActive
  <2> QED BY <1>5, <2>1 DEF WatchTransitions
<1>6. CASE Minutes
  BY <1>6 DEF Minutes
<1>7. CASE UNCHANGED lockVars
  BY <1>7 DEF lockVars
<1> QED BY <1>1, <1>2, <1>3, <1>4, <1>5, <1>6, <1>7 DEF LockNext

(* What a request's handling keeps.                                         *)
LEMMA HandleKeeps ==
  ASSUME IInv, Next, NEW q \in Request, Handle(q), UNCHANGED <<lockVars, body>>
  PROVE  RequestTypeOK' /\ \A p \in Request : ReadWasSo(p)'
<1> USE DEF IInv, LockTypeOK, RequestTypeOK, Noted
<1>1. /\ UNCHANGED <<now, store>> /\ Noted
      /\ \A p \in Request : p # q => stage'[p] = stage[p] /\ row'[p] = row[p]
  BY DEF Handle, Goes, bindJSON, ReadLock, IsLocked, validateToken, AddTask, Next, lockVars, Body, Stage
<1>2. /\ row' \in [Request -> [err : BOOLEAN, state : [manualLock : BOOLEAN, overrideUntil : Nat]]]
      /\ stage' \in [Request -> Stage]
  <2>1. Read(store) \in [err : BOOLEAN, state : [manualLock : BOOLEAN, overrideUntil : Nat]]
        /\ Unreadable \in [err : BOOLEAN, state : [manualLock : BOOLEAN, overrideUntil : Nat]]
    BY DEF Read, Unreadable, NeverLocked, NoTime
  <2>2. row' \in [Request -> [err : BOOLEAN, state : [manualLock : BOOLEAN, overrideUntil : Nat]]]
    BY <2>1 DEF Handle, bindJSON, ReadLock, IsLocked, validateToken, AddTask
  <2>3. \E next \in Stage : stage' = [stage EXCEPT ![q] = next]
    BY DEF Handle, Goes, bindJSON, ReadLock, IsLocked, validateToken, AddTask, Stage
  <2> QED BY <2>2, <2>3
<1>3. RequestTypeOK'
  <2>1. scheduleActive(now') \in BOOLEAN
    BY DEF scheduleActive
  <2>2. /\ manualOff' \in [Request -> BOOLEAN]
        /\ scheduleOff' \in [Request -> BOOLEAN]
    BY <1>1, <2>1
  <2> QED BY <1>2, <2>2
<1>4. ASSUME NEW p \in Request, p # q PROVE ReadWasSo(p)'
  BY <1>1, <1>4 DEF ReadWasSo
<1>5. ReadWasSo(q)'
  <2>1. CASE bindJSON(q)
    BY <2>1, <1>1 DEF bindJSON, Goes, ReadWasSo
  <2>2. CASE ReadLock(q)
    <3>1. stage'[q] = "read" /\ row'[q] \in {Read(store), Unreadable}
      BY <2>2 DEF ReadLock, Goes
    <3>2. CASE row'[q] = Unreadable
      BY <3>1, <3>2 DEF ReadWasSo, Unreadable
    <3>3. CASE row'[q] = Read(store)
      <4>1. row'[q].state = store /\ now' = now /\ store' = store
        BY <3>3, <1>1 DEF Read
      <4>2. /\ manualOff'[q] <=> (manualOff[q] \/ ~store.manualLock)
            /\ now < store.overrideUntil => scheduleOff'[q]
        BY <4>1, <3>1, <1>1
      <4> QED BY <4>1, <4>2, <3>1 DEF ReadWasSo
    <3> QED BY <3>1, <3>2, <3>3
  <2>3. CASE IsLocked(q)
    <3>1. stage[q] = "read" /\ stage'[q] \in {"locked", "unlocked"}
          /\ (stage'[q] = "unlocked" => ~resolve(row[q], now))
      BY <2>3 DEF IsLocked, Goes
    <3>2. CASE stage'[q] = "locked"
      BY <3>2 DEF ReadWasSo
    <3>3. CASE stage'[q] = "unlocked"
      <4>1. ~row[q].err /\ ~row[q].state.manualLock
            /\ (now < row[q].state.overrideUntil \/ ~scheduleActive(now))
        BY <3>1, <3>3 DEF resolve, isLockedWith
      <4>2. manualOff[q] /\ (scheduleOff[q] \/ ~scheduleActive(now))
        BY <4>1, <3>1 DEF ReadWasSo
      <4>3. scheduleActive(now') <=> scheduleActive(now)
        BY <1>1
      <4>4. manualOff'[q] /\ scheduleOff'[q]
        BY <4>2, <4>3, <1>1, <3>3
      <4> QED BY <4>4, <3>3 DEF ReadWasSo
    <3> QED BY <3>1, <3>2, <3>3
  <2>4. CASE validateToken(q)
    BY <2>4, <1>1 DEF validateToken, Goes, ReadWasSo
  <2>5. CASE AddTask(q)
    BY <2>5, <1>1 DEF AddTask, Goes, ReadWasSo
  <2> QED BY <2>1, <2>2, <2>3, <2>4, <2>5 DEF Handle
<1> QED BY <1>3, <1>4, <1>5

LEMMA NextIInv == IInv /\ [Next]_vars => IInv'
<1> SUFFICES ASSUME IInv, [Next]_vars PROVE IInv'
  OBVIOUS
<1>1. LockNext \/ UNCHANGED lockVars
  BY DEF Next, vars
<1>2. LockTypeOK' /\ OverrideBounded' /\ now' >= now
  BY <1>1, LockStepKeeps DEF IInv
<1>3. CASE \E q \in Request : Handle(q) /\ UNCHANGED <<lockVars, body>> /\ Noted
  BY <1>2, <1>3, HandleKeeps DEF IInv, Next
<1>4. CASE LockNext /\ UNCHANGED <<stage, body, row>> /\ Noted
  <2>1. RequestTypeOK'
    <3>1. scheduleActive(now') \in BOOLEAN /\ store'.manualLock \in BOOLEAN
      BY <1>2 DEF scheduleActive, LockTypeOK
    <3>2. manualOff' \in [Request -> BOOLEAN] /\ scheduleOff' \in [Request -> BOOLEAN]
      BY <1>4, <3>1 DEF Noted, IInv, RequestTypeOK
    <3> QED BY <1>4, <3>2 DEF IInv, RequestTypeOK
  <2>2. ASSUME NEW q \in Request PROVE ReadWasSo(q)'
    <3>1. /\ manualOff[q] => manualOff'[q]
          /\ scheduleOff[q] => scheduleOff'[q]
      BY <1>4 DEF Noted, IInv, RequestTypeOK
    <3>2. row[q].state.overrideUntil \in Nat /\ now \in Nat /\ now' \in Nat
      BY <1>2 DEF IInv, RequestTypeOK, LockTypeOK
    <3> QED BY <1>2, <1>4, <3>1, <3>2 DEF ReadWasSo, IInv
  <2> QED BY <1>2, <2>1, <2>2 DEF IInv
<1>5. CASE UNCHANGED vars
  BY <1>2, <1>5 DEF vars, requestVars, lockVars, IInv, RequestTypeOK, ReadWasSo
<1> QED BY <1>3, <1>4, <1>5 DEF Next

LEMMA Invariance == Spec => []IInv
<1>1. Init => IInv
  BY InitIInv
<1> QED BY <1>1, NextIInv, PTL DEF Spec

-----------------------------------------------------------------------------
(* Theorems *)

(* Every schedule the server can be configured with freezes the interval of *)
(* the week its two times name (timeWithinSchedule).                        *)
THEOREM SchedulesAreIntervals == Spec => []ScheduleIsInterval
<1>1. IInv => ScheduleIsInterval
  BY TimeWithinScheduleIsInterval, TimeOfWeek, LockdownAssumption
     DEF IInv, LockTypeOK, ScheduleIsInterval
<1> QED BY <1>1, Invariance, PTL

(* A scheduled freeze is in force again when the override of the last       *)
(* release has run out (isLockedWith, ReleaseLock).                         *)
THEOREM FreezesReturn == Spec => []FreezeReturns
<1>1. IInv => FreezeReturns
  BY LockdownAssumption
     DEF IInv, LockTypeOK, OverrideBounded, FreezeReturns, isLockedWith, NoTime, Never
<1> QED BY <1>1, Invariance, PTL

(* No request passes a freeze that lasts throughout its handling (addTask). *)
THEOREM FreezesAreEffective == Spec => []FreezeIsEffective
<1>1. IInv => FreezeIsEffective
  BY DEF IInv, ReadWasSo, FreezeIsEffective
<1> QED BY <1>1, Invariance, PTL
=============================================================================
