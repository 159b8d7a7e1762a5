------------------------------ MODULE Lockdown ------------------------------
(***************************************************************************)
(* The deployment lock (internal/server/lockdown.go, handlers_lock.go and  *)
(* internal/lock/deploy_lock*.go).                                         *)
(*                                                                         *)
(* Deployments are frozen by an operator's lock or by a weekly schedule.   *)
(* Releasing the lock while a schedule is active overrides the schedule    *)
(* for a while.  The lock and the end of the override are one row shared   *)
(* by the replicas; each replica evaluates the schedules by itself, and    *)
(* its watcher tells the WebSocket clients when the answer changes.        *)
(*                                                                         *)
(* now counts minutes; a day has DayLength of them.                        *)
(***************************************************************************)
EXTENDS Integers

CONSTANTS
  Operator,          \* calls of the lock and release endpoints, each made once
  Watcher,           \* lockdown watchers, one per replica
  Schedules,         \* LOCKDOWN_SCHEDULE, the same on every replica
  DayLength,         \* minutes of a day
  overrideDuration,  \* minutes a release suppresses an active schedule
  Start,             \* the minute of the first week at which the model begins
  MaxTime            \* bound on the clock

(* What parseSchedule returns.  It does not check the range of an hour or a *)
(* minute, so an end of 24:00 is a time of the day as well.                 *)
Schedule == [startDay : 0..6, start : 0..DayLength, endDay : 0..6, end : 0..DayLength]

ASSUME LockdownAssumption ==
  /\ DayLength \in Nat \ {0}
  /\ overrideDuration \in Nat
  /\ {Start, MaxTime} \subseteq Nat
  /\ Schedules \subseteq Schedule

VARIABLES
  now,        \* the clock
  store,      \* the row of deploy_lock
  call,       \* [Operator -> the state of its call]
  until,      \* [Operator -> Nat], the override deadline ReleaseLock computed
  last,       \* [Watcher -> BOOLEAN], the state it last recorded
  told,       \* [Watcher -> the last message it sent]
  releasedAt  \* when the lock was last released (history)

lockVars == <<now, store, call, until, last, told, releasedAt>>

NoTime == 0
Never == -1
NeverLocked == [manualLock |-> FALSE, overrideUntil |-> NoTime]
NoMessage == "none"

LockTypeOK ==
  /\ now \in Nat
  /\ store \in [manualLock : BOOLEAN, overrideUntil : Nat]
  /\ call \in [Operator -> {"idle", "releasing", "locked", "released", "failed"}]
  /\ until \in [Operator -> Nat]
  /\ last \in [Watcher -> BOOLEAN]
  /\ told \in [Watcher -> {NoMessage, "locked", "unlocked"}]
  /\ releasedAt \in Nat \cup {Never}

-----------------------------------------------------------------------------
(* The schedules *)

Weekday(t) == (t \div DayLength) % 7
Minute(t) == t % DayLength

(* Faulty variant: a range of days that wraps around the week is empty.    *)
dayInRangeUnwrapped(day, first, final) == day >= first /\ day <= final

dayInRange(day, first, final) ==
  IF final >= first THEN day >= first /\ day <= final
                    ELSE day >= first \/ day <= final

timeWithinSchedule(day, minute, s) ==
  IF s.startDay = s.endDay
    THEN day = s.startDay /\ minute >= s.start /\ minute < s.end
    ELSE /\ dayInRange(day, s.startDay, s.endDay)
         /\ CASE day = s.startDay -> minute >= s.start
              [] day = s.endDay   -> minute < s.end
              [] OTHER            -> TRUE

scheduleActive(t) ==
  \E s \in Schedules : timeWithinSchedule(Weekday(t), Minute(t), s)

(* Faulty variant: the release forgets that the override has an end.       *)
isLockedWithoutExpiry(state, t) ==
  state.manualLock \/ (state.overrideUntil = NoTime /\ scheduleActive(t))

isLockedWith(state, t) ==
  state.manualLock \/ (t >= state.overrideUntil /\ scheduleActive(t))

(* Reading the row, and what resolve answers: unreadable means locked.      *)
Read(state) == [err |-> FALSE, state |-> state]
Unreadable == [err |-> TRUE, state |-> NeverLocked]
resolve(answer, t) == answer.err \/ isLockedWith(answer.state, t)

-----------------------------------------------------------------------------
(* A watcher records the state it starts in, read or assumed.               *)
LockInit ==
  /\ now = Start
  /\ store \in [manualLock : BOOLEAN, overrideUntil : {NoTime}]
  /\ call = [o \in Operator |-> "idle"]
  /\ until = [o \in Operator |-> NoTime]
  /\ \E answer \in {Read(store), Unreadable} : last = [w \in Watcher |-> resolve(answer, Start)]
  /\ told = [w \in Watcher |-> NoMessage]
  /\ releasedAt = Never

(* POST deploy-lock: the upsert engages the lock and drops any override.    *)
(* The caller may be told of a failure although the row was written.        *)
SetLock(o) ==
  /\ call[o] = "idle"
  /\ \E answer \in {"locked", "failed"} : call' = [call EXCEPT ![o] = answer]
  /\ store' = [manualLock |-> TRUE, overrideUntil |-> NoTime]
  /\ UNCHANGED <<now, until, last, told, releasedAt>>

(* DELETE deploy-lock: the deadline is computed first ...                   *)
ReleaseLock(o) ==
  /\ call[o] = "idle"
  /\ call' = [call EXCEPT ![o] = "releasing"]
  /\ until' = [until EXCEPT ![o] =
                 IF scheduleActive(now) THEN now + overrideDuration ELSE NoTime]
  /\ UNCHANGED <<now, store, last, told, releasedAt>>

(* ... and then written, whatever the row has become in the meantime.       *)
Release(o) ==
  /\ call[o] = "releasing"
  /\ \E answer \in {"released", "failed"} : call' = [call EXCEPT ![o] = answer]
  /\ store' = [manualLock |-> FALSE, overrideUntil |-> until[o]]
  /\ releasedAt' = now
  /\ UNCHANGED <<now, until, last, told>>

(* The write fails; the caller is told, and the row is as it was.           *)
WriteFails(o) ==
  /\ call[o] \in {"idle", "releasing"}
  /\ call' = [call EXCEPT ![o] = "failed"]
  /\ UNCHANGED <<now, store, until, last, told, releasedAt>>

(* Faulty variant: the watcher tells its clients only of locks.            *)
WatchTransitionsQuietly(w) ==
  /\ isLockedWith(store, now) # last[w]
  /\ last' = [last EXCEPT ![w] = isLockedWith(store, now)]
  /\ told' = [told EXCEPT ![w] = IF last'[w] THEN "locked" ELSE @]
  /\ UNCHANGED <<now, store, call, until, releasedAt>>

(* A tick of a watcher that finds a change; a tick whose read fails, or     *)
(* that finds none, changes nothing.                                        *)
WatchTransitions(w) ==
  /\ isLockedWith(store, now) # last[w]
  /\ last' = [last EXCEPT ![w] = isLockedWith(store, now)]
  /\ told' = [told EXCEPT ![w] = IF last'[w] THEN "locked" ELSE "unlocked"]
  /\ UNCHANGED <<now, store, call, until, releasedAt>>

Minutes ==
  /\ now < Start + MaxTime
  /\ now' = now + 1
  /\ UNCHANGED <<store, call, until, last, told, releasedAt>>

LockNext ==
  \/ \E o \in Operator : SetLock(o) \/ ReleaseLock(o) \/ Release(o) \/ WriteFails(o)
  \/ \E w \in Watcher : WatchTransitions(w)
  \/ Minutes

(* A watcher runs on its ticker until the process ends.                     *)
LockFairness == \A w \in Watcher : WF_lockVars(WatchTransitions(w))

LockSpec == LockInit /\ [][LockNext]_lockVars /\ LockFairness

-----------------------------------------------------------------------------
(* Properties *)

(* The order of two times of the week.                                      *)
Precedes(d, m, e, n) == d < e \/ (d = e /\ m < n)

(* A schedule freezes the interval of the week from its start to its end,   *)
(* across Saturday midnight when it ends earlier in the week than it        *)
(* starts: the branches on days say the same as the order of the times.     *)
(* The one exception is a schedule that ends on the day it starts, earlier: *)
(* it freezes nothing, where the rule would freeze the rest of the week.    *)
Interval(day, minute, s) ==
  LET started == ~Precedes(day, minute, s.startDay, s.start)
      ended == ~Precedes(day, minute, s.endDay, s.end)
  IN IF Precedes(s.endDay, s.end, s.startDay, s.start)
       THEN s.startDay # s.endDay /\ (started \/ ~ended)
       ELSE started /\ ~ended

ScheduleIsInterval ==
  \A s \in Schedules :
    timeWithinSchedule(Weekday(now), Minute(now), s) <=> Interval(Weekday(now), Minute(now), s)

(* A scheduled freeze is only ever suspended: it is in force again once     *)
(* overrideDuration has passed since the lock was last released, whatever   *)
(* locks, releases and failures came before, and in whatever order the two  *)
(* halves of concurrent releases ran.                                       *)
FreezeReturns ==
  scheduleActive(now) /\ (releasedAt = Never \/ now >= releasedAt + overrideDuration)
    => isLockedWith(store, now)

(* Once the deployment lock stays as it is, every watcher has recorded it,  *)
(* and its clients were told nothing else since: no transition is swallowed,*)
(* whether the watcher started on an unreadable row or not.                 *)
WatcherSettles ==
  LET Frozen == isLockedWith(store, now)
      Shows(w, b) == last[w] = b /\ told[w] \in {NoMessage, IF b THEN "locked" ELSE "unlocked"}
  IN \A w \in Watcher :
       /\ <>[]Frozen => <>[]Shows(w, TRUE)
       /\ <>[]~Frozen => <>[]Shows(w, FALSE)
=============================================================================
