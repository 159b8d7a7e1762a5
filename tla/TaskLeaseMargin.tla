--------------------------- MODULE TaskLeaseMargin ---------------------------
(***************************************************************************)
(* The timing under which the lease protocol of TaskLease keeps its        *)
(* promise, and the inductive invariant that shows it.                     *)
(***************************************************************************)
EXTENDS TaskLease

(* One renewal interval is the whole safety margin of the lease guard: it   *)
(* gives the claim up one interval before it lapses.  The delay between a   *)
(* claim and its guard, the clock difference and a renewal have to fit in   *)
(* it.  Nothing is assumed of the status write: one that takes longer than  *)
(* what is left of the margin is Overdue.                                   *)
ASSUME MarginAssumption ==
  /\ TTL > Interval
  /\ StartDelay + Skew + RenewTimeout <= Interval + 1

(* m can still record an outcome: it is on its way to a guard, its guard    *)
(* holds (or a renewal under way may yet keep it), or it is about to write  *)
(* and not overdue.                                                         *)
Holds(m) ==
  \/ pc[m] \in {"accepted", "claimed"}
  \/ pc[m] = "deciding" /\ ~Overdue(m)
  \/ pc[m] = "watching" /\ ~lost[m] /\ (~aged(m) \/ renewal[m] # "none")

(* The last instant at which no sweep takes the row over.                   *)
Deadline(t) == IF lease[t] = NoLease THEN created[t] + TTL ELSE lease[t]

Leaving(m) == phase[At[m]] = "exiting"

(* A delay the code bounds has not run out.                                 *)
DelaysKept(m) ==
  /\ since[m] <= now /\ issued[m] <= now /\ lastRenewed[m] <= now
  /\ pc[m] \in {"accepted", "claimed"} => now <= since[m] + StartDelay
  /\ Guarded(m) /\ renewal[m] # "none" => now <= issued[m] + RenewTimeout

(* A renewal is under way only in a guard, and was issued while the claim   *)
(* was more than one interval from lapsing.                                 *)
IssuedInTime(m) ==
  renewal[m] # "none" =>
    /\ Guarded(m)
    /\ pc[m] = "watching" => issued[m] + Interval < lastRenewed[m] + TTL

(* As long as m holds a task in progress the row says so (nobody else owns  *)
(* it), and the row's deadline is late enough for all m may still do.       *)
Covered(m) ==
  Holds(m) /\ status[Of[m]] = "in progress" =>
    LET d == Deadline(Of[m]) IN
    /\ owner[Of[m]] \in {At[m], NoOwner}
    /\ now <= d
    /\ Leaving(m) \/
         /\ pc[m] \in {"accepted", "claimed"} => since[m] + TTL - Skew <= d
         /\ pc[m] = "watching" => lastRenewed[m] + TTL - StartDelay - Skew <= d
         /\ pc[m] = "watching" /\ renewal[m] = "applied" => issued[m] + TTL <= d
         /\ pc[m] = "deciding" => since[m] + Margin <= d

(* At most one goroutine can still record an outcome for a task, and only   *)
(* for one that has none yet but a late one.                                *)
ExclusiveHolder ==
  \A m, n \in Monitor : Of[m] = Of[n] /\ Holds(m) /\ Holds(n) => m = n

HeldHasNoOutcome ==
  \A m \in Monitor : Holds(m) =>
    /\ status[Of[m]] \in {"in progress", "cancelled"} \/ late[Of[m]] > 0
    /\ status[Of[m]] # "none"
    /\ outcomes[Of[m]] = late[Of[m]]

OutcomeMatchesStatus ==
  \A t \in Task :
    /\ outcomes[t] - late[t] \in {0, 1}
    /\ status[t] \in {"none", "in progress"} => outcomes[t] = 0 /\ late[t] = 0
    /\ lease[t] = NoLease \/ lease[t] >= 0

NoneIsUntouched ==
  /\ \A m \in Monitor : status[Of[m]] = "none" => pc[m] = "idle"
  /\ \A t \in Task : status[t] = "none" => owner[t] = NoOwner /\ lease[t] = NoLease

ExitedIsGone ==
  /\ \A m \in Monitor : phase[At[m]] = "down" => pc[m] \in {"idle", "gone"}
  /\ \A r \in sweeping : phase[r] # "down"

(* The inductive invariant.                                                 *)
LeaseInv ==
  /\ TypeOK
  /\ \A m \in Monitor : DelaysKept(m) /\ IssuedInTime(m) /\ Covered(m)
  /\ ExclusiveHolder
  /\ HeldHasNoOutcome
  /\ OutcomeMatchesStatus
  /\ NoneIsUntouched
  /\ ExitedIsGone

-----------------------------------------------------------------------------
(* The protocol implements TaskOwnership: the holders of a task are the     *)
(* goroutines that can still record its outcome.                            *)
holders == [t \in Task |-> {m \in Monitor : Of[m] = t /\ Holds(m)}]

kept == [t \in Task |-> outcomes[t] - late[t]]

Ownership ==
  INSTANCE TaskOwnership WITH status <- status, holders <- holders,
                              kept <- kept, late <- late,
                              Task <- Task, Monitor <- Monitor

(* A deployment is finished once by the one goroutine that holds it, and is *)
(* taken over only when nobody holds it; what else is written to it is      *)
(* written late, by a goroutine whose status write is overdue.              *)
OwnershipSpec == Ownership!Spec
=============================================================================
