---------------------------- MODULE TaskOwnership ----------------------------
(***************************************************************************)
(* What the lease protocol promises, without leases or time: a deployment  *)
(* task has at most one holder; the outcome a holder records ends the hold *)
(* and is the only one of its kind; only a task in progress that nobody    *)
(* holds is taken over.  A goroutine that no longer holds its task may     *)
(* still write late, over whatever is there, and gains no hold by it.      *)
(***************************************************************************)
EXTENDS Naturals

CONSTANTS Task, Monitor

VARIABLES
  status,  \* [Task -> {"none", "in progress", "cancelled", "final"}]
  holders, \* [Task -> SUBSET Monitor], the goroutines that may record its outcome
  kept,    \* [Task -> Nat], outcomes recorded by a holder
  late     \* [Task -> Nat], outcomes written by one that no longer was

vars == <<status, holders, kept, late>>

Init ==
  /\ status = [t \in Task |-> "none"]
  /\ holders = [t \in Task |-> {}]
  /\ kept = [t \in Task |-> 0]
  /\ late = [t \in Task |-> 0]

Accept(t, m) ==
  /\ status[t] = "none"
  /\ status' = [status EXCEPT ![t] = "in progress"]
  /\ holders' = [holders EXCEPT ![t] = {m}]
  /\ UNCHANGED <<kept, late>>

(* Held tasks are let go of: their monitors crash, give up or lose a claim. *)
LetGo(S) ==
  /\ holders' = [t \in Task |-> IF t \in S THEN {} ELSE holders[t]]
  /\ UNCHANGED <<status, kept, late>>

(* A sweep takes over tasks in progress that nobody holds.                  *)
TakeOver(S, new) ==
  /\ \A t \in S : status[t] = "in progress" /\ holders[t] = {}
  /\ holders' = [t \in Task |-> IF t \in S THEN {new[t]} ELSE holders[t]]
  /\ UNCHANGED <<status, kept, late>>

Record(t) ==
  /\ holders[t] # {}
  /\ kept[t] = 0
  /\ status[t] \in {"in progress", "cancelled"} \/ late[t] > 0
  /\ status' = [status EXCEPT ![t] = "final"]
  /\ holders' = [holders EXCEPT ![t] = {}]
  /\ kept' = [kept EXCEPT ![t] = 1]
  /\ UNCHANGED late

(* The write of a goroutine whose hold has lapsed, after its last check.    *)
WriteLate(t) ==
  /\ status[t] # "none"
  /\ status' = [status EXCEPT ![t] = "final"]
  /\ late' = [late EXCEPT ![t] = @ + 1]
  /\ UNCHANGED <<holders, kept>>

Cancel(t) ==
  /\ status[t] = "in progress"
  /\ status' = [status EXCEPT ![t] = "cancelled"]
  /\ UNCHANGED <<holders, kept, late>>

Next ==
  \/ \E t \in Task, m \in Monitor : Accept(t, m)
  \/ \E S \in SUBSET Task : LetGo(S)
  \/ \E S \in SUBSET Task : \E new \in [S -> Monitor] : TakeOver(S, new)
  \/ \E t \in Task : Record(t)
  \/ \E t \in Task : WriteLate(t)
  \/ \E t \in Task : Cancel(t)

Spec == Init /\ [][Next]_vars
=============================================================================
