----------------------------- MODULE MCTaskLease -----------------------------
(* Instances of TaskLease with the timing of TaskLeaseMargin.               *)
EXTENDS TaskLeaseMargin

CONSTANTS r1, r2, t1

(* Replica r1 accepts the task; each replica may take it over once.         *)
MCMonitor == {<<r1, t1, "accept">>, <<r1, t1, "resume">>, <<r2, t1, "resume">>}
MCAt == [m \in MCMonitor |-> m[1]]
MCOf == [m \in MCMonitor |-> m[2]]
MCAcceptor == {m \in MCMonitor : m[3] = "accept"}
=============================================================================
