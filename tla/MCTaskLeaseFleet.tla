--------------------------- MODULE MCTaskLeaseFleet ---------------------------
(* TaskLease without the assumptions of TaskLeaseMargin: the delays of the   *)
(* code as they are.  Replica r1 accepts the task, r2 may resume it.         *)
EXTENDS TaskLease

CONSTANTS r1, r2, t1

MCMonitor == {<<r1, t1, "accept">>, <<r2, t1, "resume">>}
MCAt == [m \in MCMonitor |-> m[1]]
MCOf == [m \in MCMonitor |-> m[2]]
MCAcceptor == {m \in MCMonitor : m[3] = "accept"}
=============================================================================
