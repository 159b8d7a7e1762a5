------------------------------ MODULE MCClient ------------------------------
(* Windows: the default, a malformed timeout, one below and one above the   *)
(* poll interval, and one that outlasts the staleness window and, handed    *)
(* over, the retention.                                                     *)
EXTENDS Client

MCTimeouts == {-1, 0, 1, 4, 17}
=============================================================================
