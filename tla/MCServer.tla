------------------------------ MODULE MCServer ------------------------------
(* One tab with two connections, so that it connects again while the        *)
(* goroutine of its lost connection still runs.                             *)
EXTENDS Server, TLC

CONSTANTS t1, c1, c2
TabDef == {t1}
ConnDef == {c1, c2}
=============================================================================
