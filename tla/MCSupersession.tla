---------------------------- MODULE MCSupersession ----------------------------
(* Two credentialed deployments of one application sharing an image, and     *)
(* one without a credential.                                                 *)
EXTENDS Supersession

CONSTANTS d1, d2, d3, a1, i1, i2

MCAppOf == [d \in Deploy |-> a1]
MCImagesOf == [d \in Deploy |-> IF d = d2 THEN {i1, i2} ELSE {i1}]
=============================================================================
