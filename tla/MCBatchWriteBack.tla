--------------------------- MODULE MCBatchWriteBack ---------------------------
(* Instances of BatchWriteBack on one branch: the write-backs of one         *)
(* replica, and two replicas writing different tags to the same slot.        *)
EXTENDS BatchWriteBack

CONSTANTS q1, q2, q3, b1, b2, m, s1, s2, v1, v2

(* One queue: q1 and q2 write different tags to one slot, q3 another slot.  *)
OneQueue == [r \in Request |-> <<b1, m>>]
Overlapping == [r \in Request |->
  CASE r = q1 -> [s \in {s1} |-> v1]
    [] r = q2 -> [s \in {s1} |-> v2]
    [] OTHER  -> [s \in {s2} |-> v1]]

(* One queue, every request for the same content.                           *)
SameContent == [r \in Request |-> [s \in {s1} |-> v1]]

(* A queue on each of two replicas, for content that shares a slot.         *)
TwoReplicas == [r \in Request |-> IF r = q1 THEN <<b1, m>> ELSE <<b2, m>>]
Competing == [r \in Request |-> IF r = q1 THEN [s \in {s1, s2} |-> v1] ELSE [s \in {s1} |-> v2]]
=============================================================================
