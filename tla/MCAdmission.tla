----------------------------- MODULE MCAdmission -----------------------------
(* Days of two minutes, from Friday afternoon to Monday morning: one freeze  *)
(* runs over the end of the week, one lies within a day, and one ends on the *)
(* day it starts on, earlier.                                                *)
EXTENDS Admission

CONSTANTS q1, o1, o2, w1

MCSchedules ==
  {[startDay |-> 6, start |-> 0, endDay |-> 0, end |-> 1],
   [startDay |-> 1, start |-> 0, endDay |-> 1, end |-> 1],
   [startDay |-> 5, start |-> 1, endDay |-> 5, end |-> 0]}
=============================================================================
