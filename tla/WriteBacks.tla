------------------------------ MODULE WriteBacks ------------------------------
(***************************************************************************)
(* What the git write-backs promise, whichever way they are carried out:   *)
(* one by one under the repository's lock (Supersession) or coalesced      *)
(* (BatchWriteBack).  No lock, clone, attempt or replica appears here.     *)
(*                                                                         *)
(* A branch changes only by pushes.  A push carries the whole content of   *)
(* one or more deployments at work, nothing else, and never puts a         *)
(* deployment's tag over the tag of one that was accepted after the first  *)
(* had been stopped.                                                       *)
(***************************************************************************)
CONSTANTS
  Writer,  \* deployments that write to git
  Branch,
  Slot,    \* what a branch keeps a tag for
  Tag, NoTag,
  Where,   \* [Writer -> Branch]
  Writes   \* [Writer -> [a set of slots -> Tag]], their content

VARIABLES
  state,   \* [Writer -> {"new", "active", "over"}]
  tree,    \* [Branch -> [Slot -> Tag \cup {NoTag}]]
  stopped, \* writers superseded, or stopped for another reason
  barred   \* [Writer -> the writers of the same slots stopped before it was accepted]

vars == <<state, tree, stopped, barred>>

Init ==
  /\ state = [w \in Writer |-> "new"]
  /\ tree = [b \in Branch |-> [s \in Slot |-> NoTag]]
  /\ stopped = {}
  /\ barred = [w \in Writer |-> {}]

Rivals(w, v) ==
  Where[w] = Where[v] /\ DOMAIN Writes[w] \cap DOMAIN Writes[v] # {}

(* w wrote the tag t of the slot s.                                         *)
Asks(w, s, t) == s \in DOMAIN Writes[w] /\ Writes[w][s] = t

Accept(w) ==
  /\ state[w] = "new"
  /\ state' = [state EXCEPT ![w] = "active"]
  /\ barred' = [barred EXCEPT ![w] = {v \in stopped : Rivals(w, v)}]
  /\ UNCHANGED <<tree, stopped>>

Refuse(w) ==
  /\ state[w] = "new"
  /\ state' = [state EXCEPT ![w] = "over"]
  /\ UNCHANGED <<tree, stopped, barred>>

Stop(S) ==
  /\ \A w \in S : state[w] # "new"
  /\ stopped' = stopped \cup S
  /\ UNCHANGED <<state, tree, barred>>

(* Nothing makes a writer leave with its content in the branch: it may fail. *)
Leave(S) ==
  /\ \A w \in S : state[w] = "active"
  /\ state' = [w \in Writer |-> IF w \in S THEN "over" ELSE state[w]]
  /\ UNCHANGED <<tree, stopped, barred>>

(* w may put its tag in the place of the tag old.                           *)
MayReplace(w, s, old) ==
  \A n \in Writer : Where[n] = Where[w] /\ Asks(n, s, old) => w \notin barred[n]

(* One push to b carries the content of S; where two of S write one slot,   *)
(* either tag may be the one that stays.                                    *)
Write(b, S) ==
  /\ \A w \in S : state[w] = "active" /\ Where[w] = b
  /\ \E new \in [Slot -> Tag \cup {NoTag}] :
       /\ tree' = [tree EXCEPT ![b] = new]
       /\ \A s \in Slot : new[s] # tree[b][s] =>
            \E w \in S : Asks(w, s, new[s]) /\ MayReplace(w, s, tree[b][s])
       /\ \A w \in S : \A s \in DOMAIN Writes[w] : \E v \in S : Asks(v, s, new[s])
  /\ UNCHANGED <<state, stopped, barred>>

Next ==
  \/ \E w \in Writer : Accept(w) \/ Refuse(w)
  \/ \E S \in SUBSET Writer : Stop(S) \/ Leave(S)
  \/ \E b \in Branch, S \in SUBSET Writer : Write(b, S)

Spec == Init /\ [][Next]_vars
=============================================================================
