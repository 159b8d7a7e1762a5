------------------------------ MODULE MCRollout ------------------------------
(* A deployment of one image through a registry proxy, the states its        *)
(* application passes through, and what Argo CD may report with a failure.   *)
EXTENDS Rollout

CONSTANTS accept, resume1, resume2

new == ImageRef("shop", "v2", FALSE)
MCExpected == {new}

App(images, health, sync) ==
  [images |-> images, desired |-> {new}, health |-> health, sync |-> sync,
   fireAndForget |-> FALSE, skipValidation |-> FALSE]
Old == App({ImageRef("shop", "v1", FALSE)}, "Healthy", "Synced")
Foreign == [Old EXCEPT !.desired = {ImageRef("other", "v1", FALSE)}]
MCApps ==
  {Old, Foreign, [Foreign EXCEPT !.skipValidation = TRUE], [Old EXCEPT !.fireAndForget = TRUE],
   App({new}, "Progressing", "Synced"), App({new}, "Progressing", "OutOfSync"),
   App({new}, "Degraded", "Synced"), App({new}, "Degraded", "OutOfSync"),
   App({new}, "Suspended", "Synced"), App({[new EXCEPT !.proxied = TRUE]}, "Healthy", "Synced")}

(* The revisions of one or two sources, in the fields Argo CD fills: for    *)
(* two the list, with or without the first one's revision.                  *)
Encoded(s) ==
  IF Len(s) = 1 THEN {[revision |-> s[1], list |-> <<>>], [revision |-> "none", list |-> s]}
                ELSE {[revision |-> "none", list |-> s], [revision |-> s[1], list |-> s]}
Plain ==
  [phase |-> "Succeeded", errors |-> {}, results |-> {},
   resources |-> {[name |-> "deployment", health |-> "Degraded", status |-> "OutOfSync"]},
   nodes |-> {[name |-> "pod", health |-> "Degraded"]},
   applied |-> [revision |-> "none", list |-> <<>>], compared |-> [revision |-> "none", list |-> <<>>],
   appliedAt |-> <<>>, comparedAt |-> <<>>]
Drifts ==
  UNION {{[Plain EXCEPT !.appliedAt = s, !.comparedAt = t, !.applied = r, !.compared = c] :
            r \in Encoded(s), c \in Encoded(t)} :
           s \in {<<"a">>, <<"a", "b">>}, t \in {<<"a">>, <<"b">>, <<"a", "b">>, <<"a", "c">>}}
Failures ==
  {[Plain EXCEPT !.phase = "Failed", !.errors = {"ComparisonError"},
                 !.results = {[name |-> "migrate", status |-> status, hookPhase |-> phase]},
                 !.nodes = {[name |-> "pod", health |-> health]}] :
     <<status, phase, health>> \in
       {<<"Synced", "Failed", "Progressing">>, <<"SyncFailed", "none", "Missing">>,
        <<"none", "Error", "Healthy">>, <<"Synced", "Running", "Degraded">>}}
MCDetails == Drifts \cup Failures
=============================================================================
