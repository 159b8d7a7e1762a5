---------------------------- MODULE RolloutStatus ----------------------------
(***************************************************************************)
(* What an application's state in Argo CD says of a rollout                *)
(* (internal/models/argo.go, managed_resources.go and the decisions of     *)
(* deployment_monitor.go that read nothing else): the rollout status, the  *)
(* verdict of a poll and the report of a failure.                          *)
(*                                                                         *)
(* An application is split in what the polls read and the Details that     *)
(* only a report reads.  A report is the set of its lines, each a section, *)
(* the name it lists and what it says of it.                               *)
(***************************************************************************)
EXTENDS Integers, Sequences

CONSTANTS
  Expected,         \* the images of the task, as they are named without a proxy
  hasProxy,         \* whether a registry proxy is configured
  acceptSuspended,  \* ACCEPT_SUSPENDED_APP
  Apps,             \* the applications Argo CD may report
  Details           \* what it may report of their resources and operations

(* A container image, as its workload names it.                            *)
ImageRef(name, tag, proxied) == [name |-> name, tag |-> tag, proxied |-> proxied]

(* Expected images carry no proxy; Apps and Details are records of          *)
(*   images, desired      image references running, and declared            *)
(*   health, sync         "Healthy" ..., "Synced" ...                       *)
(*   fireAndForget, skipValidation   annotations                            *)
(* and                                                                      *)
(*   phase                the last sync operation's                         *)
(*   resources, nodes     top-level resources [name, health, status], and   *)
(*                        the nodes [name, health] of the resource tree     *)
(*   results              its resources [name, status, hookPhase]           *)
(*   errors               names of error conditions                         *)
(*   applied, compared    revisions [revision, list] as Argo CD reports     *)
(*                        them, of the revisions of the sources appliedAt   *)
(*                        and comparedAt                                    *)
(* An empty string is "none".                                               *)
ASSUME RolloutStatusAssumption ==
  /\ \A i \in Expected : ~i.proxied
  /\ {hasProxy, acceptSuspended} \subseteq BOOLEAN
  /\ \A app \in Apps : app.health # "none"

(* How Argo CD reports the revisions of an application's sources: those of  *)
(* several in the list, the first one's beside it or not, that of a single  *)
(* one in either field.                                                     *)
Encodes(r, s) ==
  /\ r.revision \in STRING /\ s \in Seq(STRING)
  /\ \/ r.list = s /\ (r.revision = "none" \/ Len(s) > 1)
     \/ Len(s) = 1 /\ r.revision = s[1] /\ s[1] # "none" /\ r.list = <<>>

ASSUME ReportAssumption ==
  \A d \in Details :
    /\ Encodes(d.applied, d.appliedAt)
    /\ Encodes(d.compared, d.comparedAt)
    /\ \A r \in d.results : r.status \in {"none", "Synced", "SyncFailed", "Pruned", "PruneSkipped"}

-----------------------------------------------------------------------------
(* The state of a rollout *)

ImagesContains(images, image) ==
  image \in images \/ (hasProxy /\ [image EXCEPT !.proxied = TRUE] \in images)

GetRolloutStatus(app) ==
  IF \E i \in Expected : ~ImagesContains(app.images, i) THEN "notAvailable"
  ELSE IF app.health = "Degraded" /\ app.sync # "OutOfSync" THEN "degraded"
  ELSE IF app.sync # "Synced" THEN "notSynced"
  ELSE IF app.health = "Healthy" \/ (app.health = "Suspended" /\ acceptSuspended) THEN "success"
  ELSE "notHealthy"

(* The status as the result of the rollout is decided by.                   *)
FinalStatus(app) == IF app.fireAndForget THEN "success" ELSE GetRolloutStatus(app)

shouldValidateDesiredImages(app) ==
  GetRolloutStatus(app) = "notAvailable" /\ app.sync = "Synced" /\ app.health = "Healthy"

(* validateDesiredImages: a repository the desired state does not declare.  *)
(* A desired state that declares no image proves nothing.                   *)
Untagged(images) == {[i EXCEPT !.tag = "none"] : i \in images}
Absent(app, desired) ==
  /\ ~app.skipValidation
  /\ desired # {}
  /\ \E i \in Untagged(Expected) : ~ImagesContains(Untagged(desired), i)

(* checkRolloutStatus: what a poll that fetched app returns, saved being    *)
(* the images of the monitor's first fetch.                                 *)
checkRolloutStatus(app, saved) ==
  CASE FinalStatus(app) = "success"                             -> "none"
    [] FinalStatus(app) = "degraded" /\ app.images # saved      -> "degraded"
    [] OTHER                                                    -> "force"

-----------------------------------------------------------------------------
(* The report of a failure *)

isTerminalFailurePhase(phase) == phase \in {"Failed", "Error"}
isProblemHealthStatus(health) == health \in {"Degraded", "Missing", "Unknown", "Suspended"}

Lines(section, S, What(_)) == {<<section, r.name, What(r)>> : r \in S}
Health(r) == r.health
Status(r) == r.status

(* A hook is synced and then runs: its phase counts unless its sync failed. *)
syncResultOutcome(r) ==
  IF r.status \notin {"none", "Synced"} THEN r.status
  ELSE IF isTerminalFailurePhase(r.hookPhase) \/ r.status = "none" THEN r.hookPhase
  ELSE r.status

ListUnhealthyResources(d) ==
  Lines("resources", {r \in d.resources : r.health # "none"}, Health)
listOutOfSyncResources(d) ==
  Lines("outOfSyncResources", {r \in d.resources : r.status \notin {"none", "Synced"}}, Status)
listFailedSyncResultResources(d) ==
  Lines("failedResources",
        {r \in d.results : isTerminalFailurePhase(r.hookPhase) \/ r.status = "SyncFailed"},
        syncResultOutcome)
Problems(S) == Lines("unhealthyResources", {r \in S : isProblemHealthStatus(r.health)}, Health)
ListProgressingNodes(tree) ==
  Lines("stillProgressing", {n \in tree.nodes : n.health = "Progressing"}, Health)

(* The resource tree, or its absence: the fetch is best effort.             *)
Tree(d) == [known |-> TRUE, nodes |-> d.nodes]
NoTree == [known |-> FALSE, nodes |-> {}]

problemResourceLines(d, tree, allowStatusFallback) ==
  IF tree.known THEN Problems(tree.nodes)
  ELSE IF allowStatusFallback THEN Problems(d.resources) ELSE {}

Operation(d) == {<<"syncOperation", "phase", d.phase>>}

buildFailureDiagnostics(app, d, tree, allowStatusFallback) ==
  UNION {IF isTerminalFailurePhase(d.phase) THEN Operation(d) ELSE {},
         listFailedSyncResultResources(d),
         problemResourceLines(d, tree, allowStatusFallback),
         IF tree.known /\ app.health = "Progressing" THEN ListProgressingNodes(tree) ELSE {}}

(* Faulty variant: a revision is preferred to a list of them.              *)
newRevisionsOfOne(r) == IF r.revision # "none" THEN <<r.revision>> ELSE r.list

(* What two reports of revisions are compared by; empty: none was reported. *)
newRevisions(r) == IF r.revision # "none" /\ Len(r.list) <= 1 THEN <<r.revision>> ELSE r.list

buildDriftExplanation(d) ==
  LET applied == newRevisions(d.applied)
      compared == newRevisions(d.compared)
  IN IF d.phase # "Succeeded" \/ applied = <<>> \/ compared = <<>> THEN {}
     ELSE {<<"drift", "revisions", IF applied = compared THEN "notConverged" ELSE "moved">>}

(* Faulty variant: the report of a drift leaves the resource tree out.     *)
buildSyncFailureReportFlat(d, tree) ==
  UNION {buildDriftExplanation(d), {<<"syncErrors", e, "condition">> : e \in d.errors},
         listOutOfSyncResources(d), listFailedSyncResultResources(d), Operation(d)}

buildSyncFailureReport(d, tree) ==
  UNION {buildDriftExplanation(d), {<<"syncErrors", e, "condition">> : e \in d.errors},
         Problems(tree.nodes), listOutOfSyncResources(d),
         listFailedSyncResultResources(d), Operation(d)}

(* Faulty variant: every report falls back to the top-level resources.     *)
GetRolloutMessageFallingBack(app, d, tree) ==
  CASE GetRolloutStatus(app) = "notAvailable" -> buildFailureDiagnostics(app, d, tree, TRUE)
    [] GetRolloutStatus(app) = "notSynced"    -> buildSyncFailureReport(d, tree)
    [] OTHER -> ListUnhealthyResources(d) \cup buildFailureDiagnostics(app, d, tree, TRUE)

GetRolloutMessage(app, d, tree) ==
  CASE GetRolloutStatus(app) = "notAvailable" -> buildFailureDiagnostics(app, d, tree, TRUE)
    [] GetRolloutStatus(app) = "notSynced"    -> buildSyncFailureReport(d, tree)
    [] OTHER -> ListUnhealthyResources(d) \cup buildFailureDiagnostics(app, d, tree, FALSE)
=============================================================================
