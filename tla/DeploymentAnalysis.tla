------------------------- MODULE DeploymentAnalysis -------------------------
(***************************************************************************)
(* One run of `kubectl why deployment NAME`: collect.Deployment, the rules *)
(* about what the Deployment asks for, what its controller says and what   *)
(* is available, the Pod rules over the Pods its selector matches, and     *)
(* DeploymentReport.                                                       *)
(***************************************************************************)
EXTENDS Backends

\* sets and pods stand for whether the ReplicaSets and the Pods were created.
Objects == {"deployment", "sets", "pods"}

\* A revision annotation: none, one that is no number, or a number.
Revisions == {"none", "garbled", "2", "10"}

\* The replicas asked for are -1 when the field is unset.  progressing is what the
\* condition of that type says.  A ReplicaSet or a Pod is owned by the Deployment
\* or merely has its labels.  selectable is whether the selector can be parsed,
\* which the API server normally sees to.
Scenario ==
  [replicas : {-1} \cup Nat, available : Nat, paused : BOOLEAN, replicaFailure : BOOLEAN,
   progressing : {"none", "deadline", "updated", "other"}, revision : Revisions,
   selectable : BOOLEAN,
   sets : Seq([owned : BOOLEAN, revision : Revisions]),
   pods : Seq([pod : Pod, events : SUBSET Event, age : Nat, owned : BOOLEAN]),
   absent : SUBSET Objects]

ASSUME DeploymentAssumption ==
  /\ \A s \in Scenarios : /\ s.replicas \in {-1} \cup Nat /\ s.available \in Nat
                          /\ s.paused \in BOOLEAN /\ s.replicaFailure \in BOOLEAN
                          /\ s.selectable \in BOOLEAN
                          /\ s.absent \subseteq Objects
                          /\ s.sets \in Seq([owned : BOOLEAN, revision : Revisions])
  /\ Volatile \subseteq Objects

VARIABLES
  sets,      \* the ReplicaSets, as positions in scenario.sets
  current    \* the one of the current revision, 0 for none

own == <<sets, current>>
vars == <<runVars, own>>

Init == InitRun(Objects) /\ sets = <<>> /\ current = 0

-----------------------------------------------------------------------------
(* The collectors *)

GetDeployment == Get("deployment") /\ UNCHANGED own

OwnEvents == eventsFor("sets") /\ UNCHANGED own

Revision(i) == scenario.sets[i].revision

revisionNumber(i) == CASE Revision(i) = "2" -> 2 [] Revision(i) = "10" -> 10 [] OTHER -> 0

\* Newest first; of equal revisions, as the API server lists them.
Newer(i, j) ==
  \/ revisionNumber(i) > revisionNumber(j)
  \/ revisionNumber(i) = revisionNumber(j) /\ i < j

ownedReplicaSets ==
  LET owned == {i \in DOMAIN scenario.sets : scenario.sets[i].owned}
  IN  [k \in 1..Cardinality(owned) |->
         CHOOSE i \in owned : Cardinality({j \in owned : Newer(j, i)}) = k - 1]

\* Mutant: the newest ReplicaSet is the current one.
currentReplicaSetNewest(owned) == IF owned = <<>> THEN 0 ELSE owned[1]

\* The first ReplicaSet with the Deployment's revision, or the newest.
currentReplicaSet(owned) ==
  LET named == {k \in DOMAIN owned : Revision(owned[k]) = scenario.revision}
  IN  IF owned = <<>> THEN 0
      ELSE IF scenario.revision # "none" /\ named # {} THEN owned[Min(named)] ELSE owned[1]

\* A selector that cannot be parsed: nothing is listed.
invalidSelector ==
  /\ pc = "sets" /\ ~scenario.selectable
  /\ degradations' = degradations \cup degrade("pods", "Error")
  /\ pc' = "rules"
  /\ UNCHANGED <<world, calls, ownEvents, listing, own, verdict>>

listReplicaSets ==
  /\ pc = "sets" /\ scenario.selectable
  /\ calls' = calls + 1
  /\ \E a \in Answers("ok") :
       LET owned == IF a = "ok" /\ "sets" \in present THEN ownedReplicaSets ELSE <<>>
       IN  /\ sets' = owned /\ current' = currentReplicaSet(owned)
           /\ degradations' = degradations \cup degrade("replicasets", a)
  /\ pc' = "pods"
  /\ UNCHANGED <<world, ownEvents, listing, verdict>>

\* The Pods that have the Deployment's labels, whoever owns them.
listPods ==
  /\ pc = "pods"
  /\ calls' = calls + 1
  /\ \E a \in Answers("ok") :
       /\ listed' = (a = "ok")
       /\ backends' = IF a = "ok" /\ "pods" \in present
                      THEN [i \in DOMAIN scenario.pods |-> i] ELSE <<>>
       /\ degradations' = degradations \cup degrade("pods", a)
       /\ pc' = IF a = "ok" THEN "backends" ELSE "rules"
  /\ UNCHANGED <<world, ownEvents, podEvents, own, verdict>>

ReadBackends ==
  /\ pc = "backends"
  /\ backendSnapshots(backends, "rules")
  /\ UNCHANGED <<ownEvents, listed, backends, own, verdict>>

-----------------------------------------------------------------------------
(* The Deployment rules *)

DesiredReplicas == IF scenario.replicas = -1 THEN 1 ELSE scenario.replicas

DeploymentFinding(id, severity) == OwnFinding(id, "deployment", severity, "certain")

evaluateIntent ==
  If(DesiredReplicas = 0, DeploymentFinding("DEPLOYMENT_SCALED_TO_ZERO", "info"))
  \o If(scenario.paused, DeploymentFinding("DEPLOYMENT_PAUSED", "warning"))

evaluateConditions ==
  If(scenario.replicaFailure, DeploymentFinding("DEPLOYMENT_REPLICA_FAILURE", "critical"))
  \o CASE scenario.progressing = "deadline" ->
            <<DeploymentFinding("DEPLOYMENT_PROGRESS_DEADLINE_EXCEEDED", "critical")>>
       [] scenario.progressing = "updated" ->
            <<DeploymentFinding("DEPLOYMENT_ROLLOUT_IN_PROGRESS", "info")>>
       [] OTHER -> <<>>

Gap == DesiredReplicas > scenario.available

\* What the finding about missing replicas speaks of: the Pods, of which it says
\* that none exist, or the Deployment.
AvailabilityAbout == IF backends = <<>> THEN "pods" ELSE "deployment"

AvailabilityFinding ==
  OwnFinding("DEPLOYMENT_UNAVAILABLE_REPLICAS", AvailabilityAbout,
             IF scenario.available > 0 THEN "warning" ELSE "critical", "certain")

\* Mutant: a gap that is wanted is a gap.
evaluateAvailabilityPaused == If(Gap, AvailabilityFinding)

\* Mutant: without Pods there is nothing to explain, as in the endpoints rule.
evaluateAvailabilityOfPods ==
  If(DesiredReplicas # 0 /\ ~scenario.paused /\ Gap /\ backends # <<>>, AvailabilityFinding)

evaluateAvailability ==
  If(DesiredReplicas # 0 /\ ~scenario.paused /\ Gap, AvailabilityFinding)

Rules == <<evaluateIntent, evaluateConditions, evaluateAvailability>>

-----------------------------------------------------------------------------
(* The report *)

AsFound == [s \in Severities |-> s]

WorkloadFindings == PodFindings(AsFound)

Symptoms == {"DEPLOYMENT_UNAVAILABLE_REPLICAS", "DEPLOYMENT_PROGRESS_DEADLINE_EXCEEDED"}

DeploymentReport == Report(Symptoms)

Evaluation ==
  /\ \/ RunRule(Rules) \/ RulesDone(Rules) \/ RunPodRule \/ NextPod({})
     \/ WorkloadFindings \/ DeploymentReport \/ Render
  /\ UNCHANGED own

Terminated == pc = "done" /\ UNCHANGED vars

Step ==
  \/ GetDeployment \/ OwnEvents \/ invalidSelector \/ listReplicaSets \/ listPods
  \/ ReadBackends \/ Evaluation

Next == Step \/ ((Expire \/ Drift) /\ UNCHANGED own) \/ Terminated

Spec == Init /\ [][Next]_vars

\* Every request returns, because the context and the client bound it.
FairSpec == Spec /\ WF_vars(Step)

-----------------------------------------------------------------------------
(* Properties *)

Evaluated == Reported /\ next > Len(Rules)

\* "Current is the ReplicaSet for the Deployment's current revision, which is the one
\* whose Pods should be running" (snapshot/deployment.go:24-25): with several
\* ReplicaSets, in whatever order they are listed, with or without readable
\* annotations, it has the Deployment's revision if any has, and else none is newer.
CurrentIsTheRevision ==
  sets # <<>> =>
    IF scenario.revision # "none" /\ \E i \in ToSet(sets) : Revision(i) = scenario.revision
      THEN current # 0 /\ Revision(current) = scenario.revision
      ELSE current # 0 /\ \A i \in ToSet(sets) : revisionNumber(i) <= revisionNumber(current)

\* However many Pods and ReplicaSets there are, a Deployment costs four requests and
\* one for each of maxBackendEvents Pods (collect/deployment.go, collect/service.go:18-22).
Overspent == calls > 4 + MaxBackendEvents

\* The events, the Pods and the events of the first unready ones were read.
Looked == ownEvents /\ listed /\ needEvents(backends) \subseteq podEvents

Gone == everAbsent \cup (IF Len(scenario.pods) = 0 THEN {"pods"} ELSE {})
Incomplete == Reported /\ (degradations # {} \/ ~Looked)

\* Whether the finding about missing replicas says that there are no Pods.
SaysNoPods ==
  \E k \in DOMAIN report :
    report[k].id = "DEPLOYMENT_UNAVAILABLE_REPLICAS" /\ report[k].about = "pods"

\* Whether the report discloses that the Pods could not be listed.
PodsUnread == \E d \in degradations : d.resource = "pods"
Missing == IF SaysNoPods /\ ~PodsUnread THEN {"pods"} ELSE {}

Contract == INSTANCE Analysis WITH
  Requested <- "deployment", stage <- Stage, gone <- Gone,
  incomplete <- Incomplete, overspent <- Overspent, missing <- Missing

\* A Deployment analysis is an Analysis: it is healthy only when its events, its
\* Pods and the events of the first unready ones were read (report.go:94-97); it
\* judges once, within its number of requests, and exits accordingly.  A report that
\* says that no Pods exist (rules/deployment/deployment.go:258), and does not disclose
\* in the same breath that they could not be listed, says so of a moment without Pods.
ContractKept == Contract!Spec

\* "When some replicas are available the finding is a warning: the workload is
\* degraded, not down" (docs/rules/DEPLOYMENT_UNAVAILABLE_REPLICAS.md:37): when the
\* rules ran, a Deployment that lacks replicas is an issue, and one that has none is
\* unhealthy, also when neither ReplicaSets nor Pods could be read.
GapReported ==
  Evaluated /\ DesiredReplicas # 0 /\ ~scenario.paused /\ Gap =>
    IF scenario.available = 0 THEN status = "unhealthy" ELSE IssueFound

\* "reporting a paused or scaled-to-zero Deployment as broken is the most obvious way
\* for a tool like this to lose a user's trust" (rules/deployment/deployment.go:57-59):
\* unless its controller complains, such a Deployment is unhealthy only for a Pod.
IntentIsNoFault ==
  /\ Reported /\ (DesiredReplicas = 0 \/ scenario.paused)
  /\ ~scenario.replicaFailure /\ scenario.progressing # "deadline"
  => \A k \in DOMAIN report : report[k].severity = "critical" => report[k].count > 0

=============================================================================
