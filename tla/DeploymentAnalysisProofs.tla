---------------------- MODULE DeploymentAnalysisProofs ----------------------
(***************************************************************************)
(* The Deployment analysis for any Deployment, any number of ReplicaSets   *)
(* and Pods and any troubles they have, whatever fails, vanishes or        *)
(* expires during the run.                                                 *)
(***************************************************************************)
EXTENDS DeploymentAnalysis, BackendsProofs

-----------------------------------------------------------------------------
(* The rules *)

\* What the rules find: the critical findings are complaints of the controller, or
\* replicas that are missing and wanted; and only those speak of Pods that do not exist.
LEMMA RulesAreOwn ==
  ASSUME ListedInv
  PROVE  /\ OwnRules(Rules) /\ Len(Rules) = 3 /\ DOMAIN Rules = {1, 2, 3}
         /\ \A r \in DOMAIN Rules : \A d \in ToSet(Rules[r]) :
              d.severity = "critical" =>
                \/ scenario.replicaFailure \/ scenario.progressing = "deadline"
                \/ DesiredReplicas # 0 /\ ~scenario.paused
         /\ \A r \in DOMAIN Rules : \A d \in ToSet(Rules[r]) :
              d.about = "pods" => backends = <<>> /\ d.severity \in {"critical", "warning"}
         /\ DesiredReplicas # 0 /\ ~scenario.paused /\ Gap =>
              \E d \in ToSet(Rules[3]) :
                d.severity = IF scenario.available > 0 THEN "warning" ELSE "critical"
<1>1. ASSUME NEW id, NEW about, NEW severity \in Severities
      PROVE  /\ Own(OwnFinding(id, about, severity, "certain"))
             /\ OwnFinding(id, about, severity, "certain").severity = severity
             /\ IsList(<<OwnFinding(id, about, severity, "certain")>>)
             /\ ToSet(<<OwnFinding(id, about, severity, "certain")>>)
                  = {OwnFinding(id, about, severity, "certain")}
  <2>1. "certain" \in Confidences
    BY DEF Confidences
  <2> QED BY <2>1, OneOwn, OwnSays
<1>2. \A severity \in {"critical", "warning", "info"} : severity \in Severities
  BY DEF Severities
<1>0. ASSUME NEW id, NEW severity PROVE DeploymentFinding(id, severity).about = "deployment"
  BY OwnSays DEF DeploymentFinding
<1>3. /\ IsList(evaluateIntent) /\ \A d \in ToSet(evaluateIntent) : Own(d)
      /\ \A d \in ToSet(evaluateIntent) : d.severity # "critical" /\ d.about = "deployment"
  <2> DEFINE zero == DeploymentFinding("DEPLOYMENT_SCALED_TO_ZERO", "info")
             paused == DeploymentFinding("DEPLOYMENT_PAUSED", "warning")
             a == If(DesiredReplicas = 0, zero)
             b == If(scenario.paused, paused)
  <2>1. /\ Own(zero) /\ Own(paused) /\ zero.severity = "info" /\ paused.severity = "warning"
    BY <1>1, <1>2 DEF DeploymentFinding
  <2>0. zero.about = "deployment" /\ paused.about = "deployment"
    BY <1>0
  <2>2. scenario.paused \in BOOLEAN
    BY DeploymentAssumption DEF ListedInv
  <2> HIDE DEF zero, paused
  <2>3. /\ IsList(a) /\ (\A e \in ToSet(a) : Own(e)) /\ ToSet(a) \subseteq {zero}
        /\ IsList(b) /\ (\A e \in ToSet(b) : Own(e)) /\ ToSet(b) \subseteq {paused}
    BY <2>1, <2>2, IfOwn
  <2>4. evaluateIntent = a \o b
    BY DEF evaluateIntent, zero, paused
  <2> HIDE DEF a, b
  <2>5. IsList(a \o b) /\ ToSet(a \o b) = ToSet(a) \cup ToSet(b)
    BY <2>3, ListConcat
  <2> QED BY <2>0, <2>1, <2>3, <2>4, <2>5
<1>4. /\ IsList(evaluateConditions) /\ \A d \in ToSet(evaluateConditions) : Own(d)
      /\ \A d \in ToSet(evaluateConditions) : d.severity = "critical" =>
           scenario.replicaFailure \/ scenario.progressing = "deadline"
      /\ \A d \in ToSet(evaluateConditions) : d.about = "deployment"
  <2> DEFINE failure == DeploymentFinding("DEPLOYMENT_REPLICA_FAILURE", "critical")
             deadline == DeploymentFinding("DEPLOYMENT_PROGRESS_DEADLINE_EXCEEDED", "critical")
             rollout == DeploymentFinding("DEPLOYMENT_ROLLOUT_IN_PROGRESS", "info")
             a == If(scenario.replicaFailure, failure)
             b == CASE scenario.progressing = "deadline" -> <<deadline>>
                    [] scenario.progressing = "updated" -> <<rollout>>
                    [] OTHER -> <<>>
  <2>1. /\ Own(failure) /\ Own(deadline) /\ Own(rollout) /\ rollout.severity = "info"
        /\ IsList(<<deadline>>) /\ ToSet(<<deadline>>) = {deadline}
        /\ IsList(<<rollout>>) /\ ToSet(<<rollout>>) = {rollout}
    BY <1>1, <1>2 DEF DeploymentFinding
  <2>0. \A d \in {failure, deadline, rollout} : d.about = "deployment"
    BY <1>0
  <2>2. scenario.replicaFailure \in BOOLEAN
    BY DeploymentAssumption DEF ListedInv
  <2>3. evaluateConditions = a \o b
    BY DEF evaluateConditions
  <2> HIDE DEF failure, deadline, rollout
  <2>4. /\ IsList(a) /\ (\A e \in ToSet(a) : Own(e))
        /\ ToSet(a) = IF scenario.replicaFailure THEN {failure} ELSE {}
    BY <2>1, <2>2, IfOwn
  <2>5. /\ IsList(b) /\ (\A e \in ToSet(b) : Own(e))
        /\ \A e \in ToSet(b) : /\ e = rollout \/ scenario.progressing = "deadline"
                              /\ e \in {deadline, rollout}
    <3>1. b \in {<<deadline>>, <<rollout>>, <<>>}
          /\ (b = <<deadline>> => scenario.progressing = "deadline" \/ <<deadline>> = <<rollout>>)
      OBVIOUS
    <3> HIDE DEF b
    <3>2. CASE b = <<>>
      BY <3>2, ListEmpty
    <3>3. CASE b = <<rollout>>
      BY <2>1, <3>3
    <3>4. CASE b = <<deadline>> /\ b # <<rollout>>
      BY <2>1, <3>1, <3>4
    <3> QED BY <3>1, <3>2, <3>3, <3>4
  <2> HIDE DEF a, b
  <2>6. IsList(a \o b) /\ ToSet(a \o b) = ToSet(a) \cup ToSet(b)
    BY <2>4, <2>5, ListConcat
  <2> QED BY <2>0, <2>1, <2>3, <2>4, <2>5, <2>6
<1>5. LET wanted == DesiredReplicas # 0 /\ ~scenario.paused
      IN  /\ IsList(evaluateAvailability) /\ \A d \in ToSet(evaluateAvailability) : Own(d) /\ wanted
          /\ wanted /\ Gap => \E d \in ToSet(evaluateAvailability) :
               d.severity = IF scenario.available > 0 THEN "warning" ELSE "critical"
          /\ \A d \in ToSet(evaluateAvailability) :
               d.about = "pods" => backends = <<>> /\ d.severity \in {"critical", "warning"}
  <2> DEFINE wanted == DesiredReplicas # 0 /\ ~scenario.paused
  <2>1. /\ Own(AvailabilityFinding)
        /\ AvailabilityFinding.severity
             = IF scenario.available > 0 THEN "warning" ELSE "critical"
    BY <1>1, <1>2 DEF AvailabilityFinding
  <2>0. AvailabilityFinding.about = AvailabilityAbout
    BY OwnSays DEF AvailabilityFinding
  <2>2. wanted \in BOOLEAN /\ (wanted /\ Gap) \in BOOLEAN
    BY DEF Gap
  <2>3. evaluateAvailability = If(wanted /\ Gap, AvailabilityFinding)
    BY DEF evaluateAvailability
  <2> HIDE DEF wanted
  <2>4. /\ IsList(evaluateAvailability) /\ \A d \in ToSet(evaluateAvailability) : Own(d)
        /\ ToSet(evaluateAvailability) = IF wanted /\ Gap THEN {AvailabilityFinding} ELSE {}
    BY <2>1, <2>2, <2>3, IfOwn
  <2>5. (\A d \in ToSet(evaluateAvailability) : Own(d) /\ wanted)
        /\ (wanted /\ Gap => \E d \in ToSet(evaluateAvailability) :
               d.severity = IF scenario.available > 0 THEN "warning" ELSE "critical")
    BY <2>1, <2>4
  <2>6. \A d \in ToSet(evaluateAvailability) :
          d.about = "pods" => backends = <<>> /\ d.severity \in {"critical", "warning"}
    BY <2>0, <2>1, <2>4 DEF AvailabilityAbout
  <2> QED BY <2>4, <2>5, <2>6 DEF wanted
<1>6. /\ IsList(Rules) /\ Len(Rules) = 3 /\ DOMAIN Rules = {1, 2, 3}
      /\ Rules[1] = evaluateIntent /\ Rules[2] = evaluateConditions
      /\ Rules[3] = evaluateAvailability
  BY ThreeRules DEF Rules
<1> QED BY <1>3, <1>4, <1>5, <1>6 DEF OwnRules

-----------------------------------------------------------------------------
(* The inductive invariant *)

\* The ReplicaSets kept are none or the Deployment's, and the current one is taken from
\* them.
SetsInv == sets \in {<<>>, ownedReplicaSets} /\ current = currentReplicaSet(sets)

\* Whatever has been found is what the rules make of the snapshot, and the report is
\* made of it: the snapshot does not change once the rules look at it.
DeploymentInv ==
  ListedInv /\ SetsInv /\ EvaluationInv(Rules, {}, AsFound, Symptoms) /\ OnceInv

\* The invariant in terms of the rules of the state it speaks of.
LEMMA EvaluationOf ==
  ASSUME NEW rules, EvaluationInv(rules, {}, AsFound, Symptoms)', Rules' = rules
  PROVE  EvaluationInv(Rules, {}, AsFound, Symptoms)'
BY DEF EvaluationInv, RulesInv, MergedInv, ReportInv, FoundBy

\* The run begins there.
LEMMA DeploymentBegins == Init => DeploymentInv
<1> SUFFICES ASSUME Init PROVE DeploymentInv
  OBVIOUS
<1>1. ListedInv
  BY PodsInitially DEF Init
<1>2. SetsInv
  BY DEF Init, SetsInv, currentReplicaSet
<1>3. IsList(Rules)
  BY <1>1, RulesAreOwn DEF OwnRules
<1>4. EvaluationInv(Rules, {}, AsFound, Symptoms)
  BY <1>3, EvaluationBegins DEF Init
<1>5. OnceInv
  BY OnceBegins DEF Init
<1> QED BY <1>1, <1>2, <1>4, <1>5 DEF DeploymentInv

\* The Deployment's ReplicaSets are those of the scenario, which does not change.
LEMMA SetsKept ==
  ASSUME UNCHANGED scenario
  PROVE  /\ ownedReplicaSets' = ownedReplicaSets
         /\ \A owned : currentReplicaSet(owned)' = currentReplicaSet(owned)
<1>1. \A i, j : (Revision(i)' = Revision(i)) /\ (Newer(i, j)' <=> Newer(i, j))
  BY DEF Revision, Newer, revisionNumber
<1>2. ownedReplicaSets' = ownedReplicaSets
  BY <1>1 DEF ownedReplicaSets, Newer, revisionNumber, Revision
<1>3. \A owned : currentReplicaSet(owned)' = currentReplicaSet(owned)
  BY DEF currentReplicaSet, Revision
<1> QED BY <1>2, <1>3

\* What a collecting step leaves for the rules.
LEMMA Collects ==
  ASSUME DeploymentInv, Collecting,
         UNCHANGED <<next, findings, podRules, podReport, report, status>>,
         ListedInv', SetsInv', pc' \notin {"report", "render"}
  PROVE  DeploymentInv'
<1>1. PICK rules : rules = Rules'
  OBVIOUS
<1>2. IsList(rules)
  BY <1>1, ThreeRules DEF Rules
<1>3. PICK old : EvaluationInv(old, {}, AsFound, Symptoms)
  BY DEF DeploymentInv
<1>4. EvaluationInv(rules, {}, AsFound, Symptoms)'
  BY <1>2, <1>3, CollectorStep
<1>5. OnceInv'
  BY <1>3, OnceCollects DEF EvaluationInv
<1> QED BY <1>1, <1>4, <1>5, EvaluationOf DEF DeploymentInv

\* Each collector is such a step.
LEMMA CollectorsKeep ==
  ASSUME DeploymentInv,
         GetDeployment \/ OwnEvents \/ invalidSelector \/ listReplicaSets \/ listPods
           \/ ReadBackends
  PROVE  DeploymentInv'
<1> USE DEF world, listing, verdict, podRules
<1>1. ListedInv /\ SetsInv
  BY DEF DeploymentInv
<1>2. ASSUME UNCHANGED <<scenario, own>> PROVE SetsInv'
  <2>1. UNCHANGED <<sets, current>> /\ ownedReplicaSets' = ownedReplicaSets
        /\ currentReplicaSet(sets)' = currentReplicaSet(sets)
    BY <1>2, SetsKept DEF own, currentReplicaSet, Revision
  <2> QED BY <1>1, <2>1 DEF SetsInv
<1>3. ASSUME UNCHANGED <<scenario, backends>> PROVE ListedInv'
  BY <1>1, <1>3 DEF ListedInv
<1>4. CASE GetDeployment
  BY <1>2, <1>3, <1>4, Collects DEF GetDeployment, Get, Collecting
<1>5. CASE OwnEvents
  BY <1>2, <1>3, <1>5, Collects DEF OwnEvents, eventsFor, Collecting
<1>9. CASE invalidSelector
  BY <1>2, <1>3, <1>9, Collects DEF invalidSelector, Collecting
<1>6. CASE listReplicaSets
  <2>1. /\ Collecting /\ UNCHANGED <<scenario, backends>> /\ pc' = "pods"
        /\ UNCHANGED <<next, findings, podRules, podReport, report, status>>
        /\ sets' \in {<<>>, ownedReplicaSets} /\ current' = currentReplicaSet(sets')
    BY <1>6 DEF listReplicaSets, Collecting
  <2>2. SetsInv'
    <3>1. sets' \in {<<>>, ownedReplicaSets'}
      BY <2>1, SetsKept
    <3>2. current' = currentReplicaSet(sets)'
      BY <2>1 DEF currentReplicaSet, Revision
    <3> QED BY <3>1, <3>2 DEF SetsInv
  <2> QED BY <1>3, <2>1, <2>2, Collects
<1>7. CASE listPods
  <2>1. /\ Collecting /\ UNCHANGED <<scenario, own>>
        /\ UNCHANGED <<next, findings, podRules, podReport, report, status>>
        /\ pc' \in {"backends", "rules"}
        /\ backends' \in {[i \in DOMAIN scenario.pods |-> i], <<>>}
    BY <1>7 DEF listPods, Collecting
  <2>2. backends' \in Seq(DOMAIN scenario.pods) /\ IsInjective(backends')
    <3>1. DOMAIN scenario.pods = 1..Len(scenario.pods) /\ Len(scenario.pods) \in Nat
      BY <1>1, BackendsAssumption DEF ListedInv
    <3>2. [i \in DOMAIN scenario.pods |-> i] \in Seq(DOMAIN scenario.pods)
      BY <3>1
    <3>3. <<>> \in Seq(DOMAIN scenario.pods)
      OBVIOUS
    <3>4. IsInjective([i \in DOMAIN scenario.pods |-> i]) /\ IsInjective(<<>>)
      BY DEF IsInjective
    <3> QED BY <2>1, <3>2, <3>3, <3>4
  <2>3. ListedInv'
    BY <1>1, <2>1, <2>2 DEF ListedInv
  <2> QED BY <1>2, <2>1, <2>3, Collects
<1>8. CASE ReadBackends
  BY <1>2, <1>3, <1>8, Collects DEF ReadBackends, backendSnapshots, Collecting
<1> QED BY <1>4, <1>5, <1>6, <1>7, <1>8, <1>9

\* The rules depend on the snapshot alone.
LEMMA SnapshotKept ==
  ASSUME UNCHANGED <<scenario, own, listed, backends>>
  PROVE  Rules' = Rules /\ (ListedInv => ListedInv') /\ (SetsInv => SetsInv')
<1>1. Rules' = Rules
  BY DEF Rules, evaluateIntent, evaluateConditions, evaluateAvailability, DesiredReplicas,
         Gap, AvailabilityFinding, AvailabilityAbout, If
<1>2. ListedInv => ListedInv'
  BY DEF ListedInv
<1>3. UNCHANGED <<sets, current>> /\ ownedReplicaSets' = ownedReplicaSets
      /\ currentReplicaSet(sets)' = currentReplicaSet(sets)
  BY SetsKept DEF own, currentReplicaSet, Revision
<1> QED BY <1>1, <1>2, <1>3 DEF SetsInv

\* The evaluation keeps the invariant, and so do the surroundings.
LEMMA VerdictKeeps ==
  ASSUME DeploymentInv, Evaluation \/ ((Expire \/ Drift) /\ UNCHANGED own) \/ UNCHANGED vars
  PROVE  DeploymentInv'
<1>1. PICK rules : rules = Rules
  OBVIOUS
<1>2. ListedInv /\ SetsInv /\ EvaluationInv(rules, {}, AsFound, Symptoms)
  BY <1>1 DEF DeploymentInv
<1>3. OwnRules(rules)
  BY <1>1, <1>2, RulesAreOwn
<1>4. EvaluationStep(rules, {}, AsFound, Symptoms) /\ UNCHANGED own
  BY <1>1 DEF Evaluation, EvaluationStep, WorkloadFindings, DeploymentReport, vars
<1>5. UNCHANGED <<scenario, own, listed, backends>>
  BY <1>4, EvaluationReads
<1>6. ListedInv' /\ SetsInv' /\ rules = Rules'
  BY <1>1, <1>2, <1>5, SnapshotKept
<1>7. EvaluationInv(rules, {}, AsFound, Symptoms)'
  BY <1>2, <1>3, <1>4, EvaluationKeeps
<1>8. OnceInv'
  BY <1>2, <1>4, OnceKeeps DEF EvaluationInv, DeploymentInv
<1> QED BY <1>6, <1>7, <1>8, EvaluationOf DEF DeploymentInv

\* Every step keeps it.
LEMMA DeploymentStep == DeploymentInv /\ [Next]_vars => DeploymentInv'
BY CollectorsKeep, VerdictKeeps DEF Next, Step, Terminated

-----------------------------------------------------------------------------
(* What the report says *)

\* Once the run has judged, the report is joined from the findings of the Deployment and
\* of its Pods; before that it is empty.
LEMMA DeploymentJoined ==
  ASSUME DeploymentInv
  PROVE  /\ OwnRules(Rules) /\ FoundBy(findings, next, Rules)
         /\ Reported => Joined(Symptoms, AsFound) /\ pod > Len(backends)
         /\ ~Reported => report = <<>>
<1>1. AsFound \in [Severities -> Severities]
  BY DEF AsFound
<1>2. OwnRules(Rules) /\ EvaluationInv(Rules, {}, AsFound, Symptoms)
  BY RulesAreOwn DEF DeploymentInv
<1>3. (~Reported => report = <<>>) /\ FoundBy(findings, next, Rules)
  BY <1>2 DEF EvaluationInv, ReportInv, RulesInv
<1> QED BY <1>1, <1>2, <1>3, EvaluationJoined

\* DeploymentReport names as the cause of missing replicas or of a missed deadline only a
\* finding that it also reports (analyze/deployment.go:36-46).
THEOREM CausesAreTold == Spec => []NoDanglingCause
<1>1. ASSUME DeploymentInv PROVE NoDanglingCause
  <2>1. CASE Reported
    BY <1>1, <2>1, DeploymentJoined, CausesTold
  <2>2. CASE ~Reported
    BY <1>1, <2>2, DeploymentJoined DEF NoDanglingCause
  <2> QED BY <2>1, <2>2
<1> QED BY <1>1, DeploymentBegins, DeploymentStep, PTL DEF Spec

\* Each finding about a Pod is counted in one finding of the report, with the Pod among
\* its subjects, of which there are as many as it counts (aggregate.go:8-13): no rule
\* says the same of one Pod twice, no two rules say the same, and the Pods listed are
\* different ones.
THEOREM PodFindingsKept == Spec => []NothingLost
<1>1. ASSUME DeploymentInv PROVE NothingLost
  <2>1. CASE Reported
    BY <1>1, <2>1, DeploymentJoined, AllCounted DEF DeploymentInv, OnceInv
  <2>2. CASE ~Reported
    BY <2>2 DEF NothingLost
  <2> QED BY <2>1, <2>2
<1> QED BY <1>1, DeploymentBegins, DeploymentStep, PTL DEF Spec

\* A Deployment that lacks replicas is an issue, and one that has none is unhealthy
\* (docs/rules/DEPLOYMENT_UNAVAILABLE_REPLICAS.md:37), whatever its Pods and its
\* controller say and whatever could not be read.
THEOREM GapIsTold == Spec => []GapReported
<1>1. ASSUME DeploymentInv PROVE GapReported
  <2> SUFFICES ASSUME Reported, next > Len(Rules), DesiredReplicas # 0, ~scenario.paused, Gap
               PROVE  IF scenario.available = 0 THEN status = "unhealthy" ELSE IssueFound
    BY DEF GapReported, Evaluated
  <2>1. /\ Joined(Symptoms, AsFound) /\ OwnRules(Rules) /\ FoundBy(findings, next, Rules)
        /\ ListedInv
    BY <1>1, DeploymentJoined DEF DeploymentInv
  <2>2. scenario.available \in Nat
    BY <2>1, DeploymentAssumption DEF ListedInv
  <2>3. PICK e \in ToSet(Rules[3]) :
          e.severity = IF scenario.available > 0 THEN "warning" ELSE "critical"
    BY <2>1, RulesAreOwn
  <2>4. e \in ToSet(findings)
    <3>1. 3 \in DOMAIN Rules
      BY <2>1, RulesAreOwn
    <3> QED BY <2>1, <2>3, <3>1, FoundFrom
  <2>5. PICK d \in ToSet(Explained(Symptoms)) : d.severity = e.severity
    BY <2>1, <2>4, ExplainedFacts DEF Joined, Tells
  <2>6. d \in ToSet(report)
    BY <2>1, <2>5, ReportFacts
  <2> QED BY <2>1, <2>2, <2>3, <2>5, <2>6, StatusFacts
<1> QED BY <1>1, DeploymentBegins, DeploymentStep, PTL DEF Spec

\* A Deployment that is paused or scaled to zero, and of which its controller does not
\* complain, has no critical finding but about a Pod (rules/deployment/deployment.go:57-59).
THEOREM IntentExcused == Spec => []IntentIsNoFault
<1>1. ASSUME DeploymentInv PROVE IntentIsNoFault
  <2> SUFFICES ASSUME Reported, DesiredReplicas = 0 \/ scenario.paused,
                      ~scenario.replicaFailure, scenario.progressing # "deadline",
                      NEW k \in DOMAIN report, report[k].severity = "critical"
               PROVE  report[k].count > 0
    BY DEF IntentIsNoFault
  <2>1. /\ Joined(Symptoms, AsFound) /\ OwnRules(Rules) /\ FoundBy(findings, next, Rules)
        /\ ListedInv
    BY <1>1, DeploymentJoined DEF DeploymentInv
  <2> DEFINE d == report[k]
  <2>2. d \in ToSet(Explained(Symptoms)) \/ d \in ToSet(podReport)
    BY <2>1, ReportFacts DEF ToSet
  <2>3. CASE d \in ToSet(podReport)
    BY <2>1, <2>3, ReportFacts DEF MergedRow
  <2>4. CASE d \in ToSet(Explained(Symptoms))
    <3>1. PICK e \in ToSet(findings) : d.severity = e.severity
      BY <2>1, <2>4, ExplainedFacts DEF Joined, Tells
    <3>2. PICK r \in DOMAIN Rules : e \in ToSet(Rules[r])
      BY <2>1, FoundFrom
    <3> QED BY <2>1, <3>1, <3>2, RulesAreOwn
  <2> QED BY <2>2, <2>3, <2>4
<1> QED BY <1>1, DeploymentBegins, DeploymentStep, PTL DEF Spec

-----------------------------------------------------------------------------
(* The current ReplicaSet *)

\* The ReplicaSets of the Deployment, newest first.
LEMMA OwnedInOrder ==
  ASSUME scenario \in Scenarios
  PROVE  LET owned == ownedReplicaSets
         IN  /\ owned \in Seq(DOMAIN scenario.sets) /\ DOMAIN scenario.sets \subseteq Nat \ {0}
             /\ \A k, m \in DOMAIN owned :
                  k < m => revisionNumber(owned[m]) <= revisionNumber(owned[k])
             /\ \A i \in DOMAIN scenario.sets : revisionNumber(i) \in Nat
<1> DEFINE S == {i \in DOMAIN scenario.sets : scenario.sets[i].owned}
           R == {p \in S \X S : Newer(p[1], p[2])}
<1>1. scenario.sets \in Seq([owned : BOOLEAN, revision : Revisions])
  BY DeploymentAssumption
<1>2. /\ DOMAIN scenario.sets = 1..Len(scenario.sets) /\ Len(scenario.sets) \in Nat
      /\ DOMAIN scenario.sets \subseteq Nat \ {0}
  BY <1>1
<1>3. \A i : revisionNumber(i) \in Nat
  BY DEF revisionNumber
<1>4. IsFiniteSet(S) /\ Cardinality(S) \in Nat
  <2>1. ASSUME NEW m \in Nat PROVE IsFiniteSet(1..m)
    BY FS_Interval
  <2>2. S \in SUBSET (DOMAIN scenario.sets)
    OBVIOUS
  <2> HIDE DEF S
  <2> QED BY <1>2, <2>1, <2>2, FS_Subset, FS_CardinalityType
<1>5. \A i \in S : i \in Nat /\ i \in DOMAIN scenario.sets
  BY <1>2
<1>6. \A i, j \in S : <<i, j>> \in R <=> \/ revisionNumber(i) > revisionNumber(j)
                                         \/ revisionNumber(i) = revisionNumber(j) /\ i < j
  BY DEF Newer
<1> HIDE DEF S, R
<1>7. OrderOn(S, R)
  BY <1>3, <1>5, <1>6 DEF OrderOn
<1>8. ownedReplicaSets = [k \in 1..Cardinality(S) |-> Nth(S, R, k)]
  <2> DEFINE at(k) == CHOOSE i \in S : Cardinality({j \in S : Newer(j, i)}) = k - 1
  <2>1. ownedReplicaSets = [k \in 1..Cardinality(S) |-> at(k)]
    BY DEF ownedReplicaSets, S
  <2>2. \A i \in S : {j \in S : Newer(j, i)} = Before(S, R, i)
    BY DEF Before, R
  <2>3. ASSUME NEW k PROVE at(k) = Nth(S, R, k)
    BY <2>2 DEF Nth
  <2> HIDE DEF at
  <2> QED BY <2>1, <2>3
<1>9. /\ \A k \in 1..Cardinality(S) : Nth(S, R, k) \in S
      /\ \A k, m \in 1..Cardinality(S) : k < m => <<Nth(S, R, k), Nth(S, R, m)>> \in R
  BY <1>4, <1>7, Numbering
<1>10. ownedReplicaSets \in Seq(DOMAIN scenario.sets)
  BY <1>4, <1>5, <1>8, <1>9
<1>11. ASSUME NEW k \in DOMAIN ownedReplicaSets, NEW m \in DOMAIN ownedReplicaSets, k < m
       PROVE  revisionNumber(ownedReplicaSets[m]) <= revisionNumber(ownedReplicaSets[k])
  <2> DEFINE a == Nth(S, R, k)
             b == Nth(S, R, m)
  <2>1. k \in 1..Cardinality(S) /\ m \in 1..Cardinality(S)
        /\ ownedReplicaSets[k] = a /\ ownedReplicaSets[m] = b
    BY <1>8
  <2>2. a \in S /\ b \in S /\ <<a, b>> \in R
    BY <1>9, <1>11, <2>1
  <2> HIDE DEF a, b
  <2> QED BY <1>3, <1>6, <2>1, <2>2
<1> QED BY <1>2, <1>3, <1>10, <1>11

\* Of several ReplicaSets, in whatever order the API server lists them, the current one
\* has the Deployment's revision if any has, and else none is newer
\* (snapshot/deployment.go:24-25).
THEOREM CurrentFound == Spec => []CurrentIsTheRevision
<1>1. ASSUME DeploymentInv PROVE CurrentIsTheRevision
  <2> SUFFICES ASSUME sets # <<>> PROVE
        IF scenario.revision # "none" /\ \E i \in ToSet(sets) : Revision(i) = scenario.revision
          THEN current # 0 /\ Revision(current) = scenario.revision
          ELSE current # 0 /\ \A i \in ToSet(sets) : revisionNumber(i) <= revisionNumber(current)
    BY DEF CurrentIsTheRevision
  <2> DEFINE named == {k \in DOMAIN sets : Revision(sets[k]) = scenario.revision}
  <2>1. scenario \in Scenarios /\ sets = ownedReplicaSets /\ current = currentReplicaSet(sets)
    BY <1>1 DEF DeploymentInv, ListedInv, SetsInv
  <2>2. /\ sets \in Seq(DOMAIN scenario.sets) /\ DOMAIN scenario.sets \subseteq Nat \ {0}
        /\ \A k, m \in DOMAIN sets :
             k < m => revisionNumber(sets[m]) <= revisionNumber(sets[k])
        /\ \A k \in DOMAIN sets : revisionNumber(sets[k]) \in Nat
    BY <2>1, OwnedInOrder
  <2>3. 1 \in DOMAIN sets /\ \A k \in DOMAIN sets : sets[k] # 0 /\ k \in Nat /\ k >= 1
    BY <2>2
  <2>4. (\E i \in ToSet(sets) : Revision(i) = scenario.revision) <=> named # {}
    BY DEF ToSet
  <2>5. current = IF scenario.revision # "none" /\ named # {} THEN sets[Min(named)] ELSE sets[1]
    BY <2>1 DEF currentReplicaSet
  <2>6. CASE scenario.revision # "none" /\ named # {}
    <3>1. /\ named \in SUBSET Nat
          /\ \A k \in named : sets[k] # 0 /\ Revision(sets[k]) = scenario.revision
      BY <2>3
    <3> HIDE DEF named
    <3>2. \E k \in named : \A m \in named : k <= m
      BY <2>6, <3>1, LeastNumber
    <3>3. Min(named) \in named
      BY <3>2 DEF Min
    <3> QED BY <2>4, <2>5, <2>6, <3>1, <3>3
  <2>7. CASE ~(scenario.revision # "none" /\ named # {})
    <3>1. current = sets[1] /\ current # 0
      BY <2>3, <2>5, <2>7
    <3>2. ASSUME NEW k \in DOMAIN sets PROVE revisionNumber(sets[k]) <= revisionNumber(sets[1])
      BY <2>2, <2>3
    <3>3. \A i \in ToSet(sets) : revisionNumber(i) <= revisionNumber(current)
      BY <3>1, <3>2 DEF ToSet
    <3> QED BY <2>4, <2>7, <3>1, <3>3
  <2> QED BY <2>6, <2>7
<1> QED BY <1>1, DeploymentBegins, DeploymentStep, PTL DEF Spec

-----------------------------------------------------------------------------
(* The contract *)

\* What is known of the Pods was true when they were listed.
SnapshotInv ==
  /\ Objects \ present \subseteq everAbsent
  /\ pc \in {"get", "events", "sets", "pods"} => backends = <<>>
  /\ pc \in {"get", "events", "sets", "pods", "backends"} => podEvents = {}
  /\ listed /\ backends = <<>> => "pods" \in Gone

\* What could not be read, of what has been asked for, is booked.
BookedInv ==
  (pc # "done" \/ Reported) /\ degradations = {} =>
    /\ pc \in {"get", "events"} \/ ownEvents
    /\ pc \in {"get", "events", "sets", "pods"} \/ listed
    /\ \/ pc \in {"get", "events", "sets", "pods", "backends"}
       \/ needEvents(backends) \subseteq podEvents

\* Pods that have not been listed by then could not be, which is disclosed.
DisclosedInv ==
  pc # "done" \/ Reported =>
    pc \in {"get", "events", "sets", "pods"} \/ listed \/ PodsUnread

\* What has been spent at each step.
CostInv ==
  /\ calls \in Nat
  /\ pc = "get" => calls = 0
  /\ pc = "events" => calls = 1
  /\ pc = "sets" => calls = 2
  /\ pc = "pods" => calls = 3
  /\ pc = "backends" => calls = 4
  /\ ~Overspent

CollectedInv == SnapshotInv /\ BookedInv /\ DisclosedInv /\ CostInv

\* What was missing stays so, as far as the past is concerned.
LEMMA GoneFacts ==
  ASSUME scenario' = scenario, everAbsent \subseteq everAbsent'
  PROVE  Gone \subseteq Gone' /\ (everAbsent = everAbsent' => Gone = Gone')
BY DEF Gone

\* Nothing is known, booked or spent at the start.
LEMMA CollectedBegins == Init => CollectedInv
BY BackendsAssumption
DEF Init, InitRun, CollectedInv, SnapshotInv, BookedInv, DisclosedInv, CostInv, Overspent

\* A failure to list the Pods, or to parse the selector, is disclosed as such.
LEMMA CollectorsDisclose ==
  ASSUME DeploymentInv, DisclosedInv,
         GetDeployment \/ OwnEvents \/ invalidSelector \/ listReplicaSets \/ listPods
           \/ ReadBackends
  PROVE  DisclosedInv'
<1> USE DEF world, listing, verdict, podRules
<1>1. \A a : a # "ok" => \E d \in degrade("pods", a) : d.resource = "pods"
  BY DEF degrade
<1>2. degradations \subseteq degradations' => (PodsUnread => PodsUnread')
  BY DEF PodsUnread
<1>3. CASE GetDeployment
  <2>1. pc' \in {"events", "done"} /\ UNCHANGED status /\ pc = "get"
    BY <1>3 DEF GetDeployment, Get
  <2>2. ~Reported'
    BY <2>1 DEF DeploymentInv, EvaluationInv, ReportInv, Reported
  <2> QED BY <2>1, <2>2 DEF DisclosedInv
<1>4. CASE OwnEvents
  BY <1>4 DEF OwnEvents, eventsFor, DisclosedInv
<1>5. CASE invalidSelector
  <2>1. degradations' = degradations \cup degrade("pods", "Error")
    BY <1>5 DEF invalidSelector
  <2> QED BY <1>1, <2>1 DEF DisclosedInv, PodsUnread
<1>6. CASE listReplicaSets
  BY <1>6 DEF listReplicaSets, DisclosedInv
<1>7. CASE listPods
  <2>1. PICK a : listed' = (a = "ok") /\ degradations' = degradations \cup degrade("pods", a)
    BY <1>7 DEF listPods
  <2> QED BY <1>1, <2>1 DEF DisclosedInv, PodsUnread
<1>8. CASE ReadBackends
  <2>1. pc = "backends" /\ UNCHANGED listed /\ degradations \subseteq degradations'
    BY <1>8 DEF ReadBackends, backendSnapshots
  <2> QED BY <1>2, <2>1 DEF DisclosedInv
<1> QED BY <1>3, <1>4, <1>5, <1>6, <1>7, <1>8

\* Every read adds only what is so at that moment, books its failure and is paid for.
LEMMA CollectorsBook ==
  ASSUME DeploymentInv, CollectedInv,
         GetDeployment \/ OwnEvents \/ invalidSelector \/ listReplicaSets \/ listPods
           \/ ReadBackends
  PROVE  CollectedInv'
<1> USE DEF world, listing, verdict, podRules
<1>1. SnapshotInv /\ BookedInv /\ CostInv /\ ListedInv /\ MaxBackendEvents \in Nat
  BY BackendsAssumption DEF CollectedInv, DeploymentInv
<1>0. DisclosedInv'
  BY CollectorsDisclose DEF CollectedInv
<1>2. UNCHANGED <<scenario, present, everAbsent>>
  BY DEF GetDeployment, Get, OwnEvents, eventsFor, invalidSelector, listReplicaSets, listPods,
         ReadBackends, backendSnapshots
<1>3. Gone' = Gone
  BY <1>2, GoneFacts
<1>4. ASSUME UNCHANGED backends PROVE needEvents(backends)' = needEvents(backends)
  BY <1>2, <1>4 DEF needEvents, UnreadyIn
<1>5. CASE GetDeployment
  <2>1. /\ pc = "get" /\ pc' \in {"events", "done"} /\ calls' = calls + 1
        /\ UNCHANGED <<ownEvents, listed, backends, podEvents, degradations, status>>
    BY <1>5 DEF GetDeployment, Get
  <2>2. ~Reported'
    BY <2>1 DEF DeploymentInv, EvaluationInv, ReportInv, Reported
  <2>3. CostInv'
    BY <1>1, <2>1 DEF CostInv, Overspent
  <2> QED BY <1>0, <1>1, <1>2, <1>3, <2>1, <2>2, <2>3 DEF CollectedInv, SnapshotInv, BookedInv
<1>6. CASE OwnEvents
  <2>1. /\ pc = "events" /\ pc' = "sets" /\ calls' = calls + 1
        /\ UNCHANGED <<listed, backends, podEvents, status>>
    BY <1>6 DEF OwnEvents, eventsFor
  <2>2. degradations' = {} => ownEvents'
    BY <1>6, Booked DEF OwnEvents, eventsFor
  <2>3. CostInv'
    BY <1>1, <2>1 DEF CostInv, Overspent
  <2> QED BY <1>0, <1>1, <1>2, <1>3, <2>1, <2>2, <2>3 DEF CollectedInv, SnapshotInv, BookedInv
<1>10. CASE invalidSelector
  <2>1. /\ pc = "sets" /\ pc' = "rules"
        /\ UNCHANGED <<calls, ownEvents, listed, backends, podEvents, status>>
        /\ degradations' = degradations \cup degrade("pods", "Error")
    BY <1>10 DEF invalidSelector
  <2>2. degradations' # {}
    BY <2>1, Booked
  <2>3. CostInv'
    BY <1>1, <2>1 DEF CostInv, Overspent
  <2> QED BY <1>0, <1>1, <1>2, <1>3, <2>1, <2>2, <2>3 DEF CollectedInv, SnapshotInv, BookedInv
<1>7. CASE listReplicaSets
  <2>1. /\ pc = "sets" /\ pc' = "pods" /\ calls' = calls + 1
        /\ UNCHANGED <<ownEvents, listed, backends, podEvents, status>>
        /\ degradations \subseteq degradations'
    BY <1>7 DEF listReplicaSets
  <2>2. CostInv'
    BY <1>1, <2>1 DEF CostInv, Overspent
  <2> QED BY <1>0, <1>1, <1>2, <1>3, <2>1, <2>2 DEF CollectedInv, SnapshotInv, BookedInv
<1>8. CASE listPods
  <2>1. PICK a \in Answers("ok") :
          /\ listed' = (a = "ok") /\ pc' = (IF a = "ok" THEN "backends" ELSE "rules")
          /\ backends' = IF a = "ok" /\ "pods" \in present
                         THEN [i \in DOMAIN scenario.pods |-> i] ELSE <<>>
          /\ degradations' = degradations \cup degrade("pods", a)
    BY <1>8 DEF listPods
  <2>2. pc = "pods" /\ calls' = calls + 1 /\ UNCHANGED <<ownEvents, podEvents, status>>
    BY <1>8 DEF listPods
  <2>3. ASSUME listed', backends' = <<>> PROVE "pods" \in Gone'
    <3>1. CASE "pods" \in present
      <4>1. [i \in DOMAIN scenario.pods |-> i] = <<>>
        BY <2>1, <2>3, <3>1
      <4>2. DOMAIN scenario.pods = {}
        BY <4>1
      <4>3. Len(scenario.pods) \in Nat /\ DOMAIN scenario.pods = 1..Len(scenario.pods)
        BY <1>1, BackendsAssumption DEF ListedInv
      <4>4. ASSUME NEW n \in Nat, 1..n = {} PROVE n = 0
        BY <4>4
      <4>5. Len(scenario.pods) = 0
        BY <4>2, <4>3, <4>4
      <4> QED BY <1>2, <4>5 DEF Gone
    <3>2. CASE "pods" \notin present
      BY <1>1, <1>2, <3>2 DEF SnapshotInv, Objects, Gone
    <3> QED BY <3>1, <3>2
  <2>4. degradations' = {} => degradations = {} /\ listed' /\ pc' = "backends"
    BY <2>1, Booked
  <2>5. CostInv'
    BY <1>1, <2>1, <2>2 DEF CostInv, Overspent
  <2>6. SnapshotInv'
    BY <1>1, <1>2, <2>1, <2>2, <2>3 DEF SnapshotInv
  <2> QED BY <1>0, <1>1, <2>2, <2>4, <2>5, <2>6 DEF CollectedInv, BookedInv
<1>9. CASE ReadBackends
  <2>1. /\ pc = "backends" /\ pc' = "rules"
        /\ calls' = calls + Cardinality(needEvents(backends))
        /\ UNCHANGED <<ownEvents, listed, backends, status>>
    BY <1>9 DEF ReadBackends, backendSnapshots
  <2>2. degradations' = {} => degradations = {} /\ needEvents(backends)' \subseteq podEvents'
    BY <1>1, <1>4, <1>9, <2>1, BackendsRead DEF ReadBackends, SnapshotInv
  <2>3. CostInv'
    <3>1. IsList(backends)
      BY <1>1, ListOf DEF ListedInv
    <3>2. /\ Cardinality(needEvents(backends)) \in Nat
          /\ Cardinality(needEvents(backends)) <= MaxBackendEvents
      BY <3>1, FewEvents
    <3> QED BY <1>1, <2>1, <3>2 DEF CostInv, Overspent
  <2> QED BY <1>0, <1>1, <1>2, <1>3, <2>1, <2>2, <2>3 DEF CollectedInv, SnapshotInv, BookedInv
<1> QED BY <1>5, <1>6, <1>7, <1>8, <1>9, <1>10

\* Every step keeps what the reads have left.
LEMMA CollectedStep == DeploymentInv /\ CollectedInv /\ [Next]_vars => CollectedInv'
<1> SUFFICES ASSUME DeploymentInv, CollectedInv, [Next]_vars PROVE CollectedInv'
  OBVIOUS
<1>1. CASE GetDeployment \/ OwnEvents \/ invalidSelector \/ listReplicaSets \/ listPods
           \/ ReadBackends
  BY <1>1, CollectorsBook
<1>2. CASE Evaluation \/ ((Expire \/ Drift) /\ UNCHANGED own) \/ UNCHANGED vars
  <2>1. PICK rules, weighed : rules = Rules /\ weighed = AsFound
    OBVIOUS
  <2>2. EvaluationStep(rules, {}, weighed, Symptoms)
    BY <1>2, <2>1
    DEF Evaluation, EvaluationStep, WorkloadFindings, DeploymentReport, vars
  <2>3. /\ UNCHANGED <<scenario, calls, ownEvents, listed, backends, podEvents, degradations>>
        /\ \/ pc' = pc
           \/ /\ pc \in {"rules", "aggregate", "report", "render"}
              /\ pc' \in {"aggregate", "report", "render", "done"}
        /\ everAbsent \subseteq everAbsent'
        /\ pc = "report" \/ UNCHANGED <<report, status>>
        /\ Objects \ present \subseteq everAbsent => Objects \ present' \subseteq everAbsent'
    BY <2>2, EvaluationLeaves
  <2>4. Gone \subseteq Gone' /\ needEvents(backends)' = needEvents(backends)
    BY <2>3, GoneFacts DEF needEvents, UnreadyIn
  <2>5. SnapshotInv'
    BY <2>3, <2>4 DEF CollectedInv, SnapshotInv
  <2>6. BookedInv'
    <3>1. pc' # "done" \/ Reported' => pc # "done" \/ Reported
      BY <2>3 DEF Reported
    <3> QED BY <2>3, <2>4, <3>1 DEF CollectedInv, BookedInv
  <2>7. CostInv'
    BY <2>3 DEF CollectedInv, CostInv, Overspent
  <2>8. DisclosedInv'
    <3>1. pc' # "done" \/ Reported' => pc # "done" \/ Reported
      BY <2>3 DEF Reported
    <3> QED BY <2>3, <3>1 DEF CollectedInv, DisclosedInv, PodsUnread
  <2> QED BY <2>5, <2>6, <2>7, <2>8 DEF CollectedInv
<1> QED BY <1>1, <1>2 DEF Next, Step, Terminated

\* The verdict of a report that stands.
JudgedInv ==
  Reported =>
    /\ status \in {"healthy", "degraded", "unhealthy", "unknown"}
    /\ status = "healthy" => ~Incomplete
    /\ status = "unknown" => Incomplete
    /\ Missing \subseteq Gone
    /\ Missing # {} => status \in {"degraded", "unhealthy"}

\* It follows from the reads and the rules.
LEMMA Judged == DeploymentInv /\ CollectedInv => JudgedInv
<1> SUFFICES ASSUME DeploymentInv, CollectedInv, Reported PROVE JudgedInv
  BY DEF JudgedInv
<1>1. Joined(Symptoms, AsFound) /\ pc \in {"render", "done"}
  BY DeploymentJoined DEF DeploymentInv, EvaluationInv, ReportInv
<1>2. degradations = {} => ~Incomplete
  BY <1>1 DEF CollectedInv, BookedInv, Incomplete, Looked
<1>3. degradations # {} => Incomplete
  BY DEF Incomplete
<1>4. ASSUME SaysNoPods, ~PodsUnread PROVE "pods" \in Gone /\ IssueFound
  <2>0. listed
    BY <1>1, <1>4 DEF CollectedInv, DisclosedInv
  <2>1. PICK d \in ToSet(report) : d.id = "DEPLOYMENT_UNAVAILABLE_REPLICAS" /\ d.about = "pods"
    BY <1>4 DEF SaysNoPods, ToSet
  <2>2. d \notin ToSet(podReport)
    BY <1>1, <2>1, ReportFacts DEF MergedRow, PodIDs
  <2>3. PICK e \in ToSet(findings) : d.about = e.about /\ d.severity = e.severity
    BY <1>1, <2>1, <2>2, ReportFacts, ExplainedFacts DEF Joined, Tells
  <2>4. PICK r \in {1, 2, 3} : e \in ToSet(Rules[r])
    BY <2>3, RulesAreOwn, FoundFrom DEF DeploymentInv, EvaluationInv, RulesInv
  <2>5. backends = <<>> /\ d.severity \in {"critical", "warning"}
    BY <2>1, <2>3, <2>4, RulesAreOwn DEF DeploymentInv
  <2> QED BY <1>1, <2>0, <2>1, <2>5, StatusFacts DEF CollectedInv, SnapshotInv
<1>5. Missing \subseteq Gone /\ (Missing # {} => IssueFound)
  BY <1>4 DEF Missing
<1> QED BY <1>1, <1>2, <1>3, <1>5, StatusFacts DEF JudgedInv, IssueFound, Statuses

\* Every step of the analysis is a step of Analysis, or none.
LEMMA ContractStep ==
  ASSUME DeploymentInv, DeploymentInv', CollectedInv, CollectedInv', JudgedInv', [Next]_vars
  PROVE  [Contract!Next]_Contract!vars
<1> USE DEF world, listing, verdict, podRules, Contract!vars
<1>1. Overspent = FALSE /\ Overspent' = FALSE
  BY DEF CollectedInv, CostInv, Overspent
<1>2. /\ Reported => pc \in {"render", "done"}
      /\ Reported' => pc' \in {"render", "done"}
      /\ ~Reported => report = <<>> /\ pc # "render"
      /\ ~Reported' => report' = <<>> /\ pc' # "render"
  BY DEF DeploymentInv, EvaluationInv, ReportInv
<1>3. (report = <<>> => Missing = {}) /\ (report' = <<>> => Missing' = {})
  BY DEF Missing, SaysNoPods
\* Before the report stands it says nothing.
<1>4. ASSUME pc \notin {"render", "done"}, pc' \notin {"render", "done"},
             UNCHANGED <<scenario, everAbsent, status, exit>>
      PROVE  UNCHANGED Contract!vars
  <2>1. ~Reported /\ ~Reported'
    BY <1>2, <1>4
  <2>2. /\ Stage = "open" /\ Stage' = "open" /\ Incomplete = FALSE /\ Incomplete' = FALSE
        /\ Missing = {} /\ Missing' = {}
    BY <1>2, <1>3, <1>4, <2>1 DEF Stage, Incomplete
  <2> QED BY <1>1, <1>4, <2>2, GoneFacts
\* Once it stands it does not change, whatever happens to the cluster.
<1>5. ASSUME UNCHANGED <<scenario, ownEvents, listing, degradations, report, status>>
      PROVE  Incomplete' = Incomplete /\ Missing' = Missing
  <2>1. needEvents(backends)' = needEvents(backends)
    BY <1>5 DEF needEvents, UnreadyIn
  <2>2. Looked' = Looked
    BY <1>5, <2>1 DEF Looked
  <2>3. Missing' = Missing
    BY <1>5 DEF Missing, SaysNoPods, PodsUnread
  <2> QED BY <1>5, <2>2, <2>3 DEF Incomplete, Reported
<1>6. CASE GetDeployment
  <2>1. PICK a \in Lookup("deployment") :
          IF a = "ok" THEN pc' = "events" /\ UNCHANGED exit
                      ELSE pc' = "done" /\ exit' = reportError(a)
    BY <1>6 DEF GetDeployment, Get
  <2>2. pc = "get" /\ UNCHANGED <<scenario, present, everAbsent, status, report>>
    BY <1>6 DEF GetDeployment, Get
  <2>3. CASE a = "ok"
    BY <1>4, <2>1, <2>2, <2>3
  <2>4. CASE a # "ok"
    <3>1. exit' \in {2, 3, 4} /\ (exit' = 3 => a = "NotFound")
      BY <2>1, <2>4 DEF reportError
    <3>2. exit' = 3 => "deployment" \in Gone
      <4>1. a = "NotFound" => "deployment" \in everAbsent
        BY BackendsAssumption DEF Lookup, Answers, CollectedInv, SnapshotInv, Objects
      <4> QED BY <3>1, <4>1 DEF Gone
    <3>3. ~Reported /\ ~Reported'
      BY <1>2, <2>2 DEF Reported
    <3>4. /\ Stage = "open" /\ Stage' = "done" /\ Incomplete = FALSE /\ Incomplete' = FALSE
          /\ Missing = {} /\ Missing' = {}
      BY <1>2, <1>3, <2>1, <2>2, <2>4, <3>3 DEF Stage, Incomplete
    <3>5. Gone' = Gone /\ status' = status
      BY <2>2, GoneFacts
    <3> QED BY <1>1, <3>1, <3>2, <3>4, <3>5 DEF Contract!Next, Contract!Refuse
  <2> QED BY <2>3, <2>4
<1>7. CASE OwnEvents \/ invalidSelector \/ listReplicaSets \/ listPods \/ ReadBackends
  BY <1>4, <1>7
  DEF OwnEvents, eventsFor, invalidSelector, listReplicaSets, listPods, ReadBackends,
      backendSnapshots
<1>8. CASE RunRule(Rules) \/ RulesDone(Rules) \/ RunPodRule \/ NextPod({}) \/ WorkloadFindings
  BY <1>4, <1>8 DEF RunRule, RulesDone, RunPodRule, NextPod, WorkloadFindings, PodFindings
<1>9. CASE DeploymentReport
  <2>1. pc = "report" /\ pc' = "render" /\ UNCHANGED <<scenario, everAbsent, exit>>
    BY <1>9 DEF DeploymentReport, Report
  <2>2. Reported' /\ Gone' = Gone /\ Stage = "open" /\ Stage' = "judged" /\ Incomplete' \in BOOLEAN
    BY <1>2, <2>1, GoneFacts DEF Stage, Incomplete, Reported
  <2> QED BY <1>1, <2>1, <2>2 DEF JudgedInv, Contract!Next, Contract!Judge
<1>10. CASE Render
  <2>1. /\ UNCHANGED <<scenario, everAbsent, ownEvents, listing, degradations, report, status>>
        /\ pc = "render" /\ pc' = "done"
    BY <1>10 DEF Render
  <2>2. Incomplete' = Incomplete /\ Missing' = Missing /\ Gone' = Gone /\ status' = status
    BY <1>5, <2>1, GoneFacts
  <2>3. Stage = "judged" /\ Stage' = "done"
    BY <2>1 DEF Stage
  <2>4. exit' \in {2, IF status \in {"degraded", "unhealthy"} THEN 1 ELSE 0}
    BY <1>10 DEF Render, IssueFound
  <2> QED BY <1>1, <2>2, <2>3, <2>4 DEF Contract!Next, Contract!Exit
<1>11. CASE Drift
  <2>1. /\ UNCHANGED <<scenario, pc, ownEvents, listing, degradations, report, status, exit>>
        /\ everAbsent \subseteq everAbsent' /\ pc # "done"
    BY <1>11 DEF Drift
  <2>2. Incomplete' = Incomplete /\ Missing' = Missing /\ Gone \subseteq Gone'
    BY <1>5, <2>1, GoneFacts
  <2>3. Stage' = Stage /\ Stage # "done"
    BY <2>1 DEF Stage
  <2> QED BY <1>1, <2>1, <2>2, <2>3 DEF Contract!Next, Contract!Vanish
<1>12. CASE Expire \/ UNCHANGED vars
  <2>1. UNCHANGED <<scenario, everAbsent, pc, ownEvents, listing, degradations, report, status,
                    exit>>
    BY <1>12 DEF Expire, vars, runVars
  <2>2. Incomplete' = Incomplete /\ Missing' = Missing /\ Gone' = Gone /\ Stage' = Stage
    BY <1>5, <2>1, GoneFacts DEF Stage
  <2> QED BY <1>1, <2>1, <2>2
<1> QED BY <1>6, <1>7, <1>8, <1>9, <1>10, <1>11, <1>12 DEF Next, Step, Evaluation, Terminated

\* For any Deployment, any number of ReplicaSets and Pods and any failures, an analysis
\* keeps the safety part of the contract all analyses share: it judges once, is healthy
\* only when it looked at everything and unknown only when it did not, exits as its
\* verdict says and makes no more requests than it may.  A report that says that no Pods
\* exist discloses that they could not be listed, or there was a moment without Pods.
THEOREM ContractSafe == Spec => Contract!Safety
<1>1. Init => Contract!Init
  <2> SUFFICES ASSUME Init PROVE Contract!Init
    OBVIOUS
  <2>1. ~Reported /\ Stage = "open" /\ report = <<>>
    BY DEF Init, InitRun, Reported, Stage
  <2>2. Incomplete = FALSE /\ Missing = {}
    BY <2>1 DEF Incomplete, Missing, SaysNoPods
  <2>3. Overspent = FALSE
    BY CollectedBegins DEF CollectedInv, CostInv, Overspent
  <2> QED BY <2>1, <2>2, <2>3 DEF Init, InitRun, Contract!Init
<1>2. /\ DeploymentInv /\ DeploymentInv' /\ CollectedInv /\ CollectedInv' /\ JudgedInv'
      /\ [Next]_vars
      => [Contract!Next]_Contract!vars
  BY ContractStep
<1> QED BY <1>1, <1>2, DeploymentBegins, DeploymentStep, CollectedBegins, CollectedStep, Judged,
           PTL DEF Spec, Contract!Safety

=============================================================================
