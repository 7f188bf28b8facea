------------------------ MODULE ServiceAnalysisProofs ------------------------
(***************************************************************************)
(* The Service analysis for any Service, any number of Pods and any        *)
(* troubles they have, whatever fails, vanishes or expires during the run. *)
(***************************************************************************)
EXTENDS ServiceAnalysis, BackendsProofs

-----------------------------------------------------------------------------
(* The rules *)

EndpointsTyped == endpoints \in [known : BOOLEAN, ready : Nat, notReady : Nat]

\* The Service rules make findings of the Service.
LEMMA RulesAreOwn ==
  ASSUME ListedInv
  PROVE  /\ OwnRules(Rules) /\ Len(Rules) = 3 /\ DOMAIN Rules = {1, 2, 3}
         /\ ToSet(evaluateTargetPorts) \subseteq
              {ServiceFinding("SERVICE_TARGET_PORT_NOT_FOUND", p, "critical") : p \in Ports}
<1>1. ASSUME NEW id, NEW about, NEW severity \in Severities
      PROVE  /\ Own(ServiceFinding(id, about, severity))
             /\ IsList(<<ServiceFinding(id, about, severity)>>)
             /\ ToSet(<<ServiceFinding(id, about, severity)>>)
                  = {ServiceFinding(id, about, severity)}
  BY OneOwn DEF ServiceFinding, Confidences
<1>2. \A severity \in {"critical", "warning"} : severity \in Severities
  BY DEF Severities
<1>3. IsList(evaluateSelector) /\ \A d \in ToSet(evaluateSelector) : Own(d)
  BY <1>1, <1>2, ListEmpty DEF evaluateSelector
<1>4. IsList(evaluateEndpoints) /\ \A d \in ToSet(evaluateEndpoints) : Own(d)
  BY <1>1, <1>2, ListEmpty DEF evaluateEndpoints
<1>5. /\ IsList(evaluateTargetPorts) /\ \A d \in ToSet(evaluateTargetPorts) : Own(d)
      /\ ToSet(evaluateTargetPorts) \subseteq
           {ServiceFinding("SERVICE_TARGET_PORT_NOT_FOUND", p, "critical") : p \in Ports}
  <2> DEFINE ports == scenario.targets \ declaredPortNames
             finding(p) == ServiceFinding("SERVICE_TARGET_PORT_NOT_FOUND", p, "critical")
             T == {finding(p) : p \in ports}
             g == [p \in ports |-> finding(p)]
  <2>1. ports \in SUBSET Ports /\ IsFiniteSet(Ports)
    BY ServiceAssumption DEF ListedInv
  <2>2. IsFiniteSet(ports)
    BY <2>1, FS_Subset
  <2> HIDE DEF ports
  <2>3. g \in Surjection(ports, T)
    BY DEF Surjection
  <2>4. IsFiniteSet(T)
    <3> HIDE DEF g, T
    <3> QED BY <2>2, <2>3, FS_Surjection
  <2>5. IsList(SetToSeq(T)) /\ ToSet(SetToSeq(T)) = T
    BY <2>4, ListOfSet
  <2>6. evaluateTargetPorts = <<>> \/ evaluateTargetPorts = SetToSeq(T)
    BY DEF evaluateTargetPorts, ports
  <2>7. \A d \in T : Own(d)
    <3>1. \A p \in ports : Own(finding(p))
      BY <1>1, <1>2
    <3> HIDE DEF finding
    <3> QED BY <3>1
  <2>8. T \subseteq {finding(p) : p \in Ports}
    BY <2>1
  <2> HIDE DEF T
  <2> QED BY <2>5, <2>6, <2>7, <2>8, ListEmpty
<1>6. /\ IsList(Rules) /\ Len(Rules) = 3 /\ DOMAIN Rules = {1, 2, 3}
      /\ Rules[1] = evaluateSelector /\ Rules[2] = evaluateEndpoints
      /\ Rules[3] = evaluateTargetPorts
  BY ThreeRules DEF Rules
<1> QED BY <1>3, <1>4, <1>5, <1>6 DEF OwnRules

\* The selector and the endpoints rule find one thing or none.  With a ready endpoint only
\* a selector without Pods and a port that none names are critical.
LEMMA RuleCriticals ==
  ASSUME ListedInv, EndpointsTyped, endpoints.ready > 0,
         NEW r \in {1, 2, 3}, NEW e \in ToSet(Rules[r]), e.severity = "critical"
  PROVE  e.id \in {"SERVICE_NO_MATCHING_PODS", "SERVICE_TARGET_PORT_NOT_FOUND"}
<1>1. Rules[1] = evaluateSelector /\ Rules[2] = evaluateEndpoints /\ Rules[3] = evaluateTargetPorts
  BY ThreeRules DEF Rules
<1>2. \A id, about, severity :
        LET f == ServiceFinding(id, about, severity)
        IN  f.id = id /\ f.severity = severity /\ ToSet(<<f>>) = {f}
  <2>1. \A f : ToSet(<<f>>) = {f}
    BY DEF ToSet
  <2> QED BY <2>1, OwnSays DEF ServiceFinding
<1>3. CASE e \in ToSet(evaluateSelector)
  BY <1>2, <1>3, ListEmpty DEF evaluateSelector
<1>4. CASE e \in ToSet(evaluateEndpoints)
  BY <1>2, <1>4, ListEmpty DEF evaluateEndpoints, EndpointsTyped
<1>5. CASE e \in ToSet(evaluateTargetPorts)
  BY <1>2, <1>5, RulesAreOwn
<1> QED BY <1>1, <1>3, <1>4, <1>5

-----------------------------------------------------------------------------
(* The inductive invariant *)

Weights == [s \in Severities |-> SeverityForService(s)]
Symptoms == {"SERVICE_NO_READY_ENDPOINTS"}

\* Whatever has been found is what the rules make of the snapshot, and the report is
\* made of it: the snapshot does not change once the rules look at it.
ServiceInv ==
  ListedInv /\ EndpointsTyped /\ EvaluationInv(Rules, {}, Weights, Symptoms) /\ OnceInv

\* The invariant in terms of the rules and the weights of the state it speaks of.
LEMMA EvaluationOf ==
  ASSUME NEW rules, NEW weighed, EvaluationInv(rules, {}, weighed, Symptoms)',
         Rules' = rules, Weights' = weighed
  PROVE  EvaluationInv(Rules, {}, Weights, Symptoms)'
BY DEF EvaluationInv, RulesInv, MergedInv, ReportInv, FoundBy, Symptoms

\* The run begins there.
LEMMA ServiceBegins == Init => ServiceInv
<1> SUFFICES ASSUME Init PROVE ServiceInv
  OBVIOUS
<1>1. ListedInv
  BY PodsInitially DEF Init
<1>2. EndpointsTyped
  BY DEF Init, NoEndpoints, EndpointsTyped
<1>3. IsList(Rules)
  BY <1>1, RulesAreOwn DEF OwnRules
<1>4. EvaluationInv(Rules, {}, Weights, Symptoms)
  BY <1>3, EvaluationBegins DEF Init
<1>5. OnceInv
  BY OnceBegins DEF Init
<1> QED BY <1>1, <1>2, <1>4, <1>5 DEF ServiceInv

\* What a collecting step leaves for the rules.
LEMMA Collects ==
  ASSUME ServiceInv, Collecting, UNCHANGED <<next, findings, podRules, podReport, report, status>>,
         ListedInv', EndpointsTyped', pc' \notin {"report", "render"}
  PROVE  ServiceInv'
<1>1. PICK rules, weighed : rules = Rules' /\ weighed = Weights'
  OBVIOUS
<1>2. IsList(rules)
  BY <1>1, ThreeRules DEF Rules
<1>3. PICK old, before : EvaluationInv(old, {}, before, Symptoms)
  BY DEF ServiceInv
<1>4. EvaluationInv(rules, {}, weighed, Symptoms)'
  BY <1>2, <1>3, CollectorStep
<1>5. OnceInv'
  BY <1>3, OnceCollects DEF EvaluationInv
<1> QED BY <1>1, <1>4, <1>5, EvaluationOf DEF ServiceInv

\* Each collector is such a step.
LEMMA CollectorsKeep ==
  ASSUME ServiceInv,
         \/ GetService \/ OwnEvents \/ endpointsFor \/ legacyEndpointsFor \/ listPods
         \/ ReadBackends
  PROVE  ServiceInv'
<1> USE DEF world, listing, verdict, podRules
<1>1. ListedInv /\ EndpointsTyped
  BY DEF ServiceInv
<1>2. ASSUME UNCHANGED <<scenario, backends, endpoints>> PROVE ListedInv' /\ EndpointsTyped'
  BY <1>1, <1>2 DEF ListedInv, EndpointsTyped
<1>3. Published \in [known : BOOLEAN, ready : Nat, notReady : Nat]
  BY <1>1, ServiceAssumption DEF Published, PublishedIf, ListedInv
<1>4. NoEndpoints \in [known : BOOLEAN, ready : Nat, notReady : Nat]
  BY DEF NoEndpoints
<1>5. CASE GetService
  BY <1>2, <1>5, Collects DEF GetService, Get, Collecting
<1>6. CASE OwnEvents
  BY <1>2, <1>6, Collects DEF OwnEvents, eventsFor, Collecting
<1>7. CASE endpointsFor
  <2>1. /\ Collecting /\ UNCHANGED <<scenario, backends>>
        /\ UNCHANGED <<next, findings, podRules, podReport, report, status>>
        /\ pc' \in {"legacy", "pods", "rules"}
        /\ endpoints' \in {Published, NoEndpoints}
    BY <1>7 DEF endpointsFor, Collecting, slicesKnown, AfterEndpoints
  <2>2. ListedInv' /\ EndpointsTyped'
    BY <1>1, <1>3, <1>4, <2>1 DEF ListedInv, EndpointsTyped
  <2> QED BY <2>1, <2>2, Collects
<1>8. CASE legacyEndpointsFor
  <2>1. /\ Collecting /\ UNCHANGED <<scenario, backends>>
        /\ UNCHANGED <<next, findings, podRules, podReport, report, status>>
        /\ pc' \in {"legacy", "pods", "rules"}
        /\ endpoints' \in {Published, NoEndpoints}
    BY <1>8 DEF legacyEndpointsFor, Collecting, legacyKnown, AfterEndpoints
  <2>2. ListedInv' /\ EndpointsTyped'
    BY <1>1, <1>3, <1>4, <2>1 DEF ListedInv, EndpointsTyped
  <2> QED BY <2>1, <2>2, Collects
<1>9. CASE listPods
  <2>1. /\ Collecting /\ UNCHANGED <<scenario, endpoints>>
        /\ UNCHANGED <<next, findings, podRules, podReport, report, status>>
        /\ pc' \in {"backends", "rules"}
        /\ backends' \in {[i \in DOMAIN scenario.pods |-> i], <<>>}
    BY <1>9 DEF listPods, Collecting
  <2>2. backends' \in Seq(DOMAIN scenario.pods) /\ IsInjective(backends')
    <3>1. DOMAIN scenario.pods = 1..Len(scenario.pods) /\ Len(scenario.pods) \in Nat
      BY <1>1, BackendsAssumption DEF ListedInv
    <3>2. [i \in DOMAIN scenario.pods |-> i] \in Seq(DOMAIN scenario.pods)
      BY <3>1
    <3>3. <<>> \in Seq(DOMAIN scenario.pods)
      OBVIOUS
    <3>4. IsInjective([i \in DOMAIN scenario.pods |-> i]) /\ IsInjective(<<>>)
      BY DEF IsInjective
    <3> QED BY <2>1, <3>2, <3>3, <3>4
  <2>3. ListedInv' /\ EndpointsTyped'
    BY <1>1, <2>1, <2>2 DEF ListedInv, EndpointsTyped
  <2> QED BY <2>1, <2>3, Collects
<1>10. CASE ReadBackends
  BY <1>2, <1>10, Collects DEF ReadBackends, backendSnapshots, Collecting
<1> QED BY <1>5, <1>6, <1>7, <1>8, <1>9, <1>10

\* The rules and the weights depend on the snapshot alone.
LEMMA SnapshotKept ==
  ASSUME UNCHANGED <<scenario, endpoints, listed, backends>>
  PROVE  Rules' = Rules /\ Weights' = Weights /\ (ListedInv => ListedInv')
         /\ (EndpointsTyped => EndpointsTyped')
BY DEF Rules, evaluateSelector, evaluateEndpoints, evaluateTargetPorts, IsExternalName,
       HasSelector, Total, NoPods, declaredPortNames, Weights, SeverityForService, ListedInv,
       EndpointsTyped, ToSet

\* The evaluation keeps the invariant, and so do the surroundings.
LEMMA VerdictKeeps ==
  ASSUME ServiceInv, Evaluation \/ ((Expire \/ Drift) /\ UNCHANGED endpoints) \/ UNCHANGED vars
  PROVE  ServiceInv'
<1>1. PICK rules, weighed : rules = Rules /\ weighed = Weights
  OBVIOUS
<1>2. ListedInv /\ EndpointsTyped /\ EvaluationInv(rules, {}, weighed, Symptoms)
  BY <1>1 DEF ServiceInv
<1>3. OwnRules(rules)
  BY <1>1, <1>2, RulesAreOwn
<1>4. EvaluationStep(rules, {}, weighed, Symptoms) /\ UNCHANGED endpoints
  BY <1>1 DEF Evaluation, EvaluationStep, BackendFindings, ServiceReport, Weights, Symptoms, vars
<1>5. UNCHANGED <<scenario, endpoints, listed, backends>>
  BY <1>4, EvaluationReads
<1>6. ListedInv' /\ EndpointsTyped' /\ rules = Rules' /\ weighed = Weights'
  BY <1>1, <1>2, <1>5, SnapshotKept
<1>7. EvaluationInv(rules, {}, weighed, Symptoms)'
  BY <1>2, <1>3, <1>4, EvaluationKeeps
<1>8. OnceInv'
  BY <1>2, <1>4, OnceKeeps DEF EvaluationInv, ServiceInv
<1> QED BY <1>6, <1>7, <1>8, EvaluationOf DEF ServiceInv

\* Every step keeps it.
LEMMA ServiceStep == ServiceInv /\ [Next]_vars => ServiceInv'
BY CollectorsKeep, VerdictKeeps DEF Next, Step, Terminated

-----------------------------------------------------------------------------
(* What the report says *)

\* Once the run has judged, the report is joined from the findings of the Service and
\* of its Pods; before that it is empty.
LEMMA ServiceJoined ==
  ASSUME ServiceInv
  PROVE  /\ Weights \in [Severities -> Severities] /\ OwnRules(Rules)
         /\ Reported => Joined(Symptoms, Weights) /\ pod > Len(backends)
         /\ ~Reported => report = <<>>
<1>1. Weights \in [Severities -> Severities]
  BY DEF Weights, SeverityForService, Severities
<1>2. OwnRules(Rules) /\ EvaluationInv(Rules, {}, Weights, Symptoms)
  BY RulesAreOwn DEF ServiceInv
<1>3. ~Reported => report = <<>>
  BY <1>2 DEF EvaluationInv, ReportInv
<1> QED BY <1>1, <1>2, <1>3, EvaluationJoined

\* ServiceReport names as the cause of unready endpoints only a finding that it also
\* reports (analyze/service.go:39-47), however many Pods there are and wherever the
\* rules were cut short.
THEOREM CausesAreTold == Spec => []NoDanglingCause
<1>1. ASSUME ServiceInv PROVE NoDanglingCause
  <2>1. CASE Reported
    BY <1>1, <2>1, ServiceJoined, CausesTold
  <2>2. CASE ~Reported
    BY <1>1, <2>2, ServiceJoined DEF NoDanglingCause
  <2> QED BY <2>1, <2>2
<1> QED BY <1>1, ServiceBegins, ServiceStep, PTL DEF Spec

\* Each finding about a Pod is counted in one finding of the report, with the Pod among
\* its subjects, of which there are as many as it counts (aggregate.go:8-13): no rule
\* says the same of one Pod twice, no two rules say the same, and the Pods listed are
\* different ones.
THEOREM PodFindingsKept == Spec => []NothingLost
<1>1. ASSUME ServiceInv PROVE NothingLost
  <2>1. CASE Reported
    BY <1>1, <2>1, ServiceJoined, AllCounted DEF ServiceInv, OnceInv
  <2>2. CASE ~Reported
    BY <2>2 DEF NothingLost
  <2> QED BY <2>1, <2>2
<1> QED BY <1>1, ServiceBegins, ServiceStep, PTL DEF Spec

\* Of two findings about Pods that Less does not separate, the one about more Pods
\* comes first (aggregate.go:35), because the final sort is stable.
THEOREM WidespreadLeads == Spec => []WidespreadFirst
<1>1. ASSUME ServiceInv PROVE WidespreadFirst
  <2>1. CASE Reported
    BY <1>1, <2>1, ServiceJoined, WidespreadTold
  <2>2. CASE ~Reported
    BY <1>1, <2>2, ServiceJoined DEF WidespreadFirst
  <2> QED BY <2>1, <2>2
<1> QED BY <1>1, ServiceBegins, ServiceStep, PTL DEF Spec

\* Every listed Pod that is neither ready nor finished is a subject of the report of
\* its Service, for any number of Pods (docs/rules/PVC_PENDING.md:12).
THEOREM PodsRemembered == Spec => []NoPodForgotten
<1>1. ASSUME ServiceInv PROVE NoPodForgotten
  <2> SUFFICES ASSUME Reported, NEW i \in ToSet(backends)
               PROVE  Fine(i) \/ \E k \in DOMAIN report : i \in report[k].subjects
    BY DEF NoPodForgotten, Fine
  <2>1. Joined(Symptoms, Weights) /\ pod > Len(backends) /\ ListedInv /\ PodsInv({})
    BY <1>1, ServiceJoined DEF ServiceInv, EvaluationInv
  <2> QED BY <2>1, PodsTold
<1> QED BY <1>1, ServiceBegins, ServiceStep, PTL DEF Spec

\* A Service with a ready endpoint is unhealthy only for what its own rules found
\* (service/service.go:50-52): SeverityForService leaves the Pods no critical finding.
THEOREM RoutingExcusesPods == Spec => []RoutingIsNotBroken
<1>1. ASSUME ServiceInv PROVE RoutingIsNotBroken
  <2> SUFFICES ASSUME Reported, endpoints.ready > 0,
                      NEW d \in ToSet(report), d.severity = "critical"
               PROVE  Told("SERVICE_NO_MATCHING_PODS") \/ Told("SERVICE_TARGET_PORT_NOT_FOUND")
    BY <1>1, ServiceJoined, StatusFacts DEF RoutingIsNotBroken
  <2>1. Joined(Symptoms, Weights)
    BY <1>1, ServiceJoined
  <2>2. ASSUME NEW e \in Severities PROVE Weights[e] # "critical"
    BY <1>1 DEF Weights, SeverityForService, ServiceInv, EndpointsTyped
  <2>3. d \notin ToSet(podReport)
    <3>1. SUFFICES ASSUME d \in ToSet(podReport) PROVE FALSE
      OBVIOUS
    <3>2. PICK e \in ToSet(all) : d.severity = Weights[e.severity]
      BY <2>1, <3>1, WeighedRows DEF Joined
    <3>3. e.severity \in Severities
      BY <2>1, <3>2 DEF Joined, Rows, Row, Proper
    <3> QED BY <2>2, <3>2, <3>3
  <2>4. PICK e \in ToSet(findings) : d.id = e.id /\ d.severity = e.severity
    BY <2>1, <2>3, ReportFacts, ExplainedFacts DEF Joined, Tells
  <2>5. PICK r \in {1, 2, 3} : e \in ToSet(Rules[r])
    BY <1>1, <2>4, RulesAreOwn, FoundFrom DEF ServiceInv, EvaluationInv, RulesInv
  <2>6. e.id \in {"SERVICE_NO_MATCHING_PODS", "SERVICE_TARGET_PORT_NOT_FOUND"}
    BY <1>1, <2>4, <2>5, RuleCriticals DEF ServiceInv
  <2> QED BY <2>4, <2>6 DEF Told, ToSet
<1> QED BY <1>1, ServiceBegins, ServiceStep, PTL DEF Spec

\* What the endpoints and the selector rule make of a Service that routes to nothing.
LEMMA OutageFound ==
  ASSUME ListedInv, EndpointsTyped, ~IsExternalName, endpoints.known, endpoints.ready = 0,
         HasSelector => listed
  PROVE  \E r \in {1, 2} : \E e \in ToSet(Rules[r]) :
           (HasSelector => e.severity = "critical") /\ e.severity \in {"critical", "warning"}
<1>1. Rules[1] = evaluateSelector /\ Rules[2] = evaluateEndpoints
  BY ThreeRules DEF Rules
<1>2. \A id, about, severity :
        LET f == ServiceFinding(id, about, severity)
        IN  f.severity = severity /\ f \in ToSet(<<f>>)
  <2>1. \A f : f \in ToSet(<<f>>)
    BY DEF ToSet
  <2> QED BY <2>1, OwnSays DEF ServiceFinding
<1>3. CASE HasSelector /\ backends = <<>>
  <2>1. evaluateSelector = <<ServiceFinding("SERVICE_NO_MATCHING_PODS", "service", "critical")>>
    BY <1>3 DEF evaluateSelector, NoPods
  <2> QED BY <1>1, <1>2, <2>1
<1>4. CASE ~HasSelector /\ Total = 0
  <2>1. evaluateSelector
          = <<ServiceFinding("SERVICE_NO_ENDPOINTS_WITHOUT_SELECTOR", "service", "warning")>>
    BY <1>4 DEF evaluateSelector
  <2> QED BY <1>1, <1>2, <1>4, <2>1
<1>5. CASE ~(HasSelector /\ backends = <<>>) /\ ~(~HasSelector /\ Total = 0)
  <2>1. evaluateEndpoints = <<ServiceFinding("SERVICE_NO_READY_ENDPOINTS", "service", "critical")>>
    BY <1>5 DEF evaluateEndpoints
  <2> QED BY <1>1, <1>2, <2>1
<1> QED BY <1>3, <1>4, <1>5

\* Between them the selector and the endpoints rule leave no gap (rules.go:118-125): when
\* all rules ran and both were read, a Service that routes to nothing is an issue,
\* for any number of Pods and endpoints.
THEOREM OutageIsTold == Spec => []OutageReported
<1>1. ASSUME ServiceInv PROVE OutageReported
  <2> SUFFICES ASSUME Reported, next > Len(Rules), ~IsExternalName, endpoints.known,
                      endpoints.ready = 0, HasSelector => listed
               PROVE  IF HasSelector THEN status = "unhealthy" ELSE IssueFound
    BY DEF OutageReported, Evaluated
  <2>1. Joined(Symptoms, Weights) /\ OwnRules(Rules) /\ DOMAIN Rules = {1, 2, 3}
    BY <1>1, ServiceJoined, RulesAreOwn DEF ServiceInv
  <2>2. PICK r \in {1, 2} : \E e \in ToSet(Rules[r]) :
          (HasSelector => e.severity = "critical") /\ e.severity \in {"critical", "warning"}
    BY <1>1, OutageFound DEF ServiceInv
  <2> PICK e \in ToSet(Rules[r]) :
        (HasSelector => e.severity = "critical") /\ e.severity \in {"critical", "warning"}
    BY <2>2
  <2>3. e \in ToSet(findings)
    BY <1>1, <2>1, <2>2, FoundFrom DEF ServiceInv, EvaluationInv, RulesInv
  <2>4. PICK d \in ToSet(Explained(Symptoms)) : d.severity = e.severity
    BY <2>1, <2>3, ExplainedFacts DEF Joined, Tells
  <2>5. d \in ToSet(report)
    BY <2>1, <2>4, ReportFacts
  <2> QED BY <2>1, <2>2, <2>4, <2>5, StatusFacts
<1> QED BY <1>1, ServiceBegins, ServiceStep, PTL DEF Spec

-----------------------------------------------------------------------------
(* The contract *)

\* What is known of the endpoints and the Pods was true when it was read.
SnapshotInv ==
  /\ Objects \ present \subseteq everAbsent
  /\ pc \in {"get", "events", "endpoints", "legacy", "pods"} => backends = <<>>
  /\ pc \in {"get", "events", "endpoints", "legacy", "pods", "backends"} => podEvents = {}
  /\ pc \in {"endpoints", "legacy"} => ~IsExternalName
  /\ pc \in {"pods", "backends"} => HasSelector
  /\ endpoints.known /\ endpoints.ready = 0 => "ready endpoints" \in Gone
  /\ endpoints.known /\ Total = 0 => "endpoints" \in Gone
  /\ NoPods => "pods" \in Gone

\* What could not be read, of what has been asked for.
Unread ==
  \/ pc \notin {"get", "events"} /\ ~ownEvents
  \/ pc \notin {"get", "events", "endpoints", "legacy"} /\ ~IsExternalName /\ ~endpoints.known
  \/ pc \notin {"get", "events", "endpoints", "legacy", "pods"} /\ HasSelector /\ ~listed
  \/ /\ pc \notin {"get", "events", "endpoints", "legacy", "pods", "backends"}
     /\ ~(needEvents(backends) \subseteq podEvents)

\* It is booked, and nothing else is: a run that was not refused is degraded for a reason.
DegradedInv == pc # "done" \/ Reported => (degradations # {} <=> Unread)

\* What has been spent at each step.
Legacy == Cardinality(everAbsent \cap {"discovery"})
CostInv ==
  /\ calls \in Nat
  /\ pc = "get" => calls = 0
  /\ pc = "events" => calls = 1
  /\ pc = "endpoints" => calls = 2
  /\ pc = "legacy" => calls = 3 /\ Legacy = 1
  /\ pc = "pods" => calls <= 3 + Legacy
  /\ pc = "backends" => calls <= 4 + Legacy
  /\ ~Overspent

CollectedInv == SnapshotInv /\ DegradedInv /\ CostInv

\* What was missing stays so, as far as the past is concerned.
LEMMA GoneFacts ==
  ASSUME scenario' = scenario, everAbsent \subseteq everAbsent'
  PROVE  /\ Gone \subseteq Gone' /\ (everAbsent = everAbsent' => Gone = Gone')
         /\ Legacy \in {0, 1} /\ Legacy' \in {0, 1} /\ Legacy <= Legacy'
         /\ "discovery" \in everAbsent => Legacy = 1
<1>1. Gone \subseteq Gone' /\ (everAbsent = everAbsent' => Gone = Gone')
  BY DEF Gone
<1>2. ASSUME NEW S PROVE Cardinality(S \cap {"discovery"}) = IF "discovery" \in S THEN 1 ELSE 0
  <2>1. S \cap {"discovery"} = IF "discovery" \in S THEN {"discovery"} ELSE {}
    OBVIOUS
  <2> QED BY <2>1, FS_EmptySet, FS_Singleton
<1>3. /\ Legacy = IF "discovery" \in everAbsent THEN 1 ELSE 0
      /\ Legacy' = IF "discovery" \in everAbsent' THEN 1 ELSE 0
  BY <1>2 DEF Legacy
<1> QED BY <1>1, <1>3

\* Nothing is known, booked or spent at the start.
LEMMA CollectedBegins == Init => CollectedInv
<1> SUFFICES ASSUME Init PROVE CollectedInv
  OBVIOUS
<1> USE DEF Init, InitRun
<1>1. SnapshotInv
  BY DEF SnapshotInv, NoEndpoints, NoPods
<1>2. DegradedInv
  BY DEF DegradedInv, Unread
<1>3. CostInv
  <2>1. Legacy \in Nat
    <3>1. IsFiniteSet({"discovery"})
      BY FS_Singleton
    <3> QED BY <3>1, FS_Subset, FS_CardinalityType DEF Legacy
  <2>2. ~Overspent
    BY <2>1, BackendsAssumption DEF Overspent, Legacy
  <2> QED BY <2>2 DEF CostInv
<1> QED BY <1>1, <1>2, <1>3 DEF CollectedInv

\* Every read adds only what is so at that moment.
LEMMA SnapshotStep ==
  ASSUME ServiceInv, CollectedInv,
         \/ GetService \/ OwnEvents \/ endpointsFor \/ legacyEndpointsFor \/ listPods
         \/ ReadBackends
  PROVE  SnapshotInv'
<1> USE DEF world, listing, verdict, podRules, IsExternalName, HasSelector
<1>1. SnapshotInv /\ ListedInv /\ EndpointsTyped
  BY DEF CollectedInv, ServiceInv
<1>2. /\ scenario \in Scenarios /\ scenario.ready \in Nat /\ scenario.notReady \in Nat
      /\ Len(scenario.pods) \in Nat /\ DOMAIN scenario.pods = 1..Len(scenario.pods)
      /\ scenario.kind \in {"ExternalName", "selector", "manual"}
  BY <1>1, ServiceAssumption, BackendsAssumption DEF ListedInv
<1>3. ASSUME UNCHANGED <<scenario, present, everAbsent>> PROVE Gone' = Gone
  BY <1>3 DEF Gone
<1>4. ASSUME endpoints' \in {Published, NoEndpoints}, UNCHANGED <<scenario, present, everAbsent>>
      PROVE  /\ endpoints'.known /\ endpoints'.ready = 0 => "ready endpoints" \in Gone'
             /\ endpoints'.known /\ Total' = 0 => "endpoints" \in Gone'
  <2>1. CASE endpoints' = NoEndpoints
    BY <2>1 DEF NoEndpoints
  <2>2. CASE endpoints' = Published /\ "endpoints" \in present
    <3>1. endpoints'.ready = scenario.ready /\ endpoints'.notReady = scenario.notReady
      BY <2>2 DEF Published, PublishedIf
    <3> QED BY <1>4, <3>1 DEF Gone, Total
  <2>3. CASE endpoints' = Published /\ "endpoints" \notin present
    <3>1. "endpoints" \in everAbsent'
      BY <1>1, <1>4, <2>3 DEF SnapshotInv, Objects
    <3> QED BY <3>1 DEF Gone
  <2> QED BY <1>4, <2>1, <2>2, <2>3
<1>5. CASE GetService
  BY <1>1, <1>3, <1>5 DEF GetService, Get, SnapshotInv, NoPods, Total
<1>6. CASE OwnEvents
  BY <1>1, <1>2, <1>3, <1>6 DEF OwnEvents, eventsFor, SnapshotInv, NoPods, Total
<1>7. CASE endpointsFor
  <2>1. endpoints' \in {Published, NoEndpoints} /\ pc' \in {"legacy", AfterEndpoints}
    BY <1>7 DEF endpointsFor, slicesKnown
  <2> QED BY <1>1, <1>2, <1>3, <1>4, <1>7, <2>1
          DEF endpointsFor, SnapshotInv, NoPods, AfterEndpoints
<1>8. CASE legacyEndpointsFor
  <2>1. endpoints' \in {Published, NoEndpoints}
    BY <1>8 DEF legacyEndpointsFor, legacyKnown
  <2> QED BY <1>1, <1>2, <1>3, <1>4, <1>8, <2>1
          DEF legacyEndpointsFor, SnapshotInv, NoPods, AfterEndpoints
<1>9. CASE listPods
  <2>1. PICK a \in Answers("ok") :
          /\ listed' = (a = "ok") /\ pc' = IF a = "ok" THEN "backends" ELSE "rules"
          /\ backends' = IF a = "ok" /\ "pods" \in present
                         THEN [i \in DOMAIN scenario.pods |-> i] ELSE <<>>
    BY <1>9 DEF listPods
  <2>2. UNCHANGED <<scenario, present, everAbsent, podEvents, endpoints>> /\ pc = "pods"
    BY <1>9 DEF listPods
  <2>3. ASSUME NoPods' PROVE "pods" \in Gone'
    <3>1. CASE "pods" \in present
      <4>1. [i \in DOMAIN scenario.pods |-> i] = <<>>
        BY <2>1, <2>3, <3>1 DEF NoPods
      <4>2. DOMAIN scenario.pods = {}
        BY <4>1
      <4>3. Len(scenario.pods) = 0
        <5>1. ASSUME NEW n \in Nat, 1..n = {} PROVE n = 0
          BY <5>1
        <5> QED BY <1>2, <4>2, <5>1
      <4> QED BY <2>2, <4>3 DEF Gone
    <3>2. CASE "pods" \notin present
      BY <1>1, <2>2, <3>2 DEF SnapshotInv, Objects, Gone
    <3> QED BY <3>1, <3>2
  <2> QED BY <1>1, <1>3, <2>1, <2>2, <2>3 DEF SnapshotInv, Total
<1>10. CASE ReadBackends
  BY <1>1, <1>3, <1>10 DEF ReadBackends, backendSnapshots, SnapshotInv, NoPods, Total
<1> QED BY <1>5, <1>6, <1>7, <1>8, <1>9, <1>10

\* What cannot be read is booked, and nothing else.
LEMMA DegradedStep ==
  ASSUME ServiceInv, CollectedInv,
         \/ GetService \/ OwnEvents \/ endpointsFor \/ legacyEndpointsFor \/ listPods
         \/ ReadBackends
  PROVE  DegradedInv'
<1> USE DEF world, listing, verdict, podRules, IsExternalName, HasSelector
<1>1. SnapshotInv /\ DegradedInv /\ ListedInv
  BY DEF CollectedInv, ServiceInv
<1>2. scenario.kind \in {"ExternalName", "selector", "manual"}
  BY <1>1, ServiceAssumption DEF ListedInv
<1>3. ASSUME UNCHANGED <<scenario, backends>> PROVE needEvents(backends)' = needEvents(backends)
  BY <1>3 DEF needEvents, UnreadyIn
<1>4. CASE GetService
  <2>1. pc' \in {"events", "done"} /\ ~Reported'
    BY <1>4 DEF GetService, Get, ServiceInv, EvaluationInv, ReportInv, Reported
  <2>2. degradations = {} /\ UNCHANGED degradations
    BY <1>1, <1>4 DEF GetService, Get, DegradedInv, Unread
  <2> QED BY <2>1, <2>2 DEF DegradedInv, Unread
<1>5. CASE OwnEvents
  <2>1. PICK a : ownEvents' = (a = "ok") /\ degradations' = degradations \cup degrade("events", a)
    BY <1>5 DEF OwnEvents, eventsFor
  <2>2. /\ pc = "events" /\ pc' = (IF IsExternalName THEN "rules" ELSE "endpoints")
        /\ UNCHANGED <<scenario, listed, backends, podEvents, endpoints>>
    BY <1>5 DEF OwnEvents, eventsFor
  <2>3. degradations = {}
    BY <1>1, <2>2 DEF DegradedInv, Unread
  <2>4. degradations' # {} <=> ~ownEvents'
    BY <2>1, <2>3, Booked
  <2>5. needEvents(backends)' \subseteq podEvents'
    BY <1>1, <1>3, <2>2, NoEvents DEF SnapshotInv
  <2> QED BY <1>2, <2>2, <2>4, <2>5 DEF DegradedInv, Unread
<1>6. CASE endpointsFor
  <2>1. PICK a : /\ endpoints' = slicesKnown(a, Published)
                 /\ degradations' = degradations \cup existenceDegradation("endpointslices", a)
                 /\ pc' = IF a = "NotFound" THEN "legacy" ELSE AfterEndpoints
    BY <1>6 DEF endpointsFor
  <2>2. pc = "endpoints" /\ UNCHANGED <<scenario, listed, backends, podEvents, ownEvents>>
    BY <1>6 DEF endpointsFor
  <2>3. degradations # {} <=> ~ownEvents
    BY <1>1, <2>2 DEF DegradedInv, Unread
  <2>4. endpoints'.known <=> a = "ok"
    BY <2>1 DEF slicesKnown, Published, PublishedIf, NoEndpoints
  <2>5. degradations' # {} <=> ~ownEvents \/ a \notin {"ok", "NotFound"}
    BY <2>1, <2>3, Booked
  <2>6. needEvents(backends)' \subseteq podEvents' /\ ~IsExternalName
    BY <1>1, <1>3, <2>2, NoEvents DEF SnapshotInv
  <2> QED BY <1>2, <2>1, <2>2, <2>4, <2>5, <2>6 DEF DegradedInv, Unread, AfterEndpoints
<1>7. CASE legacyEndpointsFor
  <2>1. PICK a : /\ endpoints' = legacyKnown(a, Published)
                 /\ degradations' = degradations \cup existenceDegradation("endpoints", a)
    BY <1>7 DEF legacyEndpointsFor
  <2>2. /\ pc = "legacy" /\ pc' = AfterEndpoints
        /\ UNCHANGED <<scenario, listed, backends, podEvents, ownEvents>>
    BY <1>7 DEF legacyEndpointsFor
  <2>3. degradations # {} <=> ~ownEvents
    BY <1>1, <2>2 DEF DegradedInv, Unread
  <2>4. endpoints'.known <=> a \in {"ok", "NotFound"}
    BY <2>1 DEF legacyKnown, Published, PublishedIf, NoEndpoints
  <2>5. degradations' # {} <=> ~ownEvents \/ a \notin {"ok", "NotFound"}
    BY <2>1, <2>3, Booked
  <2>6. needEvents(backends)' \subseteq podEvents' /\ ~IsExternalName
    BY <1>1, <1>3, <2>2, NoEvents DEF SnapshotInv
  <2> QED BY <1>2, <2>2, <2>4, <2>5, <2>6 DEF DegradedInv, Unread, AfterEndpoints
<1>8. CASE listPods
  <2>1. PICK a : /\ listed' = (a = "ok") /\ pc' = IF a = "ok" THEN "backends" ELSE "rules"
                 /\ degradations' = degradations \cup degrade("pods", a)
                 /\ a # "ok" => backends' = <<>>
    BY <1>8 DEF listPods
  <2>2. pc = "pods" /\ UNCHANGED <<scenario, podEvents, ownEvents, endpoints>> /\ HasSelector
    BY <1>1, <1>8 DEF listPods, SnapshotInv
  <2>3. degradations # {} <=> ~ownEvents \/ ~endpoints.known
    BY <1>1, <2>2 DEF DegradedInv, Unread
  <2>4. degradations' # {} <=> ~ownEvents \/ ~endpoints.known \/ ~listed'
    BY <2>1, <2>3, Booked
  <2>5. pc' = "rules" => needEvents(backends)' \subseteq podEvents'
    <3>1. backends' = <<>> => needEvents(backends)' = {}
      BY DEF needEvents, UnreadyIn
    <3> QED BY <2>1, <3>1
  <2> QED BY <2>1, <2>2, <2>4, <2>5 DEF DegradedInv, Unread
<1>9. CASE ReadBackends
  <2>1. /\ pc = "backends" /\ pc' = "rules" /\ HasSelector
        /\ UNCHANGED <<scenario, listed, backends, ownEvents, endpoints>>
    BY <1>1, <1>9 DEF ReadBackends, backendSnapshots, SnapshotInv
  <2>2. degradations' # {} <=> degradations # {} \/ ~(needEvents(backends) \subseteq podEvents')
    BY <1>1, <1>9, BackendsRead DEF ReadBackends, SnapshotInv
  <2>3. degradations # {} <=> ~ownEvents \/ ~endpoints.known \/ ~listed
    BY <1>1, <2>1 DEF DegradedInv, Unread
  <2> QED BY <1>3, <2>1, <2>2, <2>3 DEF DegradedInv, Unread
<1> QED BY <1>4, <1>5, <1>6, <1>7, <1>8, <1>9

\* Each request is paid for: the older API costs one only where discovery was absent, and
\* the Pods' events no more than maxBackendEvents.
LEMMA CostStep ==
  ASSUME ServiceInv, CollectedInv,
         \/ GetService \/ OwnEvents \/ endpointsFor \/ legacyEndpointsFor \/ listPods
         \/ ReadBackends
  PROVE  CostInv'
<1> USE DEF world, listing, verdict, podRules, IsExternalName, HasSelector
<1>1. SnapshotInv /\ CostInv /\ ListedInv
  BY DEF CollectedInv, ServiceInv
<1>2. UNCHANGED <<scenario, everAbsent>>
  BY DEF GetService, Get, OwnEvents, eventsFor, endpointsFor, legacyEndpointsFor, listPods,
         ReadBackends, backendSnapshots
<1>3. Legacy' = Legacy /\ Legacy \in {0, 1} /\ ("discovery" \in everAbsent => Legacy = 1)
  BY <1>2, GoneFacts DEF Legacy
<1>4. Overspent' <=> calls' > IF scenario.kind = "ExternalName" THEN 2
                                ELSE 4 + Legacy + MaxBackendEvents
  BY <1>2, <1>3 DEF Overspent, Legacy
<1>5. MaxBackendEvents \in Nat /\ scenario.kind \in {"ExternalName", "selector", "manual"}
      /\ calls \in Nat
  BY <1>1, BackendsAssumption, ServiceAssumption DEF ListedInv, CostInv
<1>6. CASE GetService
  <2>1. calls = 0 /\ calls' = calls + 1 /\ pc' \in {"events", "done"}
    BY <1>1, <1>6 DEF GetService, Get, CostInv
  <2> QED BY <1>3, <1>4, <1>5, <2>1 DEF CostInv
<1>7. CASE OwnEvents
  <2>1. /\ calls = 1 /\ calls' = calls + 1
        /\ pc' = IF IsExternalName THEN "rules" ELSE "endpoints"
    BY <1>1, <1>7 DEF OwnEvents, eventsFor, CostInv
  <2> QED BY <1>3, <1>4, <1>5, <2>1 DEF CostInv
<1>8. CASE endpointsFor
  <2>1. PICK a \in Lookup("discovery") : pc' = IF a = "NotFound" THEN "legacy" ELSE AfterEndpoints
    BY <1>8 DEF endpointsFor
  <2>2. calls = 2 /\ calls' = calls + 1 /\ ~IsExternalName
    BY <1>1, <1>8 DEF endpointsFor, CostInv, SnapshotInv
  <2>3. a = "NotFound" => "discovery" \in everAbsent
    BY <1>1, BackendsAssumption DEF Lookup, Answers, SnapshotInv, Objects
  <2> QED BY <1>3, <1>4, <1>5, <2>1, <2>2, <2>3 DEF CostInv, AfterEndpoints
<1>9. CASE legacyEndpointsFor
  <2>1. /\ calls = 3 /\ calls' = calls + 1 /\ ~IsExternalName /\ Legacy = 1
        /\ pc' = AfterEndpoints
    BY <1>1, <1>9 DEF legacyEndpointsFor, CostInv, SnapshotInv
  <2> QED BY <1>3, <1>4, <1>5, <2>1 DEF CostInv, AfterEndpoints
<1>10. CASE listPods
  <2>1. /\ calls <= 3 + Legacy /\ calls' = calls + 1 /\ HasSelector
        /\ pc' \in {"backends", "rules"}
    BY <1>1, <1>10 DEF listPods, CostInv, SnapshotInv
  <2> QED BY <1>3, <1>4, <1>5, <2>1 DEF CostInv
<1>11. CASE ReadBackends
  <2>1. /\ calls <= 4 + Legacy /\ calls' = calls + Cardinality(needEvents(backends))
        /\ HasSelector /\ pc' = "rules"
    BY <1>1, <1>11 DEF ReadBackends, backendSnapshots, CostInv, SnapshotInv
  <2>2. IsList(backends)
    BY <1>1, ListOf DEF ListedInv
  <2>3. /\ Cardinality(needEvents(backends)) \in Nat
        /\ Cardinality(needEvents(backends)) <= MaxBackendEvents
    BY <2>2, FewEvents
  <2> QED BY <1>3, <1>4, <1>5, <2>1, <2>3 DEF CostInv
<1> QED BY <1>6, <1>7, <1>8, <1>9, <1>10, <1>11

\* Every step keeps what the reads have left.
LEMMA CollectedStep == ServiceInv /\ CollectedInv /\ [Next]_vars => CollectedInv'
<1> SUFFICES ASSUME ServiceInv, CollectedInv, [Next]_vars PROVE CollectedInv'
  OBVIOUS
<1>1. CASE \/ GetService \/ OwnEvents \/ endpointsFor \/ legacyEndpointsFor \/ listPods
           \/ ReadBackends
  BY <1>1, SnapshotStep, DegradedStep, CostStep DEF CollectedInv
<1>2. CASE Evaluation \/ ((Expire \/ Drift) /\ UNCHANGED endpoints) \/ UNCHANGED vars
  <2>1. PICK rules, weighed : rules = Rules /\ weighed = Weights
    OBVIOUS
  <2>2. EvaluationStep(rules, {}, weighed, Symptoms) /\ UNCHANGED endpoints
    BY <1>2, <2>1
    DEF Evaluation, EvaluationStep, BackendFindings, ServiceReport, Weights, Symptoms, vars
  <2>3. /\ UNCHANGED <<scenario, calls, ownEvents, listed, backends, podEvents, degradations>>
        /\ \/ pc' = pc
           \/ /\ pc \in {"rules", "aggregate", "report", "render"}
              /\ pc' \in {"aggregate", "report", "render", "done"}
        /\ everAbsent \subseteq everAbsent'
        /\ pc = "report" \/ UNCHANGED <<report, status>>
        /\ Objects \ present \subseteq everAbsent => Objects \ present' \subseteq everAbsent'
    BY <2>2, EvaluationLeaves
  <2>4. /\ Gone \subseteq Gone' /\ Legacy \in {0, 1} /\ Legacy' \in {0, 1} /\ Legacy <= Legacy'
        /\ needEvents(backends)' = needEvents(backends)
    BY <2>3, GoneFacts DEF needEvents, UnreadyIn
  <2>5. SnapshotInv'
    BY <2>2, <2>3, <2>4
    DEF CollectedInv, SnapshotInv, NoPods, Total, IsExternalName, HasSelector
  <2>6. DegradedInv'
    <3>1. pc' # "done" \/ Reported' => pc # "done" \/ Reported
      BY <2>3 DEF Reported
    <3>2. Unread' <=> Unread
      BY <2>2, <2>3, <2>4 DEF Unread, IsExternalName, HasSelector
    <3> QED BY <2>3, <3>1, <3>2 DEF CollectedInv, DegradedInv
  <2>7. CostInv'
    <3>1. ~Overspent'
      <4>1. ~Overspent /\ calls \in Nat /\ MaxBackendEvents \in Nat
        BY BackendsAssumption DEF CollectedInv, CostInv
      <4> QED BY <2>3, <2>4, <4>1 DEF Overspent, Legacy, IsExternalName
    <3>2. ASSUME NEW n \in Nat, NEW m \in {0, 1}, NEW k \in {0, 1}, m <= k
          PROVE  /\ m = 1 => k = 1
                 /\ n <= 3 + m => n <= 3 + k
                 /\ n <= 4 + m => n <= 4 + k
      BY <3>2
    <3>3. calls \in Nat
      BY DEF CollectedInv, CostInv
    <3>4. /\ Legacy = 1 => Legacy' = 1
          /\ calls <= 3 + Legacy => calls <= 3 + Legacy'
          /\ calls <= 4 + Legacy => calls <= 4 + Legacy'
      BY <2>4, <3>2, <3>3
    <3> QED BY <2>3, <3>1, <3>3, <3>4 DEF CollectedInv, CostInv
  <2> QED BY <2>5, <2>6, <2>7 DEF CollectedInv
<1> QED BY <1>1, <1>2 DEF Next, Step, Terminated

\* What the rules call missing was missing, and is an issue.
LEMMA RuleAbsences ==
  ASSUME ServiceInv, CollectedInv, NEW r \in {1, 2, 3}, NEW e \in ToSet(Rules[r]),
         e.id \in DOMAIN Absence
  PROVE  Absence[e.id] \in Gone /\ e.severity \in {"critical", "warning"}
<1>1. Rules[1] = evaluateSelector /\ Rules[2] = evaluateEndpoints /\ Rules[3] = evaluateTargetPorts
  BY ThreeRules DEF Rules
<1>2. SnapshotInv /\ ListedInv
  BY DEF CollectedInv, ServiceInv
<1>3. \A id, about, severity :
        LET f == ServiceFinding(id, about, severity)
        IN  f.id = id /\ f.severity = severity /\ ToSet(<<f>>) = {f}
  <2>1. \A f : ToSet(<<f>>) = {f}
    BY DEF ToSet
  <2> QED BY <2>1, OwnSays DEF ServiceFinding
<1>4. /\ Absence["SERVICE_NO_MATCHING_PODS"] = "pods"
      /\ Absence["SERVICE_NO_READY_ENDPOINTS"] = "ready endpoints"
      /\ Absence["SERVICE_NO_ENDPOINTS_WITHOUT_SELECTOR"] = "endpoints"
      /\ "SERVICE_SOME_ENDPOINTS_NOT_READY" \notin DOMAIN Absence
      /\ "SERVICE_TARGET_PORT_NOT_FOUND" \notin DOMAIN Absence
  BY DEF Absence
<1>5. CASE e \in ToSet(evaluateSelector)
  <2>1. \/ NoPods /\ e.id = "SERVICE_NO_MATCHING_PODS" /\ e.severity = "critical"
        \/ /\ endpoints.known /\ Total = 0 /\ e.severity = "warning"
           /\ e.id = "SERVICE_NO_ENDPOINTS_WITHOUT_SELECTOR"
    BY <1>3, <1>5, ListEmpty DEF evaluateSelector
  <2> QED BY <1>2, <1>4, <2>1 DEF SnapshotInv
<1>6. CASE e \in ToSet(evaluateEndpoints)
  <2>1. \/ /\ endpoints.known /\ endpoints.ready = 0 /\ e.id = "SERVICE_NO_READY_ENDPOINTS"
           /\ e.severity = "critical"
        \/ e.id = "SERVICE_SOME_ENDPOINTS_NOT_READY"
    BY <1>3, <1>6, ListEmpty DEF evaluateEndpoints
  <2> QED BY <1>2, <1>4, <2>1 DEF SnapshotInv
<1>7. CASE e \in ToSet(evaluateTargetPorts)
  <2>1. e.id = "SERVICE_TARGET_PORT_NOT_FOUND"
    BY <1>2, <1>3, <1>7, RulesAreOwn
  <2> QED BY <1>4, <2>1
<1> QED BY <1>1, <1>5, <1>6, <1>7

\* The verdict of a report that stands.
JudgedInv ==
  Reported =>
    /\ status \in {"healthy", "degraded", "unhealthy", "unknown"}
    /\ status = "healthy" => ~Incomplete
    /\ status = "unknown" => Incomplete
    /\ Missing \subseteq Gone
    /\ Missing # {} => status \in {"degraded", "unhealthy"}

\* It follows from the reads and the rules.
LEMMA Judged == ServiceInv /\ CollectedInv => JudgedInv
<1> SUFFICES ASSUME ServiceInv, CollectedInv, Reported PROVE JudgedInv
  BY DEF JudgedInv
<1>1. Joined(Symptoms, Weights) /\ pc \in {"render", "done"}
  BY ServiceJoined DEF ServiceInv, EvaluationInv, ReportInv
<1>2. degradations # {} <=> Incomplete
  BY <1>1 DEF CollectedInv, DegradedInv, Unread, Incomplete, Looked
<1>3. ASSUME NEW id \in DOMAIN Absence, Told(id) PROVE Absence[id] \in Gone /\ IssueFound
  <2>1. PICK d \in ToSet(report) : d.id = id
    BY <1>3 DEF Told, ToSet
  <2>2. d \notin ToSet(podReport)
    BY <1>1, <1>3, <2>1, ReportFacts DEF MergedRow, PodIDs, Absence
  <2>3. PICK e \in ToSet(findings) : d.id = e.id /\ d.severity = e.severity
    BY <1>1, <2>1, <2>2, ReportFacts, ExplainedFacts DEF Joined, Tells
  <2>4. PICK r \in {1, 2, 3} : e \in ToSet(Rules[r])
    BY <2>3, RulesAreOwn, FoundFrom DEF ServiceInv, EvaluationInv, RulesInv
  <2>5. Absence[id] \in Gone /\ e.severity \in {"critical", "warning"}
    BY <1>3, <2>1, <2>3, <2>4, RuleAbsences
  <2> QED BY <1>1, <2>1, <2>3, <2>5, StatusFacts
<1>4. Missing \subseteq Gone /\ (Missing # {} => IssueFound)
  BY <1>3 DEF Missing
<1> QED BY <1>1, <1>2, <1>4, StatusFacts DEF JudgedInv, IssueFound, Statuses

\* Every step of the analysis is a step of Analysis, or none.
LEMMA ContractStep ==
  ASSUME ServiceInv, ServiceInv', CollectedInv, CollectedInv', JudgedInv', [Next]_vars
  PROVE  [Contract!Next]_Contract!vars
<1> USE DEF world, listing, verdict, podRules, Contract!vars
<1>1. Overspent = FALSE /\ Overspent' = FALSE
  BY DEF CollectedInv, CostInv, Overspent
<1>2. /\ Reported => pc \in {"render", "done"}
      /\ Reported' => pc' \in {"render", "done"}
      /\ ~Reported => report = <<>> /\ pc # "render"
      /\ ~Reported' => report' = <<>> /\ pc' # "render"
  BY DEF ServiceInv, EvaluationInv, ReportInv
<1>3. (report = <<>> => Missing = {}) /\ (report' = <<>> => Missing' = {})
  BY DEF Missing, Told
\* Before the report stands it says nothing.
<1>4. ASSUME pc \notin {"render", "done"}, pc' \notin {"render", "done"},
             UNCHANGED <<scenario, everAbsent, status, exit>>
      PROVE  UNCHANGED Contract!vars
  <2>1. ~Reported /\ ~Reported'
    BY <1>2, <1>4
  <2>2. /\ Stage = "open" /\ Stage' = "open" /\ Incomplete = FALSE /\ Incomplete' = FALSE
        /\ Missing = {} /\ Missing' = {}
    BY <1>2, <1>3, <1>4, <2>1 DEF Stage, Incomplete
  <2> QED BY <1>1, <1>4, <2>2, GoneFacts
\* Once it stands it does not change, whatever happens to the cluster.
<1>5. ASSUME UNCHANGED <<scenario, ownEvents, listing, endpoints, report, status>>
      PROVE  Incomplete' = Incomplete /\ Missing' = Missing
  BY <1>5 DEF Incomplete, Missing, Told, Looked, Reported, IsExternalName, HasSelector,
              needEvents, UnreadyIn
<1>6. CASE GetService
  <2>1. PICK a \in Lookup("service") :
          IF a = "ok" THEN pc' = "events" /\ UNCHANGED exit
                      ELSE pc' = "done" /\ exit' = reportError(a)
    BY <1>6 DEF GetService, Get
  <2>2. pc = "get" /\ UNCHANGED <<scenario, present, everAbsent, status, report>>
    BY <1>6 DEF GetService, Get
  <2>3. CASE a = "ok"
    BY <1>4, <2>1, <2>2, <2>3
  <2>4. CASE a # "ok"
    <3>1. exit' \in {2, 3, 4} /\ (exit' = 3 => a = "NotFound")
      BY <2>1, <2>4 DEF reportError
    <3>2. exit' = 3 => "service" \in Gone
      <4>1. a = "NotFound" => "service" \in everAbsent
        BY BackendsAssumption DEF Lookup, Answers, CollectedInv, SnapshotInv, Objects
      <4> QED BY <3>1, <4>1 DEF Gone
    <3>3. ~Reported /\ ~Reported'
      BY <1>2, <2>2 DEF Reported
    <3>4. /\ Stage = "open" /\ Stage' = "done" /\ Incomplete = FALSE /\ Incomplete' = FALSE
          /\ Missing = {} /\ Missing' = {}
      BY <1>2, <1>3, <2>1, <2>2, <2>4, <3>3 DEF Stage, Incomplete
    <3>5. Gone' = Gone /\ status' = status
      BY <2>2, GoneFacts
    <3> QED BY <1>1, <3>1, <3>2, <3>4, <3>5 DEF Contract!Next, Contract!Refuse
  <2> QED BY <2>3, <2>4
<1>7. CASE OwnEvents \/ endpointsFor \/ legacyEndpointsFor \/ listPods \/ ReadBackends
  BY <1>4, <1>7 DEF OwnEvents, eventsFor, endpointsFor, legacyEndpointsFor, AfterEndpoints,
                    listPods, ReadBackends, backendSnapshots
<1>8. CASE RunRule(Rules) \/ RulesDone(Rules) \/ RunPodRule \/ NextPod({}) \/ BackendFindings
  BY <1>4, <1>8 DEF RunRule, RulesDone, RunPodRule, NextPod, BackendFindings, PodFindings
<1>9. CASE ServiceReport
  <2>1. pc = "report" /\ pc' = "render" /\ UNCHANGED <<scenario, everAbsent, exit>>
    BY <1>9 DEF ServiceReport, Report
  <2>2. Reported' /\ Gone' = Gone /\ Stage = "open" /\ Stage' = "judged" /\ Incomplete' \in BOOLEAN
    BY <1>2, <2>1, GoneFacts DEF Stage, Incomplete, Reported
  <2> QED BY <1>1, <2>1, <2>2 DEF JudgedInv, Contract!Next, Contract!Judge
<1>10. CASE Render /\ UNCHANGED endpoints
  <2>1. /\ UNCHANGED <<scenario, everAbsent, ownEvents, listing, endpoints, report, status>>
        /\ pc = "render" /\ pc' = "done"
    BY <1>10 DEF Render
  <2>2. Incomplete' = Incomplete /\ Missing' = Missing /\ Gone' = Gone /\ status' = status
    BY <1>5, <2>1, GoneFacts
  <2>3. Stage = "judged" /\ Stage' = "done"
    BY <2>1 DEF Stage
  <2>4. exit' \in {2, IF status \in {"degraded", "unhealthy"} THEN 1 ELSE 0}
    BY <1>10 DEF Render, IssueFound
  <2> QED BY <1>1, <2>2, <2>3, <2>4 DEF Contract!Next, Contract!Exit
<1>11. CASE Drift /\ UNCHANGED endpoints
  <2>1. /\ UNCHANGED <<scenario, pc, ownEvents, listing, endpoints, report, status, exit>>
        /\ everAbsent \subseteq everAbsent' /\ pc # "done"
    BY <1>11 DEF Drift
  <2>2. Incomplete' = Incomplete /\ Missing' = Missing /\ Gone \subseteq Gone'
    BY <1>5, <2>1, GoneFacts
  <2>3. Stage' = Stage /\ Stage # "done"
    BY <2>1 DEF Stage
  <2> QED BY <1>1, <2>1, <2>2, <2>3 DEF Contract!Next, Contract!Vanish
<1>12. CASE (Expire /\ UNCHANGED endpoints) \/ UNCHANGED vars
  <2>1. UNCHANGED <<scenario, everAbsent, pc, ownEvents, listing, endpoints, report, status, exit>>
    BY <1>12 DEF Expire, vars, runVars
  <2>2. Incomplete' = Incomplete /\ Missing' = Missing /\ Gone' = Gone /\ Stage' = Stage
    BY <1>5, <2>1, GoneFacts DEF Stage
  <2> QED BY <1>1, <2>1, <2>2
<1> QED BY <1>6, <1>7, <1>8, <1>9, <1>10, <1>11, <1>12 DEF Next, Step, Evaluation, Terminated

\* For any Service, any number of Pods and any failures, an analysis keeps the safety part
\* of the contract all analyses share: it judges once, calls Pods or endpoints missing
\* only when they were, is healthy only when it looked at everything and unknown only
\* when it did not, exits as its verdict says and makes no more requests than it may.
THEOREM ContractSafe == Spec => Contract!Safety
<1>1. Init => Contract!Init
  <2> SUFFICES ASSUME Init PROVE Contract!Init
    OBVIOUS
  <2>1. ~Reported /\ Stage = "open" /\ report = <<>>
    BY DEF Init, InitRun, Reported, Stage
  <2>2. Incomplete = FALSE /\ Missing = {}
    BY <2>1 DEF Incomplete, Missing, Told
  <2>3. Overspent = FALSE
    BY CollectedBegins DEF CollectedInv, CostInv, Overspent
  <2> QED BY <2>1, <2>2, <2>3 DEF Init, InitRun, Contract!Init
<1>2. ServiceInv /\ ServiceInv' /\ CollectedInv /\ CollectedInv' /\ JudgedInv' /\ [Next]_vars
        => [Contract!Next]_Contract!vars
  BY ContractStep
<1> QED BY <1>1, <1>2, ServiceBegins, ServiceStep, CollectedBegins, CollectedStep, Judged, PTL
        DEF Spec, Contract!Safety

=============================================================================
