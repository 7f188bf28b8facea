--------------------------- MODULE ServiceAnalysis ---------------------------
(***************************************************************************)
(* One run of `kubectl why service NAME`: collect.Service, the Service     *)
(* rules, the Pod rules over every Pod the selector matches, and           *)
(* ServiceReport, which tells the two as one story.                        *)
(***************************************************************************)
EXTENDS Backends

CONSTANTS Ports

\* discovery is the EndpointSlice API, pods whether the Pods were created,
\* endpoints whether anything was published.
Objects == {"service", "discovery", "endpoints", "pods"}

\* A Pod behind the Service, with the ports its containers name.
Backend == [pod : Pod, events : SUBSET Event, age : Nat, ports : SUBSET Ports]

\* kind tells a DNS alias, a Service with a selector and one whose endpoints others
\* manage; targets are the ports it refers to by name; ready and notReady count
\* the endpoints.
Scenario ==
  [kind : {"ExternalName", "selector", "manual"}, targets : SUBSET Ports,
   ready : Nat, notReady : Nat, absent : SUBSET Objects,
   pods : UNION {[1..n -> Backend] : n \in 0..MaxPods}]

ASSUME ServiceAssumption ==
  /\ \A s \in Scenarios : /\ s.kind \in {"ExternalName", "selector", "manual"}
                          /\ s.targets \subseteq Ports
                          /\ s.ready \in Nat /\ s.notReady \in Nat
                          /\ s.absent \subseteq Objects
  /\ Volatile \subseteq Objects
  /\ IsFiniteSet(Ports)

VARIABLE endpoints    \* EndpointSet, as whether it is known and the two counts

vars == <<runVars, endpoints>>

Init == InitRun(Objects) /\ endpoints = NoEndpoints

-----------------------------------------------------------------------------
(* The collectors *)

IsExternalName == scenario.kind = "ExternalName"
HasSelector == scenario.kind = "selector"

GetService == Get("service") /\ UNCHANGED endpoints

\* A DNS alias has no endpoints by design: nothing further is read.
OwnEvents == eventsFor(IF IsExternalName THEN "rules" ELSE "endpoints") /\ UNCHANGED endpoints

Published == PublishedIf("endpoints" \in present, scenario.ready, scenario.notReady)

AfterEndpoints == IF HasSelector THEN "pods" ELSE "rules"

\* An answer that the API is not served leads to the older one.
endpointsFor ==
  /\ pc = "endpoints"
  /\ calls' = calls + 1
  /\ \E a \in Lookup("discovery") :
       /\ endpoints' = slicesKnown(a, Published)
       /\ degradations' = degradations \cup existenceDegradation("endpointslices", a)
       /\ pc' = IF a = "NotFound" THEN "legacy" ELSE AfterEndpoints
  /\ UNCHANGED <<world, ownEvents, listing, verdict>>

legacyEndpointsFor ==
  /\ pc = "legacy"
  /\ calls' = calls + 1
  /\ \E a \in Lookup("endpoints") :
       /\ endpoints' = legacyKnown(a, Published)
       /\ degradations' = degradations \cup existenceDegradation("endpoints", a)
  /\ pc' = AfterEndpoints
  /\ UNCHANGED <<world, ownEvents, listing, verdict>>

listPods ==
  /\ pc = "pods"
  /\ calls' = calls + 1
  /\ \E a \in Answers("ok") :
       /\ listed' = (a = "ok")
       /\ backends' = IF a = "ok" /\ "pods" \in present
                      THEN [i \in DOMAIN scenario.pods |-> i] ELSE <<>>
       /\ degradations' = degradations \cup degrade("pods", a)
       /\ pc' = IF a = "ok" THEN "backends" ELSE "rules"
  /\ UNCHANGED <<world, ownEvents, podEvents, endpoints, verdict>>

ReadBackends ==
  /\ pc = "backends"
  /\ backendSnapshots(backends, "rules")
  /\ UNCHANGED <<ownEvents, listed, backends, endpoints, verdict>>

-----------------------------------------------------------------------------
(* The Service rules *)

Total == endpoints.ready + endpoints.notReady

ServiceFinding(id, about, severity) == OwnFinding(id, about, severity, "certain")

\* The selector is known to match nothing.
NoPods == listed /\ backends = <<>>

evaluateSelector ==
  IF IsExternalName THEN <<>>
  ELSE IF ~HasSelector
    THEN IF endpoints.known /\ Total = 0
           THEN <<ServiceFinding("SERVICE_NO_ENDPOINTS_WITHOUT_SELECTOR", "service", "warning")>>
           ELSE <<>>
  ELSE IF NoPods
    THEN <<ServiceFinding("SERVICE_NO_MATCHING_PODS", "service", "critical")>>
    ELSE <<>>

\* Mutant: endpoints that were never published are nobody's concern.
evaluateEndpointsPublished ==
  IF IsExternalName \/ ~endpoints.known \/ Total = 0 THEN <<>>
  ELSE IF endpoints.ready = 0
    THEN <<ServiceFinding("SERVICE_NO_READY_ENDPOINTS", "service", "critical")>>
  ELSE IF endpoints.notReady > 0
    THEN <<ServiceFinding("SERVICE_SOME_ENDPOINTS_NOT_READY", "service", "warning")>>
    ELSE <<>>

\* A Service without Pods, or without a selector and endpoints, is left to the
\* selector rule.
evaluateEndpoints ==
  IF \/ IsExternalName \/ ~endpoints.known
     \/ HasSelector /\ backends = <<>>
     \/ ~HasSelector /\ Total = 0
    THEN <<>>
  ELSE IF endpoints.ready = 0
    THEN <<ServiceFinding("SERVICE_NO_READY_ENDPOINTS", "service", "critical")>>
  ELSE IF endpoints.notReady > 0
    THEN <<ServiceFinding("SERVICE_SOME_ENDPOINTS_NOT_READY", "service", "warning")>>
    ELSE <<>>

declaredPortNames == UNION {scenario.pods[i].ports : i \in ToSet(backends)}

evaluateTargetPorts ==
  IF IsExternalName \/ backends = <<>> THEN <<>>
  ELSE SetToSeq({ServiceFinding("SERVICE_TARGET_PORT_NOT_FOUND", p, "critical") :
                   p \in scenario.targets \ declaredPortNames})

Rules == <<evaluateSelector, evaluateEndpoints, evaluateTargetPorts>>

-----------------------------------------------------------------------------
(* The report *)

\* Mutant: a broken Pod is as grave for the Service as for itself.
SeverityAsFound(severity) == severity

\* While an endpoint is ready, a broken Pod degrades the Service.
SeverityForService(severity) ==
  IF endpoints.ready > 0 /\ severity = "critical" THEN "warning" ELSE severity

BackendFindings == PodFindings([s \in Severities |-> SeverityForService(s)])

ServiceReport == Report({"SERVICE_NO_READY_ENDPOINTS"})

\* Evaluation, aggregation and report, which read the snapshot and do not change it.
Evaluation ==
  /\ \/ RunRule(Rules) \/ RulesDone(Rules) \/ RunPodRule \/ NextPod({})
     \/ BackendFindings \/ ServiceReport \/ Render
  /\ UNCHANGED endpoints

Terminated == pc = "done" /\ UNCHANGED vars

Step ==
  \/ GetService \/ OwnEvents \/ endpointsFor \/ legacyEndpointsFor \/ listPods
  \/ ReadBackends \/ Evaluation

Next == Step \/ ((Expire \/ Drift) /\ UNCHANGED endpoints) \/ Terminated

Spec == Init /\ [][Next]_vars

\* Every request returns, because the context and the client bound it.
FairSpec == Spec /\ WF_vars(Step)

-----------------------------------------------------------------------------
(* Properties *)

Evaluated == Reported /\ next > Len(Rules)

\* What the report calls missing, and what was missing at some moment of the run.
Absence == [SERVICE_NO_MATCHING_PODS |-> "pods", SERVICE_NO_READY_ENDPOINTS |-> "ready endpoints",
            SERVICE_NO_ENDPOINTS_WITHOUT_SELECTOR |-> "endpoints"]
Gone ==
  everAbsent
  \cup (IF Len(scenario.pods) = 0 THEN {"pods"} ELSE {})
  \cup (IF "endpoints" \in everAbsent \/ scenario.ready = 0 THEN {"ready endpoints"} ELSE {})
  \cup (IF scenario.ready + scenario.notReady = 0 THEN {"endpoints"} ELSE {})

\* The events, the endpoints, the Pods and the events of the first unready ones were
\* read.
Looked ==
  /\ ownEvents
  /\ IsExternalName \/ endpoints.known
  /\ HasSelector => listed
  /\ needEvents(backends) \subseteq podEvents

\* However many Pods it has, a Service costs four requests, a fifth where the
\* discovery API is not served, and one for each of maxBackendEvents Pods; a DNS
\* alias costs two (collect/service.go:18-22, 44-48).
Overspent ==
  calls > IF IsExternalName THEN 2
          ELSE 4 + Cardinality(everAbsent \cap {"discovery"}) + MaxBackendEvents

Incomplete == Reported /\ ~Looked
Missing == {Absence[id] : id \in {x \in DOMAIN Absence : Told(x)}}

Contract == INSTANCE Analysis WITH
  Requested <- "service", stage <- Stage, gone <- Gone,
  incomplete <- Incomplete, overspent <- Overspent, missing <- Missing

\* A Service analysis is an Analysis: Pods and endpoints that it calls missing were
\* missing at some moment, whichever endpoints API answered (snapshot/service.go:53-55:
\* "so that no rule mistakes "could not look" for "none exist""); it calls healthy
\* only what it looked at (report.go:94-97); it judges once, within its number of
\* requests, and exits accordingly, with every goroutine returned.
ContractKept == Contract!Spec

\* The selector and the endpoints rule each leave some cases to the other
\* (rules.go:118-125): when Pods and endpoints were both read, a Service that
\* routes to nothing is an issue, and a grave one if it selects its Pods itself.
OutageReported ==
  /\ Evaluated /\ ~IsExternalName
  /\ endpoints.known /\ endpoints.ready = 0
  /\ HasSelector => listed
  => IF HasSelector THEN status = "unhealthy" ELSE IssueFound

\* "while at least one endpoint is ready the Service still routes traffic, so a
\* broken backend degrades it rather than breaking it" (service/service.go:50-52):
\* whatever its Pods suffer, such a Service is unhealthy only for its own reasons.
RoutingIsNotBroken ==
  /\ Reported /\ endpoints.ready > 0
  /\ ~Told("SERVICE_NO_MATCHING_PODS") /\ ~Told("SERVICE_TARGET_PORT_NOT_FOUND")
  => status # "unhealthy"

\* "KubeWhy never goes quiet on a resource that is not working"
\* (docs/rules/PVC_PENDING.md:12): every listed Pod that is neither ready nor
\* finished is a subject of the report, whether or not its events were read and
\* the rules all ran.
NoPodForgotten ==
  Reported => \A i \in ToSet(backends) :
    \/ podIsReady(scenario.pods[i].pod) \/ IsTerminal(scenario.pods[i].pod)
    \/ \E k \in DOMAIN report : i \in report[k].subjects

=============================================================================
