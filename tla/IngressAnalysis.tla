--------------------------- MODULE IngressAnalysis ---------------------------
(***************************************************************************)
(* One run of `kubectl why ingress NAME`: collect.Ingress, which resolves  *)
(* the class and every Service a path routes to, with its endpoints and,   *)
(* where none is ready, its Pods; the three rules, the Pod rules over the  *)
(* Pods of all Services together, and IngressReport.                       *)
(***************************************************************************)
EXTENDS Backends

CONSTANTS MaxServices, MaxPaths, Ports

\* The Services, in the order of their names.
Services == 1..MaxServices

\* An object that is not one of a Service's, and those that are.
O(kind) == <<kind, 0>>
Objects == {O("ingress"), O("class"), O("discovery")}
           \cup ({"service", "endpoints", "pods"} \X Services)

\* A path routes to a Service and port, or to no Service (0).  class is how the
\* Ingress names its class; old says that the grace period for an address is over.
\* A Service may be an ExternalName and have a selector at once.  A Pod that two
\* Services select is two entries, since each lists and judges it for itself: the
\* code counts it twice as well, in one aggregated finding that then names the same
\* Pod twice (aggregate.go:26-27), where subjects has both entries.
Scenario ==
  [address : BOOLEAN, old : BOOLEAN, class : {"named", "annotated", "none"},
   paths : Seq([service : {0} \cup Services, port : Ports]),
   services : [Services -> [external : BOOLEAN, selects : BOOLEAN, ports : SUBSET Ports,
                            ready : Nat, notReady : Nat]],
   pods : Seq([pod : Pod, events : SUBSET Event, age : Nat, service : Services]),
   absent : SUBSET Objects]

ASSUME IngressAssumption ==
  /\ MaxServices \in Nat /\ MaxPaths \in Nat
  /\ Scenarios \subseteq Scenario
  /\ \A s \in Scenarios : Len(s.paths) <= MaxPaths
  /\ Volatile \subseteq Objects

VARIABLES
  class,      \* what is known of the class it names, and of a default one
  services,   \* what is known of each Service resolved so far
  at          \* the place in the loop over the paths

own == <<class, services, at>>
vars == <<runVars, own>>

Unresolved == [exists |-> "unread", endpoints |-> NoEndpoints, listed |-> FALSE, pods |-> <<>>]

Init ==
  /\ InitRun(Objects)
  /\ class = [exists |-> "unknown", default |-> "unknown"]
  /\ services = [n \in Services |-> Unresolved]
  /\ at = 1

-----------------------------------------------------------------------------
(* The collectors *)

GetIngress == Get(O("ingress")) /\ UNCHANGED own

OwnEvents == eventsFor("class") /\ UNCHANGED own

\* No request while an address is published, or for a class that the annotation
\* names; a Get for a class named by the spec; a List for a default one.
collectIngressClass ==
  /\ pc = "class"
  /\ IF scenario.address \/ scenario.class = "annotated"
       THEN UNCHANGED <<calls, class, degradations>>
     ELSE IF scenario.class = "named"
       THEN /\ calls' = calls + 1
            /\ \E a \in Lookup(O("class")) :
                 /\ class' = [class EXCEPT !.exists = existence(a)]
                 /\ degradations' = degradations \cup existenceDegradation("ingressclasses", a)
       ELSE /\ calls' = calls + 1
            /\ \E a \in Answers("ok") :
                 /\ class' = IF a # "ok" THEN class
                             ELSE IF O("class") \in present
                               THEN [exists |-> "found", default |-> "found"]
                               ELSE [class EXCEPT !.default = "missing"]
                 /\ degradations' = degradations \cup degrade("ingressclasses", a)
  /\ pc' = "service"
  /\ UNCHANGED <<world, ownEvents, listing, services, at, verdict>>

ServiceOf(i) == scenario.paths[i].service

\* The paths at which a Service is met for the first time.
FirstPaths ==
  {i \in DOMAIN scenario.paths :
     ServiceOf(i) # 0 /\ \A j \in 1..(i - 1) : ServiceOf(j) # ServiceOf(i)}
ToResolve == Ascending(FirstPaths)

Met(k) == ServiceOf(ToResolve[k])

\* The Service being resolved, and what the cluster has of it.
Current == Met(at)
Declared == scenario.services[Current]
Published ==
  PublishedIf(<<"endpoints", Current>> \in present, Declared.ready, Declared.notReady)

GetService ==
  /\ pc = "service" /\ at \in DOMAIN ToResolve
  /\ calls' = calls + 1
  /\ \E a \in Lookup(<<"service", Current>>) :
       /\ services' = [services EXCEPT ![Current].exists = existence(a)]
       /\ degradations' = degradations \cup existenceDegradation("services", a)
       /\ pc' = IF a = "ok" THEN "endpoints" ELSE "service"
       /\ at' = IF a = "ok" THEN at ELSE at + 1
  /\ UNCHANGED <<world, ownEvents, listing, class, verdict>>

\* The Pods of a Service only matter when it publishes nothing.
NeedsPods(endpoints) == endpoints.known /\ endpoints.ready = 0 /\ Declared.selects

\* What is known of the endpoints now, and whether the Pods come next or another Service.
Endpoints(endpoints) ==
  /\ services' = [services EXCEPT ![Current].endpoints = endpoints]
  /\ pc' = IF NeedsPods(endpoints) THEN "pods" ELSE "service"
  /\ at' = IF NeedsPods(endpoints) THEN at ELSE at + 1

endpointsFor ==
  /\ pc = "endpoints"
  /\ calls' = calls + 1
  /\ \E a \in Lookup(O("discovery")) :
       /\ degradations' = degradations \cup existenceDegradation("endpointslices", a)
       /\ IF a = "NotFound" THEN pc' = "legacy" /\ UNCHANGED <<services, at>>
                            ELSE Endpoints(slicesKnown(a, Published))
  /\ UNCHANGED <<world, ownEvents, listing, class, verdict>>

legacyEndpointsFor ==
  /\ pc = "legacy"
  /\ calls' = calls + 1
  /\ \E a \in Lookup(<<"endpoints", Current>>) :
       /\ degradations' = degradations \cup existenceDegradation("endpoints", a)
       /\ Endpoints(legacyKnown(a, Published))
  /\ UNCHANGED <<world, ownEvents, listing, class, verdict>>

\* The Pods that the selector of Service n matches.
Matching(n) ==
  Ascending({i \in DOMAIN scenario.pods :
               <<"pods", n>> \in present /\ scenario.pods[i].service = n})

listPods ==
  /\ pc = "pods"
  /\ calls' = calls + 1
  /\ \E a \in Answers("ok") :
       /\ services' = IF a = "ok"
                      THEN [services EXCEPT ![Current].listed = TRUE, ![Current].pods = Matching(Current)]
                      ELSE services
       /\ degradations' = degradations \cup degrade("pods", a)
       /\ pc' = IF a = "ok" THEN "backends" ELSE "service"
       /\ at' = IF a = "ok" THEN at ELSE at + 1
  /\ UNCHANGED <<world, ownEvents, listing, class, verdict>>

ReadBackends ==
  /\ pc = "backends"
  /\ backendSnapshots(services[Current].pods, "service")
  /\ at' = at + 1
  /\ UNCHANGED <<ownEvents, listed, backends, class, services, verdict>>

\* The Pods of all Services, and their order: by the Services' names, then as listed.
Gathered == UNION {ToSet(services[n].pods) : n \in Services}
ByService(i, j) ==
  LET m == scenario.pods[i].service
      n == scenario.pods[j].service
  IN  m < n \/ (m = n /\ i < j)

\* Every path has its Service.  The Pods are gathered when the Pod rules run over them.
ServicesRead ==
  /\ pc = "service" /\ at \notin DOMAIN ToResolve
  /\ backends' = InOrder(Gathered, {p \in Gathered \X Gathered : ByService(p[1], p[2])})
  /\ pc' = "rules"
  /\ UNCHANGED <<world, calls, ownEvents, listed, podEvents, degradations, own, verdict>>

-----------------------------------------------------------------------------
(* The Ingress rules *)

PathsTo(n) == {i \in DOMAIN scenario.paths : ServiceOf(i) = n}

\* Mutant: only the first path to the Service has its port looked up.
portDiagnosisFirst(n) ==
  \E i \in PathsTo(n) : /\ \A j \in PathsTo(n) : i <= j
                        /\ scenario.paths[i].port \notin scenario.services[n].ports

\* Some path names a port that the Service does not have.
portDiagnosis(n) == \E i \in PathsTo(n) : scenario.paths[i].port \notin scenario.services[n].ports

\* The Service is known to have no ready endpoint, and not by design.
endpointDiagnosis(n) ==
  /\ services[n].endpoints.known /\ services[n].endpoints.ready = 0
  /\ ~scenario.services[n].external

\* The first broken link behind a Service, if any.
BackendDiagnosis(n) ==
  CASE services[n].exists = "missing" -> "INGRESS_SERVICE_NOT_FOUND"
    [] services[n].exists = "found" /\ portDiagnosis(n) -> "INGRESS_SERVICE_PORT_NOT_FOUND"
    [] services[n].exists = "found" /\ ~portDiagnosis(n) /\ endpointDiagnosis(n) ->
         "INGRESS_SERVICE_NO_ENDPOINTS"
    [] OTHER -> "none"

Broken == {n \in Services : BackendDiagnosis(n) # "none"}
brokenFinding(n) == OwnFinding(BackendDiagnosis(n), n, "critical", "certain")

evaluateBackends ==
  IF scenario.paths = <<>> THEN <<OwnFinding("INGRESS_NO_RULES", 0, "warning", "certain")>>
  ELSE LET names == Ascending(Broken)
       IN  [k \in DOMAIN names |-> brokenFinding(names[k])]

evaluateClass ==
  IF class.exists = "missing"
    THEN If(~scenario.address, OwnFinding("INGRESS_CLASS_NOT_FOUND", 0, "critical", "certain"))
    ELSE If(~scenario.address /\ class.default = "missing",
            OwnFinding("INGRESS_NO_CLASS", 0, "warning", "likely"))

\* Mutant: the address is left to the class unless a class was found.
ClassExplainsUnknown == class.exists # "found"

\* A class that is missing already explains that there is no address.
ClassExplains == class.exists = "missing" \/ class.default = "missing"

\* Mutant: an address that is published is overlooked.
evaluateAddressUnseen ==
  If(scenario.old /\ ~ClassExplains, OwnFinding("INGRESS_NO_ADDRESS", 0, "warning", "possible"))

evaluateAddress ==
  If(~scenario.address /\ scenario.old /\ ~ClassExplains,
     OwnFinding("INGRESS_NO_ADDRESS", 0, "warning", "possible"))

Rules == <<evaluateBackends, evaluateClass, evaluateAddress>>

-----------------------------------------------------------------------------
(* The report *)

AsFound == [s \in Severities |-> s]

BackendFindings == PodFindings(AsFound)

Symptoms == {"INGRESS_SERVICE_NO_ENDPOINTS"}

IngressReport == Report(Symptoms)

Evaluation ==
  /\ \/ RunRule(Rules) \/ RulesDone(Rules) \/ RunPodRule \/ NextPod({})
     \/ BackendFindings \/ IngressReport \/ Render
  /\ UNCHANGED own

Terminated == pc = "done" /\ UNCHANGED vars

Step ==
  \/ GetIngress \/ OwnEvents \/ collectIngressClass
  \/ GetService \/ endpointsFor \/ legacyEndpointsFor \/ listPods \/ ReadBackends \/ ServicesRead
  \/ Evaluation

Next == Step \/ ((Expire \/ Drift) /\ UNCHANGED own) \/ Terminated

Spec == Init /\ [][Next]_vars

\* Every request returns, because the context and the client bound it.
FairSpec == Spec /\ WF_vars(Step)

-----------------------------------------------------------------------------
(* Properties *)

Evaluated == Reported /\ next > Len(Rules)

\* What is known of the Service says that a request for path i gets no answer.
Dead(i) ==
  LET n == ServiceOf(i)
  IN  /\ n # 0
      /\ \/ services[n].exists = "missing"
         \/ services[n].exists = "found" /\ scenario.paths[i].port \notin scenario.services[n].ports
         \/ /\ services[n].exists = "found" /\ ~scenario.services[n].external
            /\ services[n].endpoints.known /\ services[n].endpoints.ready = 0

\* "Each broken backend is reported once, however many paths route to it"
\* (rules/ingress/ingress.go:71-73): when the rules ran, a Service has one finding if
\* a path to it is dead, as far as its links could be read, and none otherwise.
BrokenBackendToldOnce ==
  Evaluated => \A n \in Services :
    Cardinality({k \in DOMAIN report : report[k].count = 0 /\ report[k].about = n}) =
      IF \E i \in PathsTo(n) : Dead(i) THEN 1 ELSE 0

\* "A missing or unknown class already explains this, and saying it twice would bury
\* the actionable finding" (rules/ingress/ingress.go:316-317): an Ingress that has
\* waited long enough for an address gets one finding about that, whichever of the
\* class and the address rule makes it and whatever could be read of the class.
AddressToldOnce ==
  Evaluated /\ ~scenario.address /\ scenario.old =>
    Cardinality({k \in DOMAIN report :
                   report[k].id \in {"INGRESS_CLASS_NOT_FOUND", "INGRESS_NO_CLASS",
                                     "INGRESS_NO_ADDRESS"}}) = 1

\* "The Pods are only worth collecting when the Service publishes nothing"
\* (collect/ingress.go:159): an Ingress that is served and whose paths all lead to
\* a ready endpoint is no issue, whatever its Pods suffer.
ServedIsNoIssue ==
  /\ Reported /\ scenario.address /\ scenario.paths # <<>>
  /\ \A i \in DOMAIN scenario.paths :
       LET n == ServiceOf(i)
       IN  n # 0 => /\ services[n].exists = "found" /\ services[n].endpoints.ready > 0
                    /\ scenario.paths[i].port \in scenario.services[n].ports
  => ~IssueFound

\* What the report calls missing, and what was missing at some moment of the run.
Missing ==
  LET Lacking(ids) == {d \in ToSet(report) : d.id \in ids}
  IN  {<<"service", d.about>> : d \in Lacking({"INGRESS_SERVICE_NOT_FOUND"})}
      \cup {<<"endpoints", d.about>> : d \in Lacking({"INGRESS_SERVICE_NO_ENDPOINTS"})}
      \cup {O("class") : d \in Lacking({"INGRESS_CLASS_NOT_FOUND", "INGRESS_NO_CLASS"})}
Gone == everAbsent \cup {<<"endpoints", n>> : n \in {m \in Services : scenario.services[m].ready = 0}}

\* The class was read, if it matters.
ClassRead ==
  \/ scenario.address \/ scenario.class = "annotated"
  \/ scenario.class = "named" /\ class.exists # "unknown"
  \/ scenario.class = "none" /\ class.default # "unknown"

\* A Service was read with its endpoints and, if they matter, its Pods and their events.
Resolved(n) ==
  LET s == services[n]
  IN  \/ s.exists = "missing"
      \/ /\ s.exists = "found" /\ s.endpoints.known
         /\ s.endpoints.ready = 0 /\ scenario.services[n].selects
              => s.listed /\ needEvents(s.pods) \subseteq podEvents

\* The events, the class and every Service were read.
Looked ==
  /\ ownEvents /\ ClassRead
  /\ \A i \in DOMAIN scenario.paths : ServiceOf(i) # 0 => Resolved(ServiceOf(i))

Incomplete == Reported /\ ~Looked

\* "resolved once per Service rather than once per path" (snapshot/ingress.go:13-14):
\* an Ingress costs three requests and, for each Service and not for each path, at
\* most four and one for each of maxBackendEvents Pods.
Overspent ==
  calls > 3 + (4 + MaxBackendEvents) * Cardinality({ServiceOf(i) : i \in DOMAIN scenario.paths} \ {0})

Contract == INSTANCE Analysis WITH
  Requested <- O("ingress"), stage <- Stage, gone <- Gone,
  incomplete <- Incomplete, overspent <- Overspent, missing <- Missing

\* An Ingress analysis is an Analysis: a link of the chain that could not be read is
\* not told as a broken one (rules/ingress/ingress.go:112-113), so a Service, ready
\* endpoints or a class that it calls missing were missing at some moment; it is
\* healthy only when every link was read (report.go:94-97), each of them once.
ContractKept == Contract!Spec

=============================================================================
