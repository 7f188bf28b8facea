------------------------- MODULE StatefulSetAnalysis -------------------------
(***************************************************************************)
(* One run of `kubectl why statefulset NAME`: collect.StatefulSet with its *)
(* Pods in the order of their ordinals, the governing Service and a claim  *)
(* for each ordinal and template, the five rules, the Pod rules over the   *)
(* replicas, and StatefulSetReport.                                        *)
(***************************************************************************)
EXTENDS Backends

CONSTANTS MaxReplicas, MaxTemplates     \* bounds on the ordinals and the claim templates

Ordinals == 0..(MaxReplicas - 1)

\* An object the run asks for, and the claim of one ordinal and template.
O(kind) == <<kind, 0, 0>>
Claim(t, o) == <<"claim", t, o>>
Objects == {O("statefulset"), O("pods"), O("service"), O("class")}
           \cup {Claim(t, o) : t \in 1..MaxTemplates, o \in Ordinals}

\* The replicas asked for are -1 when the field is unset; pending says that the
\* Pods are on another revision than the spec; partitioned that the rolling update
\* has a partition, which may be left over when the strategy is OnDelete.  service is
\* how the governing Service is named and made; class how the templates ask for a
\* storage class.  The Pods are in the API server's order, and those of the set have
\* an ordinal, since its controller neither creates nor adopts others.  selectable is
\* whether the selector can be parsed, which the API server normally sees to.
Scenario ==
  [replicas : {-1} \cup Ordinals \cup {MaxReplicas}, ready : Nat, ordered : BOOLEAN,
   strategy : {"rolling", "onDelete"}, partitioned : BOOLEAN, pending : BOOLEAN,
   selectable : BOOLEAN, service : {"none", "headless", "clusterIP"},
   templates : 0..MaxTemplates, class : {"none", "named", "default"}, waits : BOOLEAN,
   phases : [(1..MaxTemplates) \X Ordinals -> ClaimPhases],
   pods : Seq([pod : Pod, events : SUBSET Event, age : Nat, owned : BOOLEAN, ordinal : Nat]),
   absent : SUBSET Objects]

ASSUME StatefulSetAssumption ==
  /\ MaxReplicas \in Nat \ {0} /\ MaxTemplates \in Nat
  /\ \A s \in Scenarios : /\ s.replicas \in -1..MaxReplicas /\ s.templates \in 0..MaxTemplates
                          /\ s.ready \in Nat /\ s.absent \subseteq Objects
                          /\ s.ordered \in BOOLEAN /\ s.pending \in BOOLEAN /\ s.waits \in BOOLEAN
                          /\ s.partitioned \in BOOLEAN /\ s.selectable \in BOOLEAN
                          /\ s.service \in {"none", "headless", "clusterIP"}
                          /\ \A i \in DOMAIN s.pods : s.pods[i].ordinal \in Nat
  /\ Volatile \subseteq Objects

\* A Pod that the kubelet publishes as ready is on a node, and its containers run or,
\* if they were to run before the others, have completed.
ASSUME KubeletAssumption ==
  \A s \in Scenarios : \A i \in DOMAIN s.pods :
    podIsReady(s.pods[i].pod) =>
      /\ s.pods[i].pod.bound /\ ~s.pods[i].pod.evicted
      /\ \A n \in ContainerNames : s.pods[i].pod.containers[n].state \in {"running", "Completed"}

VARIABLES
  service,   \* what is known of the governing Service
  claims,    \* what is known of each claim read, by template and ordinal
  at         \* the place in the loop over the claims

own == <<service, claims, at>>
vars == <<runVars, own>>

Init ==
  /\ InitRun(Objects)
  /\ service = [exists |-> "unread", headless |-> FALSE] /\ claims = <<>> /\ at = 1

-----------------------------------------------------------------------------
(* The collectors *)

DesiredReplicas == IF scenario.replicas = -1 THEN 1 ELSE scenario.replicas

GetStatefulSet == Get(O("statefulset")) /\ UNCHANGED own

OwnEvents == eventsFor("pods") /\ UNCHANGED own

Ordinal(i) == scenario.pods[i].ordinal

\* Mutant: the Pods stay in the order of their names, with 10 before 2.
ByOrdinalUnsorted(i, j) == i < j

ByOrdinal(i, j) == Ordinal(i) < Ordinal(j) \/ (Ordinal(i) = Ordinal(j) /\ i < j)

Owned == {i \in DOMAIN scenario.pods : scenario.pods[i].owned}

\* A selector that cannot be parsed: the Pods are given up and the rest is read.
invalidSelector ==
  /\ pc = "pods" /\ ~scenario.selectable
  /\ degradations' = degradations \cup degrade("pods", "Error")
  /\ pc' = "service"
  /\ UNCHANGED <<world, calls, ownEvents, listing, own, verdict>>

collectStatefulSetPods ==
  /\ pc = "pods" /\ scenario.selectable
  /\ calls' = calls + 1
  /\ \E a \in Answers("ok") :
       /\ listed' = (a = "ok")
       /\ backends' = IF a = "ok" /\ O("pods") \in present
                      THEN InOrder(Owned, {p \in Owned \X Owned : ByOrdinal(p[1], p[2])})
                      ELSE <<>>
       /\ degradations' = degradations \cup degrade("pods", a)
       /\ pc' = IF a = "ok" THEN "backends" ELSE "service"
  /\ UNCHANGED <<world, ownEvents, podEvents, own, verdict>>

ReadBackends ==
  /\ pc = "backends"
  /\ backendSnapshots(backends, "service")
  /\ UNCHANGED <<ownEvents, listed, backends, own, verdict>>

\* No request for a StatefulSet that names no Service.
collectHeadlessService ==
  /\ pc = "service"
  /\ IF scenario.service = "none"
       THEN UNCHANGED <<calls, service, degradations>>
       ELSE /\ calls' = calls + 1
            /\ \E a \in Lookup(O("service")) :
                 /\ service' = [exists |-> existence(a),
                                headless |-> a = "ok" /\ scenario.service = "headless"]
                 /\ degradations' = degradations \cup existenceDegradation("services", a)
  /\ pc' = "claims"
  /\ UNCHANGED <<world, ownEvents, listing, claims, at, verdict>>

allPodsReady == Len(backends) >= DesiredReplicas /\ UnreadyIn(backends) = {}

\* Mutant: a set whose Pods are all there has its claims read.
ClaimsToReadAlways == DesiredReplicas * scenario.templates

\* How many claims the loop reads.  They only matter when a Pod is not ready.
ClaimsToRead == IF allPodsReady THEN 0 ELSE DesiredReplicas * scenario.templates

\* The claim at place n of the loop: all templates of ordinal 0, then of 1, and so on.
ClaimAt(n) == <<((n - 1) % scenario.templates) + 1, (n - 1) \div scenario.templates>>

\* A claim that was found and has not bound has its storage class looked up next.
ReadClaim ==
  /\ pc = "claims" /\ at <= ClaimsToRead
  /\ calls' = calls + 1
  /\ LET c == ClaimAt(at)
     IN  \E a \in Lookup(Claim(c[1], c[2])) :
           LET unbound == a = "ok" /\ scenario.phases[c] # "Bound" /\ scenario.class # "none"
               read == [exists |-> existence(a), waits |-> FALSE,
                        phase |-> IF a = "ok" THEN scenario.phases[c] ELSE "none"]
           IN  /\ claims' = [d \in DOMAIN claims \cup {c} |-> IF d = c THEN read ELSE claims[d]]
               /\ degradations' = degradations \cup existenceDegradation("persistentvolumeclaims", a)
               /\ pc' = IF unbound THEN "class" ELSE "claims"
               /\ at' = IF unbound THEN at ELSE at + 1
  /\ UNCHANGED <<world, ownEvents, listing, service, verdict>>

storageClassInfo ==
  /\ pc = "class"
  /\ calls' = calls + 1
  /\ \E a \in Lookup(O("class")) :
       /\ claims' = [claims EXCEPT ![ClaimAt(at)].waits = (a = "ok" /\ scenario.waits)]
       /\ degradations' = degradations \cup existenceDegradation("storageclasses", a)
  /\ pc' = "claims" /\ at' = at + 1
  /\ UNCHANGED <<world, ownEvents, listing, service, verdict>>

ClaimsRead ==
  /\ pc = "claims" /\ at > ClaimsToRead
  /\ pc' = "rules"
  /\ UNCHANGED <<world, calls, ownEvents, listing, degradations, own, verdict>>

-----------------------------------------------------------------------------
(* The StatefulSet rules *)

SetFinding(id, about, severity) == OwnFinding(id, about, severity, "certain")

MissingOrdinals == (0..(DesiredReplicas - 1)) \ {Ordinal(i) : i \in ToSet(backends)}

\* The first Pod of the list that is not ready.
FirstUnready == backends[Min(UnreadyIn(backends))]

evaluateOrdering ==
  IF ~scenario.ordered \/ UnreadyIn(backends) = {} \/ MissingOrdinals = {} THEN <<>>
  ELSE <<SetFinding("STATEFULSET_ORDERED_ROLLOUT_BLOCKED", Ordinal(FirstUnready), "critical")>>

\* In the order of the claims' names, which begin with the template (for ordinals of
\* one digit).
ByName(c, d) == c[1] < d[1] \/ (c[1] = d[1] /\ c[2] < d[2])

Unusable(c) ==
  claims[c].exists = "missing" \/ (claims[c].exists = "found" /\ claims[c].phase # "Bound")

claimFinding(c) ==
  IF claims[c].exists = "missing" THEN SetFinding("STATEFULSET_CLAIM_NOT_FOUND", c, "critical")
  ELSE SetFinding("STATEFULSET_CLAIM_NOT_BOUND", c, IF claims[c].waits THEN "info" ELSE "critical")

evaluateReplicaClaims ==
  LET unusable == {c \in DOMAIN claims : Unusable(c)}
      names == InOrder(unusable, {p \in unusable \X unusable : ByName(p[1], p[2])})
  IN  [k \in DOMAIN names |-> claimFinding(names[k])]

evaluateService ==
  If(service.exists = "missing", SetFinding("STATEFULSET_SERVICE_NOT_FOUND", "service", "warning"))
  \o If(service.exists = "found" /\ ~service.headless,
        SetFinding("STATEFULSET_SERVICE_NOT_HEADLESS", "service", "warning"))

\* Mutant: a rollout that is held is one that is stuck.
evaluateUpdateStrategyStuck ==
  IF DesiredReplicas = 0 THEN <<SetFinding("STATEFULSET_SCALED_TO_ZERO", "statefulset", "info")>>
  ELSE If(scenario.strategy = "onDelete" /\ scenario.pending,
          SetFinding("STATEFULSET_UPDATE_ON_DELETE", "statefulset", "warning"))
       \o If(scenario.partitioned /\ scenario.pending,
             SetFinding("STATEFULSET_UPDATE_PARTITIONED", "statefulset", "warning"))

evaluateUpdateStrategy ==
  IF DesiredReplicas = 0 THEN <<SetFinding("STATEFULSET_SCALED_TO_ZERO", "statefulset", "info")>>
  ELSE If(scenario.strategy = "onDelete" /\ scenario.pending,
          SetFinding("STATEFULSET_UPDATE_ON_DELETE", "statefulset", "info"))
       \o If(scenario.partitioned /\ scenario.pending,
             SetFinding("STATEFULSET_UPDATE_PARTITIONED", "statefulset", "info"))

evaluateAvailability ==
  If(DesiredReplicas # 0 /\ scenario.ready < DesiredReplicas,
     SetFinding("STATEFULSET_UNAVAILABLE_REPLICAS", "statefulset",
                IF scenario.ready > 0 THEN "warning" ELSE "critical"))

Rules == <<evaluateOrdering, evaluateReplicaClaims, evaluateService, evaluateUpdateStrategy,
           evaluateAvailability>>

-----------------------------------------------------------------------------
(* The report *)

\* Mutant: a claim that could not be read explains its replica as well.
podsBlockedByTheirClaimUnread ==
  {i \in ToSet(backends) :
     \E c \in DOMAIN claims :
       c[2] = Ordinal(i) /\ ~(claims[c].exists = "found" /\ claims[c].phase = "Bound")}

\* The replicas whose own volume is missing or unbound.
podsBlockedByTheirClaim ==
  {i \in ToSet(backends) : \E c \in DOMAIN claims : c[2] = Ordinal(i) /\ Unusable(c)}

AsFound == [s \in Severities |-> s]

ReplicaFindings == PodFindings(AsFound)

Symptoms == {"STATEFULSET_UNAVAILABLE_REPLICAS"}

StatefulSetReport == Report(Symptoms)

Evaluation ==
  /\ \/ RunRule(Rules) \/ RulesDone(Rules) \/ RunPodRule \/ NextPod(podsBlockedByTheirClaim)
     \/ ReplicaFindings \/ StatefulSetReport \/ Render
  /\ UNCHANGED own

Terminated == pc = "done" /\ UNCHANGED vars

Step ==
  \/ GetStatefulSet \/ OwnEvents \/ invalidSelector \/ collectStatefulSetPods \/ ReadBackends
  \/ collectHeadlessService \/ ReadClaim \/ storageClassInfo \/ ClaimsRead \/ Evaluation

Next == Step \/ ((Expire \/ Drift) /\ UNCHANGED own) \/ Terminated

Spec == Init /\ [][Next]_vars

\* Every request returns, because the context and the client bound it.
FairSpec == Spec /\ WF_vars(Step)

-----------------------------------------------------------------------------
(* Properties *)

Evaluated == Reported /\ next > Len(Rules)

Unready == {i \in ToSet(backends) : ~podIsReady(scenario.pods[i].pod)}

\* "Ordinal order, not the API's lexicographic order, which puts pod-10 before pod-2
\* and would make the ordering rules nonsense" (collect/statefulset.go:72-73): in
\* whatever order the Pods are listed, the Pod that is said to hold up the others is
\* one that is not ready and has none such below it.
BlockerIsLowest ==
  \A k \in DOMAIN findings :
    findings[k].id = "STATEFULSET_ORDERED_ROLLOUT_BLOCKED" =>
      /\ \E i \in Unready : Ordinal(i) = findings[k].about
      /\ \A i \in Unready : Ordinal(i) >= findings[k].about

\* The claim of replica i, of any template, has a finding.
ClaimTold(i) ==
  \E k \in DOMAIN report :
    /\ report[k].id \in {"STATEFULSET_CLAIM_NOT_FOUND", "STATEFULSET_CLAIM_NOT_BOUND"}
    /\ report[k].about[2] = Ordinal(i)

\* "The Pod fallback is suppressed for exactly those replicas, because this finding
\* is the more useful of the two" (docs/rules/STATEFULSET_CLAIM_NOT_BOUND.md) and
\* both "would report one problem twice" (rules/statefulset/statefulset.go:61-63):
\* no replica has a finding about its claim and the fallback; and when the rules ran,
\* a listed one that is neither ready nor finished has one or another.  The
\* suppression looks at the snapshot and not at what was found, so a report cut
\* short may lack both.
ReplicaToldOnce ==
  \A i \in Unready :
    LET PodTold(ids) == \E k \in DOMAIN report : report[k].id \in ids /\ i \in report[k].subjects
    IN  /\ ~(ClaimTold(i) /\ PodTold({"POD_NOT_READY"}))
        /\ Evaluated => IsTerminal(scenario.pods[i].pod) \/ ClaimTold(i) \/ PodTold(PodIDs)

\* "All three are informational, so none of them makes a working StatefulSet read as
\* unhealthy" (docs/rules/STATEFULSET_UPDATE_ON_DELETE.md): a set whose replicas are
\* all ready and never failed, with the Service it wants, is no issue, whatever
\* holds its rollout.
HeldIsNotStuck ==
  /\ Reported
  /\ scenario.ready >= DesiredReplicas /\ UnreadyIn(backends) = {} /\ MissingOrdinals = {}
  /\ \A i \in ToSet(backends) : \A n \in ContainerNames :
       scenario.pods[i].pod.containers[n].last = "none"
  /\ O("service") \notin everAbsent /\ scenario.service # "clusterIP"
  => ~IssueFound

\* The claims that matter: those of every ordinal, unless all Pods are ready.
WantedClaims ==
  IF allPodsReady THEN {} ELSE (1..scenario.templates) \X (0..(DesiredReplicas - 1))

\* The events, the Pods, the events of the first unready ones, the Service and the
\* claims that matter were read.
Looked ==
  /\ ownEvents /\ listed
  /\ needEvents(backends) \subseteq podEvents
  /\ scenario.service # "none" => service.exists \in {"found", "missing"}
  /\ WantedClaims \subseteq DOMAIN claims
  /\ \A c \in DOMAIN claims : claims[c].exists \in {"found", "missing"}

\* "a healthy StatefulSet costs no claim lookups at all"
\* (docs/rules/STATEFULSET_CLAIM_NOT_BOUND.md); any other one costs a request for
\* each ordinal and template and one more for each that has not bound, besides the
\* four of every set and one for each of maxBackendEvents Pods.
Overspent ==
  calls > 4 + MaxBackendEvents
          + (IF listed /\ allPodsReady THEN 0 ELSE 2 * DesiredReplicas * scenario.templates)

Incomplete == Reported /\ (~Looked \/ degradations # {})

\* What the report calls missing.
Missing ==
  {Claim(report[k].about[1], report[k].about[2]) :
     k \in {j \in DOMAIN report : report[j].id = "STATEFULSET_CLAIM_NOT_FOUND"}}
  \cup (IF Told("STATEFULSET_SERVICE_NOT_FOUND") THEN {O("service")} ELSE {})

Contract == INSTANCE Analysis WITH
  Requested <- O("statefulset"), stage <- Stage, gone <- everAbsent,
  incomplete <- Incomplete, overspent <- Overspent, missing <- Missing

\* A StatefulSet analysis is an Analysis: "A claim that could not be read is never
\* reported as missing" (docs/rules/STATEFULSET_CLAIM_NOT_BOUND.md), and neither is
\* the Service; each that is was missing at some moment of the run.  It is healthy
\* only when everything was read (report.go:94-97), and reads no claim in vain.
ContractKept == Contract!Spec

=============================================================================
