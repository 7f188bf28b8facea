------------------------ MODULE IngressAnalysisProofs ------------------------
(***************************************************************************)
(* Theorems about IngressAnalysis for every set of Ingresses, with any     *)
(* number of paths, Services and Pods: each broken backend and a missing   *)
(* address are told once, an Ingress that is served is no issue, and the   *)
(* analysis keeps the safety part of the contract of all analyses.         *)
(***************************************************************************)
EXTENDS IngressAnalysis, BackendsProofs

-----------------------------------------------------------------------------
(* The loop over the paths *)

\* What a scenario is made of.
LEMMA IngressHas ==
  ASSUME scenario \in Scenarios
  PROVE  /\ Len(scenario.paths) \in Nat /\ DOMAIN scenario.paths = 1..Len(scenario.paths)
         /\ \A i \in DOMAIN scenario.paths : ServiceOf(i) \in {0} \cup Services
         /\ scenario.address \in BOOLEAN /\ scenario.old \in BOOLEAN
         /\ scenario.class \in {"named", "annotated", "none"}
         /\ \A n \in Services : /\ scenario.services[n].ready \in Nat
                                /\ scenario.services[n].notReady \in Nat
         /\ Len(scenario.pods) \in Nat /\ DOMAIN scenario.pods = 1..Len(scenario.pods)
         /\ \A i \in DOMAIN scenario.pods : scenario.pods[i].service \in Services
<1>1. scenario \in Scenario
  BY IngressAssumption
<1>2. /\ scenario.paths \in Seq([service : {0} \cup Services, port : Ports])
      /\ scenario.pods \in Seq([pod : Pod, events : SUBSET Event, age : Nat, service : Services])
      /\ scenario.services \in [Services -> [external : BOOLEAN, selects : BOOLEAN,
                                             ports : SUBSET Ports, ready : Nat, notReady : Nat]]
      /\ scenario.address \in BOOLEAN /\ scenario.old \in BOOLEAN
      /\ scenario.class \in {"named", "annotated", "none"}
  BY <1>1 DEF Scenario
<1>3. ASSUME NEW T, NEW s \in Seq(T), NEW i \in DOMAIN s PROVE s[i] \in T
  OBVIOUS
<1>4. /\ \A i \in DOMAIN scenario.paths :
           scenario.paths[i] \in [service : {0} \cup Services, port : Ports]
      /\ \A i \in DOMAIN scenario.pods :
           scenario.pods[i] \in [pod : Pod, events : SUBSET Event, age : Nat, service : Services]
  BY <1>2, <1>3
<1>5. \A i \in DOMAIN scenario.paths : ServiceOf(i) \in {0} \cup Services
  BY <1>4 DEF ServiceOf
<1>6. \A i \in DOMAIN scenario.pods : scenario.pods[i].service \in Services
  BY <1>4
<1>7. \A n \in Services : scenario.services[n].ready \in Nat /\ scenario.services[n].notReady \in Nat
  BY <1>2
<1>8. Len(scenario.paths) \in Nat /\ DOMAIN scenario.paths = 1..Len(scenario.paths)
  BY <1>2
<1>9. Len(scenario.pods) \in Nat /\ DOMAIN scenario.pods = 1..Len(scenario.pods)
  BY <1>2
<1> QED BY <1>2, <1>5, <1>6, <1>7, <1>8, <1>9

\* The names of the Services.
LEMMA ServicesFinite == IsFiniteSet(Services) /\ Services \subseteq Nat /\ 0 \notin Services
<1>1. MaxServices \in Nat
  BY IngressAssumption
<1>2. IsFiniteSet(1..MaxServices)
  BY <1>1, FS_Interval
<1> QED BY <1>1, <1>2 DEF Services

\* Numbers in ascending order.
LEMMA AscendingList ==
  ASSUME NEW S \in SUBSET Nat, IsFiniteSet(S)
  PROVE  LET out == Ascending(S)
         IN  /\ IsList(out) /\ ToSet(out) = S /\ IsInjective(out)
             /\ Cardinality(S) \in Nat /\ DOMAIN out = 1..Cardinality(S)
<1> DEFINE R == {p \in S \X S : p[1] < p[2]}
           out == InOrder(S, R)
<1>1. \A x, y \in S : <<x, y>> \in R <=> x < y
  OBVIOUS
<1>2. DOMAIN out = 1..Cardinality(S) /\ Cardinality(S) \in Nat
  BY FS_CardinalityType DEF InOrder
<1> HIDE DEF R
<1>3. OrderOn(S, R)
  BY <1>1 DEF OrderOn
<1>4. IsList(out) /\ ToSet(out) = S /\ IsInjective(out)
  BY <1>3, ListInOrder
<1> QED BY <1>2, <1>4 DEF Ascending, R

\* Every Service that a path names is met once, so no more Services are resolved than
\* the paths name.
LEMMA ServicesMet ==
  ASSUME scenario \in Scenarios
  PROVE  LET len == Len(ToResolve)
         IN  /\ len \in Nat /\ DOMAIN ToResolve = 1..len
             /\ \A k \in 1..len : Met(k) \in Services /\ \E i \in DOMAIN scenario.paths :
                                                           ServiceOf(i) = Met(k)
             /\ \A k, m \in 1..len : Met(k) = Met(m) => k = m
             /\ \A i \in DOMAIN scenario.paths : ServiceOf(i) # 0 =>
                  \E k \in 1..len : Met(k) = ServiceOf(i)
             /\ len <= Cardinality({ServiceOf(i) : i \in DOMAIN scenario.paths} \ {0})
             /\ Cardinality({ServiceOf(i) : i \in DOMAIN scenario.paths} \ {0}) \in Nat
<1> DEFINE P == DOMAIN scenario.paths
           F == FirstPaths
           N == {ServiceOf(i) : i \in P} \ {0}
           out == ToResolve
<1>1. P \subseteq Nat /\ IsFiniteSet(P) /\ (\A i \in P : ServiceOf(i) \in {0} \cup Services)
      /\ \A i \in P : \A j \in 1..(i - 1) : j \in P /\ j < i
  <2>1. ASSUME NEW m \in Nat PROVE IsFiniteSet(1..m)
    BY FS_Interval
  <2>2. Len(scenario.paths) \in Nat /\ P = 1..Len(scenario.paths)
    BY IngressHas
  <2> HIDE DEF P
  <2>3. P \subseteq Nat /\ \A i \in P : \A j \in 1..(i - 1) : j \in P /\ j < i
    BY <2>2
  <2> QED BY <2>1, <2>2, <2>3, IngressHas DEF P
<1>2. F \in SUBSET P /\ \A i \in F : ServiceOf(i) # 0 /\ \A j \in 1..(i - 1) :
                                                        ServiceOf(j) # ServiceOf(i)
  BY DEF FirstPaths
<1>3. F \in SUBSET Nat /\ IsFiniteSet(F)
  BY <1>1, <1>2, FS_Subset
<1>4. /\ IsList(out) /\ ToSet(out) = F /\ IsInjective(out)
      /\ Cardinality(F) \in Nat /\ DOMAIN out = 1..Cardinality(F)
  BY <1>3, AscendingList DEF ToResolve
<1>5. Len(out) = Cardinality(F)
  BY <1>4 DEF IsList
<1>6. \A i, j \in F : ServiceOf(i) = ServiceOf(j) => i = j
  <2> SUFFICES ASSUME NEW i \in F, NEW j \in F, ServiceOf(i) = ServiceOf(j), i < j PROVE FALSE
    BY <1>3
  <2>1. i \in 1..(j - 1)
    BY <1>1, <1>2, IngressHas
  <2> QED BY <1>2, <2>1
<1>7. ASSUME NEW i \in P, ServiceOf(i) # 0
      PROVE  \E j \in F : ServiceOf(j) = ServiceOf(i)
  <2> DEFINE T == {j \in P : ServiceOf(j) = ServiceOf(i)}
  <2>1. T \in SUBSET Nat /\ T # {}
    BY <1>1
  <2> HIDE DEF T
  <2>2. PICK j \in T : \A m \in T : j <= m
    BY <2>1, LeastNumber
  <2>3. j \in P /\ ServiceOf(j) = ServiceOf(i) /\ j \in Nat
    BY <1>1, <2>2 DEF T
  <2>4. ASSUME NEW m \in 1..(j - 1), ServiceOf(m) = ServiceOf(j) PROVE FALSE
    <3>1. m \in T /\ m < j /\ m \in Nat
      BY <1>1, <2>3, <2>4 DEF T
    <3> QED BY <2>2, <2>3, <3>1
  <2>5. j \in F
    BY <1>7, <2>3, <2>4 DEF FirstPaths
  <2> QED BY <2>3, <2>5
<1>8. IsFiniteSet(N) /\ Cardinality(N) \in Nat
  <2>1. N \in SUBSET Services
    BY <1>1
  <2> QED BY <2>1, ServicesFinite, FS_Subset, FS_CardinalityType
<1>9. Cardinality(F) <= Cardinality(N)
  <2> DEFINE f == [i \in F |-> ServiceOf(i)]
  <2>1. f \in Injection(F, N)
    <3>1. \A i \in F : ServiceOf(i) \in N
      BY <1>2
    <3> HIDE DEF N
    <3> QED BY <1>6, <3>1 DEF Injection, IsInjective
  <2> HIDE DEF f, N
  <2> QED BY <1>8, <2>1, FS_Injection
<1>10. \A k \in DOMAIN out : out[k] \in F
  BY <1>4 DEF ToSet
<1>11. \A j \in F : \E k \in DOMAIN out : out[k] = j
  BY <1>4 DEF ToSet
<1>12. \A k, m \in DOMAIN out : out[k] = out[m] => k = m
  BY <1>4 DEF IsInjective
<1> HIDE DEF F, N, out, P
<1>13. ASSUME NEW k \in DOMAIN out PROVE ServiceOf(out[k]) \in Services /\ out[k] \in P
  BY <1>1, <1>2, <1>10
<1>14. \A k, m \in DOMAIN out : ServiceOf(out[k]) = ServiceOf(out[m]) => k = m
  BY <1>6, <1>10, <1>12
<1>15. \A i \in P : ServiceOf(i) # 0 => \E k \in DOMAIN out : ServiceOf(out[k]) = ServiceOf(i)
  BY <1>7, <1>11
<1> QED BY <1>4, <1>5, <1>8, <1>9, <1>13, <1>14, <1>15 DEF Met, N, P, out

-----------------------------------------------------------------------------
(* The rules *)

\* What the snapshot shows when finding d is made.
IngressSymptom(d) ==
  \/ d.id = "INGRESS_NO_RULES" /\ d.about = 0 /\ scenario.paths = <<>>
  \/ /\ d.about \in Broken /\ d.id = BackendDiagnosis(d.about)
     /\ d.severity = "critical" /\ d.confidence = "certain"
  \/ /\ d.id = "INGRESS_CLASS_NOT_FOUND" /\ d.about = 0
     /\ d.severity = "critical" /\ d.confidence = "certain"
     /\ ~scenario.address /\ class.exists = "missing"
  \/ /\ d.id = "INGRESS_NO_CLASS" /\ d.about = 0
     /\ d.severity = "warning" /\ d.confidence = "likely"
     /\ ~scenario.address /\ class.exists # "missing" /\ class.default = "missing"
  \/ /\ d.id = "INGRESS_NO_ADDRESS" /\ d.about = 0
     /\ d.severity = "warning" /\ d.confidence = "possible"
     /\ ~scenario.address /\ ~ClassExplains

BackendIDs == {"INGRESS_SERVICE_NOT_FOUND", "INGRESS_SERVICE_PORT_NOT_FOUND",
               "INGRESS_SERVICE_NO_ENDPOINTS"}
AddressIDs == {"INGRESS_CLASS_NOT_FOUND", "INGRESS_NO_CLASS", "INGRESS_NO_ADDRESS"}

\* Rules that tell nothing twice.
Distinct(rules) ==
  /\ \A r \in DOMAIN rules : IsInjective(rules[r])
  /\ \A r, q \in DOMAIN rules : r # q => \A d \in ToSet(rules[r]) : d \notin ToSet(rules[q])

\* One finding, with what it says.
Saying(d, id, about, severity, confidence) ==
  /\ Own(d) /\ d.id = id /\ d.about = about
  /\ d.severity = severity /\ d.confidence = confidence

\* A finding of the Ingress says what it is made of, and is a list of one.
LEMMA FindingSays ==
  ASSUME NEW id, NEW about, NEW severity \in {"critical", "warning", "info"},
         NEW confidence \in {"certain", "likely", "possible"}
  PROVE  LET d == OwnFinding(id, about, severity, confidence)
         IN  Saying(d, id, about, severity, confidence) /\ IsList(<<d>>) /\ ToSet(<<d>>) = {d}
<1>1. severity \in Severities /\ confidence \in Confidences
  BY DEF Severities, Confidences
<1> QED BY <1>1, OneOwn, OwnSays DEF Saying

\* What it says is all there is to it.
LEMMA SameFinding ==
  ASSUME NEW d, Own(d), NEW e, Own(e), d.id = e.id, d.about = e.about,
         d.severity = e.severity, d.confidence = e.confidence
  PROVE  d = e
<1>1. ASSUME NEW f, Own(f) PROVE f = OwnFinding(f.id, f.about, f.severity, f.confidence)
  BY <1>1, OwnSays DEF Own
<1> QED BY <1>1

\* A list of one finding or none tells nothing twice.
LEMMA IfDistinct ==
  ASSUME NEW condition \in BOOLEAN, NEW d
  PROVE  IsInjective(If(condition, d)) /\ IsInjective(<<d>>)
BY DEF If, IsInjective

\* What is broken behind a Service.
LEMMA DiagnosisID == \A n : BackendDiagnosis(n) \in BackendIDs \cup {"none"}
BY DEF BackendDiagnosis, BackendIDs

\* Each broken backend has one finding.
LEMMA BackendsListed ==
  LET names == Ascending(Broken)
      out == [k \in DOMAIN names |-> brokenFinding(names[k])]
  IN  /\ IsList(out) /\ IsInjective(out) /\ ToSet(out) = {brokenFinding(n) : n \in Broken}
      /\ \A d \in ToSet(out) : Own(d) /\ IngressSymptom(d) /\ d.id \in BackendIDs
<1> DEFINE names == Ascending(Broken)
           out == [k \in DOMAIN names |-> brokenFinding(names[k])]
<1>1. Broken \in SUBSET Nat /\ IsFiniteSet(Broken)
  <2>1. Broken \in SUBSET Services
    BY DEF Broken
  <2> QED BY <2>1, ServicesFinite, FS_Subset
<1>2. IsList(names) /\ ToSet(names) = Broken /\ IsInjective(names)
  BY <1>1, AscendingList
<1>3. ASSUME NEW n \in Broken
      PROVE  /\ Own(brokenFinding(n)) /\ IngressSymptom(brokenFinding(n))
             /\ brokenFinding(n).about = n /\ brokenFinding(n).id \in BackendIDs
  <2> DEFINE d == brokenFinding(n)
  <2>1. Saying(d, BackendDiagnosis(n), n, "critical", "certain")
    BY FindingSays DEF brokenFinding
  <2> HIDE DEF d
  <2>2. d.id \in BackendIDs
    BY <2>1, DiagnosisID DEF Broken, Saying
  <2>3. Own(d) /\ IngressSymptom(d) /\ d.about = n
    BY <2>1 DEF Saying, IngressSymptom
  <2> QED BY <2>2, <2>3 DEF d
<1> HIDE DEF names
<1>4. names \in Seq(Broken) /\ Len(names) \in Nat /\ DOMAIN names = 1..Len(names)
      /\ \A k \in DOMAIN names : names[k] \in Broken
  BY <1>2 DEF IsList, ToSet
<1>5. IsList(out)
  <2>1. out \in [1..Len(names) -> ToSet(out)]
    BY <1>4 DEF ToSet
  <2> QED BY <1>4, <2>1 DEF IsList
<1>6. ToSet(out) = {brokenFinding(n) : n \in Broken}
  BY <1>2 DEF ToSet
<1>7. IsInjective(out)
  <2> SUFFICES ASSUME NEW k \in DOMAIN names, NEW m \in DOMAIN names, out[k] = out[m]
               PROVE  k = m
    BY DEF IsInjective
  <2>1. brokenFinding(names[k]).about = names[k] /\ brokenFinding(names[m]).about = names[m]
    BY <1>3, <1>4
  <2>2. names[k] = names[m]
    BY <2>1
  <2> QED BY <1>2, <2>2 DEF IsInjective
<1>8. \A d \in ToSet(out) : Own(d) /\ IngressSymptom(d) /\ d.id \in BackendIDs
  BY <1>3, <1>6
<1> QED BY <1>5, <1>6, <1>7, <1>8 DEF names

\* Every finding of the rules has its symptom and none is made twice; every broken
\* backend has its finding, and so has an address that is overdue.
LEMMA RulesAreOwn ==
  ASSUME scenario \in Scenarios
  PROVE  /\ OwnRules(Rules) /\ Len(Rules) = 3 /\ DOMAIN Rules = {1, 2, 3} /\ Distinct(Rules)
         /\ \A r \in DOMAIN Rules : \A d \in ToSet(Rules[r]) : IngressSymptom(d)
         /\ scenario.paths # <<>> =>
              \A n \in Broken : \E r \in DOMAIN Rules : \E d \in ToSet(Rules[r]) : d.about = n
         /\ ~scenario.address /\ scenario.old =>
              \E r \in DOMAIN Rules : \E d \in ToSet(Rules[r]) : d.id \in AddressIDs
<1> DEFINE Good(s, ids) == /\ IsList(s) /\ IsInjective(s)
                           /\ \A d \in ToSet(s) : Own(d) /\ IngressSymptom(d) /\ d.id \in ids
           one == BackendIDs \cup {"INGRESS_NO_RULES"}
           two == {"INGRESS_CLASS_NOT_FOUND", "INGRESS_NO_CLASS"}
           three == {"INGRESS_NO_ADDRESS"}
<1>1. scenario.address \in BOOLEAN /\ scenario.old \in BOOLEAN
  BY IngressHas
<1>2. /\ Good(evaluateBackends, one)
      /\ scenario.paths # <<>> => \A n \in Broken : \E d \in ToSet(evaluateBackends) : d.about = n
  <2>1. CASE scenario.paths = <<>>
    <3> DEFINE d == OwnFinding("INGRESS_NO_RULES", 0, "warning", "certain")
    <3>1. /\ Saying(d, "INGRESS_NO_RULES", 0, "warning", "certain")
          /\ IsList(<<d>>) /\ ToSet(<<d>>) = {d}
      BY FindingSays
    <3>2. evaluateBackends = <<d>>
      BY <2>1 DEF evaluateBackends
    <3> HIDE DEF d
    <3>3. IngressSymptom(d) /\ d.id \in one
      BY <2>1, <3>1 DEF IngressSymptom, Saying
    <3> HIDE DEF one
    <3>4. IsInjective(<<d>>)
      BY IfDistinct
    <3> QED BY <2>1, <3>1, <3>2, <3>3, <3>4 DEF Saying
  <2>2. CASE scenario.paths # <<>>
    <3> DEFINE names == Ascending(Broken)
               out == [k \in DOMAIN names |-> brokenFinding(names[k])]
    <3>1. evaluateBackends = out
      BY <2>2 DEF evaluateBackends
    <3>2. /\ IsList(out) /\ IsInjective(out) /\ ToSet(out) = {brokenFinding(n) : n \in Broken}
          /\ \A d \in ToSet(out) : Own(d) /\ IngressSymptom(d) /\ d.id \in BackendIDs
      BY BackendsListed
    <3> HIDE DEF out
    <3>3. ASSUME NEW n \in Broken PROVE brokenFinding(n).about = n
      BY OwnSays DEF brokenFinding
    <3> QED BY <3>1, <3>2, <3>3
  <2> QED BY <2>1, <2>2
<1>3. /\ Good(evaluateClass, two)
      /\ ~scenario.address /\ ClassExplains => ToSet(evaluateClass) # {}
  <2> DEFINE d == OwnFinding("INGRESS_CLASS_NOT_FOUND", 0, "critical", "certain")
             e == OwnFinding("INGRESS_NO_CLASS", 0, "warning", "likely")
             a == ~scenario.address
             b == ~scenario.address /\ class.default = "missing"
  <2>1. /\ Saying(d, "INGRESS_CLASS_NOT_FOUND", 0, "critical", "certain")
        /\ Saying(e, "INGRESS_NO_CLASS", 0, "warning", "likely")
    BY FindingSays
  <2>2. /\ a \in BOOLEAN /\ b \in BOOLEAN
        /\ evaluateClass = IF class.exists = "missing" THEN If(a, d) ELSE If(b, e)
    BY DEF evaluateClass
  <2> HIDE DEF d, e
  <2>3. /\ d.id \in two /\ e.id \in two
        /\ a /\ class.exists = "missing" => IngressSymptom(d)
        /\ b /\ class.exists # "missing" => IngressSymptom(e)
    BY <1>1, <2>1 DEF IngressSymptom, Saying
  <2> HIDE DEF two
  <2>4. /\ IsList(If(a, d)) /\ IsInjective(If(a, d)) /\ ToSet(If(a, d)) = IF a THEN {d} ELSE {}
        /\ IsList(If(b, e)) /\ IsInjective(If(b, e)) /\ ToSet(If(b, e)) = IF b THEN {e} ELSE {}
    BY <2>1, <2>2, IfOwn, IfDistinct DEF Saying
  <2>5. CASE class.exists = "missing"
    BY <2>1, <2>2, <2>3, <2>4, <2>5 DEF Saying
  <2>6. CASE class.exists # "missing"
    BY <2>1, <2>2, <2>3, <2>4, <2>6 DEF Saying, ClassExplains
  <2> QED BY <2>5, <2>6
<1>4. /\ Good(evaluateAddress, three)
      /\ ~scenario.address /\ scenario.old /\ ~ClassExplains => ToSet(evaluateAddress) # {}
  <2> DEFINE d == OwnFinding("INGRESS_NO_ADDRESS", 0, "warning", "possible")
             a == ~scenario.address /\ scenario.old /\ ~ClassExplains
  <2>1. Saying(d, "INGRESS_NO_ADDRESS", 0, "warning", "possible")
    BY FindingSays
  <2>2. a \in BOOLEAN /\ evaluateAddress = If(a, d)
    BY DEF evaluateAddress
  <2> HIDE DEF d
  <2>3. d.id \in three /\ (a => IngressSymptom(d))
    BY <2>1 DEF IngressSymptom, Saying
  <2>4. IsList(If(a, d)) /\ IsInjective(If(a, d)) /\ ToSet(If(a, d)) = IF a THEN {d} ELSE {}
    BY <2>1, <2>2, IfOwn, IfDistinct DEF Saying
  <2> HIDE DEF three
  <2> QED BY <2>1, <2>2, <2>3, <2>4 DEF Saying
<1>5. /\ IsList(Rules) /\ Len(Rules) = 3 /\ DOMAIN Rules = {1, 2, 3}
      /\ Rules[1] = evaluateBackends /\ Rules[2] = evaluateClass /\ Rules[3] = evaluateAddress
  BY ThreeRules DEF Rules
<1>6. Good(Rules[1], one) /\ Good(Rules[2], two) /\ Good(Rules[3], three)
  <2> HIDE DEF Good, one, two, three
  <2> QED BY <1>2, <1>3, <1>4, <1>5
<1>7. OwnRules(Rules) /\ \A r \in DOMAIN Rules : \A d \in ToSet(Rules[r]) : IngressSymptom(d)
  <2> HIDE DEF one, two, three
  <2>1. \A r \in {1, 2, 3} : IsList(Rules[r]) /\ \A d \in ToSet(Rules[r]) : Own(d) /\ IngressSymptom(d)
    BY <1>6
  <2> QED BY <1>5, <2>1 DEF OwnRules
<1>8. Distinct(Rules)
  <2>1. \A r \in DOMAIN Rules : IsInjective(Rules[r])
    <3> HIDE DEF one, two, three
    <3> QED BY <1>5, <1>6
  <2>2. \A d : ~(d \in one /\ d \in two) /\ ~(d \in one /\ d \in three) /\ ~(d \in two /\ d \in three)
    BY DEF BackendIDs
  <2> HIDE DEF one, two, three
  <2>3. ASSUME NEW r \in {1, 2, 3}, NEW q \in {1, 2, 3}, r # q, NEW d \in ToSet(Rules[r])
        PROVE  d \notin ToSet(Rules[q])
    BY <1>6, <2>2, <2>3
  <2> QED BY <1>5, <2>1, <2>3 DEF Distinct
<1>9. scenario.paths # <<>> =>
        \A n \in Broken : \E r \in DOMAIN Rules : \E d \in ToSet(Rules[r]) : d.about = n
  BY <1>2, <1>5
<1>10. ~scenario.address /\ scenario.old =>
         \E r \in DOMAIN Rules : \E d \in ToSet(Rules[r]) : d.id \in AddressIDs
  <2>1. \A x : x \in two \/ x \in three => x \in AddressIDs
    BY DEF AddressIDs
  <2> HIDE DEF one, two, three
  <2> QED BY <1>3, <1>4, <1>5, <1>6, <2>1
<1> QED BY <1>5, <1>7, <1>8, <1>9, <1>10

-----------------------------------------------------------------------------
(* The invariant *)

\* The steps that resolve one Service, and the place in the loop of the last one begun.
Inside == {"endpoints", "legacy", "pods", "backends"}
Reached == IF pc \in Inside THEN at ELSE at - 1

ServiceInfo ==
  [exists : {"unread", "found", "missing", "unknown"},
   endpoints : [known : BOOLEAN, ready : Nat, notReady : Nat],
   listed : BOOLEAN, pods : Seq(DOMAIN scenario.pods)]

\* The endpoints are known only of a Service that was found, and its Pods only when
\* none of them is ready.
ServiceInv(s) ==
  /\ s \in ServiceInfo
  /\ s.endpoints.known => s.exists = "found"
  /\ s.listed => s.endpoints.known /\ s.endpoints.ready = 0
  /\ s.listed \/ s.pods = <<>>

\* What is known of a Service when it is to be read further.
Stands(s, stage) ==
  /\ s.exists = "found"
  /\ stage \in {"endpoints", "legacy"} => ~s.endpoints.known
  /\ stage \in {"pods", "backends"} =>
       s.endpoints.known /\ s.endpoints.ready = 0 /\ Declared.selects
  /\ s.listed <=> stage = "backends"

\* Nothing is known of a Service that the loop has not come to.
ServicesInv ==
  /\ services \in [Services -> ServiceInfo]
  /\ \A n \in Services : ServiceInv(services[n])
  /\ \A n \in Services : (\E k \in 1..Reached : n = Met(k)) \/ services[n] = Unresolved

\* The loop comes to every Service before the rules run.
LoopInv ==
  /\ at \in 1..(Len(ToResolve) + 1)
  /\ pc \in {"get", "events", "class"} => at = 1
  /\ pc \in Inside => at <= Len(ToResolve) /\ Stands(services[Current], pc)
  /\ pc \in {"rules", "aggregate", "report", "render"} \/ Reported => at > Len(ToResolve)

\* The Pods are those of the Services, once these are read.
GatheredInv ==
  /\ Collecting => backends = <<>>
  /\ \A i \in ToSet(backends) : \E n \in Services : i \in ToSet(services[n].pods)

\* Whatever has been found is what the rules make of the snapshot, and nothing is found
\* twice: the snapshot does not change once the rules look at it.
IngressInv ==
  /\ ListedInv /\ ServicesInv /\ LoopInv /\ GatheredInv
  /\ EvaluationInv(Rules, {}, AsFound, Symptoms) /\ OnceInv /\ IsInjective(findings)

\* The invariant in terms of the rules of the state it speaks of.
LEMMA EvaluationOf ==
  ASSUME NEW rules, EvaluationInv(rules, {}, AsFound, Symptoms)', Rules' = rules
  PROVE  EvaluationInv(Rules, {}, AsFound, Symptoms)'
BY DEF EvaluationInv, PodsInv, ByFallback, RulesInv, MergedInv, ReportInv, FoundBy

\* A Service of which nothing is known.
LEMMA NothingKnown ==
  /\ ServiceInv(Unresolved) /\ ServiceInv(Unresolved)'
  /\ Unresolved.exists = "unread" /\ ~Unresolved.endpoints.known
  /\ ~Unresolved.listed /\ Unresolved.pods = <<>>
<1>1. NoEndpoints \in [known : BOOLEAN, ready : Nat, notReady : Nat] /\ ~NoEndpoints.known
  BY DEF NoEndpoints
<1>2. <<>> \in Seq(DOMAIN scenario.pods) /\ <<>> \in Seq(DOMAIN scenario'.pods)
  OBVIOUS
<1>3. /\ Unresolved = [exists |-> "unread", endpoints |-> NoEndpoints, listed |-> FALSE,
                       pods |-> <<>>]
      /\ Unresolved \in ServiceInfo /\ Unresolved \in ServiceInfo'
  BY <1>1, <1>2 DEF Unresolved, ServiceInfo
<1> QED BY <1>1, <1>3 DEF ServiceInv

\* The loop over the Services depends on the paths.
LEMMA LoopKept ==
  ASSUME UNCHANGED scenario
  PROVE  /\ ToResolve' = ToResolve /\ (\A k : Met(k)' = Met(k)) /\ ServiceInfo' = ServiceInfo
         /\ \A s : ServiceInv(s)' <=> ServiceInv(s)
<1>1. FirstPaths' = FirstPaths
  BY DEF FirstPaths, ServiceOf
<1>2. ToResolve' = ToResolve
  BY <1>1 DEF ToResolve, Ascending, InOrder
<1> QED BY <1>2 DEF Met, ServiceOf, ServiceInfo, ServiceInv

\* The run begins there.
LEMMA IngressBegins == Init => IngressInv
<1> SUFFICES ASSUME Init PROVE IngressInv
  OBVIOUS
<1>1. ListedInv /\ backends = <<>> /\ ~Reported /\ pc = "get" /\ findings = <<>>
      /\ scenario \in Scenarios /\ at = 1 /\ services = [n \in Services |-> Unresolved]
  BY PodsInitially DEF Init, InitRun, Reported
<1>2. ServicesInv
  <2>1. \A n \in Services : services[n] = Unresolved /\ ServiceInv(services[n])
    BY <1>1, NothingKnown
  <2> QED BY <1>1, <2>1 DEF ServicesInv, ServiceInv
<1>3. LoopInv
  <2>1. at \in 1..(Len(ToResolve) + 1)
    <3>1. Len(ToResolve) \in Nat
      BY <1>1, ServicesMet
    <3> QED BY <1>1, <3>1
  <2> QED BY <1>1, <2>1 DEF LoopInv, Inside
<1>4. IsList(Rules)
  BY ThreeRules DEF Rules
<1>5. EvaluationInv(Rules, {}, AsFound, Symptoms)
  BY <1>4, EvaluationBegins DEF Init
<1>6. OnceInv
  BY OnceBegins DEF Init
<1>7. GatheredInv /\ IsInjective(findings)
  BY <1>1, ListEmpty DEF GatheredInv, IsInjective
<1> QED BY <1>1, <1>2, <1>3, <1>5, <1>6, <1>7 DEF IngressInv

\* What a collecting step leaves for the rules.
LEMMA Collects ==
  ASSUME IngressInv, Collecting,
         UNCHANGED <<next, findings, podRules, podReport, report, status>>,
         ListedInv', ServicesInv', LoopInv', GatheredInv', pc' \notin {"report", "render"}
  PROVE  IngressInv'
<1>1. PICK rules : rules = Rules'
  OBVIOUS
<1>2. IsList(rules)
  BY <1>1, ThreeRules DEF Rules
<1>3. PICK old : EvaluationInv(old, {}, AsFound, Symptoms)
  BY DEF IngressInv
<1>4. EvaluationInv(rules, {}, AsFound, Symptoms)'
  BY <1>2, <1>3, CollectorStep
<1>5. OnceInv' /\ IsInjective(findings)'
  BY <1>3, OnceCollects DEF EvaluationInv, IngressInv
<1> QED BY <1>1, <1>4, <1>5, EvaluationOf DEF IngressInv

\* The Service that the loop is at is none of those it has been to.
LEMMA AtCurrent ==
  ASSUME scenario \in Scenarios, at \in 1..Len(ToResolve), services \in [Services -> ServiceInfo]
  PROVE  /\ Current \in Services /\ services[Current] \in ServiceInfo
         /\ at - 1 \in Nat /\ \A k \in 1..(at - 1) : Met(k) # Current
         /\ Declared.ready \in Nat /\ Declared.notReady \in Nat
<1>1. /\ Len(ToResolve) \in Nat /\ (\A k \in 1..Len(ToResolve) : Met(k) \in Services)
      /\ \A k, m \in 1..Len(ToResolve) : Met(k) = Met(m) => k = m
  BY ServicesMet
<1>2. \A k \in 1..(at - 1) : k \in 1..Len(ToResolve) /\ k # at
  BY <1>1
<1>3. Current \in Services /\ \A k \in 1..(at - 1) : Met(k) # Current
  BY <1>1, <1>2 DEF Current
<1> QED BY <1>1, <1>3, IngressHas DEF Declared

\* A step that leaves s known of the Service it is at, and goes on with it or with the
\* next one.
Resolves(s) ==
  /\ pc \in Inside \cup {"service"} /\ at \in 1..Len(ToResolve)
  /\ services' = [services EXCEPT ![Current] = s]
  /\ (pc' \in Inside /\ at' = at) \/ (pc' = "service" /\ at' = at + 1)
  /\ UNCHANGED scenario

\* Such a step says something about no other Service.
LEMMA ServiceResolved ==
  ASSUME scenario \in Scenarios, services \in [Services -> ServiceInfo], NEW s, Resolves(s)
  PROVE  /\ services'[Current] = s /\ Reached' = at
         /\ \A n \in Services \ {Current} : services'[n] = services[n]
         /\ DOMAIN services' = Services /\ Collecting /\ Collecting'
         /\ pc' \in Inside => Current' = Current
<1>1. Current \in Services
  BY AtCurrent DEF Resolves
<1>2. Len(ToResolve) \in Nat
  BY ServicesMet
<1>3. Reached' = at
  BY <1>2 DEF Reached, Resolves, Inside
<1>4. pc' \in Inside => Current' = Current
  <2>1. ASSUME pc' \in Inside PROVE at' = at
    BY <2>1 DEF Inside, Resolves
  <2>2. \A k : Met(k)' = Met(k)
    BY LoopKept DEF Resolves
  <2> QED BY <2>1, <2>2 DEF Current, Met, ServiceOf
<1>5. Collecting /\ Collecting'
  BY DEF Resolves, Inside, Collecting
<1> QED BY <1>1, <1>3, <1>4, <1>5 DEF Resolves

\* Such a step keeps the invariant if what it leaves is in order.
LEMMA ResolvesKeeps ==
  ASSUME IngressInv, NEW s, ServiceInv(s), Resolves(s), pc' \in Inside => Stands(s, pc'),
         UNCHANGED <<backends, next, findings, podRules, podReport, report, status>>
  PROVE  IngressInv'
<1> DEFINE len == Len(ToResolve)
<1>1. /\ ListedInv /\ ServicesInv /\ LoopInv /\ GatheredInv /\ scenario \in Scenarios
      /\ pc \notin {"render", "done"} => ~Reported
  BY DEF IngressInv, EvaluationInv, ReportInv, ListedInv
<1>2. /\ services'[Current] = s /\ Reached' = at /\ DOMAIN services' = Services
      /\ (\A n \in Services \ {Current} : services'[n] = services[n])
      /\ Collecting /\ Collecting' /\ (pc' \in Inside => Current' = Current)
  BY <1>1, ServiceResolved DEF ServicesInv
<1>3. /\ ToResolve' = ToResolve /\ (\A k : Met(k)' = Met(k)) /\ ServiceInfo' = ServiceInfo
      /\ \A t : ServiceInv(t)' <=> ServiceInv(t)
  BY LoopKept DEF Resolves
<1>4. /\ Current \in Services /\ len \in Nat /\ at \in 1..len
      /\ at - 1 \in Nat
  BY <1>1, AtCurrent, ServicesMet DEF ServicesInv, Resolves
<1>5. ListedInv'
  BY <1>1 DEF ListedInv, Resolves
<1>6. ServicesInv'
  <2>1. \A n \in Services : ServiceInv(services'[n])
    BY <1>1, <1>2 DEF ServicesInv
  <2>2. services' \in [Services -> ServiceInfo']
    <3>1. services' = [n \in Services |-> services'[n]]
      BY <1>1 DEF ServicesInv, Resolves
    <3> QED BY <1>3, <2>1, <3>1 DEF ServiceInv
  <2>3. ASSUME NEW n \in Services PROVE (\E k \in 1..Reached' : n = Met(k)) \/ services'[n] = Unresolved
    <3>1. 1..Reached \subseteq 1..at /\ at \in 1..at
      BY <1>4 DEF Reached
    <3>2. CASE n = Current
      BY <1>2, <3>1, <3>2 DEF Current
    <3>3. CASE n # Current
      BY <1>1, <1>2, <3>1, <3>3 DEF ServicesInv
    <3> QED BY <3>2, <3>3
  <2>4. Unresolved' = Unresolved
    BY DEF Unresolved
  <2> QED BY <1>3, <2>1, <2>2, <2>3, <2>4 DEF ServicesInv
<1>7. LoopInv'
  <2>1. at' \in 1..(len + 1) /\ (pc' \in Inside => at' <= len)
    BY <1>4 DEF Resolves, Inside
  <2>2. pc' \in Inside => Stands(services'[Current'], pc')
    BY <1>2
  <2>3. (pc' \in Inside \cup {"service"}) /\ ~Reported'
    BY <1>1, <1>2 DEF Resolves, Reported, Collecting, Inside
  <2>4. pc' \notin {"get", "events", "class", "rules", "aggregate", "report", "render"}
    BY <2>3 DEF Inside
  <2>5. pc' \in Inside => Declared' = Declared
    BY <1>2 DEF Declared, Resolves
  <2> QED BY <1>3, <2>1, <2>2, <2>3, <2>4, <2>5 DEF LoopInv, Stands
<1>8. GatheredInv'
  BY <1>1, <1>2, ListEmpty DEF GatheredInv
<1> QED BY <1>2, <1>5, <1>6, <1>7, <1>8, Collects DEF Collecting

-----------------------------------------------------------------------------
(* The reads of one Service *)

\* What s says of Service n was so at some moment.
Truthful(s, n) ==
  /\ s.exists = "missing" => <<"service", n>> \in everAbsent
  /\ s.endpoints.known /\ s.endpoints.ready = 0 =>
       <<"endpoints", n>> \in everAbsent \/ scenario.services[n].ready = 0
  /\ \A i \in ToSet(s.pods) : scenario.pods[i].service = n

\* All that matters of Service n was read, given the Pods whose events were.
Whole(s, n, events) ==
  \/ s.exists = "missing"
  \/ /\ s.exists = "found" /\ s.endpoints.known
     /\ s.endpoints.ready = 0 /\ scenario.services[n].selects
          => s.listed /\ needEvents(s.pods) \subseteq events

\* The events of its Pods were not read for another Service.
Fresh == \A i \in ToSet(services[Current].pods) : i \notin podEvents

\* What a read of the Service at hand leaves known of it: nothing that was not so, and
\* all that matters, unless a failure is booked, and then not.
Leaves(s) ==
  /\ Resolves(s) /\ ServiceInv(s) /\ (pc' \in Inside => Stands(s, pc'))
  /\ Objects \ present \subseteq everAbsent /\ Truthful(services[Current], Current)
       => Truthful(s, Current)
  /\ degradations \subseteq degradations' /\ podEvents \subseteq podEvents'
  /\ pc' = "service" /\ degradations' = {} => Whole(s, Current, podEvents')
  /\ degradations' # degradations /\ Fresh =>
       pc' = "service" /\ ~Whole(s, Current, podEvents')
  /\ podEvents' # podEvents => pc' = "service"
  /\ podEvents' \subseteq podEvents \cup ToSet(s.pods)
  /\ UNCHANGED <<backends, next, findings, podRules, podReport, report, status>>
  /\ UNCHANGED <<class, ownEvents, present, everAbsent>>

\* The Service that is read further.
LEMMA AtHand ==
  ASSUME IngressInv, pc \in Inside \/ (pc = "service" /\ at \in DOMAIN ToResolve)
  PROVE  /\ at \in 1..Len(ToResolve) /\ scenario \in Scenarios
         /\ services \in [Services -> ServiceInfo] /\ Current \in Services
         /\ ServiceInv(services[Current]) /\ services[Current] \in ServiceInfo
         /\ pc \in Inside => Stands(services[Current], pc)
         /\ pc = "service" => services[Current] = Unresolved
         /\ Declared.ready \in Nat /\ Declared.notReady \in Nat
<1>1. ListedInv /\ ServicesInv /\ LoopInv /\ scenario \in Scenarios
  BY DEF IngressInv, ListedInv
<1>2. Len(ToResolve) \in Nat /\ DOMAIN ToResolve = 1..Len(ToResolve)
  BY <1>1, ServicesMet
<1>3. at \in 1..Len(ToResolve)
  BY <1>1, <1>2 DEF LoopInv
<1>4. /\ Current \in Services /\ services[Current] \in ServiceInfo
      /\ (\A k \in 1..(at - 1) : Met(k) # Current)
      /\ Declared.ready \in Nat /\ Declared.notReady \in Nat
  BY <1>1, <1>3, AtCurrent DEF ServicesInv
<1>5. pc = "service" => services[Current] = Unresolved
  BY <1>1, <1>4 DEF ServicesInv, Reached, Inside
<1> QED BY <1>1, <1>3, <1>4, <1>5 DEF ServicesInv, LoopInv

\* The read of the Service itself.
LEMMA ServiceLeaves == ASSUME IngressInv, GetService PROVE \E s : Leaves(s)
<1>1. pc = "service" /\ at \in DOMAIN ToResolve
  BY DEF GetService
<1>2. /\ at \in 1..Len(ToResolve) /\ scenario \in Scenarios /\ Current \in Services
      /\ services \in [Services -> ServiceInfo] /\ services[Current] = Unresolved
  BY <1>1, AtHand
<1>3. PICK a \in Lookup(<<"service", Current>>) :
        /\ services' = [services EXCEPT ![Current].exists = existence(a)]
        /\ degradations' = degradations \cup existenceDegradation("services", a)
        /\ pc' = IF a = "ok" THEN "endpoints" ELSE "service"
        /\ at' = IF a = "ok" THEN at ELSE at + 1
  BY DEF GetService
<1> DEFINE s == [Unresolved EXCEPT !.exists = existence(a)]
<1>4. existence(a) \in {"found", "missing", "unknown"} /\ (existence(a) = "found" <=> a = "ok")
      /\ (existence(a) = "missing" <=> a = "NotFound")
  BY DEF existence
<1>5. Resolves(s)
  <2>1. services' = [services EXCEPT ![Current] = s]
    BY <1>2, <1>3
  <2> QED BY <1>1, <1>2, <1>3, <2>1 DEF Resolves, Inside, GetService, world
<1>6. /\ s \in ServiceInfo /\ s.exists = existence(a) /\ s.endpoints = Unresolved.endpoints
      /\ s.listed = Unresolved.listed /\ s.pods = Unresolved.pods
  BY <1>4, NothingKnown DEF ServiceInv, ServiceInfo
<1>7. ~s.endpoints.known /\ ~s.listed /\ s.pods = <<>>
  BY <1>6, NothingKnown
<1> HIDE DEF s
<1>8. ServiceInv(s) /\ (pc' \in Inside => Stands(s, pc'))
  BY <1>3, <1>4, <1>6, <1>7 DEF ServiceInv, Stands, Inside
<1>9. ASSUME Objects \ present \subseteq everAbsent PROVE Truthful(s, Current)
  <2>1. <<"service", Current>> \in Objects
    BY <1>2 DEF Objects
  <2>2. a = "NotFound" => <<"service", Current>> \notin present
    BY BackendsAssumption DEF Lookup, Answers
  <2> QED BY <1>4, <1>6, <1>7, <1>9, <2>1, <2>2, ListEmpty DEF Truthful
<1>10. /\ pc' = "service" /\ degradations' = {} => Whole(s, Current, podEvents')
       /\ degradations' # degradations => pc' = "service" /\ ~Whole(s, Current, podEvents')
  <2>1. existenceDegradation("services", a) = {} <=> a \in {"ok", "NotFound"}
    BY Booked
  <2> QED BY <1>3, <1>4, <1>6, <2>1 DEF Whole
<1> QED BY <1>3, <1>5, <1>8, <1>9, <1>10
        DEF Leaves, GetService, world, listing, verdict

\* What is known of the endpoints, whichever API answers.
LEMMA EndpointsLeave ==
  ASSUME IngressInv, pc \in {"endpoints", "legacy"}, NEW e \in {Published, NoEndpoints}, Endpoints(e),
         degradations' = {} => e = Published, degradations \subseteq degradations',
         degradations' # degradations => e = NoEndpoints,
         UNCHANGED <<scenario, podEvents, backends, next, findings, podRules, podReport, report,
                     status, class, ownEvents, present, everAbsent>>
  PROVE  \E s : Leaves(s)
<1> DEFINE s == [services[Current] EXCEPT !.endpoints = e]
           old == services[Current]
<1>1. /\ at \in 1..Len(ToResolve) /\ scenario \in Scenarios /\ Current \in Services
      /\ services \in [Services -> ServiceInfo] /\ old \in ServiceInfo /\ ServiceInv(old)
      /\ Stands(old, pc) /\ Declared.ready \in Nat /\ Declared.notReady \in Nat
  BY AtHand DEF Inside
<1>2. /\ Published.known /\ Published.ready \in Nat
      /\ Published \in [known : BOOLEAN, ready : Nat, notReady : Nat]
      /\ Published.ready = IF <<"endpoints", Current>> \in present THEN Declared.ready ELSE 0
  BY <1>1 DEF Published, PublishedIf
<1>3. NoEndpoints \in [known : BOOLEAN, ready : Nat, notReady : Nat] /\ ~NoEndpoints.known
  BY DEF NoEndpoints
<1>4. /\ services' = [services EXCEPT ![Current].endpoints = e]
      /\ pc' = IF NeedsPods(e) THEN "pods" ELSE "service"
      /\ at' = IF NeedsPods(e) THEN at ELSE at + 1
  BY DEF Endpoints
<1>5. NeedsPods(e) <=> e.known /\ e.ready = 0 /\ Declared.selects
  BY DEF NeedsPods
<1>6. Resolves(s)
  <2>1. services' = [services EXCEPT ![Current] = s]
    BY <1>1, <1>4
  <2> QED BY <1>1, <1>4, <2>1 DEF Resolves, Inside
<1>7. e \in [known : BOOLEAN, ready : Nat, notReady : Nat] /\ (e.known => e = Published)
  BY <1>2, <1>3
<1>8. /\ s \in ServiceInfo /\ s.exists = old.exists /\ s.endpoints = e
      /\ s.listed = old.listed /\ s.pods = old.pods
  BY <1>1, <1>7 DEF ServiceInfo
<1>9. old.exists = "found" /\ ~old.listed /\ old.pods = <<>>
  BY <1>1 DEF Stands, ServiceInv
<1> HIDE DEF s, old
<1>10. ServiceInv(s) /\ (pc' \in Inside => Stands(s, pc'))
  BY <1>4, <1>5, <1>8, <1>9 DEF ServiceInv, Stands, Inside
<1>11. ASSUME Objects \ present \subseteq everAbsent PROVE Truthful(s, Current)
  <2>1. <<"endpoints", Current>> \in Objects
    BY <1>1 DEF Objects
  <2> QED BY <1>2, <1>7, <1>8, <1>9, <1>11, <2>1, ListEmpty DEF Truthful, Declared
<1>12. /\ pc' = "service" /\ degradations' = {} => Whole(s, Current, podEvents')
       /\ degradations' # degradations => pc' = "service" /\ ~Whole(s, Current, podEvents')
  BY <1>2, <1>3, <1>4, <1>5, <1>8, <1>9 DEF Whole, Declared
<1> QED BY <1>6, <1>10, <1>11, <1>12 DEF Leaves

\* The endpoints from the EndpointSlices, or that the cluster does not have these.
LEMMA SlicesLeave == ASSUME IngressInv, endpointsFor PROVE \E s : Leaves(s)
<1> USE DEF world, listing, verdict
<1>1. pc = "endpoints"
  BY DEF endpointsFor
<1>2. PICK a \in Lookup(O("discovery")) :
        /\ degradations' = degradations \cup existenceDegradation("endpointslices", a)
        /\ IF a = "NotFound" THEN pc' = "legacy" /\ UNCHANGED <<services, at>>
                             ELSE Endpoints(slicesKnown(a, Published))
  BY DEF endpointsFor
<1>3. CASE a = "NotFound"
  <2>1. /\ at \in 1..Len(ToResolve) /\ Current \in Services
        /\ services \in [Services -> ServiceInfo] /\ ServiceInv(services[Current])
        /\ Stands(services[Current], pc)
    BY <1>1, AtHand DEF Inside
  <2>2. Resolves(services[Current])
    BY <1>1, <1>2, <1>3, <2>1 DEF Resolves, Inside, endpointsFor
  <2>3. Stands(services[Current], "legacy") /\ pc' = "legacy"
    BY <1>1, <1>2, <1>3, <2>1 DEF Stands
  <2>4. degradations' = degradations
    BY <1>2, <1>3 DEF existenceDegradation
  <2>5. Leaves(services[Current])
    BY <1>2, <2>1, <2>2, <2>3, <2>4 DEF Leaves, endpointsFor
  <2> QED BY <2>5
<1>4. CASE a # "NotFound"
  <2> DEFINE e == slicesKnown(a, Published)
  <2>1. /\ e \in {Published, NoEndpoints} /\ Endpoints(e)
        /\ e = IF a = "ok" THEN Published ELSE NoEndpoints
    BY <1>2, <1>4 DEF slicesKnown
  <2> HIDE DEF e
  <2>2. /\ (degradations' = {} => e = Published) /\ degradations \subseteq degradations'
        /\ degradations' # degradations => e = NoEndpoints
    <3>1. existenceDegradation("endpointslices", a) = {} <=> a \in {"ok", "NotFound"}
      BY Booked
    <3> QED BY <1>2, <1>4, <2>1, <3>1
  <2> QED BY <1>1, <2>1, <2>2, EndpointsLeave DEF endpointsFor
<1> QED BY <1>3, <1>4

\* The endpoints from the Endpoints object.
LEMMA LegacyLeaves == ASSUME IngressInv, legacyEndpointsFor PROVE \E s : Leaves(s)
<1> USE DEF world, listing, verdict
<1>1. PICK a \in Lookup(<<"endpoints", Current>>) :
        /\ degradations' = degradations \cup existenceDegradation("endpoints", a)
        /\ Endpoints(legacyKnown(a, Published))
  BY DEF legacyEndpointsFor
<1> DEFINE e == legacyKnown(a, Published)
<1>2. /\ e \in {Published, NoEndpoints} /\ Endpoints(e)
      /\ e = IF a \in {"ok", "NotFound"} THEN Published ELSE NoEndpoints
  BY <1>1 DEF legacyKnown
<1> HIDE DEF e
<1>3. /\ (degradations' = {} => e = Published) /\ degradations \subseteq degradations'
      /\ degradations' # degradations => e = NoEndpoints
  <2>1. existenceDegradation("endpoints", a) = {} <=> a \in {"ok", "NotFound"}
    BY Booked
  <2> QED BY <1>1, <1>2, <2>1
<1>4. pc = "legacy"
  BY DEF legacyEndpointsFor
<1> QED BY <1>2, <1>3, <1>4, EndpointsLeave DEF legacyEndpointsFor

\* The Pods of a Service are Pods of the scenario, and of no other Service.
LEMMA MatchingTyped ==
  ASSUME scenario \in Scenarios, NEW n
  PROVE  /\ Matching(n) \in Seq(DOMAIN scenario.pods)
         /\ \A i \in ToSet(Matching(n)) : scenario.pods[i].service = n
<1> DEFINE S == {i \in DOMAIN scenario.pods :
                   <<"pods", n>> \in present /\ scenario.pods[i].service = n}
<1>1. DOMAIN scenario.pods = 1..Len(scenario.pods) /\ Len(scenario.pods) \in Nat
  BY IngressHas
<1>2. /\ S \in SUBSET DOMAIN scenario.pods /\ Matching(n) = Ascending(S)
      /\ \A i \in S : scenario.pods[i].service = n
  BY DEF Matching
<1> HIDE DEF S
<1>3. S \in SUBSET Nat /\ IsFiniteSet(S)
  <2>1. ASSUME NEW m \in Nat PROVE IsFiniteSet(1..m)
    BY FS_Interval
  <2> QED BY <1>1, <1>2, <2>1, FS_Subset
<1>4. IsList(Ascending(S)) /\ ToSet(Ascending(S)) = S
  BY <1>3, AscendingList
<1> QED BY <1>2, <1>4 DEF IsList

\* The list of the Pods.
LEMMA PodsLeave == ASSUME IngressInv, listPods PROVE \E s : Leaves(s)
<1> USE DEF world, listing, verdict
<1> DEFINE old == services[Current]
<1>1. /\ pc = "pods" /\ at \in 1..Len(ToResolve) /\ Current \in Services
      /\ scenario \in Scenarios
      /\ services \in [Services -> ServiceInfo] /\ ServiceInv(old) /\ Stands(old, pc)
      /\ old \in ServiceInfo
  BY AtHand DEF Inside, listPods
<1>2. PICK a \in Answers("ok") :
        /\ services' = IF a = "ok"
                       THEN [services EXCEPT ![Current].listed = TRUE, ![Current].pods = Matching(Current)]
                       ELSE services
        /\ degradations' = degradations \cup degrade("pods", a)
        /\ pc' = IF a = "ok" THEN "backends" ELSE "service"
        /\ at' = IF a = "ok" THEN at ELSE at + 1
  BY DEF listPods
<1>3. CASE a = "ok"
  <2> DEFINE s == [old EXCEPT !.listed = TRUE, !.pods = Matching(Current)]
  <2>1. services' = [services EXCEPT ![Current] = s]
    BY <1>1, <1>2, <1>3
  <2>2. Resolves(s)
    BY <1>1, <1>2, <1>3, <2>1 DEF Resolves, Inside, listPods
  <2>3. /\ Matching(Current) \in Seq(DOMAIN scenario.pods)
        /\ \A i \in ToSet(Matching(Current)) : scenario.pods[i].service = Current
    BY <1>1, MatchingTyped
  <2>4. /\ s \in ServiceInfo /\ s.exists = old.exists /\ s.endpoints = old.endpoints /\ s.listed
        /\ s.pods = Matching(Current)
    BY <1>1, <2>3 DEF ServiceInfo
  <2> HIDE DEF s, old
  <2>5. ServiceInv(s) /\ Stands(s, "backends") /\ pc' = "backends"
    BY <1>1, <1>2, <1>3, <2>4 DEF ServiceInv, Stands
  <2>6. Truthful(old, Current) => Truthful(s, Current)
    BY <2>3, <2>4 DEF Truthful
  <2>7. degradations' = degradations
    BY <1>2, <1>3 DEF degrade
  <2>8. Leaves(s)
    BY <1>2, <2>2, <2>5, <2>6, <2>7 DEF Leaves, listPods, old
  <2> QED BY <2>8
<1>4. CASE a # "ok"
  <2>1. services' = [services EXCEPT ![Current] = old]
    BY <1>1, <1>2, <1>4
  <2>2. Resolves(old)
    BY <1>1, <1>2, <1>4, <2>1 DEF Resolves, Inside, listPods
  <2>3. degradations' # {} /\ pc' = "service"
    BY <1>2, <1>4, Booked
  <2>4. ~Whole(old, Current, podEvents')
    BY <1>1 DEF Whole, Stands, Declared
  <2> HIDE DEF old
  <2>5. Leaves(old)
    BY <1>1, <1>2, <2>2, <2>3, <2>4 DEF Leaves, listPods, Inside, old
  <2> QED BY <2>5
<1> QED BY <1>3, <1>4

\* The events of the Pods: those whose events were read before stay read.
LEMMA EventsLeave == ASSUME IngressInv, ReadBackends PROVE \E s : Leaves(s)
<1> USE DEF world, listing, verdict
<1> DEFINE s == services[Current]
           need == needEvents(s.pods)
<1>1. /\ pc = "backends" /\ at \in 1..Len(ToResolve) /\ Current \in Services
      /\ services \in [Services -> ServiceInfo] /\ ServiceInv(s) /\ Stands(s, pc)
  BY AtHand DEF Inside, ReadBackends
<1>2. /\ pc' = "service" /\ at' = at + 1 /\ UNCHANGED services
      /\ UNCHANGED <<scenario, present, everAbsent, backends, ownEvents, class, verdict>>
  BY DEF ReadBackends, backendSnapshots
<1>3. PICK a \in [need -> Answers("ok") \cup (IF MayExpire THEN {"Timeout"} ELSE {})] :
        /\ podEvents' = podEvents \cup {i \in DOMAIN a : a[i] = "ok"}
        /\ degradations' = degradations \cup UNION {degrade("events", a[i]) : i \in DOMAIN a}
  BY DEF ReadBackends, backendSnapshots
<1>4. degradations' = {} => need \subseteq podEvents'
  <2>1. DOMAIN a = need
    BY <1>3
  <2>2. degradations' = {} => \A i \in DOMAIN a : degrade("events", a[i]) = {}
    BY <1>3
  <2> QED BY <1>3, <2>1, <2>2, Booked
<1>5. Resolves(s)
  BY <1>1, <1>2 DEF Resolves, Inside
<1>6. degradations' = {} => Whole(s, Current, podEvents')
  BY <1>1, <1>4 DEF Whole, Stands
<1>7. /\ degradations \subseteq degradations' /\ podEvents \subseteq podEvents'
      /\ podEvents' \subseteq podEvents \cup need
  BY <1>3
<1>8. need \subseteq ToSet(s.pods)
  BY DEF needEvents, UnreadyIn, ToSet
<1>9. ASSUME degradations' # degradations, Fresh PROVE ~Whole(s, Current, podEvents')
  <2>1. PICK i \in DOMAIN a : degrade("events", a[i]) # {}
    BY <1>3, <1>9
  <2>2. i \in need /\ a[i] # "ok"
    BY <1>3, <2>1, Booked
  <2>3. i \notin podEvents'
    BY <1>3, <1>8, <1>9, <2>2 DEF Fresh
  <2> QED BY <1>1, <2>2, <2>3 DEF Whole, Stands, Declared
<1>10. Leaves(s)
  <2> HIDE DEF s, need
  <2> QED BY <1>1, <1>2, <1>5, <1>6, <1>7, <1>8, <1>9 DEF Leaves, Inside, s
<1> QED BY <1>10

\* Each of these reads leaves the Service it is at in order.
LEMMA ReadsLeave ==
  ASSUME IngressInv,
         GetService \/ endpointsFor \/ legacyEndpointsFor \/ listPods \/ ReadBackends
  PROVE  \E s : Leaves(s)
BY ServiceLeaves, SlicesLeave, LegacyLeaves, PodsLeave, EventsLeave

-----------------------------------------------------------------------------
(* The invariant is kept *)

\* The Pods of all Services, in the order of the Services.
LEMMA PodsGathered ==
  ASSUME ListedInv, ServicesInv
  PROVE  LET out == InOrder(Gathered, {p \in Gathered \X Gathered : ByService(p[1], p[2])})
         IN  out \in Seq(DOMAIN scenario.pods) /\ IsInjective(out) /\ ToSet(out) = Gathered
<1> DEFINE S == Gathered
           R == {p \in S \X S : ByService(p[1], p[2])}
           out == InOrder(S, R)
<1>1. /\ DOMAIN scenario.pods = 1..Len(scenario.pods) /\ Len(scenario.pods) \in Nat
      /\ \A i \in DOMAIN scenario.pods : scenario.pods[i].service \in Services
  BY IngressHas DEF ListedInv
<1>2. S \in SUBSET DOMAIN scenario.pods
  <2> SUFFICES ASSUME NEW n \in Services, NEW i \in ToSet(services[n].pods)
               PROVE  i \in DOMAIN scenario.pods
    BY DEF Gathered
  <2>1. services[n].pods \in Seq(DOMAIN scenario.pods)
    BY DEF ServicesInv, ServiceInfo
  <2> QED BY <2>1, ListOf
<1> HIDE DEF S
<1>3. IsFiniteSet(S)
  <2>1. ASSUME NEW m \in Nat PROVE IsFiniteSet(1..m)
    BY FS_Interval
  <2> QED BY <1>1, <1>2, <2>1, FS_Subset
<1>4. \A i \in S : i \in Nat /\ scenario.pods[i].service \in Nat
  <2> SUFFICES ASSUME NEW i \in S PROVE i \in Nat /\ scenario.pods[i].service \in Nat
    OBVIOUS
  <2>1. i \in DOMAIN scenario.pods
    BY <1>2
  <2>2. scenario.pods[i].service \in Services
    BY <1>1, <2>1
  <2>3. \A m \in Nat : \A j \in 1..m : j \in Nat
    OBVIOUS
  <2>4. i \in Nat
    BY <1>1, <2>1, <2>3
  <2> QED BY <2>2, <2>4, ServicesFinite
<1>5. \A i, j \in S : <<i, j>> \in R
        <=> \/ scenario.pods[i].service < scenario.pods[j].service
            \/ scenario.pods[i].service = scenario.pods[j].service /\ i < j
  BY DEF ByService
<1> HIDE DEF R
<1>6. OrderOn(S, R)
  BY <1>4, <1>5 DEF OrderOn
<1>7. IsList(out) /\ ToSet(out) = S /\ IsInjective(out)
  BY <1>3, <1>6, ListInOrder
<1> HIDE DEF out
<1>8. out \in Seq(DOMAIN scenario.pods)
  BY <1>2, <1>7 DEF IsList
<1> QED BY <1>7, <1>8 DEF out, R, S

\* The collectors before the loop and after it leave the Services alone.
LEMMA ServicesKept ==
  ASSUME ServicesInv, LoopInv, UNCHANGED <<scenario, services, at>>, pc \notin Inside,
         pc' \notin Inside
  PROVE  ServicesInv' /\ at' \in 1..(Len(ToResolve') + 1)
<1>1. /\ ToResolve' = ToResolve /\ (\A k : Met(k)' = Met(k)) /\ ServiceInfo' = ServiceInfo
      /\ \A s : ServiceInv(s)' <=> ServiceInv(s)
  BY LoopKept
<1>2. Reached' = Reached /\ Unresolved' = Unresolved
  BY DEF Reached, Unresolved
<1> QED BY <1>1, <1>2 DEF ServicesInv, LoopInv

\* Each collector keeps the invariant.
LEMMA CollectorsKeep ==
  ASSUME IngressInv,
         \/ GetIngress \/ OwnEvents \/ collectIngressClass \/ GetService \/ endpointsFor
         \/ legacyEndpointsFor \/ listPods \/ ReadBackends \/ ServicesRead
  PROVE  IngressInv'
<1> USE DEF world, listing, verdict, podRules, own
<1>1. /\ ListedInv /\ ServicesInv /\ LoopInv /\ GatheredInv
      /\ pc \notin {"render", "done"} => ~Reported
  BY DEF IngressInv, EvaluationInv, ReportInv
<1>2. CASE GetIngress \/ OwnEvents \/ collectIngressClass
  <2>1. /\ pc \in {"get", "events", "class"} /\ pc' \in {"events", "class", "service", "done"}
        /\ UNCHANGED <<scenario, backends, services, at>>
        /\ UNCHANGED <<next, findings, podRules, podReport, report, status>>
    BY <1>2 DEF GetIngress, Get, OwnEvents, eventsFor, collectIngressClass
  <2>2. pc \notin Inside /\ pc' \notin Inside /\ ~Reported' /\ Collecting
    BY <1>1, <2>1 DEF Inside, Reported, Collecting
  <2>3. ServicesInv' /\ at' \in 1..(Len(ToResolve') + 1)
    BY <1>1, <2>1, <2>2, ServicesKept
  <2>4. LoopInv'
    BY <1>1, <2>1, <2>2, <2>3 DEF LoopInv
  <2>5. ListedInv' /\ GatheredInv'
    BY <1>1, <2>1, <2>2, ListEmpty DEF ListedInv, GatheredInv
  <2> QED BY <2>1, <2>2, <2>3, <2>4, <2>5, Collects
<1>3. CASE GetService \/ endpointsFor \/ legacyEndpointsFor \/ listPods \/ ReadBackends
  <2>1. PICK s : Leaves(s)
    BY <1>3, ReadsLeave
  <2> QED BY <2>1, ResolvesKeeps DEF Leaves
<1>4. CASE ServicesRead
  <2> DEFINE out == InOrder(Gathered, {p \in Gathered \X Gathered : ByService(p[1], p[2])})
  <2>1. /\ pc = "service" /\ pc' = "rules" /\ at \notin DOMAIN ToResolve /\ backends' = out
        /\ UNCHANGED <<scenario, services, at>>
        /\ UNCHANGED <<next, findings, podRules, podReport, report, status>>
    BY <1>4 DEF ServicesRead
  <2>2. out \in Seq(DOMAIN scenario.pods) /\ IsInjective(out) /\ ToSet(out) = Gathered
    BY <1>1, PodsGathered
  <2> HIDE DEF out
  <2>3. pc \notin Inside /\ pc' \notin Inside /\ ~Reported' /\ Collecting /\ ~Collecting'
    BY <1>1, <2>1 DEF Inside, Reported, Collecting
  <2>4. ServicesInv' /\ at' \in 1..(Len(ToResolve') + 1)
    BY <1>1, <2>1, <2>3, ServicesKept
  <2>5. at > Len(ToResolve) /\ ToResolve' = ToResolve
    <3>1. /\ Len(ToResolve) \in Nat /\ DOMAIN ToResolve = 1..Len(ToResolve)
      BY <1>1, ServicesMet DEF ListedInv
    <3> QED BY <1>1, <2>1, <3>1, LoopKept DEF LoopInv
  <2>6. LoopInv'
    BY <2>1, <2>3, <2>4, <2>5 DEF LoopInv
  <2>7. ListedInv'
    BY <1>1, <2>1, <2>2 DEF ListedInv
  <2>8. GatheredInv'
    BY <2>1, <2>2, <2>3 DEF GatheredInv, Gathered
  <2> QED BY <2>1, <2>3, <2>4, <2>6, <2>7, <2>8, Collects
<1> QED BY <1>2, <1>3, <1>4

\* The rules depend on the snapshot alone.
LEMMA SnapshotKept == ASSUME UNCHANGED <<scenario, own>> PROVE Rules' = Rules
<1> USE DEF own
<1>1. \A n : portDiagnosis(n)' <=> portDiagnosis(n)
  BY DEF portDiagnosis, PathsTo, ServiceOf
<1>2. \A n : endpointDiagnosis(n)' <=> endpointDiagnosis(n)
  BY DEF endpointDiagnosis
<1>3. \A n : BackendDiagnosis(n)' = BackendDiagnosis(n)
  BY <1>1, <1>2 DEF BackendDiagnosis
<1>4. Broken' = Broken /\ \A n : brokenFinding(n)' = brokenFinding(n)
  BY <1>3 DEF Broken, brokenFinding, Services
<1>5. evaluateBackends' = evaluateBackends
  <2>1. Ascending(Broken)' = Ascending(Broken)
    BY <1>4 DEF Ascending, InOrder
  <2> QED BY <1>4, <2>1 DEF evaluateBackends
<1>6. ClassExplains' = ClassExplains
  BY DEF ClassExplains
<1>7. evaluateClass' = evaluateClass /\ evaluateAddress' = evaluateAddress
  BY <1>6 DEF evaluateClass, evaluateAddress
<1> QED BY <1>5, <1>7 DEF Rules

\* Two lists without repeats that share nothing have none together.
LEMMA DistinctConcat ==
  ASSUME NEW s, IsList(s), IsInjective(s), NEW t, IsList(t), IsInjective(t),
         \A d \in ToSet(s) : d \notin ToSet(t)
  PROVE  IsInjective(s \o t)
<1> DEFINE out == s \o t
<1>1. /\ s \in Seq(ToSet(s)) /\ t \in Seq(ToSet(t)) /\ Len(s) \in Nat /\ Len(t) \in Nat
      /\ DOMAIN s = 1..Len(s) /\ DOMAIN t = 1..Len(t)
  BY DEF IsList
<1>2. /\ DOMAIN out = 1..(Len(s) + Len(t))
      /\ \A a \in 1..Len(s) : out[a] = s[a]
      /\ \A a \in 1..(Len(s) + Len(t)) : a \notin 1..Len(s) => out[a] = t[a - Len(s)]
  BY <1>1
<1>3. \A a \in 1..Len(s) : s[a] \in ToSet(s)
  BY <1>1 DEF ToSet
<1>4. \A a \in 1..Len(t) : t[a] \in ToSet(t)
  BY <1>1 DEF ToSet
<1>5. ASSUME NEW x \in Nat, NEW y \in Nat, NEW a \in 1..(x + y), a \notin 1..x
      PROVE  a - x \in 1..y
  BY <1>5
<1> HIDE DEF out
<1>6. ASSUME NEW a \in DOMAIN out, NEW b \in DOMAIN out, out[a] = out[b], a \in 1..Len(s)
      PROVE  a = b
  <2>1. b \in 1..Len(s)
    <3>1. SUFFICES ASSUME b \notin 1..Len(s) PROVE FALSE
      OBVIOUS
    <3>2. b - Len(s) \in 1..Len(t) /\ out[b] = t[b - Len(s)] /\ out[a] = s[a]
      BY <1>1, <1>2, <1>5, <1>6, <3>1
    <3> QED BY <1>3, <1>4, <1>6, <3>2
  <2>2. s[a] = s[b]
    BY <1>2, <1>6, <2>1
  <2> QED BY <1>1, <1>6, <2>1, <2>2 DEF IsInjective
<1>7. ASSUME NEW a \in DOMAIN out, NEW b \in DOMAIN out, out[a] = out[b], a \notin 1..Len(s)
      PROVE  a = b
  <2>1. b \notin 1..Len(s)
    BY <1>6, <1>7
  <2>2. /\ a - Len(s) \in 1..Len(t) /\ b - Len(s) \in 1..Len(t)
        /\ t[a - Len(s)] = t[b - Len(s)]
    BY <1>1, <1>2, <1>5, <1>7, <2>1
  <2>3. a - Len(s) = b - Len(s)
    BY <1>1, <2>2 DEF IsInjective
  <2>4. a \in Int /\ b \in Int
    BY <1>2
  <2> QED BY <1>1, <2>3, <2>4
<1> QED BY <1>6, <1>7 DEF IsInjective, out

\* Nor does sorting make any.
LEMMA DistinctSorted ==
  ASSUME NEW s, IsList(s), IsInjective(s), \A d \in ToSet(s) : Proper(d)
  PROVE  IsInjective(Prioritize(s))
<1> DEFINE place == [k \in DOMAIN s |-> At(s, k)]
<1>1. s \in Seq(ToSet(s)) /\ Rankable(s)
  BY ListRankable DEF IsList
<1>2. /\ place \in Bijection(DOMAIN s, DOMAIN s) /\ DOMAIN Prioritize(s) = DOMAIN s
      /\ \A k \in DOMAIN s : Prioritize(s)[k] = s[place[k]]
  BY <1>1, PrioritizePermutes, PrioritizeAt
<1> HIDE DEF place
<1>3. \A k, m \in DOMAIN s : place[k] \in DOMAIN s /\ (place[k] = place[m] => k = m)
  BY <1>2 DEF Bijection, Injection, IsInjective
<1> QED BY <1>2, <1>3 DEF IsInjective

\* So rules that tell nothing twice leave findings without repeats, at every step of the
\* evaluation.
LEMMA DistinctKeeps ==
  ASSUME NEW rules, OwnRules(rules), Distinct(rules), RulesInv(rules), IsInjective(findings),
         NEW explained, NEW weighed, NEW symptoms,
         EvaluationStep(rules, explained, weighed, symptoms)
  PROVE  IsInjective(findings)'
<1> USE DEF verdict, runVars
<1>1. FoundBy(findings, next, rules) /\ IsList(findings)
  BY DEF RulesInv, FoundBy
<1>2. CASE RunRule(rules)
  <2>1. next \in DOMAIN rules /\ findings' = findings \o rules[next]
    BY <1>2 DEF RunRule
  <2>2. IsList(rules[next]) /\ IsInjective(rules[next])
    BY <2>1 DEF OwnRules, Distinct
  <2>3. ASSUME NEW d \in ToSet(findings) PROVE d \notin ToSet(rules[next])
    <3>1. Len(rules) \in Nat /\ DOMAIN rules = 1..Len(rules)
      BY DEF OwnRules, IsList
    <3>2. PICK r \in 1..(next - 1) : d \in ToSet(rules[r])
      BY <1>1 DEF FoundBy
    <3>3. r \in DOMAIN rules /\ r # next
      BY <2>1, <3>1
    <3> QED BY <2>1, <3>2, <3>3 DEF Distinct
  <2> QED BY <1>1, <2>1, <2>2, <2>3, DistinctConcat
<1>3. CASE RulesDone(rules)
  <2>1. findings' = Prioritize(findings)
    BY <1>3 DEF RulesDone
  <2> QED BY <1>1, <2>1, FoundSorted, DistinctSorted
<1>4. CASE UNCHANGED findings
  BY <1>4
<1>5. RunRule(rules) \/ RulesDone(rules) \/ UNCHANGED findings
  BY DEF EvaluationStep, RunPodRule, NextPod, PodFindings, Report, Render, Expire, Drift
<1> QED BY <1>2, <1>3, <1>4, <1>5

\* The evaluation keeps the invariant, and so do the surroundings.
LEMMA VerdictKeeps ==
  ASSUME IngressInv, Evaluation \/ ((Expire \/ Drift) /\ UNCHANGED own) \/ UNCHANGED vars
  PROVE  IngressInv'
<1>1. PICK rules : rules = Rules
  OBVIOUS
<1>2. /\ ListedInv /\ ServicesInv /\ LoopInv /\ GatheredInv /\ OnceInv /\ IsInjective(findings)
      /\ EvaluationInv(rules, {}, AsFound, Symptoms) /\ scenario \in Scenarios
  BY <1>1 DEF IngressInv, ListedInv
<1>3. OwnRules(rules) /\ Distinct(rules)
  BY <1>1, <1>2, RulesAreOwn
<1>4. EvaluationStep(rules, {}, AsFound, Symptoms) /\ UNCHANGED own
  BY <1>1 DEF Evaluation, EvaluationStep, BackendFindings, IngressReport, vars
<1>5. UNCHANGED <<scenario, own, backends>>
  BY <1>4, EvaluationReads
<1>6. rules = Rules'
  BY <1>1, <1>5, SnapshotKept
<1>7. /\ \/ pc' = pc
         \/ /\ pc \in {"rules", "aggregate", "report", "render"}
            /\ pc' \in {"aggregate", "report", "render", "done"}
      /\ pc = "report" \/ UNCHANGED <<report, status>>
  BY <1>4, EvaluationLeaves
<1>8. /\ pc' \in Inside <=> pc \in Inside
      /\ pc' \in Inside => pc' = pc
      /\ pc' \in {"get", "events", "class"} => pc' = pc
      /\ Collecting' => Collecting
      /\ pc' \in {"rules", "aggregate", "report", "render"} \/ Reported' =>
           pc \in {"rules", "aggregate", "report", "render"} \/ Reported
  BY <1>7 DEF Reported, Inside, Collecting
<1>9. /\ ToResolve' = ToResolve /\ (\A k : Met(k)' = Met(k)) /\ ServiceInfo' = ServiceInfo
      /\ \A s : ServiceInv(s)' <=> ServiceInv(s)
  BY <1>5, LoopKept
<1>10. ServicesInv'
  <2>1. Reached' = Reached /\ Unresolved' = Unresolved
    BY <1>5, <1>8 DEF Reached, Unresolved, own
  <2> QED BY <1>2, <1>5, <1>9, <2>1 DEF ServicesInv, own
<1>11. LoopInv'
  <2>1. Current' = Current /\ Declared' = Declared
    BY <1>5, <1>9 DEF Current, own, Met, ServiceOf, Declared
  <2> QED BY <1>2, <1>5, <1>8, <1>9, <2>1 DEF LoopInv, own, Stands
<1>12. ListedInv' /\ GatheredInv'
  BY <1>2, <1>5, <1>8 DEF ListedInv, GatheredInv, own
<1>13. EvaluationInv(rules, {}, AsFound, Symptoms)'
  BY <1>2, <1>3, <1>4, EvaluationKeeps
<1>14. OnceInv'
  BY <1>2, <1>4, OnceKeeps DEF EvaluationInv
<1>15. IsInjective(findings)'
  BY <1>2, <1>3, <1>4, DistinctKeeps DEF EvaluationInv
<1> QED BY <1>6, <1>10, <1>11, <1>12, <1>13, <1>14, <1>15, EvaluationOf DEF IngressInv

\* Every step keeps it.
LEMMA IngressStep == IngressInv /\ [Next]_vars => IngressInv'
BY CollectorsKeep, VerdictKeeps DEF Next, Step, Terminated

-----------------------------------------------------------------------------
(* What the report says *)

\* Once the run has judged, the report is joined from the findings of the Ingress and of
\* the Pods behind it; before that it is empty.
LEMMA IngressJoined ==
  ASSUME IngressInv
  PROVE  /\ ListedInv /\ ServicesInv /\ LoopInv /\ GatheredInv /\ scenario \in Scenarios
         /\ OwnRules(Rules) /\ FoundBy(findings, next, Rules)
         /\ Reported => Joined(Symptoms, AsFound)
         /\ ~Reported => report = <<>>
<1>1. AsFound \in [Severities -> Severities]
  BY DEF AsFound
<1>2. /\ ListedInv /\ ServicesInv /\ LoopInv /\ GatheredInv /\ scenario \in Scenarios
      /\ EvaluationInv(Rules, {}, AsFound, Symptoms)
  BY DEF IngressInv, ListedInv
<1>3. OwnRules(Rules)
  BY <1>2, RulesAreOwn
<1>4. (~Reported => report = <<>>) /\ FoundBy(findings, next, Rules)
  BY <1>2 DEF EvaluationInv, ReportInv, RulesInv
<1> QED BY <1>1, <1>2, <1>3, <1>4, EvaluationJoined

\* Every finding of the Ingress has its symptom.
LEMMA FindingsHaveSymptoms ==
  ASSUME IngressInv, NEW e \in ToSet(findings)
  PROVE  IngressSymptom(e) /\ Own(e)
<1>1. PICK r \in DOMAIN Rules : e \in ToSet(Rules[r])
  BY IngressJoined, FoundFrom
<1>2. IngressSymptom(e)
  BY <1>1, IngressJoined, RulesAreOwn
<1> QED BY <1>1, <1>2, IngressJoined DEF OwnRules

\* IngressReport names as the cause of missing endpoints only a finding that it also
\* reports (analyze/ingress.go:29-36).
THEOREM CausesAreTold == Spec => []NoDanglingCause
<1>1. ASSUME IngressInv PROVE NoDanglingCause
  <2>1. CASE Reported
    BY <1>1, <2>1, IngressJoined, CausesTold
  <2>2. CASE ~Reported
    BY <1>1, <2>2, IngressJoined DEF NoDanglingCause
  <2> QED BY <2>1, <2>2
<1> QED BY <1>1, IngressBegins, IngressStep, PTL DEF Spec

\* Each finding about a Pod behind the Ingress is counted in one finding of the report,
\* with the Pod among its subjects, of which there are as many as it counts
\* (aggregate.go:8-13).
THEOREM PodFindingsKept == Spec => []NothingLost
<1>1. ASSUME IngressInv PROVE NothingLost
  <2>1. CASE Reported
    BY <1>1, <2>1, IngressJoined, AllCounted DEF IngressInv, OnceInv
  <2>2. CASE ~Reported
    BY <2>2 DEF NothingLost
  <2> QED BY <2>1, <2>2
<1> QED BY <1>1, IngressBegins, IngressStep, PTL DEF Spec

-----------------------------------------------------------------------------
(* What is told once *)

\* A row of the report that tells of the Ingress's own finding e.
Repeated(d, e) == d.count = 0 /\ d.id = e.id /\ d.about = e.about

\* A finding unlike the others is told in one place: merged findings count Pods, and
\* sorting moves findings without repeating any.
LEMMA ToldInOnePlace ==
  ASSUME Joined(Symptoms, AsFound), IsInjective(findings), NEW e \in ToSet(findings),
         \A f \in ToSet(findings) : f.id = e.id /\ f.about = e.about => f = e
  PROVE  Cardinality({k \in DOMAIN report : Repeated(report[k], e)}) = 1
<1> DEFINE told == Explained(Symptoms)
           in == told \o podReport
<1>1. /\ IsList(told) /\ DOMAIN told = DOMAIN findings /\ \A d \in ToSet(told) : Proper(d)
  BY ExplainedFacts DEF Joined
<1>2. ASSUME NEW k \in DOMAIN findings
      PROVE  /\ told[k].id = findings[k].id /\ told[k].about = findings[k].about
             /\ told[k].count = 0 /\ findings[k] \in ToSet(findings)
  <2>1. findings[k] \in ToSet(findings) /\ Own(findings[k])
    BY DEF Joined, ToSet
  <2>2. LET d == findings[k]
            f == [d EXCEPT !.causedBy = dominantFinding]
        IN  /\ d.count = 0 /\ f.id = d.id /\ f.about = d.about /\ f.count = d.count
    BY <2>1, OwnFields
  <2>3. told[k] \in {findings[k], [findings[k] EXCEPT !.causedBy = dominantFinding]}
    BY DEF Explained
  <2> QED BY <2>1, <2>2, <2>3
<1>3. IsList(podReport) /\ \A d \in ToSet(podReport) : Proper(d) /\ d.count # 0
  BY ReportFacts DEF MergedRow
<1>4. PICK p \in DOMAIN findings : findings[p] = e
  BY DEF ToSet
<1> HIDE DEF told
<1>5. /\ IsList(in) /\ ToSet(in) = ToSet(told) \cup ToSet(podReport)
      /\ \A d \in ToSet(in) : Proper(d)
  BY <1>1, <1>3, ListConcat
<1>6. /\ told \in Seq(ToSet(told)) /\ podReport \in Seq(ToSet(podReport))
      /\ Len(told) \in Nat /\ Len(podReport) \in Nat
      /\ DOMAIN told = 1..Len(told) /\ DOMAIN podReport = 1..Len(podReport)
  BY <1>1, <1>3 DEF IsList
<1>7. /\ DOMAIN in = 1..(Len(told) + Len(podReport))
      /\ \A a \in 1..Len(told) : in[a] = told[a]
      /\ \A a \in 1..(Len(told) + Len(podReport)) :
           a \notin 1..Len(told) => in[a] = podReport[a - Len(told)]
  BY <1>6
<1> HIDE DEF in
<1>8. p \in DOMAIN in /\ Repeated(in[p], e)
  BY <1>1, <1>2, <1>4, <1>6, <1>7 DEF Repeated
<1>9. ASSUME NEW m \in DOMAIN in, Repeated(in[m], e) PROVE m = p
  <2>1. m \in 1..Len(told)
    <3>1. SUFFICES ASSUME m \notin 1..Len(told) PROVE FALSE
      OBVIOUS
    <3>2. ASSUME NEW x \in Nat, NEW y \in Nat, NEW n \in 1..(x + y), n \notin 1..x
          PROVE  n - x \in 1..y
      BY <3>2
    <3>3. m - Len(told) \in DOMAIN podReport /\ in[m] = podReport[m - Len(told)]
      BY <1>6, <1>7, <3>1, <3>2
    <3>4. in[m].count # 0
      BY <1>3, <3>3 DEF ToSet
    <3> QED BY <1>9, <3>4 DEF Repeated
  <2>2. findings[m] = e /\ m \in DOMAIN findings
    BY <1>1, <1>2, <1>6, <1>7, <1>9, <2>1 DEF Repeated
  <2> QED BY <1>4, <2>2 DEF IsInjective
<1> DEFINE place == [k \in DOMAIN in |-> At(in, k)]
<1>10. /\ place \in Bijection(DOMAIN in, DOMAIN in) /\ DOMAIN report = DOMAIN in
       /\ \A k \in DOMAIN in : report[k] = in[place[k]]
  <2>1. in \in Seq(ToSet(in)) /\ Rankable(in)
    BY <1>5, ListRankable DEF IsList
  <2>2. report = Prioritize(in)
    BY DEF Joined, in, told
  <2> QED BY <2>1, <2>2, PrioritizePermutes, PrioritizeAt
<1> HIDE DEF place
<1>11. PICK k \in DOMAIN in : place[k] = p
  BY <1>8, <1>10 DEF Bijection, Surjection
<1>12. {n \in DOMAIN report : Repeated(report[n], e)} = {k}
  <2>1. \A n \in DOMAIN in : place[n] \in DOMAIN in /\ (place[n] = place[k] => n = k)
    BY <1>10 DEF Bijection, Injection, IsInjective
  <2>2. Repeated(report[k], e)
    BY <1>8, <1>10, <1>11
  <2>3. ASSUME NEW n \in DOMAIN in, Repeated(report[n], e) PROVE n = k
    BY <1>9, <1>10, <1>11, <2>1, <2>3
  <2> QED BY <1>10, <2>2, <2>3
<1> QED BY <1>12, FS_Singleton

\* A row that counts no Pods, or has the identifier of no Pod rule, tells of a finding of
\* the Ingress.
LEMMA RowsOfIngress ==
  ASSUME Joined(Symptoms, AsFound), NEW d \in ToSet(report), d.count = 0 \/ d.id \notin PodIDs
  PROVE  d.count = 0 /\ \E f \in ToSet(findings) :
                          d.id = f.id /\ d.about = f.about /\ d.severity = f.severity
<1>1. d \notin ToSet(podReport)
  BY ReportFacts DEF MergedRow
<1>2. d \in ToSet(Explained(Symptoms))
  BY <1>1, ReportFacts
<1> QED BY <1>2, ExplainedFacts DEF Joined, Tells

\* A Service is broken when a path to it is dead, because every Service of which
\* something is known has a path to it.
LEMMA BrokenIsDead ==
  ASSUME ServicesInv, LoopInv, scenario \in Scenarios, NEW n \in Services
  PROVE  n \in Broken <=> \E i \in PathsTo(n) : Dead(i)
<1>1. n # 0 /\ ServiceInv(services[n])
  BY ServicesFinite DEF ServicesInv
<1>2. \A i \in PathsTo(n) : i \in DOMAIN scenario.paths /\ ServiceOf(i) = n
  BY DEF PathsTo
<1>3. ASSUME services[n] # Unresolved PROVE PathsTo(n) # {}
  <2>1. PICK k \in 1..Reached : n = Met(k)
    BY <1>3 DEF ServicesInv
  <2>2. k \in 1..Len(ToResolve)
    BY ServicesMet DEF Reached, LoopInv
  <2> QED BY <2>1, <2>2, ServicesMet DEF PathsTo
<1>4. ASSUME NEW i \in PathsTo(n), Dead(i) PROVE n \in Broken
  <2>1. \/ services[n].exists = "missing"
        \/ services[n].exists = "found" /\ portDiagnosis(n)
        \/ services[n].exists = "found" /\ endpointDiagnosis(n)
    BY <1>2, <1>4 DEF Dead, portDiagnosis, endpointDiagnosis
  <2>2. BackendDiagnosis(n) # "none"
    BY <2>1 DEF BackendDiagnosis
  <2> QED BY <2>2 DEF Broken
<1>5. ASSUME n \in Broken PROVE \E i \in PathsTo(n) : Dead(i)
  <2>1. \/ services[n].exists = "missing"
        \/ services[n].exists = "found" /\ portDiagnosis(n)
        \/ services[n].exists = "found" /\ endpointDiagnosis(n)
    BY <1>5 DEF Broken, BackendDiagnosis
  <2>2. PathsTo(n) # {}
    BY <1>3, <2>1, NothingKnown
  <2>3. CASE services[n].exists = "found" /\ portDiagnosis(n)
    BY <1>1, <1>2, <2>3 DEF portDiagnosis, Dead
  <2>4. CASE services[n].exists = "missing"
    BY <1>1, <1>2, <2>2, <2>4 DEF Dead
  <2>5. CASE services[n].exists = "found" /\ endpointDiagnosis(n)
    BY <1>1, <1>2, <2>2, <2>5 DEF Dead, endpointDiagnosis
  <2> QED BY <2>1, <2>3, <2>4, <2>5
<1> QED BY <1>4, <1>5

\* A Service that a path cannot get through has one finding, however many paths route to
\* it, and another has none (rules/ingress/ingress.go:71-73).
THEOREM BackendsToldOnce == Spec => []BrokenBackendToldOnce
<1>1. ASSUME IngressInv PROVE BrokenBackendToldOnce
  <2> SUFFICES ASSUME Evaluated, NEW n \in Services
               PROVE  Cardinality({k \in DOMAIN report : report[k].count = 0 /\ report[k].about = n}) =
                        IF \E i \in PathsTo(n) : Dead(i) THEN 1 ELSE 0
    BY DEF BrokenBackendToldOnce
  <2> DEFINE K == {k \in DOMAIN report : report[k].count = 0 /\ report[k].about = n}
  <2>1. /\ Joined(Symptoms, AsFound) /\ ServicesInv /\ LoopInv /\ scenario \in Scenarios
        /\ OwnRules(Rules) /\ FoundBy(findings, next, Rules) /\ next > Len(Rules)
        /\ IsInjective(findings) /\ n # 0
    BY <1>1, IngressJoined, ServicesFinite DEF Evaluated, IngressInv
  <2>2. n \in Broken <=> \E i \in PathsTo(n) : Dead(i)
    BY <2>1, BrokenIsDead
  <2>3. ASSUME NEW f \in ToSet(findings), f.about = n
        PROVE  /\ n \in Broken /\ f.id = BackendDiagnosis(n) /\ Own(f)
               /\ f.severity = "critical" /\ f.confidence = "certain"
    <3>1. IngressSymptom(f) /\ Own(f)
      BY <1>1, FindingsHaveSymptoms
    <3> QED BY <2>1, <2>3, <3>1 DEF IngressSymptom
  <2>4. ASSUME NEW k \in K
        PROVE  \E f \in ToSet(findings) : report[k].id = f.id /\ f.about = n
    <3>1. report[k] \in ToSet(report) /\ report[k].count = 0 /\ report[k].about = n
      BY DEF ToSet
    <3>2. PICK f \in ToSet(findings) : report[k].id = f.id /\ report[k].about = f.about
      BY <2>1, <3>1, RowsOfIngress
    <3> QED BY <3>1, <3>2
  <2>5. CASE n \in Broken
    <3>1. scenario.paths # <<>>
      <4>1. PICK i \in PathsTo(n) : Dead(i)
        BY <2>2, <2>5
      <4>2. i \in DOMAIN scenario.paths
        BY DEF PathsTo
      <4> QED BY <4>2
    <3>2. PICK r \in DOMAIN Rules : \E d \in ToSet(Rules[r]) : d.about = n
      BY <2>1, <2>5, <3>1, RulesAreOwn
    <3>3. PICK e \in ToSet(findings) : e.about = n
      BY <2>1, <3>2, FoundFrom
    <3>4. ASSUME NEW f \in ToSet(findings), f.about = n PROVE f = e
      BY <2>3, <3>3, <3>4, SameFinding
    <3>5. Cardinality({k \in DOMAIN report : Repeated(report[k], e)}) = 1
      BY <2>1, <3>3, <3>4, ToldInOnePlace
    <3>6. K = {k \in DOMAIN report : Repeated(report[k], e)}
      <4>1. ASSUME NEW k \in K PROVE Repeated(report[k], e)
        BY <2>4, <3>3, <3>4 DEF Repeated
      <4> QED BY <3>3, <4>1 DEF Repeated
    <3> QED BY <2>2, <2>5, <3>5, <3>6
  <2>6. CASE n \notin Broken
    <3>1. K = {}
      BY <2>3, <2>4, <2>6
    <3> QED BY <2>2, <2>6, <3>1, FS_EmptySet
  <2> QED BY <2>5, <2>6
<1> QED BY <1>1, IngressBegins, IngressStep, PTL DEF Spec

\* An Ingress that has waited long enough for an address has one finding about that, from
\* the class or the address rule (rules/ingress/ingress.go:316-317).
THEOREM AddressesToldOnce == Spec => []AddressToldOnce
<1>1. ASSUME IngressInv PROVE AddressToldOnce
  <2> DEFINE K == {k \in DOMAIN report : report[k].id \in AddressIDs}
  <2> SUFFICES ASSUME Evaluated, ~scenario.address, scenario.old PROVE Cardinality(K) = 1
    BY DEF AddressToldOnce, AddressIDs
  <2>1. /\ Joined(Symptoms, AsFound) /\ scenario \in Scenarios /\ IsInjective(findings)
        /\ OwnRules(Rules) /\ FoundBy(findings, next, Rules) /\ next > Len(Rules)
    BY <1>1, IngressJoined DEF Evaluated, IngressInv
  <2>2. PICK r \in DOMAIN Rules : \E d \in ToSet(Rules[r]) : d.id \in AddressIDs
    BY <2>1, RulesAreOwn
  <2>3. PICK e \in ToSet(findings) : e.id \in AddressIDs
    BY <2>1, <2>2, FoundFrom
  <2>4. \A x \in BackendIDs \cup {"none"} : x \notin AddressIDs
    BY DEF BackendIDs, AddressIDs
  <2>5. ASSUME NEW f \in ToSet(findings), f.id \in AddressIDs
        PROVE  /\ Own(f) /\ f.about = 0
               /\ \/ /\ class.exists = "missing" /\ f.id = "INGRESS_CLASS_NOT_FOUND"
                     /\ f.severity = "critical" /\ f.confidence = "certain"
                  \/ /\ class.exists # "missing" /\ class.default = "missing"
                     /\ f.id = "INGRESS_NO_CLASS"
                     /\ f.severity = "warning" /\ f.confidence = "likely"
                  \/ /\ class.exists # "missing" /\ class.default # "missing"
                     /\ f.id = "INGRESS_NO_ADDRESS"
                     /\ f.severity = "warning" /\ f.confidence = "possible"
    <3>1. IngressSymptom(f) /\ Own(f)
      BY <1>1, FindingsHaveSymptoms
    <3>2. f.id # BackendDiagnosis(f.about) /\ f.id # "INGRESS_NO_RULES"
      BY <2>4, <2>5, DiagnosisID DEF AddressIDs
    <3> QED BY <3>1, <3>2 DEF IngressSymptom, ClassExplains
  <2>6. ASSUME NEW f \in ToSet(findings), f.id \in AddressIDs PROVE f = e
    <3>1. /\ Own(f) /\ Own(e) /\ f.id = e.id /\ f.about = e.about
          /\ f.severity = e.severity /\ f.confidence = e.confidence
      BY <2>3, <2>5, <2>6
    <3> QED BY <3>1, SameFinding
  <2>7. Cardinality({k \in DOMAIN report : Repeated(report[k], e)}) = 1
    BY <2>1, <2>3, <2>6, ToldInOnePlace
  <2>8. K = {k \in DOMAIN report : Repeated(report[k], e)}
    <3>1. ASSUME NEW k \in K PROVE Repeated(report[k], e)
      <4>1. report[k] \in ToSet(report) /\ report[k].id \notin PodIDs
        BY DEF ToSet, AddressIDs, PodIDs
      <4>2. report[k].count = 0 /\ \E f \in ToSet(findings) :
              report[k].id = f.id /\ report[k].about = f.about
        BY <2>1, <4>1, RowsOfIngress
      <4> QED BY <2>6, <4>2 DEF Repeated
    <3> QED BY <2>3, <3>1 DEF Repeated
  <2> QED BY <2>7, <2>8
<1> QED BY <1>1, IngressBegins, IngressStep, PTL DEF Spec

\* An Ingress with an address whose paths all lead to a ready endpoint is no issue: its
\* Services have nothing to be told, and no Pods behind them were looked at
\* (collect/ingress.go:159).
THEOREM ServedIsWorking == Spec => []ServedIsNoIssue
<1>1. ASSUME IngressInv PROVE ServedIsNoIssue
  <2> SUFFICES ASSUME Reported, scenario.address, scenario.paths # <<>>,
                      \A i \in DOMAIN scenario.paths :
                        LET n == ServiceOf(i)
                        IN  n # 0 => /\ services[n].exists = "found"
                                     /\ services[n].endpoints.ready > 0
                                     /\ scenario.paths[i].port \in scenario.services[n].ports
               PROVE  ~IssueFound
    BY DEF ServedIsNoIssue
  <2>1. /\ Joined(Symptoms, AsFound) /\ ServicesInv /\ LoopInv /\ GatheredInv
        /\ scenario \in Scenarios
    BY <1>1, IngressJoined
  <2>2. ASSUME NEW n \in Services, services[n] # Unresolved
        PROVE  services[n].exists = "found" /\ ~(services[n].endpoints.ready = 0)
    <3>1. PICK k \in 1..Reached : n = Met(k)
      BY <2>1, <2>2 DEF ServicesInv
    <3>2. k \in 1..Len(ToResolve)
      BY <2>1, ServicesMet DEF Reached, LoopInv
    <3>3. PICK i \in DOMAIN scenario.paths : ServiceOf(i) = n
      BY <2>1, <3>1, <3>2, ServicesMet
    <3>4. n # 0
      BY ServicesFinite
    <3>5. services[n].endpoints.ready \in Nat
      BY <2>1 DEF ServicesInv, ServiceInfo
    <3> QED BY <3>3, <3>4, <3>5
  <2>3. Broken = {}
    <3> SUFFICES ASSUME NEW n \in Broken PROVE FALSE
      OBVIOUS
    <3>1. PICK i \in PathsTo(n) : Dead(i)
      BY <2>1, BrokenIsDead DEF Broken
    <3>2. i \in DOMAIN scenario.paths /\ ServiceOf(i) = n /\ n \in Services /\ n # 0
      BY ServicesFinite DEF PathsTo, Broken
    <3>3. services[n].endpoints.ready \in Nat
      BY <2>1, <3>2 DEF ServicesInv, ServiceInfo
    <3> QED BY <3>1, <3>2, <3>3 DEF Dead
  <2>4. findings = <<>>
    <3>1. ASSUME NEW e \in ToSet(findings) PROVE FALSE
      <4>1. IngressSymptom(e)
        BY <1>1, FindingsHaveSymptoms
      <4> QED BY <2>3, <4>1 DEF IngressSymptom
    <3> QED BY <2>1, <3>1, ListEmpty DEF Joined
  <2>5. ToSet(backends) = {}
    <3> SUFFICES ASSUME NEW n \in Services, NEW i \in ToSet(services[n].pods) PROVE FALSE
      BY <2>1 DEF GatheredInv
    <3>1. services[n].pods # <<>>
      BY ListEmpty
    <3>2. services[n] # Unresolved /\ services[n].endpoints.ready = 0
      BY <2>1, <3>1, NothingKnown DEF ServicesInv, ServiceInv
    <3> QED BY <2>2, <3>2
  <2>6. ToSet(all) = {}
    BY <2>1, <2>5 DEF Joined, Rows, Row
  <2>7. ToSet(podReport) = {}
    BY <2>1, <2>6, WeighedRows DEF Joined
  <2>8. ToSet(report) = {}
    BY <2>1, <2>4, <2>7, ReportFacts, ExplainedFacts, ListEmpty DEF Joined
  <2> QED BY <2>1, <2>8, StatusFacts
<1> QED BY <1>1, IngressBegins, IngressStep, PTL DEF Spec

-----------------------------------------------------------------------------
(* What the reads have left *)

Known == {"found", "missing", "unknown"}

\* What is known was true when it was read.
SnapshotInv ==
  /\ Objects \ present \subseteq everAbsent
  /\ class \in [exists : Known, default : Known]
  /\ pc \in {"get", "events", "class"} => class.default = "unknown"
  /\ ClassExplains => O("class") \in everAbsent
  /\ \A n \in Services : Truthful(services[n], n)
  /\ \A i \in podEvents : \E k \in 1..(at - 1) : scenario.pods[i].service = Met(k)

\* What could not be read, of what has been asked for, is booked, and nothing else is: the
\* Pods of one Service are not those of another, so no later read makes up for a failure.
AllRead ==
  /\ pc \in {"get", "events"} \/ ownEvents
  /\ pc \in {"get", "events", "class"} \/ ClassRead
  /\ \A k \in 1..(at - 1) : Whole(services[Met(k)], Met(k), podEvents)
BookedInv == pc # "done" \/ Reported => (degradations = {} <=> AllRead)

\* What has been spent on the Services the loop has been to, and on the one it is at.
Spent ==
  3 + (4 + MaxBackendEvents) * (at - 1)
    + (IF pc = "endpoints" THEN 1 ELSE IF pc = "legacy" THEN 2 ELSE IF pc = "pods" THEN 3
       ELSE IF pc = "backends" THEN 4 ELSE 0)
CostInv ==
  /\ calls \in Nat /\ calls <= Spent
  /\ pc = "get" => calls = 0
  /\ pc = "events" => calls = 1
  /\ pc = "class" => calls = 2

CollectedInv == SnapshotInv /\ BookedInv /\ CostInv

\* Nothing is known, booked or spent at the start.
LEMMA CollectedBegins == Init => CollectedInv
<1> SUFFICES ASSUME Init PROVE CollectedInv
  OBVIOUS
<1>1. /\ pc = "get" /\ calls = 0 /\ at = 1 /\ present = Objects \ everAbsent
      /\ class = [exists |-> "unknown", default |-> "unknown"]
      /\ services = [n \in Services |-> Unresolved] /\ MaxBackendEvents \in Nat
      /\ podEvents = {} /\ degradations = {}
  BY BackendsAssumption DEF Init, InitRun
<1>2. CostInv
  <2>1. (4 + MaxBackendEvents) * (1 - 1) = 0
    BY <1>1
  <2> QED BY <1>1, <2>1 DEF CostInv, Spent
<1>3. SnapshotInv
  <2>1. ~ClassExplains /\ class \in [exists : Known, default : Known]
    BY <1>1 DEF ClassExplains, Known
  <2>2. \A n \in Services : Truthful(services[n], n)
    BY <1>1, NothingKnown, ListEmpty DEF Truthful
  <2> QED BY <1>1, <2>1, <2>2 DEF SnapshotInv
<1> QED BY <1>1, <1>2, <1>3 DEF CollectedInv, BookedInv, AllRead

\* What was read of a Service stays so.
LEMMA WholeKept ==
  ASSUME UNCHANGED scenario, NEW s, NEW n, NEW events
  PROVE  Whole(s, n, events)' <=> Whole(s, n, events)
<1>1. needEvents(s.pods)' = needEvents(s.pods)
  BY DEF needEvents, UnreadyIn
<1> QED BY <1>1 DEF Whole

\* Nor does it change while nothing is read.
LEMMA StaysWhole ==
  ASSUME UNCHANGED <<scenario, services, podEvents>>, NEW k
  PROVE  Whole(services[Met(k)], Met(k), podEvents)'
           <=> Whole(services[Met(k)], Met(k), podEvents)
<1>1. PICK s, n, events : s = services[Met(k)] /\ n = Met(k) /\ events = podEvents
  OBVIOUS
<1>2. Whole(s, n, events)' <=> Whole(s, n, events)
  BY WholeKept
<1>3. Met(k)' = Met(k)
  BY LoopKept
<1> QED BY <1>1, <1>2, <1>3 DEF Whole

\* It is whole or not whatever is read of the Pods of other Services.
LEMMA WholeOwn ==
  ASSUME NEW s, NEW n, NEW events, NEW more, events \subseteq more,
         \A i \in ToSet(s.pods) : i \in more => i \in events
  PROVE  Whole(s, n, more) <=> Whole(s, n, events)
<1>1. needEvents(s.pods) \subseteq ToSet(s.pods)
  BY DEF needEvents, UnreadyIn, ToSet
<1> QED BY <1>1 DEF Whole

\* The read of the class adds only what is so, and books its failure.
LEMMA ClassBooked ==
  ASSUME IngressInv, SnapshotInv, collectIngressClass
  PROVE  /\ ClassExplains' => O("class") \in everAbsent
         /\ class' \in [exists : Known, default : Known]
         /\ degradations \subseteq degradations' /\ (degradations' = {} => ClassRead')
         /\ degradations' # degradations => ~ClassRead'
         /\ calls' \in {calls, calls + 1}
<1>1. UNCHANGED <<scenario, present, everAbsent>>
  BY DEF collectIngressClass, world
<1>2. /\ O("class") \notin present => O("class") \in everAbsent
      /\ ClassExplains => O("class") \in everAbsent
      /\ class \in [exists : Known, default : Known] /\ class.default = "unknown"
  BY DEF SnapshotInv, Objects, collectIngressClass
<1>3. scenario.address \in BOOLEAN /\ scenario.class \in {"named", "annotated", "none"}
  BY IngressHas DEF IngressInv, ListedInv
<1>4. CASE scenario.address \/ scenario.class = "annotated"
  <2>1. UNCHANGED <<calls, class, degradations>>
    BY <1>4 DEF collectIngressClass
  <2> QED BY <1>1, <1>2, <1>4, <2>1 DEF ClassRead, ClassExplains
<1>5. CASE ~scenario.address /\ scenario.class = "named"
  <2>1. PICK a \in Lookup(O("class")) :
          /\ class' = [class EXCEPT !.exists = existence(a)]
          /\ degradations' = degradations \cup existenceDegradation("ingressclasses", a)
    BY <1>5 DEF collectIngressClass
  <2>2. calls' = calls + 1
    BY <1>5 DEF collectIngressClass
  <2>3. /\ existence(a) \in Known /\ (existence(a) = "missing" <=> a = "NotFound")
        /\ existence(a) = "found" <=> a = "ok"
    BY DEF existence, Known
  <2>4. /\ class' \in [exists : Known, default : Known]
        /\ class'.exists = existence(a) /\ class'.default = class.default
    BY <1>2, <2>1, <2>3
  <2>5. a = "NotFound" => O("class") \notin present
    BY BackendsAssumption DEF Lookup, Answers
  <2>6. /\ degradations \subseteq degradations'
        /\ degradations' = {} => existence(a) # "unknown"
        /\ degradations' # degradations => existence(a) = "unknown"
    <3>1. existenceDegradation("ingressclasses", a) = {} <=> a \in {"ok", "NotFound"}
      BY Booked
    <3> QED BY <2>1, <2>3, <3>1 DEF Known
  <2>7. ClassExplains' => O("class") \in everAbsent
    BY <1>2, <2>3, <2>4, <2>5 DEF ClassExplains
  <2>8. (degradations' = {} => ClassRead') /\ (degradations' # degradations => ~ClassRead')
    BY <1>1, <1>5, <2>4, <2>6 DEF ClassRead
  <2> QED BY <2>2, <2>4, <2>6, <2>7, <2>8
<1>6. CASE ~scenario.address /\ scenario.class = "none"
  <2>1. PICK a \in Answers("ok") :
          /\ class' = IF a # "ok" THEN class
                      ELSE IF O("class") \in present
                        THEN [exists |-> "found", default |-> "found"]
                        ELSE [class EXCEPT !.default = "missing"]
          /\ degradations' = degradations \cup degrade("ingressclasses", a)
    BY <1>6 DEF collectIngressClass
  <2>2. calls' = calls + 1
    BY <1>6 DEF collectIngressClass
  <2>3. /\ degradations \subseteq degradations'
        /\ degradations' = {} => a = "ok"
        /\ degradations' # degradations => a # "ok"
    <3>1. degrade("ingressclasses", a) = {} <=> a = "ok"
      BY Booked
    <3> QED BY <2>1, <3>1
  <2>4. CASE a # "ok"
    BY <1>1, <1>2, <1>6, <2>1, <2>2, <2>3, <2>4 DEF ClassExplains, ClassRead
  <2>5. CASE a = "ok" /\ O("class") \in present
    <3>1. class' = [exists |-> "found", default |-> "found"]
      BY <2>1, <2>5
    <3>2. /\ class' \in [exists : Known, default : Known]
          /\ class'.exists = "found" /\ class'.default = "found"
      BY <3>1 DEF Known
    <3> QED BY <1>1, <1>6, <2>2, <2>3, <2>5, <3>2 DEF ClassExplains, ClassRead
  <2>6. CASE a = "ok" /\ O("class") \notin present
    <3>1. class' = [class EXCEPT !.default = "missing"]
      BY <2>1, <2>6
    <3>2. class' \in [exists : Known, default : Known] /\ class'.default = "missing"
      BY <1>2, <3>1 DEF Known
    <3> QED BY <1>1, <1>2, <1>6, <2>2, <2>3, <2>6, <3>2 DEF ClassExplains, ClassRead
  <2> QED BY <2>4, <2>5, <2>6
<1> QED BY <1>3, <1>4, <1>5, <1>6

\* What one more Service costs.
LEMMA NextCosts ==
  ASSUME NEW x \in Nat, NEW n \in Nat \ {0}
  PROVE  /\ x * ((n + 1) - 1) = x * (n - 1) + x
         /\ x * (n - 1) \in Nat
<1>1. \A m \in Nat : x * (m + 1) = x * m + x /\ x * m \in Nat
  OBVIOUS
<1>2. n - 1 \in Nat /\ (n + 1) - 1 = (n - 1) + 1
  OBVIOUS
<1> QED BY <1>1, <1>2

\* The reads of a Service, one after the other, are within what it may cost.
LEMMA ServiceCosts ==
  ASSUME IngressInv, CostInv,
         GetService \/ endpointsFor \/ legacyEndpointsFor \/ listPods \/ ReadBackends
  PROVE  CostInv'
<1> DEFINE x == 4 + MaxBackendEvents
           paid == x * (at - 1)
<1>1. at \in Nat \ {0} /\ MaxBackendEvents \in Nat /\ x \in Nat /\ calls \in Nat
  BY BackendsAssumption, ServicesMet DEF IngressInv, LoopInv, ListedInv, CostInv
<1>2. x * ((at + 1) - 1) = paid + x /\ paid \in Nat
  BY <1>1, NextCosts
<1>3. CASE ReadBackends
  <2> DEFINE c == Cardinality(needEvents(services[Current].pods))
  <2>1. pc = "backends" /\ pc' = "service" /\ at' = at + 1 /\ calls' = calls + c
    BY <1>3 DEF ReadBackends, backendSnapshots
  <2>2. c \in Nat /\ c <= MaxBackendEvents
    <3>1. services[Current] \in ServiceInfo
      BY <2>1, AtHand DEF Inside
    <3>2. IsList(services[Current].pods)
      BY <3>1, ListOf DEF ServiceInfo
    <3> QED BY <3>2, FewEvents
  <2> HIDE DEF c
  <2>3. calls <= 3 + paid + 4
    BY <2>1 DEF CostInv, Spent
  <2>4. Spent' = 3 + x * ((at + 1) - 1) + 0
    BY <2>1 DEF Spent
  <2> HIDE DEF paid
  <2>5. calls' \in Nat /\ calls' <= Spent'
    BY <1>1, <1>2, <2>1, <2>2, <2>3, <2>4
  <2> QED BY <2>1, <2>5 DEF CostInv
<1>4. CASE GetService \/ endpointsFor \/ legacyEndpointsFor \/ listPods
  <2>1. /\ calls' = calls + 1
        /\ \/ pc = "service" /\ pc' = "endpoints" /\ at' = at
           \/ pc = "endpoints" /\ pc' \in {"legacy", "pods"} /\ at' = at
           \/ pc = "legacy" /\ pc' = "pods" /\ at' = at
           \/ pc = "pods" /\ pc' = "backends" /\ at' = at
           \/ pc \in {"service", "endpoints", "legacy", "pods"} /\ pc' = "service" /\ at' = at + 1
    BY <1>4 DEF GetService, endpointsFor, legacyEndpointsFor, listPods, Endpoints
  <2>2. CASE at' = at
    <3>1. Spent \in Nat /\ Spent' \in Nat /\ Spent' >= Spent + 1
      <4>1. /\ Spent = 3 + paid + (IF pc = "endpoints" THEN 1 ELSE IF pc = "legacy" THEN 2
                                    ELSE IF pc = "pods" THEN 3 ELSE IF pc = "backends" THEN 4 ELSE 0)
            /\ Spent' = 3 + paid + (IF pc' = "endpoints" THEN 1 ELSE IF pc' = "legacy" THEN 2
                                    ELSE IF pc' = "pods" THEN 3 ELSE IF pc' = "backends" THEN 4 ELSE 0)
        BY <2>2 DEF Spent
      <4> HIDE DEF paid
      <4> QED BY <1>1, <1>2, <2>1, <2>2, <4>1
    <3> QED BY <1>1, <2>1, <3>1 DEF CostInv
  <2>3. CASE at' = at + 1
    <3>1. pc' = "service" /\ pc # "backends"
      BY <1>1, <2>1, <2>3
    <3>2. Spent' = 3 + x * ((at + 1) - 1) + 0 /\ calls <= 3 + paid + 3
      <4>1. Spent' = 3 + x * ((at + 1) - 1) + 0
        BY <2>3, <3>1 DEF Spent
      <4>2. PICK y \in {0, 1, 2, 3} : Spent = 3 + paid + y
        BY <3>1 DEF Spent
      <4>3. calls <= Spent
        BY DEF CostInv
      <4> HIDE DEF paid
      <4>4. calls <= 3 + paid + 3
        BY <1>1, <1>2, <4>2, <4>3
      <4> QED BY <4>1, <4>4
    <3> HIDE DEF paid
    <3>3. calls' \in Nat /\ calls' <= Spent'
      BY <1>1, <1>2, <2>1, <3>2
    <3> QED BY <3>1, <3>3 DEF CostInv
  <2> QED BY <2>1, <2>2, <2>3
<1> QED BY <1>3, <1>4

\* Every read adds only what is so at that moment, books its failure and is paid for.
LEMMA CollectorsBook ==
  ASSUME IngressInv, CollectedInv,
         \/ GetIngress \/ OwnEvents \/ collectIngressClass \/ GetService \/ endpointsFor
         \/ legacyEndpointsFor \/ listPods \/ ReadBackends \/ ServicesRead
  PROVE  CollectedInv'
<1> USE DEF world, listing, verdict, own
<1>1. /\ SnapshotInv /\ BookedInv /\ CostInv /\ ServicesInv /\ LoopInv /\ scenario \in Scenarios
      /\ MaxBackendEvents \in Nat
      /\ pc \notin {"render", "done"} => ~Reported
  BY BackendsAssumption
  DEF CollectedInv, IngressInv, ListedInv, EvaluationInv, ReportInv
<1>2. UNCHANGED <<scenario, present, everAbsent>>
  BY DEF GetIngress, Get, OwnEvents, eventsFor, collectIngressClass, GetService, endpointsFor,
         legacyEndpointsFor, listPods, ReadBackends, backendSnapshots, ServicesRead
<1>3. ASSUME UNCHANGED <<services, at, podEvents>>
      PROVE  /\ (\A k \in 1..(at - 1) : Whole(services[Met(k)], Met(k), podEvents))'
                <=> \A k \in 1..(at - 1) : Whole(services[Met(k)], Met(k), podEvents)
             /\ (\A i \in podEvents : \E k \in 1..(at - 1) : scenario.pods[i].service = Met(k))'
  <2>1. ASSUME NEW k
        PROVE  Whole(services[Met(k)], Met(k), podEvents)'
                 <=> Whole(services[Met(k)], Met(k), podEvents)
    BY <1>2, <1>3, StaysWhole
  <2>2. \A k : Met(k)' = Met(k)
    BY <1>2, LoopKept
  <2> QED BY <1>1, <1>2, <1>3, <2>1, <2>2 DEF SnapshotInv
<1>4. ASSUME UNCHANGED services
      PROVE  \A n \in Services : Truthful(services[n], n)'
  BY <1>1, <1>2, <1>4 DEF SnapshotInv, Truthful
<1>5. CASE GetIngress
  <2>1. /\ pc = "get" /\ pc' \in {"events", "done"} /\ calls' = calls + 1
        /\ UNCHANGED <<degradations, status, class, services, at, podEvents>>
    BY <1>5 DEF GetIngress, Get
  <2>2. CostInv'
    <3>1. at = 1 /\ (4 + MaxBackendEvents) * (1 - 1) = 0
      BY <1>1, <2>1 DEF LoopInv
    <3> QED BY <1>1, <2>1, <3>1 DEF CostInv, Spent
  <2>3. SnapshotInv'
    BY <1>1, <1>2, <1>3, <1>4, <2>1 DEF SnapshotInv, ClassExplains
  <2>4. BookedInv'
    BY <1>1, <1>3, <2>1 DEF BookedInv, AllRead, Reported
  <2> QED BY <2>2, <2>3, <2>4 DEF CollectedInv
<1>6. CASE OwnEvents
  <2>1. /\ pc = "events" /\ pc' = "class" /\ calls' = calls + 1
        /\ UNCHANGED <<status, class, services, at, podEvents>>
        /\ degradations \subseteq degradations'
    BY <1>6 DEF OwnEvents, eventsFor
  <2>2. degradations' = {} <=> degradations = {} /\ ownEvents'
    BY <1>6, Booked DEF OwnEvents, eventsFor
  <2>3. CostInv'
    <3>1. at = 1 /\ (4 + MaxBackendEvents) * (1 - 1) = 0
      BY <1>1, <2>1 DEF LoopInv
    <3> QED BY <1>1, <2>1, <3>1 DEF CostInv, Spent
  <2>4. SnapshotInv'
    BY <1>1, <1>2, <1>3, <1>4, <2>1 DEF SnapshotInv, ClassExplains
  <2>5. BookedInv'
    BY <1>1, <1>3, <2>1, <2>2 DEF BookedInv, AllRead
  <2> QED BY <2>3, <2>4, <2>5 DEF CollectedInv
<1>7. CASE collectIngressClass
  <2>1. /\ pc = "class" /\ pc' = "service"
        /\ UNCHANGED <<ownEvents, status, services, at, podEvents>>
    BY <1>7 DEF collectIngressClass
  <2>2. /\ ClassExplains' => O("class") \in everAbsent
        /\ class' \in [exists : Known, default : Known]
        /\ degradations \subseteq degradations' /\ (degradations' = {} => ClassRead')
        /\ degradations' # degradations => ~ClassRead'
        /\ calls' \in {calls, calls + 1}
    BY <1>1, <1>7, ClassBooked
  <2>3. CostInv'
    <3>1. at = 1 /\ (4 + MaxBackendEvents) * (1 - 1) = 0
      BY <1>1, <2>1 DEF LoopInv
    <3> QED BY <1>1, <2>1, <2>2, <3>1 DEF CostInv, Spent
  <2>4. SnapshotInv'
    BY <1>1, <1>2, <1>3, <1>4, <2>1, <2>2 DEF SnapshotInv
  <2>5. BookedInv'
    BY <1>1, <1>3, <2>1, <2>2 DEF BookedInv, AllRead
  <2> QED BY <2>3, <2>4, <2>5 DEF CollectedInv
<1>8. CASE GetService \/ endpointsFor \/ legacyEndpointsFor \/ listPods \/ ReadBackends
  <2>1. PICK s : Leaves(s)
    BY <1>8, ReadsLeave
  <2>2. /\ Resolves(s) /\ degradations \subseteq degradations' /\ podEvents \subseteq podEvents'
        /\ UNCHANGED <<class, ownEvents, status>>
        /\ pc' = "service" /\ degradations' = {} => Whole(s, Current, podEvents')
        /\ degradations' # degradations /\ Fresh =>
             pc' = "service" /\ ~Whole(s, Current, podEvents')
        /\ podEvents' # podEvents => pc' = "service"
        /\ podEvents' \subseteq podEvents \cup ToSet(s.pods)
    BY <2>1 DEF Leaves
  <2>3. /\ services'[Current] = s /\ Collecting /\ Collecting'
        /\ \A n \in Services \ {Current} : services'[n] = services[n]
    BY <1>1, <2>2, ServiceResolved DEF ServicesInv
  <2>4. /\ Current \in Services /\ at - 1 \in Nat /\ (\A k \in 1..(at - 1) : Met(k) # Current)
        /\ at \in 1..Len(ToResolve) /\ Len(ToResolve) \in Nat
    BY <1>1, <2>2, AtCurrent, ServicesMet DEF ServicesInv, Resolves
  <2>5. pc \in Inside \cup {"service"} /\ pc' \in Inside \cup {"service"}
    BY <2>2 DEF Resolves
  <2>6. CostInv'
    BY <1>1, <1>8, ServiceCosts
  <2>7. /\ Truthful(s, Current) /\ pc' \notin {"get", "events", "class"}
        /\ \A k \in 1..at : Met(k) \in Services /\ Met(k)' = Met(k)
    <3>1. 1..at \subseteq 1..Len(ToResolve)
      BY <2>4
    <3> QED BY <1>1, <1>2, <2>1, <2>4, <2>5, <3>1, LoopKept, ServicesMet
            DEF Leaves, SnapshotInv, Inside
  <2>8. /\ 1..(at - 1) \subseteq 1..at /\ at \in 1..at /\ at' - 1 \in {at - 1, at}
        /\ 1..(at - 1) \subseteq 1..(at' - 1) /\ 1..(at' - 1) \subseteq 1..at
        /\ pc' = "service" => at' = at + 1 /\ at' - 1 = at
        /\ pc' # "service" => at' = at
    BY <2>2, <2>4 DEF Resolves, Inside
  <2>9. SnapshotInv'
    <3>1. ASSUME NEW n \in Services PROVE Truthful(services'[n], n)
      BY <1>1, <2>3, <2>7 DEF SnapshotInv
    <3>2. \A n \in Services : Truthful(services[n], n)'
      BY <1>2, <3>1 DEF Truthful
    <3>3. ASSUME NEW i \in podEvents'
          PROVE  \E k \in 1..(at' - 1) : scenario.pods[i].service = Met(k)
      <4>1. CASE i \in podEvents
        BY <1>1, <2>8, <4>1 DEF SnapshotInv
      <4>2. CASE i \notin podEvents
        <5>1. pc' = "service" /\ i \in ToSet(s.pods)
          BY <2>2, <4>2
        <5> QED BY <2>7, <2>8, <5>1 DEF Truthful, Current
      <4> QED BY <4>1, <4>2
    <3>4. \A k \in 1..(at' - 1) : Met(k)' = Met(k)
      BY <2>7, <2>8
    <3> QED BY <1>1, <1>2, <2>2, <2>7, <3>2, <3>3, <3>4 DEF SnapshotInv, ClassExplains
\* The Pods of the Service at hand have had no events read, and those of the others none now.
  <2>10. ASSUME NEW k \in 1..(at - 1), NEW i \in ToSet(services[Met(k)].pods), i \in podEvents'
         PROVE  i \in podEvents
    <3>1. scenario.pods[i].service = Met(k) /\ Met(k) # Current
      BY <1>1, <2>4, <2>7, <2>8 DEF SnapshotInv, Truthful
    <3> QED BY <2>2, <2>7, <2>10, <3>1 DEF Truthful
  <2>11. Fresh
    <3> SUFFICES ASSUME NEW i \in ToSet(services[Current].pods), i \in podEvents PROVE FALSE
      BY DEF Fresh
    <3>1. scenario.pods[i].service = Current
      BY <1>1, <2>4 DEF SnapshotInv, Truthful
    <3> QED BY <1>1, <2>4, <3>1 DEF SnapshotInv
  <2>12. ASSUME NEW k \in 1..(at - 1)
         PROVE  Whole(services[Met(k)], Met(k), podEvents)'
                  <=> Whole(services[Met(k)], Met(k), podEvents)
    <3>1. Met(k)' = Met(k) /\ services'[Met(k)] = services[Met(k)]
      BY <2>3, <2>4, <2>7, <2>8
    <3>2. PICK t, n, events, more :
            t = services[Met(k)] /\ n = Met(k) /\ events = podEvents /\ more = podEvents'
      OBVIOUS
    <3>3. Whole(t, n, more) <=> Whole(t, n, events)
      BY <2>2, <2>10, <3>2, WholeOwn
    <3>4. Whole(t, n, more)' <=> Whole(t, n, more)
      BY <1>2, WholeKept
    <3> QED BY <3>1, <3>2, <3>3, <3>4 DEF Whole
  <2>13. ASSUME pc' = "service", NEW k, k = at
         PROVE  Whole(services[Met(k)], Met(k), podEvents)' <=> Whole(s, Current, podEvents')
    <3>1. PICK n, events : n = Current /\ events = podEvents'
      OBVIOUS
    <3>2. Whole(s, n, events)' <=> Whole(s, n, events)
      BY <1>2, WholeKept
    <3>3. Met(k)' = Met(k) /\ Met(k) = Current
      BY <2>7, <2>8, <2>13 DEF Current
    <3>4. services[Met(k)]' = s /\ Met(k)' = n
      BY <2>3, <3>1, <3>3
    <3>5. Whole(services[Met(k)], Met(k), podEvents)' <=> Whole(s, n, events)'
      BY <3>1, <3>4 DEF Whole
    <3> QED BY <3>1, <3>2, <3>5
  <2>14. BookedInv'
    <3>1. pc \notin {"get", "events", "class", "done"} /\ pc' \notin {"get", "events", "class", "done"}
      BY <2>5 DEF Inside
    <3>2. /\ degradations = {} <=> AllRead
          /\ AllRead <=> /\ ownEvents /\ ClassRead
                        /\ \A k \in 1..(at - 1) : Whole(services[Met(k)], Met(k), podEvents)
      BY <1>1, <3>1 DEF BookedInv, AllRead
    <3>3. ownEvents' = ownEvents /\ ClassRead' = ClassRead
      BY <1>2, <2>2 DEF ClassRead
    <3>4. PICK last : last = at
      OBVIOUS
    <3> DEFINE Done(k) == Whole(services[Met(k)], Met(k), podEvents)
    <3>5. AllRead' <=> ownEvents /\ ClassRead /\ \A k \in 1..(at' - 1) : Done(k)'
      BY <3>1, <3>3 DEF AllRead
    <3>6. \A k \in 1..(at - 1) : Done(k)' <=> Done(k)
      BY <2>12
    <3>7. pc' = "service" => (Done(last)' <=> Whole(s, Current, podEvents'))
      BY <2>13, <3>4
    <3>8. \A k \in 1..(at' - 1) : k \in 1..(at - 1) \/ (k = last /\ pc' = "service")
      BY <2>4, <2>8, <3>4
    <3>9. pc' = "service" => last \in 1..(at' - 1)
      BY <2>4, <2>8, <3>4
    <3> HIDE DEF Done
    <3>10. CASE degradations # {}
      <4>1. ~(ownEvents /\ ClassRead) \/ \E k \in 1..(at - 1) : ~Done(k)
        BY <3>2, <3>10 DEF Done
      <4>2. ~AllRead'
        BY <2>8, <3>5, <3>6, <4>1
      <4> QED BY <2>2, <3>10, <4>2 DEF BookedInv
    <3>11. CASE degradations = {}
      <4>1. ownEvents /\ ClassRead /\ \A k \in 1..(at - 1) : Done(k)
        BY <3>2, <3>11 DEF Done
      <4>2. CASE degradations' = {}
        <5>1. pc' = "service" => Done(last)'
          BY <2>2, <3>7, <4>2
        <5>2. AllRead'
          BY <3>5, <3>6, <3>8, <4>1, <5>1
        <5> QED BY <4>2, <5>2 DEF BookedInv
      <4>3. CASE degradations' # {}
        <5>1. pc' = "service" /\ ~Done(last)'
          BY <2>2, <2>11, <3>7, <3>11, <4>3
        <5>2. ~AllRead'
          BY <3>5, <3>9, <5>1
        <5> QED BY <4>3, <5>2 DEF BookedInv
      <4> QED BY <4>2, <4>3
    <3> QED BY <3>10, <3>11
  <2> QED BY <2>6, <2>9, <2>14 DEF CollectedInv
<1>9. CASE ServicesRead
  <2>1. /\ pc = "service" /\ pc' = "rules"
        /\ UNCHANGED <<calls, ownEvents, degradations, status, class, services, at, podEvents>>
    BY <1>9 DEF ServicesRead
  <2>2. CostInv'
    <3>1. Spent' = Spent
      BY <2>1 DEF Spent
    <3> QED BY <1>1, <2>1, <3>1 DEF CostInv
  <2>3. SnapshotInv'
    BY <1>1, <1>2, <1>3, <1>4, <2>1 DEF SnapshotInv, ClassExplains
  <2>4. ClassRead' = ClassRead
    BY <1>2, <2>1 DEF ClassRead
  <2>5. BookedInv'
    BY <1>1, <1>3, <2>1, <2>4 DEF BookedInv, AllRead
  <2> QED BY <2>2, <2>3, <2>5 DEF CollectedInv
<1> QED BY <1>5, <1>6, <1>7, <1>8, <1>9

\* Every step keeps what the reads have left.
LEMMA CollectedStep == IngressInv /\ CollectedInv /\ [Next]_vars => CollectedInv'
<1> SUFFICES ASSUME IngressInv, CollectedInv, [Next]_vars
             PROVE  CollectedInv'
  OBVIOUS
<1>1. CASE \/ GetIngress \/ OwnEvents \/ collectIngressClass \/ GetService \/ endpointsFor
           \/ legacyEndpointsFor \/ listPods \/ ReadBackends \/ ServicesRead
  BY <1>1, CollectorsBook
<1>2. CASE Evaluation \/ ((Expire \/ Drift) /\ UNCHANGED own) \/ UNCHANGED vars
  <2>1. PICK rules, weighed : rules = Rules /\ weighed = AsFound
    OBVIOUS
  <2>2. EvaluationStep(rules, {}, weighed, Symptoms) /\ UNCHANGED <<class, services, at>>
    BY <1>2, <2>1
    DEF Evaluation, EvaluationStep, BackendFindings, IngressReport, vars, own
  <2>3. /\ UNCHANGED <<scenario, calls, ownEvents, podEvents, degradations>>
        /\ \/ pc' = pc
           \/ /\ pc \in {"rules", "aggregate", "report", "render"}
              /\ pc' \in {"aggregate", "report", "render", "done"}
        /\ everAbsent \subseteq everAbsent'
        /\ pc = "report" \/ UNCHANGED <<report, status>>
        /\ Objects \ present \subseteq everAbsent => Objects \ present' \subseteq everAbsent'
    BY <2>2, EvaluationLeaves
  <2>4. SnapshotInv'
    <3>1. \A n \in Services : Truthful(services[n], n)'
      BY <2>2, <2>3 DEF CollectedInv, SnapshotInv, Truthful
    <3>2. \A k : Met(k)' = Met(k)
      BY <2>3, LoopKept
    <3>3. pc' \in {"get", "events", "class"} => pc' = pc
      BY <2>3
    <3> QED BY <2>2, <2>3, <3>1, <3>2, <3>3 DEF CollectedInv, SnapshotInv, ClassExplains
  <2>5. BookedInv'
    <3>1. pc' # "done" \/ Reported' => pc # "done" \/ Reported
      BY <2>3 DEF Reported
    <3>2. ClassRead' = ClassRead
      BY <2>2, <2>3 DEF ClassRead
    <3>3. ASSUME NEW k
          PROVE  Whole(services[Met(k)], Met(k), podEvents)'
                   <=> Whole(services[Met(k)], Met(k), podEvents)
      BY <2>2, <2>3, StaysWhole
    <3>4. pc' \in {"get", "events", "class"} \/ pc \in {"get", "events", "class"} => pc' = pc
      BY <2>3
    <3> QED BY <2>2, <2>3, <3>1, <3>2, <3>3, <3>4 DEF CollectedInv, BookedInv, AllRead
  <2>6. CostInv'
    <3>1. Spent' = Spent
      BY <2>2, <2>3 DEF Spent
    <3> QED BY <2>3, <3>1 DEF CollectedInv, CostInv
  <2> QED BY <2>4, <2>5, <2>6 DEF CollectedInv
<1> QED BY <1>1, <1>2 DEF Next, Step, Terminated

-----------------------------------------------------------------------------
(* The contract *)

\* What a few reads for each Service come to is within the budget, which counts each
\* Service once.
LEMMA NotOverspent ==
  ASSUME IngressInv, CostInv
  PROVE  ~Overspent
<1> DEFINE x == 4 + MaxBackendEvents
           many == Cardinality({ServiceOf(i) : i \in DOMAIN scenario.paths} \ {0})
           len == Len(ToResolve)
<1>1. /\ at \in 1..(len + 1) /\ (pc \in Inside => at <= len) /\ scenario \in Scenarios
      /\ MaxBackendEvents \in Nat /\ calls \in Nat /\ calls <= Spent
  BY BackendsAssumption DEF IngressInv, LoopInv, ListedInv, CostInv
<1>2. len \in Nat /\ many \in Nat /\ len <= many
  BY <1>1, ServicesMet
<1>3. Overspent = (calls > 3 + x * many)
  BY DEF Overspent
<1>4. PICK y \in {0, 1, 2, 3, 4} :
        Spent = 3 + x * (at - 1) + y /\ (pc \notin Inside => y = 0)
  BY DEF Spent, Inside
<1> HIDE DEF many, len, x
<1>5. ASSUME NEW z \in Nat, NEW a \in Nat, NEW b \in Nat, a <= b
      PROVE  z * a \in Nat /\ z * b \in Nat /\ z * a <= z * b /\ z * (a + 1) = z * a + z
  <2>1. \A c \in Nat : z * (a + c) = z * a + z * c /\ z * c \in Nat /\ z * a \in Nat
    OBVIOUS
  <2>2. b - a \in Nat /\ a + (b - a) = b
    BY <1>5
  <2>3. z * b = z * a + z * (b - a) /\ z * (b - a) \in Nat /\ z * a \in Nat
    BY <2>1, <2>2
  <2>4. z * (a + 1) = z * a + z
    OBVIOUS
  <2> QED BY <2>3, <2>4
<1>6. x \in Nat /\ x >= 4
  BY <1>1 DEF x
<1>7. CASE pc \notin Inside
  <2>1. at - 1 \in Nat /\ at - 1 <= many
    BY <1>1, <1>2
  <2>2. x * (at - 1) \in Nat /\ x * many \in Nat /\ x * (at - 1) <= x * many
    BY <1>2, <1>5, <1>6, <2>1
  <2>3. PICK paid, due : paid = x * (at - 1) /\ due = x * many
    OBVIOUS
  <2>4. paid \in Nat /\ due \in Nat /\ paid <= due /\ calls <= 3 + paid /\ calls \in Nat
    <3>1. Spent = 3 + paid + 0
      BY <1>4, <1>7, <2>3
    <3> QED BY <1>1, <2>2, <2>3, <3>1
  <2>5. ~(calls > 3 + due)
    BY <2>4
  <2> QED BY <1>3, <2>3, <2>5
<1>8. CASE pc \in Inside
  <2>1. at - 1 \in Nat /\ (at - 1) + 1 = at /\ at \in Nat /\ at <= many
    BY <1>1, <1>2, <1>8
  <2>2. x * at \in Nat /\ x * many \in Nat /\ x * at <= x * many
    BY <1>2, <1>5, <1>6, <2>1
  <2>3. x * (at - 1) \in Nat /\ x * at = x * (at - 1) + x
    BY <1>5, <1>6, <2>1
  <2>4. PICK paid, due : paid = x * (at - 1) /\ due = x * many
    OBVIOUS
  <2>5. paid \in Nat /\ due \in Nat /\ paid + x <= due /\ calls <= 3 + paid + y /\ calls \in Nat
    BY <1>1, <1>4, <2>2, <2>3, <2>4
  <2>6. ~(calls > 3 + due)
    BY <1>4, <1>6, <2>5
  <2> QED BY <1>3, <2>4, <2>6
<1> QED BY <1>7, <1>8

\* What is gone stays gone.
LEMMA GoneFacts ==
  /\ everAbsent \subseteq Gone
  /\ \A n \in Services : scenario.services[n].ready = 0 => <<"endpoints", n>> \in Gone
  /\ UNCHANGED scenario /\ everAbsent \subseteq everAbsent' => Gone \subseteq Gone'
  /\ UNCHANGED <<scenario, everAbsent>> => Gone' = Gone
BY DEF Gone, Services

\* The verdict of a report that stands.
JudgedInv ==
  Reported =>
    /\ status \in {"healthy", "degraded", "unhealthy", "unknown"}
    /\ status = "healthy" => ~Incomplete
    /\ status = "unknown" => Incomplete
    /\ Missing \subseteq Gone
    /\ Missing # {} => status \in {"degraded", "unhealthy"}

\* A report that is not degraded looked at every link.
LEMMA AllLooked ==
  ASSUME IngressInv, CollectedInv, Reported
  PROVE  degradations = {} <=> ~Incomplete
<1>1. ListedInv /\ LoopInv /\ ReportInv(Symptoms) /\ scenario \in Scenarios
  BY DEF IngressInv, ListedInv, EvaluationInv
<1>2. pc \in {"render", "done"} /\ at > Len(ToResolve) /\ at \in 1..(Len(ToResolve) + 1)
  BY <1>1 DEF LoopInv, ReportInv
<1>3. Len(ToResolve) \in Nat /\ at - 1 = Len(ToResolve)
  BY <1>1, <1>2, ServicesMet
<1>4. \A n : Resolved(n) <=> Whole(services[n], n, podEvents)
  BY DEF Resolved, Whole
<1>5. (\A k \in 1..(at - 1) : Whole(services[Met(k)], Met(k), podEvents))
        <=> \A i \in DOMAIN scenario.paths : ServiceOf(i) # 0 => Resolved(ServiceOf(i))
  <2>1. \A k \in 1..(at - 1) : Met(k) \in Services /\ \E i \in DOMAIN scenario.paths :
                                                        ServiceOf(i) = Met(k)
    BY <1>1, <1>3, ServicesMet
  <2>2. \A i \in DOMAIN scenario.paths : ServiceOf(i) # 0 =>
          \E k \in 1..(at - 1) : Met(k) = ServiceOf(i)
    BY <1>1, <1>3, ServicesMet
  <2> QED BY <1>4, <2>1, <2>2, ServicesFinite
<1>6. AllRead <=> Looked
  BY <1>2, <1>5 DEF AllRead, Looked
<1> QED BY <1>6 DEF CollectedInv, BookedInv, Incomplete

\* It follows from the reads and the rules.
LEMMA Judged == IngressInv /\ CollectedInv => JudgedInv
<1> SUFFICES ASSUME IngressInv, CollectedInv, Reported PROVE JudgedInv
  BY DEF JudgedInv
<1>1. Joined(Symptoms, AsFound)
  BY IngressJoined
<1>2. degradations = {} <=> ~Incomplete
  BY AllLooked
<1> DEFINE ids == {"INGRESS_SERVICE_NOT_FOUND", "INGRESS_SERVICE_NO_ENDPOINTS",
                   "INGRESS_CLASS_NOT_FOUND", "INGRESS_NO_CLASS"}
<1>3. ASSUME NEW d \in ToSet(report), d.id \in ids
      PROVE  /\ IssueFound
             /\ d.id = "INGRESS_SERVICE_NOT_FOUND" => <<"service", d.about>> \in Gone
             /\ d.id = "INGRESS_SERVICE_NO_ENDPOINTS" => <<"endpoints", d.about>> \in Gone
             /\ d.id \in {"INGRESS_CLASS_NOT_FOUND", "INGRESS_NO_CLASS"} => O("class") \in Gone
  <2>1. d.id \notin PodIDs
    BY <1>3 DEF PodIDs
  <2>2. PICK e \in ToSet(findings) :
          d.id = e.id /\ d.about = e.about /\ d.severity = e.severity
    BY <1>1, <2>1, RowsOfIngress
  <2>3. IngressSymptom(e)
    BY FindingsHaveSymptoms
  <2>4. CASE d.id \in {"INGRESS_SERVICE_NOT_FOUND", "INGRESS_SERVICE_NO_ENDPOINTS"}
    <3>1. d.about \in Broken /\ d.id = BackendDiagnosis(d.about) /\ d.severity = "critical"
      BY <2>2, <2>3, <2>4 DEF IngressSymptom
    <3>2. /\ d.id = "INGRESS_SERVICE_NOT_FOUND" => services[d.about].exists = "missing"
          /\ d.id = "INGRESS_SERVICE_NO_ENDPOINTS" =>
               services[d.about].endpoints.known /\ services[d.about].endpoints.ready = 0
      BY <3>1 DEF BackendDiagnosis, endpointDiagnosis
    <3>3. d.about \in Services /\ Truthful(services[d.about], d.about)
      BY <3>1 DEF Broken, CollectedInv, SnapshotInv
    <3>4. IssueFound
      BY <1>1, <3>1, StatusFacts
    <3> QED BY <2>4, <3>2, <3>3, <3>4, GoneFacts DEF Truthful
  <2>5. CASE d.id \in {"INGRESS_CLASS_NOT_FOUND", "INGRESS_NO_CLASS"}
    <3>1. \A n \in Broken : BackendDiagnosis(n) \in BackendIDs
      BY DiagnosisID DEF Broken
    <3>2. ClassExplains /\ d.severity \in {"critical", "warning"}
      BY <2>2, <2>3, <2>5, <3>1 DEF IngressSymptom, ClassExplains, BackendIDs
    <3>3. IssueFound
      BY <1>1, <3>2, StatusFacts
    <3> QED BY <2>5, <3>2, <3>3, GoneFacts DEF CollectedInv, SnapshotInv
  <2> QED BY <1>3, <2>4, <2>5
<1>4. ASSUME NEW o \in Missing PROVE o \in Gone /\ IssueFound
  <2>1. PICK d \in ToSet(report) :
          /\ d.id \in ids
          /\ \/ d.id = "INGRESS_SERVICE_NOT_FOUND" /\ o = <<"service", d.about>>
             \/ d.id = "INGRESS_SERVICE_NO_ENDPOINTS" /\ o = <<"endpoints", d.about>>
             \/ d.id \in {"INGRESS_CLASS_NOT_FOUND", "INGRESS_NO_CLASS"} /\ o = O("class")
    BY <1>4 DEF Missing
  <2> QED BY <1>3, <2>1
<1>5. Missing \subseteq Gone /\ (Missing # {} => IssueFound)
  BY <1>4
<1> QED BY <1>1, <1>2, <1>5, StatusFacts DEF JudgedInv, IssueFound, Statuses

\* Every step of the analysis is a step of Analysis, or none.
LEMMA ContractStep ==
  ASSUME IngressInv, IngressInv', CollectedInv, CollectedInv', JudgedInv',
         ~Overspent, ~Overspent', [Next]_vars
  PROVE  [Contract!Next]_Contract!vars
<1> USE DEF world, listing, verdict, podRules, own, Contract!vars
<1>1. Overspent = FALSE /\ Overspent' = FALSE
  BY DEF Overspent
<1>2. /\ Reported => pc \in {"render", "done"}
      /\ Reported' => pc' \in {"render", "done"}
      /\ ~Reported => report = <<>> /\ pc # "render"
      /\ ~Reported' => report' = <<>> /\ pc' # "render"
  BY DEF IngressInv, EvaluationInv, ReportInv
<1>3. (report = <<>> => Missing = {}) /\ (report' = <<>> => Missing' = {})
  BY DEF Missing, ToSet
\* Before the report stands it says nothing.
<1>4. ASSUME pc \notin {"render", "done"}, pc' \notin {"render", "done"},
             UNCHANGED <<scenario, everAbsent, status, exit>>
      PROVE  UNCHANGED Contract!vars
  <2>1. ~Reported /\ ~Reported'
    BY <1>2, <1>4
  <2>2. /\ Stage = "open" /\ Stage' = "open" /\ Incomplete = FALSE /\ Incomplete' = FALSE
        /\ Missing = {} /\ Missing' = {}
    BY <1>2, <1>3, <1>4, <2>1 DEF Stage, Incomplete
  <2> QED BY <1>1, <1>4, <2>2, GoneFacts
\* Once it stands it does not change, whatever happens to the cluster.
<1>5. ASSUME UNCHANGED <<scenario, ownEvents, listing, degradations, report, status, own>>
      PROVE  Incomplete' = Incomplete /\ Missing' = Missing
  <2>1. \A s : needEvents(s)' = needEvents(s)
    BY <1>5 DEF needEvents, UnreadyIn
  <2>2. \A n : Resolved(n)' = Resolved(n)
    BY <1>5, <2>1 DEF Resolved
  <2>3. Looked' = Looked
    BY <1>5, <2>2 DEF Looked, ClassRead, ServiceOf
  <2>4. Missing' = Missing
    BY <1>5 DEF Missing
  <2> QED BY <1>5, <2>3, <2>4 DEF Incomplete, Reported
<1>6. CASE GetIngress
  <2>1. PICK a \in Lookup(O("ingress")) :
          IF a = "ok" THEN pc' = "events" /\ UNCHANGED exit
                      ELSE pc' = "done" /\ exit' = reportError(a)
    BY <1>6 DEF GetIngress, Get
  <2>2. pc = "get" /\ UNCHANGED <<scenario, present, everAbsent, status, report>>
    BY <1>6 DEF GetIngress, Get
  <2>3. CASE a = "ok"
    BY <1>4, <2>1, <2>2, <2>3
  <2>4. CASE a # "ok"
    <3>1. exit' \in {2, 3, 4} /\ (exit' = 3 => a = "NotFound")
      BY <2>1, <2>4 DEF reportError
    <3>2. exit' = 3 => O("ingress") \in everAbsent
      <4>1. a = "NotFound" => O("ingress") \in everAbsent
        BY BackendsAssumption DEF Lookup, Answers, CollectedInv, SnapshotInv, Objects
      <4> QED BY <3>1, <4>1
    <3>3. ~Reported /\ ~Reported'
      BY <1>2, <2>2 DEF Reported
    <3>4. /\ Stage = "open" /\ Stage' = "done" /\ Incomplete = FALSE /\ Incomplete' = FALSE
          /\ Missing = {} /\ Missing' = {}
      BY <1>2, <1>3, <2>1, <2>2, <2>4, <3>3 DEF Stage, Incomplete
    <3> QED BY <1>1, <2>2, <3>1, <3>2, <3>4, GoneFacts DEF Contract!Next, Contract!Refuse
  <2> QED BY <2>3, <2>4
<1>7. CASE \/ OwnEvents \/ collectIngressClass \/ GetService \/ endpointsFor
           \/ legacyEndpointsFor \/ listPods \/ ReadBackends \/ ServicesRead
  <2>1. /\ pc \notin {"render", "done"} /\ pc' \notin {"render", "done"}
        /\ UNCHANGED <<scenario, everAbsent, status, exit>>
    BY <1>7
    DEF OwnEvents, eventsFor, collectIngressClass, GetService, endpointsFor, legacyEndpointsFor,
        Endpoints, listPods, ReadBackends, backendSnapshots, ServicesRead
  <2> QED BY <1>4, <2>1
<1>8. CASE RunRule(Rules) \/ RulesDone(Rules) \/ RunPodRule \/ NextPod({}) \/ BackendFindings
  BY <1>4, <1>8 DEF RunRule, RulesDone, RunPodRule, NextPod, BackendFindings, PodFindings
<1>9. CASE IngressReport
  <2>1. pc = "report" /\ pc' = "render" /\ UNCHANGED <<scenario, everAbsent, exit>>
    BY <1>9 DEF IngressReport, Report
  <2>2. Reported' /\ Stage = "open" /\ Stage' = "judged" /\ Incomplete' \in BOOLEAN
    BY <1>2, <2>1 DEF Stage, Incomplete, Reported
  <2> QED BY <1>1, <2>1, <2>2, GoneFacts DEF JudgedInv, Contract!Next, Contract!Judge
<1>10. CASE Render /\ UNCHANGED own
  <2>1. /\ UNCHANGED <<scenario, everAbsent, ownEvents, listing, degradations, report, status,
                       own>>
        /\ pc = "render" /\ pc' = "done"
    BY <1>10 DEF Render
  <2>2. Incomplete' = Incomplete /\ Missing' = Missing /\ status' = status
    BY <1>5, <2>1
  <2>3. Stage = "judged" /\ Stage' = "done"
    BY <2>1 DEF Stage
  <2>4. exit' \in {2, IF status \in {"degraded", "unhealthy"} THEN 1 ELSE 0}
    BY <1>10 DEF Render, IssueFound
  <2> QED BY <1>1, <2>1, <2>2, <2>3, <2>4, GoneFacts DEF Contract!Next, Contract!Exit
<1>11. CASE Drift /\ UNCHANGED own
  <2>1. /\ UNCHANGED <<scenario, pc, ownEvents, listing, degradations, report, status, exit, own>>
        /\ everAbsent \subseteq everAbsent' /\ pc # "done"
    BY <1>11 DEF Drift
  <2>2. Incomplete' = Incomplete /\ Missing' = Missing
    BY <1>5, <2>1
  <2>3. Stage' = Stage /\ Stage # "done"
    BY <2>1 DEF Stage
  <2> QED BY <1>1, <2>1, <2>2, <2>3, GoneFacts DEF Contract!Next, Contract!Vanish
<1>12. CASE (Expire /\ UNCHANGED own) \/ UNCHANGED vars
  <2>1. UNCHANGED <<scenario, everAbsent, pc, ownEvents, listing, degradations, report, status,
                    exit, own>>
    BY <1>12 DEF Expire, vars, runVars
  <2>2. Incomplete' = Incomplete /\ Missing' = Missing /\ Stage' = Stage
    BY <1>5, <2>1 DEF Stage
  <2> QED BY <1>1, <2>1, <2>2, GoneFacts
<1> QED BY <1>6, <1>7, <1>8, <1>9, <1>10, <1>11, <1>12 DEF Next, Step, Evaluation, Terminated

\* For any Ingress, any number of paths, Services and Pods behind them and any failures, an
\* analysis keeps the safety part of the contract all analyses share: it judges once,
\* calls a Service, ready endpoints or a class missing only when they were, is healthy
\* only when it read every link of every path and unknown only when it did not, exits as
\* its verdict says, and spends the same on a Service however many paths route to it.
THEOREM ContractSafe == Spec => Contract!Safety
<1>1. Init => Contract!Init
  <2> SUFFICES ASSUME Init PROVE Contract!Init
    OBVIOUS
  <2>1. ~Reported /\ Stage = "open" /\ report = <<>>
    BY DEF Init, InitRun, Reported, Stage
  <2>2. Incomplete = FALSE /\ Missing = {}
    BY <2>1 DEF Incomplete, Missing, ToSet
  <2>3. Overspent = FALSE
    BY IngressBegins, CollectedBegins, NotOverspent
    DEF CollectedInv, IngressInv, Overspent
  <2> QED BY <2>1, <2>2, <2>3 DEF Init, InitRun, Contract!Init
<1>2. IngressInv /\ CollectedInv => ~Overspent
  BY NotOverspent DEF CollectedInv, IngressInv
<1>3. /\ IngressInv /\ IngressInv' /\ CollectedInv /\ CollectedInv' /\ JudgedInv'
      /\ ~Overspent /\ ~Overspent' /\ [Next]_vars
      => [Contract!Next]_Contract!vars
  BY ContractStep
<1> QED BY <1>1, <1>2, <1>3, IngressBegins, IngressStep, CollectedBegins, CollectedStep,
           Judged, PTL DEF Spec, Contract!Safety
=============================================================================
