--------------------- MODULE StatefulSetAnalysisProofs ---------------------
(***************************************************************************)
(* The StatefulSet analysis for any set, any number of replicas, claim     *)
(* templates and Pods and any troubles they have, whatever fails, vanishes *)
(* or expires during the run.                                              *)
(***************************************************************************)
EXTENDS StatefulSetAnalysis, BackendsProofs

-----------------------------------------------------------------------------
(* The loop over the claims *)

\* The place of a claim in the loop determines its template and its ordinal.
LEMMA PlaceOfClaim ==
  ASSUME NEW t \in Nat \ {0}, NEW d \in Nat, NEW n \in 1..(d * t)
  PROVE  ((n - 1) % t) + 1 \in 1..t /\ (n - 1) \div t \in 0..(d - 1)
<1> DEFINE m == n - 1
<1>0. d * t \in Nat
  OBVIOUS
<1>1. m \in 0..(d * t - 1) /\ m \in Nat
  BY <1>0
<1>2. ASSUME NEW x \in Nat PROVE x % t \in 0..(t - 1)
  OBVIOUS
<1>3. ASSUME NEW x \in 0..(d * t - 1) PROVE x \div t \in 0..(d - 1)
  OBVIOUS
<1> HIDE DEF m
<1>4. m % t \in 0..(t - 1) /\ m \div t \in 0..(d - 1)
  BY <1>1, <1>2, <1>3
<1>5. (m % t) + 1 \in 1..t
  BY <1>4
<1> QED BY <1>4, <1>5 DEF m

\* Each template and ordinal has its place.
LEMMA ClaimOfPlace ==
  ASSUME NEW t \in Nat \ {0}, NEW d \in Nat
  PROVE  \A c \in (1..t) \X (0..(d - 1)) :
           \E n \in 1..(d * t) : c = <<((n - 1) % t) + 1, (n - 1) \div t>>
<1> SUFFICES ASSUME NEW j \in 1..t, NEW o \in 0..(d - 1)
             PROVE  \E n \in 1..(d * t) : ((n - 1) % t) + 1 = j /\ (n - 1) \div t = o
  OBVIOUS
<1> DEFINE p == t * o
<1>1. p \in Nat /\ p + j \in 1..(d * t)
  <2>1. p + t <= d * t /\ p \in Nat /\ d * t \in Nat
    OBVIOUS
  <2> QED BY <2>1
<1>2. ASSUME NEW i \in 0..(t - 1) PROVE (t * o + i) % t = i /\ (t * o + i) \div t = o
  OBVIOUS
<1>3. j - 1 \in 0..(t - 1)
  OBVIOUS
<1>4. (p + (j - 1)) % t = j - 1 /\ (p + (j - 1)) \div t = o
  BY <1>2, <1>3
<1>5. (p + j) - 1 = p + (j - 1) /\ (j - 1) + 1 = j
  BY <1>1
<1> QED BY <1>1, <1>4, <1>5

\* What the set asks for.
LEMMA SetAsks ==
  ASSUME ListedInv
  PROVE  /\ DesiredReplicas \in 0..MaxReplicas /\ DesiredReplicas \in Nat
         /\ scenario.templates \in 0..MaxTemplates /\ scenario.templates \in Nat
         /\ scenario.ready \in Nat
         /\ DesiredReplicas * scenario.templates \in Nat /\ ClaimsToRead \in Nat
         /\ \A i \in DOMAIN scenario.pods : Ordinal(i) \in Nat
<1>1. /\ scenario.replicas \in -1..MaxReplicas /\ scenario.templates \in 0..MaxTemplates
      /\ scenario.ready \in Nat /\ MaxReplicas \in Nat \ {0} /\ MaxTemplates \in Nat
      /\ \A i \in DOMAIN scenario.pods : Ordinal(i) \in Nat
  BY StatefulSetAssumption DEF ListedInv, Ordinal
<1>2. DesiredReplicas \in 0..MaxReplicas
  BY <1>1 DEF DesiredReplicas
<1>3. DesiredReplicas \in Nat /\ scenario.templates \in Nat
  BY <1>1, <1>2
<1>4. DesiredReplicas * scenario.templates \in Nat
  BY <1>3
<1> QED BY <1>1, <1>2, <1>3, <1>4 DEF ClaimsToRead

\* The loop goes through the claims that matter, and no others.
LEMMA LoopOverClaims ==
  ASSUME ListedInv
  PROVE  /\ \A n \in 1..ClaimsToRead : ClaimAt(n) \in WantedClaims
         /\ \A c \in WantedClaims : \E n \in 1..ClaimsToRead : c = ClaimAt(n)
         /\ WantedClaims \subseteq (1..MaxTemplates) \X Ordinals
         /\ WantedClaims # {} => ~allPodsReady
<1> DEFINE t == scenario.templates
           d == DesiredReplicas
<1>1. /\ t \in Nat /\ d \in Nat /\ t \in 0..MaxTemplates /\ d \in 0..MaxReplicas
      /\ ClaimsToRead \in Nat /\ MaxReplicas \in Nat /\ MaxTemplates \in Nat
  BY SetAsks, StatefulSetAssumption
<1>2. CASE allPodsReady
  BY <1>2 DEF ClaimsToRead, WantedClaims
<1>3. CASE ~allPodsReady /\ t = 0
  <2>1. ClaimsToRead = 0
    BY <1>1, <1>3 DEF ClaimsToRead
  <2>2. WantedClaims = {}
    BY <1>3 DEF WantedClaims
  <2> QED BY <2>1, <2>2
<1>4. CASE ~allPodsReady /\ t # 0
  <2>1. ClaimsToRead = d * t /\ WantedClaims = (1..t) \X (0..(d - 1))
    BY <1>4 DEF ClaimsToRead, WantedClaims
  <2>2. \A n : ClaimAt(n) = <<((n - 1) % t) + 1, (n - 1) \div t>>
    BY DEF ClaimAt
  <2>3. 1..t \subseteq 1..MaxTemplates /\ 0..(d - 1) \subseteq Ordinals
    BY <1>1 DEF Ordinals
  <2> HIDE DEF t, d
  <2>4. \A n \in 1..(d * t) : ClaimAt(n) \in (1..t) \X (0..(d - 1))
    BY <1>1, <1>4, <2>2, PlaceOfClaim
  <2>5. \A c \in (1..t) \X (0..(d - 1)) : \E n \in 1..(d * t) : c = ClaimAt(n)
    BY <1>1, <1>4, <2>2, ClaimOfPlace
  <2>6. WantedClaims \subseteq (1..MaxTemplates) \X Ordinals
    BY <2>1, <2>3
  <2> QED BY <1>4, <2>1, <2>4, <2>5, <2>6
<1> QED BY <1>2, <1>3, <1>4

-----------------------------------------------------------------------------
(* The inductive invariant *)

\* The replicas are in the order of their ordinals.
OrderedInv ==
  \A k, m \in DOMAIN backends : k < m => Ordinal(backends[k]) <= Ordinal(backends[m])

\* The claims read are those before the place in the loop, and the one there while its
\* class is looked up; the loop ends after the last claim that matters, and none is
\* read before it begins.
ClaimsInv ==
  /\ at \in Nat \ {0} /\ at <= ClaimsToRead + 1
  /\ DOMAIN claims = {ClaimAt(n) : n \in IF pc = "class" THEN 1..at ELSE 1..(at - 1)}
  /\ pc \in {"get", "events", "pods", "backends", "service"} => at = 1
  /\ pc = "class" => at <= ClaimsToRead
  /\ pc \in {"rules", "aggregate", "report", "render"} \/ Reported => at > ClaimsToRead

\* The claims read are claims that matter, so there are finitely many.
LEMMA ClaimsTyped ==
  ASSUME ListedInv, ClaimsInv
  PROVE  /\ DOMAIN claims \subseteq WantedClaims /\ IsFiniteSet(DOMAIN claims)
         /\ \A c \in DOMAIN claims : c = <<c[1], c[2]>> /\ c[1] \in Nat /\ c[2] \in Nat
         /\ at > ClaimsToRead => WantedClaims \subseteq DOMAIN claims
<1> DEFINE last == IF pc = "class" THEN at ELSE at - 1
           f == [n \in 1..last |-> ClaimAt(n)]
<1>1. /\ last \in Nat /\ last <= ClaimsToRead /\ ClaimsToRead \in Nat
      /\ at > ClaimsToRead => last = ClaimsToRead
  BY SetAsks DEF ClaimsInv
<1>2. DOMAIN claims = {ClaimAt(n) : n \in 1..last}
  BY DEF ClaimsInv
<1> HIDE DEF last
<1>3. 1..last \subseteq 1..ClaimsToRead
  BY <1>1
<1>4. DOMAIN claims \subseteq WantedClaims
  BY <1>2, <1>3, LoopOverClaims
<1>5. IsFiniteSet(DOMAIN claims)
  <2>1. ASSUME NEW m \in Nat PROVE IsFiniteSet(1..m)
    BY FS_Interval
  <2>2. f \in Surjection(1..last, DOMAIN claims)
    BY <1>2 DEF Surjection
  <2> HIDE DEF f
  <2> QED BY <1>1, <2>1, <2>2, FS_Surjection
<1>6. at > ClaimsToRead => WantedClaims \subseteq DOMAIN claims
  BY <1>1, <1>2, LoopOverClaims
<1>7. ASSUME NEW c \in WantedClaims PROVE c = <<c[1], c[2]>> /\ c[1] \in Nat /\ c[2] \in Nat
  <2>1. c \in (1..MaxTemplates) \X Ordinals
    BY LoopOverClaims
  <2> QED BY <2>1, StatefulSetAssumption DEF Ordinals
<1> QED BY <1>4, <1>5, <1>6, <1>7

\* The claims that are missing or unbound can be put in the order of their names.
UnusableClaims == {c \in DOMAIN claims : Unusable(c)}

\* The rule lists one finding for each of them.
LEMMA ClaimsListed ==
  ASSUME ListedInv, ClaimsInv
  PROVE  /\ IsList(evaluateReplicaClaims)
         /\ ToSet(evaluateReplicaClaims) = {claimFinding(c) : c \in UnusableClaims}
<1> DEFINE S == UnusableClaims
           R == {p \in S \X S : ByName(p[1], p[2])}
           names == InOrder(S, R)
<1>1. IsFiniteSet(S) /\ \A c \in S : c = <<c[1], c[2]>> /\ c[1] \in Nat /\ c[2] \in Nat
  <2>1. S \in SUBSET DOMAIN claims
    BY DEF UnusableClaims
  <2> QED BY <2>1, ClaimsTyped, FS_Subset
<1>2. \A c, d \in S : <<c, d>> \in R <=> c[1] < d[1] \/ (c[1] = d[1] /\ c[2] < d[2])
  BY DEF ByName
<1> HIDE DEF S, R
<1>3. OrderOn(S, R)
  <2>1. \A c, d \in S : c[1] = d[1] /\ c[2] = d[2] => c = d
    BY <1>1
  <2> QED BY <1>1, <1>2, <2>1 DEF OrderOn
<1>4. IsList(names) /\ ToSet(names) = S
  BY <1>1, <1>3, ListInOrder
<1>5. evaluateReplicaClaims = [k \in DOMAIN names |-> claimFinding(names[k])]
  BY DEF evaluateReplicaClaims, S, R, UnusableClaims
<1> HIDE DEF names
<1>6. names \in Seq(S) /\ Len(names) \in Nat /\ DOMAIN names = 1..Len(names)
  BY <1>4 DEF IsList
<1>7. IsList(evaluateReplicaClaims)
  <2>1. evaluateReplicaClaims \in [1..Len(names) -> ToSet(evaluateReplicaClaims)]
    BY <1>5, <1>6 DEF ToSet
  <2> QED BY <1>6, <2>1 DEF IsList
<1>8. ToSet(evaluateReplicaClaims) = {claimFinding(c) : c \in S}
  BY <1>4, <1>5 DEF ToSet
<1> QED BY <1>7, <1>8 DEF S

-----------------------------------------------------------------------------
(* The rules *)

ClaimIDs == {"STATEFULSET_CLAIM_NOT_FOUND", "STATEFULSET_CLAIM_NOT_BOUND"}

\* What the snapshot shows when finding d is made, and how grave that is.
SetSymptom(d) ==
  \/ /\ d.id = "STATEFULSET_ORDERED_ROLLOUT_BLOCKED" /\ UnreadyIn(backends) # {}
     /\ d.about = Ordinal(FirstUnready)
  \/ /\ d.id = "STATEFULSET_CLAIM_NOT_FOUND" /\ d.severity = "critical"
     /\ d.about \in DOMAIN claims /\ claims[d.about].exists = "missing"
  \/ /\ d.id = "STATEFULSET_CLAIM_NOT_BOUND"
     /\ d.about \in DOMAIN claims /\ Unusable(d.about)
  \/ /\ d.id = "STATEFULSET_SERVICE_NOT_FOUND" /\ d.severity = "warning"
     /\ service.exists = "missing"
  \/ /\ d.id = "STATEFULSET_SERVICE_NOT_HEADLESS"
     /\ service.exists = "found" /\ ~service.headless
  \/ /\ d.id \in {"STATEFULSET_SCALED_TO_ZERO", "STATEFULSET_UPDATE_ON_DELETE",
                  "STATEFULSET_UPDATE_PARTITIONED"}
     /\ d.severity = "info"
  \/ d.id = "STATEFULSET_UNAVAILABLE_REPLICAS" /\ scenario.ready < DesiredReplicas

\* One finding, with what it says.
Saying(d, id, about, severity) ==
  Own(d) /\ d.id = id /\ d.about = about /\ d.severity = severity

\* A finding of the set says what it is made of, and is a list of one.
LEMMA SetFindingSays ==
  ASSUME NEW id, NEW about, NEW severity \in {"critical", "warning", "info"}
  PROVE  LET d == SetFinding(id, about, severity)
         IN  Saying(d, id, about, severity) /\ IsList(<<d>>) /\ ToSet(<<d>>) = {d}
<1>1. severity \in Severities /\ "certain" \in Confidences
  BY DEF Severities, Confidences
<1> QED BY <1>1, OneOwn, OwnSays DEF SetFinding, Saying

\* What it says, without the list.
LEMMA SetFindingSaid ==
  ASSUME NEW id, NEW about, NEW severity \in {"critical", "warning", "info"}
  PROVE  Saying(SetFinding(id, about, severity), id, about, severity)
BY SetFindingSays

\* Two rules' findings, one of each or none.
LEMMA TwoIfs ==
  ASSUME NEW a \in BOOLEAN, NEW b \in BOOLEAN, NEW d, NEW e, Own(d), Own(e)
  PROVE  LET out == If(a, d) \o If(b, e)
         IN  /\ IsList(out) /\ \A x \in ToSet(out) : Own(x)
             /\ \A x \in ToSet(out) : (a /\ x = d) \/ (b /\ x = e)
<1> DEFINE s == If(a, d)
           t == If(b, e)
<1>1. /\ IsList(s) /\ (\A x \in ToSet(s) : Own(x)) /\ ToSet(s) = IF a THEN {d} ELSE {}
      /\ IsList(t) /\ (\A x \in ToSet(t) : Own(x)) /\ ToSet(t) = IF b THEN {e} ELSE {}
  BY IfOwn
<1> HIDE DEF s, t
<1>2. IsList(s \o t) /\ ToSet(s \o t) = ToSet(s) \cup ToSet(t)
  BY <1>1, ListConcat
<1>3. IsList(s \o t) /\ (\A x \in ToSet(s \o t) : Own(x))
      /\ (\A x \in ToSet(s \o t) : (a /\ x = d) \/ (b /\ x = e))
  BY <1>1, <1>2
<1> QED BY <1>3 DEF s, t

\* Every finding of the rules has its symptom, and every claim that is missing or unbound
\* its finding.
LEMMA RulesAreOwn ==
  ASSUME ListedInv, ClaimsInv
  PROVE  /\ OwnRules(Rules) /\ Len(Rules) = 5 /\ DOMAIN Rules = {1, 2, 3, 4, 5}
         /\ \A r \in DOMAIN Rules : \A d \in ToSet(Rules[r]) : SetSymptom(d)
         /\ \A c \in UnusableClaims : \E d \in ToSet(Rules[2]) : d.id \in ClaimIDs /\ d.about = c
<1> DEFINE Good(s) == IsList(s) /\ \A d \in ToSet(s) : Own(d) /\ SetSymptom(d)
<1>1. Good(evaluateOrdering)
  <2> DEFINE d == SetFinding("STATEFULSET_ORDERED_ROLLOUT_BLOCKED", Ordinal(FirstUnready), "critical")
  <2>1. /\ Saying(d, "STATEFULSET_ORDERED_ROLLOUT_BLOCKED", Ordinal(FirstUnready), "critical")
        /\ IsList(<<d>>) /\ ToSet(<<d>>) = {d}
    BY SetFindingSays
  <2>2. \/ evaluateOrdering = <<>>
        \/ evaluateOrdering = <<d>> /\ UnreadyIn(backends) # {}
    BY DEF evaluateOrdering
  <2> HIDE DEF d
  <2>3. UnreadyIn(backends) # {} => SetSymptom(d)
    BY <2>1 DEF SetSymptom, Saying
  <2> QED BY <2>1, <2>2, <2>3, ListEmpty DEF Saying
<1>2. /\ Good(evaluateReplicaClaims)
      /\ \A c \in UnusableClaims :
           \E d \in ToSet(evaluateReplicaClaims) : d.id \in ClaimIDs /\ d.about = c
  <2>1. ASSUME NEW c \in UnusableClaims
        PROVE  LET d == claimFinding(c)
               IN  Own(d) /\ SetSymptom(d) /\ d.id \in ClaimIDs /\ d.about = c
    <3> DEFINE d == claimFinding(c)
    <3>1. c \in DOMAIN claims /\ Unusable(c)
      BY DEF UnusableClaims
    <3>2. CASE claims[c].exists = "missing"
      <4>1. d = SetFinding("STATEFULSET_CLAIM_NOT_FOUND", c, "critical")
        BY <3>2 DEF claimFinding
      <4> HIDE DEF d
      <4>2. Saying(d, "STATEFULSET_CLAIM_NOT_FOUND", c, "critical")
        BY <4>1, SetFindingSays
      <4>3. Own(d) /\ SetSymptom(d) /\ d.id \in ClaimIDs /\ d.about = c
        BY <3>1, <3>2, <4>2 DEF SetSymptom, ClaimIDs, Saying
      <4> QED BY <4>3 DEF d
    <3>3. CASE claims[c].exists # "missing"
      <4>1. PICK s \in {"critical", "warning", "info"} :
              d = SetFinding("STATEFULSET_CLAIM_NOT_BOUND", c, s)
        BY <3>3 DEF claimFinding
      <4> HIDE DEF d
      <4>2. Saying(d, "STATEFULSET_CLAIM_NOT_BOUND", c, s)
        BY <4>1, SetFindingSaid
      <4>3. Own(d) /\ SetSymptom(d) /\ d.id \in ClaimIDs /\ d.about = c
        BY <3>1, <4>2 DEF SetSymptom, ClaimIDs, Saying
      <4> QED BY <4>3 DEF d
    <3> QED BY <3>2, <3>3
  <2> QED BY <2>1, ClaimsListed
<1>3. Good(evaluateService)
  <2> DEFINE d == SetFinding("STATEFULSET_SERVICE_NOT_FOUND", "service", "warning")
             e == SetFinding("STATEFULSET_SERVICE_NOT_HEADLESS", "service", "warning")
             a == service.exists = "missing"
             b == service.exists = "found" /\ ~service.headless
  <2>1. Saying(d, "STATEFULSET_SERVICE_NOT_FOUND", "service", "warning")
    BY SetFindingSays
  <2>2. Saying(e, "STATEFULSET_SERVICE_NOT_HEADLESS", "service", "warning")
    BY SetFindingSays
  <2>3. a \in BOOLEAN /\ b \in BOOLEAN /\ evaluateService = If(a, d) \o If(b, e)
    BY DEF evaluateService
  <2> HIDE DEF d, e
  <2>4. (a => SetSymptom(d)) /\ (b => SetSymptom(e))
    BY <2>1, <2>2 DEF SetSymptom, Saying
  <2> HIDE DEF a, b
  <2> QED BY <2>1, <2>2, <2>3, <2>4, TwoIfs DEF Saying
<1>4. Good(evaluateUpdateStrategy)
  <2> DEFINE z == SetFinding("STATEFULSET_SCALED_TO_ZERO", "statefulset", "info")
             d == SetFinding("STATEFULSET_UPDATE_ON_DELETE", "statefulset", "info")
             e == SetFinding("STATEFULSET_UPDATE_PARTITIONED", "statefulset", "info")
             a == scenario.strategy = "onDelete" /\ scenario.pending
             b == scenario.partitioned /\ scenario.pending
  <2>1. /\ Saying(z, "STATEFULSET_SCALED_TO_ZERO", "statefulset", "info")
        /\ IsList(<<z>>) /\ ToSet(<<z>>) = {z}
    BY SetFindingSays
  <2>2. Saying(d, "STATEFULSET_UPDATE_ON_DELETE", "statefulset", "info")
    BY SetFindingSays
  <2>3. Saying(e, "STATEFULSET_UPDATE_PARTITIONED", "statefulset", "info")
    BY SetFindingSays
  <2>4. /\ a \in BOOLEAN /\ b \in BOOLEAN
        /\ \/ evaluateUpdateStrategy = <<z>>
           \/ evaluateUpdateStrategy = If(a, d) \o If(b, e)
    BY DEF evaluateUpdateStrategy
  <2> HIDE DEF z, d, e, a, b
  <2>5. SetSymptom(z) /\ SetSymptom(d) /\ SetSymptom(e)
    BY <2>1, <2>2, <2>3 DEF SetSymptom, Saying
  <2>6. Good(<<z>>)
    BY <2>1, <2>5 DEF Saying
  <2>7. Good(If(a, d) \o If(b, e))
    BY <2>2, <2>3, <2>4, <2>5, TwoIfs DEF Saying
  <2> HIDE DEF Good
  <2> QED BY <2>4, <2>6, <2>7
<1>5. Good(evaluateAvailability)
  <2> DEFINE a == DesiredReplicas # 0 /\ scenario.ready < DesiredReplicas
             s == IF scenario.ready > 0 THEN "warning" ELSE "critical"
             d == SetFinding("STATEFULSET_UNAVAILABLE_REPLICAS", "statefulset", s)
  <2>1. s \in {"critical", "warning", "info"}
    OBVIOUS
  <2>2. evaluateAvailability = If(a, d) /\ a \in BOOLEAN
    BY DEF evaluateAvailability
  <2> HIDE DEF s
  <2>3. Saying(d, "STATEFULSET_UNAVAILABLE_REPLICAS", "statefulset", s)
    BY <2>1, SetFindingSaid
  <2> HIDE DEF d
  <2>4. a => SetSymptom(d)
    BY <2>3 DEF SetSymptom, Saying
  <2> HIDE DEF a
  <2> QED BY <2>2, <2>3, <2>4, IfOwn DEF Saying
<1>6. /\ IsList(Rules) /\ Len(Rules) = 5 /\ DOMAIN Rules = {1, 2, 3, 4, 5}
      /\ Rules[1] = evaluateOrdering /\ Rules[2] = evaluateReplicaClaims
      /\ Rules[3] = evaluateService /\ Rules[4] = evaluateUpdateStrategy
      /\ Rules[5] = evaluateAvailability
  BY FiveRules DEF Rules
<1>7. \A r \in {1, 2, 3, 4, 5} : Good(Rules[r])
  <2> HIDE DEF Good
  <2> QED BY <1>1, <1>2, <1>3, <1>4, <1>5, <1>6
<1> QED BY <1>2, <1>6, <1>7 DEF OwnRules

-----------------------------------------------------------------------------
(* The invariant is kept *)

\* Whatever has been found is what the rules make of the snapshot, the loop over the Pods
\* passes over those whose claims explain them, and the report is made of both: the
\* snapshot does not change once the rules look at it.
StatefulSetInv ==
  /\ ListedInv /\ OrderedInv /\ ClaimsInv
  /\ EvaluationInv(Rules, podsBlockedByTheirClaim, AsFound, Symptoms) /\ OnceInv

\* The invariant in terms of the rules of the state it speaks of.
LEMMA EvaluationOf ==
  ASSUME NEW rules, NEW explained, EvaluationInv(rules, explained, AsFound, Symptoms)',
         Rules' = rules, podsBlockedByTheirClaim' = explained
  PROVE  EvaluationInv(Rules, podsBlockedByTheirClaim, AsFound, Symptoms)'
BY DEF EvaluationInv, PodsInv, ByFallback, RulesInv, MergedInv, ReportInv, FoundBy

\* The run begins there.
LEMMA StatefulSetBegins == Init => StatefulSetInv
<1> SUFFICES ASSUME Init PROVE StatefulSetInv
  OBVIOUS
<1>1. ListedInv /\ backends = <<>> /\ ~Reported /\ pc = "get"
  BY PodsInitially DEF Init, InitRun, Reported
<1>2. OrderedInv
  BY <1>1 DEF OrderedInv
<1>3. ClaimsInv
  <2>1. claims = <<>> /\ at = 1 /\ DOMAIN claims = {}
    BY DEF Init
  <2>2. {ClaimAt(n) : n \in 1..(1 - 1)} = {}
    OBVIOUS
  <2>3. at <= ClaimsToRead + 1
    BY <1>1, <2>1, SetAsks
  <2> QED BY <1>1, <2>1, <2>2, <2>3 DEF ClaimsInv
<1>4. IsList(Rules)
  BY FiveRules DEF Rules
<1>5. EvaluationInv(Rules, podsBlockedByTheirClaim, AsFound, Symptoms)
  BY <1>4, EvaluationBegins DEF Init
<1>6. OnceInv
  BY OnceBegins DEF Init
<1> QED BY <1>1, <1>2, <1>3, <1>5, <1>6 DEF StatefulSetInv

\* What a collecting step leaves for the rules.
LEMMA Collects ==
  ASSUME StatefulSetInv, Collecting,
         UNCHANGED <<next, findings, podRules, podReport, report, status>>,
         ListedInv', OrderedInv', ClaimsInv', pc' \notin {"report", "render"}
  PROVE  StatefulSetInv'
<1>1. PICK rules, explained : rules = Rules' /\ explained = podsBlockedByTheirClaim'
  OBVIOUS
<1>2. IsList(rules)
  BY <1>1, FiveRules DEF Rules
<1>3. PICK old, past : EvaluationInv(old, past, AsFound, Symptoms)
  BY DEF StatefulSetInv
<1>4. EvaluationInv(rules, explained, AsFound, Symptoms)'
  BY <1>2, <1>3, CollectorStep
<1>5. OnceInv'
  BY <1>3, OnceCollects DEF EvaluationInv
<1> QED BY <1>1, <1>4, <1>5, EvaluationOf DEF StatefulSetInv

\* The Pods come out in the order of their ordinals.
LEMMA ReplicasInOrder ==
  ASSUME ListedInv
  PROVE  LET out == InOrder(Owned, {p \in Owned \X Owned : ByOrdinal(p[1], p[2])})
         IN  /\ out \in Seq(DOMAIN scenario.pods) /\ IsInjective(out)
             /\ \A k, m \in DOMAIN out : k < m => Ordinal(out[k]) <= Ordinal(out[m])
<1> DEFINE S == Owned
           R == {p \in S \X S : ByOrdinal(p[1], p[2])}
           out == InOrder(S, R)
<1>1. DOMAIN scenario.pods = 1..Len(scenario.pods) /\ Len(scenario.pods) \in Nat
  BY BackendsAssumption DEF ListedInv
<1>2. S \in SUBSET DOMAIN scenario.pods
  BY DEF Owned
<1> HIDE DEF S
<1>3. IsFiniteSet(S)
  <2>1. ASSUME NEW m \in Nat PROVE IsFiniteSet(1..m)
    BY FS_Interval
  <2> QED BY <1>1, <1>2, <2>1, FS_Subset
<1>4. \A i \in S : i \in Nat /\ Ordinal(i) \in Nat
  BY <1>1, <1>2, SetAsks
<1>5. \A i, j \in S : <<i, j>> \in R <=> \/ Ordinal(i) < Ordinal(j)
                                         \/ Ordinal(i) = Ordinal(j) /\ i < j
  BY DEF ByOrdinal
<1> HIDE DEF R
<1>6. OrderOn(S, R)
  BY <1>4, <1>5 DEF OrderOn
<1>7. /\ IsList(out) /\ ToSet(out) = S /\ IsInjective(out)
      /\ \A k, m \in DOMAIN out : k < m => <<out[k], out[m]>> \in R
  BY <1>3, <1>6, ListInOrder
<1> HIDE DEF out
<1>8. out \in Seq(S) /\ \A k \in DOMAIN out : out[k] \in S
  BY <1>7 DEF IsList, ToSet
<1>9. out \in Seq(DOMAIN scenario.pods)
  BY <1>2, <1>8
<1>10. ASSUME NEW k \in DOMAIN out, NEW m \in DOMAIN out, k < m
       PROVE  Ordinal(out[k]) <= Ordinal(out[m])
  <2>1. out[k] \in S /\ out[m] \in S /\ <<out[k], out[m]>> \in R
    BY <1>7, <1>8, <1>10
  <2> QED BY <1>4, <1>5, <2>1
<1> QED BY <1>7, <1>9, <1>10 DEF out, R, S

\* The loop over the claims depends on the replicas and their number.
LEMMA ClaimsKept ==
  ASSUME UNCHANGED <<scenario, backends>>
  PROVE  /\ ClaimsToRead' = ClaimsToRead /\ (\A n : ClaimAt(n)' = ClaimAt(n))
         /\ (ListedInv => ListedInv') /\ (OrderedInv => OrderedInv')
         /\ WantedClaims' = WantedClaims
<1>1. DesiredReplicas' = DesiredReplicas /\ allPodsReady' = allPodsReady
  BY DEF DesiredReplicas, allPodsReady, UnreadyIn
<1> QED BY <1>1 DEF ClaimsToRead, ClaimAt, ListedInv, OrderedInv, Ordinal, WantedClaims

\* The collectors before the loop read no claim.
LEMMA BeforeClaims ==
  ASSUME ListedInv, ClaimsInv, UNCHANGED <<scenario, claims, at>>, ~Reported',
         pc \in {"get", "events", "pods", "backends", "service"},
         pc' \in {"events", "pods", "backends", "service", "claims", "done"}
  PROVE  ClaimsInv'
<1>1. at' = 1 /\ DOMAIN claims' = {}
  <2>1. at = 1 /\ DOMAIN claims = {ClaimAt(n) : n \in 1..(at - 1)}
    BY DEF ClaimsInv
  <2>2. 1..(1 - 1) = {}
    OBVIOUS
  <2> QED BY <2>1, <2>2
<1>2. at' <= ClaimsToRead' + 1
  <2>1. ClaimsToRead' \in {0, DesiredReplicas * scenario.templates}
    BY DEF ClaimsToRead, DesiredReplicas
  <2>2. ClaimsToRead' \in Nat
    BY <2>1, SetAsks
  <2>3. \A x \in Nat : 1 <= x + 1
    OBVIOUS
  <2> QED BY <1>1, <2>2, <2>3
<1>3. (DOMAIN claims = {ClaimAt(n) : n \in IF pc = "class" THEN 1..at ELSE 1..(at - 1)})'
  BY <1>1
<1> QED BY <1>1, <1>2, <1>3 DEF ClaimsInv

\* Each collector is such a step.
LEMMA CollectorsKeep ==
  ASSUME StatefulSetInv,
         \/ GetStatefulSet \/ OwnEvents \/ invalidSelector \/ collectStatefulSetPods
         \/ ReadBackends
         \/ collectHeadlessService \/ ReadClaim \/ storageClassInfo \/ ClaimsRead
  PROVE  StatefulSetInv'
<1> USE DEF world, listing, verdict, podRules, own
<1>1. /\ ListedInv /\ OrderedInv /\ ClaimsInv
      /\ pc \notin {"render", "done"} => ~Reported
  BY DEF StatefulSetInv, EvaluationInv, ReportInv
<1>2. ASSUME UNCHANGED <<scenario, backends>>
      PROVE  ListedInv' /\ OrderedInv' /\ ClaimsToRead' = ClaimsToRead
             /\ \A n : ClaimAt(n)' = ClaimAt(n)
  BY <1>1, <1>2, ClaimsKept
<1>3. CASE GetStatefulSet
  <2>1. /\ pc = "get" /\ pc' \in {"events", "done"} /\ UNCHANGED <<scenario, backends, claims, at>>
        /\ UNCHANGED <<next, findings, podRules, podReport, report, status>>
    BY <1>3 DEF GetStatefulSet, Get
  <2>2. ClaimsInv'
    BY <1>1, <1>2, <2>1, BeforeClaims DEF Reported
  <2> QED BY <1>2, <2>1, <2>2, Collects DEF Collecting
<1>4. CASE OwnEvents
  <2>1. /\ pc = "events" /\ pc' = "pods" /\ UNCHANGED <<scenario, backends, claims, at>>
        /\ UNCHANGED <<next, findings, podRules, podReport, report, status>>
    BY <1>4 DEF OwnEvents, eventsFor
  <2>2. ClaimsInv'
    BY <1>1, <1>2, <2>1, BeforeClaims DEF Reported
  <2> QED BY <1>2, <2>1, <2>2, Collects DEF Collecting
<1>11. CASE invalidSelector
  <2>1. /\ pc = "pods" /\ pc' = "service" /\ UNCHANGED <<scenario, backends, claims, at>>
        /\ UNCHANGED <<next, findings, podRules, podReport, report, status>>
    BY <1>11 DEF invalidSelector
  <2>2. ClaimsInv'
    BY <1>1, <1>2, <2>1, BeforeClaims DEF Reported
  <2> QED BY <1>2, <2>1, <2>2, Collects DEF Collecting
<1>5. CASE collectStatefulSetPods
  <2> DEFINE out == InOrder(Owned, {p \in Owned \X Owned : ByOrdinal(p[1], p[2])})
  <2>1. /\ pc = "pods" /\ pc' \in {"backends", "service"} /\ UNCHANGED <<scenario, claims, at>>
        /\ UNCHANGED <<next, findings, podRules, podReport, report, status>>
        /\ backends' \in {out, <<>>}
    BY <1>5 DEF collectStatefulSetPods
  <2>2. /\ out \in Seq(DOMAIN scenario.pods) /\ IsInjective(out)
        /\ \A k, m \in DOMAIN out : k < m => Ordinal(out[k]) <= Ordinal(out[m])
    BY <1>1, ReplicasInOrder
  <2> HIDE DEF out
  <2>3. <<>> \in Seq(DOMAIN scenario.pods) /\ IsInjective(<<>>)
    BY DEF IsInjective
  <2>4. ListedInv'
    BY <1>1, <2>1, <2>2, <2>3 DEF ListedInv
  <2>5. OrderedInv'
    <3>1. \A i : Ordinal(i)' = Ordinal(i)
      BY <2>1 DEF Ordinal
    <3> QED BY <2>1, <2>2, <3>1 DEF OrderedInv, Ordinal
  <2>6. ClaimsInv'
    BY <1>1, <2>1, <2>4, BeforeClaims DEF Reported
  <2> QED BY <2>1, <2>4, <2>5, <2>6, Collects DEF Collecting
<1>6. CASE ReadBackends
  <2>1. /\ pc = "backends" /\ pc' = "service" /\ UNCHANGED <<scenario, backends, claims, at>>
        /\ UNCHANGED <<next, findings, podRules, podReport, report, status>>
    BY <1>6 DEF ReadBackends, backendSnapshots
  <2>2. ClaimsInv'
    BY <1>1, <1>2, <2>1, BeforeClaims DEF Reported
  <2> QED BY <1>2, <2>1, <2>2, Collects DEF Collecting
<1>7. CASE collectHeadlessService
  <2>1. /\ pc = "service" /\ pc' = "claims" /\ UNCHANGED <<scenario, backends, claims, at>>
        /\ UNCHANGED <<next, findings, podRules, podReport, report, status>>
    BY <1>7 DEF collectHeadlessService
  <2>2. ClaimsInv'
    BY <1>1, <1>2, <2>1, BeforeClaims DEF Reported
  <2> QED BY <1>2, <2>1, <2>2, Collects DEF Collecting
<1>8. CASE ReadClaim
  <2>1. /\ pc = "claims" /\ pc' \in {"claims", "class"} /\ UNCHANGED <<scenario, backends>>
        /\ UNCHANGED <<next, findings, podRules, podReport, report, status>>
        /\ at <= ClaimsToRead /\ DOMAIN claims' = DOMAIN claims \cup {ClaimAt(at)}
        /\ at' = IF pc' = "class" THEN at ELSE at + 1
    BY <1>8 DEF ReadClaim
  <2>2. ClaimsInv'
    <3>1. at \in Nat \ {0} /\ 1..at = (1..(at - 1)) \cup {at} /\ (at + 1) - 1 = at
      BY <1>1 DEF ClaimsInv
    <3>2. ClaimsToRead \in Nat /\ ClaimsToRead' = ClaimsToRead /\ ~Reported'
      BY <1>1, <1>2, <2>1, SetAsks DEF Reported
    <3>3. DOMAIN claims' = {ClaimAt(n) : n \in 1..at}
      BY <1>1, <2>1, <3>1 DEF ClaimsInv
    <3>4. (DOMAIN claims = {ClaimAt(n) : n \in IF pc = "class" THEN 1..at ELSE 1..(at - 1)})'
      BY <1>2, <2>1, <3>1, <3>3
    <3>5. at' \in Nat \ {0} /\ at' <= ClaimsToRead' + 1 /\ (pc' = "class" => at' <= ClaimsToRead')
      BY <2>1, <3>1, <3>2
    <3> QED BY <2>1, <3>2, <3>4, <3>5 DEF ClaimsInv
  <2> QED BY <1>2, <2>1, <2>2, Collects DEF Collecting
<1>9. CASE storageClassInfo
  <2>1. /\ pc = "class" /\ pc' = "claims" /\ UNCHANGED <<scenario, backends>> /\ at' = at + 1
        /\ UNCHANGED <<next, findings, podRules, podReport, report, status>>
        /\ DOMAIN claims' = DOMAIN claims
    BY <1>9 DEF storageClassInfo
  <2>2. ClaimsInv'
    <3>1. at \in Nat \ {0} /\ (at + 1) - 1 = at /\ at <= ClaimsToRead
      BY <1>1, <2>1 DEF ClaimsInv
    <3>2. ClaimsToRead \in Nat /\ ClaimsToRead' = ClaimsToRead /\ ~Reported'
      BY <1>1, <1>2, <2>1, SetAsks DEF Reported
    <3>3. DOMAIN claims' = {ClaimAt(n) : n \in 1..at}
      BY <1>1, <2>1 DEF ClaimsInv
    <3>4. (DOMAIN claims = {ClaimAt(n) : n \in IF pc = "class" THEN 1..at ELSE 1..(at - 1)})'
      BY <1>2, <2>1, <3>1, <3>3
    <3>5. at' \in Nat \ {0} /\ at' <= ClaimsToRead' + 1
      BY <2>1, <3>1, <3>2
    <3> QED BY <2>1, <3>2, <3>4, <3>5 DEF ClaimsInv
  <2> QED BY <1>2, <2>1, <2>2, Collects DEF Collecting
<1>10. CASE ClaimsRead
  <2>1. /\ pc = "claims" /\ pc' = "rules" /\ UNCHANGED <<scenario, backends, claims, at>>
        /\ UNCHANGED <<next, findings, podRules, podReport, report, status>>
        /\ at > ClaimsToRead
    BY <1>10 DEF ClaimsRead
  <2>2. ClaimsInv'
    BY <1>1, <1>2, <2>1 DEF ClaimsInv
  <2> QED BY <1>2, <2>1, <2>2, Collects DEF Collecting
<1> QED BY <1>3, <1>4, <1>5, <1>6, <1>7, <1>8, <1>9, <1>10, <1>11

\* The rules depend on the snapshot alone.
LEMMA SnapshotKept ==
  ASSUME UNCHANGED <<scenario, own, backends>>
  PROVE  Rules' = Rules /\ podsBlockedByTheirClaim' = podsBlockedByTheirClaim
<1> USE DEF own
<1>1. /\ DesiredReplicas' = DesiredReplicas /\ UnreadyIn(backends)' = UnreadyIn(backends)
      /\ (\A i : Ordinal(i)' = Ordinal(i)) /\ \A c : Unusable(c)' <=> Unusable(c)
  BY DEF DesiredReplicas, UnreadyIn, Ordinal, Unusable
<1>2. MissingOrdinals' = MissingOrdinals /\ FirstUnready' = FirstUnready
  BY <1>1 DEF MissingOrdinals, FirstUnready, ToSet, Ordinal
<1>3. evaluateOrdering' = evaluateOrdering
  BY <1>1, <1>2 DEF evaluateOrdering
<1>4. evaluateReplicaClaims' = evaluateReplicaClaims
  BY <1>1 DEF evaluateReplicaClaims, claimFinding, Unusable
<1>5. evaluateService' = evaluateService
  BY DEF evaluateService
<1>6. evaluateUpdateStrategy' = evaluateUpdateStrategy /\ evaluateAvailability' = evaluateAvailability
  BY <1>1 DEF evaluateUpdateStrategy, evaluateAvailability
<1>7. podsBlockedByTheirClaim' = podsBlockedByTheirClaim
  BY <1>1 DEF podsBlockedByTheirClaim, ToSet, Ordinal, Unusable
<1> QED BY <1>3, <1>4, <1>5, <1>6, <1>7 DEF Rules

\* The evaluation keeps the invariant, and so do the surroundings.
LEMMA VerdictKeeps ==
  ASSUME StatefulSetInv, Evaluation \/ ((Expire \/ Drift) /\ UNCHANGED own) \/ UNCHANGED vars
  PROVE  StatefulSetInv'
<1>1. PICK rules, explained : rules = Rules /\ explained = podsBlockedByTheirClaim
  OBVIOUS
<1>2. /\ ListedInv /\ OrderedInv /\ ClaimsInv /\ OnceInv
      /\ EvaluationInv(rules, explained, AsFound, Symptoms)
  BY <1>1 DEF StatefulSetInv
<1>3. OwnRules(rules)
  BY <1>1, <1>2, RulesAreOwn
<1>4. EvaluationStep(rules, explained, AsFound, Symptoms) /\ UNCHANGED own
  BY <1>1 DEF Evaluation, EvaluationStep, ReplicaFindings, StatefulSetReport, vars
<1>5. UNCHANGED <<scenario, own, backends>>
  BY <1>4, EvaluationReads
<1>6. ListedInv' /\ OrderedInv' /\ rules = Rules' /\ explained = podsBlockedByTheirClaim'
  BY <1>1, <1>2, <1>5, SnapshotKept, ClaimsKept
<1>7. ClaimsInv'
  <2>1. /\ UNCHANGED <<claims, at>> /\ ClaimsToRead' = ClaimsToRead
        /\ \A n : ClaimAt(n)' = ClaimAt(n)
    BY <1>5, ClaimsKept DEF own
  <2>2. /\ \/ pc' = pc
           \/ /\ pc \in {"rules", "aggregate", "report", "render"}
              /\ pc' \in {"aggregate", "report", "render", "done"}
        /\ pc = "report" \/ UNCHANGED <<report, status>>
    BY <1>4, EvaluationLeaves
  <2>3. (pc' = "class" <=> pc = "class")
        /\ (pc' \in {"get", "events", "pods", "backends", "service"} => pc' = pc)
        /\ (pc' \in {"rules", "aggregate", "report", "render"} \/ Reported' =>
              pc \in {"rules", "aggregate", "report", "render"} \/ Reported)
    BY <2>2 DEF Reported
  <2>4. (DOMAIN claims = {ClaimAt(n) : n \in IF pc = "class" THEN 1..at ELSE 1..(at - 1)})'
    BY <1>2, <2>1, <2>3 DEF ClaimsInv
  <2> QED BY <1>2, <2>1, <2>3, <2>4 DEF ClaimsInv
<1>8. EvaluationInv(rules, explained, AsFound, Symptoms)'
  BY <1>2, <1>3, <1>4, EvaluationKeeps
<1>9. OnceInv'
  BY <1>2, <1>4, OnceKeeps DEF EvaluationInv
<1> QED BY <1>6, <1>7, <1>8, <1>9, EvaluationOf DEF StatefulSetInv

\* Every step keeps it.
LEMMA StatefulSetStep == StatefulSetInv /\ [Next]_vars => StatefulSetInv'
BY CollectorsKeep, VerdictKeeps DEF Next, Step, Terminated

-----------------------------------------------------------------------------
(* What the report says *)

\* Once the run has judged, the report is joined from the findings of the set and of its
\* Pods; before that it is empty.
LEMMA StatefulSetJoined ==
  ASSUME StatefulSetInv
  PROVE  /\ ListedInv /\ ClaimsInv /\ PodsInv(podsBlockedByTheirClaim)
         /\ OwnRules(Rules) /\ FoundBy(findings, next, Rules)
         /\ Reported => Joined(Symptoms, AsFound) /\ pod > Len(backends)
         /\ ~Reported => report = <<>>
<1>1. AsFound \in [Severities -> Severities]
  BY DEF AsFound
<1>2. PICK explained : explained = podsBlockedByTheirClaim
  OBVIOUS
<1>3. /\ ListedInv /\ ClaimsInv /\ OwnRules(Rules)
      /\ EvaluationInv(Rules, explained, AsFound, Symptoms)
  BY <1>2, RulesAreOwn DEF StatefulSetInv
<1>4. (~Reported => report = <<>>) /\ FoundBy(findings, next, Rules) /\ PodsInv(explained)
  BY <1>3 DEF EvaluationInv, ReportInv, RulesInv
<1> QED BY <1>1, <1>2, <1>3, <1>4, EvaluationJoined

\* Every finding of the set has its symptom.
LEMMA FindingsHaveSymptoms ==
  ASSUME StatefulSetInv, NEW e \in ToSet(findings)
  PROVE  SetSymptom(e)
<1>1. PICK r \in DOMAIN Rules : e \in ToSet(Rules[r])
  BY StatefulSetJoined, FoundFrom
<1> QED BY <1>1, StatefulSetJoined, RulesAreOwn

\* StatefulSetReport names as the cause of missing replicas only a finding that it also
\* reports (analyze/statefulset.go:31-38).
THEOREM CausesAreTold == Spec => []NoDanglingCause
<1>1. ASSUME StatefulSetInv PROVE NoDanglingCause
  <2>1. CASE Reported
    BY <1>1, <2>1, StatefulSetJoined, CausesTold
  <2>2. CASE ~Reported
    BY <1>1, <2>2, StatefulSetJoined DEF NoDanglingCause
  <2> QED BY <2>1, <2>2
<1> QED BY <1>1, StatefulSetBegins, StatefulSetStep, PTL DEF Spec

\* Each finding about a replica is counted in one finding of the report, with the replica
\* among its subjects, of which there are as many as it counts (aggregate.go:8-13).
THEOREM PodFindingsKept == Spec => []NothingLost
<1>1. ASSUME StatefulSetInv PROVE NothingLost
  <2>1. CASE Reported
    BY <1>1, <2>1, StatefulSetJoined, AllCounted DEF StatefulSetInv, OnceInv
  <2>2. CASE ~Reported
    BY <2>2 DEF NothingLost
  <2> QED BY <2>1, <2>2
<1> QED BY <1>1, StatefulSetBegins, StatefulSetStep, PTL DEF Spec

\* Of the Pods that are not ready the first one listed has the lowest ordinal.
LEMMA FirstIsLowest ==
  ASSUME StatefulSetInv, UnreadyIn(backends) # {}
  PROVE  /\ FirstUnready \in Unready
         /\ \A i \in Unready : Ordinal(i) >= Ordinal(FirstUnready)
<1> DEFINE U == UnreadyIn(backends)
           first == Min(U)
<1>1. /\ backends \in Seq(DOMAIN scenario.pods) /\ OrderedInv
      /\ \A i \in DOMAIN scenario.pods : Ordinal(i) \in Nat
  BY SetAsks DEF StatefulSetInv, ListedInv
<1>2. U \in SUBSET Nat /\ U \subseteq DOMAIN backends
  BY <1>1 DEF UnreadyIn
<1>3. \E k \in U : \A m \in U : k <= m
  <2> HIDE DEF U
  <2> QED BY <1>2, LeastNumber DEF U
<1>4. first \in U /\ \A m \in U : first <= m
  <2> HIDE DEF U
  <2> QED BY <1>3 DEF Min
<1>5. FirstUnready = backends[first]
  BY DEF FirstUnready
<1> HIDE DEF first
<1>6. FirstUnready \in Unready
  BY <1>2, <1>4, <1>5 DEF Unready, UnreadyIn, ToSet
<1>7. ASSUME NEW i \in Unready PROVE Ordinal(i) >= Ordinal(FirstUnready)
  <2>1. PICK m \in U : i = backends[m]
    BY DEF Unready, UnreadyIn, ToSet
  <2>2. /\ m \in DOMAIN backends /\ first \in DOMAIN backends /\ m \in Nat /\ first \in Nat
        /\ first <= m
    BY <1>2, <1>4, <2>1
  <2>3. Ordinal(backends[m]) \in Nat /\ Ordinal(backends[first]) \in Nat
    BY <1>1, <2>2
  <2>4. CASE first = m
    BY <1>5, <2>1, <2>3, <2>4
  <2>5. CASE first < m
    BY <1>1, <1>5, <2>1, <2>2, <2>3, <2>5 DEF OrderedInv
  <2> QED BY <2>2, <2>4, <2>5
<1> QED BY <1>6, <1>7

\* In whatever order the API server lists the Pods, the one that is said to hold up the
\* others is not ready and has none such below it (collect/statefulset.go:72-73).
THEOREM BlockerFound == Spec => []BlockerIsLowest
<1>1. ASSUME StatefulSetInv PROVE BlockerIsLowest
  <2> SUFFICES ASSUME NEW k \in DOMAIN findings,
                      findings[k].id = "STATEFULSET_ORDERED_ROLLOUT_BLOCKED"
               PROVE  /\ \E i \in Unready : Ordinal(i) = findings[k].about
                      /\ \A i \in Unready : Ordinal(i) >= findings[k].about
    BY DEF BlockerIsLowest
  <2>1. SetSymptom(findings[k])
    <3>1. findings[k] \in ToSet(findings)
      BY DEF ToSet
    <3> QED BY <1>1, <3>1, FindingsHaveSymptoms
  <2>2. UnreadyIn(backends) # {} /\ findings[k].about = Ordinal(FirstUnready)
    BY <2>1 DEF SetSymptom
  <2> QED BY <1>1, <2>2, FirstIsLowest
<1> QED BY <1>1, StatefulSetBegins, StatefulSetStep, PTL DEF Spec

\* No replica has a finding about its claim and the fallback, and when the rules ran each
\* that is neither ready nor finished has one or another (rules/statefulset/statefulset.go:61-63).
THEOREM ReplicasToldOnce == Spec => []ReplicaToldOnce
<1>1. ASSUME StatefulSetInv PROVE ReplicaToldOnce
  <2> DEFINE PodTold(i, ids) == \E k \in DOMAIN report : report[k].id \in ids /\ i \in report[k].subjects
  <2> SUFFICES ASSUME NEW i \in Unready
               PROVE  /\ ~(ClaimTold(i) /\ PodTold(i, {"POD_NOT_READY"}))
                      /\ Evaluated => \/ IsTerminal(scenario.pods[i].pod) \/ ClaimTold(i)
                                      \/ PodTold(i, PodIDs)
    BY DEF ReplicaToldOnce
  <2>1. /\ ListedInv /\ ClaimsInv /\ PodsInv(podsBlockedByTheirClaim)
        /\ OwnRules(Rules) /\ FoundBy(findings, next, Rules)
    BY <1>1, StatefulSetJoined
  <2>2. i \in ToSet(backends) /\ ~podIsReady(scenario.pods[i].pod) /\ i \in DOMAIN scenario.pods
    BY <2>1 DEF Unready, ListedInv, ToSet
  <2>3. CASE ~Reported
    BY <1>1, <2>3, StatefulSetJoined DEF ClaimTold, Evaluated
  <2>4. CASE Reported
    <3>1. Joined(Symptoms, AsFound) /\ pod > Len(backends)
      BY <1>1, <2>4, StatefulSetJoined
    <3>2. /\ ToSet(report) = ToSet(Explained(Symptoms)) \cup ToSet(podReport)
          /\ \A d \in ToSet(podReport) : d.id \in PodIDs
      BY <3>1, ReportFacts DEF MergedRow
    <3>3. /\ \A d \in ToSet(Explained(Symptoms)) : d.subjects = {} /\ \E e \in ToSet(findings) :
               d.id = e.id /\ d.about = e.about
          /\ \A e \in ToSet(findings) : \E d \in ToSet(Explained(Symptoms)) :
               d.id = e.id /\ d.about = e.about
      BY <3>1, ExplainedFacts DEF Joined, Tells
    <3>4. ASSUME ClaimTold(i) PROVE i \in podsBlockedByTheirClaim
      <4>1. PICK d \in ToSet(report) : d.id \in ClaimIDs /\ d.about[2] = Ordinal(i)
        BY <3>4 DEF ClaimTold, ClaimIDs, ToSet
      <4>2. d \notin ToSet(podReport)
        BY <3>2, <4>1 DEF ClaimIDs, PodIDs
      <4>3. PICK e \in ToSet(findings) : d.id = e.id /\ d.about = e.about
        BY <3>2, <3>3, <4>1, <4>2
      <4>4. SetSymptom(e)
        BY <1>1, FindingsHaveSymptoms
      <4>5. e.about \in DOMAIN claims /\ Unusable(e.about)
        BY <4>1, <4>3, <4>4 DEF SetSymptom, ClaimIDs, Unusable
      <4> QED BY <2>2, <4>1, <4>3, <4>5 DEF podsBlockedByTheirClaim
    <3>5. ASSUME PodTold(i, {"POD_NOT_READY"}) PROVE i \notin podsBlockedByTheirClaim
      <4>1. PICK d \in ToSet(report) : d.id = "POD_NOT_READY" /\ i \in d.subjects
        BY <3>5 DEF ToSet
      <4>2. d \in ToSet(podReport)
        BY <3>2, <3>3, <4>1
      <4>3. PICK e \in ToSet(all) : e.id = d.id /\ e.subject = i
        BY <3>1, <4>1, <4>2, WeighedRows DEF Joined
      <4>4. ~ByRule(e)
        BY <2>1, <2>2, <4>1, <4>3, RulesAreNoFallback DEF ListedInv
      <4> QED BY <2>1, <4>3, <4>4 DEF PodsInv, ByFallback
    <3>6. ASSUME Evaluated, i \in podsBlockedByTheirClaim PROVE ClaimTold(i)
      <4>1. PICK c \in DOMAIN claims : c[2] = Ordinal(i) /\ Unusable(c)
        BY <3>6 DEF podsBlockedByTheirClaim
      <4>2. PICK e \in ToSet(Rules[2]) : e.id \in ClaimIDs /\ e.about = c
        BY <2>1, <4>1, RulesAreOwn DEF UnusableClaims
      <4>3. e \in ToSet(findings)
        <5>1. 2 \in DOMAIN Rules /\ next > Len(Rules)
          BY <2>1, <3>6, RulesAreOwn DEF Evaluated
        <5> QED BY <2>1, <4>2, <5>1, FoundFrom
      <4>4. PICK d \in ToSet(report) : d.id = e.id /\ d.about = e.about
        BY <3>2, <3>3, <4>3
      <4> QED BY <4>1, <4>2, <4>4 DEF ClaimTold, ClaimIDs, ToSet
    <3>7. \/ Fine(i) \/ i \in podsBlockedByTheirClaim \/ PodTold(i, PodIDs)
      <4>1. PICK explained : explained = podsBlockedByTheirClaim
        OBVIOUS
      <4>2. PodsInv(explained)
        BY <2>1, <4>1
      <4> QED BY <2>1, <2>2, <3>1, <4>1, <4>2, PodsTold
    <3> QED BY <2>2, <3>4, <3>5, <3>6, <3>7 DEF Fine
  <2> QED BY <2>3, <2>4
<1> QED BY <1>1, StatefulSetBegins, StatefulSetStep, PTL DEF Spec

-----------------------------------------------------------------------------
(* What the reads have left *)

\* What is known was true when it was read.
SnapshotInv ==
  /\ Objects \ present \subseteq everAbsent
  /\ pc \in {"get", "events", "pods", "backends"} => podEvents = {}
  /\ \A i \in podEvents : ~podIsReady(scenario.pods[i].pod)
  /\ service.exists = "missing" => O("service") \in everAbsent
  /\ service.exists = "found" /\ ~service.headless => scenario.service = "clusterIP"
  /\ \A c \in DOMAIN claims : claims[c].exists = "missing" => Claim(c[1], c[2]) \in everAbsent

\* What could not be read, of what has been asked for, is booked.
BookedInv ==
  (pc # "done" \/ Reported) /\ degradations = {} =>
    /\ pc \in {"get", "events"} \/ ownEvents
    /\ pc \in {"get", "events", "pods"} \/ listed
    /\ \/ pc \in {"get", "events", "pods", "backends"}
       \/ needEvents(backends) \subseteq podEvents
    /\ \/ pc \in {"get", "events", "pods", "backends", "service"} \/ scenario.service = "none"
       \/ service.exists \in {"found", "missing"}
    /\ \A c \in DOMAIN claims : claims[c].exists \in {"found", "missing"}

\* What has been spent at each step: two requests at most for each claim that was read.
CostInv ==
  /\ calls \in Nat
  /\ pc = "get" => calls = 0
  /\ pc = "events" => calls = 1
  /\ pc = "pods" => calls = 2
  /\ pc = "backends" => calls = 3
  /\ pc = "service" => calls <= 3 + MaxBackendEvents
  /\ pc = "class" => calls <= 5 + MaxBackendEvents + 2 * (at - 1)
  /\ pc # "class" => calls <= 4 + MaxBackendEvents + 2 * (at - 1)

CollectedInv == SnapshotInv /\ BookedInv /\ CostInv

\* Nothing is known, booked or spent at the start.
LEMMA CollectedBegins == Init => CollectedInv
<1> SUFFICES ASSUME Init PROVE CollectedInv
  OBVIOUS
<1>1. /\ pc = "get" /\ calls = 0 /\ at = 1 /\ DOMAIN claims = {} /\ podEvents = {}
      /\ present = Objects \ everAbsent /\ service.exists = "unread"
  BY DEF Init, InitRun
<1>2. CostInv
  BY <1>1, BackendsAssumption DEF CostInv
<1> QED BY <1>1, <1>2 DEF CollectedInv, SnapshotInv, BookedInv

\* An object that was looked up and not found was not there.
LEMMA NotFoundMeansAbsent ==
  ASSUME Objects \ present \subseteq everAbsent, NEW o \in Objects, NEW a \in Lookup(o)
  PROVE  /\ existence(a) \in {"found", "missing", "unknown"}
         /\ existence(a) = "missing" => o \in everAbsent
         /\ existence(a) = "found" <=> a = "ok"
         /\ \A resource : existenceDegradation(resource, a) = {} => existence(a) # "unknown"
<1>1. a = "NotFound" => o \in everAbsent
  BY BackendsAssumption DEF Lookup, Answers
<1>2. /\ existence(a) \in {"found", "missing", "unknown"}
      /\ existence(a) = "missing" <=> a = "NotFound"
      /\ existence(a) = "found" <=> a = "ok"
  BY DEF existence
<1> QED BY <1>1, <1>2, Booked

\* Every read adds only what is so at that moment, books its failure and is paid for.
LEMMA CollectorsBook ==
  ASSUME StatefulSetInv, StatefulSetInv', CollectedInv,
         \/ GetStatefulSet \/ OwnEvents \/ invalidSelector \/ collectStatefulSetPods
         \/ ReadBackends
         \/ collectHeadlessService \/ ReadClaim \/ storageClassInfo \/ ClaimsRead
  PROVE  CollectedInv'
<1> USE DEF world, listing, verdict, podRules, own
<1>1. /\ SnapshotInv /\ BookedInv /\ CostInv /\ ListedInv /\ ClaimsInv
      /\ MaxBackendEvents \in Nat /\ at \in Nat \ {0}
  BY BackendsAssumption DEF CollectedInv, StatefulSetInv, ClaimsInv
<1>2. /\ UNCHANGED <<scenario, present, everAbsent>>
      /\ pc \notin {"render", "done"} => ~Reported
  BY DEF GetStatefulSet, Get, OwnEvents, eventsFor, invalidSelector, collectStatefulSetPods,
         ReadBackends,
         backendSnapshots, collectHeadlessService, ReadClaim, storageClassInfo, ClaimsRead,
         StatefulSetInv, EvaluationInv, ReportInv
<1>3. ASSUME UNCHANGED backends PROVE needEvents(backends)' = needEvents(backends)
  BY <1>2, <1>3 DEF needEvents, UnreadyIn
<1>4. CASE GetStatefulSet
  <2>1. /\ pc = "get" /\ pc' \in {"events", "done"} /\ calls' = calls + 1
        /\ UNCHANGED <<ownEvents, listed, backends, podEvents, degradations, status, service,
                       claims, at>>
    BY <1>4 DEF GetStatefulSet, Get
  <2>2. CostInv'
    BY <1>1, <2>1 DEF CostInv
  <2> QED BY <1>1, <1>2, <2>1, <2>2 DEF CollectedInv, SnapshotInv, BookedInv, Reported
<1>5. CASE OwnEvents
  <2>1. /\ pc = "events" /\ pc' = "pods" /\ calls' = calls + 1
        /\ UNCHANGED <<listed, backends, podEvents, status, service, claims, at>>
        /\ degradations \subseteq degradations'
    BY <1>5 DEF OwnEvents, eventsFor
  <2>2. degradations' = {} => ownEvents'
    BY <1>5, Booked DEF OwnEvents, eventsFor
  <2>3. CostInv'
    BY <1>1, <2>1 DEF CostInv
  <2> QED BY <1>1, <1>2, <2>1, <2>2, <2>3 DEF CollectedInv, SnapshotInv, BookedInv
<1>12. CASE invalidSelector
  <2>1. /\ pc = "pods" /\ pc' = "service"
        /\ degradations' = degradations \cup degrade("pods", "Error")
        /\ UNCHANGED <<calls, ownEvents, listed, backends, podEvents, status, service, claims, at>>
    BY <1>12 DEF invalidSelector
  <2>2. degradations' # {}
    BY <2>1, Booked
  <2>3. CostInv'
    BY <1>1, <2>1 DEF CostInv
  <2>4. SnapshotInv'
    BY <1>1, <1>2, <2>1 DEF SnapshotInv
  <2> QED BY <2>2, <2>3, <2>4 DEF CollectedInv, BookedInv
<1>6. CASE collectStatefulSetPods
  <2>1. PICK a \in Answers("ok") :
          /\ listed' = (a = "ok") /\ pc' = (IF a = "ok" THEN "backends" ELSE "service")
          /\ degradations' = degradations \cup degrade("pods", a)
    BY <1>6 DEF collectStatefulSetPods
  <2>2. /\ pc = "pods" /\ calls' = calls + 1
        /\ UNCHANGED <<ownEvents, podEvents, status, service, claims, at>>
    BY <1>6 DEF collectStatefulSetPods
  <2>3. degradations' = {} => degradations = {} /\ listed' /\ pc' = "backends"
    BY <2>1, Booked
  <2>4. CostInv'
    BY <1>1, <2>1, <2>2 DEF CostInv
  <2>5. SnapshotInv'
    BY <1>1, <1>2, <2>1, <2>2 DEF SnapshotInv
  <2> QED BY <1>1, <2>2, <2>3, <2>4, <2>5 DEF CollectedInv, BookedInv
<1>7. CASE ReadBackends
  <2>1. /\ pc = "backends" /\ pc' = "service"
        /\ calls' = calls + Cardinality(needEvents(backends))
        /\ UNCHANGED <<ownEvents, listed, backends, status, service, claims, at>>
        /\ degradations \subseteq degradations'
    BY <1>7 DEF ReadBackends, backendSnapshots
  <2>2. degradations' = {} => degradations = {} /\ needEvents(backends)' \subseteq podEvents'
    BY <1>1, <1>3, <1>7, <2>1, BackendsRead DEF ReadBackends, SnapshotInv
  <2>3. CostInv'
    <3>1. IsList(backends)
      BY <1>1, ListOf DEF ListedInv
    <3>2. /\ Cardinality(needEvents(backends)) \in Nat
          /\ Cardinality(needEvents(backends)) <= MaxBackendEvents
      BY <3>1, FewEvents
    <3> QED BY <1>1, <2>1, <3>2 DEF CostInv
  <2>4. \A i \in podEvents' : ~podIsReady(scenario.pods[i].pod)
    <3>1. podEvents' \subseteq needEvents(backends)
      BY <1>1, <1>7, <2>1 DEF ReadBackends, backendSnapshots, SnapshotInv
    <3>2. \A i \in needEvents(backends) : ~podIsReady(scenario.pods[i].pod)
      BY DEF needEvents, UnreadyIn
    <3> QED BY <3>1, <3>2
  <2>5. SnapshotInv'
    BY <1>1, <1>2, <2>1, <2>4 DEF SnapshotInv
  <2> QED BY <1>1, <2>1, <2>2, <2>3, <2>5 DEF CollectedInv, BookedInv
<1>8. CASE collectHeadlessService
  <2>1. /\ pc = "service" /\ pc' = "claims"
        /\ UNCHANGED <<ownEvents, listed, backends, podEvents, status, claims, at>>
    BY <1>8 DEF collectHeadlessService
  <2>2. needEvents(backends)' = needEvents(backends)
    BY <1>3, <2>1
  <2>3. CASE scenario.service = "none"
    <3>1. UNCHANGED <<calls, service, degradations>>
      BY <1>8, <2>3 DEF collectHeadlessService
    <3>2. CostInv'
      BY <1>1, <2>1, <3>1 DEF CostInv
    <3>3. SnapshotInv'
      BY <1>1, <1>2, <2>1, <3>1 DEF SnapshotInv
    <3> QED BY <1>1, <1>2, <2>1, <2>2, <2>3, <3>1, <3>2, <3>3 DEF CollectedInv, BookedInv
  <2>4. CASE scenario.service # "none"
    <3>1. PICK a \in Lookup(O("service")) :
            /\ service' = [exists |-> existence(a),
                           headless |-> a = "ok" /\ scenario.service = "headless"]
            /\ degradations' = degradations \cup existenceDegradation("services", a)
      BY <1>8, <2>4 DEF collectHeadlessService
    <3>2. calls' = calls + 1
      BY <1>8, <2>4 DEF collectHeadlessService
    <3>3. /\ service'.exists = existence(a)
          /\ service'.headless <=> a = "ok" /\ scenario.service = "headless"
      BY <3>1
    <3>4. O("service") \in Objects /\ Objects \ present \subseteq everAbsent
      BY <1>1 DEF Objects, SnapshotInv
    <3>5. /\ service'.exists \in {"found", "missing", "unknown"}
          /\ service'.exists = "missing" => O("service") \in everAbsent
          /\ service'.exists = "found" => a = "ok"
          /\ existenceDegradation("services", a) = {} => service'.exists # "unknown"
      BY <3>3, <3>4, NotFoundMeansAbsent
    <3>6. service'.exists = "found" /\ ~service'.headless => scenario.service = "clusterIP"
      BY <1>1, <2>4, <3>3, <3>5, StatefulSetAssumption DEF ListedInv
    <3>7. CostInv'
      BY <1>1, <2>1, <3>2 DEF CostInv
    <3>8. SnapshotInv'
      BY <1>1, <1>2, <2>1, <3>5, <3>6 DEF SnapshotInv
    <3>9. degradations' = {} => degradations = {} /\ service'.exists \in {"found", "missing"}
      BY <3>1, <3>5
    <3> QED BY <1>1, <1>2, <2>1, <2>2, <3>7, <3>8, <3>9 DEF CollectedInv, BookedInv
  <2> QED BY <2>3, <2>4
<1>9. CASE ReadClaim
  <2> DEFINE c == ClaimAt(at)
  <2>1. PICK a \in Lookup(Claim(c[1], c[2])) : \E read :
          /\ read.exists = existence(a)
          /\ claims' = [d \in DOMAIN claims \cup {c} |-> IF d = c THEN read ELSE claims[d]]
          /\ degradations' = degradations \cup existenceDegradation("persistentvolumeclaims", a)
    <3>1. PICK a \in Lookup(Claim(c[1], c[2])) :
            LET read == [exists |-> existence(a), waits |-> FALSE,
                         phase |-> IF a = "ok" THEN scenario.phases[c] ELSE "none"]
            IN  /\ claims' = [d \in DOMAIN claims \cup {c} |->
                                IF d = c THEN read ELSE claims[d]]
                /\ degradations'
                     = degradations \cup existenceDegradation("persistentvolumeclaims", a)
      BY <1>9 DEF ReadClaim
    <3> QED BY <3>1
  <2>2. PICK read :
          /\ read.exists = existence(a)
          /\ claims' = [d \in DOMAIN claims \cup {c} |-> IF d = c THEN read ELSE claims[d]]
          /\ degradations' = degradations \cup existenceDegradation("persistentvolumeclaims", a)
    BY <2>1
  <2>3. /\ pc = "claims" /\ pc' \in {"claims", "class"} /\ calls' = calls + 1
        /\ at' = (IF pc' = "class" THEN at ELSE at + 1) /\ at <= ClaimsToRead
        /\ UNCHANGED <<ownEvents, listed, backends, podEvents, status, service>>
    BY <1>9 DEF ReadClaim
  <2>4. Claim(c[1], c[2]) \in Objects /\ Objects \ present \subseteq everAbsent
    <3>1. at \in 1..ClaimsToRead
      BY <1>1, <2>3, SetAsks
    <3>2. c \in (1..MaxTemplates) \X Ordinals
      BY <1>1, <3>1, LoopOverClaims
    <3> HIDE DEF c
    <3> QED BY <1>1, <3>2 DEF Objects, SnapshotInv
  <2>5. /\ read.exists \in {"found", "missing", "unknown"}
        /\ read.exists = "missing" => Claim(c[1], c[2]) \in everAbsent
        /\ existenceDegradation("persistentvolumeclaims", a) = {} => read.exists # "unknown"
    BY <2>2, <2>4, NotFoundMeansAbsent
  <2>6. /\ DOMAIN claims' = DOMAIN claims \cup {c} /\ claims'[c] = read
        /\ \A d \in DOMAIN claims : d # c => claims'[d] = claims[d]
    BY <2>2
  <2> HIDE DEF c
  <2>7. SnapshotInv'
    <3>1. \A d \in DOMAIN claims' : claims'[d].exists = "missing" => Claim(d[1], d[2]) \in everAbsent
      BY <1>1, <2>5, <2>6 DEF SnapshotInv
    <3> QED BY <1>1, <1>2, <2>3, <3>1 DEF SnapshotInv
  <2>8. BookedInv'
    <3>1. degradations' = {} => degradations = {} /\ read.exists \in {"found", "missing"}
      BY <2>2, <2>5
    <3>2. needEvents(backends)' = needEvents(backends)
      BY <1>3, <2>3
    <3>3. ASSUME degradations' = {}, NEW d \in DOMAIN claims'
          PROVE  claims'[d].exists \in {"found", "missing"}
      BY <1>1, <2>3, <2>6, <3>1, <3>3 DEF BookedInv
    <3> QED BY <1>1, <1>2, <2>3, <3>1, <3>2, <3>3 DEF BookedInv
  <2>9. CostInv'
    BY <1>1, <2>3 DEF CostInv
  <2> QED BY <2>7, <2>8, <2>9 DEF CollectedInv
<1>10. CASE storageClassInfo
  <2>1. /\ pc = "class" /\ pc' = "claims" /\ calls' = calls + 1 /\ at' = at + 1
        /\ UNCHANGED <<ownEvents, listed, backends, podEvents, status, service>>
        /\ degradations \subseteq degradations'
    BY <1>10 DEF storageClassInfo
  <2>2. DOMAIN claims' = DOMAIN claims
        /\ \A c \in DOMAIN claims : claims'[c].exists = claims[c].exists
    <3>1. PICK w : claims' = [claims EXCEPT ![ClaimAt(at)].waits = w]
      BY <1>10 DEF storageClassInfo
    <3> QED BY <3>1
  <2>3. needEvents(backends)' = needEvents(backends)
    BY <1>3, <2>1
  <2>4. SnapshotInv'
    BY <1>1, <1>2, <2>1, <2>2 DEF SnapshotInv
  <2>5. BookedInv'
    BY <1>1, <1>2, <2>1, <2>2, <2>3 DEF BookedInv
  <2>6. CostInv'
    BY <1>1, <2>1 DEF CostInv
  <2> QED BY <2>4, <2>5, <2>6 DEF CollectedInv
<1>11. CASE ClaimsRead
  <2>1. /\ pc = "claims" /\ pc' = "rules"
        /\ UNCHANGED <<calls, ownEvents, listed, backends, podEvents, status, service, claims,
                       at, degradations>>
    BY <1>11 DEF ClaimsRead
  <2>2. needEvents(backends)' = needEvents(backends)
    BY <1>3, <2>1
  <2>3. SnapshotInv'
    BY <1>1, <1>2, <2>1 DEF SnapshotInv
  <2>4. BookedInv' /\ CostInv'
    BY <1>1, <1>2, <2>1, <2>2 DEF BookedInv, CostInv
  <2> QED BY <2>3, <2>4 DEF CollectedInv
<1> QED BY <1>4, <1>5, <1>6, <1>7, <1>8, <1>9, <1>10, <1>11, <1>12

\* Every step keeps what the reads have left.
LEMMA CollectedStep ==
  StatefulSetInv /\ StatefulSetInv' /\ CollectedInv /\ [Next]_vars => CollectedInv'
<1> SUFFICES ASSUME StatefulSetInv, StatefulSetInv', CollectedInv, [Next]_vars
             PROVE  CollectedInv'
  OBVIOUS
<1>1. CASE \/ GetStatefulSet \/ OwnEvents \/ invalidSelector \/ collectStatefulSetPods
         \/ ReadBackends
           \/ collectHeadlessService \/ ReadClaim \/ storageClassInfo \/ ClaimsRead
  BY <1>1, CollectorsBook
<1>2. CASE Evaluation \/ ((Expire \/ Drift) /\ UNCHANGED own) \/ UNCHANGED vars
  <2>1. PICK rules, explained, weighed :
          rules = Rules /\ explained = podsBlockedByTheirClaim /\ weighed = AsFound
    OBVIOUS
  <2>2. EvaluationStep(rules, explained, weighed, Symptoms) /\ UNCHANGED <<service, claims, at>>
    BY <1>2, <2>1
    DEF Evaluation, EvaluationStep, ReplicaFindings, StatefulSetReport, vars, own
  <2>3. /\ UNCHANGED <<scenario, calls, ownEvents, listed, backends, podEvents, degradations>>
        /\ \/ pc' = pc
           \/ /\ pc \in {"rules", "aggregate", "report", "render"}
              /\ pc' \in {"aggregate", "report", "render", "done"}
        /\ everAbsent \subseteq everAbsent'
        /\ pc = "report" \/ UNCHANGED <<report, status>>
        /\ Objects \ present \subseteq everAbsent => Objects \ present' \subseteq everAbsent'
    BY <2>2, EvaluationLeaves
  <2>4. needEvents(backends)' = needEvents(backends)
    BY <2>3 DEF needEvents, UnreadyIn
  <2>5. SnapshotInv'
    BY <2>2, <2>3 DEF CollectedInv, SnapshotInv
  <2>6. BookedInv'
    <3>1. pc' # "done" \/ Reported' => pc # "done" \/ Reported
      BY <2>3 DEF Reported
    <3> QED BY <2>2, <2>3, <2>4, <3>1 DEF CollectedInv, BookedInv
  <2>7. CostInv'
    BY <2>2, <2>3 DEF CollectedInv, CostInv
  <2> QED BY <2>5, <2>6, <2>7 DEF CollectedInv
<1> QED BY <1>1, <1>2 DEF Next, Step, Terminated

-----------------------------------------------------------------------------
(* A set that works is no issue *)

\* The rules find nothing grave about a Pod that is ready and never failed, when its
\* events were not asked for.
LEMMA NothingGrave ==
  ASSUME scenario \in Scenarios, NEW i \in DOMAIN scenario.pods, i \notin podEvents,
         podIsReady(scenario.pods[i].pod),
         \A n \in ContainerNames : scenario.pods[i].pod.containers[n].last = "none",
         NEW f, Made(f, snapOf(i))
  PROVE  f.severity = "info"
<1> DEFINE s == snapOf(i)
           p == scenario.pods[i].pod
<1>1. s \in Snapshot /\ Symptom(f, s)
  BY SnapTyped, RulesHaveSymptoms
<1>2. /\ p.bound /\ ~p.evicted
      /\ \A n \in ContainerNames : p.containers[n].state \in {"running", "Completed"}
  BY KubeletAssumption
<1>3. /\ s.pod = p /\ s.events = {} /\ s.node = "nil"
      /\ missingNames(s.configMaps) = {} /\ missingNames(s.secrets) = {}
      /\ \A n \in ClaimNames : s.pvcs[n].exists = "unread"
  BY DEF snapOf, EventsOf, missingNames
<1>4. \A n \in ContainerNames : p.containers[n].last = "none"
  OBVIOUS
<1> HIDE DEF s, p
<1>5. WithReason(s.events, {"Unhealthy"}) = {}
      /\ WithReason(s.events, {"FailedMount", "FailedAttachVolume"}) = {}
  BY <1>3 DEF WithReason
<1>6. ASSUME f.id \in ContainerIDs, f.about \in ContainerNames,
             ContainerSymptom(f.id, p, p.containers[f.about])
      PROVE  f.id = "POD_RESTARTED"
  BY <1>2, <1>4, <1>6
  DEF ContainerSymptom, ContainerIDs, oomTermination, CrashLooping, isFlapping, EndedInError,
      ImageWaitReasons, ConfigErrors
<1> QED BY <1>1, <1>2, <1>3, <1>5, <1>6 DEF Symptom

\* When no ordinal is missing there are as many Pods as the set asks for.
LEMMA NoneMissing ==
  ASSUME ListedInv, MissingOrdinals = {}
  PROVE  DesiredReplicas <= Len(backends)
<1> DEFINE d == DesiredReplicas
           len == Len(backends)
           T == {Ordinal(backends[k]) : k \in 1..len}
           f == [k \in 1..len |-> Ordinal(backends[k])]
<1>1. d \in Nat /\ len \in Nat /\ DOMAIN backends = 1..len
  BY SetAsks DEF ListedInv
<1>2. 0..(d - 1) \subseteq T
  BY <1>1 DEF MissingOrdinals, ToSet
<1>3. f \in Surjection(1..len, T)
  BY DEF Surjection
<1>4. ASSUME NEW m \in Nat PROVE IsFiniteSet(1..m) /\ Cardinality(1..m) = m
  <2>1. IsFiniteSet(1..m) /\ Cardinality(1..m) = IF 1 > m THEN 0 ELSE m - 1 + 1
    BY FS_Interval
  <2> QED BY <2>1
<1>5. ASSUME NEW m \in Nat PROVE Cardinality(0..(m - 1)) = m
  <2>1. Cardinality(0..(m - 1)) = IF 0 > m - 1 THEN 0 ELSE (m - 1) - 0 + 1
    BY FS_Interval
  <2> QED BY <2>1
<1> HIDE DEF d, len, T, f
<1>6. IsFiniteSet(T) /\ Cardinality(T) <= len /\ Cardinality(T) \in Nat
  BY <1>1, <1>3, <1>4, FS_Surjection, FS_CardinalityType
<1>7. Cardinality(0..(d - 1)) <= Cardinality(T)
  BY <1>2, <1>6, FS_Subset
<1> QED BY <1>1, <1>5, <1>6, <1>7 DEF d, len

\* Then no claim is read.
LEMMA NoClaimsRead ==
  ASSUME ListedInv, ClaimsInv, MissingOrdinals = {}, UnreadyIn(backends) = {}
  PROVE  DOMAIN claims = {}
<1>1. allPodsReady
  <2>1. DesiredReplicas \in Nat /\ Len(backends) \in Nat
    BY SetAsks DEF ListedInv
  <2> QED BY <2>1, NoneMissing DEF allPodsReady
<1> QED BY <1>1, ClaimsTyped, LoopOverClaims

\* A set whose replicas are all ready and never failed, with the Service it wants, is no
\* issue, whatever holds its rollout (docs/rules/STATEFULSET_UPDATE_ON_DELETE.md).
THEOREM HeldIsWorking == Spec => []HeldIsNotStuck
<1>1. ASSUME StatefulSetInv, CollectedInv PROVE HeldIsNotStuck
  <2> SUFFICES ASSUME Reported, scenario.ready >= DesiredReplicas, UnreadyIn(backends) = {},
                      MissingOrdinals = {}, O("service") \notin everAbsent,
                      scenario.service # "clusterIP",
                      \A i \in ToSet(backends) : \A n \in ContainerNames :
                        scenario.pods[i].pod.containers[n].last = "none"
               PROVE  ~IssueFound
    BY DEF HeldIsNotStuck
  <2>1. /\ ListedInv /\ ClaimsInv /\ PodsInv(podsBlockedByTheirClaim) /\ SnapshotInv
        /\ Joined(Symptoms, AsFound)
    BY <1>1, StatefulSetJoined DEF CollectedInv
  <2>2. ASSUME NEW e \in ToSet(findings) PROVE e.severity \notin {"critical", "warning"}
    <3>1. DOMAIN claims = {} /\ SetSymptom(e)
      BY <1>1, <2>1, NoClaimsRead, FindingsHaveSymptoms
    <3>2. ~(scenario.ready < DesiredReplicas)
      BY <2>1, SetAsks
    <3>3. service.exists # "missing" /\ ~(service.exists = "found" /\ ~service.headless)
      BY <2>1 DEF SnapshotInv
    <3> QED BY <3>1, <3>2, <3>3 DEF SetSymptom
  <2>3. ASSUME NEW e \in ToSet(all) PROVE e.severity = "info"
    <3>1. e.subject \in ToSet(backends) /\ e.subject \in DOMAIN scenario.pods
      <4>1. e.subject \in ToSet(backends)
        BY <2>1 DEF Joined, Rows, Row
      <4> QED BY <2>1, <4>1 DEF ListedInv, ToSet
    <3>2. podIsReady(scenario.pods[e.subject].pod)
      BY <3>1 DEF UnreadyIn, ToSet
    <3>3. e.subject \notin podEvents
      BY <2>1, <3>2 DEF SnapshotInv
    <3>4. ByRule(e)
      BY <2>1, <3>2 DEF PodsInv, ByFallback, Fine
    <3>5. PICK f : Made(f, snapOf(e.subject)) /\ e.severity = f.severity
      BY <3>4 DEF ByRule
    <3> QED BY <2>1, <3>1, <3>2, <3>3, <3>5, NothingGrave DEF ListedInv
  <2>4. ASSUME NEW d \in ToSet(report) PROVE d.severity \notin {"critical", "warning"}
    <3>1. CASE d \in ToSet(podReport)
      <4>1. PICK e \in ToSet(all) : d.severity = AsFound[e.severity]
        BY <2>1, <3>1, WeighedRows DEF Joined
      <4> QED BY <2>3, <4>1 DEF AsFound, Severities
    <3>2. CASE d \in ToSet(Explained(Symptoms))
      <4>1. PICK e \in ToSet(findings) : d.severity = e.severity
        BY <2>1, <3>2, ExplainedFacts DEF Joined, Tells
      <4> QED BY <2>2, <4>1
    <3> QED BY <2>1, <3>1, <3>2, ReportFacts
  <2> QED BY <2>1, <2>4, StatusFacts
<1> QED BY <1>1, StatefulSetBegins, StatefulSetStep, CollectedBegins, CollectedStep, PTL DEF Spec

-----------------------------------------------------------------------------
(* The contract *)

\* Two requests at most for each claim that matters are within the budget.
LEMMA NotOverspent ==
  ASSUME ListedInv, ClaimsInv, CostInv
  PROVE  ~Overspent
<1> DEFINE budget == 2 * DesiredReplicas * scenario.templates
           many == DesiredReplicas * scenario.templates
<1>1. /\ DesiredReplicas \in Nat /\ scenario.templates \in Nat /\ many \in Nat
      /\ ClaimsToRead \in Nat /\ MaxBackendEvents \in Nat
  BY SetAsks, BackendsAssumption
<1>2. budget = 2 * many /\ budget \in Nat
  <2>1. ASSUME NEW d \in Nat, NEW t \in Nat PROVE 2 * d * t = 2 * (d * t) /\ 2 * d * t \in Nat
    OBVIOUS
  <2> QED BY <1>1, <2>1
<1>3. ClaimsToRead = IF allPodsReady THEN 0 ELSE many
  BY DEF ClaimsToRead
<1>4. Overspent = (calls > 4 + MaxBackendEvents + (IF listed /\ allPodsReady THEN 0 ELSE budget))
  BY DEF Overspent
<1> HIDE DEF budget, many
<1>5. calls \in Nat /\ calls <= 4 + MaxBackendEvents + 2 * ClaimsToRead
  <2>1. CASE pc = "class"
    BY <1>1, <2>1 DEF ClaimsInv, CostInv
  <2>2. CASE pc # "class"
    BY <1>1, <2>2 DEF ClaimsInv, CostInv
  <2> QED BY <2>1, <2>2
<1>6. 2 * ClaimsToRead <= IF listed /\ allPodsReady THEN 0 ELSE budget
  BY <1>1, <1>2, <1>3
<1> DEFINE limit == IF listed /\ allPodsReady THEN 0 ELSE budget
<1>7. limit \in Nat /\ 2 * ClaimsToRead <= limit
  BY <1>2, <1>6
<1> HIDE DEF limit
<1>8. ~(calls > 4 + MaxBackendEvents + limit)
  BY <1>1, <1>5, <1>7
<1> QED BY <1>4, <1>8 DEF limit

\* The verdict of a report that stands.
JudgedInv ==
  Reported =>
    /\ status \in {"healthy", "degraded", "unhealthy", "unknown"}
    /\ status = "healthy" => ~Incomplete
    /\ status = "unknown" => Incomplete
    /\ Missing \subseteq everAbsent
    /\ Missing # {} => status \in {"degraded", "unhealthy"}

\* It follows from the reads and the rules.
LEMMA Judged == StatefulSetInv /\ CollectedInv => JudgedInv
<1> SUFFICES ASSUME StatefulSetInv, CollectedInv, Reported PROVE JudgedInv
  BY DEF JudgedInv
<1>1. Joined(Symptoms, AsFound) /\ pc \in {"render", "done"} /\ ListedInv /\ ClaimsInv
  BY StatefulSetJoined DEF StatefulSetInv, EvaluationInv, ReportInv
<1>2. degradations = {} => ~Incomplete
  <2>1. WantedClaims \subseteq DOMAIN claims
    BY <1>1, ClaimsTyped DEF ClaimsInv
  <2> QED BY <1>1, <2>1 DEF CollectedInv, BookedInv, Incomplete, Looked
<1>3. degradations # {} => Incomplete
  BY DEF Incomplete
<1>4. ASSUME NEW d \in ToSet(report),
             d.id \in {"STATEFULSET_CLAIM_NOT_FOUND", "STATEFULSET_SERVICE_NOT_FOUND"}
      PROVE  /\ IssueFound
             /\ d.id = "STATEFULSET_CLAIM_NOT_FOUND" => Claim(d.about[1], d.about[2]) \in everAbsent
             /\ d.id = "STATEFULSET_SERVICE_NOT_FOUND" => O("service") \in everAbsent
  <2>1. d \notin ToSet(podReport)
    BY <1>1, <1>4, ReportFacts DEF MergedRow, PodIDs
  <2>2. PICK e \in ToSet(findings) :
          d.id = e.id /\ d.about = e.about /\ d.severity = e.severity
    BY <1>1, <2>1, ReportFacts, ExplainedFacts DEF Joined, Tells
  <2>3. SetSymptom(e)
    BY FindingsHaveSymptoms
  <2>4. /\ d.severity \in {"critical", "warning"}
        /\ d.id = "STATEFULSET_CLAIM_NOT_FOUND" =>
             d.about \in DOMAIN claims /\ claims[d.about].exists = "missing"
        /\ d.id = "STATEFULSET_SERVICE_NOT_FOUND" => service.exists = "missing"
    BY <1>4, <2>2, <2>3 DEF SetSymptom
  <2>5. IssueFound
    BY <1>1, <2>4, StatusFacts
  <2> QED BY <2>4, <2>5 DEF CollectedInv, SnapshotInv
<1>5. Missing \subseteq everAbsent /\ (Missing # {} => IssueFound)
  <2>1. \A k \in DOMAIN report : report[k] \in ToSet(report)
    BY DEF ToSet
  <2>2. ASSUME NEW o \in Missing PROVE o \in everAbsent /\ IssueFound
    <3>1. CASE o = O("service") /\ Told("STATEFULSET_SERVICE_NOT_FOUND")
      BY <1>4, <2>1, <3>1 DEF Told
    <3>2. CASE \E k \in DOMAIN report : /\ report[k].id = "STATEFULSET_CLAIM_NOT_FOUND"
                                        /\ o = Claim(report[k].about[1], report[k].about[2])
      BY <1>4, <2>1, <3>2
    <3> QED BY <3>1, <3>2 DEF Missing
  <2> QED BY <2>2
<1> QED BY <1>1, <1>2, <1>3, <1>5, StatusFacts DEF JudgedInv, IssueFound, Statuses

\* Every step of the analysis is a step of Analysis, or none.
LEMMA ContractStep ==
  ASSUME StatefulSetInv, StatefulSetInv', CollectedInv, CollectedInv', JudgedInv',
         ~Overspent, ~Overspent', [Next]_vars
  PROVE  [Contract!Next]_Contract!vars
<1> USE DEF world, listing, verdict, podRules, own, Contract!vars
<1>1. Overspent = FALSE /\ Overspent' = FALSE
  BY DEF Overspent
<1>2. /\ Reported => pc \in {"render", "done"}
      /\ Reported' => pc' \in {"render", "done"}
      /\ ~Reported => report = <<>> /\ pc # "render"
      /\ ~Reported' => report' = <<>> /\ pc' # "render"
  BY DEF StatefulSetInv, EvaluationInv, ReportInv
<1>3. (report = <<>> => Missing = {}) /\ (report' = <<>> => Missing' = {})
  BY DEF Missing, Told
\* Before the report stands it says nothing.
<1>4. ASSUME pc \notin {"render", "done"}, pc' \notin {"render", "done"},
             UNCHANGED <<everAbsent, status, exit>>
      PROVE  UNCHANGED Contract!vars
  <2>1. ~Reported /\ ~Reported'
    BY <1>2, <1>4
  <2>2. /\ Stage = "open" /\ Stage' = "open" /\ Incomplete = FALSE /\ Incomplete' = FALSE
        /\ Missing = {} /\ Missing' = {}
    BY <1>2, <1>3, <1>4, <2>1 DEF Stage, Incomplete
  <2> QED BY <1>1, <1>4, <2>2
\* Once it stands it does not change, whatever happens to the cluster.
<1>5. ASSUME UNCHANGED <<scenario, ownEvents, listing, degradations, report, status, own>>
      PROVE  Incomplete' = Incomplete /\ Missing' = Missing
  <2>1. needEvents(backends)' = needEvents(backends)
    BY <1>5 DEF needEvents, UnreadyIn
  <2>2. WantedClaims' = WantedClaims
    BY <1>5 DEF WantedClaims, allPodsReady, DesiredReplicas, UnreadyIn
  <2>3. Looked' = Looked
    BY <1>5, <2>1, <2>2 DEF Looked
  <2>4. Missing' = Missing
    BY <1>5 DEF Missing, Told
  <2> QED BY <1>5, <2>3, <2>4 DEF Incomplete, Reported
<1>6. CASE GetStatefulSet
  <2>1. PICK a \in Lookup(O("statefulset")) :
          IF a = "ok" THEN pc' = "events" /\ UNCHANGED exit
                      ELSE pc' = "done" /\ exit' = reportError(a)
    BY <1>6 DEF GetStatefulSet, Get
  <2>2. pc = "get" /\ UNCHANGED <<scenario, present, everAbsent, status, report>>
    BY <1>6 DEF GetStatefulSet, Get
  <2>3. CASE a = "ok"
    BY <1>4, <2>1, <2>2, <2>3
  <2>4. CASE a # "ok"
    <3>1. exit' \in {2, 3, 4} /\ (exit' = 3 => a = "NotFound")
      BY <2>1, <2>4 DEF reportError
    <3>2. exit' = 3 => O("statefulset") \in everAbsent
      <4>1. a = "NotFound" => O("statefulset") \in everAbsent
        BY BackendsAssumption DEF Lookup, Answers, CollectedInv, SnapshotInv, Objects
      <4> QED BY <3>1, <4>1
    <3>3. ~Reported /\ ~Reported'
      BY <1>2, <2>2 DEF Reported
    <3>4. /\ Stage = "open" /\ Stage' = "done" /\ Incomplete = FALSE /\ Incomplete' = FALSE
          /\ Missing = {} /\ Missing' = {}
      BY <1>2, <1>3, <2>1, <2>2, <2>4, <3>3 DEF Stage, Incomplete
    <3> QED BY <1>1, <2>2, <3>1, <3>2, <3>4 DEF Contract!Next, Contract!Refuse
  <2> QED BY <2>3, <2>4
<1>7. CASE \/ OwnEvents \/ invalidSelector \/ collectStatefulSetPods \/ ReadBackends
           \/ collectHeadlessService
           \/ ReadClaim \/ storageClassInfo \/ ClaimsRead
  <2>1. /\ pc \notin {"render", "done"} /\ pc' \notin {"render", "done"}
        /\ UNCHANGED <<everAbsent, status, exit>>
    BY <1>7
    DEF OwnEvents, eventsFor, invalidSelector, collectStatefulSetPods, ReadBackends,
        backendSnapshots,
        collectHeadlessService, ReadClaim, storageClassInfo, ClaimsRead
  <2> QED BY <1>4, <2>1
<1>8. CASE \/ RunRule(Rules) \/ RulesDone(Rules) \/ RunPodRule
           \/ NextPod(podsBlockedByTheirClaim) \/ ReplicaFindings
  BY <1>4, <1>8 DEF RunRule, RulesDone, RunPodRule, NextPod, ReplicaFindings, PodFindings
<1>9. CASE StatefulSetReport
  <2>1. pc = "report" /\ pc' = "render" /\ UNCHANGED <<everAbsent, exit>>
    BY <1>9 DEF StatefulSetReport, Report
  <2>2. Reported' /\ Stage = "open" /\ Stage' = "judged" /\ Incomplete' \in BOOLEAN
    BY <1>2, <2>1 DEF Stage, Incomplete, Reported
  <2> QED BY <1>1, <2>1, <2>2 DEF JudgedInv, Contract!Next, Contract!Judge
<1>10. CASE Render /\ UNCHANGED own
  <2>1. /\ UNCHANGED <<scenario, everAbsent, ownEvents, listing, degradations, report, status,
                       own>>
        /\ pc = "render" /\ pc' = "done"
    BY <1>10 DEF Render
  <2>2. Incomplete' = Incomplete /\ Missing' = Missing /\ status' = status
    BY <1>5, <2>1
  <2>3. Stage = "judged" /\ Stage' = "done"
    BY <2>1 DEF Stage
  <2>4. exit' \in {2, IF status \in {"degraded", "unhealthy"} THEN 1 ELSE 0}
    BY <1>10 DEF Render, IssueFound
  <2> QED BY <1>1, <2>1, <2>2, <2>3, <2>4 DEF Contract!Next, Contract!Exit
<1>11. CASE Drift /\ UNCHANGED own
  <2>1. /\ UNCHANGED <<scenario, pc, ownEvents, listing, degradations, report, status, exit, own>>
        /\ everAbsent \subseteq everAbsent' /\ pc # "done"
    BY <1>11 DEF Drift
  <2>2. Incomplete' = Incomplete /\ Missing' = Missing
    BY <1>5, <2>1
  <2>3. Stage' = Stage /\ Stage # "done"
    BY <2>1 DEF Stage
  <2> QED BY <1>1, <2>1, <2>2, <2>3 DEF Contract!Next, Contract!Vanish
<1>12. CASE (Expire /\ UNCHANGED own) \/ UNCHANGED vars
  <2>1. UNCHANGED <<scenario, everAbsent, pc, ownEvents, listing, degradations, report, status,
                    exit, own>>
    BY <1>12 DEF Expire, vars, runVars
  <2>2. Incomplete' = Incomplete /\ Missing' = Missing /\ Stage' = Stage
    BY <1>5, <2>1 DEF Stage
  <2> QED BY <1>1, <2>1, <2>2
<1> QED BY <1>6, <1>7, <1>8, <1>9, <1>10, <1>11, <1>12 DEF Next, Step, Evaluation, Terminated

\* For any StatefulSet, any number of replicas and claim templates and any failures, an
\* analysis keeps the safety part of the contract all analyses share: it judges once,
\* calls a claim or the Service missing only when it was, is healthy only when it looked
\* at everything and unknown only when it did not, exits as its verdict says, and spends
\* nothing on claims when the replicas are ready and two requests at most on each
\* otherwise.
THEOREM ContractSafe == Spec => Contract!Safety
<1>1. Init => Contract!Init
  <2> SUFFICES ASSUME Init PROVE Contract!Init
    OBVIOUS
  <2>1. ~Reported /\ Stage = "open" /\ report = <<>>
    BY DEF Init, InitRun, Reported, Stage
  <2>2. Incomplete = FALSE /\ Missing = {}
    BY <2>1 DEF Incomplete, Missing, Told
  <2>3. Overspent = FALSE
    BY StatefulSetBegins, CollectedBegins, NotOverspent
    DEF CollectedInv, StatefulSetInv, Overspent
  <2> QED BY <2>1, <2>2, <2>3 DEF Init, InitRun, Contract!Init
<1>2. StatefulSetInv /\ CollectedInv => ~Overspent
  BY NotOverspent DEF CollectedInv, StatefulSetInv
<1>3. /\ StatefulSetInv /\ StatefulSetInv' /\ CollectedInv /\ CollectedInv' /\ JudgedInv'
      /\ ~Overspent /\ ~Overspent' /\ [Next]_vars
      => [Contract!Next]_Contract!vars
  BY ContractStep
<1> QED BY <1>1, <1>2, <1>3, StatefulSetBegins, StatefulSetStep, CollectedBegins, CollectedStep,
           Judged, PTL DEF Spec, Contract!Safety

=============================================================================
