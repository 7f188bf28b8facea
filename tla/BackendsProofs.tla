--------------------------- MODULE BackendsProofs ---------------------------
(***************************************************************************)
(* What the analyses of Backends share, for any number of Pods with any    *)
(* troubles: which findings the loop over the Pods collects, and how they  *)
(* and the findings of the kind make up the report.  The analyses cite     *)
(* these facts for their own specifications.                               *)
(***************************************************************************)
EXTENDS Backends, FindingsProofs

-----------------------------------------------------------------------------
(* Lists and the sets of their elements *)

IsList(s) == s \in Seq(ToSet(s))

\* A sequence of anything is a list.
LEMMA ListOf ==
  ASSUME NEW S, NEW s \in Seq(S)
  PROVE  IsList(s) /\ ToSet(s) \subseteq S
<1>1. ToSet(s) \subseteq S
  BY DEF ToSet
<1>2. s \in [1..Len(s) -> ToSet(s)] /\ Len(s) \in Nat
  BY DEF ToSet
<1> QED BY <1>1, <1>2 DEF IsList

\* Two lists put together hold the elements of both.
LEMMA ListConcat ==
  ASSUME NEW s, NEW t, IsList(s), IsList(t)
  PROVE  IsList(s \o t) /\ ToSet(s \o t) = ToSet(s) \cup ToSet(t)
<1> DEFINE S == ToSet(s) \cup ToSet(t)
<1>1. s \in Seq(S) /\ t \in Seq(S)
  BY DEF IsList
<1>2. s \o t \in Seq(S)
  BY <1>1
<1>3. IsList(s \o t) /\ ToSet(s \o t) \subseteq S
  BY <1>2, ListOf
<1> HIDE DEF S
<1>4. ASSUME NEW d \in ToSet(s) PROVE d \in ToSet(s \o t)
  <2>1. PICK i \in DOMAIN s : d = s[i]
    BY <1>4 DEF ToSet
  <2>2. i \in DOMAIN (s \o t) /\ (s \o t)[i] = d
    BY <1>1, <2>1
  <2> QED BY <2>2 DEF ToSet
<1>5. ASSUME NEW d \in ToSet(t) PROVE d \in ToSet(s \o t)
  <2>1. PICK i \in DOMAIN t : d = t[i]
    BY <1>5 DEF ToSet
  <2>2. Len(s) + i \in DOMAIN (s \o t) /\ (s \o t)[Len(s) + i] = d
    BY <1>1, <2>1
  <2> QED BY <2>2 DEF ToSet
<1> QED BY <1>3, <1>4, <1>5 DEF S

\* The empty list.
LEMMA ListEmpty ==
  /\ IsList(<<>>) /\ ToSet(<<>>) = {}
  /\ \A s : IsList(s) /\ ToSet(s) = {} => s = <<>>
<1>1. ToSet(<<>>) = {}
  BY DEF ToSet
<1>2. ASSUME NEW s, IsList(s), ToSet(s) = {} PROVE s = <<>>
  BY <1>2 DEF IsList, ToSet
<1> QED BY <1>1, <1>2 DEF IsList

\* A finite set can be listed.
LEMMA ListOfSet ==
  ASSUME NEW S, IsFiniteSet(S)
  PROVE  IsList(SetToSeq(S)) /\ ToSet(SetToSeq(S)) = S /\ IsInjective(SetToSeq(S))
<1> DEFINE n == Cardinality(S)
           f == SetToSeq(S)
<1>1. n \in Nat /\ IsFiniteSet(1..n) /\ Cardinality(1..n) = n
  <2>1. ASSUME NEW m \in Nat PROVE IsFiniteSet(1..m) /\ Cardinality(1..m) = m
    BY FS_Interval
  <2> QED BY <2>1, FS_CardinalityType
<1>2. \E g \in [1..n -> S] : IsInjective(g)
  <2>1. ExistsBijection(1..n, S)
    BY FS_CardinalityType
  <2> QED BY <2>1 DEF ExistsBijection, Bijection, Injection
<1>3. f \in [1..n -> S] /\ IsInjective(f)
  BY <1>2 DEF SetToSeq
<1> HIDE DEF f
<1>4. f \in Surjection(1..n, S)
  <2>1. f \in Injection(1..n, S)
    BY <1>3 DEF Injection
  <2> HIDE DEF n
  <2> QED BY <1>1, <2>1, FS_Injection DEF n
<1>5. f \in Seq(S)
  BY <1>1, <1>3
<1>6. \A x \in S : \E i \in DOMAIN f : f[i] = x
  BY <1>3, <1>4 DEF Surjection
<1>7. S \subseteq ToSet(f)
  BY <1>6 DEF ToSet
<1>8. IsList(f) /\ ToSet(f) \subseteq S
  BY <1>5, ListOf
<1> QED BY <1>3, <1>7, <1>8 DEF f

\* A finite set can be listed in any order of its elements.
LEMMA ListInOrder ==
  ASSUME NEW S, IsFiniteSet(S), NEW R, OrderOn(S, R)
  PROVE  LET out == InOrder(S, R)
         IN  /\ IsList(out) /\ ToSet(out) = S /\ IsInjective(out)
             /\ \A k, m \in DOMAIN out : k < m => <<out[k], out[m]>> \in R
<1> DEFINE out == InOrder(S, R)
           n == Cardinality(S)
<1>1. n \in Nat
  BY FS_CardinalityType
<1>2. out = [k \in 1..n |-> Nth(S, R, k)]
  BY DEF InOrder, Nth, Before
<1>3. /\ \A k \in 1..n : Nth(S, R, k) \in S
      /\ \A x \in S : \E k \in 1..n : Nth(S, R, k) = x
      /\ \A k, m \in 1..n : k < m => <<Nth(S, R, k), Nth(S, R, m)>> \in R
  BY Numbering
<1> HIDE DEF out, n
<1>4. /\ DOMAIN out = 1..n /\ out \in [1..n -> S]
      /\ \A x \in S : \E k \in DOMAIN out : out[k] = x
      /\ \A k, m \in DOMAIN out : k < m => <<out[k], out[m]>> \in R
  BY <1>2, <1>3
<1>5. IsList(out) /\ ToSet(out) = S
  <2>1. out \in Seq(S)
    BY <1>1, <1>4
  <2>2. S \subseteq ToSet(out)
    BY <1>4 DEF ToSet
  <2> QED BY <2>1, <2>2, ListOf
<1>6. IsInjective(out)
  <2> SUFFICES ASSUME NEW k \in DOMAIN out, NEW m \in DOMAIN out, out[k] = out[m]
               PROVE  k = m
    BY DEF IsInjective
  <2>1. ~(k < m) /\ ~(m < k)
    BY <1>4 DEF OrderOn
  <2> QED BY <1>1, <1>4, <2>1
<1> QED BY <1>4, <1>5, <1>6 DEF out

\* A list of findings that can be ranked, in terms of its elements.
Proper(d) == d.severity \in Severities /\ d.confidence \in Confidences

\* A list can be ranked when each element can.
LEMMA ListRankable ==
  ASSUME NEW s
  PROVE  Rankable(s) <=> \A d \in ToSet(s) : Proper(d)
BY DEF Rankable, Proper, ToSet

\* Sorting changes no elements.
LEMMA ListSorted ==
  ASSUME NEW s, IsList(s), \A d \in ToSet(s) : Proper(d)
  PROVE  /\ IsList(Prioritize(s)) /\ ToSet(Prioritize(s)) = ToSet(s)
         /\ DOMAIN Prioritize(s) = DOMAIN s
<1> DEFINE out == Prioritize(s)
<1>1. s \in Seq(ToSet(s)) /\ Rankable(s)
  BY ListRankable DEF IsList
<1>2. out \in Seq(ToSet(s)) /\ DOMAIN out = DOMAIN s
  BY <1>1, PrioritizeAt
<1>3. \A i \in DOMAIN s : \E k \in DOMAIN s : out[k] = s[i]
  BY <1>1, PrioritizeKeeps
<1>4. IsList(out) /\ ToSet(out) \subseteq ToSet(s)
  BY <1>2, ListOf
<1> HIDE DEF out
<1>5. ToSet(s) \subseteq ToSet(out)
  BY <1>2, <1>3 DEF ToSet
<1> QED BY <1>2, <1>4, <1>5 DEF out

-----------------------------------------------------------------------------
(* The findings about one Pod *)

\* Five values are finitely many.
LEMMA FiveFinite ==
  ASSUME NEW a, NEW b, NEW c, NEW d, NEW e
  PROVE  IsFiniteSet({a, b, c, d, e})
<1>1. IsFiniteSet({a})
  BY FS_Singleton
<1>2. IsFiniteSet({a} \cup {b})
  BY <1>1, FS_AddElement
<1>3. IsFiniteSet(({a} \cup {b}) \cup {c})
  BY <1>2, FS_AddElement
<1>4. IsFiniteSet((({a} \cup {b}) \cup {c}) \cup {d})
  BY <1>3, FS_AddElement
<1>5. IsFiniteSet(((({a} \cup {b}) \cup {c}) \cup {d}) \cup {e})
  BY <1>4, FS_AddElement
<1>6. ((({a} \cup {b}) \cup {c}) \cup {d}) \cup {e} = {a, b, c, d, e}
  OBVIOUS
<1> QED BY <1>5, <1>6

\* There are finitely many findings about a Pod.
LEMMA FindingFinite == IsFiniteSet(Finding)
<1> DEFINE Abouts == {"pod", "node", NoContainer} \cup ContainerNames \cup ConfigMapNames
                       \cup SecretNames \cup ClaimNames
           ByCause == PodIDs \cup {NoCause}
           P == PodIDs \X (Severities \X (Confidences \X (ByCause \X Abouts)))
           f == [x \in P |-> [id |-> x[1], severity |-> x[2][1], confidence |-> x[2][2][1],
                              causedBy |-> x[2][2][2][1], about |-> x[2][2][2][2]]]
<1>1. IsFiniteSet(PodIDs)
  <2> DEFINE A == {"POD_OOM_KILLED", "POD_CRASH_LOOP", "POD_INIT_CONTAINER_FAILED",
                   "POD_CONTAINER_TERMINATED_ERROR", "POD_EVICTED"}
             B == {"POD_IMAGE_PULL_FAILED", "POD_UNSCHEDULABLE", "POD_UNSCHEDULABLE_CPU",
                   "POD_UNSCHEDULABLE_MEMORY", "POD_UNTOLERATED_TAINT"}
             C == {"POD_UNSCHEDULABLE_AFFINITY", "POD_UNSCHEDULABLE_VOLUME",
                   "POD_SCHEDULING_GATED", "POD_READINESS_PROBE_FAILED",
                   "POD_LIVENESS_PROBE_FAILED"}
             D == {"POD_STARTUP_PROBE_FAILED", "POD_FAILED_MOUNT", "POD_MISSING_CONFIGMAP",
                   "POD_MISSING_SECRET", "POD_CREATE_CONTAINER_CONFIG_ERROR"}
             E == {"POD_PVC_NOT_FOUND", "POD_PVC_NOT_BOUND", "POD_NODE_NOT_READY",
                   "POD_RESTARTED", "POD_NOT_READY"}
  <2>1. PodIDs = A \cup (B \cup (C \cup (D \cup E)))
    BY DEF PodIDs
  <2>2. IsFiniteSet(A) /\ IsFiniteSet(B) /\ IsFiniteSet(C) /\ IsFiniteSet(D) /\ IsFiniteSet(E)
    BY FiveFinite
  <2> HIDE DEF A, B, C, D, E
  <2>3. IsFiniteSet(D \cup E)
    BY <2>2, FS_Union
  <2>4. IsFiniteSet(C \cup (D \cup E))
    BY <2>2, <2>3, FS_Union
  <2>5. IsFiniteSet(B \cup (C \cup (D \cup E)))
    BY <2>2, <2>4, FS_Union
  <2> QED BY <2>1, <2>2, <2>5, FS_Union
<1>2. ASSUME NEW a, NEW b, NEW c PROVE IsFiniteSet({a, b, c})
  <2>1. {a, b, c} = {a, a, a, b, c}
    OBVIOUS
  <2> QED BY <2>1, FiveFinite
<1>3. IsFiniteSet(Severities) /\ IsFiniteSet(Confidences)
  BY <1>2 DEF Severities, Confidences
<1>4. IsFiniteSet(ByCause)
  BY <1>1, FS_AddElement
<1>5. IsFiniteSet(Abouts)
  <2> DEFINE T == {"pod", "node", NoContainer}
  <2>1. IsFiniteSet(T)
    BY <1>2
  <2> HIDE DEF T
  <2>2. IsFiniteSet(T \cup ContainerNames)
    BY <2>1, NamesAssumption, FS_Union
  <2>3. IsFiniteSet((T \cup ContainerNames) \cup ConfigMapNames)
    BY <2>2, NamesAssumption, FS_Union
  <2>4. IsFiniteSet(((T \cup ContainerNames) \cup ConfigMapNames) \cup SecretNames)
    BY <2>3, NamesAssumption, FS_Union
  <2>5. IsFiniteSet((((T \cup ContainerNames) \cup ConfigMapNames) \cup SecretNames)
                    \cup ClaimNames)
    BY <2>4, NamesAssumption, FS_Union
  <2> QED BY <2>5 DEF T
<1>6. Finding = [id : PodIDs, severity : Severities, confidence : Confidences,
                 causedBy : ByCause, about : Abouts]
  BY DEF Finding
<1> HIDE DEF Abouts, ByCause
<1>7. IsFiniteSet(P)
  <2>1. IsFiniteSet(ByCause \X Abouts)
    BY <1>4, <1>5, FS_Product
  <2>2. IsFiniteSet(Confidences \X (ByCause \X Abouts))
    BY <1>3, <2>1, FS_Product
  <2>3. IsFiniteSet(Severities \X (Confidences \X (ByCause \X Abouts)))
    BY <1>3, <2>2, FS_Product
  <2> QED BY <1>1, <2>3, FS_Product
<1>8. f \in [P -> Finding]
  BY <1>6
<1>9. ASSUME NEW r \in Finding PROVE \E x \in P : f[x] = r
  <2> DEFINE x == <<r.id, <<r.severity, <<r.confidence, <<r.causedBy, r.about>>>>>>>>
  <2>1. x \in P
    BY <1>6
  <2>2. f[x] = [id |-> r.id, severity |-> r.severity, confidence |-> r.confidence,
                causedBy |-> r.causedBy, about |-> r.about]
    BY <2>1
  <2>3. f[x] = r
    BY <1>6, <2>2
  <2> QED BY <2>1, <2>3
<1>10. f \in Surjection(P, Finding)
  BY <1>8, <1>9 DEF Surjection
<1> QED BY <1>7, <1>10, FS_Surjection

\* A finding about one of the Pods P, as Found makes it: nothing that it refers to was
\* read, so it names no cause.
Row(d, P) ==
  /\ Proper(d) /\ d.id \in PodIDs /\ d.causedBy = NoCause
  /\ d.subject \in P
Rows(s, P) == IsList(s) /\ \A d \in ToSet(s) : Row(d, P)

\* The Pod rules are given a snapshot.
LEMMA SnapTyped ==
  ASSUME scenario \in Scenarios, NEW i \in DOMAIN scenario.pods
  PROVE  snapOf(i) \in Snapshot
<1>1. scenario.pods[i].pod \in Pod /\ EventsOf(i) \subseteq Event
  BY BackendsAssumption DEF EventsOf
<1> QED BY <1>1 DEF snapOf, Snapshot, ClaimRef, Existences, ClaimPhases

\* Whatever a rule finds, or the fallback, is a finding without a cause.
LEMMA SnapCauseless ==
  ASSUME scenario \in Scenarios, NEW i \in DOMAIN scenario.pods,
         NEW f, Made(f, snapOf(i)) \/ f \in Fallback(snapOf(i))
  PROVE  f \in Finding /\ f.causedBy = NoCause
<1> DEFINE s == snapOf(i)
<1>1. s \in Snapshot
  BY SnapTyped
<1>2. f \in Finding
  BY <1>1, RulesGrounded, FallbackGrounded DEF Made, Grounded
<1>3. /\ missingNames(s.configMaps) = {} /\ missingNames(s.secrets) = {}
      /\ \A n \in ClaimNames : s.pvcs[n].exists = "unread" /\ s.pvcs[n].phase = "none"
  BY DEF snapOf, missingNames
<1> HIDE DEF s
<1>4. CASE f \in Fallback(s)
  BY <1>2, <1>4 DEF Fallback, Certain
<1>5. CASE Made(f, s) /\ f.causedBy # NoCause
  <2>1. CASE \E F \in evaluateScheduling(s) : f \in F
    <3>1. PhaseIsRead(s)
      BY <1>3 DEF PhaseIsRead
    <3>2. \E g \in evaluateClaims(s) : TRUE
      BY <1>5, <2>1, <3>1, SchedulingCauseFound
    <3> QED BY <1>3, <3>2 DEF evaluateClaims
  <2>2. CASE f \in evaluateConfigRefs(s)
    BY <1>3, <1>5, <2>2 DEF evaluateConfigRefs, ConfigErrorCause, Certain
  <2>3. CASE f \in evaluateMounts(s)
    BY <1>3, <1>5, <2>3 DEF evaluateMounts, MountCause, Certain
  <2> QED BY <1>5, <2>1, <2>2, <2>3, WhoNamesCauses
<1> QED BY <1>2, <1>4, <1>5 DEF s

\* The findings of one rule about Pod i become rows about it, one at least if the rule
\* found something.
LEMMA FoundRows ==
  ASSUME NEW i, NEW rule, NEW fs \in SUBSET Finding, \A f \in fs : f.causedBy = NoCause
  PROVE  /\ Rows(Found(rule, fs, i), {i}) /\ (fs # {} => ToSet(Found(rule, fs, i)) # {})
         /\ \A d \in ToSet(Found(rule, fs, i)) :
              d.subject = i /\ \E f \in fs : d.id = f.id /\ d.severity = f.severity
<1> DEFINE row(f) == [id |-> f.id, severity |-> f.severity, confidence |-> f.confidence,
                      causedBy |-> f.causedBy, about |-> f.about,
                      summary |-> Summary(rule, f, i), subject |-> i]
           T == {row(f) : f \in fs}
           g == [f \in fs |-> row(f)]
<1>1. IsFiniteSet(fs)
  BY FindingFinite, FS_Subset
<1>2. g \in Surjection(fs, T)
  BY DEF Surjection
<1>3. IsFiniteSet(T)
  <2> HIDE DEF g, T
  <2> QED BY <1>1, <1>2, FS_Surjection
<1>4. IsList(Found(rule, fs, i)) /\ ToSet(Found(rule, fs, i)) = T
  BY <1>3, ListOfSet DEF Found
<1>5. \A d \in T : Row(d, {i})
  BY DEF Row, Proper, Finding
<1>6. fs # {} => T # {}
  OBVIOUS
<1>7. \A d \in T : d.subject = i /\ \E f \in fs : d.id = f.id /\ d.severity = f.severity
  OBVIOUS
<1> HIDE DEF T
<1> QED BY <1>4, <1>5, <1>6, <1>7 DEF Rows

-----------------------------------------------------------------------------
(* The loop over the Pods *)

\* The Pods listed are Pods of the scenario.
ListedInv ==
  scenario \in Scenarios /\ backends \in Seq(DOMAIN scenario.pods) /\ IsInjective(backends)

\* Before the rules run, and after what they found was merged.
Collecting == pc \notin {"rules", "aggregate", "report", "render", "done"}
Merged == pc \in {"report", "render"} \/ Reported

\* A Pod that needs no finding.
Fine(i) == podIsReady(scenario.pods[i].pod) \/ IsTerminal(scenario.pods[i].pod)

\* A row that a rule made, or the fallback.
ByRule(d) == \E f : Made(f, snapOf(d.subject)) /\ d.id = f.id /\ d.severity = f.severity
ByFallback(d, explained) == d.subject \notin explained /\ ~Fine(d.subject)

\* The rows found so far are about the Pods seen so far, and each of those that is not
\* fine has one, whether its rules ran or the fallback spoke for it, unless the kind's
\* own rules explain it: which is why no Pod is forgotten when the loop is done.  Those
\* that they explain never get the fallback.
PodsInv(explained) ==
  /\ pod \in 1..(Len(backends) + 1) /\ podNext \in Nat \ {0}
  /\ Rows(all, ToSet(backends))
  /\ IF pod <= Len(backends) THEN Rows(podFound, {backends[pod]}) ELSE podFound = <<>>
  /\ \A n \in 1..(pod - 1) :
       \/ Fine(backends[n]) \/ backends[n] \in explained
       \/ \E d \in ToSet(all) : d.subject = backends[n]
  /\ \A d \in ToSet(all) : ByRule(d) \/ ByFallback(d, explained)
  /\ \A d \in ToSet(podFound) : ByRule(d)
  /\ Collecting \/ pc = "rules" => pod = 1 /\ podNext = 1 /\ all = <<>> /\ podFound = <<>>
  /\ Merged => pod > Len(backends)

\* Nothing is found at first.
LEMMA PodsInitially ==
  ASSUME NEW objects, InitRun(objects), NEW explained
  PROVE  ListedInv /\ PodsInv(explained)
<1>1. \A P : Rows(<<>>, P)
  BY ListEmpty DEF Rows
<1>2. backends = <<>> /\ pc = "get" /\ status = "none"
  BY DEF InitRun
<1>3. IsInjective(backends) /\ ToSet(<<>>) = {}
  BY <1>2, ListEmpty DEF IsInjective
<1> QED BY <1>1, <1>2, <1>3 DEF PodsInv, InitRun, ListedInv, Merged, Reported

\* Nor before the loop begins, while the list of the Pods is being made.
LEMMA PodsBegin ==
  ASSUME NEW past, Collecting, PodsInv(past), ~Reported, UNCHANGED <<podRules, status>>,
         ListedInv', pc' \notin {"report", "render"}, NEW explained
  PROVE  PodsInv(explained)' /\ ~Merged'
<1>1. \A P : Rows(<<>>, P)
  BY ListEmpty DEF Rows
<1>2. Len(backends') \in Nat /\ ToSet(<<>>) = {}
  BY ListEmpty DEF ListedInv
<1>3. pod' = 1 /\ podNext' = 1 /\ all' = <<>> /\ podFound' = <<>>
  BY DEF PodsInv, podRules
<1>4. ~Merged'
  BY DEF Merged, Reported
<1> QED BY <1>1, <1>2, <1>3, <1>4 DEF PodsInv

\* More rows of the same Pods.
LEMMA RowsConcat ==
  ASSUME NEW P, NEW s, Rows(s, P), NEW t, Rows(t, P)
  PROVE  Rows(s \o t, P) /\ ToSet(s \o t) = ToSet(s) \cup ToSet(t)
<1>1. IsList(s \o t) /\ ToSet(s \o t) = ToSet(s) \cup ToSet(t)
  BY ListConcat DEF Rows
<1> QED BY <1>1 DEF Rows

\* What a row rests on does not change while the Pods and their events do not.
LEMMA RowsStay ==
  ASSUME UNCHANGED <<scenario, podEvents>>, NEW explained, NEW d
  PROVE  /\ ByRule(d)' <=> ByRule(d)
         /\ ByFallback(d, explained)' <=> ByFallback(d, explained)
<1>1. snapOf(d.subject)' = snapOf(d.subject)
  BY DEF snapOf, EventsOf
<1>2. \A f : Made(f, snapOf(d.subject))' <=> Made(f, snapOf(d.subject))
  BY <1>1 DEF Made
<1> QED BY <1>2 DEF ByRule, ByFallback, Fine

\* One more rule over a Pod.
LEMMA PodsByRule ==
  ASSUME NEW explained, ListedInv, PodsInv(explained), RunPodRule
  PROVE  PodsInv(explained)'
<1>1. /\ UNCHANGED <<scenario, backends, podEvents, pod, all, pc, status>> /\ pc = "aggregate"
      /\ pod \in 1..Len(backends) /\ podNext \in 1..Len(RuleNames) /\ podNext' = podNext + 1
  BY ElevenRules DEF RunPodRule, PodsInv, world, listing, ListedInv
<1> DEFINE i == backends[pod]
<1>2. i \in DOMAIN scenario.pods
  BY <1>1 DEF ListedInv
<1>3. PICK fs \in Outcomes(podNext, snapOf(i)) :
        podFound' = podFound \o Found(RuleNames[podNext], fs, i)
  BY DEF RunPodRule
<1>4. fs \in SUBSET Finding /\ \A f \in fs : f.causedBy = NoCause
  BY <1>1, <1>2, <1>3, SnapCauseless DEF Made, ListedInv
<1>5. /\ Rows(Found(RuleNames[podNext], fs, i), {i})
      /\ \A d \in ToSet(Found(RuleNames[podNext], fs, i)) : ByRule(d)
  <2> DEFINE rule == RuleNames[podNext]
  <2>1. \A f \in fs : Made(f, snapOf(i))
    BY <1>1, <1>3 DEF Made
  <2> HIDE DEF rule, i
  <2>2. /\ Rows(Found(rule, fs, i), {i})
        /\ \A d \in ToSet(Found(rule, fs, i)) :
             d.subject = i /\ \E f \in fs : d.id = f.id /\ d.severity = f.severity
    BY <1>4, FoundRows
  <2>3. \A d \in ToSet(Found(rule, fs, i)) : ByRule(d)
    BY <2>1, <2>2 DEF ByRule
  <2> QED BY <2>2, <2>3 DEF rule
<1>6. Rows(podFound, {i})
  BY <1>1 DEF PodsInv
<1>7. Rows(podFound', {i}) /\ \A d \in ToSet(podFound') : ByRule(d)
  BY <1>3, <1>5, <1>6, RowsConcat DEF PodsInv
<1>8. pod' <= Len(backends') /\ Rows(podFound', {backends'[pod']})
  BY <1>1, <1>7 DEF ListedInv
<1>9. podNext' \in Nat \ {0}
  BY <1>1
<1>10. \A d : (ByRule(d)' <=> ByRule(d)) /\ (ByFallback(d, explained)' <=> ByFallback(d, explained))
  BY <1>1, RowsStay
<1>11. (\A d \in ToSet(podFound) : ByRule(d))'
       /\ (\A d \in ToSet(all) : ByRule(d) \/ ByFallback(d, explained))'
  BY <1>1, <1>7, <1>10 DEF PodsInv, ToSet
<1> QED BY <1>1, <1>8, <1>9, <1>11 DEF PodsInv, Fine, Collecting, Merged, Reported

\* The next Pod.
LEMMA PodsNext ==
  ASSUME NEW explained, ListedInv, PodsInv(explained), NextPod(explained)
  PROVE  PodsInv(explained)'
<1> DEFINE i == backends[pod]
           new == IF podFound = <<>> /\ i \notin explained
                  THEN Found("fallback", Fallback(snapOf(i)), i)
                  ELSE Prioritize(podFound)
<1>1. /\ UNCHANGED <<scenario, backends, podEvents, pc, status>> /\ pc = "aggregate"
      /\ pod \in 1..Len(backends) /\ pod' = pod + 1 /\ podNext' = 1 /\ podFound' = <<>>
      /\ Len(backends) \in Nat
  BY DEF NextPod, PodsInv, world, listing, ListedInv
<1>2. all' = all \o new
  BY DEF NextPod
<1>3. i \in DOMAIN scenario.pods /\ i \in ToSet(backends)
  BY <1>1 DEF ListedInv, ToSet
<1>4. Rows(podFound, {i})
  BY <1>1 DEF PodsInv
<1>5. /\ Rows(new, {i}) /\ (Fine(i) \/ i \in explained \/ ToSet(new) # {})
      /\ \A d \in ToSet(new) : ByRule(d) \/ ByFallback(d, explained)
  <2>1. CASE podFound = <<>> /\ i \notin explained
    <3>1. /\ Fallback(snapOf(i)) \in SUBSET Finding
          /\ \A f \in Fallback(snapOf(i)) : f.causedBy = NoCause
      BY <1>3, SnapCauseless DEF ListedInv
    <3>2. Fine(i) <=> Fallback(snapOf(i)) = {}
      BY DEF Fine, Fallback, snapOf
    <3>3. new = Found("fallback", Fallback(snapOf(i)), i)
      BY <2>1
    <3> HIDE DEF new
    <3>4. /\ Rows(new, {i}) /\ (Fine(i) \/ ToSet(new) # {})
          /\ \A d \in ToSet(new) : d.subject = i /\ ~Fine(i)
      <4> DEFINE fs == Fallback(snapOf(i))
      <4> HIDE DEF fs, i
      <4>1. /\ Rows(Found("fallback", fs, i), {i})
            /\ fs # {} => ToSet(Found("fallback", fs, i)) # {}
            /\ \A d \in ToSet(Found("fallback", fs, i)) :
                 d.subject = i /\ \E f \in fs : d.id = f.id /\ d.severity = f.severity
        BY <3>1, FoundRows DEF fs
      <4> QED BY <3>2, <3>3, <4>1 DEF fs
    <3> QED BY <2>1, <3>4 DEF ByFallback
  <2>2. CASE ~(podFound = <<>> /\ i \notin explained)
    <3>1. /\ IsList(podFound) /\ (podFound = <<>> \/ ToSet(podFound) # {})
          /\ \A d \in ToSet(podFound) : Proper(d)
      BY <1>4, ListEmpty DEF Rows, Row
    <3>2. new = Prioritize(podFound)
      BY <2>2
    <3>3. IsList(new) /\ ToSet(new) = ToSet(podFound)
      BY <3>1, <3>2, ListSorted
    <3> HIDE DEF new
    <3> QED BY <1>4, <2>2, <3>1, <3>3 DEF Rows, PodsInv
  <2> QED BY <2>1, <2>2
<1> HIDE DEF new
<1>6. Rows(new, ToSet(backends)) /\ \A d \in ToSet(new) : d.subject = i
  BY <1>3, <1>5 DEF Rows, Row
<1>7. Rows(all', ToSet(backends')) /\ ToSet(all') = ToSet(all) \cup ToSet(new)
  BY <1>1, <1>2, <1>6, RowsConcat DEF PodsInv
<1>8. ASSUME NEW n \in 1..(pod' - 1)
      PROVE  \/ Fine(backends[n])' \/ backends'[n] \in explained
             \/ \E d \in ToSet(all') : d.subject = backends'[n]
  <2>1. n \in 1..(pod - 1) \/ n = pod
    BY <1>1
  <2>2. Fine(backends[n])' <=> Fine(backends[n])
    BY <1>1 DEF Fine
  <2>3. \/ Fine(backends[n]) \/ backends[n] \in explained
        \/ \E d \in ToSet(all') : d.subject = backends[n]
    BY <1>5, <1>6, <1>7, <2>1 DEF PodsInv
  <2> QED BY <1>1, <2>2, <2>3
<1>9. Rows(<<>>, {backends'[pod']}) /\ ToSet(<<>>) = {}
  BY ListEmpty DEF Rows
<1>10. pod' \in 1..(Len(backends') + 1) /\ podNext' \in Nat \ {0}
  BY <1>1
<1>11. \A d : (ByRule(d)' <=> ByRule(d)) /\ (ByFallback(d, explained)' <=> ByFallback(d, explained))
  BY <1>1, RowsStay
<1>12. (\A d \in ToSet(all) : ByRule(d) \/ ByFallback(d, explained))'
  BY <1>5, <1>7, <1>11 DEF PodsInv, ToSet
<1>13. (\A d \in ToSet(podFound) : ByRule(d))'
  BY <1>1, <1>9 DEF ToSet
<1> QED BY <1>1, <1>7, <1>8, <1>9, <1>10, <1>12, <1>13 DEF PodsInv, Collecting, Merged, Reported

\* Steps that leave the Pods and their rows alone.
LEMMA PodsKept ==
  ASSUME NEW explained, PodsInv(explained),
         UNCHANGED <<scenario, backends, podEvents, podRules>>,
         Collecting' \/ (pc = "rules")' => Collecting \/ pc = "rules",
         Merged' => Merged \/ pod > Len(backends)
  PROVE  PodsInv(explained)'
<1>1. UNCHANGED <<pod, podNext, podFound, all>>
  BY DEF podRules
<1>2. \A n : Fine(backends[n])' <=> Fine(backends[n])
  BY DEF Fine
<1>3. /\ Rows(all, ToSet(backends))'
      /\ Rows(podFound, {backends[pod]})' <=> Rows(podFound, {backends[pod]})
  BY <1>1 DEF PodsInv, Rows, Row, IsList, ToSet, Proper
<1>4. \A d : (ByRule(d)' <=> ByRule(d)) /\ (ByFallback(d, explained)' <=> ByFallback(d, explained))
  BY RowsStay
<1>5. (\A d \in ToSet(podFound) : ByRule(d))'
      /\ (\A d \in ToSet(all) : ByRule(d) \/ ByFallback(d, explained))'
  BY <1>1, <1>4 DEF PodsInv, ToSet
<1>6. (\A n \in 1..(pod - 1) : \/ Fine(backends[n]) \/ backends[n] \in explained
                                \/ \E d \in ToSet(all) : d.subject = backends[n])'
  BY <1>1, <1>2 DEF PodsInv, ToSet
<1> QED BY <1>1, <1>3, <1>5, <1>6 DEF PodsInv

\* No rule gives a Pod the identifier of the fallback.
LEMMA RulesAreNoFallback ==
  ASSUME scenario \in Scenarios, NEW d, d.subject \in DOMAIN scenario.pods, ByRule(d)
  PROVE  d.id # "POD_NOT_READY"
<1>1. PICK f : Made(f, snapOf(d.subject)) /\ d.id = f.id
  BY DEF ByRule
<1>2. Symptom(f, snapOf(d.subject))
  BY <1>1, SnapTyped, RulesHaveSymptoms
<1> QED BY <1>1, <1>2 DEF Symptom, ContainerIDs, SchedulingIDs, ProbeFailureIDs

-----------------------------------------------------------------------------
(* The rules of the kind *)

\* A finding of the kind itself, and rules that make such.
Own(d) ==
  \E id, about : \E severity \in Severities, confidence \in Confidences :
    d = OwnFinding(id, about, severity, confidence)
OwnRules(rules) ==
  IsList(rules) /\ \A r \in DOMAIN rules : IsList(rules[r]) /\ \A d \in ToSet(rules[r]) : Own(d)

\* It speaks of no Pods, and names no cause yet.
LEMMA OwnFields ==
  ASSUME NEW d, Own(d), NEW cause
  PROVE  /\ Proper(d) /\ d.causedBy = NoCause /\ d.count = 0 /\ d.subjects = {}
         /\ LET e == [d EXCEPT !.causedBy = cause]
            IN  /\ e.causedBy = cause /\ e.id = d.id /\ e.about = d.about
                /\ e.severity = d.severity /\ e.confidence = d.confidence
                /\ e.count = d.count /\ e.subjects = d.subjects
<1>1. PICK id, about : \E severity \in Severities, confidence \in Confidences :
        d = OwnFinding(id, about, severity, confidence)
  BY DEF Own
<1>2. PICK severity \in Severities, confidence \in Confidences :
        d = OwnFinding(id, about, severity, confidence)
  BY <1>1
<1>3. d = [id |-> id, severity |-> severity, confidence |-> confidence, causedBy |-> NoCause,
           about |-> about, summary |-> "", count |-> 0, total |-> 0, subjects |-> {}]
  BY <1>2 DEF OwnFinding
<1>4. Proper(d) /\ d.causedBy = NoCause /\ d.count = 0 /\ d.subjects = {}
  BY <1>3 DEF Proper
<1> QED BY <1>3, <1>4

\* A list of one of them.
LEMMA OneOwn ==
  ASSUME NEW id, NEW about, NEW severity \in Severities, NEW confidence \in Confidences
  PROVE  LET d == OwnFinding(id, about, severity, confidence)
         IN  Own(d) /\ IsList(<<d>>) /\ ToSet(<<d>>) = {d}
<1> DEFINE d == OwnFinding(id, about, severity, confidence)
<1>1. Own(d)
  BY DEF Own
<1> HIDE DEF d
<1>2. <<d>> \in Seq({d}) /\ ToSet(<<d>>) = {d}
  BY DEF ToSet
<1> QED BY <1>1, <1>2 DEF IsList, d

\* What it says.
LEMMA OwnSays ==
  ASSUME NEW id, NEW about, NEW severity, NEW confidence
  PROVE  LET d == OwnFinding(id, about, severity, confidence)
         IN  d.id = id /\ d.severity = severity /\ d.about = about /\ d.confidence = confidence
BY DEF OwnFinding

\* One finding or none.
LEMMA IfOwn ==
  ASSUME NEW condition \in BOOLEAN, NEW d, Own(d)
  PROVE  /\ IsList(If(condition, d)) /\ \A e \in ToSet(If(condition, d)) : Own(e)
         /\ ToSet(If(condition, d)) = IF condition THEN {d} ELSE {}
<1>1. IsList(<<d>>) /\ ToSet(<<d>>) = {d}
  <2>1. <<d>> \in Seq({d}) /\ ToSet(<<d>>) = {d}
    BY DEF ToSet
  <2> QED BY <2>1 DEF IsList
<1> QED BY <1>1, ListEmpty DEF If

\* A list of three rules.
LEMMA ThreeRules ==
  ASSUME NEW a, NEW b, NEW c
  PROVE  LET rules == <<a, b, c>>
         IN  /\ IsList(rules) /\ Len(rules) = 3 /\ DOMAIN rules = {1, 2, 3}
             /\ rules[1] = a /\ rules[2] = b /\ rules[3] = c
<1> DEFINE rules == <<a, b, c>>
<1>1. rules \in Seq({a, b, c}) /\ Len(rules) = 3
  OBVIOUS
<1>2. IsList(rules)
  <2> HIDE DEF rules
  <2> QED BY <1>1, ListOf
<1>3. 1..3 = {1, 2, 3}
  OBVIOUS
<1> QED BY <1>1, <1>2, <1>3

\* And of five.
LEMMA FiveRules ==
  ASSUME NEW a, NEW b, NEW c, NEW d, NEW e
  PROVE  LET rules == <<a, b, c, d, e>>
         IN  /\ IsList(rules) /\ Len(rules) = 5 /\ DOMAIN rules = {1, 2, 3, 4, 5}
             /\ rules[1] = a /\ rules[2] = b /\ rules[3] = c /\ rules[4] = d /\ rules[5] = e
<1> DEFINE rules == <<a, b, c, d, e>>
<1>1. rules \in Seq({a, b, c, d, e}) /\ Len(rules) = 5
  OBVIOUS
<1>2. IsList(rules)
  <2> HIDE DEF rules
  <2> QED BY <1>1, ListOf
<1>3. 1..5 = {1, 2, 3, 4, 5}
  OBVIOUS
<1> QED BY <1>1, <1>2, <1>3

\* The findings fs are those of the rules before rule n.
FoundBy(fs, n, rules) ==
  /\ n \in 1..(Len(rules) + 1)
  /\ IsList(fs) /\ ToSet(fs) = UNION {ToSet(rules[r]) : r \in 1..(n - 1)}

\* Before the first rule there are none.
LEMMA FoundBegin ==
  ASSUME NEW rules, IsList(rules)
  PROVE  FoundBy(<<>>, 1, rules)
BY ListEmpty DEF FoundBy, IsList

\* One more rule.
LEMMA FoundNext ==
  ASSUME NEW fs, NEW n, NEW rules, OwnRules(rules), FoundBy(fs, n, rules), n \in DOMAIN rules
  PROVE  FoundBy(fs \o rules[n], n + 1, rules)
<1>1. Len(rules) \in Nat /\ DOMAIN rules = 1..Len(rules) /\ n \in 1..Len(rules)
  BY DEF OwnRules, IsList
<1>2. IsList(fs \o rules[n]) /\ ToSet(fs \o rules[n]) = ToSet(fs) \cup ToSet(rules[n])
  BY ListConcat DEF OwnRules, FoundBy
<1>3. 1..((n + 1) - 1) = (1..(n - 1)) \cup {n} /\ n + 1 \in 1..(Len(rules) + 1)
  BY <1>1
<1> DEFINE found(m) == UNION {ToSet(rules[r]) : r \in m}
<1>4. found((1..(n - 1)) \cup {n}) = found(1..(n - 1)) \cup ToSet(rules[n])
  OBVIOUS
<1> QED BY <1>2, <1>3, <1>4 DEF FoundBy

\* What they are, and that sorting them changes nothing.
LEMMA FoundSorted ==
  ASSUME NEW fs, NEW n, NEW rules, OwnRules(rules), FoundBy(fs, n, rules)
  PROVE  /\ \A d \in ToSet(fs) : Own(d) /\ Proper(d)
         /\ FoundBy(Prioritize(fs), n, rules)
<1>1. Len(rules) \in Nat /\ DOMAIN rules = 1..Len(rules) /\ n \in 1..(Len(rules) + 1)
  BY DEF OwnRules, IsList, FoundBy
<1>2. ASSUME NEW d \in ToSet(fs) PROVE Own(d)
  <2>1. PICK r \in 1..(n - 1) : d \in ToSet(rules[r])
    BY DEF FoundBy
  <2> QED BY <1>1, <2>1 DEF OwnRules
<1>3. \A d \in ToSet(fs) : Proper(d)
  BY <1>2, OwnFields
<1> QED BY <1>2, <1>3, ListSorted DEF FoundBy

\* Each comes from a rule, and all rules are told once all have run.
LEMMA FoundFrom ==
  ASSUME NEW fs, NEW n, NEW rules, OwnRules(rules), FoundBy(fs, n, rules)
  PROVE  /\ \A d \in ToSet(fs) : \E r \in DOMAIN rules : d \in ToSet(rules[r])
         /\ n > Len(rules) => \A r \in DOMAIN rules : ToSet(rules[r]) \subseteq ToSet(fs)
<1>1. Len(rules) \in Nat /\ DOMAIN rules = 1..Len(rules) /\ n \in 1..(Len(rules) + 1)
  BY DEF OwnRules, IsList, FoundBy
<1>2. 1..(n - 1) \subseteq DOMAIN rules /\ (n > Len(rules) => 1..(n - 1) = DOMAIN rules)
  BY <1>1
<1>3. ToSet(fs) = UNION {ToSet(rules[r]) : r \in 1..(n - 1)}
  BY DEF FoundBy
<1> QED BY <1>2, <1>3

-----------------------------------------------------------------------------
(* The findings about the Pods, merged *)

Weighed(in, total, weighed) ==
  LET aggregated == AggregateByRule(in, total)
  IN  [k \in DOMAIN aggregated |->
         [aggregated[k] EXCEPT !.severity = weighed[aggregated[k].severity]]]

\* A merged finding about some of the Pods P.
MergedRow(d, P) ==
  /\ Proper(d) /\ d.id \in PodIDs /\ d.causedBy = NoCause
  /\ d.count \in Nat \ {0} /\ d.subjects \subseteq P

\* Merging and weighing keep each finding with its subject, make up none, and put the
\* more widespread first.
LEMMA WeighedRows ==
  ASSUME NEW in, NEW P, Rows(in, P), NEW total, NEW w \in [Severities -> Severities]
  PROVE  LET out == Weighed(in, total, w)
         IN  /\ IsList(out) /\ \A d \in ToSet(out) : MergedRow(d, P)
             /\ \A d \in ToSet(out) : \E e \in ToSet(in) : d.severity = w[e.severity]
             /\ \A e \in ToSet(in) : \E d \in ToSet(out) :
                  d.id = e.id /\ d.about = e.about /\ e.subject \in d.subjects
             /\ \A d \in ToSet(out) : \A i \in d.subjects : \E e \in ToSet(in) :
                  e.id = d.id /\ e.subject = i
             /\ \A k, m \in DOMAIN out : k < m => out[m].count <= out[k].count
<1> DEFINE agg == AggregateByRule(in, total)
           out == Weighed(in, total, w)
           first(k) == FirstAt(in, k)
<1>1. in \in Seq(ToSet(in)) /\ \A d \in ToSet(in) : Row(d, P)
  BY DEF Rows, IsList
<1>2. /\ Cardinality(Firsts(in)) \in Nat /\ DOMAIN agg = 1..Cardinality(Firsts(in))
      /\ \A k \in DOMAIN agg : first(k) \in Firsts(in) /\ agg[k] = Aggregated(in, first(k), total)
      /\ \A i \in Firsts(in) : \E k \in DOMAIN agg : first(k) = i
      /\ \A k, m \in DOMAIN agg : k < m => MoreWidespread(in, first(k), first(m))
  BY <1>1, AggregateAt
<1>3. DOMAIN out = DOMAIN agg
      /\ \A k \in DOMAIN out : out[k] = [agg[k] EXCEPT !.severity = w[agg[k].severity]]
  BY DEF Weighed
<1> HIDE DEF agg, out, first
<1>4. ASSUME NEW i \in Firsts(in)
      PROVE  /\ i \in DOMAIN in /\ in[i] \in ToSet(in) /\ Row(in[i], P)
             /\ Cardinality(Repeats(in, i)) \in Nat \ {0}
             /\ {in[j].subject : j \in Repeats(in, i)} \subseteq P
  <2>1. i \in DOMAIN in /\ in[i] \in ToSet(in) /\ i \in Repeats(in, i)
        /\ Repeats(in, i) \in SUBSET DOMAIN in
    BY DEF Firsts, Repeats, ToSet
  <2>2. IsFiniteSet(Repeats(in, i))
    BY <1>1, <2>1, PositionsFinite, FS_Subset
  <2>3. Cardinality(Repeats(in, i)) \in Nat /\ Cardinality(Repeats(in, i)) # 0
    BY <2>1, <2>2, FS_CardinalityType, FS_EmptySet
  <2>4. \A j \in DOMAIN in : in[j].subject \in P
    BY <1>1 DEF Row, ToSet
  <2> QED BY <1>1, <2>1, <2>3, <2>4
<1>5. ASSUME NEW k \in DOMAIN out
      PROVE  /\ first(k) \in Firsts(in)
             /\ out[k].id = in[first(k)].id /\ out[k].about = in[first(k)].about
             /\ out[k].severity = w[in[first(k)].severity]
             /\ out[k].confidence = in[first(k)].confidence
             /\ out[k].causedBy = in[first(k)].causedBy
             /\ out[k].count = Cardinality(Repeats(in, first(k)))
             /\ out[k].subjects = {in[j].subject : j \in Repeats(in, first(k))}
  BY <1>2, <1>3 DEF Aggregated
<1>6. ASSUME NEW k \in DOMAIN out
      PROVE  MergedRow(out[k], P) /\ \E e \in ToSet(in) : out[k].severity = w[e.severity]
  <2>1. Row(in[first(k)], P) /\ in[first(k)] \in ToSet(in)
    BY <1>4, <1>5
  <2> QED BY <1>4, <1>5, <2>1 DEF Row, MergedRow, Proper
<1>7. IsList(out)
  <2>1. out \in [1..Cardinality(Firsts(in)) -> ToSet(out)]
    <3>1. out = [k \in DOMAIN agg |-> out[k]]
      BY DEF out, Weighed, agg
    <3> QED BY <1>2, <1>3, <3>1 DEF ToSet
  <2> QED BY <1>2, <2>1 DEF IsList
<1>8. ASSUME NEW e \in ToSet(in)
      PROVE  \E d \in ToSet(out) : d.id = e.id /\ d.about = e.about /\ e.subject \in d.subjects
  <2>1. PICK j \in DOMAIN in : e = in[j]
    BY DEF ToSet
  <2>2. PICK i \in Firsts(in) : Key(in[i]) = Key(in[j]) /\ j \in Repeats(in, i)
    BY <1>1, <2>1, FirstOfKey
  <2>3. PICK k \in DOMAIN out : first(k) = i
    BY <1>2, <1>3
  <2>4. out[k].id = e.id /\ out[k].about = e.about /\ e.subject \in out[k].subjects
    BY <1>5, <2>1, <2>2, <2>3 DEF Key
  <2> QED BY <2>4 DEF ToSet
<1>9. ASSUME NEW k \in DOMAIN out, NEW m \in DOMAIN out, k < m
      PROVE  out[m].count <= out[k].count
  <2>1. MoreWidespread(in, first(k), first(m))
    BY <1>2, <1>3, <1>9
  <2>2. out[k].count \in Nat /\ out[m].count \in Nat
    BY <1>6 DEF MergedRow
  <2> QED BY <1>5, <2>1, <2>2 DEF MoreWidespread
<1>10. /\ \A d \in ToSet(out) : MergedRow(d, P)
       /\ \A d \in ToSet(out) : \E e \in ToSet(in) : d.severity = w[e.severity]
  BY <1>6 DEF ToSet
<1>11. ASSUME NEW k \in DOMAIN out, NEW i \in out[k].subjects
       PROVE  \E e \in ToSet(in) : e.id = out[k].id /\ e.subject = i
  <2>1. PICK j \in Repeats(in, first(k)) : i = in[j].subject
    BY <1>5
  <2>2. j \in DOMAIN in /\ in[j].id = in[first(k)].id
    BY <2>1 DEF Repeats, Key
  <2>3. in[j] \in ToSet(in) /\ in[j].id = out[k].id
    BY <1>5, <2>2 DEF ToSet
  <2> QED BY <2>1, <2>3
<1>12. \A d \in ToSet(out) : \A i \in d.subjects : \E e \in ToSet(in) :
         e.id = d.id /\ e.subject = i
  BY <1>11 DEF ToSet
<1> QED BY <1>7, <1>8, <1>9, <1>10, <1>12 DEF out

-----------------------------------------------------------------------------
(* The report *)

\* d tells of the kind's finding e, and what explains it.
Tells(d, e, cause) ==
  /\ d.id = e.id /\ d.about = e.about /\ d.severity = e.severity
  /\ d.confidence = e.confidence /\ d.count = 0 /\ d.subjects = {}
  /\ d.causedBy = cause

CauseOf(e, symptoms) == IF e.id \in symptoms THEN dominantFinding ELSE NoCause

\* The kind's findings are told as found, and its symptoms with their cause.
LEMMA ExplainedFacts ==
  ASSUME NEW symptoms, IsList(findings), \A d \in ToSet(findings) : Own(d)
  PROVE  LET told == Explained(symptoms)
         IN  /\ IsList(told) /\ DOMAIN told = DOMAIN findings
             /\ \A d \in ToSet(told) : Proper(d) /\ \E e \in ToSet(findings) :
                                                      Tells(d, e, CauseOf(e, symptoms))
             /\ \A e \in ToSet(findings) : \E d \in ToSet(told) :
                  Tells(d, e, CauseOf(e, symptoms))
<1> DEFINE told == Explained(symptoms)
<1>1. findings \in Seq(ToSet(findings))
  BY DEF IsList
<1>2. /\ DOMAIN told = DOMAIN findings
      /\ told = [k \in DOMAIN findings |-> told[k]]
      /\ \A k \in DOMAIN findings :
           told[k] = IF findings[k].id \in symptoms
                       THEN [findings[k] EXCEPT !.causedBy = dominantFinding]
                       ELSE findings[k]
  BY DEF Explained
<1> HIDE DEF told
<1>3. ASSUME NEW k \in DOMAIN findings
      PROVE  Proper(told[k]) /\ Tells(told[k], findings[k], CauseOf(findings[k], symptoms))
  <2>1. Own(findings[k])
    BY DEF ToSet
  <2>2. LET d == findings[k]
            e == [d EXCEPT !.causedBy = dominantFinding]
        IN  /\ Proper(d) /\ d.causedBy = NoCause /\ d.count = 0 /\ d.subjects = {}
            /\ e.causedBy = dominantFinding /\ e.id = d.id /\ e.about = d.about
            /\ e.severity = d.severity /\ e.confidence = d.confidence
            /\ e.count = d.count /\ e.subjects = d.subjects
    BY <2>1, OwnFields
  <2> QED BY <1>2, <2>2 DEF Tells, CauseOf, Proper
<1>4. IsList(told)
  <2>1. told \in [1..Len(findings) -> ToSet(told)] /\ Len(findings) \in Nat
    BY <1>1, <1>2 DEF ToSet
  <2> QED BY <2>1 DEF IsList
<1>5. \A d \in ToSet(told) : Proper(d) /\ \E e \in ToSet(findings) :
                                            Tells(d, e, CauseOf(e, symptoms))
  BY <1>2, <1>3 DEF ToSet
<1>6. \A e \in ToSet(findings) : \E d \in ToSet(told) : Tells(d, e, CauseOf(e, symptoms))
  BY <1>2, <1>3 DEF ToSet
<1> QED BY <1>2, <1>4, <1>5, <1>6 DEF told

\* What the report was made from, when the run has judged.
Joined(symptoms, weighed) ==
  /\ IsList(findings) /\ \A d \in ToSet(findings) : Own(d)
  /\ Rows(all, ToSet(backends)) /\ weighed \in [Severities -> Severities]
  /\ podReport = Weighed(all, Len(backends), weighed)
  /\ report = Prioritize(Explained(symptoms) \o podReport)
  /\ status = DeriveStatus(ToSet(report), degradations # {})

\* The report tells the findings of the kind and the merged ones about the Pods, and
\* nothing else.
LEMMA ReportFacts ==
  ASSUME NEW symptoms, NEW weighed, Joined(symptoms, weighed)
  PROVE  /\ IsList(report)
         /\ ToSet(report) = ToSet(Explained(symptoms)) \cup ToSet(podReport)
         /\ IsList(podReport) /\ \A d \in ToSet(podReport) : MergedRow(d, ToSet(backends))
<1>1. IsList(Explained(symptoms)) /\ \A d \in ToSet(Explained(symptoms)) : Proper(d)
  BY ExplainedFacts DEF Joined
<1>2. IsList(podReport) /\ \A d \in ToSet(podReport) : MergedRow(d, ToSet(backends))
  BY WeighedRows DEF Joined
<1> DEFINE in == Explained(symptoms) \o podReport
<1>3. IsList(in) /\ ToSet(in) = ToSet(Explained(symptoms)) \cup ToSet(podReport)
  BY <1>1, <1>2, ListConcat
<1> HIDE DEF in
<1>4. \A d \in ToSet(in) : Proper(d)
  BY <1>1, <1>2, <1>3 DEF MergedRow
<1>5. IsList(report) /\ ToSet(report) = ToSet(in)
  BY <1>3, <1>4, ListSorted DEF Joined, in
<1> QED BY <1>2, <1>3, <1>5

\* A run is unhealthy for a critical finding and no issue without a grave one.
LEMMA StatusFacts ==
  ASSUME NEW symptoms, NEW weighed, Joined(symptoms, weighed)
  PROVE  /\ status = "unhealthy" <=> \E d \in ToSet(report) : d.severity = "critical"
         /\ IssueFound <=> \E d \in ToSet(report) : d.severity \in {"critical", "warning"}
         /\ status = "healthy" => degradations = {}
         /\ status = "unknown" => degradations # {}
         /\ status \in Statuses
BY DEF Joined, DeriveStatus, IssueFound, Statuses

\* A cause that is named is the first of the merged findings, which is told.
LEMMA CausesTold ==
  ASSUME NEW symptoms, NEW weighed, Joined(symptoms, weighed)
  PROVE  NoDanglingCause
<1> SUFFICES ASSUME NEW k \in DOMAIN report, report[k].causedBy # NoCause
             PROVE  Told(report[k].causedBy)
  BY DEF NoDanglingCause
<1> DEFINE d == report[k]
<1>1. d \in ToSet(report)
  BY DEF ToSet
<1>2. d \in ToSet(Explained(symptoms)) \/ d \in ToSet(podReport)
  BY <1>1, ReportFacts
<1>3. d \notin ToSet(podReport)
  BY ReportFacts DEF MergedRow
<1>4. PICK e \in ToSet(findings) : Tells(d, e, CauseOf(e, symptoms))
  BY <1>2, <1>3, ExplainedFacts DEF Joined
<1>5. d.causedBy = podReport[1].id /\ podReport # <<>>
  BY <1>4 DEF Tells, CauseOf, dominantFinding
<1>6. 1 \in DOMAIN podReport
  BY <1>5, ReportFacts DEF IsList
<1>7. podReport[1] \in ToSet(report)
  BY <1>6, ReportFacts DEF ToSet
<1> QED BY <1>5, <1>7 DEF Told, ToSet

\* Every Pod that is not fine is a subject of the report.
LEMMA PodsTold ==
  ASSUME NEW symptoms, NEW weighed, Joined(symptoms, weighed), ListedInv, NEW explained,
         PodsInv(explained), pod > Len(backends), NEW i \in ToSet(backends)
  PROVE  \/ Fine(i) \/ i \in explained
         \/ \E k \in DOMAIN report : report[k].id \in PodIDs /\ i \in report[k].subjects
<1>1. PICK n \in DOMAIN backends : i = backends[n]
  BY DEF ToSet
<1>2. n \in 1..(pod - 1)
  BY <1>1 DEF PodsInv, ListedInv
<1>3. Fine(i) \/ i \in explained \/ \E d \in ToSet(all) : d.subject = i
  BY <1>1, <1>2 DEF PodsInv
<1>4. ASSUME NEW e \in ToSet(all), e.subject = i
      PROVE  \E k \in DOMAIN report : report[k].id \in PodIDs /\ i \in report[k].subjects
  <2>1. PICK d \in ToSet(podReport) : e.subject \in d.subjects
    BY WeighedRows DEF Joined
  <2>2. d \in ToSet(report) /\ d.id \in PodIDs
    BY <2>1, ReportFacts DEF MergedRow
  <2> QED BY <1>4, <2>1, <2>2 DEF ToSet
<1> QED BY <1>3, <1>4

\* Of two merged findings that the comparison does not separate the more widespread
\* comes first, because the sort is stable.
LEMMA WidespreadTold ==
  ASSUME NEW symptoms, NEW weighed, Joined(symptoms, weighed)
  PROVE  WidespreadFirst
<1> SUFFICES ASSUME NEW i \in DOMAIN report, NEW j \in DOMAIN report, i < j,
                    report[i].count > 0, report[j].count > report[i].count
             PROVE  Less(report[i], report[j], Causes(report))
  BY DEF WidespreadFirst
<1> DEFINE told == Explained(symptoms)
           in == told \o podReport
           at == [k \in DOMAIN in |-> At(in, k)]
           a == at[i]
           b == at[j]
<1>1. IsList(told) /\ \A d \in ToSet(told) : Proper(d) /\ d.count = 0
  BY ExplainedFacts DEF Joined, Tells
<1>2. IsList(podReport) /\ \A d \in ToSet(podReport) : MergedRow(d, ToSet(backends))
  BY ReportFacts
<1>3. \A k, m \in DOMAIN podReport : k < m => podReport[m].count <= podReport[k].count
  BY WeighedRows DEF Joined
<1>4. IsList(in) /\ ToSet(in) = ToSet(told) \cup ToSet(podReport)
  BY <1>1, <1>2, ListConcat
<1>5. /\ told \in Seq(ToSet(told)) /\ podReport \in Seq(ToSet(podReport)) /\ in \in Seq(ToSet(in))
      /\ Len(told) \in Nat /\ Len(podReport) \in Nat
      /\ DOMAIN in = 1..(Len(told) + Len(podReport))
      /\ \A k \in 1..Len(told) : in[k] = told[k]
      /\ \A k \in 1..Len(podReport) : in[Len(told) + k] = podReport[k]
  <2>1. told \in Seq(ToSet(told)) /\ podReport \in Seq(ToSet(podReport)) /\ in \in Seq(ToSet(in))
    BY <1>1, <1>2, <1>4 DEF IsList
  <2> HIDE DEF told
  <2> QED BY <2>1
<1>6. Rankable(in) /\ report = Prioritize(in)
  BY <1>1, <1>2, <1>4, ListRankable DEF MergedRow, Joined
<1> HIDE DEF told, in
<1>7. /\ DOMAIN report = DOMAIN in /\ Causes(report) = Causes(in)
      /\ a \in DOMAIN in /\ b \in DOMAIN in /\ report[i] = in[a] /\ report[j] = in[b]
      /\ Precedes(in, a, b)
  <2>1. DOMAIN report = DOMAIN in /\ Causes(report) = Causes(in)
    BY <1>5, <1>6, PrioritizeAt, PrioritizeKeeps
  <2>2. /\ at \in Bijection(DOMAIN in, DOMAIN in)
        /\ \A k \in DOMAIN in : report[k] = in[at[k]]
        /\ \A k, m \in DOMAIN in : k < m => Precedes(in, at[k], at[m])
    BY <1>5, <1>6, PrioritizePermutes
  <2> HIDE DEF at
  <2> QED BY <2>1, <2>2 DEF Bijection, Injection
<1> HIDE DEF a, b
<1>8. ASSUME NEW k \in DOMAIN in, in[k].count # 0
      PROVE  k \in Nat /\ k > Len(told) /\ k - Len(told) \in DOMAIN podReport
             /\ in[k] = podReport[k - Len(told)] /\ in[k].count \in Nat
  <2>1. ~(k \in 1..Len(told))
    <3>1. \A m \in 1..Len(told) : told[m] \in ToSet(told)
      BY <1>5
    <3> QED BY <1>1, <1>5, <1>8, <3>1
  <2>2. k \in Nat /\ k > Len(told) /\ k - Len(told) \in 1..Len(podReport)
        /\ Len(told) + (k - Len(told)) = k
    BY <1>5, <2>1
  <2>3. in[k] = podReport[k - Len(told)] /\ k - Len(told) \in DOMAIN podReport
    BY <1>5, <2>2
  <2>4. podReport[k - Len(told)] \in ToSet(podReport)
    BY <2>3 DEF ToSet
  <2> QED BY <1>2, <2>2, <2>3, <2>4 DEF MergedRow
<1>9. in[a].count # 0 /\ in[b].count # 0
  <2>1. in[a].count # 0
    BY <1>7
  <2>2. in[a].count \in Nat
    BY <1>7, <1>8, <2>1
  <2> QED BY <1>7, <2>1, <2>2
<1>10. ~(a < b)
  <2>1. /\ a - Len(told) \in DOMAIN podReport /\ b - Len(told) \in DOMAIN podReport
        /\ in[a] = podReport[a - Len(told)] /\ in[b] = podReport[b - Len(told)]
        /\ in[a].count \in Nat /\ in[b].count \in Nat /\ a \in Nat /\ b \in Nat
    BY <1>7, <1>8, <1>9
  <2>2. a < b => a - Len(told) < b - Len(told)
    BY <1>5, <2>1
  <2> QED BY <1>3, <1>7, <2>1, <2>2
<1> QED BY <1>7, <1>10 DEF Precedes

-----------------------------------------------------------------------------
(* The evaluation *)

\* Whatever has been found is what the rules make of the snapshot, which does not change
\* once they look at it; what was merged is what the loop over the Pods found; and
\* the report is made of the two.
RulesInv(rules) ==
  /\ FoundBy(findings, next, rules)
  /\ Collecting => findings = <<>> /\ next = 1
MergedInv(weighed) ==
  IF Merged THEN podReport = Weighed(all, Len(backends), weighed) ELSE podReport = <<>>
ReportInv(symptoms) ==
  IF Reported
    THEN /\ pc \in {"render", "done"}
         /\ report = Prioritize(Explained(symptoms) \o podReport)
         /\ status = DeriveStatus(ToSet(report), degradations # {})
    ELSE pc # "render" /\ report = <<>>
EvaluationInv(rules, explained, weighed, symptoms) ==
  PodsInv(explained) /\ RulesInv(rules) /\ MergedInv(weighed) /\ ReportInv(symptoms)

\* At first nothing is found, whatever the rules would find.
LEMMA EvaluationBegins ==
  ASSUME NEW objects, InitRun(objects), NEW rules, IsList(rules), NEW explained,
         NEW weighed, NEW symptoms
  PROVE  EvaluationInv(rules, explained, weighed, symptoms)
<1>1. PodsInv(explained)
  BY PodsInitially
<1>2. RulesInv(rules)
  BY FoundBegin DEF InitRun, RulesInv
<1>3. MergedInv(weighed) /\ ReportInv(symptoms)
  BY DEF InitRun, MergedInv, ReportInv, Merged, Reported
<1> QED BY <1>1, <1>2, <1>3 DEF EvaluationInv

\* Nor does a collecting step find anything, whatever the rules will make of what it
\* collects.
LEMMA CollectorStep ==
  ASSUME NEW old, NEW past, NEW before, NEW symptoms, EvaluationInv(old, past, before, symptoms),
         Collecting, UNCHANGED <<next, findings, podRules, podReport, report, status>>,
         ListedInv', pc' \notin {"report", "render"},
         NEW rules, IsList(rules), NEW explained, NEW weighed
  PROVE  EvaluationInv(rules, explained, weighed, symptoms)'
<1>1. ~Reported
  BY DEF EvaluationInv, ReportInv, Collecting
<1>2. PodsInv(explained)' /\ ~Merged'
  BY <1>1, PodsBegin DEF EvaluationInv
<1>3. findings' = <<>> /\ next' = 1
  BY DEF EvaluationInv, RulesInv
<1>4. RulesInv(rules)'
  <2>1. FoundBy(<<>>, 1, rules)
    BY FoundBegin
  <2> QED BY <1>3, <2>1 DEF RulesInv, FoundBy
<1>5. MergedInv(weighed)' /\ ReportInv(symptoms)'
  <2>1. podReport = <<>> /\ report = <<>>
    BY <1>1 DEF EvaluationInv, MergedInv, ReportInv, Merged, Collecting
  <2> QED BY <1>1, <1>2, <2>1 DEF MergedInv, ReportInv, Reported
<1> QED BY <1>2, <1>4, <1>5 DEF EvaluationInv

\* A step of the evaluation, or of the surroundings.
EvaluationStep(rules, explained, weighed, symptoms) ==
  \/ RunRule(rules) \/ RulesDone(rules) \/ RunPodRule \/ NextPod(explained)
  \/ PodFindings(weighed) \/ Report(symptoms) \/ Render
  \/ Expire \/ Drift \/ UNCHANGED runVars

\* It reads the snapshot and leaves it alone.
LEMMA EvaluationReads ==
  ASSUME NEW rules, NEW explained, NEW weighed, NEW symptoms,
         EvaluationStep(rules, explained, weighed, symptoms)
  PROVE  UNCHANGED <<scenario, listed, backends, podEvents>>
BY DEF EvaluationStep, RunRule, RulesDone, RunPodRule, NextPod, PodFindings, Report, Render,
       Expire, Drift, runVars, world, listing

\* And it keeps the invariant.
LEMMA EvaluationKeeps ==
  ASSUME NEW rules, OwnRules(rules), NEW explained, NEW weighed, NEW symptoms,
         ListedInv, EvaluationInv(rules, explained, weighed, symptoms),
         EvaluationStep(rules, explained, weighed, symptoms)
  PROVE  EvaluationInv(rules, explained, weighed, symptoms)'
<1> USE DEF world, listing, verdict, runVars
<1>1. UNCHANGED <<scenario, listed, backends, podEvents>>
  BY EvaluationReads
<1>2. PodsInv(explained) /\ RulesInv(rules) /\ MergedInv(weighed) /\ ReportInv(symptoms)
  BY DEF EvaluationInv
<1>3. ASSUME UNCHANGED <<next, findings>>, Collecting' => Collecting PROVE RulesInv(rules)'
  <2>1. FoundBy(findings', next', rules)
    BY <1>2, <1>3 DEF RulesInv
  <2> QED BY <1>2, <1>3, <2>1 DEF RulesInv, FoundBy
<1>4. ASSUME UNCHANGED <<all, podReport>>, Merged' <=> Merged PROVE MergedInv(weighed)'
  <2>1. Weighed(all', Len(backends'), weighed) = Weighed(all, Len(backends), weighed)
    BY <1>1, <1>4
  <2> QED BY <1>2, <1>4, <2>1 DEF MergedInv
<1>5. ASSUME UNCHANGED <<findings, podReport, report, status, degradations>>,
             Reported => pc' \in {"render", "done"}, ~Reported => pc' # "render"
      PROVE  ReportInv(symptoms)'
  <2>1. Explained(symptoms)' = Explained(symptoms)
    BY <1>5 DEF Explained, dominantFinding
  <2> QED BY <1>2, <1>5, <2>1 DEF ReportInv, Reported
<1>6. CASE RunRule(rules)
  <2>1. /\ pc = "rules" /\ pc' = "rules" /\ next \in DOMAIN rules /\ next' = next + 1
        /\ findings' = findings \o rules[next]
        /\ UNCHANGED <<podRules, all, podReport, report, status>>
    BY <1>6 DEF RunRule, podRules
  <2>2. FoundBy(findings', next', rules)
    BY <1>2, <2>1, FoundNext DEF RulesInv
  <2>3. RulesInv(rules)'
    BY <2>1, <2>2 DEF RulesInv, FoundBy, Collecting
  <2>4. ~Reported
    BY <1>2, <2>1 DEF ReportInv
  <2>5. MergedInv(weighed)' /\ ReportInv(symptoms)'
    BY <1>2, <2>1, <2>4 DEF MergedInv, ReportInv, Merged, Reported
  <2>6. PodsInv(explained)'
    BY <1>1, <1>2, <2>1, PodsKept DEF Collecting, Merged, Reported
  <2> QED BY <2>3, <2>5, <2>6 DEF EvaluationInv
<1>7. CASE RulesDone(rules)
  <2>1. /\ pc = "rules" /\ pc' = "aggregate" /\ next' = next /\ findings' = Prioritize(findings)
        /\ UNCHANGED <<podRules, all, podReport, report, status>>
    BY <1>7 DEF RulesDone, podRules
  <2>2. FoundBy(findings', next', rules)
    BY <1>2, <2>1, FoundSorted DEF RulesInv
  <2>3. RulesInv(rules)'
    BY <2>1, <2>2 DEF RulesInv, FoundBy, Collecting
  <2>4. ~Reported
    BY <1>2, <2>1 DEF ReportInv
  <2>5. MergedInv(weighed)' /\ ReportInv(symptoms)'
    BY <1>2, <2>1, <2>4 DEF MergedInv, ReportInv, Merged, Reported
  <2>6. PodsInv(explained)'
    BY <1>1, <1>2, <2>1, PodsKept DEF Collecting, Merged, Reported
  <2> QED BY <2>3, <2>5, <2>6 DEF EvaluationInv
<1>8. CASE RunPodRule \/ NextPod(explained)
  <2>1. /\ pc = "aggregate" /\ pc' = pc
        /\ UNCHANGED <<next, findings, podReport, report, status>>
    BY <1>8 DEF RunPodRule, NextPod
  <2>2. RulesInv(rules)'
    BY <1>3, <2>1 DEF Collecting
  <2>3. ~Reported
    BY <1>2, <2>1 DEF ReportInv
  <2>4. MergedInv(weighed)' /\ ReportInv(symptoms)'
    BY <1>2, <2>1, <2>3 DEF MergedInv, ReportInv, Merged, Reported
  <2>5. PodsInv(explained)'
    BY <1>2, <1>8, PodsByRule, PodsNext
  <2> QED BY <2>2, <2>4, <2>5 DEF EvaluationInv
<1>9. CASE PodFindings(weighed)
  <2>1. /\ pc = "aggregate" /\ pc' = "report" /\ pod > Len(backends)
        /\ podReport' = Weighed(all, Len(backends), weighed)
        /\ UNCHANGED <<podRules, all, next, findings, report, status>>
    BY <1>9 DEF PodFindings, podRules, Weighed
  <2>2. RulesInv(rules)'
    BY <1>3, <2>1 DEF Collecting
  <2>3. ~Reported
    BY <1>2, <2>1 DEF ReportInv
  <2>4. podReport' = Weighed(all', Len(backends'), weighed)
    BY <1>1, <2>1
  <2>5. MergedInv(weighed)' /\ ReportInv(symptoms)'
    BY <1>2, <2>1, <2>3, <2>4 DEF MergedInv, ReportInv, Merged, Reported, Weighed
  <2>6. PodsInv(explained)'
    BY <1>1, <1>2, <2>1, PodsKept DEF Collecting, Merged, Reported
  <2> QED BY <2>2, <2>5, <2>6 DEF EvaluationInv
<1>10. CASE Report(symptoms)
  <2> DEFINE told == Explained(symptoms)
  <2>1. /\ pc = "report" /\ pc' = "render"
        /\ report' = Prioritize(told \o podReport)
        /\ status' = DeriveStatus(ToSet(report'), degradations # {})
        /\ UNCHANGED <<podRules, all, next, findings, podReport, degradations>>
    BY <1>10 DEF Report, podRules
  <2>2. RulesInv(rules)'
    BY <1>3, <2>1 DEF Collecting
  <2>3. Merged /\ Merged' /\ status' # "none"
    BY <2>1 DEF Merged, DeriveStatus
  <2>4. MergedInv(weighed)'
    BY <1>4, <2>1, <2>3
  <2>5. told' = told
    BY <2>1 DEF Explained, dominantFinding
  <2>6. ReportInv(symptoms)'
    BY <2>1, <2>3, <2>5 DEF ReportInv, Reported
  <2>7. PodsInv(explained)'
    BY <1>1, <1>2, <2>1, <2>3, PodsKept DEF Collecting
  <2> QED BY <2>2, <2>4, <2>6, <2>7 DEF EvaluationInv
<1>11. CASE Render \/ Expire \/ Drift \/ UNCHANGED runVars
  <2>1. /\ UNCHANGED <<podRules, all, next, findings, podReport, report, status, degradations>>
        /\ pc' = pc \/ (pc = "render" /\ pc' = "done")
    BY <1>11 DEF Render, Expire, Drift, podRules
  <2>2. /\ Merged' <=> Merged
        /\ Reported => pc' \in {"render", "done"}
        /\ ~Reported => pc' # "render"
    BY <1>2, <2>1 DEF Merged, Reported, ReportInv
  <2>3. MergedInv(weighed)' /\ ReportInv(symptoms)'
    BY <1>4, <1>5, <2>1, <2>2
  <2>4. RulesInv(rules)'
    BY <1>3, <2>1 DEF Collecting
  <2>5. PodsInv(explained)'
    BY <1>1, <1>2, <2>1, <2>2, PodsKept DEF Collecting
  <2> QED BY <2>3, <2>4, <2>5 DEF EvaluationInv
<1> QED BY <1>6, <1>7, <1>8, <1>9, <1>10, <1>11 DEF EvaluationStep

\* Once the run has judged, the report is joined from what the invariant describes.
LEMMA EvaluationJoined ==
  ASSUME NEW rules, OwnRules(rules), NEW explained,
         NEW weighed \in [Severities -> Severities], NEW symptoms,
         EvaluationInv(rules, explained, weighed, symptoms), Reported
  PROVE  Joined(symptoms, weighed) /\ pod > Len(backends)
<1>1. Merged
  BY DEF Merged
<1>2. IsList(findings) /\ \A d \in ToSet(findings) : Own(d)
  BY FoundSorted DEF EvaluationInv, RulesInv, FoundBy
<1> QED BY <1>1, <1>2 DEF EvaluationInv, PodsInv, MergedInv, ReportInv, Joined

-----------------------------------------------------------------------------
(* No Pod is told of the same thing twice *)

\* Two rows tell of the same thing, and a list that tells of nothing twice.
Alike(d, e) == Key(d) = Key(e) /\ d.subject = e.subject
Apart(s) == \A a, b \in DOMAIN s : Alike(s[a], s[b]) => a = b

\* What the summaries of a rule say: no two rules say the same.
Texts(rule) ==
  CASE rule = "probe"          -> {"is failing", "failed", "has been failing"}
    [] rule = "terminated"     -> {"is waiting to be restarted", "exited", "terminated"}
    [] rule = "restartHistory" -> {"has restarted"}
    [] OTHER                   -> {rule}

\* A rule says one of its texts.
LEMMA SummaryText ==
  ASSUME NEW r \in 1..Len(RuleNames), NEW f, NEW i
  PROVE  Summary(RuleNames[r], f, i).text \in Texts(RuleNames[r])
<1> DEFINE rule == RuleNames[r]
<1>1. rule # "fallback"
  <2>1. r \in {1, 2, 3, 4, 5, 6, 7, 8, 9, 10, 11}
    BY ElevenRules
  <2> QED BY <2>1 DEF RuleNames
<1> HIDE DEF rule
<1>2. \A text, numbers : Says(text, numbers).text = text
  BY DEF Says
<1>3. Summary(rule, f, i).text \in Texts(rule)
  <2>1. CASE rule = "probe"
    <3>1. \E text \in {"is failing", "failed", "has been failing"} : \E numbers :
            Summary("probe", f, i) = Says(text, numbers)
      <4> DEFINE c == scenario.pods[i].pod.containers[f.about]
                 text == IF f.about \in ContainerNames /\ ~c.ready THEN "is failing"
                         ELSE IF f.severity = "info" THEN "failed" ELSE "has been failing"
      <4>1. text \in {"is failing", "failed", "has been failing"}
        OBVIOUS
      <4>2. \E numbers : Summary("probe", f, i) = Says(text, numbers)
        BY Zenon DEF Summary
      <4> QED BY <4>1, <4>2
    <3> QED BY <1>2, <2>1, <3>1 DEF Texts
  <2>2. CASE rule = "terminated"
    BY <1>2, <2>2 DEF Summary, Texts
  <2>3. CASE rule = "restartHistory"
    BY <1>2, <2>3 DEF Summary, Texts
  <2>4. CASE rule \notin {"probe", "terminated", "restartHistory"}
    BY <1>1, <1>2, <2>4 DEF Summary, Texts
  <2> QED BY <2>1, <2>2, <2>3, <2>4
<1> QED BY <1>3 DEF rule

\* No two rules have a text in common.
LEMMA TextsDiffer ==
  ASSUME NEW q \in 1..Len(RuleNames), NEW r \in 1..Len(RuleNames), q # r
  PROVE  Texts(RuleNames[q]) \cap Texts(RuleNames[r]) = {}
<1> DEFINE Plain == {"oom", "crashLoop", "imagePull", "scheduling", "configRef", "mount",
                     "claim", "node"}
<1>1. /\ q \in {1, 2, 3, 4, 5, 6, 7, 8, 9, 10, 11}
      /\ r \in {1, 2, 3, 4, 5, 6, 7, 8, 9, 10, 11}
  BY ElevenRules
<1>2. /\ RuleNames[q] \in Plain \cup {"probe", "terminated", "restartHistory"}
      /\ RuleNames[r] \in Plain \cup {"probe", "terminated", "restartHistory"}
      /\ RuleNames[q] # RuleNames[r]
  BY <1>1 DEF RuleNames
<1>3. \A x \in Plain : Texts(x) = {x}
  BY DEF Texts
<1>4. /\ Texts("probe") = {"is failing", "failed", "has been failing"}
      /\ Texts("terminated") = {"is waiting to be restarted", "exited", "terminated"}
      /\ Texts("restartHistory") = {"has restarted"}
  BY DEF Texts
<1>5. ASSUME NEW x \in Plain PROVE /\ Texts(x) \cap Texts("probe") = {}
                                   /\ Texts(x) \cap Texts("terminated") = {}
                                   /\ Texts(x) \cap Texts("restartHistory") = {}
  BY <1>3, <1>4
<1>6. /\ Texts("probe") \cap Texts("terminated") = {}
      /\ Texts("probe") \cap Texts("restartHistory") = {}
      /\ Texts("terminated") \cap Texts("restartHistory") = {}
  BY <1>4
<1>7. \A x, y \in Plain : x # y => Texts(x) \cap Texts(y) = {}
  BY <1>3
<1> HIDE DEF Plain
<1> QED BY <1>2, <1>5, <1>6, <1>7

\* Putting lists together.
LEMMA ApartConcat ==
  ASSUME NEW s, IsList(s), Apart(s), NEW t, IsList(t), Apart(t),
         \A d \in ToSet(s), e \in ToSet(t) : ~Alike(d, e)
  PROVE  Apart(s \o t)
<1>1. /\ s \in Seq(ToSet(s)) /\ t \in Seq(ToSet(t)) /\ Len(s) \in Nat /\ Len(t) \in Nat
      /\ \A a \in 1..Len(s) : s[a] \in ToSet(s)
      /\ \A a \in 1..Len(t) : t[a] \in ToSet(t)
  BY DEF IsList
<1>2. /\ DOMAIN (s \o t) = 1..(Len(s) + Len(t))
      /\ \A a \in 1..Len(s) : (s \o t)[a] = s[a]
      /\ \A a \in 1..Len(t) : (s \o t)[Len(s) + a] = t[a]
  BY <1>1
<1> SUFFICES ASSUME NEW a \in DOMAIN (s \o t), NEW b \in DOMAIN (s \o t),
                    Alike((s \o t)[a], (s \o t)[b])
             PROVE  a = b
  BY DEF Apart
<1>3. ASSUME NEW c \in DOMAIN (s \o t)
      PROVE  \/ c \in 1..Len(s) /\ (s \o t)[c] = s[c]
             \/ /\ c - Len(s) \in 1..Len(t) /\ (s \o t)[c] = t[c - Len(s)]
                /\ c \in Nat /\ c > Len(s)
  <2>1. c \in 1..Len(s) \/ (c - Len(s) \in 1..Len(t) /\ Len(s) + (c - Len(s)) = c /\ c \in Nat
                            /\ c > Len(s))
    <3>1. ASSUME NEW p \in Nat, NEW q \in Nat, NEW n \in 1..(p + q)
          PROVE  n \in 1..p \/ (n - p \in 1..q /\ p + (n - p) = n /\ n \in Nat /\ n > p)
      OBVIOUS
    <3>2. c \in 1..(Len(s) + Len(t))
      BY <1>2
    <3> QED BY <1>1, <3>1, <3>2
  <2> QED BY <1>2, <2>1
<1>4. \A d, e : Alike(d, e) => Alike(e, d)
  BY DEF Alike
<1> DEFINE u == s \o t
<1>5. DOMAIN s = 1..Len(s) /\ DOMAIN t = 1..Len(t)
  BY <1>1
<1> HIDE DEF u
<1>6. CASE a \in 1..Len(s) /\ b \in 1..Len(s)
  BY <1>2, <1>5, <1>6 DEF Apart
<1>7. CASE a \notin 1..Len(s) /\ b \notin 1..Len(s)
  <2>1. a - Len(s) = b - Len(s) /\ a \in Nat /\ b \in Nat
    BY <1>3, <1>5, <1>7 DEF Apart
  <2> QED BY <1>1, <2>1
<1>8. CASE a \in 1..Len(s) /\ b \notin 1..Len(s)
  BY <1>1, <1>2, <1>3, <1>8
<1>9. CASE a \notin 1..Len(s) /\ b \in 1..Len(s)
  BY <1>1, <1>2, <1>3, <1>4, <1>9
<1> QED BY <1>6, <1>7, <1>8, <1>9

\* Sorting a list.
LEMMA ApartSorted ==
  ASSUME NEW s, IsList(s), Apart(s), \A d \in ToSet(s) : Proper(d)
  PROVE  Apart(Prioritize(s))
<1> DEFINE at == [k \in DOMAIN s |-> At(s, k)]
<1>1. s \in Seq(ToSet(s)) /\ Rankable(s)
  BY ListRankable DEF IsList
<1>2. /\ at \in Bijection(DOMAIN s, DOMAIN s) /\ DOMAIN Prioritize(s) = DOMAIN s
      /\ \A k \in DOMAIN s : Prioritize(s)[k] = s[at[k]]
  BY <1>1, PrioritizePermutes, PrioritizeAt
<1> HIDE DEF at
<1>3. at \in [DOMAIN s -> DOMAIN s] /\ \A k, m \in DOMAIN s : at[k] = at[m] => k = m
  BY <1>2 DEF Bijection, Injection, IsInjective
<1> QED BY <1>2, <1>3 DEF Apart

\* The findings of one rule about a Pod.
LEMMA FoundApart ==
  ASSUME NEW i, NEW rule, NEW fs \in SUBSET Finding, SaidOnce(fs)
  PROVE  /\ Apart(Found(rule, fs, i))
         /\ \A d \in ToSet(Found(rule, fs, i)) :
              d.subject = i /\ \E f \in fs : d.summary = Summary(rule, f, i)
<1> DEFINE row(f) == [id |-> f.id, severity |-> f.severity, confidence |-> f.confidence,
                      causedBy |-> f.causedBy, about |-> f.about,
                      summary |-> Summary(rule, f, i), subject |-> i]
           T == {row(f) : f \in fs}
           g == [f \in fs |-> row(f)]
<1>1. IsFiniteSet(T)
  <2>1. IsFiniteSet(fs) /\ g \in Surjection(fs, T)
    BY FindingFinite, FS_Subset DEF Surjection
  <2> HIDE DEF g, T
  <2> QED BY <2>1, FS_Surjection
<1>2. \A f : row(f).id = f.id /\ row(f).about = f.about /\ row(f).summary = Summary(rule, f, i)
             /\ row(f).subject = i
  OBVIOUS
<1> HIDE DEF row
<1>3. ASSUME NEW d \in T, NEW e \in T, Alike(d, e) PROVE d = e
  <2>1. PICK a \in fs, b \in fs : d = row(a) /\ e = row(b)
    OBVIOUS
  <2>2. a.id = b.id /\ a.about = b.about
    BY <1>2, <1>3, <2>1 DEF Alike, Key
  <2> QED BY <2>1, <2>2 DEF SaidOnce
<1>4. \A d \in T : d.subject = i /\ \E f \in fs : d.summary = Summary(rule, f, i)
  BY <1>2
<1>5. Found(rule, fs, i) = SetToSeq(T)
  BY DEF Found, row
<1> HIDE DEF T
<1>6. ToSet(SetToSeq(T)) = T /\ IsInjective(SetToSeq(T))
  BY <1>1, ListOfSet
<1>7. \A a \in DOMAIN SetToSeq(T) : SetToSeq(T)[a] \in T
  BY <1>6 DEF ToSet
<1> QED BY <1>3, <1>4, <1>5, <1>6, <1>7 DEF Apart, IsInjective

\* The rows are about the Pods seen so far, which are different ones, and no row is like
\* that of an earlier rule or of an earlier Pod.
OnceInv ==
  /\ Apart(all) /\ \A d \in ToSet(all) : \E n \in 1..(pod - 1) : d.subject = backends[n]
  /\ Apart(podFound)
  /\ \A d \in ToSet(podFound) : \E r \in 1..Len(RuleNames) :
       r < podNext /\ d.summary.text \in Texts(RuleNames[r])

\* At first there are no rows.
LEMMA OnceBegins ==
  ASSUME NEW objects, InitRun(objects)
  PROVE  OnceInv
BY ListEmpty DEF OnceInv, Apart, InitRun

\* Nor are there any while the list of the Pods is being made.
LEMMA OnceCollects ==
  ASSUME NEW explained, PodsInv(explained), Collecting, UNCHANGED podRules
  PROVE  OnceInv'
<1>1. all' = <<>> /\ podFound' = <<>>
  BY DEF PodsInv, podRules
<1>2. Apart(<<>>) /\ ToSet(<<>>) = {}
  BY ListEmpty DEF Apart
<1> QED BY <1>1, <1>2 DEF OnceInv

\* One more rule over a Pod.
LEMMA OnceByRule ==
  ASSUME NEW explained, ListedInv, PodsInv(explained), OnceInv, RunPodRule
  PROVE  OnceInv'
<1>1. /\ UNCHANGED <<scenario, backends, pod, all>>
      /\ pod \in 1..Len(backends) /\ podNext \in 1..Len(RuleNames) /\ podNext' = podNext + 1
  BY ElevenRules DEF RunPodRule, PodsInv, world, listing, ListedInv
<1> DEFINE i == backends[pod]
           rule == RuleNames[podNext]
<1>2. i \in DOMAIN scenario.pods
  BY <1>1 DEF ListedInv
<1>3. PICK fs \in Outcomes(podNext, snapOf(i)) : podFound' = podFound \o Found(rule, fs, i)
  BY DEF RunPodRule
<1>4. /\ fs \in SUBSET Finding /\ SaidOnce(fs) /\ \A f \in fs : f.causedBy = NoCause
  BY <1>1, <1>2, <1>3, SnapCauseless, RulesSpeakOnce DEF Made, ListedInv
<1> DEFINE new == Found(rule, fs, i)
<1>5. Apart(new) /\ \A d \in ToSet(new) : d.summary.text \in Texts(rule)
  <2>1. \A f : Summary(rule, f, i).text \in Texts(rule)
    BY <1>1, SummaryText
  <2> HIDE DEF rule
  <2> QED BY <1>4, <2>1, FoundApart
<1>6. IsList(new) /\ IsList(podFound)
  <2>1. Rows(podFound, {i})
    BY <1>1 DEF PodsInv
  <2> QED BY <1>4, <2>1, FoundRows DEF Rows
<1>7. ASSUME NEW d \in ToSet(podFound), NEW e \in ToSet(new) PROVE ~Alike(d, e)
  <2>1. PICK r \in 1..Len(RuleNames) : r < podNext /\ d.summary.text \in Texts(RuleNames[r])
    BY DEF OnceInv
  <2>2. r # podNext
    BY <1>1, <2>1, ElevenRules
  <2>3. Texts(RuleNames[r]) \cap Texts(rule) = {}
    BY <1>1, <2>2, TextsDiffer
  <2>4. e.summary.text \in Texts(rule)
    BY <1>5
  <2> HIDE DEF rule
  <2>5. d.summary # e.summary
    BY <2>1, <2>3, <2>4
  <2> QED BY <2>5 DEF Alike, Key
<1> HIDE DEF new
<1>8. Apart(podFound') /\ ToSet(podFound') = ToSet(podFound) \cup ToSet(new)
  BY <1>3, <1>5, <1>6, <1>7, ApartConcat, ListConcat DEF OnceInv, new
<1>9. ASSUME NEW d \in ToSet(podFound')
      PROVE  \E r \in 1..Len(RuleNames) : r < podNext' /\ d.summary.text \in Texts(RuleNames[r])
  <2>1. CASE d \in ToSet(podFound)
    <3>1. PICK r \in 1..Len(RuleNames) : r < podNext /\ d.summary.text \in Texts(RuleNames[r])
      BY <2>1 DEF OnceInv
    <3>2. r < podNext'
      BY <1>1, <3>1, ElevenRules
    <3> QED BY <3>1, <3>2
  <2>2. CASE d \in ToSet(new)
    <3>1. podNext < podNext'
      BY <1>1, ElevenRules
    <3> QED BY <1>1, <1>5, <2>2, <3>1
  <2> QED BY <1>8, <2>1, <2>2
<1>10. Apart(all)' /\ (\A d \in ToSet(all) : \E n \in 1..(pod - 1) : d.subject = backends[n])'
  BY <1>1 DEF OnceInv, Apart, Alike, Key, ToSet
<1> QED BY <1>8, <1>9, <1>10 DEF OnceInv, Apart, Alike, Key, ToSet, Texts

\* The next Pod.
LEMMA OnceNext ==
  ASSUME NEW explained, ListedInv, PodsInv(explained), OnceInv, NextPod(explained)
  PROVE  OnceInv'
<1> DEFINE i == backends[pod]
           new == IF podFound = <<>> /\ i \notin explained
                  THEN Found("fallback", Fallback(snapOf(i)), i) ELSE Prioritize(podFound)
<1>1. /\ UNCHANGED <<scenario, backends>> /\ Len(backends) \in Nat
      /\ pod \in 1..Len(backends) /\ pod' = pod + 1 /\ podFound' = <<>>
      /\ \A n \in 1..Len(backends) : backends[n] = i => n = pod
  BY DEF NextPod, PodsInv, world, listing, ListedInv, OnceInv, IsInjective
<1>2. all' = all \o new
  BY DEF NextPod
<1>3. i \in DOMAIN scenario.pods
  BY <1>1 DEF ListedInv
<1>4. Rows(podFound, {i})
  BY <1>1 DEF PodsInv
<1>5. IsList(new) /\ Apart(new) /\ \A d \in ToSet(new) : d.subject = i
  <2>1. CASE podFound = <<>> /\ i \notin explained
    <3>1. /\ Fallback(snapOf(i)) \in SUBSET Finding
          /\ \A f \in Fallback(snapOf(i)) : f.causedBy = NoCause
      BY <1>3, SnapCauseless DEF ListedInv
    <3>2. SaidOnce(Fallback(snapOf(i)))
      BY DEF Fallback, SaidOnce
    <3>3. new = Found("fallback", Fallback(snapOf(i)), i)
      BY <2>1
    <3> HIDE DEF i, new
    <3>4. IsList(Found("fallback", Fallback(snapOf(i)), i))
      BY <3>1, FoundRows DEF Rows
    <3>5. /\ Apart(Found("fallback", Fallback(snapOf(i)), i))
          /\ \A d \in ToSet(Found("fallback", Fallback(snapOf(i)), i)) : d.subject = i
      BY <3>1, <3>2, FoundApart
    <3> QED BY <3>3, <3>4, <3>5
  <2>2. CASE ~(podFound = <<>> /\ i \notin explained)
    <3>1. /\ IsList(podFound) /\ Apart(podFound) /\ \A d \in ToSet(podFound) : Proper(d)
          /\ \A d \in ToSet(podFound) : d.subject = i
      BY <1>4 DEF Rows, Row, OnceInv
    <3> QED BY <2>2, <3>1, ListSorted, ApartSorted
  <2> QED BY <2>1, <2>2
<1> HIDE DEF new
<1>6. ASSUME NEW d \in ToSet(all), NEW e \in ToSet(new) PROVE ~Alike(d, e)
  <2>1. PICK n \in 1..(pod - 1) : d.subject = backends[n]
    BY DEF OnceInv
  <2>2. n \in 1..Len(backends) /\ n # pod
    BY <1>1, <2>1
  <2> QED BY <1>1, <1>5, <2>1, <2>2 DEF Alike
<1>7. IsList(all) /\ Apart(all)
  BY DEF PodsInv, Rows, OnceInv
<1>8. Apart(all') /\ ToSet(all') = ToSet(all) \cup ToSet(new)
  BY <1>2, <1>5, <1>6, <1>7, ApartConcat, ListConcat
<1>9. ASSUME NEW d \in ToSet(all')
      PROVE  \E n \in 1..(pod' - 1) : d.subject = backends'[n]
  <2>1. CASE d \in ToSet(all)
    <3>1. PICK n \in 1..(pod - 1) : d.subject = backends[n]
      BY <2>1 DEF OnceInv
    <3>2. n \in 1..(pod' - 1)
      BY <1>1, <3>1
    <3> QED BY <1>1, <3>1, <3>2
  <2>2. CASE d \in ToSet(new)
    <3>1. pod \in 1..(pod' - 1)
      BY <1>1
    <3> QED BY <1>1, <1>5, <2>2, <3>1
  <2> QED BY <1>8, <2>1, <2>2
<1>10. Apart(podFound)' /\ ToSet(podFound)' = {}
  BY <1>1 DEF Apart, ToSet
<1> QED BY <1>8, <1>9, <1>10 DEF OnceInv, Apart, Alike, Key, ToSet

\* The other steps of the evaluation leave the rows alone.
LEMMA OnceKeeps ==
  ASSUME NEW rules, NEW explained, NEW weighed, NEW symptoms,
         ListedInv, PodsInv(explained), OnceInv,
         EvaluationStep(rules, explained, weighed, symptoms)
  PROVE  OnceInv'
<1>1. UNCHANGED <<scenario, listed, backends, podEvents>>
  BY EvaluationReads
<1>2. ASSUME UNCHANGED podRules PROVE OnceInv'
  <2>1. UNCHANGED <<pod, podNext, podFound, all>>
    BY <1>2 DEF podRules
  <2>2. Apart(all)' /\ Apart(podFound)'
    BY <1>1, <2>1 DEF OnceInv, Apart, Alike, Key
  <2>3. (\A d \in ToSet(all) : \E n \in 1..(pod - 1) : d.subject = backends[n])'
    BY <1>1, <2>1 DEF OnceInv, ToSet
  <2>4. (\A d \in ToSet(podFound) : \E r \in 1..Len(RuleNames) :
           r < podNext /\ d.summary.text \in Texts(RuleNames[r]))'
    <3>1. ToSet(podFound)' = ToSet(podFound)
      BY <2>1 DEF ToSet
    <3> QED BY <2>1, <3>1 DEF OnceInv
  <2> QED BY <2>2, <2>3, <2>4 DEF OnceInv
<1>3. RunPodRule \/ NextPod(explained) \/ UNCHANGED podRules
  BY DEF EvaluationStep, RunRule, RulesDone, PodFindings, Report, Render, Expire, Drift,
         runVars, verdict, podRules
<1> QED BY <1>2, <1>3, OnceByRule, OnceNext

\* d counts the row e among its subjects, and nothing twice.
Counts(d, e) ==
  /\ d.id = e.id /\ d.about = e.about /\ d.summary = e.summary
  /\ e.subject \in d.subjects /\ d.count = Cardinality(d.subjects)

\* Where no two rows are alike, the repeats of a row have as many subjects as there are
\* repeats.
LEMMA SubjectsCounted ==
  ASSUME NEW in, IsList(in), Apart(in), NEW i \in DOMAIN in
  PROVE  Cardinality(Repeats(in, i)) = Cardinality({in[j].subject : j \in Repeats(in, i)})
<1> DEFINE R == Repeats(in, i)
           T == {in[j].subject : j \in R}
           g == [j \in R |-> in[j].subject]
<1>1. IsFiniteSet(R)
  <2>1. in \in Seq(ToSet(in)) /\ R \in SUBSET DOMAIN in
    BY DEF IsList, Repeats
  <2> QED BY <2>1, PositionsFinite, FS_Subset
<1>2. \A j, m \in R : in[j].subject = in[m].subject => j = m
  BY DEF Repeats, Apart, Alike
<1> HIDE DEF R
<1>3. g \in Bijection(R, T)
  BY <1>2 DEF Bijection, Injection, Surjection, IsInjective
<1> HIDE DEF g, T
<1>4. Cardinality(R) = Cardinality(T)
  BY <1>1, <1>3, FS_Bijection DEF ExistsBijection
<1> QED BY <1>4 DEF R, T

\* Merging counts each row in one place.
LEMMA MergedOnce ==
  ASSUME NEW in, NEW P, Rows(in, P), Apart(in), NEW total, NEW w \in [Severities -> Severities],
         NEW j \in DOMAIN in
  PROVE  LET out == Weighed(in, total, w)
         IN  \E k \in DOMAIN out : /\ Counts(out[k], in[j])
                                   /\ \A m \in DOMAIN out : Counts(out[m], in[j]) => m = k
<1> DEFINE agg == AggregateByRule(in, total)
           out == Weighed(in, total, w)
<1>1. in \in Seq(ToSet(in)) /\ IsList(in)
  BY DEF Rows, IsList
<1>2. \A k \in DOMAIN agg : FirstAt(in, k) \in DOMAIN in
                            /\ agg[k] = Aggregated(in, FirstAt(in, k), total)
  BY <1>1, AggregateAt DEF Firsts
<1>3. \E k \in DOMAIN agg : /\ agg[k].id = in[j].id /\ agg[k].about = in[j].about
                            /\ agg[k].summary = in[j].summary
                            /\ in[j].subject \in agg[k].subjects
  <2>1. PICK i \in Firsts(in) : Key(in[i]) = Key(in[j]) /\ j \in Repeats(in, i)
    BY <1>1, FirstOfKey
  <2>2. PICK k \in DOMAIN agg : FirstAt(in, k) = i
    BY <1>1, AggregateAt
  <2>3. agg[k] = Aggregated(in, i, total)
    BY <1>2, <2>2
  <2> HIDE DEF agg
  <2> QED BY <2>1, <2>2, <2>3 DEF Key, Aggregated
<1>4. ASSUME NEW k \in DOMAIN agg, NEW m \in DOMAIN agg, agg[k].id = agg[m].id,
             agg[k].about = agg[m].about, agg[k].summary = agg[m].summary
      PROVE  k = m
  <2>1. k # m => <<agg[k].id, agg[k].about, agg[k].summary>>
                   # <<agg[m].id, agg[m].about, agg[m].summary>>
    BY <1>1, AggregateKeeps
  <2> QED BY <1>4, <2>1
<1>5. DOMAIN out = DOMAIN agg
      /\ \A k \in DOMAIN out : out[k] = [agg[k] EXCEPT !.severity = w[agg[k].severity]]
  BY DEF Weighed
<1> HIDE DEF agg, out
<1>6. ASSUME NEW k \in DOMAIN out
      PROVE  /\ out[k].id = agg[k].id /\ out[k].about = agg[k].about
             /\ out[k].summary = agg[k].summary /\ out[k].subjects = agg[k].subjects
             /\ out[k].count = Cardinality(out[k].subjects)
  <2> DEFINE i == FirstAt(in, k)
  <2>1. i \in DOMAIN in /\ agg[k] = Aggregated(in, i, total)
    BY <1>2, <1>5
  <2> HIDE DEF i
  <2>2. /\ out[k].id = agg[k].id /\ out[k].about = agg[k].about
        /\ out[k].summary = agg[k].summary /\ out[k].subjects = agg[k].subjects
        /\ out[k].count = Cardinality(Repeats(in, i))
        /\ out[k].subjects = {in[m].subject : m \in Repeats(in, i)}
    BY <1>5, <2>1 DEF Aggregated
  <2>3. Cardinality(Repeats(in, i)) = Cardinality({in[m].subject : m \in Repeats(in, i)})
    BY <1>1, <2>1, SubjectsCounted
  <2> QED BY <2>2, <2>3
<1>7. PICK k \in DOMAIN out : Counts(out[k], in[j])
  BY <1>3, <1>5, <1>6 DEF Counts
<1>8. ASSUME NEW m \in DOMAIN out, Counts(out[m], in[j]) PROVE m = k
  BY <1>4, <1>5, <1>6, <1>7, <1>8 DEF Counts
<1>9. \E n \in DOMAIN out : /\ Counts(out[n], in[j])
                            /\ \A m \in DOMAIN out : Counts(out[m], in[j]) => m = n
  BY <1>7, <1>8
<1> QED BY <1>9 DEF out

\* So the report counts each row in one place: the kind's own findings have no subjects,
\* and sorting moves findings without repeating any.
LEMMA AllCounted ==
  ASSUME NEW symptoms, NEW weighed, Joined(symptoms, weighed), Apart(all)
  PROVE  NothingLost
<1> SUFFICES ASSUME NEW j \in DOMAIN all
             PROVE  Cardinality({k \in DOMAIN report : Counts(report[k], all[j])}) = 1
  BY DEF NothingLost, Counts
<1> DEFINE told == Explained(symptoms)
           in == told \o podReport
           row == all[j]
<1>1. /\ IsList(told) /\ \A d \in ToSet(told) : Proper(d) /\ d.subjects = {}
  BY ExplainedFacts DEF Joined, Tells
<1>2. IsList(podReport) /\ \A d \in ToSet(podReport) : Proper(d)
  BY ReportFacts DEF MergedRow
<1>3. PICK p \in DOMAIN podReport :
        /\ Counts(podReport[p], row)
        /\ \A m \in DOMAIN podReport : Counts(podReport[m], row) => m = p
  BY MergedOnce DEF Joined
<1> HIDE DEF told, row
<1>4. /\ IsList(in) /\ ToSet(in) = ToSet(told) \cup ToSet(podReport)
      /\ \A d \in ToSet(in) : Proper(d)
  BY <1>1, <1>2, ListConcat
<1>5. /\ told \in Seq(ToSet(told)) /\ podReport \in Seq(ToSet(podReport))
      /\ Len(told) \in Nat /\ Len(podReport) \in Nat
      /\ DOMAIN told = 1..Len(told) /\ DOMAIN podReport = 1..Len(podReport)
  BY <1>1, <1>2 DEF IsList
<1>6. /\ DOMAIN in = 1..(Len(told) + Len(podReport))
      /\ \A a \in 1..Len(told) : in[a] = told[a]
      /\ \A a \in 1..Len(podReport) : in[Len(told) + a] = podReport[a]
  BY <1>5
<1> DEFINE q == Len(told) + p
<1> HIDE DEF in
<1>7. q \in DOMAIN in /\ Counts(in[q], row)
  BY <1>3, <1>5, <1>6
<1>8. ASSUME NEW m \in DOMAIN in, Counts(in[m], row) PROVE m = q
  <2>1. m \notin 1..Len(told)
    <3>1. SUFFICES ASSUME m \in 1..Len(told) PROVE FALSE
      OBVIOUS
    <3>2. told[m] \in ToSet(told) /\ in[m] = told[m]
      BY <1>5, <1>6, <3>1 DEF ToSet
    <3> QED BY <1>1, <1>8, <3>2 DEF Counts
  <2>2. ASSUME NEW x \in Nat, NEW y \in Nat, NEW n \in 1..(x + y), n \notin 1..x
        PROVE  n - x \in 1..y /\ x + (n - x) = n
    BY <2>2
  <2>3. m - Len(told) \in 1..Len(podReport) /\ Len(told) + (m - Len(told)) = m
    BY <1>5, <1>6, <2>1, <2>2
  <2>4. Counts(podReport[m - Len(told)], row)
    BY <1>6, <1>8, <2>3
  <2>5. m - Len(told) = p
    BY <1>3, <1>5, <2>3, <2>4
  <2> QED BY <2>3, <2>5
<1> HIDE DEF q
<1> DEFINE at == [k \in DOMAIN in |-> At(in, k)]
<1>9. /\ at \in Bijection(DOMAIN in, DOMAIN in) /\ DOMAIN report = DOMAIN in
      /\ \A k \in DOMAIN in : report[k] = in[at[k]]
  <2>1. in \in Seq(ToSet(in)) /\ Rankable(in)
    BY <1>4, ListRankable DEF IsList
  <2>2. report = Prioritize(in)
    BY DEF Joined, in, told
  <2> QED BY <2>1, <2>2, PrioritizePermutes, PrioritizeAt
<1> HIDE DEF at
<1>10. PICK k \in DOMAIN in : at[k] = q
  BY <1>7, <1>9 DEF Bijection, Surjection
<1>11. {n \in DOMAIN report : Counts(report[n], row)} = {k}
  <2>1. \A n \in DOMAIN in : at[n] \in DOMAIN in /\ (at[n] = at[k] => n = k)
    BY <1>9 DEF Bijection, Injection, IsInjective
  <2>2. Counts(report[k], row)
    BY <1>7, <1>9, <1>10
  <2>3. ASSUME NEW n \in DOMAIN in, Counts(report[n], row) PROVE n = k
    BY <1>8, <1>9, <1>10, <2>1, <2>3
  <2> QED BY <1>9, <2>2, <2>3
<1> QED BY <1>11, FS_Singleton DEF row

-----------------------------------------------------------------------------
(* The events of the Pods *)

\* No more than maxBackendEvents Pods have their events read: each is preceded by
\* a different number of unready ones.
LEMMA FewEvents ==
  ASSUME NEW list, IsList(list)
  PROVE  /\ Cardinality(needEvents(list)) \in Nat
         /\ Cardinality(needEvents(list)) <= MaxBackendEvents
<1> DEFINE U == UnreadyIn(list)
           R == {r \in U \X U : r[1] < r[2]}
           first == {u \in U : Cardinality({j \in U : j < u}) < MaxBackendEvents}
           rank == [u \in first |-> Cardinality(Before(U, R, u))]
           B == 0..(MaxBackendEvents - 1)
           g == [u \in first |-> list[u]]
<1>1. IsFiniteSet(U) /\ U \subseteq Nat
  <2>1. list \in Seq(ToSet(list)) /\ U \in SUBSET DOMAIN list
    BY DEF IsList, UnreadyIn
  <2> HIDE DEF U
  <2>2. DOMAIN list \subseteq Nat
    BY <2>1
  <2> QED BY <2>1, <2>2, PositionsFinite, FS_Subset
<1> HIDE DEF U
<1>2. \A u, v \in U : <<u, v>> \in R <=> u < v
  OBVIOUS
<1>3. OrderOn(U, R) /\ \A u \in U : Before(U, R, u) = {j \in U : j < u}
  BY <1>1, <1>2 DEF OrderOn, Before
<1> HIDE DEF R
<1>4. ASSUME NEW u \in U
      PROVE  /\ Cardinality(Before(U, R, u)) \in Nat
             /\ \A v \in U : u < v => Cardinality(Before(U, R, u)) < Cardinality(Before(U, R, v))
  <2>1. /\ Cardinality(Before(U, R, u)) \in 0..(Cardinality(U) - 1)
        /\ \A v \in U : <<u, v>> \in R =>
             Cardinality(Before(U, R, u)) < Cardinality(Before(U, R, v))
    BY <1>1, <1>3, BeforeGrows
  <2>2. Cardinality(U) \in Nat
    BY <1>1, FS_CardinalityType
  <2>3. ASSUME NEW n \in Nat, NEW m \in 0..(n - 1) PROVE m \in Nat
    OBVIOUS
  <2>4. Cardinality(Before(U, R, u)) \in Nat
    BY <2>1, <2>2, <2>3
  <2>5. \A v \in U : u < v => Cardinality(Before(U, R, u)) < Cardinality(Before(U, R, v))
    BY <1>2, <2>1
  <2> QED BY <2>4, <2>5
<1>5. rank \in Injection(first, B)
  <2>1. ASSUME NEW u \in first PROVE rank[u] \in B
    <3>1. Cardinality(Before(U, R, u)) \in Nat /\ Cardinality(Before(U, R, u)) < MaxBackendEvents
      BY <1>3, <1>4
    <3> QED BY <3>1, BackendsAssumption
  <2>2. ASSUME NEW u \in first, NEW v \in first, rank[u] = rank[v] PROVE u = v
    BY <1>1, <1>4, <2>2
  <2> QED BY <2>1, <2>2 DEF Injection, IsInjective
<1>6. IsFiniteSet(B) /\ Cardinality(B) = MaxBackendEvents
  BY BackendsAssumption, FS_Interval
<1> HIDE DEF rank, first, B
<1>7. IsFiniteSet(first) /\ Cardinality(first) <= MaxBackendEvents
  BY <1>5, <1>6, FS_Injection
<1>8. needEvents(list) = {list[u] : u \in first}
  BY DEF needEvents, first, U
<1>9. g \in Surjection(first, needEvents(list))
  BY <1>8 DEF Surjection
<1> HIDE DEF g
<1>10. IsFiniteSet(needEvents(list)) /\ Cardinality(needEvents(list)) <= Cardinality(first)
  BY <1>7, <1>9, FS_Surjection
<1>11. Cardinality(needEvents(list)) \in Nat /\ Cardinality(first) \in Nat
  BY <1>7, <1>10, FS_CardinalityType
<1> QED BY <1>7, <1>10, <1>11, BackendsAssumption

\* Nobody's events are read where there are no Pods.
LEMMA NoEvents == needEvents(<<>>) = {}
BY DEF needEvents, UnreadyIn

\* What a failed read books, and only that.
LEMMA Booked ==
  /\ \A resource, a : degrade(resource, a) = {} <=> a = "ok"
  /\ \A resource, a : existenceDegradation(resource, a) = {} <=> a \in {"ok", "NotFound"}
BY DEF degrade, existenceDegradation

\* When the goroutines have returned, a degradation was booked unless each has read.
LEMMA BackendsRead ==
  ASSUME NEW then, podEvents = {}, backendSnapshots(backends, then)
  PROVE  degradations' # {} <=> degradations # {} \/ ~(needEvents(backends) \subseteq podEvents')
<1>1. PICK a \in [needEvents(backends) ->
                    Answers("ok") \cup (IF MayExpire THEN {"Timeout"} ELSE {})] :
        /\ podEvents' = podEvents \cup {i \in DOMAIN a : a[i] = "ok"}
        /\ degradations' = degradations \cup UNION {degrade("events", a[i]) : i \in DOMAIN a}
  BY DEF backendSnapshots
<1>2. DOMAIN a = needEvents(backends)
  BY <1>1
<1>3. UNION {degrade("events", a[i]) : i \in DOMAIN a} = {}
        <=> \A i \in DOMAIN a : degrade("events", a[i]) = {}
  OBVIOUS
<1>4. UNION {degrade("events", a[i]) : i \in DOMAIN a} = {} <=> \A i \in DOMAIN a : a[i] = "ok"
  BY <1>3, Booked
<1> QED BY <1>1, <1>2, <1>4

\* The evaluation and the surroundings leave the snapshot, its cost and its failures
\* alone; what has been absent stays so, and nothing drifts once the rules run.
LEMMA EvaluationLeaves ==
  ASSUME NEW rules, NEW explained, NEW weighed, NEW symptoms,
         EvaluationStep(rules, explained, weighed, symptoms)
  PROVE  /\ UNCHANGED <<scenario, calls, ownEvents, listed, backends, podEvents, degradations>>
         /\ \/ pc' = pc
            \/ /\ pc \in {"rules", "aggregate", "report", "render"}
               /\ pc' \in {"aggregate", "report", "render", "done"}
         /\ everAbsent \subseteq everAbsent'
         /\ Collecting \/ everAbsent' = everAbsent
         /\ pc = "report" \/ UNCHANGED <<report, status>>
         /\ \A objects : objects \ present \subseteq everAbsent
                           => objects \ present' \subseteq everAbsent'
<1> USE DEF world, listing, verdict, runVars
<1>1. CASE RunRule(rules) \/ RulesDone(rules) \/ RunPodRule \/ NextPod(explained)
  BY <1>1 DEF RunRule, RulesDone, RunPodRule, NextPod
<1>2. CASE PodFindings(weighed) \/ Report(symptoms) \/ Render
  BY <1>2 DEF PodFindings, Report, Render
<1>3. CASE Expire \/ UNCHANGED runVars
  BY <1>3 DEF Expire
<1>4. CASE Drift
  <2>1. PICK o \in Volatile :
          IF o \in present
            THEN present' = present \ {o} /\ everAbsent' = everAbsent \cup {o}
            ELSE present' = present \cup {o} /\ UNCHANGED everAbsent
    BY <1>4 DEF Drift
  <2> QED BY <1>4, <2>1 DEF Drift, Collecting
<1> QED BY <1>1, <1>2, <1>3, <1>4 DEF EvaluationStep

=============================================================================
