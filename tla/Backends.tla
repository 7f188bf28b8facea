------------------------------ MODULE Backends ------------------------------
(***************************************************************************)
(* What the analyses of a Service, a Deployment, a StatefulSet and an      *)
(* Ingress share: a run reads the object and its events, lists the Pods    *)
(* behind it, reads the events of the first unready ones, evaluates the    *)
(* rules of the kind and then the Pod rules over every Pod, merges what    *)
(* the Pods have in common and joins the two into one report.              *)
(*                                                                         *)
(* Each analysis EXTENDS this module with the variables of its own         *)
(* snapshot, its collectors and its rules.  The actions here leave those   *)
(* variables to it.  The goroutines of backendSnapshots are one step here, *)
(* which BackendReads justifies.                                           *)
(***************************************************************************)
EXTENDS PodRules, Collection, Aggregate, Sorting, SequencesExt

CONSTANTS Scenarios,         \* what may be true of the object
          MaxPods,           \* bound on the Pods behind it
          MaxBackendEvents,  \* maxBackendEvents
          Volatile,          \* what comes and goes during the run
          Failures,          \* how a request may fail while the context lives
          MayExpire          \* whether the context can end

\* A scenario has at least the objects that are absent at first and the Pods, a
\* sequence of records with the Pod, its events and its age.
ASSUME BackendsAssumption ==
  /\ MaxPods \in Nat
  /\ \A s \in Scenarios : /\ Len(s.pods) \in 0..MaxPods /\ DOMAIN s.pods = 1..Len(s.pods)
                          /\ \A i \in DOMAIN s.pods : /\ s.pods[i].pod \in Pod
                                                      /\ s.pods[i].events \subseteq Event
                                                      /\ s.pods[i].age \in Nat
  /\ MaxBackendEvents \in Nat
  /\ Failures \subseteq {"Forbidden", "Error"}
  /\ MayExpire \in BOOLEAN

VARIABLES
  scenario, present, everAbsent, ctxDone,   \* the surroundings, as in PodAnalysis
  pc, calls,
  ownEvents,    \* whether the events of the object were read
  listed,       \* whether the Pods could be listed
  backends,     \* the Pods listed, as positions in scenario.pods
  podEvents,    \* the Pods whose events were read
  degradations,
  next, findings,              \* Evaluate over the rules of the kind
  pod, podNext, podFound, all, \* Aggregated over the Pods
  podReport,                   \* the aggregated findings
  report, status, exit

world == <<scenario, present, everAbsent, ctxDone>>
listing == <<listed, backends, podEvents>>
podRules == <<pod, podNext, podFound, all>>
verdict == <<next, findings, podRules, podReport, report, status, exit>>
runVars == <<world, pc, calls, ownEvents, listing, degradations, verdict>>

InitRun(objects) ==
  /\ scenario \in Scenarios
  /\ present = objects \ scenario.absent
  /\ everAbsent = scenario.absent
  /\ ctxDone = FALSE
  /\ pc = "get" /\ calls = 0
  /\ ownEvents = FALSE
  /\ listed = FALSE /\ backends = <<>> /\ podEvents = {}
  /\ degradations = {}
  /\ next = 1 /\ findings = <<>>
  /\ pod = 1 /\ podNext = 1 /\ podFound = <<>> /\ all = <<>>
  /\ podReport = <<>> /\ report = <<>> /\ status = "none" /\ exit = -1

\* How a request may be answered whose outcome would be this one.
Answers(outcome) == IF ctxDone THEN {"Timeout"} ELSE {outcome} \cup Failures
Lookup(o) == Answers(IF o \in present THEN "ok" ELSE "NotFound")

Expire ==
  /\ MayExpire /\ ~ctxDone /\ pc # "done"
  /\ ctxDone' = TRUE
  /\ UNCHANGED <<scenario, present, everAbsent, pc, calls, ownEvents, listing, degradations,
                 verdict>>

\* Once everything is collected, nothing depends on the cluster any more.
Drift ==
  /\ pc \notin {"rules", "aggregate", "report", "render", "done"}
  /\ \E o \in Volatile :
       IF o \in present
         THEN present' = present \ {o} /\ everAbsent' = everAbsent \cup {o}
         ELSE present' = present \cup {o} /\ UNCHANGED everAbsent
  /\ UNCHANGED <<scenario, ctxDone, pc, calls, ownEvents, listing, degradations, verdict>>

-----------------------------------------------------------------------------
(* The reads that every kind begins with, and the events of its Pods *)

\* The requested object: a failure ends the run.
Get(o) ==
  /\ pc = "get"
  /\ calls' = calls + 1
  /\ \E a \in Lookup(o) :
       IF a = "ok" THEN pc' = "events" /\ UNCHANGED exit
                   ELSE pc' = "done" /\ exit' = reportError(a)
  /\ UNCHANGED <<world, ownEvents, listing, degradations, next, findings, podRules, podReport,
                 report, status>>

eventsFor(then) ==
  /\ pc = "events"
  /\ calls' = calls + 1
  /\ \E a \in Answers("ok") :
       /\ ownEvents' = (a = "ok")
       /\ degradations' = degradations \cup degrade("events", a)
  /\ pc' = then
  /\ UNCHANGED <<world, listing, verdict>>

UnreadyIn(list) == {k \in DOMAIN list : ~podIsReady(scenario.pods[list[k]].pod)}

\* Mutant: every unready Pod has its events read.
needEventsAll(list) == {list[k] : k \in UnreadyIn(list)}

\* Only the first few unready Pods of a list have their events read.
needEvents(list) ==
  {list[k] : k \in {u \in UnreadyIn(list) :
                      Cardinality({j \in UnreadyIn(list) : j < u}) < MaxBackendEvents}}

\* Mutant: a goroutine whose read fails does not signal the wait group.
backendSnapshotsLeaking(list, then) ==
  /\ ~(ctxDone /\ needEvents(list) # {})
  /\ calls' = calls + Cardinality(needEvents(list))
  /\ podEvents' = podEvents \cup needEvents(list)
  /\ pc' = then
  /\ UNCHANGED <<world, degradations>>

\* The goroutines have returned, each with its own answer.  The context may have
\* ended among them.
backendSnapshots(list, then) ==
  /\ calls' = calls + Cardinality(needEvents(list))
  /\ \E a \in [needEvents(list) -> Answers("ok") \cup (IF MayExpire THEN {"Timeout"} ELSE {})] :
       /\ podEvents' = podEvents \cup {i \in DOMAIN a : a[i] = "ok"}
       /\ degradations' = degradations \cup UNION {degrade("events", a[i]) : i \in DOMAIN a}
       /\ ctxDone' = (ctxDone \/ \E i \in DOMAIN a : a[i] = "Timeout")
  /\ pc' = then
  /\ UNCHANGED <<scenario, present, everAbsent>>

-----------------------------------------------------------------------------
(* The endpoints of a Service: what an answer of either API establishes *)

NoEndpoints == [known |-> FALSE, ready |-> 0, notReady |-> 0]

\* An EndpointSet as it is published, empty if nothing was.
PublishedIf(there, ready, notReady) ==
  [known |-> TRUE, ready |-> IF there THEN ready ELSE 0, notReady |-> IF there THEN notReady ELSE 0]

slicesKnown(a, published) == IF a = "ok" THEN published ELSE NoEndpoints

\* Mutant: endpoints that could not be read are no endpoints.
legacyKnownAlways(a, published) ==
  IF a \in {"ok", "NotFound"} THEN published ELSE [NoEndpoints EXCEPT !.known = TRUE]

\* What is known after a Get of the Endpoints object: its absence is a fact.
legacyKnown(a, published) == IF a \in {"ok", "NotFound"} THEN published ELSE NoEndpoints

-----------------------------------------------------------------------------
(* The rules of the kind: diagnosis.Evaluate *)

\* A finding about the object itself or one it depends on.
OwnFinding(id, about, severity, confidence) ==
  [id |-> id, severity |-> severity, confidence |-> confidence, causedBy |-> NoCause,
   about |-> about, summary |-> "", count |-> 0, total |-> 0, subjects |-> {}]

If(condition, finding) == IF condition THEN <<finding>> ELSE <<>>

RunRule(rules) ==
  /\ pc = "rules" /\ next \in DOMAIN rules /\ ~ctxDone
  /\ findings' = findings \o rules[next]
  /\ next' = next + 1
  /\ UNCHANGED <<world, pc, calls, ownEvents, listing, degradations, podRules, podReport,
                 report, status, exit>>

\* The rules are done, or cut short.
RulesDone(rules) ==
  /\ pc = "rules" /\ (next \notin DOMAIN rules \/ ctxDone)
  /\ findings' = Prioritize(findings)
  /\ pc' = "aggregate"
  /\ UNCHANGED <<world, calls, ownEvents, listing, degradations, next, podRules, podReport,
                 report, status, exit>>

-----------------------------------------------------------------------------
(* The Pod rules over the backends: podrules.Aggregated *)

\* What the Pod rules see of Pod i: its events, and nothing it refers to.
EventsOf(i) == IF i \in podEvents THEN scenario.pods[i].events ELSE {}
snapOf(i) ==
  [pod |-> scenario.pods[i].pod, events |-> EventsOf(i), node |-> "nil",
   configMaps |-> [n \in ConfigMapNames |-> "unread"],
   secrets |-> [n \in SecretNames |-> "unread"],
   pvcs |-> [n \in ClaimNames |-> [exists |-> "unread", phase |-> "none", waits |-> FALSE]]]

\* What the summary of a Pod's finding says beyond its identifier and component.
Says(text, numbers) == [text |-> text, numbers |-> numbers]
Summary(rule, f, i) ==
  LET p == scenario.pods[i].pod
      c == p.containers[f.about]
      tense == IF f.about \in ContainerNames /\ ~c.ready THEN "is failing"
               ELSE IF f.severity = "info" THEN "failed" ELSE "has been failing"
      age == (CHOOSE e \in Latest({e \in EventsOf(i) : e.container = f.about /\
                                     \E k \in e.message.says : k \in ProbeKinds /\ ProbeIDs[k] = f.id},
                                  {"Unhealthy"}) : TRUE).age
  IN  CASE rule = "probe" -> Says(tense, IF tense = "failed" THEN <<age>> ELSE <<>>)
        [] rule = "terminated" /\ f.about \in ContainerNames ->
             Says(IF AwaitingRestart(p) THEN "is waiting to be restarted" ELSE "exited", <<>>)
        [] rule = "restartHistory" -> Says("has restarted", <<c.restarts, c.lastAge>>)
        [] rule = "fallback" /\ p.phase = "Pending" -> Says("Pending", <<scenario.pods[i].age>>)
        [] OTHER -> Says(rule, <<>>)

\* The findings of one rule about Pod i.
Found(rule, fs, i) ==
  SetToSeq({[id |-> f.id, severity |-> f.severity, confidence |-> f.confidence,
             causedBy |-> f.causedBy, about |-> f.about, summary |-> Summary(rule, f, i),
             subject |-> i] : f \in fs})

RunPodRule ==
  /\ pc = "aggregate" /\ pod <= Len(backends) /\ podNext <= Len(RuleNames) /\ ~ctxDone
  /\ \E fs \in Outcomes(podNext, snapOf(backends[pod])) :
       podFound' = podFound \o Found(RuleNames[podNext], fs, backends[pod])
  /\ podNext' = podNext + 1
  /\ UNCHANGED <<world, pc, calls, ownEvents, listing, degradations, next, findings, pod, all,
                 podReport, report, status, exit>>

\* Mutant: a Pod no rule explains is passed over.
NextPodQuiet(explained) ==
  /\ pc = "aggregate" /\ pod <= Len(backends) /\ (podNext > Len(RuleNames) \/ ctxDone)
  /\ all' = all \o Prioritize(podFound)
  /\ pod' = pod + 1 /\ podNext' = 1 /\ podFound' = <<>>
  /\ UNCHANGED <<world, pc, calls, ownEvents, listing, degradations, next, findings, podReport,
                 report, status, exit>>

\* The rules have run over a Pod, or were cut short; what none explains gets the
\* fallback, unless the kind's own rules explain it.
NextPod(explained) ==
  /\ pc = "aggregate" /\ pod <= Len(backends) /\ (podNext > Len(RuleNames) \/ ctxDone)
  /\ all' = all \o (IF podFound = <<>> /\ backends[pod] \notin explained
                    THEN Found("fallback", Fallback(snapOf(backends[pod])), backends[pod])
                    ELSE Prioritize(podFound))
  /\ pod' = pod + 1 /\ podNext' = 1 /\ podFound' = <<>>
  /\ UNCHANGED <<world, pc, calls, ownEvents, listing, degradations, next, findings, podReport,
                 report, status, exit>>

-----------------------------------------------------------------------------
(* The report *)

\* The Pods' findings, merged; the kind may weigh them by its own severity.
PodFindings(weighed) ==
  /\ pc = "aggregate" /\ pod > Len(backends)
  /\ LET aggregated == AggregateByRule(all, Len(backends))
     IN  podReport' = [k \in DOMAIN aggregated |->
           [aggregated[k] EXCEPT !.severity = weighed[aggregated[k].severity]]]
  /\ pc' = "report"
  /\ UNCHANGED <<world, calls, ownEvents, listing, degradations, next, findings, podRules,
                 report, status, exit>>

\* Mutant: Pods without findings are the cause as well.
dominantFindingAlways == IF podReport = <<>> THEN "POD_NOT_READY" ELSE podReport[1].id

dominantFinding == IF podReport = <<>> THEN NoCause ELSE podReport[1].id

\* The most widespread finding about the Pods explains the object's own symptoms.
Explained(symptoms) ==
  [k \in DOMAIN findings |->
     IF findings[k].id \in symptoms
       THEN [findings[k] EXCEPT !.causedBy = dominantFinding]
       ELSE findings[k]]

Report(symptoms) ==
  /\ pc = "report"
  /\ report' = Prioritize(Explained(symptoms) \o podReport)
  /\ status' = DeriveStatus(ToSet(report'), degradations # {})
  /\ pc' = "render"
  /\ UNCHANGED <<world, calls, ownEvents, listing, degradations, next, findings, podRules,
                 podReport, exit>>

IssueFound == status \in {"unhealthy", "degraded"}

\* Rendering may fail after the verdict.
Render ==
  /\ pc = "render"
  /\ pc' = "done"
  /\ \/ exit' = IF IssueFound THEN 1 ELSE 0
     \/ exit' = 2
  /\ UNCHANGED <<world, calls, ownEvents, listing, degradations, next, findings, podRules,
                 podReport, report, status>>

-----------------------------------------------------------------------------
(* What every analysis may say of its run *)

Reported == status # "none"
Told(id) == \E k \in DOMAIN report : report[k].id = id

\* How far the run is, for the contract it keeps.
Stage == CASE pc = "done" -> "done" [] pc = "render" -> "judged" [] OTHER -> "open"

\* "The per-object detail is preserved in Aggregate.Subjects" (aggregate.go:8-10):
\* each finding about a Pod is counted in one finding of the report, under the
\* same identifier and component and with the Pod among its subjects, of which there
\* are as many as it counts: "3 of 3" never becomes "4 of 3" (aggregate.go:12-13).
NothingLost ==
  Reported => \A j \in DOMAIN all :
    Cardinality({k \in DOMAIN report :
                   /\ report[k].id = all[j].id /\ report[k].about = all[j].about
                   /\ report[k].summary = all[j].summary
                   /\ all[j].subject \in report[k].subjects
                   /\ report[k].count = Cardinality(report[k].subjects)}) = 1

\* The finding that explains a symptom is in the report
\* (analyze/service.go:39-47, analyze/deployment.go:36-46,
\* analyze/statefulset.go:31-38, analyze/ingress.go:29-36), even when the rules
\* were cut short.
NoDanglingCause ==
  \A k \in DOMAIN report : report[k].causedBy # NoCause => Told(report[k].causedBy)

\* "The most widespread problem is usually the one to look at first"
\* (aggregate.go:35): the order of the aggregation survives the final sort, so of
\* two findings about Pods that it does not separate the more widespread is first.
WidespreadFirst ==
  \A i, j \in DOMAIN report :
    /\ i < j /\ report[i].count > 0 /\ report[j].count > report[i].count
    => Less(report[i], report[j], Causes(report))

=============================================================================
