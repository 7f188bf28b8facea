# A TLA+ model of kubewhy

`kubectl why KIND NAME` reads one Kubernetes object and what it depends on,
evaluates a fixed list of rules over what it read, and prints one report with a
verdict and an exit code. It is one process that lives for seconds, writes
nothing and asks the API server only for reads. What can go wrong in it is
therefore not corruption. It is a *false statement*: calling an object missing
that may merely not be read, calling something healthy that was not looked at,
saying nothing about what is broken, telling one failure twice, or exiting with
a code that means something else to a script. Those statements depend on partial
failures, on the order of concurrent reads, on objects that change between two
requests, on a deadline that can fall between any two steps, and on a dozen
rules that divide the cases among themselves by conditions written in different
files. This directory models that.

- [Inventory](#inventory)
- [Modules](#modules)
- [Abstract specifications](#abstract-specifications)
- [Model-checked runs](#model-checked-runs)
- [Disagreements between the code and its documentation](#disagreements)
- [Proofs](#proofs)
- [Not modelled](#not-modelled)
- [Plan](#plan)

Run everything from this directory: `tlc -workers 2 -config MCService.cfg
MCService` checks one instance, `tlapm PodAnalysisProofs.tla` one module of
proofs. `PROJECT.json` lists the runs, the lines each definition models, the
hazards, and for each property a mutation of the model that violates it.

## Inventory

| Component (under `src/`) | State it keeps | Operations | Hard behaviour | What makes it correct |
|---|---|---|---|---|
| `cmd/kubectl-why/main.go`, `internal/cli` | the context, `issueFound` | parse, run one analysis, render, exit | a deadline or a signal at any moment; rendering that fails after the verdict | the exit code says what `exit.go` promises |
| `internal/kube/errors.go`, `collect/collect.go` | none | `Classify`, `degrade`, `existence` | a refused read looks like a missing object | only NotFound is an absence; every other failure is booked |
| `internal/collect/*` | the snapshot and its degradations | one function per kind, plus events, owners, endpoints, storage classes, backends | concurrent reads, a mutex and wait groups, partial failure, conditional reads, owner cycles, limits | nothing that failed is forgotten, requests are bounded, the collection ends |
| `internal/snapshot` | one record per kind | predicates the rules use | | predicates agree with the fields |
| `internal/diagnosis/engine.go`, `report.go`, `model.go` | the findings so far | `Evaluate`, `Prioritize`, `DeriveStatus` | the context ends between two rules; a comparison with three keys that depends on all findings | a permutation, causes first, stable; the verdict follows from severities and degradations |
| `internal/diagnosis/aggregate.go` | none | `AggregateByRule` | a key that is too coarse or too fine | no Pod lost or counted twice |
| `internal/diagnosis/rules/pod` | none | eleven rules and a fallback | hand-offs between rules, windows of time, map iteration | no gap, no overlap, causes that are in the report |
| `internal/diagnosis/rules/{service,pvc,deployment,statefulset,ingress}` | none | three to four rules each | depend on reads that failed | no absence invented, no outage passed over |
| `internal/analyze` | none | one report function per kind | rules, backends and fallback in one report | never quiet on what is broken |
| `internal/output`, `internal/format` | none | text and JSON | | presentation |

How they interact: `cli.execute` calls `analyze.Analyze`, which calls the
collector of the kind and hands the finished snapshot to `diagnosis.Evaluate`
with the kind's rules. Services, Deployments, StatefulSets and Ingresses then run
the Pod rules over their Pods (`podrules.Aggregated`) and merge what those have
in common. Only collectors talk to the API server. There is shared state in one
place, the list of degradations that the goroutines of `backendSnapshots` append
to under a mutex. The two goroutines of `collect.Pod` write to variables of their
own, which are joined after the wait.

The hazards this gives rise to are listed under `hazards` in `PROJECT.json`, each
with the line where it bites and the properties that watch it.

## Modules

| Module | Models | Lines of the code |
|---|---|---|
| `Diagnosis` | severities, confidences, `Prioritize` with its three keys and its stability, `DeriveStatus`, the renderer's "consequence" heading | `diagnosis/{model,engine,report}.go`, `output/text.go` |
| `Engine` | `Evaluate` over rules that return anything, with the context ending anywhere | `diagnosis/engine.go`, `rule.go` |
| `Collection` | what an answer of the API server becomes: an existence, a degradation, an exit code | `kube/errors.go`, `collect/collect.go`, `cli/root.go` |
| `Sorting` | what Go's `sort` leaves, said by counting, so that proofs can use it | used all over |
| `Events` | how recorded events become the ones the rules see: one page, the object's own, one shape, sorted, merged | `collect/events.go`, `snapshot/snapshot.go` |
| `PodRules` | the Pod snapshot, the eleven Pod rules and the fallback, as operators from a snapshot to findings | `snapshot/pod.go`, `diagnosis/rules/pod/*` |
| `PodAnalysis` | a whole run of `kubectl why pod` | `cli/root.go`, `collect/pod.go`, `owners.go`, `events.go`, `storageclass.go`, `analyze/pod.go` |
| `ClaimAnalysis` | a whole run of `kubectl why pvc`, its event reads goroutine by goroutine | `collect/pvc.go`, `collect/service.go`, `rules/pvc/pvc.go`, `analyze/pvc.go` |
| `Aggregate` | `AggregateByRule` | `diagnosis/aggregate.go` |
| `Backends` | what the next four share: the first reads, the events of the Pods, `Evaluate`, the Pod rules over every Pod, the report that joins them | `collect/service.go`, `collect/endpoints.go`, `rules/pod/pod.go`, `analyze/service.go` |
| `ServiceAnalysis` | a whole run of `kubectl why service` | `collect/service.go`, `endpoints.go`, `rules/service/*`, `analyze/service.go` |
| `DeploymentAnalysis` | a whole run of `kubectl why deployment` | `collect/deployment.go`, `rules/deployment/deployment.go`, `analyze/deployment.go` |
| `StatefulSetAnalysis` | a whole run of `kubectl why statefulset` | `collect/statefulset.go`, `rules/statefulset/statefulset.go`, `analyze/statefulset.go` |
| `IngressAnalysis` | a whole run of `kubectl why ingress` | `collect/ingress.go`, `rules/ingress/ingress.go`, `analyze/ingress.go` |
| `Analysis`, `BackendReads` | abstract specifications, see [below](#abstract-specifications) | |
| `FindingsProofs`, `PodAnalysisProofs`, `ClaimAnalysisProofs`, `BackendsProofs`, `ServiceAnalysisProofs`, `DeploymentAnalysisProofs`, `StatefulSetAnalysisProofs`, `IngressAnalysisProofs` | theorems, see [Proofs](#proofs) | |
| `MC*` | the instances TLC checks; `MCPods` has the Pods that several of them use | |

`PodAnalysis` and `Backends` compose `PodRules` and `Collection`, `Backends` also
`Aggregate`; all build on `Diagnosis`. The four analyses with Pods extend
`Backends` and add the variables of their own snapshot (`endpoints`; `sets` and
`current`; `service` and `claims`; `class` and `services`), their collectors and
their rules. The actions of `Backends` leave those variables to them.

### The surroundings

The API server, the scheduler of goroutines and the user's patience are external.
A *scenario* fixes what is true of the object: its status, its events, what it
refers to and what of that is absent. Three things happen on their own:

- every request is one step. It is answered from what exists *at that moment*,
  or with one of `Failures` (refused, failed), or, once the context is done, with
  a timeout (`Answers`, `Lookup`, `ListAnswers`);
- `Drift` creates or deletes an object of `Volatile` between any two steps, and
  `everAbsent` records what was absent at some time, which is what "X does not
  exist" has to be measured against;
- `Expire` ends the context (`--timeout`, SIGINT, SIGTERM).

### Correspondence of state and actions

The variables are the program's: `events`, `node`, `configMaps`, `secrets`,
`pvcs`, `endpoints`, `degradations` are the fields of a snapshot; `next` and
`found` (`findings`) the loop of `Evaluate`; `status` and `exit` the report's
verdict and the process's. `pc` is where the main goroutine is; `evPc` and
`ownPc`, `worker` are the other goroutines. `calls` counts requests and
`everAbsent` is history; neither influences a step.

One action is one request with everything the code does with its answer, or one
rule, or the assembly of the report, or the printing. Actions carry the names of
the functions they model where there is one function: `eventsFor`, `ownerChain`,
`collectPodNode`, `storageClassInfo`, `collectClaimConsumers`, `endpointsFor`,
`legacyEndpointsFor`, `backendSnapshots`, `collectStatefulSetPods`,
`collectHeadlessService`, `collectIngressClass`, `PodReport`, `PVCReport`,
`ServiceReport`, `DeploymentReport`, `StatefulSetReport`, `IngressReport`. The shared append of `backendSnapshots` is
split: `Lock` takes the mutex and reads the list, `Book` appends to what was read
and releases it, so that a missing mutex would lose an entry.

### What is abstracted

- Findings keep identifier, severity, confidence, cause and the thing they are
  about; explanations, evidence and suggestions are left out. A *summary* matters
  to the aggregation, whose key contains it, so there it is what its text depends
  on beyond identifier and component: tense, age, number of restarts. Two kinds of
  summary are coarser: the exit code and the time a Pod has been terminating are
  not in the model.
- A message of the scheduler or the kubelet is the set of topics its parser
  recognises in it (`classifyScheduling`, `dominantID`, `probeKinds`,
  `classifyImageFailure`) and its length, because the image rule prefers the
  longest.
- Times are ages in units of the window that separates current from past
  failures; a value on each side of a boundary is enough to tell `<=` from `<`.
- The events of a scenario are the ones that `Events` leaves.
- An Ingress path is a Service and a port; hosts and path types do not matter to
  any rule. A Deployment's conditions are what the rule reads of them. The claims
  of a StatefulSet share one storage class.
- A container waits for its image for one of three reasons out of six. The other three
  (`ErrImagePull`, `ImageInspectError`, `RegistryUnavailable`) are treated as
  `ImagePullBackOff` is, by the text of the message.
- The Pods of a StatefulSet have ordinals. Its controller neither creates nor adopts
  others; the code would sort them by name (`collect/statefulset.go:80`).
- A Pod that two Services of an Ingress select is two Pods of the scenario. The code
  counts it twice under one name, too.
- Degradations are sets of resource and reason, which is how `Collection.Degrade`
  deduplicates them.
- An operator that stands for an iteration over a Go map is a set of outcomes
  (`Outcomes`, `SchedulingCauses`), because Go randomises the order.

## Abstract specifications

`Analysis` says what any run of `kubectl why` promises, in four steps: the cluster
may lose objects (`Vanish`); the run ends because the object itself cannot be read,
with a code that says why (`Refuse`); or it is judged once (`Judge`), where nothing
is called missing that was not missing at some moment, nothing is healthy that was
not completely looked at, nothing unknown that was; and it exits with a code that
follows from the verdict (`Exit`). At no time has it made more requests than the
documentation of its kind allows (`overspent`), and it comes to an end (`Ends`). Every
analysis instantiates it with a refinement
mapping (`Contract`) that says, for its kind, which objects a report calls missing,
when the reading was complete and what it may cost, and is checked to implement it
(`ContractKept`).
The mapping of `incomplete` speaks of what was read and not of the list of
degradations wherever the two could differ, so that a failure that is not booked
breaks the refinement.

`BackendReads` says what `backendSnapshots` promises its callers: in one step, each
Pod that needs events has them or has its failure in the collection, for good. The
goroutines of `ClaimAnalysis`, with their mutex and their wait group, implement it
(`ReadsAreOneStep`), which is why the four analyses on `Backends` may take the call
for one step.

## Model-checked runs

Every run below passes. "Mutated" means that the property was also seen to fail
on a plausible bug, which `PROJECT.json` names. The type invariants of the Pod and the
claim analysis, `TypeOK`, are checked here and proved below.

### `engine` (`MCEngine`): 1 176 490 states

Two rules that return any sequence of up to two findings, from eighteen possible
ones that can explain one another in chains, in cycles and across severities; the
context ends anywhere.

- `NothingLost`: the report is a permutation of what the rules that ran found, and it
  is cut short only by the context.
- `OrderInTier`, of three parts, each among the findings of one severity and for every
  graph of causes. `CauseFirstInTier`: a finding that explains nothing comes after all
  that explain something, and after all that nothing explains if it is itself
  explained; the text renderer then announces it as a consequence.
  `ConfidentFirstInRole`: among explanations, and likewise among the rest, the more
  confident come first. `RegistrationOrderInRole`: what agrees in all of it keeps the
  order of the rules. Of a chain or a cycle of causes every link that explains
  something counts as an explanation, in the code as here, so its links follow
  confidence and registration and not the direction of the chain. Across severities the
  severity decides (see the disagreements).

Two rules with two findings suffice for these to matter: each is about a pair of
findings and the causes among the others, and four findings give a pair and a chain.

### `events` (`MCEvents`): 41 061 states

All lists of up to two events, and many of three and four, of the three shapes in
which components record them (core, `events.k8s.io`, series), with repeated
messages that differ in trailing space, for this object, for a predecessor of the
same name, for another object; a server that honours the field selector or ignores
it; `EventLimit` = 3 (200 in the code), so that a list can exceed it.

- `ToldAsRecorded`, of three parts. `NoneForeign`: whatever is told was recorded about
  this object, in these words and at this time, although another object's events or a
  predecessor's are in the list. `EachToldOnce`: by a reference definition from the
  stored events, each thing recorded is told once, with its latest and its earliest time,
  whichever API recorded each repetition. `RecentFirst`: merging keeps the order from
  most to least recent.
- `AllCounted`: what is told happened as often as all its repetitions together.

### `pod_faults` (`MCPodFaults`): 577 878 states

Nine Pods, each chosen because its symptoms make the collector read one more kind
of object (a missing ConfigMap, a failing mount, two claims with a named and a
default class, a lost volume, an owner, an owner that owns itself, a finished Job,
a recovered OOM kill, a bad node). Every request can be refused, fail or time out;
the Pod, a ConfigMap and a claim appear and disappear at any time; both goroutines
interleave in every way; the context ends anywhere.

- `NoFalseAbsence`: what is reported missing was missing at some moment of the
  run, and exit code 3 means that the Pod was.
- `HealthyMeansLooked`: "healthy" rests on a complete reading: neither a failure
  in a goroutine nor one in a collector is dropped on the way.
- `ExitContract`: 0 and 1 agree with the severities, 3 and 4 speak of the Pod only.
- `NeverQuiet`: a Pod that is neither ready nor finished gets a finding, even when
  no rule had the time to run.
- `ContractKept`: the Pod analysis implements `Analysis`: a ready Pod without warnings
  costs two requests and one for each owner, and every run ends with an exit code,
  cyclic owner references and all.

`MaxOwnerDepth` has the code's value. The other bounds (one ConfigMap, one Secret,
two claims) are enough because a read of one name does not depend on another's,
except in the scheduling rule's choice between two claims.

### `pod_states` (`MCPodStates`): 124 727 states, 4 871 Pods

No failures here: the question is the rules. All combinations of role, container
state, readiness, zero to two restarts, last termination and age on either side of
the window that a kubelet can report, under each restart policy and phase, next to
a second container; all pairs of probe failures; image failures; the scheduler's
messages with two claims in every state; stuck Pods with every subset of their
references missing.

- `FailuresClaimed`: the hand-offs between the OOM, crash loop, terminated, image
  and configuration rules have no gap.
- `OneRulePerStop`: nor do they overlap (sidecars of Pods that never restart
  excepted, see below).
- `NoDanglingCause`: a named cause is in the report.
- `HistoryIsNoVerdict`: old crashes and probe failures of a ready Pod do not make
  it an issue.

Two restarts are the threshold of a crash loop, so zero, one and two are all the
rules distinguish.

### `claim` (`MCClaim`): 1 082 016 states

Claims in every phase, with no class, a named and a default one that wait or do
not, and with no Pods, a stranger, a ready consumer, or three unready consumers of
which `MaxBackendEvents` = 2 (8 in the code) have their events read: one more than
the limit, and two goroutines competing for the mutex with different failures.

- `EveryFailureBooked`: no failure of two simultaneous ones is overwritten.
- `ReadsAreOneStep`: the goroutines implement `BackendReads`.
- `ContractKept`: with "no consumer" among the absences; at most four requests and one
  for each of `MaxBackendEvents` Pods, two for a bound claim; and no goroutine keeps
  the mutex or is missed by the wait group, so that every run ends.
- `NeverQuiet`, `NoDanglingCause`: as for Pods.
- `WaitingIsNoFault`: a claim whose class waits for a consumer and that has one
  is no issue.

### `service` (`MCService`): 145 724 states

DNS aliases, Services with a selector and without; endpoints that agree with the
Pods or do not; the discovery API served or not; up to three Pods: ready, failing
a probe that only their events tell, killed for memory, killed and back, crashing
in both containers, Pending for different times. The Pods may be created or
deleted during the run, and the context ends between any two rules of any Pod.

- `ContractKept`: whichever endpoints API answered; "no Pods" and "no ready
  endpoints" are absences; however many Pods there are, five requests and one for each
  of `MaxBackendEvents` of them suffice.
- `OutageReported`: when Pods and endpoints were read, the division of labour
  between the selector and the endpoints rule leaves no Service without ready
  endpoints unreported.
- `RoutingIsNotBroken`: while an endpoint is ready, broken Pods degrade the Service
  and do not make it unhealthy.
- `NothingLost`: each finding about a Pod is counted in one finding of the report,
  whose count is the number of its subjects.
- `NoPodForgotten`: each listed Pod that is not working is a subject of the report.
- `NoDanglingCause`: holds here even when the rules are cut short.
- `WidespreadFirst`: the order of the aggregation survives the final sort.

The last four are about `Backends` and `Aggregate`, which the next three runs share.

Three Pods with a limit of two show one Pod beyond the limit, and counts of one,
two and three. `Failures` is reduced to "refused" here, since the code treats
"failed" alike wherever an answer is not the requested object's own.

### `deployment` (`MCDeployment`): 455 056 states

Zero to three replicas wanted, or the number left to its default, with all, some or
none available; paused or not; each condition of the controller; up to three
ReplicaSets, owned and not, with revisions 2 and 10, unreadable and without; up to
three Pods, of the Deployment and of others; a selector that cannot be parsed.
ReplicaSets and Pods come and go between the two lists.

- `CurrentIsTheRevision`: of all ReplicaSets listed, in any order, the current one is
  that of the Deployment's revision, or else the newest by number.
- `GapReported`: a Deployment that lacks replicas is an issue and one that has none is
  unhealthy, also when neither ReplicaSets nor Pods could be read.
- `IntentIsNoFault`: a paused or scaled-down Deployment is unhealthy only for a
  complaint of its controller or for a Pod.
- `ContractKept`: if the report says that no Pods exist then either there was a moment
  without any, or the same report discloses that they could not be listed (`Missing`,
  `PodsUnread`). Without such a disclosure it would be false; that it is said at all is
  one of the disagreements. Four requests and one for each of `MaxBackendEvents` Pods
  suffice.

### `statefulset` (`MCStatefulSet`): 489 571 states

Up to three replicas and two claim templates; Pods with ordinals 2 and 10 in the
server's order, missing in the middle, of another owner; claims in every phase, of a
class that waits or not, missing or unreadable; each kind of governing Service; each
update strategy, with a partition and without; a selector that cannot be parsed. The
list of Pods comes and goes.

- `BlockerIsLowest`: the replica that is said to hold up the others is the lowest
  that is not ready.
- `ReplicaToldOnce`: a replica that is not ready is told of, by its claim or as a Pod,
  and not by its claim and the fallback: the suppression of the fallback agrees with
  the claim rule. That it is told is stated for reports whose rules all ran.
- `HeldIsNotStuck`: a set that works is no issue, whatever holds its rollout.
- `ContractKept`: claims and the Service are among the absences; no claim is read for
  a set whose Pods are ready, otherwise at most two requests for each ordinal and
  template.

### `ingress` (`MCIngress`): 332 876 states

Up to three paths, to no Service, to one Service twice with different ports and to
two; Services of every kind, ExternalName with a selector included, whose endpoints are
ready, partly, not or unreadable by either API; Pods behind one or both, two unready ones
behind one; with an address, without one for a short and a
long time, with a class that is named, annotated or left to the default. The Pods and
the endpoints of one Service come and go.

- `BrokenBackendToldOnce`: a Service has one finding if a path to it is dead, as far
  as the links could be read, and else none, however many paths lead there.
- `AddressToldOnce`: an Ingress that waits too long for an address gets one finding
  about that, by the class rule or the address rule, whatever could be read.
- `ServedIsNoIssue`: an Ingress that is served is no issue, whatever its Pods suffer.
- `ContractKept`: every link that is called missing was; at most four requests and
  the Pods' events for each *Service*, however many paths lead to it.

`MaxBackendEvents` is 2 for a Deployment, with three unready Pods, and 1 for a
StatefulSet and for an Ingress, with two (for the Ingress, behind one Service, since
the limit is per Service): in each run one unready Pod is beyond the limit. The findings of two Pods already merge, compete for the cause and leave
one to be forgotten; nothing in the code depends on a third.

### Fairness

`FairSpec` is weak fairness of `Step`, the program's own steps, and of nothing
else: neither `Expire` nor `Drift` has to happen. The code justifies it: each
request returns, because client-go bounds it by the context and the context has a
deadline (`cli/root.go:198`, `kube/client.go`); the goroutines are run by Go's
scheduler; everything else is straight-line code. No fairness among goroutines is
needed, since each takes finitely many steps. Deadlock is checked in every run;
a finished process is represented by the stuttering action `Terminated`.

## Disagreements

Each of the following runs ends in a counterexample. The property states what a
comment or a page of the documentation says, and the code does something else.

| Run | The documentation | The code |
|---|---|---|
| `docs_not_ready_is_not_healthy` | `docs/rules/POD_NOT_READY.md:12`: a tool that goes quiet teaches that silence means fine | an observation about the past suppresses the fallback (`analyze/pod.go:38`), so a Pod that is not ready and restarted long ago is *healthy*, exit 0 |
| `docs_outage_always_reported` | `service/rules.go:118-119`: a Service without backends is reported by the selector rule | when Pods may not be listed, neither rule reports a Service known to have no ready endpoint; empty report, exit 0 |
| `docs_cause_is_behind_the_route` | `analyze/ingress.go:29`: the Pods explain why a backend has no endpoints, so link the two | every Service without endpoints gets the same cause, that of another Service's Pod included (`analyze/ingress.go:33`) |

Others met while modelling, each confirmed by reading or with a counterexample of
TLC, without a run of their own:

- `cli/exit.go:6` says that 0 means the resource was analysed, and
  `docs/architecture.md:105` that a timeout exits with 2; a deadline that passes
  after the last request skips all rules silently (`diagnosis/engine.go:14`), exit 0.
- `docs/architecture.md:5` says that rules are deterministic; `scheduling.go:92`
  picks a cause in the order of a map.
- `docs/rules/PVC_LOST.md:3` says critical; a Lost claim of a class that waits for
  consumers is an observation of its Pod (`snapshot/pod.go:54`).
- `terminated.go:48-50` leaves repeated failures to the crash loop rule; a crashing
  sidecar of a Pod with restart policy Never gets both findings.
- `pvc.go:222-223` says that provisioning has not failed, so the claim is simply
  waiting; the rule looks at neither events nor phase, so one report can say that the
  claim failed and that it waits.
- `docs/rules/STATEFULSET_CLAIM_NOT_BOUND.md:18` speaks of a claim that should exist;
  the claims of all ordinals are read (`collect/statefulset.go:117`), so the claim of
  a replica that the ordered start has not reached is a critical finding.
- "The Deployment asks for Pods and none exist" (`rules/deployment/deployment.go:257`)
  is also said when the Pods could not be listed, against `collect/collect.go:41-42`.
- `engine.go:22-24` says a cause precedes its consequences; across severities it
  does not, since severity is the first key (`:55`): the critical finding about a
  Service without endpoints precedes the warning about its Pods that is its cause.
- `snapshot/deployment.go:28` says the Pods are those the Deployment owns; they are
  selected by label and not filtered by owner (`collect/deployment.go:54-60`), unlike
  its ReplicaSets and a StatefulSet's Pods, so that a stranger's broken Pod makes an
  available Deployment unhealthy.
- A paused Deployment is a warning, hence an issue, though its rule's description
  (`rules/deployment/deployment.go:65-66`) calls the state an observation.
- The ordering rule counts lower ordinals that are missing among the replicas held up
  by the blocker (`rules/statefulset/statefulset.go:124`), and `MissingOrdinals`
  ignores `spec.ordinals.start`.
- `collect/pod.go:19-21` says a healthy Pod costs two calls; an owned one costs one
  more for each owner.
- `statefulset.go:409-410` says that the rule about missing replicas stays silent for a
  set held back by a partitioned update; `evaluateAvailability` does not look at the
  partition.
- `oom.go:31` reports OOM kills of finished Pods, which `terminated.go:34` and the
  others leave alone.
- A claim whose storage class may not be read is critical for its Pod
  (`claim.go:99`), although it may only be waiting.
- When the context ends before the last claim rule, a Lost claim gets an empty
  report (`pvc.go:321`), although `PVC_PENDING.md` promises never to go quiet.
- The claim fallback's text asserts things about a class that may not have been
  read (`pvc.go:331`).
- Aggregation leaves severity out of its key, so a merged finding has the severity
  of the first Pod of the list.
- The event limit takes the first page, not the most recent events
  (`events.go:17-19`). The field selector asks for the UID, so events recorded
  without one, which `matchesObject` would accept, are not returned.
- `Collection.Degrade` keeps the first entry per resource and reason, so the
  purpose of a second failed read of the same resource is not told.

## Proofs

TLAPS checks these for *every* set of scenarios, names, owners, failures and
volatile objects that satisfies the assumptions below, and for any number of
findings, events, Pods, ReplicaSets, replicas, claim templates, paths, Services and
goroutines. A theorem named after a property of a run says of every instance what the
run shows of one.

### From which assumptions

TLC evaluates each on every run whose module has it.

| Assumption | Says | Because |
|---|---|---|
| `EngineAssumption` | findings have ranked severities and confidences and an identifier that is not the empty cause | identifiers are constants of the rule files |
| `EventsAssumption` | the recorded events are lists, their times and counts numbers, and a page holds at least one | typing |
| `ShapesAssumption` (`Events`) | an event has a first and a last time in that order, or a time, or a time and a later end of its series | the core API, `events.k8s.io` and its series (`events.go:82-83`) |
| `NamesAssumption`, `WindowAssumption` | the names a Pod refers to are finitely many; the window is a number | they come from one API object |
| `AnalysisAssumption`, `ClaimAssumption`, `BackendsAssumption`, `ServiceAssumption`, `DeploymentAssumption`, `StatefulSetAssumption`, `IngressAssumption` | scenarios are of the type the module gives; lists are sequences; limits are numbers | typing |
| `LawfulAssumption` (`PodAnalysis`) | only a node runs a Pod, an eviction fails it, no container of a ready Pod waits, and where nothing restarts only sidecars do | the API server and the kubelet; without it the rules do overlap on Pods that cannot exist |
| `KubeletAssumption` (`StatefulSetAnalysis`) | a Pod that is ready is on a node, was not evicted, and its containers run or have completed | the kubelet publishes readiness from the state of the containers |

`LawfulAssumption` is what `StopsToldOnce`, `HistoryExcused` and the bound on requests
(`CostInv`, in the Pod's `ContractSafe`) rest on. No other argument uses it, although
`PodInv` proves the parts of the Pod's invariant together. `KubeletAssumption` serves
`HeldIsWorking` alone: without it a Pod could be ready and failing at once, and an
`OnDelete` rollout that holds would be reported because of it.

### Operators

`FindingsProofs`
: `PrioritizePermutes`: for lists of any length, `Prioritize` is a bijection on
  positions, sorted by the comparison function, ties as they came in. The model sorts
  by counting, so the argument is that `Precedes` is a strict total order
  on positions and that the number of predecessors is therefore a bijection.
: `AggregateKeeps`: each finding is told in the aggregated one of its key with its
  subject, and nothing else is told: what `aggregate.go:8-10` promises, of the
  operator alone.
: `RulesGrounded`: whatever the snapshot, a finding of any of the eleven rules is
  well formed, and one that calls a ConfigMap, a Secret or a claim missing is
  about one that the snapshot records as missing.
: `RulesHaveSymptoms`: no finding without its symptom in the snapshot.
: `RulesKnowCauses`: a cause that the scheduling, mount or configuration rule infers
  is one that the configuration or the claim rule reports of the same snapshot. The
  hypothesis `PhaseIsRead` (the phase of a claim is known only if it was found) is an
  invariant of the collector.
: `RulesSpeakOnce`: a rule makes at most one finding of an identifier about a
  component.

The last four have one lemma per rule or group of rules.

### The engine

`PodAnalysisProofs`, in a section of its own
: `ReportComplete` and `TierOrdered`, `[]NothingLost` and `[]OrderInTier`. `EngineInv`
  says that each finding occurs so far as often as the rules before `rule` returned
  it, that a report is the sorted form of that, and that it is cut short only when the
  context is done; `PrioritizePermutes` does the rest, with `WeightIsRole` for what the
  second key says of the role of a finding in the graph of causes.

### The events

`PodAnalysisProofs`, in a section of its own, for lists and pages of any length
: `EventsAsRecorded`: `[]ToldAsRecorded`, from `NoForeignEvents`, `EventsToldOnce` and
  `RecentEventsFirst`, one for each of its parts. `EventsInv` follows an event through the loops:
  what is listed is the normal form of a recorded event about the object and of the page;
  what `matchesObject` let through is listed; each thing told has its last time from one
  listed event and its first from another (or the same); what `Dedup` has looked at is
  told, as recently and as far back; what it has still to look at is not more recent than
  anything told, which is why appending keeps the order and merging may ignore the last
  time. None of the three parts is inductive alone. `SortRecent` says that the sort
  is a permutation along the order, from `Numbering`; `PageIsRecorded` that a list which
  fits a page is all on it. Only `EventsToldOnce` needs `ShapesAssumption`.

### The Pod analysis

`PodAnalysisProofs`
: `TypeCorrect`: the state stays well formed; the owner walk never exceeds
  `MaxOwnerDepth` whatever cycle the references form. `TypeOK` is inductive as it
  stands.
: `AbsenceIsReal`: `[]NoFalseAbsence`. Not inductive alone: the rules speak of the
  snapshot, not of the cluster. `AbsenceInv` adds that each "missing" in the
  snapshot, and each object absent now, is in `everAbsent`; `RulesGrounded` carries
  it from the snapshot to the findings.
: `HealthIsComplete`: `[]HealthyMeansLooked`. `LookedInv` says what each stage of
  the collection has established: the goroutines hold their answer or a failure,
  each failure is among the degradations once they are joined, no collector is left
  with names to read, and a healthy report has no degradations.
: `ExitCodesKept` and `SilenceMeansReady`: `[]ExitContract` and `[]NeverQuiet`, from
  `VerdictInv`, which ties the verdict to the findings and the findings to the Pod's
  readiness. They hold in particular when the context ends before any rule.
: `CausesAreTold`, `NoFailureUnclaimed`, `StopsToldOnce`, `HistoryExcused`:
  `[]NoDanglingCause`, `[]FailuresClaimed`, `[]OneRulePerStop`,
  `[]HistoryIsNoVerdict`. These are about the rules among themselves. `FoundInv`
  says that an outcome of each rule before `next` is among the findings and that each
  finding is an outcome of some rule, or of the fallback, over the snapshot as it is now;
  `SymptomInv` that nothing was read that the symptoms did not call for. Each theorem
  is then a case analysis over pairs
  of rules, with `RulesHaveSymptoms` giving for each finding the state of its
  container, and the symptoms excluding one another (or, for `FailuresClaimed`,
  covering the cases).
: `ContractSafe`: `Spec => Contract!Safety`, the safety part of the refinement that
  the run checks as `ContractKept`: each step of the Pod analysis is a step of
  `Analysis` or leaves its variables alone.

### The claim analysis

`ClaimAnalysisProofs`
: `TypeCorrect`: includes mutual exclusion: a goroutine is booking if and only if it
  holds the mutex. `NoFailureLost`: `[]EveryFailureBooked` for any number of
  goroutines. Both come from `WorkersInv`, whose point is that the copy a goroutine
  made of the list is still the list when it appends to it.
: `ReadsAtomic`: the goroutines implement `BackendReads`. The abstract step is
  `Wait`, in which `backendSnapshots` returns. `JoinInv` adds to the above that
  a goroutine was started for exactly the consumers that need events and that none is
  under way once the rules run, so that nothing changes afterwards.
: `SilenceMeansBound`, `CausesAreTold`, `WaitingExcused`: the claim's `NeverQuiet`,
  `NoDanglingCause` and `WaitingIsNoFault`, from an invariant that ties the class and
  the consumers of the snapshot to the scenario and the findings to the snapshot.
: `ContractSafe`: the safety part of `Analysis`, with its bound on requests for any
  number of goroutines and Pods.

### The analyses with Pods

`BackendsProofs` has no theorem of its own. It proves once, with the rules and the
weights of severities as parameters, what the kinds share:

- `ListedInv`: the backends are distinct Pods of the scenario;
- `EvaluationInv(rules, explained, weigh, symptoms)`: what has been found so far is
  what the rules before `next`, and over the Pods before `pod` the Pod rules or, for
  the Pods the kind's own rules do not explain, the fallback, make of the snapshot; the merged findings are the aggregation of those; the report is the
  sorted concatenation of both with the dominant cause filled in. The snapshot does
  not change once the rules look at it, which is why each collector's case only has
  to show that nothing has been found yet;
- `OnceInv`: no Pod has two findings with one key, by `RulesSpeakOnce` and because the
  rules' summaries differ, so that a count is a number of subjects;
- `ListInOrder`: sorting by counting puts each element where as many come before it;
- what a failed read of the Pods' events books and how many such reads there are.

`ServiceAnalysisProofs`
: `ServiceInv` is `EvaluationInv` for the Service's rules with the types of its
  endpoints. From it: `CausesAreTold`, `PodFindingsKept`, `WidespreadLeads`,
  `PodsRemembered`, `RoutingExcusesPods` and `OutageIsTold`, for `NoDanglingCause`,
  `NothingLost`, `WidespreadFirst`, `NoPodForgotten`, `RoutingIsNotBroken` and
  `OutageReported`.
: `ContractSafe` needs more, `CollectedInv`: what the snapshot says of Pods and
  endpoints was so at some moment (`SnapshotInv`), the degradations are empty exactly
  when everything asked for was read (`DegradedInv`), and each step has its number of
  requests behind it (`CostInv`).

`DeploymentAnalysisProofs`
: `DeploymentInv` adds to the same that the ReplicaSets kept are none or those of the
  Deployment and that the current one is taken from them. `CurrentFound`
  (`[]CurrentIsTheRevision`) also needs `OwnedInOrder`: sorting any number of
  ReplicaSets by counting puts the highest revision first. `GapIsTold` and
  `IntentExcused` give `GapReported` and `IntentIsNoFault`; `CausesAreTold` and
  `PodFindingsKept` what they give for Services; `ContractSafe` the safety part of
  `Analysis`, from a `CollectedInv` of the same shape with one part more:
  `DisclosedInv` says that once the rules run, Pods that were not listed are among the
  degradations. That is what a report which says that no Pods exist falls back on
  when there was no moment without Pods.

`StatefulSetAnalysisProofs`
: `StatefulSetInv` adds to `ListedInv`, `EvaluationInv` and `OnceInv` that the replicas
  are in the order of their ordinals (`OrderedInv`) and that the loop over ordinals and
  claim templates has read a prefix of what it has to, each claim once (`ClaimsInv`).
  The loop is one counter in the model, so `PlaceOfClaim` and `ClaimOfPlace` first show
  that division and remainder relate places and pairs one to one.
: `BlockerFound` (`[]BlockerIsLowest`): the first replica of an ordered list that is not
  ready is the lowest (`FirstIsLowest`), for any number of replicas.
: `ReplicasToldOnce` (`[]ReplicaToldOnce`): a replica that the kind's own rules explain
  gets no fallback, so that it needs the parameter `explained` above and, for each row,
  whether a rule or the fallback made it.
: `HeldIsWorking` (`[]HeldIsNotStuck`): if all replicas are ready then, by counting,
  none is missing (`NoneMissing`), no claim was read (`NoClaimsRead`), and by
  `RulesHaveSymptoms` what the Pod rules find is for information only (`NothingGrave`).
: `CausesAreTold`, `PodFindingsKept` and `ContractSafe` as for the other kinds; here
  `CostInv` counts two requests for each claim.

`IngressAnalysisProofs`
: `IngressInv` adds to the shared parts that nothing is known of a Service which the
  loop over the paths has not come to, that endpoints are known only of a Service that
  was found and Pods only of one with nothing ready (`ServicesInv`), that the loop comes
  to every Service before the rules run (`LoopInv`), and that no finding is made twice.
  `ServicesMet` gives the loop its meaning: the first paths to each Service, in order,
  meet each Service once. `ReadsLeave` says for the five reads of a Service together
  what each leaves known of it.
: `BackendsToldOnce` (`[]BrokenBackendToldOnce`): a Service has a finding exactly if some
  path to it is dead (`BrokenIsDead`, where the port of *any* path counts), findings
  about two Services differ, and sorting and merging neither repeat nor drop one
  (`ToldInOnePlace`).
: `AddressesToldOnce` (`[]AddressToldOnce`): what the class rule and the address rule
  look at excludes one another and leaves nothing out.
: `ServedIsWorking` (`[]ServedIsNoIssue`): a Service with a ready endpoint has no Pods in
  the snapshot, so nothing can be found about them.
: `CausesAreTold`, `PodFindingsKept` and `ContractSafe` as for the other kinds. Here
  `BookedInv` is an equivalence, the degradations are empty exactly when all that has
  been asked for was read, and what makes it inductive is that the Pods of one Service
  are not those of another: no later read can make up for one that failed. `CostInv`
  charges each Service four requests and its Pods' events, and `NotOverspent` compares
  the number of Services met with the number the paths name.

### Only model-checked

- Liveness: that every run ends (`Ends` of `Analysis`, under `FairSpec`) is out of
  the prover's reach. It is the part of `ContractKept` that `ContractSafe` leaves out.
- `AllCounted` of `Events`: the sum of occurrences is a fold over a set, and what it
  computes for every list needs induction over data.

## Not modelled

- The sections and headlines of a report (`internal/analyze`): they print what the
  snapshot holds and change nothing.
- Text and JSON output, colours, terminals, durations (`internal/output`,
  `internal/format`): no state, and no property here is about them, but for the
  heading that calls a finding a consequence.
- Kind aliases and kubeconfig loading (`internal/kube/resolver.go`, `client.go`):
  table lookups and client-go.
- `kubectl why rules` and `version`, the test fixtures in `internal/kubetest`, the
  release scripts in `hack/`.

## Plan

1. *Done*: the engine, the Pod analysis with its rules, the claim analysis with its
   goroutines, aggregation and the Service analysis; type correctness and the main
   safety properties of the Pod analysis and of the goroutines proved.
2. *Done*: the abstract `Analysis`, implemented by all six analyses, and the abstract
   `backendSnapshots`, implemented by its goroutines.
3. *Done*: what the analyses with Pods share, in `Backends`; the Deployment, the
   StatefulSet and the Ingress analysis; `Events`.
4. *Done*: the refinement of `BackendReads` for any number of goroutines; the safety
   part of `Analysis` for all six kinds, their cost bounds included; every invariant of
   their runs; `Prioritize`, the aggregation and the engine.
5. *Done*: `Events`, but for the sum of the counts.
