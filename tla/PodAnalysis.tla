----------------------------- MODULE PodAnalysis -----------------------------
(***************************************************************************)
(* One run of `kubectl why pod NAME`: cli.execute, collect.Pod, the engine *)
(* over the Pod rules, analyze.PodReport and the exit code.                *)
(*                                                                         *)
(* The API server is external.  Every request is one step that is answered *)
(* from what exists at that moment, is refused, fails, or, once the        *)
(* context is done, times out; objects appear and disappear between        *)
(* requests.  Two reads run in goroutines of their own: the Pod's events   *)
(* and its chain of owners.                                                *)
(***************************************************************************)
EXTENDS PodRules, Collection

CONSTANTS Scenarios,      \* what may be true of the Pod and of what it refers to
          Owners,         \* the controllers
          OwnerKind,      \* Owner -> kind
          Parent,         \* Owner -> the controller that owns it, or NoOwner
          MaxOwnerDepth,  \* maxOwnerDepth
          Volatile,       \* the objects that come and go during the run
          Failures,       \* how a request may fail while the context lives
          MayExpire       \* whether the deadline or a signal can end the context

NoOwner == "no owner"
OwnerKinds == {"ReplicaSet", "Job", "Deployment"}

\* The objects a run may ask the API server for by name.
Objects ==
  {<<"pod", "it">>, <<"node", "its">>}
  \cup ({"configmap"} \X ConfigMapNames) \cup ({"secret"} \X SecretNames)
  \cup ({"claim"} \X ClaimNames) \cup ({"class"} \X ClaimNames) \cup ({"owner"} \X Owners)

\* What is true of a claim: its phase, how it asks for a storage class and
\* whether that class waits for the first consumer.
ClaimTruth == [phase : ClaimPhases \ {"none"}, class : {"none", "named", "default"},
               waits : BOOLEAN]

Scenario ==
  [pod : Pod, events : SUBSET Event, node : {"ready", "notReady"},
   owner : Owners \cup {NoOwner}, claims : [ClaimNames -> ClaimTruth],
   absent : SUBSET Objects]

ASSUME AnalysisAssumption ==
  /\ Scenarios \subseteq Scenario
  /\ OwnerKind \in [Owners -> OwnerKinds]
  /\ Parent \in [Owners -> Owners \cup {NoOwner}]
  /\ NoOwner \notin Owners
  /\ MaxOwnerDepth \in Nat
  /\ Volatile \subseteq Objects
  /\ Failures \subseteq {"Forbidden", "Error"}
  /\ MayExpire \in BOOLEAN

\* What the API server and the kubelet see to in every Pod: only a node runs one,
\* an eviction fails it, a ready one waits for none of its containers, and where
\* nothing is restarted only sidecars are.
Lawful(p) ==
  /\ p.phase = "Running" => p.bound
  /\ p.evicted => p.phase = "Failed"
  /\ podIsReady(p) => \A n \in ContainerNames : ~Waiting(p.containers[n])
  /\ p.restartPolicy = "Never" =>
       \A n \in ContainerNames :
         p.containers[n].role # "sidecar" => p.containers[n].restarts = 0

ASSUME LawfulAssumption == \A s \in Scenarios : Lawful(s.pod)

Resources == {"events", "replicasets", "jobs", "nodes", "configmaps", "secrets",
              "persistentvolumeclaims", "storageclasses"}
Degradation == [resource : Resources, reason : Reasons]

VARIABLES
  scenario,    \* the Pod and the facts about its surroundings
  present,     \* the objects that exist now
  everAbsent,  \* the objects that were absent at some time (history)
  ctxDone,     \* the deadline passed or a signal arrived
  pc,          \* where the run is
  calls,       \* how many requests it made
  evPc, evs, evErr,              \* the goroutine that lists events, its results
  ownPc, owner, chain, ownColl,  \* the one that walks the owners, its results
  events, node, configMaps, secrets, pvcs,   \* the snapshot
  degradations,                  \* what the snapshot could not read
  claim,       \* the claim whose storage class is to be read
  next, found, \* the rule the engine is at, what the rules before it found
  status, exit \* the verdict and the exit code

world == <<scenario, present, everAbsent, ctxDone>>
walk == <<evPc, evs, evErr, ownPc, owner, chain, ownColl>>
snapshot == <<events, node, configMaps, secrets, pvcs>>
verdict == <<next, found, status, exit>>
vars == <<world, pc, calls, walk, snapshot, degradations, claim, verdict>>

snap == [pod |-> scenario.pod, events |-> events, node |-> node,
         configMaps |-> configMaps, secrets |-> secrets, pvcs |-> pvcs]

NoClaim == "no claim"
UnreadClaim == [exists |-> "unread", phase |-> "none", waits |-> FALSE]

Init ==
  /\ scenario \in Scenarios
  /\ present = Objects \ scenario.absent
  /\ everAbsent = scenario.absent
  /\ ctxDone = FALSE
  /\ pc = "start"
  /\ calls = 0
  /\ evPc = "idle" /\ evs = {} /\ evErr = "none"
  /\ ownPc = "idle" /\ owner = NoOwner /\ chain = <<>> /\ ownColl = {}
  /\ events = {} /\ node = "nil"
  /\ configMaps = [n \in ConfigMapNames |-> "unread"]
  /\ secrets = [n \in SecretNames |-> "unread"]
  /\ pvcs = [n \in ClaimNames |-> UnreadClaim]
  /\ degradations = {}
  /\ claim = NoClaim
  /\ next = 1 /\ found = {} /\ status = "none" /\ exit = -1

-----------------------------------------------------------------------------
(* The surroundings *)

\* The deadline passes, or SIGINT or SIGTERM arrives.
Expire ==
  /\ MayExpire /\ ~ctxDone /\ pc # "done"
  /\ ctxDone' = TRUE
  /\ UNCHANGED <<scenario, present, everAbsent, pc, calls, walk, snapshot,
                 degradations, claim, verdict>>

\* Somebody creates or deletes an object while the run is going on.
Drift ==
  /\ pc # "done"
  /\ \E o \in Volatile :
       IF o \in present
         THEN present' = present \ {o} /\ everAbsent' = everAbsent \cup {o}
         ELSE present' = present \cup {o} /\ UNCHANGED everAbsent
  /\ UNCHANGED <<scenario, ctxDone, pc, calls, walk, snapshot, degradations, claim,
                 verdict>>

\* The answers to a request that cannot be NotFound, and to one for an object.
ListAnswers == IF ctxDone THEN {"Timeout"} ELSE {"ok"} \cup Failures
Answers(o) ==
  IF ctxDone THEN {"Timeout"}
  ELSE {IF o \in present THEN "ok" ELSE "NotFound"} \cup Failures

-----------------------------------------------------------------------------
(* The command and the Pod itself *)

\* The command line or the kubeconfig is unusable.
RejectArguments ==
  /\ pc = "start"
  /\ pc' = "done" /\ exit' = 2
  /\ UNCHANGED <<world, calls, walk, snapshot, degradations, claim, next, found, status>>

Start ==
  /\ pc = "start"
  /\ pc' = "pod"
  /\ UNCHANGED <<world, calls, walk, snapshot, degradations, claim, verdict>>

GetPod ==
  /\ pc = "pod"
  /\ calls' = calls + 1
  /\ \E answer \in Answers(<<"pod", "it">>) :
       \/ /\ answer = "ok"
          /\ pc' = "related"
          /\ evPc' = "running" /\ ownPc' = "running"
          /\ owner' = scenario.owner
          /\ UNCHANGED exit
       \/ /\ answer # "ok"
          /\ pc' = "done" /\ exit' = reportError(answer)
          /\ UNCHANGED <<evPc, ownPc, owner>>
  /\ UNCHANGED <<world, evs, evErr, chain, ownColl, snapshot, degradations, claim, next,
                 found, status>>

-----------------------------------------------------------------------------
(* The two goroutines and their join *)

eventsFor ==
  /\ pc = "related" /\ evPc = "running"
  /\ calls' = calls + 1
  /\ \E answer \in ListAnswers :
       IF answer = "ok" THEN evs' = scenario.events /\ UNCHANGED evErr
                        ELSE evErr' = answer /\ UNCHANGED evs
  /\ evPc' = "done"
  /\ UNCHANGED <<world, pc, ownPc, owner, chain, ownColl, snapshot, degradations, claim,
                 verdict>>

kindResource(kind) == IF kind = "Job" THEN "jobs" ELSE "replicasets"

\* Mutant: nothing stops the walk but a controller without an owner.
WalkEndsAtRootOnly == owner = NoOwner

WalkEnds == owner = NoOwner \/ Len(chain) = MaxOwnerDepth

\* One turn of ownerChain's loop; only ReplicaSets and Jobs are read.
ownerChain ==
  /\ pc = "related" /\ ownPc = "running"
  /\ IF WalkEnds
       THEN ownPc' = "done" /\ UNCHANGED <<owner, chain, ownColl, calls>>
     ELSE IF OwnerKind[owner] \in {"ReplicaSet", "Job"}
       THEN /\ chain' = Append(chain, owner)
            /\ calls' = calls + 1
            /\ \E answer \in Answers(<<"owner", owner>>) :
                 IF answer = "ok"
                   THEN owner' = Parent[owner] /\ UNCHANGED <<ownPc, ownColl>>
                   ELSE /\ ownPc' = "done"
                        /\ ownColl' = degrade(kindResource(OwnerKind[owner]), answer)
                        /\ UNCHANGED owner
       ELSE /\ chain' = Append(chain, owner)
            /\ owner' = NoOwner
            /\ UNCHANGED <<ownPc, ownColl, calls>>
  /\ UNCHANGED <<world, pc, evPc, evs, evErr, snapshot, degradations, claim, verdict>>

eventsDegradation == IF evErr = "none" THEN {} ELSE degrade("events", evErr)

\* Mutant: what the owner goroutine could not read stays in its own collection.
JoinForgettingOwners ==
  /\ pc = "related" /\ evPc = "done" /\ ownPc = "done"
  /\ events' = evs
  /\ degradations' = degradations \cup eventsDegradation
  /\ pc' = "node"
  /\ UNCHANGED <<world, calls, walk, node, configMaps, secrets, pvcs, claim, verdict>>

\* wg.Wait, and the merge of what both found into the snapshot.
Join ==
  /\ pc = "related" /\ evPc = "done" /\ ownPc = "done"
  /\ events' = evs
  /\ degradations' = degradations \cup eventsDegradation \cup ownColl
  /\ pc' = "node"
  /\ UNCHANGED <<world, calls, walk, node, configMaps, secrets, pvcs, claim, verdict>>

-----------------------------------------------------------------------------
(* The reads that a symptom calls for *)

podLooksHealthy(p) == p.phase = "Running" /\ p.ready

needsNode(p) == p.bound /\ ~podLooksHealthy(p)

collectPodNode ==
  /\ pc = "node"
  /\ pc' = "config"
  /\ IF needsNode(scenario.pod)
       THEN /\ calls' = calls + 1
            /\ \E answer \in Answers(<<"node", "its">>) :
                 /\ degradations' = degradations \cup degrade("nodes", answer)
                 /\ node' = IF answer = "ok" THEN scenario.node ELSE node
       ELSE UNCHANGED <<calls, degradations, node>>
  /\ UNCHANGED <<world, walk, events, configMaps, secrets, pvcs, claim, verdict>>

needsConfigRefs(p, evts) ==
  \/ \E n \in ContainerNames :
       p.containers[n].state \in ConfigErrors \cup {"InvalidImageName"}
  \/ \E e \in Warnings(evts) : e.reason \in {"FailedMount", "Failed", "FailedCreatePodContainer"}

needsClaims(p, evts) ==
  \/ p.phase = "Pending"
  \/ \E e \in Warnings(evts) :
       e.reason \in {"FailedMount", "FailedAttachVolume", "FailedScheduling"}

\* What is still to be read of the objects the Pod refers to.
configMapsToRead ==
  IF needsConfigRefs(scenario.pod, events)
    THEN {n \in scenario.pod.configMaps : configMaps[n] = "unread"} ELSE {}
secretsToRead ==
  IF needsConfigRefs(scenario.pod, events)
    THEN {n \in scenario.pod.secrets : secrets[n] = "unread"} ELSE {}
claimsToRead ==
  IF needsClaims(scenario.pod, events)
    THEN {n \in scenario.pod.claims : pvcs[n].exists = "unread"} ELSE {}

ReadConfigMap ==
  /\ pc = "config"
  /\ \E n \in configMapsToRead, answer \in Reasons \cup {"ok"} :
       /\ answer \in Answers(<<"configmap", n>>)
       /\ configMaps' = [configMaps EXCEPT ![n] = existence(answer)]
       /\ degradations' = degradations \cup existenceDegradation("configmaps", answer)
  /\ calls' = calls + 1
  /\ UNCHANGED <<world, pc, walk, events, node, secrets, pvcs, claim, verdict>>

\* SecretExists asks for the metadata only.
ReadSecret ==
  /\ pc = "config" /\ configMapsToRead = {}
  /\ \E n \in secretsToRead, answer \in Reasons \cup {"ok"} :
       /\ answer \in Answers(<<"secret", n>>)
       /\ secrets' = [secrets EXCEPT ![n] = existence(answer)]
       /\ degradations' = degradations \cup existenceDegradation("secrets", answer)
  /\ calls' = calls + 1
  /\ UNCHANGED <<world, pc, walk, events, node, configMaps, pvcs, claim, verdict>>

ConfigRefsRead ==
  /\ pc = "config" /\ configMapsToRead = {} /\ secretsToRead = {}
  /\ pc' = "claims"
  /\ UNCHANGED <<world, calls, walk, snapshot, degradations, claim, verdict>>

\* A claim that exists and has not bound needs its storage class as well.
ReadClaim ==
  /\ pc = "claims"
  /\ \E n \in claimsToRead, answer \in Reasons \cup {"ok"} :
       /\ answer \in Answers(<<"claim", n>>)
       /\ pvcs' = [pvcs EXCEPT ![n] =
                     [exists |-> existence(answer), waits |-> FALSE,
                      phase |-> IF answer = "ok" THEN scenario.claims[n].phase ELSE "none"]]
       /\ degradations' = degradations
                            \cup existenceDegradation("persistentvolumeclaims", answer)
       /\ IF answer = "ok" /\ scenario.claims[n].phase # "Bound"
            THEN pc' = "class" /\ claim' = n
            ELSE UNCHANGED <<pc, claim>>
  /\ calls' = calls + 1
  /\ UNCHANGED <<world, walk, events, node, configMaps, secrets, verdict>>

\* How the request for the storage class of claim n may be answered.
ClassAnswers(n) ==
  CASE scenario.claims[n].class = "none"    -> {"ok"}
    [] scenario.claims[n].class = "named"   -> Answers(<<"class", n>>)
    [] scenario.claims[n].class = "default" -> ListAnswers

\* storageClassInfo: no request for a claim that wants no class, a Get for a
\* class it names (whose absence is an answer), a List to find the default.
storageClassInfo ==
  /\ pc = "class"
  /\ \E answer \in Reasons \cup {"ok"} :
       /\ answer \in ClassAnswers(claim)
       /\ degradations' = degradations \cup existenceDegradation("storageclasses", answer)
       /\ pvcs' = [pvcs EXCEPT ![claim].waits =
                     /\ answer = "ok" /\ scenario.claims[claim].class # "none"
                     /\ <<"class", claim>> \in present /\ scenario.claims[claim].waits]
  /\ calls' = IF scenario.claims[claim].class = "none" THEN calls ELSE calls + 1
  /\ pc' = "claims" /\ claim' = NoClaim
  /\ UNCHANGED <<world, walk, events, node, configMaps, secrets, verdict>>

ClaimsRead ==
  /\ pc = "claims" /\ claimsToRead = {}
  /\ pc' = "rules"
  /\ UNCHANGED <<world, calls, walk, snapshot, degradations, claim, verdict>>

-----------------------------------------------------------------------------
(* The rules, the report and the exit code *)

Rules == 1..Len(RuleNames)

\* The context is looked at before each rule.
RunRule ==
  /\ pc = "rules" /\ next \in Rules /\ ~ctxDone
  /\ \E findings \in Outcomes(next, snap) : found' = found \cup findings
  /\ next' = next + 1
  /\ UNCHANGED <<world, pc, calls, walk, snapshot, degradations, claim, status, exit>>

\* PodReport after the engine: the fallback, and the status.
PodReport ==
  /\ pc = "rules" /\ (next \notin Rules \/ ctxDone)
  /\ found' = IF found = {} THEN Fallback(snap) ELSE found
  /\ status' = DeriveStatus(found', degradations # {})
  /\ pc' = "render"
  /\ UNCHANGED <<world, calls, walk, snapshot, degradations, claim, next, exit>>

\* Mutant: a report of warnings only is no issue.
IssueFoundUnhealthyOnly == status = "unhealthy"

IssueFound == status \in {"unhealthy", "degraded"}

\* The report is written out, or stdout refuses it.
Render ==
  /\ pc = "render"
  /\ pc' = "done"
  /\ \/ exit' = IF IssueFound THEN 1 ELSE 0
     \/ exit' = 2
  /\ UNCHANGED <<world, calls, walk, snapshot, degradations, claim, next, found, status>>

Terminated == pc = "done" /\ UNCHANGED vars

-----------------------------------------------------------------------------

\* The steps of the program itself.
Step ==
  \/ RejectArguments \/ Start \/ GetPod
  \/ eventsFor \/ ownerChain \/ Join
  \/ collectPodNode \/ ReadConfigMap \/ ReadSecret \/ ConfigRefsRead
  \/ ReadClaim \/ storageClassInfo \/ ClaimsRead
  \/ RunRule \/ PodReport \/ Render

Next == Step \/ Expire \/ Drift \/ Terminated

Spec == Init /\ [][Next]_vars

\* Every request returns, because client-go bounds it with the context and the
\* client's timeout, and the runtime schedules both goroutines.
FairSpec == Spec /\ WF_vars(Step)

-----------------------------------------------------------------------------
(* Properties *)

\* The state is well formed; the chain of owners never outgrows the depth the
\* code allows (owners.go:15).
TypeOK ==
  /\ scenario \in Scenarios
  /\ present \subseteq Objects /\ everAbsent \subseteq Objects
  /\ ctxDone \in BOOLEAN
  /\ pc \in {"start", "pod", "related", "node", "config", "claims", "class", "rules",
             "render", "done"}
  /\ calls \in Nat
  /\ evPc \in {"idle", "running", "done"} /\ evs \subseteq scenario.events
  /\ evErr \in {"none"} \cup Reasons
  /\ ownPc \in {"idle", "running", "done"} /\ owner \in Owners \cup {NoOwner}
  /\ chain \in Seq(Owners) /\ Len(chain) <= MaxOwnerDepth
  /\ ownColl \subseteq Degradation
  /\ events \subseteq scenario.events
  /\ node \in {"nil", "ready", "notReady"}
  /\ configMaps \in [ConfigMapNames -> Existences]
  /\ secrets \in [SecretNames -> Existences]
  /\ pvcs \in [ClaimNames -> ClaimRef]
  /\ degradations \subseteq Degradation
  /\ claim \in ClaimNames \cup {NoClaim}
  /\ next \in 1..(Len(RuleNames) + 1)
  /\ found \subseteq Finding
  /\ status \in Statuses \cup {"none"}
  /\ exit \in {-1, 0, 1, 2, 3, 4}

\* The kinds of object whose absence a finding asserts.
Absence == [POD_MISSING_CONFIGMAP |-> "configmap", POD_MISSING_SECRET |-> "secret",
            POD_PVC_NOT_FOUND |-> "claim"]

\* "KubeWhy must not report an object as absent when it simply could not look"
\* (collect.go:41-42).  Whatever was refused, failed or timed out on the way, a
\* report that calls an object missing, or exit code 3, names one that really was
\* absent at some moment of the run.
NoFalseAbsence ==
  /\ \A f \in found : f.id \in DOMAIN Absence => <<Absence[f.id], f.about>> \in everAbsent
  /\ exit = 3 => <<"pod", "it">> \in everAbsent

Reported == status # "none"

\* A report that says "healthy" rests on complete evidence (report.go:94-97): every
\* read that this Pod's symptoms call for was answered, in both goroutines and in
\* every collector, whichever of them failed first.
HealthyMeansLooked ==
  status = "healthy" =>
    /\ evErr = "none" /\ events = scenario.events
    /\ owner = NoOwner \/ Len(chain) = MaxOwnerDepth
    /\ needsNode(scenario.pod) => node # "nil"
    /\ needsConfigRefs(scenario.pod, scenario.events) =>
         /\ \A n \in scenario.pod.configMaps : configMaps[n] \in {"found", "missing"}
         /\ \A n \in scenario.pod.secrets : secrets[n] \in {"found", "missing"}
    /\ needsClaims(scenario.pod, scenario.events) =>
         \A n \in scenario.pod.claims : pvcs[n].exists \in {"found", "missing"}

\* "Nodes, referenced ConfigMaps, Secrets and claims are only read when the Pod
\* shows a symptom" (collect/pod.go:19-21): a ready Pod without warning events costs
\* the Pod, its events and at most one request per owner.
Overspent ==
  podIsReady(scenario.pod) /\ Warnings(scenario.events) = {} /\ calls > 2 + Len(chain)

\* How a run looks from the outside, for Analysis.
Stage == CASE pc = "done" -> "done" [] pc = "render" -> "judged" [] OTHER -> "open"
Incomplete == Reported /\ degradations # {}
Missing == {<<Absence[f.id], f.about>> :
              f \in {g \in found : Reported /\ g.id \in DOMAIN Absence}}

Contract == INSTANCE Analysis WITH
  Requested <- <<"pod", "it">>, stage <- Stage, gone <- everAbsent,
  incomplete <- Incomplete, overspent <- Overspent, missing <- Missing

\* A Pod analysis is an Analysis: it judges once, on what it read before, and the
\* verdict and the exit code stay as they were given whatever the cluster does
\* after that (analyze/pod.go:20-49, cli/root.go:206-222); it reads no more than the
\* Pod's symptoms call for; and it ends with an exit code, also with owner references
\* that form a cycle, every request failing and the context ending at any moment.
ContractKept == Contract!Spec

\* The contract of exit.go with scripts: 0 and 1 tell whether the report holds a
\* finding graver than an observation, and 3 and 4 speak of the requested Pod
\* alone: no refused or failed read of a related object ends a run with them.
ExitContract ==
  /\ exit = 0 => Reported /\ \A f \in found : f.severity = "info"
  /\ exit = 1 => Reported /\ \E f \in found : f.severity # "info"
  /\ exit \in {3, 4} => calls = 1 /\ ~Reported

\* "KubeWhy never goes quiet on a resource that is not working"
\* (docs/rules/PVC_PENDING.md:12): a Pod that is neither ready nor finished gets a
\* finding, even when the context ends before the first rule.
NeverQuiet ==
  Reported /\ ~podIsReady(scenario.pod) /\ ~IsTerminal(scenario.pod) => found # {}

Evaluated == Reported /\ next > Len(RuleNames)

\* A container that is down, or that went down again within the window.
Failing(c) ==
  \/ c.state \in ImageWaitReasons \cup ConfigErrors \cup {"CrashLoopBackOff", "OOMKilled", "Error"}
  \/ c.restarts >= 2 /\ c.last \in {"OOMKilled", "Error"} /\ c.lastAge <= Window

\* The OOM, crash loop, terminated, image and configuration rules each leave to
\* another what that other one owns (crashloop.go:45-48, terminated.go:47-53); the
\* hand-offs have no gap, so every failing container of a Pod that is not finished
\* is the subject of a warning or of something worse.
FailuresClaimed ==
  Evaluated /\ ~IsTerminal(scenario.pod) =>
    \A n \in ContainerNames :
      Failing(scenario.pod.containers[n]) =>
        \E f \in found : f.about = n /\ f.severity # "info"

\* The findings that state how a container stopped, of which two would tell the
\* same stop twice.
Exclusive == {{"POD_CRASH_LOOP", "POD_CONTAINER_TERMINATED_ERROR", "POD_RESTARTED"},
              {"POD_CRASH_LOOP", "POD_OOM_KILLED", "POD_RESTARTED"}}

ToldOnce(n) ==
  \A f, g \in found : \A ids \in Exclusive :
    f.about = n /\ g.about = n /\ {f.id, g.id} \subseteq ids => f.id = g.id

\* A sidecar restarts always, even in a Pod whose other containers never do.
SidecarOfFinalPod(n) ==
  scenario.pod.containers[n].role = "sidecar" /\ scenario.pod.restartPolicy = "Never"

\* The same hand-offs do not overlap: no container is reported as crash looping and
\* as waiting for its restart, as OOM killed and as crash looping, or as failing and
\* as having merely restarted in the past.  Sidecars of Pods that never restart are
\* left out, because terminated.go reads the Pod's policy for them.
OneRulePerStop == \A n \in ContainerNames : ~SidecarOfFinalPod(n) => ToldOnce(n)

\* When every rule ran, the finding that another one names as its cause is in the
\* report (model.go, CausedBy): the scheduling, mount and configuration rules infer
\* from the snapshot what the claim and configuration rules will say.
NoDanglingCause ==
  Evaluated => \A f \in found : f.causedBy # NoCause => \E g \in found : g.id = f.causedBy

\* Nothing is wrong with the container now, and it did not fail within the window.
Settled(c) == c.state = "running" /\ c.ready /\ (c.last # "none" => c.lastAge > Window)

\* "Old failures on a container that has recovered are history. They are worth
\* showing, and they must not colour the verdict" (probes.go:107-108, restarts.go):
\* a ready Pod whose crashes and probe failures all lie before the window exits 0.
\* OOM kills are left out: the OOM rule warns about them at any age.
HistoryIsNoVerdict ==
  /\ Reported /\ podIsReady(scenario.pod)
  /\ \A n \in ContainerNames : /\ Settled(scenario.pod.containers[n])
                               /\ scenario.pod.containers[n].last # "OOMKilled"
  /\ \A e \in scenario.events : e.reason = "Unhealthy" /\ e.age > Window
  => ~IssueFound

=============================================================================
