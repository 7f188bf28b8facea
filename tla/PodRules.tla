------------------------------ MODULE PodRules ------------------------------
(***************************************************************************)
(* The Pod rules (internal/diagnosis/rules/pod) as operators from a Pod    *)
(* snapshot to the set of findings the rule makes.                         *)
(*                                                                         *)
(* A snapshot is a record                                                  *)
(*   pod        the Pod object, below                                      *)
(*   events     the set of its events, empty when they could not be read   *)
(*   node       "nil" | "ready" | "notReady"                               *)
(*   configMaps, secrets   name -> "unread" | "unknown" | "found" | "missing" *)
(*   pvcs       name -> [exists, phase, waits]                             *)
(*                                                                         *)
(* Texts are abstracted to what the code's matchers tell apart: a message  *)
(* is its length and the set of topics it mentions (a registry error, a    *)
(* scheduler category, a probe kind, a quoted name).  Times are ages, in   *)
(* units of which Window make the ten minutes of recentRestartWindow and   *)
(* recentProbeWindow.                                                      *)
(***************************************************************************)
EXTENDS Diagnosis

CONSTANTS ContainerNames, ConfigMapNames, SecretNames, ClaimNames,
          Window       \* how old a failure may be and still count as recent

ASSUME WindowAssumption == Window \in Nat

\* A Pod has finitely many containers and refers to finitely many objects.
ASSUME NamesAssumption ==
  /\ IsFiniteSet(ContainerNames) /\ IsFiniteSet(ConfigMapNames)
  /\ IsFiniteSet(SecretNames) /\ IsFiniteSet(ClaimNames)

Existences == {"unread", "unknown", "found", "missing"}
Phases == {"Pending", "Running", "Succeeded", "Failed", "Unknown"}
ClaimPhases == {"none", "Pending", "Bound", "Lost"}

\* What classifyScheduling can make of one reason of the scheduler.
Categories == {"cpu", "memory", "resource", "taint", "affinity", "antiAffinity",
               "volume", "capacity", "cordoned", "other"}
ProbeKinds == {"readiness", "liveness", "startup"}
Topics == {"registry"} \cup Categories \cup ProbeKinds \cup ConfigMapNames \cup SecretNames
Message == [length : Nat, says : SUBSET Topics]

\* The reasons the kubelet gives for a waiting container.  Three of the six that mean
\* a failed pull: the code treats ErrImagePull, ImageInspectError and
\* RegistryUnavailable as it does ImagePullBackOff, by the text of the message.
ImageWaitReasons == {"ImagePullBackOff", "InvalidImageName", "ErrImageNeverPull"}
ConfigErrors == {"CreateContainerConfigError", "CreateContainerError"}
WaitReasons == ImageWaitReasons \cup ConfigErrors \cup {"CrashLoopBackOff", "ContainerCreating"}

\* How a container ended: killed for its memory, non-zero exit, exit code 0.
Terminations == {"OOMKilled", "Error", "Completed"}
ContainerStates == {"noStatus", "running"} \cup WaitReasons \cup Terminations

\* A container's spec merged with its status; last is its previous termination,
\* lastAge its age, message the text of its waiting state.
Container ==
  [role : {"init", "sidecar", "app"}, state : ContainerStates, ready : BOOLEAN,
   restarts : Nat, last : Terminations \cup {"none"}, lastAge : Nat, message : Message]

\* A Pod as the rules see it.  scheduling is the message of the PodScheduled
\* condition when that is False, of length 0 when there is none.
Pod ==
  [phase : Phases, ready : BOOLEAN, bound : BOOLEAN, gated : BOOLEAN, evicted : BOOLEAN,
   restartPolicy : {"Always", "OnFailure", "Never"}, scheduling : Message,
   containers : [ContainerNames -> Container],
   configMaps : SUBSET ConfigMapNames, secrets : SUBSET SecretNames,
   claims : SUBSET ClaimNames]

EventReasons == {"Unhealthy", "FailedMount", "FailedAttachVolume", "FailedScheduling",
                 "Failed", "FailedCreatePodContainer", "BackOff"}
\* The container of an event that names none.
NoContainer == "no container"
Event == [reason : EventReasons, warning : BOOLEAN, age : Nat,
          container : ContainerNames \cup {NoContainer}, message : Message]

ClaimRef == [exists : Existences, phase : ClaimPhases, waits : BOOLEAN]

Snapshot ==
  [pod : Pod, events : SUBSET Event, node : {"nil", "ready", "notReady"},
   configMaps : [ConfigMapNames -> Existences], secrets : [SecretNames -> Existences],
   pvcs : [ClaimNames -> ClaimRef]]

-----------------------------------------------------------------------------
(* Findings *)

RuleNames == <<"oom", "crashLoop", "terminated", "imagePull", "scheduling", "probe",
               "configRef", "mount", "claim", "node", "restartHistory">>

PodIDs ==
  {"POD_OOM_KILLED", "POD_CRASH_LOOP", "POD_INIT_CONTAINER_FAILED",
   "POD_CONTAINER_TERMINATED_ERROR", "POD_EVICTED", "POD_IMAGE_PULL_FAILED",
   "POD_UNSCHEDULABLE", "POD_UNSCHEDULABLE_CPU", "POD_UNSCHEDULABLE_MEMORY",
   "POD_UNTOLERATED_TAINT", "POD_UNSCHEDULABLE_AFFINITY", "POD_UNSCHEDULABLE_VOLUME",
   "POD_SCHEDULING_GATED", "POD_READINESS_PROBE_FAILED", "POD_LIVENESS_PROBE_FAILED",
   "POD_STARTUP_PROBE_FAILED", "POD_FAILED_MOUNT", "POD_MISSING_CONFIGMAP",
   "POD_MISSING_SECRET", "POD_CREATE_CONTAINER_CONFIG_ERROR", "POD_PVC_NOT_FOUND",
   "POD_PVC_NOT_BOUND", "POD_NODE_NOT_READY", "POD_RESTARTED", "POD_NOT_READY"}

\* A finding about the Pod, its node, a container or an object it references.
Finding ==
  [id : PodIDs, severity : Severities, confidence : Confidences,
   causedBy : PodIDs \cup {NoCause},
   about : {"pod", "node", NoContainer} \cup ContainerNames \cup ConfigMapNames
             \cup SecretNames \cup ClaimNames]

Certain(id, about, severity, causedBy) ==
  [id |-> id, about |-> about, severity |-> severity, confidence |-> "certain",
   causedBy |-> causedBy]

-----------------------------------------------------------------------------
(* What the rules read off a container, a Pod and its events *)

Waiting(c) == c.state \in WaitReasons
IsTerminal(p) == p.phase \in {"Succeeded", "Failed"}
podIsReady(p) == p.phase = "Running" /\ p.ready

isFlapping(c) ==
  c.restarts >= 2 /\ c.last \in {"OOMKilled", "Error"} /\ c.lastAge <= Window

oomTermination(c) == c.state = "OOMKilled" \/ c.last = "OOMKilled"
severityFor(recovered) == IF recovered THEN "warning" ELSE "critical"

WithReason(events, reasons) == {e \in events : e.reason \in reasons}
Warnings(events) == {e \in events : e.warning}
\* The events that Latest may return: those no other is more recent than.
Latest(events, reasons) ==
  {e \in WithReason(events, reasons) :
     \A other \in WithReason(events, reasons) : e.age <= other.age}

missingNames(refs) == {n \in DOMAIN refs : refs[n] = "missing"}

-----------------------------------------------------------------------------
(* The rules *)

evaluateOOM(s) ==
  {Certain("POD_OOM_KILLED", n,
           severityFor(LET c == s.pod.containers[n]
                       IN  c.state = "running" /\ ~isFlapping(c)), NoCause) :
     n \in {m \in ContainerNames : oomTermination(s.pod.containers[m])}}

\* The identifier a failing container is reported under.
FailureID(c, id) == IF c.role = "init" THEN "POD_INIT_CONTAINER_FAILED" ELSE id

\* Mutant: only the back-off state counts as a crash loop.
CrashLoopingInBackoff(c) == c.state = "CrashLoopBackOff" /\ ~oomTermination(c)

CrashLooping(c) ==
  (c.state = "CrashLoopBackOff" \/ isFlapping(c)) /\ ~oomTermination(c)

CrashLoopSeverity(c) ==
  IF c.role # "init" /\ c.state # "CrashLoopBackOff" /\ c.ready
    THEN "warning" ELSE "critical"

evaluateCrashLoop(s) ==
  IF IsTerminal(s.pod) THEN {}
  ELSE {LET c == s.pod.containers[n]
        IN  Certain(FailureID(c, "POD_CRASH_LOOP"), n, CrashLoopSeverity(c), NoCause) :
          n \in {m \in ContainerNames : CrashLooping(s.pod.containers[m])}}

AwaitingRestart(p) == p.phase # "Failed" /\ p.restartPolicy # "Never"

\* Mutant: repeated failures are not left to the crash loop rule.
EndedInErrorAlways(p, c) == c.state = "Error"

\* A container down for good, or down for the first time; one that keeps
\* failing belongs to the crash loop rule.
EndedInError(p, c) ==
  c.state = "Error" /\ ~(AwaitingRestart(p) /\ isFlapping(c))

evictionDiagnosis(s) ==
  IF s.pod.evicted THEN {Certain("POD_EVICTED", "pod", "critical", NoCause)} ELSE {}

evaluateTerminated(s) ==
  evictionDiagnosis(s) \cup
  (IF s.pod.phase = "Succeeded" THEN {}
   ELSE {LET c == s.pod.containers[n]
         IN  Certain(FailureID(c, "POD_CONTAINER_TERMINATED_ERROR"), n,
                     severityFor(AwaitingRestart(s.pod)), NoCause) :
           n \in {m \in ContainerNames : EndedInError(s.pod, s.pod.containers[m])}})

\* The registry's words about container n: the longest of its waiting message
\* and the pull events that may concern it.  Texts of one length are read as one.
PullDetail(s, n) ==
  LET texts == {s.pod.containers[n].message} \cup
               {e.message : e \in {x \in WithReason(s.events, {"Failed", "BackOff"}) :
                                     x.container \in {NoContainer, n}}}
  IN  CHOOSE t \in texts : \A u \in texts : u.length <= t.length

\* The cause is an inference only where a needle of imageMatchers is found.
classifyImageFailure(reason, detail) ==
  IF reason = "ImagePullBackOff" /\ "registry" \in detail.says THEN "likely" ELSE "certain"

evaluateImagePull(s) ==
  {[Certain("POD_IMAGE_PULL_FAILED", n, "critical", NoCause) EXCEPT !.confidence =
      classifyImageFailure(s.pod.containers[n].state, PullDetail(s, n))] :
     n \in {m \in ContainerNames : s.pod.containers[m].state \in ImageWaitReasons}}

\* The texts schedulerMessage may return: the condition's, else the one of a
\* most recent event; none when there is neither.
schedulerMessage(s) ==
  IF s.pod.scheduling.length > 0 THEN {s.pod.scheduling}
  ELSE {e.message : e \in Latest(s.events, {"FailedScheduling"})}

DominantIDs ==
  [cpu |-> "POD_UNSCHEDULABLE_CPU", memory |-> "POD_UNSCHEDULABLE_MEMORY",
   taint |-> "POD_UNTOLERATED_TAINT", affinity |-> "POD_UNSCHEDULABLE_AFFINITY",
   volume |-> "POD_UNSCHEDULABLE_VOLUME"]

\* One category that explains every node makes the finding specific.
dominantID(categories) ==
  IF \E c \in DOMAIN DominantIDs : categories = {c}
    THEN DominantIDs[CHOOSE c \in DOMAIN DominantIDs : categories = {c}]
    ELSE "POD_UNSCHEDULABLE"

\* What the claims offer as the cause of an unschedulable Pod.  The loop over
\* the map has no order and its last write stands, so any of them may result.
SchedulingCauses(s, categories) ==
  LET offered == {"POD_PVC_NOT_FOUND" : n \in {m \in ClaimNames : s.pvcs[m].exists = "missing"}}
                 \cup {"POD_PVC_NOT_BOUND" : n \in {m \in ClaimNames :
                          s.pvcs[m].exists # "missing" /\ s.pvcs[m].phase = "Pending"}}
  IN  IF "volume" \in categories /\ offered # {} THEN offered ELSE {NoCause}

\* The findings evaluateScheduling may return, one set for each way its map
\* iteration can end.
evaluateScheduling(s) ==
  LET said == {m.says \cap Categories : m \in {x \in schedulerMessage(s) : x.length > 0}}
  IN  IF s.pod.bound \/ IsTerminal(s.pod) THEN {{}}
      ELSE IF s.pod.gated
        THEN {{Certain("POD_SCHEDULING_GATED", "pod", "warning", NoCause)}}
      ELSE IF said = {} THEN {{}}
      ELSE UNION {{{Certain(dominantID(categories), "pod", "critical", cause)} :
                     cause \in SchedulingCauses(s, categories)} : categories \in said}

ProbeIDs == [readiness |-> "POD_READINESS_PROBE_FAILED",
             liveness  |-> "POD_LIVENESS_PROBE_FAILED",
             startup   |-> "POD_STARTUP_PROBE_FAILED"]

\* Mutant: without recentProbeWindow.
ProbeSeverityAnyAge(s, e, kind) ==
  IF e.container \in ContainerNames /\ ~s.pod.containers[e.container].ready
    THEN "critical" ELSE "warning"

\* Whether the failure event e of a probe describes the present decides how
\* grave it is.
ProbeSeverity(s, e, kind) ==
  LET known == e.container \in ContainerNames
      failingNow == known /\ ~s.pod.containers[e.container].ready
      recent == e.age <= Window
      restarted == known /\ s.pod.containers[e.container].restarts > 0
  IN  IF \/ failingNow
         \/ recent /\ kind = "liveness" /\ restarted
         \/ recent /\ kind = "startup"
        THEN "critical"
      ELSE IF recent THEN "warning" ELSE "info"

\* One finding per container and kind of probe, from its most recent event.
evaluateProbes(s) ==
  LET failures(n, kind) == {e \in WithReason(s.events, {"Unhealthy"}) :
                              e.container = n /\ kind \in e.message.says}
      latest(n, kind) == CHOOSE e \in failures(n, kind) :
                           \A f \in failures(n, kind) : e.age <= f.age
  IN  IF IsTerminal(s.pod) THEN {}
      ELSE {Certain(ProbeIDs[k[2]],
                    IF k[1] \in ContainerNames THEN k[1] ELSE NoContainer,
                    ProbeSeverity(s, latest(k[1], k[2]), k[2]), NoCause) :
              k \in {x \in (ContainerNames \cup {NoContainer}) \X ProbeKinds :
                       failures(x[1], x[2]) # {}}}

\* Mutant: what is not a ConfigMap must be a Secret.
ConfigErrorCauseOrSecret(s, c) ==
  IF missingNames(s.configMaps) # {} THEN "POD_MISSING_CONFIGMAP" ELSE "POD_MISSING_SECRET"

\* The missing object a configuration error is a consequence of: one the
\* kubelet's message quotes before one it does not.
ConfigErrorCause(s, c) ==
  LET maps == missingNames(s.configMaps)
      secrets == missingNames(s.secrets)
  IN  CASE maps \cap c.message.says # {}    -> "POD_MISSING_CONFIGMAP"
        [] /\ maps \cap c.message.says = {}
           /\ secrets \cap c.message.says # {} -> "POD_MISSING_SECRET"
        [] (maps \cup secrets) \cap c.message.says = {} /\ maps # {} -> "POD_MISSING_CONFIGMAP"
        [] OTHER -> IF secrets # {} THEN "POD_MISSING_SECRET" ELSE NoCause

evaluateConfigRefs(s) ==
  {Certain("POD_MISSING_CONFIGMAP", n, "critical", NoCause) : n \in missingNames(s.configMaps)}
  \cup {Certain("POD_MISSING_SECRET", n, "critical", NoCause) : n \in missingNames(s.secrets)}
  \cup {Certain("POD_CREATE_CONTAINER_CONFIG_ERROR", n, "critical",
                ConfigErrorCause(s, s.pod.containers[n])) :
          n \in {m \in ContainerNames : s.pod.containers[m].state \in ConfigErrors}}

anyContainerWaiting(s) == \E n \in ContainerNames : Waiting(s.pod.containers[n])

MountCause(s) ==
  IF missingNames(s.configMaps) # {} THEN "POD_MISSING_CONFIGMAP"
  ELSE IF missingNames(s.secrets) # {} THEN "POD_MISSING_SECRET"
  ELSE IF \E n \in ClaimNames : s.pvcs[n].exists = "missing" THEN "POD_PVC_NOT_FOUND"
  ELSE NoCause

evaluateMounts(s) ==
  IF \/ IsTerminal(s.pod)
     \/ WithReason(s.events, {"FailedMount", "FailedAttachVolume"}) = {}
     \/ ~anyContainerWaiting(s)
    THEN {}
    ELSE {Certain("POD_FAILED_MOUNT", "pod", "critical", MountCause(s))}

\* A claim that waits for its first consumer is Pending on purpose.
unboundClaimSeverity(claim) == IF claim.waits THEN "info" ELSE "critical"

evaluateClaims(s) ==
  IF IsTerminal(s.pod) THEN {}
  ELSE {Certain("POD_PVC_NOT_FOUND", n, "critical", NoCause) :
          n \in {m \in ClaimNames : s.pvcs[m].exists = "missing"}}
       \cup {Certain("POD_PVC_NOT_BOUND", n, unboundClaimSeverity(s.pvcs[n]), NoCause) :
               n \in {m \in ClaimNames : s.pvcs[m].exists = "found" /\ s.pvcs[m].phase # "Bound"}}

evaluateNode(s) ==
  IF s.node = "notReady" /\ ~IsTerminal(s.pod)
    THEN {Certain("POD_NODE_NOT_READY", "node", "critical", NoCause)}
    ELSE {}

evaluateRestartHistory(s) ==
  IF IsTerminal(s.pod) THEN {}
  ELSE {Certain("POD_RESTARTED", n, "info", NoCause) :
          n \in {m \in ContainerNames :
                   LET c == s.pod.containers[m]
                   IN  /\ c.state = "running" /\ c.restarts > 0
                       /\ ~isFlapping(c) /\ ~oomTermination(c)}}

\* The findings rule i may make about a snapshot, one set per way it can run.
Outcomes(i, s) ==
  CASE RuleNames[i] = "oom"            -> {evaluateOOM(s)}
    [] RuleNames[i] = "crashLoop"      -> {evaluateCrashLoop(s)}
    [] RuleNames[i] = "terminated"     -> {evaluateTerminated(s)}
    [] RuleNames[i] = "imagePull"      -> {evaluateImagePull(s)}
    [] RuleNames[i] = "scheduling"     -> evaluateScheduling(s)
    [] RuleNames[i] = "probe"          -> {evaluateProbes(s)}
    [] RuleNames[i] = "configRef"      -> {evaluateConfigRefs(s)}
    [] RuleNames[i] = "mount"          -> {evaluateMounts(s)}
    [] RuleNames[i] = "claim"          -> {evaluateClaims(s)}
    [] RuleNames[i] = "node"           -> {evaluateNode(s)}
    [] RuleNames[i] = "restartHistory" -> {evaluateRestartHistory(s)}

\* Mutant: the fallback is for Pods that never started.
FallbackPendingOnly(s) ==
  IF s.pod.phase # "Pending" THEN {}
  ELSE {Certain("POD_NOT_READY", "pod", "warning", NoCause)}

\* What a Pod that is not ready gets when no rule found anything.
Fallback(s) ==
  IF IsTerminal(s.pod) \/ podIsReady(s.pod) THEN {}
  ELSE {Certain("POD_NOT_READY", "pod", "warning", NoCause)}

=============================================================================
