----------------------------- MODULE MCPodStates -----------------------------
(* PodAnalysis for TLC over every state a Pod can be in: each state of a     *)
(* container with each history of restarts, each probe failure, each word of *)
(* the scheduler with each state of the claims.  All requests are answered.  *)
EXTENDS PodAnalysis

Quiet == [length |-> 0, says |-> {}]
Text(n, topics) == [length |-> n, says |-> topics]

-----------------------------------------------------------------------------
(* Pods whose container "c" has gone through anything a kubelet can report *)

\* What the kubelet can say of one container.
Plausible(c) ==
  /\ c.last # "none" => c.restarts > 0
  /\ c.last = "none" => c.lastAge = Window
  /\ c.state = "CrashLoopBackOff" => c.restarts > 0
  /\ c.state = "noStatus" => c.restarts = 0
  /\ c.ready => c.state = "running" \/ (c.role = "init" /\ c.state = "Completed")

MCContainers ==
  {c \in [role : {"init", "sidecar", "app"}, state : ContainerStates, ready : BOOLEAN,
          restarts : 0..2, last : Terminations \cup {"none"},
          lastAge : {Window, Window + 1}, message : {Quiet}] : Plausible(c)}

\* The container that runs next to "c".
Other(phase) ==
  [role |-> "app", ready |-> phase = "Running", restarts |-> 0, last |-> "none",
   lastAge |-> Window, message |-> Quiet,
   state |-> CASE phase = "Running" -> "running"
               [] phase = "Pending" -> "ContainerCreating"
               [] OTHER             -> "Completed"]

\* The phase and the readiness the kubelet derives from its containers.
Consistent(p) ==
  LET c == p.containers["c"]
  IN  /\ p.phase = "Succeeded" => c.state = "Completed" /\ p.restartPolicy # "Always"
      /\ p.phase = "Failed" => c.state \in {"Error", "OOMKilled"} \/ p.evicted
      /\ p.phase = "Pending" => c.role # "app" \/ Waiting(c) \/ c.state = "noStatus"
      /\ p.phase = "Running" => c.role # "init" \/ c.state \in {"Completed", "running"}
      /\ p.phase = "Running" => c.state # "noStatus"
      /\ p.ready => p.phase = "Running" /\ c.ready
      /\ p.evicted => p.phase = "Failed"
      /\ p.restartPolicy = "Never" /\ c.role # "sidecar" => c.restarts = 0
      /\ p.restartPolicy = "Never" => c.state # "CrashLoopBackOff"

PodWith(c, phase, ready, evicted, policy) ==
  [phase |-> phase, ready |-> ready, bound |-> TRUE, gated |-> FALSE, evicted |-> evicted,
   restartPolicy |-> policy, scheduling |-> Quiet,
   containers |-> [c |-> c, main |-> Other(phase)],
   configMaps |-> {}, secrets |-> {}, claims |-> {}]

Bound == [phase |-> "Bound", class |-> "default", waits |-> FALSE]

Around(p) == [pod |-> p, events |-> {}, node |-> "ready", owner |-> NoOwner,
              claims |-> [n \in ClaimNames |-> Bound], absent |-> {}]

ContainerScenarios ==
  {Around(p) : p \in {q \in {PodWith(c, phase, ready, evicted, policy) :
                               c \in MCContainers, phase \in Phases \ {"Unknown"},
                               ready \in BOOLEAN, evicted \in BOOLEAN,
                               policy \in {"Always", "OnFailure", "Never"}} : Consistent(q)}}

-----------------------------------------------------------------------------
(* Pods that failed probes or pulls, now or long ago *)

Probed(ready, restarts) ==
  [role |-> "app", state |-> "running", ready |-> ready, restarts |-> restarts,
   last |-> IF restarts > 0 THEN "Error" ELSE "none", lastAge |-> Window + 1,
   message |-> Quiet]

ProbeEvents ==
  {[reason |-> "Unhealthy", warning |-> TRUE, age |-> age, container |-> n,
    message |-> Text(1, {kind})] :
     age \in {Window, Window + 1}, n \in {"c", NoContainer}, kind \in ProbeKinds}

ProbeScenarios ==
  {[Around(PodWith(Probed(ready, restarts), "Running", ready, FALSE, "Always"))
      EXCEPT !.events = {e, f}] :
     ready \in BOOLEAN, restarts \in 0..1, e \in ProbeEvents, f \in ProbeEvents}

Pulling(reason) ==
  [Probed(FALSE, 0) EXCEPT !.state = reason, !.message = Text(2, {})]

PullScenarios ==
  {[Around(PodWith(Pulling(reason), "Pending", FALSE, FALSE, "Always"))
      EXCEPT !.events = {[reason |-> "Failed", warning |-> TRUE, age |-> 0, container |-> n,
                          message |-> Text(length, {"registry"})]}] :
     reason \in ImageWaitReasons, n \in ContainerNames \cup {NoContainer}, length \in {1, 3}}

-----------------------------------------------------------------------------
(* Pods that no node takes, with claims in every state *)

Unplaced(gated, message) ==
  [PodWith([Probed(FALSE, 0) EXCEPT !.state = "noStatus"], "Pending", FALSE, FALSE, "Always")
     EXCEPT !.bound = FALSE, !.gated = gated, !.scheduling = message,
            !.containers["main"].state = "noStatus", !.claims = ClaimNames]

SchedulerSays(age, topics) ==
  [reason |-> "FailedScheduling", warning |-> TRUE, age |-> age, container |-> NoContainer,
   message |-> Text(1, topics)]

SchedulingScenarios ==
  {[Around(Unplaced(gated, message)) EXCEPT !.claims = truths, !.absent = absent,
                                            !.events = evts] :
     gated \in BOOLEAN,
     message \in {Quiet, Text(1, {"cpu"}), Text(1, {"volume"}), Text(1, {"cpu", "volume"})},
     truths \in [ClaimNames -> {Bound, [phase |-> "Pending", class |-> "named", waits |-> TRUE],
                                [phase |-> "Lost", class |-> "none", waits |-> FALSE]}],
     absent \in SUBSET ({"claim"} \X ClaimNames),
     evts \in {{}, {SchedulerSays(0, {"taint"}), SchedulerSays(1, {"volume"})}}}

\* Pods stuck on their volumes and configuration.
StuckScenarios ==
  {[Around([PodWith([Probed(FALSE, 0) EXCEPT !.state = state, !.message = Text(1, says)],
                    "Pending", FALSE, FALSE, "Always")
            EXCEPT !.configMaps = ConfigMapNames, !.secrets = SecretNames,
                   !.claims = {"pvc"}])
      EXCEPT !.absent = absent,
             !.events = {[reason |-> "FailedMount", warning |-> TRUE, age |-> 0,
                          container |-> NoContainer, message |-> Text(1, {})]}] :
     state \in ConfigErrors \cup {"ContainerCreating"},
     says \in {{}, {"cm"}, {"sec"}},
     absent \in SUBSET {<<"configmap", "cm">>, <<"secret", "sec">>, <<"claim", "pvc">>}}

MCScenarios == ContainerScenarios \cup ProbeScenarios \cup PullScenarios
                 \cup SchedulingScenarios \cup StuckScenarios
MCNone == [n \in {} |-> n]
=============================================================================
