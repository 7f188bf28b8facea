----------------------------- MODULE MCPodFaults -----------------------------
(* PodAnalysis for TLC under every failure: a handful of Pods, each chosen   *)
(* because its symptoms make the run read one more kind of object, every     *)
(* request allowed to be refused, to fail or to time out, and objects that   *)
(* come and go between the requests.                                         *)
EXTENDS PodAnalysis

Quiet == [length |-> 0, says |-> {}]
Says(topics) == [length |-> 1, says |-> topics]

Running == [role |-> "app", state |-> "running", ready |-> TRUE, restarts |-> 0,
            last |-> "none", lastAge |-> 0, message |-> Quiet]

ReadyPod == [phase |-> "Running", ready |-> TRUE, bound |-> TRUE, gated |-> FALSE,
             evicted |-> FALSE, restartPolicy |-> "Always", scheduling |-> Quiet,
             containers |-> [n \in {"app"} |-> Running],
             configMaps |-> {"cm"}, secrets |-> {"sec"}, claims |-> {}]

With(c) == [ReadyPod EXCEPT !.containers = [n \in {"app"} |-> c]]

Warning(reason) == [reason |-> reason, warning |-> TRUE, age |-> 1,
                    container |-> NoContainer, message |-> Says({})]

Bound == [phase |-> "Bound", class |-> "default", waits |-> FALSE]
Waits(class) == [phase |-> "Pending", class |-> class, waits |-> TRUE]

Base == [pod |-> ReadyPod, events |-> {}, node |-> "ready", owner |-> NoOwner,
         claims |-> [n \in ClaimNames |-> Bound], absent |-> {}]

\* Its container cannot be built; the kubelet names the ConfigMap.
ConfigError ==
  [Base EXCEPT
     !.pod = [With([Running EXCEPT !.state = "CreateContainerConfigError", !.ready = FALSE,
                                   !.message = Says({"cm"})])
              EXCEPT !.phase = "Pending", !.ready = FALSE],
     !.absent = {<<"configmap", "cm">>}]

\* Its volumes cannot be mounted: any of what they refer to may be missing.
MountFailure ==
  [Base EXCEPT
     !.pod = [With([Running EXCEPT !.state = "ContainerCreating", !.ready = FALSE])
              EXCEPT !.phase = "Pending", !.ready = FALSE, !.claims = {"pvc"},
                     !.configMaps = {}],
     !.events = {Warning("FailedMount")},
     !.absent = {<<"secret", "sec">>}]

\* The scheduler waits for two claims.
VolumeBinding ==
  [Base EXCEPT
     !.pod = [ReadyPod EXCEPT !.phase = "Pending", !.ready = FALSE, !.bound = FALSE,
                              !.scheduling = Says({"volume"}), !.claims = {"pvc", "data"},
                              !.containers["app"].state = "noStatus",
                              !.containers["app"].ready = FALSE],
     !.claims = [pvc |-> Waits("default"), data |-> Waits("named")]]

\* Its claim wants no storage class, and the volume behind it is gone.
LostVolume ==
  [VolumeBinding EXCEPT !.pod.claims = {"pvc"},
     !.claims = [pvc |-> [phase |-> "Lost", class |-> "none", waits |-> FALSE], data |-> Bound]]

\* Nothing is wrong with it, and a controller owns it.
OwnedBy(o) == [Base EXCEPT !.owner = o]

\* A finished Job.
Finished ==
  [Base EXCEPT !.owner = "job",
     !.pod = [With([Running EXCEPT !.state = "Completed", !.ready = FALSE])
              EXCEPT !.phase = "Succeeded", !.ready = FALSE, !.restartPolicy = "Never"]]

\* It ran out of memory and is back; its node may be the reason it is not ready.
Recovered ==
  [Base EXCEPT !.pod = With([Running EXCEPT !.restarts = 1, !.last = "OOMKilled",
                                            !.lastAge = 3])]
OnBadNode == [Base EXCEPT !.pod = [ReadyPod EXCEPT !.ready = FALSE], !.node = "notReady"]

MCScenarios == {ConfigError, MountFailure, VolumeBinding, LostVolume, Finished, Recovered,
                OnBadNode} \cup {OwnedBy(o) : o \in {"rs", "loop"}}

MCOwnerKind == [rs |-> "ReplicaSet", loop |-> "ReplicaSet", job |-> "Job", dep |-> "Deployment"]
MCParent == [rs |-> "dep", loop |-> "loop", job |-> NoOwner, dep |-> NoOwner]
MCVolatile == {<<"configmap", "cm">>, <<"claim", "pvc">>, <<"pod", "it">>}
=============================================================================
