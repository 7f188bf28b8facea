-------------------------------- MODULE MCPods --------------------------------
(* Pods in a few troubles, for the models of the analyses that have Pods behind *)
(* them.  A Pod has two containers, "app" and "proxy".                          *)
EXTENDS Integers

Quiet == [length |-> 0, says |-> {}]

Running == [role |-> "app", state |-> "running", ready |-> TRUE, restarts |-> 0,
            last |-> "none", lastAge |-> 0, message |-> Quiet]

\* A Pod whose container "app" is c, next to one that runs.
PodOf(c, phase) ==
  [phase |-> phase, ready |-> c.ready, bound |-> TRUE, gated |-> FALSE, evicted |-> FALSE,
   restartPolicy |-> "Always", scheduling |-> Quiet,
   containers |-> [app |-> c, proxy |-> Running],
   configMaps |-> {}, secrets |-> {}, claims |-> {}]

On(c, phase, events, age) == [pod |-> PodOf(c, phase), events |-> events, age |-> age]

ProbeEvent == [reason |-> "Unhealthy", warning |-> TRUE, age |-> 0, container |-> "app",
               message |-> [length |-> 1, says |-> {"readiness"}]]

Up == On(Running, "Running", {}, 0)

\* Not ready for a probe that fails, which only its events tell.
Unprobed == On([Running EXCEPT !.ready = FALSE], "Running", {ProbeEvent}, 0)

\* Killed for its memory: down, and running again.
Killed == On([Running EXCEPT !.state = "OOMKilled", !.ready = FALSE], "Running", {}, 0)
Revived == On([Running EXCEPT !.restarts = 1, !.last = "OOMKilled"], "Running", {}, 0)

\* Both of its containers crash, one of them between two attempts.
Looping == [Killed EXCEPT !.pod.containers =
              [app |-> [Running EXCEPT !.state = "CrashLoopBackOff", !.ready = FALSE,
                                       !.restarts = 2, !.last = "Error"],
               proxy |-> [Running EXCEPT !.restarts = 2, !.last = "Error"]]]

\* Pending, for a longer or a shorter time, for no reason anybody recorded.
Stuck(age) == On([Running EXCEPT !.state = "ContainerCreating", !.ready = FALSE],
                 "Pending", {}, age)
=============================================================================
