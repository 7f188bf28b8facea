------------------------------ MODULE MCPodDocs ------------------------------
(* What the documentation says of a Pod analysis and the code does not do:   *)
(* the run of this property ends in a counterexample.                        *)
EXTENDS MCPodFaults

\* It restarted before the window and is not ready yet, which no event explains.
RestartedNotReady ==
  [Base EXCEPT !.pod = [With([Running EXCEPT !.ready = FALSE, !.restarts = 1,
                                             !.last = "Error", !.lastAge = Window + 1])
                        EXCEPT !.ready = FALSE]]

DocsScenarios == {RestartedNotReady, VolumeBinding, Recovered}

\* docs/rules/POD_NOT_READY.md:12: "A tool that goes quiet when it does not know
\* teaches users that silence means "fine"".  A Pod that is neither ready nor
\* finished is never called healthy.  An observation about its history is enough to
\* suppress the fallback (analyze/pod.go:38).
NotReadyIsNotHealthy ==
  status = "healthy" => podIsReady(scenario.pod) \/ IsTerminal(scenario.pod)
=============================================================================
