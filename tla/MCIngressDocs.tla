---------------------------- MODULE MCIngressDocs ----------------------------
(* What a comment says of an Ingress's analysis and the code does not do: the run  *)
(* of this property ends in a counterexample.                                      *)
EXTENDS MCIngress

\* analyze/ingress.go:29: "The Pods explain why a backend has no endpoints, so link
\* the two."  The cause named for a Service without endpoints is something that a Pod
\* behind that Service suffers from.  All Services get the first finding about any
\* of their Pods (analyze/ingress.go:33), that of another Service's included.
CauseIsBehindTheRoute ==
  \A k \in DOMAIN report :
    report[k].id = "INGRESS_SERVICE_NO_ENDPOINTS" /\ report[k].causedBy # NoCause =>
      \E j \in DOMAIN report : \E i \in report[j].subjects :
        report[j].id = report[k].causedBy /\ scenario.pods[i].service = report[k].about
=============================================================================
