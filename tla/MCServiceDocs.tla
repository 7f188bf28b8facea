---------------------------- MODULE MCServiceDocs ----------------------------
(* What a comment says of a Service's analysis and the code does not do: the *)
(* run of this property ends in a counterexample.                            *)
EXTENDS MCService

\* rules.go:118-119: "A Service with no backends at all is reported by the selector
\* rule; saying it twice helps nobody."  A Service that is known to have no ready
\* endpoint is told by one of the two rules, whether or not its Pods were listed.
OutageAlwaysReported ==
  Evaluated /\ ~IsExternalName /\ endpoints.known /\ endpoints.ready = 0 => report # <<>>
=============================================================================
