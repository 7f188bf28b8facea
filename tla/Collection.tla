----------------------------- MODULE Collection -----------------------------
(***************************************************************************)
(* What every collector does with the answer to a request: "ok", or the    *)
(* reason it failed.  A failed read of the requested resource ends the run *)
(* with an exit code; one of a related resource is booked as a degradation *)
(* and the analysis goes on with less evidence.                            *)
(***************************************************************************)

Reasons == {"Forbidden", "NotFound", "Timeout", "Error"}

degrade(resource, answer) ==
  IF answer = "ok" THEN {} ELSE {[resource |-> resource, reason |-> answer]}

\* Mutant: a read that was denied counts as an absence.
existenceDeniedIsMissing(answer) == IF answer = "ok" THEN "found" ELSE "missing"

existence(answer) ==
  CASE answer = "ok"       -> "found"
    [] answer = "NotFound" -> "missing"
    [] OTHER               -> "unknown"

\* An absence is an answer, so it degrades nothing.
existenceDegradation(resource, answer) ==
  IF answer = "NotFound" THEN {} ELSE degrade(resource, answer)

\* The exit code for an error on the requested resource itself.
reportError(answer) ==
  CASE answer = "NotFound"  -> 3
    [] answer = "Forbidden" -> 4
    [] OTHER                -> 2

=============================================================================
