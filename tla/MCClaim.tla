------------------------------- MODULE MCClaim -------------------------------
(* ClaimAnalysis for TLC: claims in every phase and with every kind of       *)
(* storage class, and up to three Pods, one more than have their events      *)
(* read.  Every request may be refused, fail or time out.                    *)
EXTENDS ClaimAnalysis

P(mounts, ready) == [mounts |-> mounts, ready |-> ready]

\* Nobody, a Pod that mounts another claim, a ready one, and three unready ones
\* that compete for the event reads.
MCPods == {<<>>, <<P(FALSE, FALSE)>>, <<P(TRUE, TRUE)>>,
           <<P(TRUE, FALSE), P(TRUE, FALSE), P(TRUE, FALSE)>>}

MCScenarios ==
  {s \in [phase : {"Unknown", "Pending", "Bound", "Lost"}, class : {"none", "named", "default"},
          waits : BOOLEAN, events : {{}, {"ProvisioningFailed"}, {"FailedBinding"}},
          absent : {{}, {"claim"}}, pods : MCPods] :
     /\ s.phase \in {"Bound", "Unknown"} => s.events = {}
     /\ s.class = "none" => ~s.waits
     /\ "claim" \in s.absent => s.phase = "Bound" /\ s.pods = <<>>
     /\ Len(s.pods) = 3 => s.phase = "Pending" /\ s.events = {} /\ s.waits}
=============================================================================
