------------------------------ MODULE Diagnosis ------------------------------
(***************************************************************************)
(* The vocabulary of internal/diagnosis: severities, confidences, the      *)
(* order in which a report presents its findings, the status a report      *)
(* derives from them and the heading the text renderer gives each.         *)
(*                                                                         *)
(* A finding is a record with at least the fields                          *)
(*     id, severity, confidence, causedBy                                  *)
(* Wording (summary, explanation, evidence, suggestions) is left out: no   *)
(* decision of the engine reads it.                                        *)
(***************************************************************************)
EXTENDS Integers, Sequences, FiniteSets

Severities  == {"critical", "warning", "info"}
Confidences == {"certain", "likely", "possible"}
Statuses    == {"healthy", "degraded", "unhealthy", "unknown"}

\* The causedBy of a finding that nothing explains (the empty string in Go).
NoCause == "no cause"

SeverityRank == [critical |-> 0, warning |-> 1, info |-> 2]
ConfidenceRank == [certain |-> 0, likely |-> 1, possible |-> 2]

-----------------------------------------------------------------------------
(* Prioritize *)

\* The identifiers that some finding of the list names as its cause.
Causes(in) == {in[i].causedBy : i \in DOMAIN in} \ {NoCause}

\* Mutant: findings that explain another one get no precedence.
WeightWithoutCauses(d, causes) == IF d.causedBy # NoCause THEN 1 ELSE 2

\* Root causes rank first within their tier, explained findings last.
Weight(d, causes) ==
  IF d.id \in causes THEN 0
  ELSE IF d.causedBy # NoCause THEN 2
  ELSE 1

\* The comparison function given to the stable sort.
Less(a, b, causes) ==
  \/ SeverityRank[a.severity] < SeverityRank[b.severity]
  \/ /\ a.severity = b.severity
     /\ \/ Weight(a, causes) < Weight(b, causes)
        \/ /\ Weight(a, causes) = Weight(b, causes)
           /\ ConfidenceRank[a.confidence] < ConfidenceRank[b.confidence]

\* Position i of the input comes out before position j. The sort is stable:
\* positions the comparison does not separate keep their order.
Precedes(in, i, j) ==
  \/ Less(in[i], in[j], Causes(in))
  \/ ~Less(in[j], in[i], Causes(in)) /\ i < j

\* Where position i of the input comes out.
Place(in, i) == 1 + Cardinality({j \in DOMAIN in : Precedes(in, j, i)})

\* Mutant: sorts the findings by severity and keeps one per identifier.
PrioritizeOnePerID(in) ==
  [k \in DOMAIN in |-> CHOOSE d \in {in[i] : i \in DOMAIN in} : d.id = in[k].id]

Prioritize(in) ==
  IF Len(in) < 2
    THEN in
    ELSE [k \in DOMAIN in |-> in[CHOOSE i \in DOMAIN in : Place(in, i) = k]]

-----------------------------------------------------------------------------
(* Report.DeriveStatus, from the findings and whether a read was degraded.  *)

\* Mutant: a report that found nothing is never sure.
DeriveStatusUnsure(diagnoses, degraded) ==
  IF \E d \in diagnoses : d.severity = "critical" THEN "unhealthy"
  ELSE IF \E d \in diagnoses : d.severity = "warning" THEN "degraded"
  ELSE IF degraded \/ diagnoses = {} THEN "unknown" ELSE "healthy"

DeriveStatus(diagnoses, degraded) ==
  IF \E d \in diagnoses : d.severity = "critical" THEN "unhealthy"
  ELSE IF \E d \in diagnoses : d.severity = "warning" THEN "degraded"
  ELSE IF degraded THEN "unknown" ELSE "healthy"

-----------------------------------------------------------------------------
(* The text renderer's heading for position k of a report.                 *)

Heading(report, k) ==
  IF \E i \in 1..(k - 1) : report[i].id = report[k].causedBy THEN "CONSEQUENCE"
  ELSE IF k > 1 THEN "ALSO DETECTED"
  ELSE CASE report[k].severity = "critical" -> "ROOT CAUSE"
         [] report[k].severity = "warning"  -> "WARNING"
         [] report[k].severity = "info"     -> "OBSERVATION"

=============================================================================
