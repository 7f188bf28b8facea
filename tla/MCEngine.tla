------------------------------ MODULE MCEngine ------------------------------
(* Engine for TLC: two rules of up to two findings each, over identifiers   *)
(* that may explain one another in chains, in cycles and across severities. *)
EXTENDS Engine

MCFindings ==
  {f \in [id : {"a", "b", "c"}, severity : {"critical", "info"},
          confidence : {"certain", "likely"}, causedBy : {"a", "b", NoCause}] :
     /\ f.id # f.causedBy
     /\ f.confidence = "likely" => <<f.id, f.causedBy>> \in {<<"c", NoCause>>, <<"b", "a">>}}
=============================================================================
