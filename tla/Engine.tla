------------------------------- MODULE Engine -------------------------------
(***************************************************************************)
(* diagnosis.Evaluate: the rules run one after the other, the context is   *)
(* looked at before each of them, and what they found is put into          *)
(* presentation order.  The same loop serves every kind of resource, so    *)
(* the rules are not interpreted here: outputs[i] is what rule i finds in  *)
(* the snapshot being analysed.                                            *)
(***************************************************************************)
EXTENDS Diagnosis

CONSTANTS RuleCount,   \* how many rules the kind registers
          Findings,    \* the findings the rules can make
          MaxPerRule   \* bound on what one rule finds

ASSUME EngineAssumption ==
  /\ RuleCount \in Nat
  /\ MaxPerRule \in Nat
  /\ Findings \subseteq [id : STRING, severity : Severities,
                         confidence : Confidences, causedBy : STRING]
  /\ \A f \in Findings : f.id # NoCause   \* every rule has an identifier

VARIABLES outputs,   \* what each rule would find
          cancelled, \* the deadline passed or the user interrupted
          rule,      \* the rule the loop is at
          out,       \* what the rules run so far found, in registration order
          sorted,    \* the list Evaluate returns
          loop       \* where Evaluate is

engineVars == <<outputs, cancelled, rule, out, sorted, loop>>

RuleOutputs == UNION {[1..n -> Findings] : n \in 0..MaxPerRule}

EngineInit ==
  /\ outputs \in [1..RuleCount -> RuleOutputs]
  /\ cancelled = FALSE
  /\ rule = 1
  /\ out = <<>>
  /\ sorted = <<>>
  /\ loop = "rules"

\* The deadline passes, or SIGINT or SIGTERM arrives, at any moment.
Cancel ==
  /\ ~cancelled
  /\ loop # "done"
  /\ cancelled' = TRUE
  /\ UNCHANGED <<outputs, rule, out, sorted, loop>>

EvaluateRule ==
  /\ loop = "rules" /\ rule <= RuleCount /\ ~cancelled
  /\ out' = out \o outputs[rule]
  /\ rule' = rule + 1
  /\ UNCHANGED <<outputs, cancelled, sorted, loop>>

\* The loop ends, or breaks because the context is done.
ReturnReport ==
  /\ loop = "rules"
  /\ rule > RuleCount \/ cancelled
  /\ sorted' = Prioritize(out)
  /\ loop' = "done"
  /\ UNCHANGED <<outputs, cancelled, rule, out>>

Returned == loop = "done" /\ UNCHANGED engineVars

EngineNext == Cancel \/ EvaluateRule \/ ReturnReport \/ Returned

EngineSpec == EngineInit /\ [][EngineNext]_engineVars

-----------------------------------------------------------------------------

Occurrences(list, d) == Cardinality({i \in DOMAIN list : list[i] = d})

\* How often the rules before rule n found d.
FoundBefore(n, d) ==
  Cardinality({p \in (1..(n - 1)) \X (1..MaxPerRule) :
                 p[2] \in DOMAIN outputs[p[1]] /\ outputs[p[1]][p[2]] = d})

\* "Rules are independent: one rule returning nothing never prevents another
\* from running" (engine.go:8-10), the report is only ever cut short by the
\* context and between two rules, and sorting loses and repeats nothing: it holds
\* every finding exactly as often as the rules that ran made it.
NothingLost ==
  loop = "done" =>
    /\ rule > RuleCount \/ cancelled
    /\ \A d \in Findings : Occurrences(sorted, d) = FoundBefore(rule, d)

\* A finding of the list names this one as its cause; this one names a cause.
Explaining(list, i) == \E j \in DOMAIN list : list[j].causedBy = list[i].id
Explained(list, i) == list[i].causedBy # NoCause

\* The two are both explanations, both only explained, or both neither.
SameRole(list, i, j) ==
  /\ Explaining(list, i) <=> Explaining(list, j)
  /\ Explaining(list, i) \/ (Explained(list, i) <=> Explained(list, j))

\* "Findings that explain another finding are root causes and rank first within
\* their tier; findings that are explained rank last" (engine.go:34-35), whatever
\* the graph of causes: a finding that explains nothing comes after every
\* explanation of its severity, and after everything unexplained if it is itself
\* explained, and the text renderer then announces it as a consequence.  The links
\* of a chain or a cycle of causes are all explanations; their order is that of
\* ConfidentFirstInRole.
CauseFirstInTier ==
  loop = "done" =>
    \A i, j \in DOMAIN sorted :
      sorted[i].severity = sorted[j].severity /\ ~Explaining(sorted, j) =>
        /\ Explaining(sorted, i) => i < j
        /\ Explained(sorted, j) /\ ~Explained(sorted, i) => i < j
        /\ sorted[j].causedBy = sorted[i].id => Heading(sorted, j) = "CONSEQUENCE"

\* "Higher confidence first" (engine.go:23) holds among findings of one severity
\* and one role, the links of a chain of causes included.
ConfidentFirstInRole ==
  loop = "done" =>
    \A i, j \in DOMAIN sorted :
      /\ sorted[i].severity = sorted[j].severity /\ SameRole(sorted, i, j)
      /\ ConfidenceRank[sorted[i].confidence] < ConfidenceRank[sorted[j].confidence]
      => i < j

\* "The sort is stable, so rules keep their registration order within a tier"
\* (engine.go:26): two findings that agree in severity, role and confidence come
\* out in the order their rules ran.  Distinct findings only, so that positions
\* can be told apart by value.
RegistrationOrderInRole ==
  loop = "done" =>
    \A i, j \in DOMAIN out, k, m \in DOMAIN sorted :
      /\ i < j /\ out[i] = sorted[k] /\ out[j] = sorted[m]
      /\ Occurrences(out, out[i]) = 1 /\ Occurrences(out, out[j]) = 1
      /\ out[i].severity = out[j].severity /\ SameRole(out, i, j)
      /\ out[i].confidence = out[j].confidence
      => k < m

\* Within a severity the report is ordered as engine.go:22-35 says: by cause and
\* effect, then by confidence, then by the order of the rules, for any graph of
\* causes.
OrderInTier == CauseFirstInTier /\ ConfidentFirstInRole /\ RegistrationOrderInRole

=============================================================================
