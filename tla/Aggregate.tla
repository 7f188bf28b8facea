----------------------------- MODULE Aggregate -----------------------------
(***************************************************************************)
(* AggregateByRule: what several Pods have in common is told once.         *)
(*                                                                         *)
(* A finding of one Pod is a finding of Diagnosis with the component it is *)
(* about, what its summary says beyond its identifier, and its subject,    *)
(* the Pod.  An aggregated one has the first Pod's severity and cause, a   *)
(* count, the total and its subjects in place of the one subject.          *)
(***************************************************************************)
EXTENDS Diagnosis

Key(d) == <<d.id, d.about, d.summary>>

\* The positions that hold the first finding of their key, and the positions
\* that repeat it.
Firsts(in) == {i \in DOMAIN in : \A j \in 1..(i - 1) : Key(in[j]) # Key(in[i])}
Repeats(in, i) == {j \in DOMAIN in : Key(in[j]) = Key(in[i])}

\* Mutant: the order of the Pods, whatever the counts.
PrecedesUnsorted(in, j, i) == j < i

\* The more widespread first, the order of the Pods among equals.
MoreWidespread(in, j, i) ==
  \/ Cardinality(Repeats(in, j)) > Cardinality(Repeats(in, i))
  \/ Cardinality(Repeats(in, j)) = Cardinality(Repeats(in, i)) /\ j < i

\* Mutant: the subjects of the repeated findings are not kept.
AggregatedFirstSubject(in, i, total) ==
  [id |-> in[i].id, severity |-> in[i].severity, confidence |-> in[i].confidence,
   causedBy |-> in[i].causedBy, about |-> in[i].about, summary |-> in[i].summary,
   count |-> Cardinality(Repeats(in, i)), total |-> total, subjects |-> {in[i].subject}]

Aggregated(in, i, total) ==
  [id |-> in[i].id, severity |-> in[i].severity, confidence |-> in[i].confidence,
   causedBy |-> in[i].causedBy, about |-> in[i].about, summary |-> in[i].summary,
   count |-> Cardinality(Repeats(in, i)), total |-> total,
   subjects |-> {in[j].subject : j \in Repeats(in, i)}]

AggregateByRule(in, total) ==
  [k \in 1..Cardinality(Firsts(in)) |->
     Aggregated(in, CHOOSE i \in Firsts(in) :
                      Cardinality({j \in Firsts(in) : MoreWidespread(in, j, i)}) = k - 1,
                total)]

=============================================================================
