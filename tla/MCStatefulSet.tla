---------------------------- MODULE MCStatefulSet ----------------------------
(* StatefulSetAnalysis for TLC: up to three replicas, listed by name and not by  *)
(* ordinal, and claims in every phase.                                           *)
EXTENDS StatefulSetAnalysis, MCPods

\* The replica of ordinal o, and a Pod that only has the labels.
R(o, p) == p @@ [owned |-> TRUE, ordinal |-> o]
Foreign(o, p) == p @@ [owned |-> FALSE, ordinal |-> o]

NoClaims == [c \in (1..MaxTemplates) \X Ordinals |-> "none"]
Bound == [c \in (1..MaxTemplates) \X Ordinals |-> "Bound"]

\* A set of n replicas, of which m are ready, in these Pods.
Set(n, m, pods) ==
  [replicas |-> n, ready |-> m, ordered |-> TRUE, strategy |-> "rolling",
   partitioned |-> FALSE, pending |-> FALSE, selectable |-> TRUE,
   service |-> "headless", templates |-> 0, class |-> "none", waits |-> FALSE,
   phases |-> NoClaims, pods |-> pods, absent |-> {}]

\* Rollouts that are held, and a Service of every kind.
Working ==
  {[Set(1, 1, <<R(0, Up)>>) EXCEPT !.strategy = strategy, !.partitioned = partitioned,
                                   !.pending = pending, !.service = kind, !.ordered = ordered] :
     strategy \in {"rolling", "onDelete"}, partitioned \in BOOLEAN,
     pending \in BOOLEAN, kind \in {"none", "headless", "clusterIP"}, ordered \in BOOLEAN}

\* A replica that holds up those after it, next to one that a scale-down leaves and
\* whose name comes first, or to a Pod that belongs to another set.
Blocked ==
  {[s EXCEPT !.ordered = ordered] :
     ordered \in BOOLEAN,
     s \in {Set(3, 1, <<R(0, Up), R(1, Unprobed)>>), Set(3, 0, <<R(10, Killed), R(2, Stuck(0))>>),
            Set(2, 1, <<Foreign(0, Killed), R(0, Up)>>), Set(-1, 0, <<R(0, Looping)>>),
            Set(0, 0, <<>>), Set(2, 0, <<>>), Set(2, 2, <<R(0, Up), R(1, Revived)>>)}}

\* Claims that have bound, wait, are lost or were never created.
WithClaims ==
  {[Set(2, 1, <<R(0, Up), R(1, Stuck(0))>>) EXCEPT
      !.templates = 1, !.class = class, !.waits = class = "named",
      !.phases = [Bound EXCEPT ![1, 1] = phase]] :
     class \in {"none", "named", "default"}, phase \in ClaimPhases}
  \cup {[Set(1, 1, <<R(0, Up)>>) EXCEPT !.templates = 2, !.phases = Bound],
        [Set(2, 1, <<R(0, Up), R(1, Stuck(0))>>) EXCEPT !.templates = 2,
           !.phases = [Bound EXCEPT ![2, 1] = "Pending"], !.absent = {Claim(1, 1)}],
        [Set(3, 1, <<R(0, Up), R(1, Stuck(0))>>) EXCEPT !.templates = 1, !.class = "default",
           !.phases = [Bound EXCEPT ![1, 1] = "Pending"], !.absent = {Claim(1, 2)}]}

\* Replicas that the run cannot list.
Unlistable ==
  [Set(2, 1, <<R(0, Up), R(1, Stuck(0))>>) EXCEPT
     !.selectable = FALSE, !.templates = 1, !.class = "named",
     !.phases = [Bound EXCEPT ![1, 1] = "Pending"]]

MCScenarios ==
  {Unlistable} \cup Working \cup Blocked \cup WithClaims
  \cup {[Set(1, 1, <<R(0, Up)>>) EXCEPT !.absent = {o}] : o \in {O("statefulset"), O("service")}}

MCVolatile == {O("pods")}
=============================================================================
