----------------------------- MODULE MCDeployment -----------------------------
(* DeploymentAnalysis for TLC: what a Deployment asks for against what is        *)
(* available, the conditions, ReplicaSets in several orders, and up to three     *)
(* Pods.                                                                         *)
EXTENDS DeploymentAnalysis, MCPods

Owned(pods) == [i \in DOMAIN pods |-> pods[i] @@ [owned |-> TRUE]]
Foreign(pods) == [i \in DOMAIN pods |-> pods[i] @@ [owned |-> FALSE]]

RS(owned, revision) == [owned |-> owned, revision |-> revision]

\* A Deployment that wants n replicas and has m of them in these Pods.
Wants(n, m, pods) ==
  [replicas |-> n, available |-> m, paused |-> FALSE, replicaFailure |-> FALSE,
   progressing |-> "other", revision |-> "2", selectable |-> TRUE, sets |-> <<RS(TRUE, "2")>>, pods |-> pods,
   absent |-> {}]

\* The gap between the replicas wanted and available, with Pods that explain it, or
\* not, or do not exist.
Gaps ==
  {Wants(1, 1, Owned(<<Up>>)), Wants(-1, 0, Owned(<<Killed>>)), Wants(-1, 1, Owned(<<Revived>>)),
   Wants(2, 0, <<>>), Wants(3, 1, Owned(<<Up, Unprobed, Unprobed>>)),
   Wants(3, 0, Owned(<<Unprobed, Unprobed, Unprobed>>)), Wants(2, 1, Owned(<<Up, Stuck(0)>>))}

\* What the Deployment and its controller may say besides.
Conditions ==
  {[s EXCEPT !.paused = paused, !.progressing = progressing, !.replicaFailure = failure] :
     s \in {Wants(0, 0, <<>>), Wants(1, 0, Owned(<<Unprobed>>)), Wants(2, 1, Owned(<<Up>>))},
     paused \in BOOLEAN, progressing \in {"none", "deadline", "updated"}, failure \in BOOLEAN}

\* ReplicaSets of several revisions in several orders, a foreign one among them.
ReplicaSets ==
  {[Wants(1, 1, Owned(<<Up>>)) EXCEPT !.revision = revision, !.sets = list] :
     revision \in {"none", "2", "10"},
     list \in {<<>>, <<RS(TRUE, "10"), RS(TRUE, "2")>>, <<RS(TRUE, "2"), RS(TRUE, "10")>>,
               <<RS(FALSE, "10"), RS(TRUE, "2"), RS(TRUE, "none")>>,
               <<RS(TRUE, "garbled"), RS(TRUE, "none")>>, <<RS(FALSE, "2")>>}}

MCScenarios ==
  Gaps \cup Conditions \cup ReplicaSets \cup
  {[Wants(1, 0, <<>>) EXCEPT !.absent = {"deployment"}],
   [Wants(1, 0, Owned(<<Unprobed>>)) EXCEPT !.selectable = FALSE],
   Wants(1, 1, Owned(<<Up>>) \o Foreign(<<Killed>>))}
=============================================================================
