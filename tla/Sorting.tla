------------------------------ MODULE Sorting ------------------------------
(***************************************************************************)
(* Go's sort package, which every part of the program uses: what it leaves *)
(* is said by counting, so that it can be reasoned about for lists of any  *)
(* length.                                                                 *)
(***************************************************************************)
EXTENDS Integers, FiniteSets

\* What a stable sort makes of S: each element comes where there are as many before it
\* under R.
InOrder(S, R) ==
  [k \in 1..Cardinality(S) |-> CHOOSE x \in S : Cardinality({y \in S : <<y, x>> \in R}) = k - 1]

\* A set of numbers, from the lowest.
Ascending(S) == InOrder(S, {p \in S \X S : p[1] < p[2]})

=============================================================================
