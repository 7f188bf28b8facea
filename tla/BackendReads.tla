---------------------------- MODULE BackendReads ----------------------------
(***************************************************************************)
(* What backendSnapshots promises its callers: the events of the Pods that *)
(* need them are read as if in one step, after which each has either its   *)
(* events or its failure in the collection, for good.                      *)
(***************************************************************************)

VARIABLES joined,   \* whether the call has returned
          outcome   \* for each Pod that needs events, "read", "booked" or "lost"

vars == <<joined, outcome>>

Init == joined = FALSE /\ outcome = <<>>

Return ==
  /\ ~joined /\ joined'
  /\ outcome' \in [DOMAIN outcome' -> {"read", "booked"}]

Spec == Init /\ [][Return]_vars

=============================================================================
