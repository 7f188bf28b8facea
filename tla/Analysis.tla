------------------------------ MODULE Analysis ------------------------------
(***************************************************************************)
(* What a run of `kubectl why KIND NAME` promises, whatever the kind: it   *)
(* reads for a while, judges once, prints and exits.                       *)
(*                                                                         *)
(*   stage       "open" while it reads and evaluates, "judged" when the    *)
(*               report stands, "done" when the process has exited         *)
(*   gone        the objects that were absent at some moment so far        *)
(*   incomplete  whether the report rests on reads that were not answered  *)
(*   missing     the objects that the report calls missing                 *)
(*   overspent   whether it made more requests than its kind may           *)
(*   status, exit  the report's verdict and the process's exit code        *)
(*                                                                         *)
(* Every analysis INSTANCEs this module and is checked to implement Spec.  *)
(***************************************************************************)
EXTENDS Integers

CONSTANT Requested      \* the object the user asked about

VARIABLES stage, gone, incomplete, missing, overspent, status, exit

vars == <<stage, gone, incomplete, missing, overspent, status, exit>>

Init ==
  /\ stage = "open"
  /\ incomplete = FALSE /\ missing = {} /\ overspent = FALSE
  /\ status = "none" /\ exit = -1

\* The cluster loses an object.
Vanish ==
  /\ stage # "done"
  /\ gone \subseteq gone'
  /\ UNCHANGED <<stage, incomplete, missing, overspent, status, exit>>

\* The object cannot be read: the exit code says why, and 3 says it was absent.
Refuse ==
  /\ stage = "open" /\ stage' = "done"
  /\ exit' \in {2, 3, 4}
  /\ exit' = 3 => Requested \in gone
  /\ UNCHANGED <<gone, incomplete, missing, overspent, status>>

\* The report is made, once.  What it calls missing was missing, which is an issue;
\* nothing is healthy that was not looked at, and nothing unknown that was.
Judge ==
  /\ stage = "open" /\ stage' = "judged"
  /\ status' \in {"healthy", "degraded", "unhealthy", "unknown"}
  /\ incomplete' \in BOOLEAN
  /\ status' = "healthy" => ~incomplete'
  /\ status' = "unknown" => incomplete'
  /\ missing' \subseteq gone
  /\ missing' # {} => status' \in {"degraded", "unhealthy"}
  /\ UNCHANGED <<gone, overspent, exit>>

\* The exit code follows the verdict, unless it could not be printed.
Exit ==
  /\ stage = "judged" /\ stage' = "done"
  /\ exit' \in {2, IF status \in {"degraded", "unhealthy"} THEN 1 ELSE 0}
  /\ UNCHANGED <<gone, incomplete, missing, overspent, status>>

Next == Vanish \/ Refuse \/ Judge \/ Exit

Safety == Init /\ [][Next]_vars

\* It comes to an end, whatever fails on the way.
Ends == <>(stage = "done" /\ exit # -1)

Spec == Safety /\ Ends

=============================================================================
