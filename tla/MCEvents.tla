------------------------------ MODULE MCEvents ------------------------------
(* Events for TLC: every list of up to three events of all shapes, and lists of   *)
(* one more than the limit.                                                       *)
EXTENDS Events

Event(uid, message, field) ==
  [named |-> TRUE, uid |-> uid, reason |-> "Failed", message |-> message, field |-> field,
   count |-> 0, first |-> NoTime, last |-> NoTime, time |-> NoTime, series |-> <<>>]

\* The three shapes in which a component records an event.
Core(e, first, last, count) == [e EXCEPT !.first = first, !.last = last, !.count = count]
Single(e, time) == [e EXCEPT !.time = time]
Series(e, time, last, count) ==
  [e EXCEPT !.time = time, !.series = [count |-> count, last |-> last]]

Shapes(e) ==
  {Core(e, 1, 1, 1), Core(e, 1, 3, 2), Core(e, 2, 2, 0), Single(e, 2), Single(e, 4),
   Series(e, 1, 4, 3), Series(e, 2, 3, 0)}

Some ==
  Shapes(Event("same", "failed", "app")) \cup Shapes(Event("same", "failed ", "app"))
  \cup {Core(Event("same", "failed", "proxy"), 2, 3, 1), Single(Event("none", "failed", "app"), 3),
        Core(Event("other", "failed", "app"), 1, 4, 2),
        [Single(Event("none", "failed", "app"), 4) EXCEPT !.named = FALSE],
        [Single(Event("other", "full", "app"), 2) EXCEPT !.named = FALSE]}

Few ==
  {Core(Event("same", "failed", "app"), 1, 3, 2), Single(Event("same", "failed", "app"), 4),
   Single(Event("same", "full", "app"), 2),
   [Single(Event("other", "full", "app"), 3) EXCEPT !.named = FALSE]}

MCRecorded == UNION {[1..n -> Some] : n \in 0..2} \cup UNION {[1..n -> Few] : n \in 3..4}
              \cup {<<e, f, g>> : e, f \in Shapes(Event("same", "failed", "app")),
                                  g \in Shapes(Event("same", "failed ", "app"))}
=============================================================================
