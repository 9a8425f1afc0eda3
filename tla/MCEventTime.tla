----------------------------- MODULE MCEventTime -----------------------------
(* Bounds for model checking EventTime. *)
EXTENDS EventTime

Tumbling == [kind |-> "tumbling", size |-> 2]
Sliding == [kind |-> "sliding", size |-> 3, slide |-> 2]
Hopping == [kind |-> "sliding", size |-> 1, slide |-> 2]

Windowing(kind, stateless, assigner) ==
  [kind |-> kind, stateless |-> stateless, assigner |-> assigner, lower |-> 0, upper |-> 0]
Interval(lower, upper) ==
  [kind |-> "interval_join", stateless |-> "map", assigner |-> Tumbling,
   lower |-> lower, upper |-> upper]
Other(kind) ==
  [kind |-> kind, stateless |-> "none", assigner |-> Tumbling, lower |-> 0, upper |-> 0]

MCOperators ==
  {Windowing("window", s, Tumbling) : s \in {"filter", "key_by", "flat_map"}}
  \cup {Windowing("window", "map", a) : a \in {Sliding, Hopping}}
  \cup {Windowing("join", "map", a) : a \in {Tumbling, Sliding}}
  \cup {Windowing("cogroup", "map", Sliding)}
  \cup {Interval(0, 2), Interval(1, 2)}
  \cup {Other(k) : k \in {"process", "keyed_process", "co_process", "tracker"}}

MCKeys == {None, 1}
MCTimes == {0, 2, 3, 6}
MCMarks == {1, 2, 4, 7}
MCTimerTimes == {1, 2, 7}
MCMaxInput ==
  [kind \in {"window", "join", "cogroup", "interval_join", "process", "keyed_process",
             "co_process", "tracker"} |->
     CASE kind = "tracker" -> 5
       [] kind \in {"process", "co_process"} -> 3
       [] OTHER -> 4]
=============================================================================
