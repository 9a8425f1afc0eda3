--------------------------- MODULE MCCoordinator ---------------------------
(* Two sources and two operators, one of them fed by a single source.      *)
EXTENDS Coordinator

TwoOperators == {"a", "b"}
UpstreamOf == [op \in TwoOperators |-> IF op = "a" THEN {1} ELSE {1, 2}]

TwoTicksThenNone == <<2, 0>>
=============================================================================
