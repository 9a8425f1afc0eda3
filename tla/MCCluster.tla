----------------------------- MODULE MCCluster -----------------------------
(* A TaskManager of two slots and one of one; two jobs, run under the same *)
(* name, that together need more than there is.                            *)
EXTENDS Cluster

SmallSlots == [t \in TMs |-> IF t = "A" THEN 2 ELSE 1]
SameName == [j \in Jobs |-> "job"]
Subtasks == [j \in Jobs |-> IF j = "j1" THEN 2 ELSE 1]
=============================================================================
