--------------------------- MODULE SnapshotStore ---------------------------
(***************************************************************************)
(* The checkpoint directory on the local filesystem                        *)
(* (crates/flume-runtime/src/checkpoint/store.rs).  A disk maps            *)
(* <<checkpoint id, file name>> to the file's content; the operations that *)
(* take several filesystem calls are stepped by the module that uses them. *)
(***************************************************************************)
EXTENDS Naturals, FiniteSets

CONSTANTS
  Ids,        (* checkpoint ids: cp-{id}                                    *)
  Operators   (* operator names: {operator_name}.bin                        *)

Absent == [state |-> "absent", epoch |-> 0, cp |-> 0]
(* What a file holds while tokio::fs::write is replacing its content. *)
Torn == [Absent EXCEPT !.state = "torn"]
(* An operator state, told by the barrier of the run (epoch) it was        *)
(* snapshotted at.                                                          *)
Snapshot(epoch, cp) == [state |-> "whole", epoch |-> epoch, cp |-> cp]
(* The marker is an empty file. *)
Empty == Snapshot(0, 0)

Marker == "_complete"
Names == Operators \cup {Marker}

EmptyDisk == [f \in Ids \X Names |-> Absent]
WriteFile(disk, id, name, content) == [disk EXCEPT ![<<id, name>>] = content]

Committed(disk) == {id \in Ids : disk[<<id, Marker>>] # Absent}

(* latest_checkpoint: the highest committed id, 0 for None. *)
Latest(disk) ==
  CHOOSE id \in Committed(disk) \cup {0} : \A c \in Committed(disk) : c <= id

(* Mutant: sorted the other way round, the oldest are kept. *)
Doomed_KeepOldest(disk, keep) ==
  {id \in Committed(disk) :
     Cardinality({c \in Committed(disk) : c < id}) >= keep}

(* cleanup: all committed checkpoints but the keep highest ids. *)
Doomed(disk, keep) ==
  {id \in Committed(disk) :
     Cardinality({c \in Committed(disk) : c > id}) >= keep}

(* Every operator's state is there and was taken at one and the same       *)
(* barrier: a job may be restored from this checkpoint.                     *)
Restorable(disk, id) ==
  \E cut \in {disk[<<id, op>>] : op \in Operators} :
    /\ cut.state = "whole"
    /\ \A op \in Operators : disk[<<id, op>>] = cut
=============================================================================
