---------------------------- MODULE Coordinator ----------------------------
(***************************************************************************)
(* The checkpoint coordinator                                              *)
(* (crates/flume-runtime/src/checkpoint/coordinator.rs) with its snapshot  *)
(* store, the pipeline it checkpoints, crashes and restarts.               *)
(*                                                                         *)
(* The pipeline is what the coordinator sees of it: each source takes      *)
(* barriers from its bounded channel in order, each operator acknowledges  *)
(* a barrier, with its state, after every source upstream of it took it; a *)
(* source that reached its end, and an operator after its sources, drops   *)
(* its channel end.                                                        *)
(* The disk outlives the process; everything else is lost in a crash.      *)
(***************************************************************************)
EXTENDS Integers, Sequences, FiniteSets, Functions

CONSTANTS
  Operators,      (* expected_operators                                     *)
  NumSources,     (* the number of barrier_senders                          *)
  Upstream,       (* [Operators -> SUBSET (1..NumSources)]                  *)
  BarrierCap,     (* the capacity of a barrier channel                      *)
  MaxRetained,    (* max_retained                                           *)
  MaxTicks        (* bound: MaxTicks[e], the checkpoints run e of the process
                     starts on its ticker; there are Len(MaxTicks) runs     *)

Sources == 1..NumSources
MaxEpochs == Len(MaxTicks)

(* The checkpoints a run may start, by its number, and the most of any. *)
MostTicks == CHOOSE n \in Range(MaxTicks) : \A k \in Range(MaxTicks) : k <= n
CheckpointIds == 1..(MostTicks + 1)

Store == INSTANCE SnapshotStore WITH Ids <- CheckpointIds

(* An operator is downstream of some source, and its {operator_name}.bin   *)
(* is never the marker's file.                                              *)
ASSUME CoordinatorAssumption ==
  /\ NumSources \in Nat \ {0}
  /\ Upstream \in [Operators -> (SUBSET Sources) \ {{}}]
  /\ BarrierCap \in Nat \ {0}
  /\ Operators # {} /\ IsFiniteSet(Operators)
  /\ Store!Marker \notin Operators
  /\ MaxRetained \in Nat
  /\ MaxTicks \in Seq(Nat) \ {<<>>}

VARIABLES
  disk,       (* the snapshot store                                         *)
  epoch,      (* which run of the process this is                           *)
  phase,      (* where run() is; "returned" after it, "down" after a crash  *)
  nextId,     (* next_checkpoint_id                                         *)
  cpId,       (* checkpoint_id of trigger_and_collect                       *)
  final,      (* the checkpoint under way is the one of a cancellation      *)
  sendIdx,    (* the next barrier sender                                    *)
  saved,      (* received: operators whose state was saved                  *)
  saving,     (* the ack whose state is being written                       *)
  doomed,     (* checkpoints cleanup still has to remove                    *)
  cancelled,  (* the cancellation token                                     *)
  barriers,   (* the barrier channel of each source                         *)
  seen,       (* the last barrier each source took                          *)
  ackedCp,    (* the last barrier each operator acknowledged                *)
  acks,       (* the ack channel                                            *)
  liveSources,   (* the sources that hold their barrier receiver            *)
  liveOperators, (* the operators that hold an ack sender                   *)
  newest      (* history: the last checkpoint committed, as a snapshot      *)

live == <<liveSources, liveOperators>>
pipeline == <<barriers, seen, ackedCp, acks, live>>
progress == <<nextId, cpId, final>>
work == <<sendIdx, saved, saving, doomed>>
vars == <<disk, epoch, phase, progress, work, cancelled, pipeline, newest>>

Latest == Store!Latest(disk)

NoAck == [cp |-> 0, op |-> "none"]

Fresh(e) ==
  /\ epoch' = e
  /\ phase' = "idle"
  /\ nextId' = 1
  /\ cpId' = 0
  /\ final' = FALSE
  /\ sendIdx' = 1
  /\ saved' = {}
  /\ saving' = NoAck
  /\ doomed' = {}
  /\ cancelled' = FALSE
  /\ barriers' = [s \in Sources |-> <<>>]
  /\ seen' = [s \in Sources |-> 0]
  /\ ackedCp' = [op \in Operators |-> 0]
  /\ acks' = <<>>
  /\ liveSources' = Sources
  /\ liveOperators' = Operators

Init ==
  /\ disk = Store!EmptyDisk
  /\ newest = Store!Absent
  /\ epoch = 1
  /\ phase = "idle"
  /\ nextId = 1
  /\ cpId = 0
  /\ final = FALSE
  /\ sendIdx = 1
  /\ saved = {}
  /\ saving = NoAck
  /\ doomed = {}
  /\ cancelled = FALSE
  /\ barriers = [s \in Sources |-> <<>>]
  /\ seen = [s \in Sources |-> 0]
  /\ ackedCp = [op \in Operators |-> 0]
  /\ acks = <<>>
  /\ liveSources = Sources
  /\ liveOperators = Operators

-----------------------------------------------------------------------------
(* The pipeline. *)

TakeBarrier(s) ==
  /\ s \in liveSources
  /\ barriers[s] # <<>>
  /\ seen' = [seen EXCEPT ![s] = Head(barriers[s])]
  /\ barriers' = [barriers EXCEPT ![s] = Tail(@)]
  /\ UNCHANGED <<disk, epoch, phase, progress, work, cancelled, ackedCp, acks,
                 live, newest>>

Acknowledge(op) ==
  /\ op \in liveOperators
  /\ \A s \in Upstream[op] : seen[s] > ackedCp[op]
  /\ ackedCp' = [ackedCp EXCEPT ![op] = @ + 1]
  /\ acks' = Append(acks, [cp |-> ackedCp[op] + 1, op |-> op])
  /\ UNCHANGED <<disk, epoch, phase, progress, work, cancelled, barriers, seen,
                 live, newest>>

(* A source reaches its end. *)
EndSource(s) ==
  /\ s \in liveSources
  /\ liveSources' = liveSources \ {s}
  /\ UNCHANGED <<disk, epoch, phase, progress, work, cancelled, barriers, seen,
                 ackedCp, acks, liveOperators, newest>>

(* An operator reaches the end of its inputs. *)
EndOperator(op) ==
  /\ op \in liveOperators
  /\ Upstream[op] \cap liveSources = {}
  /\ liveOperators' = liveOperators \ {op}
  /\ UNCHANGED <<disk, epoch, phase, progress, work, cancelled, barriers, seen,
                 ackedCp, acks, liveSources, newest>>

RequestCancel ==
  /\ ~cancelled
  /\ phase # "down"
  /\ cancelled' = TRUE
  /\ UNCHANGED <<disk, epoch, phase, progress, work, pipeline, newest>>

-----------------------------------------------------------------------------
(* run() and trigger_and_collect(). *)

Start(isFinal) ==
  /\ cpId' = nextId
  /\ nextId' = nextId + 1
  /\ final' = isFinal
  /\ phase' = "sending"
  /\ sendIdx' = 1
  /\ saved' = {}
  /\ UNCHANGED <<disk, epoch, saving, doomed, cancelled, pipeline, newest>>

(* The biased select!: a cancellation is seen before a tick. *)
Tick ==
  /\ phase = "idle"
  /\ ~cancelled
  /\ nextId <= MaxTicks[epoch]
  /\ Start(FALSE)

SeeCancel ==
  /\ phase = "idle"
  /\ cancelled
  /\ Start(TRUE)

(* Timeout, or an I/O error reported as one: the loop goes on, except      *)
(* after the final checkpoint.                                              *)
GiveUp == phase' = IF final THEN "returned" ELSE "idle"

(* One barrier send, which waits for room; the last one starts the         *)
(* collection of acks.                                                      *)
SendBarrier ==
  /\ phase = "sending"
  /\ sendIdx \in liveSources
  /\ Len(barriers[sendIdx]) < BarrierCap
  /\ barriers' = [barriers EXCEPT ![sendIdx] = Append(@, cpId)]
  /\ sendIdx' = sendIdx + 1
  /\ phase' = IF sendIdx = NumSources THEN "collecting" ELSE "sending"
  /\ UNCHANGED <<disk, epoch, progress, saved, saving, doomed, cancelled, seen,
                 ackedCp, acks, live, newest>>

(* The barrier channel of a source that ended is closed. *)
SendFails ==
  /\ phase = "sending"
  /\ sendIdx \notin liveSources
  /\ phase' = "returned"
  /\ UNCHANGED <<disk, epoch, progress, work, cancelled, pipeline, newest>>

Collecting == phase = "collecting" /\ Cardinality(saved) < Cardinality(Operators)

(* Mutant: an ack of another checkpoint counts. *)
ReceiveAck_AnyCheckpoint ==
  /\ Collecting
  /\ acks # <<>>
  /\ acks' = Tail(acks)
  /\ saving' = Head(acks)
  /\ phase' = "opening"
  /\ UNCHANGED <<disk, epoch, progress, sendIdx, saved, doomed, cancelled,
                 barriers, seen, ackedCp, live, newest>>

(* An ack of this checkpoint: save_state is called with its state. *)
ReceiveAck ==
  /\ Collecting
  /\ acks # <<>>
  /\ Head(acks).cp = cpId
  /\ acks' = Tail(acks)
  /\ saving' = Head(acks)
  /\ phase' = "opening"
  /\ UNCHANGED <<disk, epoch, progress, sendIdx, saved, doomed, cancelled,
                 barriers, seen, ackedCp, live, newest>>

StaleAck ==
  /\ Collecting
  /\ acks # <<>>
  /\ Head(acks).cp # cpId
  /\ acks' = Tail(acks)
  /\ UNCHANGED <<disk, epoch, phase, progress, work, cancelled, barriers, seen,
                 ackedCp, live, newest>>

(* tokio::fs::write empties the file, then writes it. *)
OpenFile ==
  /\ phase = "opening"
  /\ disk' = Store!WriteFile(disk, cpId, saving.op, Store!Torn)
  /\ phase' = "writing"
  /\ UNCHANGED <<epoch, progress, work, cancelled, pipeline, newest>>

SaveState ==
  /\ phase = "writing"
  /\ disk' = Store!WriteFile(disk, cpId, saving.op,
                             Store!Snapshot(epoch, saving.cp))
  /\ saved' = saved \cup {saving.op}
  /\ saving' = NoAck
  /\ phase' = "collecting"
  /\ UNCHANGED <<epoch, progress, sendIdx, doomed, cancelled, pipeline, newest>>

(* An I/O error; the file stays as far as it got. *)
SaveFails ==
  /\ phase \in {"opening", "writing"}
  /\ saving' = NoAck
  /\ GiveUp
  /\ UNCHANGED <<disk, epoch, progress, sendIdx, saved, doomed, cancelled,
                 pipeline, newest>>

AcksClosed ==
  /\ Collecting
  /\ acks = <<>>
  /\ liveOperators = {}
  /\ phase' = "returned"
  /\ UNCHANGED <<disk, epoch, progress, work, cancelled, pipeline, newest>>

(* Mutant: the final checkpoint is collected without a deadline. *)
Timeout_TicksOnly ==
  /\ Collecting
  /\ ~final
  /\ GiveUp
  /\ UNCHANGED <<disk, epoch, progress, work, cancelled, pipeline, newest>>

(* The deadline passes before all acks came. *)
Timeout ==
  /\ Collecting
  /\ GiveUp
  /\ UNCHANGED <<disk, epoch, progress, work, cancelled, pipeline, newest>>

(* All acks received: the marker is written.  The final checkpoint is not  *)
(* followed by a cleanup.                                                   *)
Commit ==
  /\ phase = "collecting"
  /\ ~Collecting
  /\ disk' = Store!WriteFile(disk, cpId, Store!Marker, Store!Empty)
  /\ newest' = Store!Snapshot(epoch, cpId)
  /\ doomed' = IF final THEN {} ELSE Store!Doomed(disk', MaxRetained)
  /\ phase' = IF final THEN "returned" ELSE "cleaning"
  /\ UNCHANGED <<epoch, progress, sendIdx, saved, saving, cancelled, pipeline>>

CommitFails ==
  /\ phase = "collecting"
  /\ ~Collecting
  /\ GiveUp
  /\ UNCHANGED <<disk, epoch, progress, work, cancelled, pipeline, newest>>

(* remove_dir_all unlinks the files of a directory in some order. *)
FilesOf(id) == {name \in Store!Names : disk[<<id, name>>] # Store!Absent}

RemoveFile(id, name) ==
  /\ phase = "cleaning"
  /\ name \in FilesOf(id)
  /\ disk' = Store!WriteFile(disk, id, name, Store!Absent)
  /\ doomed' = IF FilesOf(id) = {name} THEN doomed \ {id} ELSE doomed
  /\ UNCHANGED <<epoch, phase, progress, sendIdx, saved, saving, cancelled,
                 pipeline, newest>>

(* An error of remove_dir_all is ignored: the rest of it stays. *)
RemoveFails(id) ==
  /\ phase = "cleaning"
  /\ doomed' = doomed \ {id}
  /\ UNCHANGED <<disk, epoch, phase, progress, sendIdx, saved, saving, cancelled,
                 pipeline, newest>>

CleanupDone ==
  /\ phase = "cleaning"
  /\ doomed = {}
  /\ phase' = "idle"
  /\ UNCHANGED <<disk, epoch, progress, work, cancelled, pipeline, newest>>

-----------------------------------------------------------------------------
(* The process dies at any point, or ends after run() returned. *)
Crash ==
  /\ phase # "down"
  /\ phase' = "down"
  /\ liveSources' = {}
  /\ liveOperators' = {}
  /\ UNCHANGED <<disk, epoch, progress, work, cancelled, barriers, seen, ackedCp,
                 acks, newest>>

(* A new process: CheckpointCoordinator::new on the same directory. *)
Restart ==
  /\ phase = "down"
  /\ epoch < MaxEpochs
  /\ Fresh(epoch + 1)
  /\ UNCHANGED <<disk, newest>>

-----------------------------------------------------------------------------
Collect == ReceiveAck \/ StaleAck \/ AcksClosed \/ Timeout
Persist == OpenFile \/ SaveState \/ SaveFails \/ Commit \/ CommitFails
Remove ==
  \E id \in doomed :
    /\ \A other \in doomed : id <= other
    /\ RemoveFails(id) \/ \E name \in Store!Names : RemoveFile(id, name)

Coordinate ==
  \/ SeeCancel \/ SendBarrier \/ SendFails
  \/ Collect \/ Persist \/ Remove \/ CleanupDone

Next ==
  \/ Tick
  \/ Coordinate
  \/ \E s \in Sources : TakeBarrier(s)
  \/ \E op \in Operators : Acknowledge(op)
  \/ \E s \in Sources : EndSource(s)
  \/ \E op \in Operators : EndOperator(op)
  \/ RequestCancel
  \/ Crash
  \/ Restart

Spec == Init /\ [][Next]_vars

(* The coordinator task is scheduled and its timer fires; a source may be  *)
(* stuck and an operator may never acknowledge.                             *)
CoordinatorFairSpec == Spec /\ WF_vars(Coordinate)

(* The same with sources that keep reading their barriers. *)
SourcesFairSpec ==
  CoordinatorFairSpec /\ \A s \in Sources : WF_vars(TakeBarrier(s))

-----------------------------------------------------------------------------
Contents == {Store!Absent, Store!Torn, Store!Empty} \cup
            {Store!Snapshot(e, c) : e \in 1..MaxEpochs, c \in CheckpointIds}

(* Type correctness. *)
TypeOK ==
  /\ disk \in [CheckpointIds \X Store!Names -> Contents]
  /\ epoch \in 1..MaxEpochs
  /\ phase \in {"idle", "sending", "collecting", "opening", "writing",
                "cleaning", "returned", "down"}
  /\ nextId \in 1..(MostTicks + 2)
  /\ cpId \in 0..(MostTicks + 1)
  /\ final \in BOOLEAN
  /\ sendIdx \in 1..(NumSources + 1)
  /\ saved \subseteq Operators
  /\ saving \in [cp : CheckpointIds, op : Operators] \cup {NoAck}
  /\ doomed \subseteq CheckpointIds
  /\ cancelled \in BOOLEAN
  /\ barriers \in [Sources -> Seq(CheckpointIds)]
  /\ seen \in [Sources -> 0..(MostTicks + 1)]
  /\ ackedCp \in [Operators -> 0..(MostTicks + 1)]
  /\ acks \in Seq([cp : CheckpointIds, op : Operators])
  /\ liveSources \subseteq Sources
  /\ liveOperators \subseteq Operators
  /\ newest \in Contents

(* The checkpoint latest_checkpoint finds, after a crash at any point, is  *)
(* one a job can be restored from: "A `_complete` marker file indicates a  *)
(* committed checkpoint" (store.rs line 4).                                 *)
LatestIsRestorable ==
  Latest # 0 => Store!Restorable(disk, Latest)

(* The same for the checkpoints of one run of the process, until another   *)
(* one writes to its directory.                                             *)
FirstRunIsRestorable == epoch = 1 => LatestIsRestorable

(* The checkpoint just committed is the one that a restart would find: a   *)
(* cleanup keeps "only the most recent `keep_last_n`" (store.rs line 89).   *)
NewestIsKept ==
  epoch = 1 /\ newest # Store!Absent =>
    /\ Latest # 0
    /\ \A op \in Operators : disk[<<Latest, op>>] = newest


(* A cancelled coordinator returns, whether or not the pipeline still      *)
(* answers (coordinator.rs lines 55-58).                                   *)
CancelReturns == cancelled ~> phase \in {"returned", "down"}
=============================================================================
