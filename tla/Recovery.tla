------------------------------ MODULE Recovery ------------------------------
(***************************************************************************)
(* A job's state, source position and sink through checkpoints, crashes    *)
(* and recoveries: source -> keyed operator -> sink, the parts the traits  *)
(* of crates/flume-core/src/traits (Source, StateBackend, Sink) provide.   *)
(* The caller that checkpoints and restores them is external: it snapshots *)
(* at a barrier, behind every record read so far, after flushing the sink, *)
(* and on a restart restores a new source, backend and sink.               *)
(***************************************************************************)
EXTENDS Integers, Sequences, FiniteSets, SequencesExt, Functions

CONSTANTS
  None, Log, LineBytes,
  Committed,      (* the offsets the consumer group starts from             *)
  Pairings,       (* the sources and the sinks paired with them             *)
  Kinds,          (* the kinds of state: "value", "list", "map"             *)
  MaxCheckpoints, (* bound                                                  *)
  MaxUpsets       (* bound on the crashes and rebalances together           *)

SourceKinds == {"file", "kafka", "tcp", "memory"}
SinkKinds == {"file", "tcp", "kafka", "collect"}

ASSUME RecoveryAssumption ==
  /\ None \notin Nat
  /\ 1 \in DOMAIN Log
  /\ \A p \in DOMAIN Log : Log[p] \in Seq(Range(Log[p]))
  /\ \A p \in DOMAIN Log : \A r \in Range(Log[p]) : r.key # None
  /\ LineBytes \in Seq(Nat \ {0}) /\ Len(Log[1]) <= Len(LineBytes)
  /\ Committed \in [DOMAIN Log -> Nat]
  /\ \A p \in DOMAIN Log : Committed[p] <= Len(Log[p])
  /\ Pairings \subseteq SourceKinds \X SinkKinds

VARIABLES source, assignment, restored, startAt, position, committed, sink, buffer, stored,
          backends, currentKey,
  kind,       (* the kind of state the operator keeps                       *)
  registers,  (* it creates the states of all keys before the restore       *)
  status,     (* "running", "crashed" or "ended"                            *)
  checkpoint, (* the last completed checkpoint, or None                     *)
  taken,      (* how many checkpoints completed                             *)
  crashes,    (* how many crashes happened                                  *)
  rebalances, (* how many times the group assigned the partitions anew      *)
  strayed,    (* history: the source was to go on elsewhere than it had     *)
              (* stopped, in this process or in those its state comes from  *)
  skipped     (* history: the records the source went on behind             *)

sourceVars == <<source, assignment, restored, startAt, position, committed>>
sinkVars == <<sink, buffer, stored>>
stateVars == <<backends, currentKey>>
job == <<kind, registers, status, checkpoint, taken, crashes, rebalances, strayed, skipped>>
vars == <<sourceVars, sinkVars, stateVars, job>>

C == INSTANCE Connectors
K == INSTANCE KeyedState

Keys == {r.key : r \in UNION {Range(Log[p]) : p \in DOMAIN Log}}

(* What the operator makes of a record: an id is kept, or the state cleared. *)
Applied(s, r) ==
  IF r.op = "clear" THEN K!Cleared(kind)
  ELSE CASE kind = "value" -> K!ValueSet(s, r.id)
         [] kind = "list" -> K!ListAdd(s, r.id)
         [] kind = "map" -> IF r.id \in DOMAIN s THEN K!MapRemove(s, r.id)
                            ELSE K!MapPut(s, r.id, r.key)

AllCreated(b) == [k \in Keys |-> K!Created(b, k, kind)[k]]

Init ==
  /\ \E pair \in Pairings : source = pair[1] /\ sink = pair[2]
  /\ committed = Committed
  /\ assignment = C!SourceNew(source).assignment
  /\ restored = FALSE
  /\ startAt = C!SourceNew(source).startAt
  /\ position = C!SourceNew(source).position
  /\ buffer = {}
  /\ stored = {}
  /\ kind \in Kinds
  /\ registers \in BOOLEAN
  /\ backends = IF registers THEN AllCreated(<<>>) ELSE <<>>
  /\ currentKey = None
  /\ status = "running"
  /\ checkpoint = None
  /\ taken = 0
  /\ crashes = 0
  /\ rebalances = 0
  /\ strayed = FALSE
  /\ skipped = {}

Reached == [p \in C!Partitions |-> C!Read(p)]

(* Where the job began to read. *)
Start(p) == IF source = "kafka" THEN Committed[p] ELSE 0

(* What a source leaves out that stood at "from" and goes on at "to". *)
Skips(from, to) == UNION {{<<p, n>> : n \in (from[p] + 1)..to[p]} : p \in C!Partitions}

(* The group assigns the partitions, which the source then reads from the  *)
(* committed offsets, wherever it was.                                     *)
Reassign ==
  /\ status = "running"
  /\ C!GroupAssign
  /\ strayed' = (strayed \/ committed # Reached)
  /\ skipped' = skipped \cup Skips(Reached, committed)
  /\ UNCHANGED <<sinkVars, stateVars, kind, registers, status, checkpoint, taken, crashes>>

GroupAssign ==
  /\ assignment = {}
  /\ ~restored
  /\ Reassign
  /\ UNCHANGED rebalances

(* Again, or in place of what restore assigned. *)
Rebalance ==
  /\ assignment # {} \/ restored
  /\ crashes + rebalances < MaxUpsets
  /\ Reassign
  /\ rebalances' = rebalances + 1

AutoCommit ==
  /\ status = "running"
  /\ C!AutoCommit
  /\ UNCHANGED <<sinkVars, stateVars, job>>

(* A record goes from the source through the operator, which creates the   *)
(* state of a key it has no handle for, to the sink.                       *)
ProcessRecord(p) ==
  /\ status = "running"
  /\ C!Next(p)
  /\ LET r == Log[p][C!Read(p) + 1]
         b == IF K!CanCreate(r.key, kind) THEN K!Created(backends, r.key, kind) ELSE backends
     IN /\ K!SetCurrentKey(r.key)
        /\ backends' = K!Updated(b, r.key, kind, Applied(b[r.key][kind], r))
        /\ C!Write(r.id)
  /\ UNCHANGED job

(* Between records the operator may drop its key. *)
DropKey ==
  /\ status = "running"
  /\ currentKey # None
  /\ K!ClearCurrentKey
  /\ UNCHANGED <<sourceVars, sinkVars, job>>

(* add_sink's drain loop ends with its input, without a last flush. *)
EndOfStream ==
  /\ status = "running"
  /\ C!AtEnd
  /\ status' = "ended"
  /\ UNCHANGED <<sourceVars, sinkVars, stateVars, kind, registers, checkpoint, taken, crashes,
                 rebalances, strayed, skipped>>

Checkpoint ==
  /\ status = "running"
  /\ taken < MaxCheckpoints
  /\ C!Flush
  /\ taken' = taken + 1
  /\ checkpoint' = [source |-> C!SourceSnapshot, state |-> K!Snapshot,
                    reached |-> Reached, strayed |-> strayed]
  /\ UNCHANGED <<sourceVars, stateVars, kind, registers, status, crashes, rebalances, strayed,
                 skipped>>

(* Records on their way from the source to the operator die with the       *)
(* process.                                                                *)
Crash ==
  /\ status = "running"
  /\ crashes + rebalances < MaxUpsets
  /\ status' = "crashed"
  /\ crashes' = crashes + 1
  /\ committed' \in C!CommittedAhead
  /\ UNCHANGED <<source, assignment, restored, startAt, position, sinkVars, stateVars, kind,
                 registers, checkpoint, taken, rebalances, strayed, skipped>>

(* The new process restores the checkpoint if there is one. *)
Recover ==
  /\ status = "crashed"
  /\ status' = "running"
  /\ UNCHANGED <<source, committed, kind, registers, checkpoint, taken, crashes, rebalances>>
  /\ LET fresh == IF registers THEN AllCreated(<<>>) ELSE <<>>
         new == IF checkpoint = None THEN C!SourceNew(source)
                ELSE C!SourceRestored(checkpoint.source)
         stopped == IF checkpoint = None THEN [p \in C!Partitions |-> Start(p)]
                    ELSE checkpoint.reached
     IN /\ assignment' = new.assignment
        /\ restored' = new.restored
        /\ startAt' = new.startAt
        /\ position' = new.position
        /\ backends' = IF checkpoint = None THEN fresh ELSE K!Restored(fresh, checkpoint.state)
        /\ strayed' = IF checkpoint = None THEN source = "kafka" /\ committed # Committed
                      ELSE \/ checkpoint.strayed
                           \/ source \in {"tcp", "memory"}
                           \/ source = "kafka" /\ checkpoint.source # checkpoint.reached
        /\ skipped' = skipped \cup Skips(stopped, Reached')
  /\ currentKey' = None
  /\ C!SinkNew

Running == GroupAssign \/ (\E p \in DOMAIN Log : ProcessRecord(p)) \/ EndOfStream \/ Recover

Next == Running \/ Rebalance \/ AutoCommit \/ DropKey \/ Checkpoint \/ Crash

Spec == Init /\ [][Next]_vars /\ WF_vars(Running)

-----------------------------------------------------------------------------
Ids == {r.id : r \in UNION {Range(Log[p]) : p \in DOMAIN Log}}

(* Type invariant: only known keys have state, only real results are       *)
(* written, and a source is never positioned past the end of its input,    *)
(* where nothing could be read from again.                                 *)
TypeOK ==
  /\ assignment \subseteq DOMAIN Log
  /\ \A p \in C!Partitions :
       LET end == IF source = "file" THEN C!BytesOf(Len(Log[p])) ELSE Len(Log[p])
       IN /\ position[p] \in (0..end) \cup {None}
          /\ {startAt[p], committed[p]} \subseteq 0..Len(Log[p])
  /\ stored \cup buffer \subseteq Ids
  /\ DOMAIN backends \subseteq Keys
  /\ currentKey \in Keys \cup {None}
  /\ status \in {"running", "crashed", "ended"}

(* The state of a key after the first n records of a partition, those      *)
(* before the start of the source skipped.                                 *)
After(k, p, n) ==
  LET after[m \in 0..Len(Log[p])] ==
        IF m <= Start(p) THEN K!EmptyState(kind)
        ELSE IF Log[p][m].key = k THEN Applied(after[m - 1], Log[p][m])
        ELSE after[m - 1]
  IN  after[n]

(* The state a key would have after the records reached so far, each once. *)
(* (In the logs of the runs every record of a key is in one partition.)    *)
Expected(k, reached) ==
  LET home == {p \in DOMAIN reached : \E r \in Range(Log[p]) : r.key = k}
  IN  IF home = {} THEN K!EmptyState(kind)
      ELSE LET p == CHOOSE q \in home : TRUE IN After(k, p, reached[p])

State(k) ==
  IF kind \in DOMAIN K!Backend(backends, k) THEN backends[k][kind] ELSE K!EmptyState(kind)

(* README.md: "Exactly-once state": whatever the crashes, each key's state *)
(* is the effect of exactly the records the source has read past, each     *)
(* once and in order, no key's records in another's state -- provided the  *)
(* operator registered its states before the restore, which restores only  *)
(* those, and neither this process nor those its state comes from went on  *)
(* elsewhere than it had stopped.                                          *)
StateMatchesPosition ==
  status = "running" /\ (registers \/ crashes = 0) /\ ~strayed =>
    \A k \in Keys : State(k) = Expected(k, Reached)

(* traits/sink.rs: flush is "Called before acknowledging a checkpoint      *)
(* barrier": what the job had read when a completed checkpoint was taken   *)
(* is outside the process, whatever crashes later, so that not reading it  *)
(* again loses nothing; only what the consumer group had the source skip   *)
(* may be missing.  A file is truncated by its next sink, and a collected  *)
(* vector is lost with its process: for these it only holds until a crash. *)
CheckpointedIsStored ==
  checkpoint # None /\ (sink \in {"tcp", "kafka"} \/ crashes = 0) =>
    \A p \in DOMAIN checkpoint.reached : \A n \in (Start(p) + 1)..checkpoint.reached[p] :
      <<p, n>> \in skipped \/ Log[p][n].id \in stored

(* A source goes on to read everything: no crash, checkpoint, restore or   *)
(* rebalance leaves it unassigned or past its input -- but a consumer      *)
(* restored from a checkpoint taken before its first assignment, which     *)
(* saved no partition, has none to read.                                   *)
NothingSaved == checkpoint # None /\ source = "kafka" /\ DOMAIN checkpoint.source = {}
AllRead == <>[](NothingSaved \/ \A p \in C!Partitions : C!Read(p) = Len(Log[p]))

(* file sink.rs: "Each record's value is converted via `Display` and       *)
(* written as one line": when the job has ended, without a crash, the      *)
(* results are in the file.                                                *)
WrittenAtEnd ==
  status = "ended" /\ crashes = 0 => {r.id : r \in Range(Log[1])} \subseteq stored

(* traits/source.rs: restore shall "Reset the source to a previously       *)
(* checkpointed position".                                                 *)
ResumesWhereItStopped == source \in {"file", "kafka"} => ~strayed
=============================================================================
