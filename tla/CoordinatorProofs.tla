------------------------- MODULE CoordinatorProofs -------------------------
(***************************************************************************)
(* Proofs about Coordinator for any operators, sources, channel capacity,  *)
(* ticks and retention: through failures, timeouts and a crash at any      *)
(* point, the first run of the process leaves a directory whose latest     *)
(* checkpoint is whole and is the one committed last.                      *)
(***************************************************************************)
EXTENDS Coordinator, TLAPS, FiniteSetTheorems, WellFoundedInduction

(* A checkpoint is under way: started, and not yet committed or given up.  *)
Underway == phase \in {"sending", "collecting", "opening", "writing"}

(* The ids a run uses: one more for each tick, and one for a cancellation. *)
Numbering ==
  /\ nextId = cpId + 1
  /\ ~final => nextId <= MostTicks + 1
  /\ phase \in {"idle", "cleaning"} => ~final
  /\ Underway => cpId >= 1
  /\ phase = "sending" => sendIdx <= NumSources
  /\ phase \in {"opening", "writing"} => saving.op \in Operators /\ saving.cp = cpId

(* The files of the checkpoint under way: the marker is written last, and  *)
(* an operator counts as saved only when its file is whole.                *)
UnderwayOnDisk ==
  /\ \A id \in CheckpointIds, name \in Store!Names :
       disk[<<id, name>>] # Store!Absent => id <= cpId
  /\ Underway =>
       /\ disk[<<cpId, Store!Marker>>] = Store!Absent
       /\ phase = "sending" => saved = {}
       /\ \A op \in saved :
            (phase = "writing" => op # saving.op) =>
              disk[<<cpId, op>>] = Store!Snapshot(epoch, cpId)

(* The files of the last committed checkpoint: it has all of them, no      *)
(* other marker has a higher id, and cleanup will not touch it.            *)
NewestOnDisk ==
  IF newest = Store!Absent THEN Store!Committed(disk) = {}
  ELSE /\ newest.cp \in Store!Committed(disk)
       /\ \A id \in Store!Committed(disk) : id <= newest.cp
       /\ \A op \in Operators : disk[<<newest.cp, op>>] = newest
       /\ newest.state = "whole"
       /\ newest.cp \notin doomed

(* Before another run writes to the directory; a retention of zero would   *)
(* have cleanup remove the checkpoint just committed.                       *)
FirstRun == epoch = 1 /\ MaxRetained > 0 => UnderwayOnDisk /\ NewestOnDisk

(* The inductive invariant. *)
IInv == TypeOK /\ Numbering /\ FirstRun

-----------------------------------------------------------------------------
(* Lemmas about the constants and the store. *)

(* A set of naturals that is not empty has a least element. *)
LEMMA LeastElement ==
  ASSUME NEW S \in SUBSET Nat, S # {}
  PROVE  \E x \in S : \A y \in S : x <= y
<1>1. PICK x \in S : \A y \in S : ~ (<<y, x>> \in OpToRel(<, Nat))
  BY NatLessThanWellFounded, WFMin, Zenon
<1>2. \A y \in S : x <= y
  <2>1. TAKE y \in S
  <2>2. y \in Nat /\ x \in Nat
    OBVIOUS
  <2>3. ~ (y < x)
    BY <1>1, <2>2 DEF OpToRel
  <2>4. QED  BY <2>2, <2>3
<1>3. QED  BY <1>2

(* MostTicks bounds the ticks of every run. *)
LEMMA TicksBounded ==
  /\ MostTicks \in Nat
  /\ MaxEpochs \in Nat \ {0}
  /\ \A e \in 1..MaxEpochs : MaxTicks[e] \in Nat /\ MaxTicks[e] <= MostTicks
<1> DEFINE Bounded(n) == \E m \in 1..n : \A k \in 1..n : MaxTicks[k] <= MaxTicks[m]
<1> DEFINE Bad == {n \in 1..MaxEpochs : ~Bounded(n)}
<1>1. /\ MaxEpochs \in Nat \ {0}
      /\ DOMAIN MaxTicks = 1..MaxEpochs
      /\ \A e \in 1..MaxEpochs : MaxTicks[e] \in Nat
  BY CoordinatorAssumption DEF MaxEpochs
<1>2. Bad = {}
  <2>1. SUFFICES ASSUME Bad # {} PROVE FALSE
    OBVIOUS
  <2>2. Bad \in SUBSET Nat
    BY <1>1
  <2>3. PICK n \in Bad : \A y \in Bad : n <= y
    BY <2>1, <2>2, LeastElement
  <2>4. n \in 1..MaxEpochs /\ ~Bounded(n)
    OBVIOUS
  <2>5. n # 1
    BY <1>1, <2>4
  <2>6. n - 1 \in 1..MaxEpochs /\ n - 1 \notin Bad
    <3>1. n \in Nat /\ n - 1 \in 1..MaxEpochs /\ ~(n <= n - 1)
      BY <1>1, <2>4, <2>5
    <3> HIDE DEF Bad
    <3>2. QED  BY <2>3, <3>1
  <2>7. PICK m \in 1..(n - 1) : \A k \in 1..(n - 1) : MaxTicks[k] <= MaxTicks[m]
    BY <2>6
  <2>8. \A k \in 1..n : k \in 1..(n - 1) \/ k = n
    BY <2>4
  <2>9. CASE MaxTicks[n] <= MaxTicks[m]
    <3>1. m \in 1..n
      BY <2>4, <2>7
    <3>2. QED  BY <2>4, <2>7, <2>8, <2>9, <3>1
  <2>10. CASE ~(MaxTicks[n] <= MaxTicks[m])
    <3>1. \A k \in 1..n : MaxTicks[k] <= MaxTicks[n]
      BY <1>1, <2>4, <2>7, <2>8, <2>10
    <3>2. QED  BY <2>4, <3>1
  <2>11. QED  BY <2>9, <2>10
<1>3. PICK m \in 1..MaxEpochs : \A k \in 1..MaxEpochs : MaxTicks[k] <= MaxTicks[m]
  <2>1. MaxEpochs \in 1..MaxEpochs /\ MaxEpochs \notin Bad
    <3>1. MaxEpochs \in 1..MaxEpochs
      BY <1>1
    <3> HIDE DEF Bad
    <3>2. QED  BY <1>2, <3>1
  <2>2. QED  BY <2>1
<1>4. Range(MaxTicks) = {MaxTicks[e] : e \in 1..MaxEpochs}
  BY <1>1 DEF Range
<1>5. /\ MostTicks \in Range(MaxTicks)
      /\ \A k \in Range(MaxTicks) : k <= MostTicks
  <2>1. MaxTicks[m] \in Range(MaxTicks) /\ \A k \in Range(MaxTicks) : k <= MaxTicks[m]
    BY <1>3, <1>4
  <2>2. QED  BY <2>1 DEF MostTicks
<1>6. QED  BY <1>1, <1>4, <1>5

(* latest_checkpoint finds the highest marker. *)
LEMMA LatestIsHighest ==
  ASSUME NEW id \in Store!Committed(disk),
         \A c \in Store!Committed(disk) : c <= id
  PROVE  Latest = id
<1>1. Store!Committed(disk) \subseteq Nat
  BY TicksBounded DEF Store!Committed, CheckpointIds
<1>2. /\ Latest \in Store!Committed(disk) \cup {0}
      /\ \A c \in Store!Committed(disk) : c <= Latest
  BY DEF Latest, Store!Latest
<1>3. QED  BY <1>1, <1>2

(* ... and None without any. *)
LEMMA NoneIsLatest ==
  ASSUME Store!Committed(disk) = {}
  PROVE  Latest = 0
BY DEF Latest, Store!Latest

(* A cleanup that keeps at least one keeps the highest. *)
LEMMA HighestIsNotDoomed ==
  ASSUME NEW d, NEW id \in Nat, Store!Committed(d) \subseteq Nat,
         \A c \in Store!Committed(d) : c <= id, MaxRetained > 0
  PROVE  id \notin Store!Doomed(d, MaxRetained)
<1>1. {c \in Store!Committed(d) : c > id} = {}
  OBVIOUS
<1>2. Store!Cardinality({c \in Store!Committed(d) : c > id}) = 0
  <2>1. \A S : Store!Cardinality(S) = Cardinality(S)
    BY DEF Store!Cardinality, Cardinality
  <2>2. QED  BY <1>1, <2>1, FS_EmptySet
<1>3. QED  BY <1>2, CoordinatorAssumption DEF Store!Doomed

(* When the acks received are as many as the operators, they are of all.   *)
LEMMA AllSaved ==
  ASSUME saved \subseteq Operators, phase = "collecting", ~Collecting
  PROVE  saved = Operators
<1>1. IsFiniteSet(Operators) /\ saved \in SUBSET Operators
  BY CoordinatorAssumption
<1>2. /\ Cardinality(saved) <= Cardinality(Operators)
      /\ Cardinality(Operators) = Cardinality(saved) => Operators = saved
      /\ IsFiniteSet(saved)
  BY <1>1, FS_Subset
<1>3. Cardinality(saved) \in Nat /\ Cardinality(Operators) \in Nat
  BY <1>1, <1>2, FS_CardinalityType
<1>4. QED  BY <1>2, <1>3 DEF Collecting

-----------------------------------------------------------------------------
(* The initial state. *)

LEMMA InitIInv == Init => IInv
<1> SUFFICES ASSUME Init PROVE IInv
  OBVIOUS
<1>a. NumSources \in Nat \ {0} /\ MostTicks \in Nat /\ MaxEpochs \in Nat \ {0}
  BY CoordinatorAssumption, TicksBounded
<1>1. TypeOK
  <2>1. disk \in [CheckpointIds \X Store!Names -> Contents]
    BY DEF Init, Store!EmptyDisk, Contents
  <2>2. /\ barriers \in [Sources -> Seq(CheckpointIds)]
        /\ seen \in [Sources -> 0..(MostTicks + 1)]
        /\ ackedCp \in [Operators -> 0..(MostTicks + 1)]
        /\ acks \in Seq([cp : CheckpointIds, op : Operators])
    BY <1>a DEF Init
  <2>3. newest \in Contents
    BY DEF Init, Contents
  <2>4. /\ epoch \in 1..MaxEpochs
        /\ nextId \in 1..(MostTicks + 2)
        /\ cpId \in 0..(MostTicks + 1)
        /\ sendIdx \in 1..(NumSources + 1)
    BY <1>a DEF Init
  <2>5. QED  BY <2>1, <2>2, <2>3, <2>4 DEF Init, TypeOK
<1>2. Numbering
  BY <1>a DEF Init, Numbering, Underway
<1>3. FirstRun
  <2>1. \A id \in CheckpointIds, name \in Store!Names : disk[<<id, name>>] = Store!Absent
    BY DEF Init, Store!EmptyDisk
  <2>2. Store!Committed(disk) = {}
    BY <2>1 DEF Store!Committed, Store!Names
  <2>3. QED
    BY <2>1, <2>2 DEF Init, FirstRun, UnderwayOnDisk, NewestOnDisk, Underway
<1>4. QED  BY <1>1, <1>2, <1>3 DEF IInv

-----------------------------------------------------------------------------
(* Type correctness and the numbering of checkpoints, one step. *)

(* A file written has one of the contents a file may have. *)
LEMMA WriteTyped ==
  ASSUME TypeOK, NEW id \in CheckpointIds, NEW name \in Store!Names,
         NEW content \in Contents,
         disk' = Store!WriteFile(disk, id, name, content)
  PROVE  disk' \in [CheckpointIds \X Store!Names -> Contents]
BY DEF TypeOK, Store!WriteFile

LEMMA SnapshotIsContent ==
  ASSUME NEW e \in 1..MaxEpochs, NEW c \in CheckpointIds
  PROVE  Store!Snapshot(e, c) \in Contents
BY DEF Contents

LEMMA NumberingStep ==
  ASSUME TypeOK, Numbering, [Next]_vars
  PROVE  TypeOK' /\ Numbering'
<1>a. NumSources \in Nat \ {0} /\ MostTicks \in Nat /\ MaxEpochs \in Nat \ {0}
  BY CoordinatorAssumption, TicksBounded
<1> USE <1>a
<1> USE DEF progress, work, pipeline, live
<1>1. CASE Tick
  <2>1. MaxTicks[epoch] \in Nat /\ MaxTicks[epoch] <= MostTicks
    BY TicksBounded DEF TypeOK
  <2>2. nextId \in Nat /\ nextId >= 1 /\ nextId <= MostTicks
    BY <1>1, <2>1 DEF Tick, TypeOK
  <2>3. /\ nextId' \in 1..(MostTicks + 2)
        /\ cpId' \in 0..(MostTicks + 1)
        /\ sendIdx' \in 1..(NumSources + 1)
    <3>1. nextId' = nextId + 1 /\ cpId' = nextId /\ sendIdx' = 1
      BY <1>1 DEF Tick, Start
    <3>2. QED  BY <2>2, <3>1
  <2>a. TypeOK'
    BY <1>1, <2>3 DEF Tick, Start, TypeOK
  <2>4. Numbering'
    BY <1>1, <2>2 DEF Tick, Start, TypeOK, Numbering, Underway
  <2>5. QED  BY <2>a, <2>4
<1>2. CASE SeeCancel
  BY <1>2 DEF SeeCancel, Start, TypeOK, Numbering, Underway
<1>3. CASE SendBarrier
  <2>1. cpId \in CheckpointIds /\ sendIdx \in Sources
    BY <1>3 DEF SendBarrier, TypeOK, Numbering, Underway, CheckpointIds, Sources
  <2>2. barriers' \in [Sources -> Seq(CheckpointIds)]
    BY <1>3, <2>1 DEF SendBarrier, TypeOK
  <2>3. /\ sendIdx' \in 1..(NumSources + 1)
        /\ phase' \in {"sending", "collecting"}
        /\ phase' = "sending" => sendIdx' <= NumSources
    BY <1>3, <2>1 DEF SendBarrier, Sources
  <2>4. TypeOK'
    BY <1>3, <2>2, <2>3 DEF SendBarrier, TypeOK
  <2>5. Numbering'
    BY <1>3, <2>3 DEF SendBarrier, Numbering, Underway
  <2>6. QED  BY <2>4, <2>5
<1>4. CASE SendFails
  BY <1>4 DEF SendFails, TypeOK, Numbering, Underway
<1>5. CASE ReceiveAck
  <2>1. /\ Head(acks) \in [cp : CheckpointIds, op : Operators]
        /\ Tail(acks) \in Seq([cp : CheckpointIds, op : Operators])
    <3> DEFINE Ack == [cp : CheckpointIds, op : Operators]
    <3>1. acks \in Seq(Ack) /\ acks # <<>>
      BY <1>5 DEF ReceiveAck, TypeOK
    <3> HIDE DEF Ack
    <3>2. Head(acks) \in Ack /\ Tail(acks) \in Seq(Ack)
      BY <3>1
    <3>3. QED  BY <3>2 DEF Ack
  <2>2. saving' \in [cp : CheckpointIds, op : Operators]
    BY <1>5, <2>1 DEF ReceiveAck
  <2>3. TypeOK'
    BY <1>5, <2>1, <2>2 DEF ReceiveAck, TypeOK
  <2>4. saving'.op \in Operators /\ saving'.cp = cpId
    BY <1>5, <2>2 DEF ReceiveAck
  <2>5. Numbering'
    BY <1>5, <2>4 DEF ReceiveAck, Collecting, TypeOK, Numbering, Underway
  <2>6. QED  BY <2>3, <2>5
<1>6. CASE StaleAck
  <2>1. Tail(acks) \in Seq([cp : CheckpointIds, op : Operators])
    BY <1>6 DEF StaleAck, TypeOK
  <2>2. QED
    BY <1>6, <2>1 DEF StaleAck, TypeOK, Numbering, Underway
<1>7. CASE AcksClosed
  BY <1>7 DEF AcksClosed, TypeOK, Numbering, Underway
<1>8. CASE Timeout
  BY <1>8 DEF Timeout, GiveUp, TypeOK, Numbering, Underway
<1>9. CASE OpenFile
  <2>1. cpId \in CheckpointIds /\ saving.op \in Store!Names /\ Store!Torn \in Contents
    BY <1>9 DEF OpenFile, TypeOK, Numbering, Underway, CheckpointIds, Store!Names, Contents
  <2>2. disk' \in [CheckpointIds \X Store!Names -> Contents]
    BY <1>9, <2>1, WriteTyped DEF OpenFile
  <2>3. QED
    BY <1>9, <2>2 DEF OpenFile, TypeOK, Numbering, Underway
<1>10. CASE SaveState
  <2>1. cpId \in CheckpointIds /\ saving.op \in Operators /\ saving.cp = cpId
    BY <1>10 DEF SaveState, TypeOK, Numbering, Underway, CheckpointIds
  <2>2. Store!Snapshot(epoch, saving.cp) \in Contents
    BY <2>1, SnapshotIsContent DEF TypeOK
  <2>3. disk' \in [CheckpointIds \X Store!Names -> Contents]
    BY <1>10, <2>1, <2>2, WriteTyped DEF SaveState, Store!Names
  <2>4. QED
    BY <1>10, <2>1, <2>3 DEF SaveState, TypeOK, Numbering, Underway
<1>11. CASE SaveFails
  BY <1>11 DEF SaveFails, GiveUp, TypeOK, Numbering, Underway
<1>12. CASE Commit
  <2>1. cpId \in CheckpointIds /\ Store!Marker \in Store!Names /\ Store!Empty \in Contents
    BY <1>12 DEF Commit, TypeOK, Numbering, Underway, CheckpointIds, Store!Names, Contents
  <2>2. disk' \in [CheckpointIds \X Store!Names -> Contents]
    BY <1>12, <2>1, WriteTyped DEF Commit
  <2>3. newest' \in Contents
    BY <1>12, <2>1, SnapshotIsContent DEF Commit, TypeOK
  <2>4. doomed' \subseteq CheckpointIds
    BY <1>12 DEF Commit, Store!Doomed, Store!Committed
  <2>5. QED
    BY <1>12, <2>2, <2>3, <2>4 DEF Commit, TypeOK, Numbering, Underway
<1>13. CASE CommitFails
  BY <1>13 DEF CommitFails, GiveUp, TypeOK, Numbering, Underway
<1>14. CASE Remove
  <2>1. PICK id \in doomed : RemoveFails(id) \/ \E name \in Store!Names : RemoveFile(id, name)
    BY <1>14 DEF Remove
  <2>2. CASE RemoveFails(id)
    BY <2>2 DEF RemoveFails, TypeOK, Numbering, Underway
  <2>3. CASE \E name \in Store!Names : RemoveFile(id, name)
    <3>1. PICK name \in Store!Names : RemoveFile(id, name)
      BY <2>3
    <3>2. id \in CheckpointIds /\ Store!Absent \in Contents
      BY DEF TypeOK, Contents
    <3>3. disk' \in [CheckpointIds \X Store!Names -> Contents]
      BY <3>1, <3>2, WriteTyped DEF RemoveFile
    <3>4. doomed' \subseteq CheckpointIds
      BY <3>1 DEF RemoveFile, TypeOK
    <3>5. QED
      BY <3>1, <3>3, <3>4 DEF RemoveFile, TypeOK, Numbering, Underway
  <2>4. QED  BY <2>1, <2>2, <2>3
<1>15. CASE CleanupDone
  BY <1>15 DEF CleanupDone, TypeOK, Numbering, Underway
<1>16. ASSUME NEW s \in Sources, TakeBarrier(s)
       PROVE  TypeOK' /\ Numbering'
  <2>1. /\ Head(barriers[s]) \in CheckpointIds
        /\ Tail(barriers[s]) \in Seq(CheckpointIds)
    <3>1. barriers[s] \in Seq(CheckpointIds) /\ barriers[s] # <<>>
      BY <1>16 DEF TakeBarrier, TypeOK
    <3>2. QED  BY <3>1
  <2>2. seen' \in [Sources -> 0..(MostTicks + 1)]
    BY <1>16, <2>1 DEF TakeBarrier, TypeOK, CheckpointIds
  <2>3. barriers' \in [Sources -> Seq(CheckpointIds)]
    BY <1>16, <2>1 DEF TakeBarrier, TypeOK
  <2>4. QED
    BY <1>16, <2>2, <2>3 DEF TakeBarrier, TypeOK, Numbering, Underway
<1>17. ASSUME NEW op \in Operators, Acknowledge(op)
       PROVE  TypeOK' /\ Numbering'
  <2>1. ackedCp[op] + 1 \in CheckpointIds
    <3>1. PICK s \in Upstream[op] : s \in Sources
      <4>1. Upstream[op] \in (SUBSET Sources) \ {{}}
        BY CoordinatorAssumption
      <4>2. QED  BY <4>1
    <3>2. seen[s] \in 0..(MostTicks + 1) /\ seen[s] > ackedCp[op]
      BY <1>17, <3>1 DEF Acknowledge, TypeOK
    <3>3. ackedCp[op] \in 0..(MostTicks + 1)
      BY DEF TypeOK
    <3>4. QED  BY <3>2, <3>3 DEF CheckpointIds
  <2>2. ackedCp' \in [Operators -> 0..(MostTicks + 1)]
    BY <1>17, <2>1 DEF Acknowledge, TypeOK, CheckpointIds
  <2>3. acks' \in Seq([cp : CheckpointIds, op : Operators])
    BY <1>17, <2>1 DEF Acknowledge, TypeOK
  <2>4. QED
    BY <1>17, <2>2, <2>3 DEF Acknowledge, TypeOK, Numbering, Underway
<1>18. ASSUME NEW s \in Sources, EndSource(s)
       PROVE  TypeOK' /\ Numbering'
  BY <1>18 DEF EndSource, TypeOK, Numbering, Underway
<1>19. ASSUME NEW op \in Operators, EndOperator(op)
       PROVE  TypeOK' /\ Numbering'
  BY <1>19 DEF EndOperator, TypeOK, Numbering, Underway
<1>20. CASE RequestCancel
  BY <1>20 DEF RequestCancel, TypeOK, Numbering, Underway
<1>21. CASE Crash
  BY <1>21 DEF Crash, TypeOK, Numbering, Underway
<1>22. CASE Restart
  <2>1. epoch' \in 1..MaxEpochs
    BY <1>22 DEF Restart, Fresh, TypeOK
  <2>2. /\ barriers' \in [Sources -> Seq(CheckpointIds)]
        /\ seen' \in [Sources -> 0..(MostTicks + 1)]
        /\ ackedCp' \in [Operators -> 0..(MostTicks + 1)]
        /\ acks' \in Seq([cp : CheckpointIds, op : Operators])
    BY <1>22 DEF Restart, Fresh
  <2>3. saving' \in [cp : CheckpointIds, op : Operators] \cup {NoAck}
    BY <1>22 DEF Restart, Fresh
  <2>a. /\ nextId' \in 1..(MostTicks + 2)
        /\ cpId' \in 0..(MostTicks + 1)
        /\ sendIdx' \in 1..(NumSources + 1)
    BY <1>22 DEF Restart, Fresh
  <2>4. TypeOK'
    BY <1>22, <2>1, <2>2, <2>3, <2>a DEF Restart, Fresh, TypeOK
  <2>5. Numbering'
    BY <1>22 DEF Restart, Fresh, Numbering, Underway
  <2>6. QED  BY <2>4, <2>5
<1>23. CASE UNCHANGED vars
  BY <1>23 DEF vars, TypeOK, Numbering, Underway
<1>24. QED
  BY <1>1, <1>2, <1>3, <1>4, <1>5, <1>6, <1>7, <1>8, <1>9, <1>10, <1>11, <1>12,
     <1>13, <1>14, <1>15, <1>16, <1>17, <1>18, <1>19, <1>20, <1>21, <1>22, <1>23
     DEF Next, Coordinate, Collect, Persist

-----------------------------------------------------------------------------
(* The files of the first run, one step. *)

(* A step that writes no file and starts no checkpoint. *)
LEMMA QuietStep ==
  ASSUME FirstRun, UNCHANGED <<disk, newest, epoch, cpId>>, doomed' \subseteq doomed,
         Underway' => /\ Underway /\ saved' = saved
                      /\ phase' = "sending" => phase = "sending"
                      /\ phase' = "writing" <=> phase = "writing"
                      /\ phase' = "writing" => saving' = saving
  PROVE  FirstRun'
<1> SUFFICES ASSUME epoch = 1, MaxRetained > 0 PROVE (UnderwayOnDisk /\ NewestOnDisk)'
  BY DEF FirstRun
<1>1. UnderwayOnDisk /\ NewestOnDisk
  BY DEF FirstRun
<1>2. UnderwayOnDisk'
  <2>1. \A id \in CheckpointIds, name \in Store!Names :
          disk'[<<id, name>>] # Store!Absent => id <= cpId'
    BY <1>1 DEF UnderwayOnDisk
  <2>2. ASSUME Underway'
        PROVE  /\ disk'[<<cpId', Store!Marker>>] = Store!Absent
               /\ phase' = "sending" => saved' = {}
               /\ \A op \in saved' :
                    (phase' = "writing" => op # saving'.op) =>
                      disk'[<<cpId', op>>] = Store!Snapshot(epoch', cpId')
    BY <1>1, <2>2 DEF UnderwayOnDisk
  <2>3. QED  BY <2>1, <2>2 DEF UnderwayOnDisk, Underway
<1>3. NewestOnDisk'
  <2>1. Store!Committed(disk') = Store!Committed(disk)
    BY DEF Store!Committed
  <2>2. QED  BY <1>1, <2>1 DEF NewestOnDisk
<1>4. QED  BY <1>2, <1>3

(* A checkpoint starts: its id is above that of every file. *)
LEMMA StartStep ==
  ASSUME TypeOK, TypeOK', Numbering, FirstRun, NEW isFinal, Start(isFinal)
  PROVE  FirstRun'
<1> SUFFICES ASSUME epoch = 1, MaxRetained > 0 PROVE (UnderwayOnDisk /\ NewestOnDisk)'
  BY DEF FirstRun, Start
<1>1. UnderwayOnDisk /\ NewestOnDisk
  BY DEF FirstRun
<1>2. /\ disk' = disk /\ newest' = newest /\ doomed' = doomed /\ epoch' = epoch
      /\ cpId' = cpId + 1 /\ saved' = {} /\ phase' = "sending"
  BY DEF Start, Numbering
<1>3. cpId \in Nat /\ cpId' \in CheckpointIds
  BY <1>2, TicksBounded DEF TypeOK, CheckpointIds
<1>4. UnderwayOnDisk'
  <2>1. \A id \in CheckpointIds, name \in Store!Names :
          disk'[<<id, name>>] # Store!Absent => id <= cpId'
    BY <1>1, <1>2, <1>3, TicksBounded DEF UnderwayOnDisk, CheckpointIds
  <2>2. disk'[<<cpId', Store!Marker>>] = Store!Absent
    BY <1>1, <1>2, <1>3 DEF UnderwayOnDisk, Store!Names
  <2>3. QED  BY <1>2, <2>1, <2>2 DEF UnderwayOnDisk
<1>5. NewestOnDisk'
  <2>1. Store!Committed(disk') = Store!Committed(disk)
    BY <1>2 DEF Store!Committed
  <2>2. QED  BY <1>1, <1>2, <2>1 DEF NewestOnDisk
<1>6. QED  BY <1>4, <1>5

(* A write to another checkpoint than the newest, of no new marker. *)
LEMMA OtherWriteStep ==
  ASSUME TypeOK, NewestOnDisk, newest' = newest, doomed' \subseteq doomed,
         NEW id \in CheckpointIds, NEW name \in Store!Names, NEW content \in Contents,
         disk' = Store!WriteFile(disk, id, name, content),
         newest # Store!Absent => id # newest.cp,
         name = Store!Marker => content = Store!Absent
  PROVE  NewestOnDisk'
<1>1. \A i \in CheckpointIds, n \in Store!Names :
        disk'[<<i, n>>] = IF i = id /\ n = name THEN content ELSE disk[<<i, n>>]
  BY DEF TypeOK, Store!WriteFile
<1>2. /\ Store!Committed(disk') \subseteq Store!Committed(disk)
      /\ \A i \in Store!Committed(disk) : i # id => i \in Store!Committed(disk')
  BY <1>1 DEF Store!Committed, Store!Names
<1>3. CASE newest = Store!Absent
  BY <1>2, <1>3 DEF NewestOnDisk
<1>4. CASE newest # Store!Absent
  <2>1. newest.cp \in CheckpointIds /\ newest.cp # id
    BY <1>4 DEF NewestOnDisk, Store!Committed
  <2>2. \A op \in Operators : disk'[<<newest.cp, op>>] = disk[<<newest.cp, op>>]
    BY <1>1, <2>1 DEF Store!Names
  <2>3. QED  BY <1>2, <1>4, <2>1, <2>2 DEF NewestOnDisk
<1>5. QED  BY <1>3, <1>4

(* A checkpoint under way is not the newest one. *)
LEMMA NewestIsNotUnderway ==
  ASSUME UnderwayOnDisk, NewestOnDisk, Underway, newest # Store!Absent
  PROVE  cpId # newest.cp
BY DEF UnderwayOnDisk, NewestOnDisk, Store!Committed

LEMMA FirstRunStep ==
  ASSUME TypeOK, TypeOK', Numbering, FirstRun, [Next]_vars
  PROVE  FirstRun'
<1> USE DEF progress, work, pipeline, live
<1>1. CASE Tick \/ SeeCancel
  BY <1>1, StartStep DEF Tick, SeeCancel
<1>2. CASE SendBarrier
  BY <1>2, QuietStep DEF SendBarrier, Underway
<1>3. CASE SendFails \/ AcksClosed
  BY <1>3, QuietStep DEF SendFails, AcksClosed, Underway
<1>4. CASE ReceiveAck
  BY <1>4, QuietStep DEF ReceiveAck, Collecting, Underway
<1>5. CASE StaleAck
  BY <1>5, QuietStep DEF StaleAck, Underway
<1>6. CASE Timeout \/ CommitFails
  BY <1>6, QuietStep DEF Timeout, CommitFails, GiveUp, Underway
<1>7. CASE SaveFails
  BY <1>7, QuietStep DEF SaveFails, GiveUp, Underway
<1>8. CASE CleanupDone
  BY <1>8, QuietStep DEF CleanupDone, Underway
<1>9. CASE OpenFile
  <2> SUFFICES ASSUME epoch = 1, MaxRetained > 0 PROVE (UnderwayOnDisk /\ NewestOnDisk)'
    BY <1>9 DEF FirstRun, OpenFile
  <2>1. UnderwayOnDisk /\ NewestOnDisk /\ Underway
    BY <1>9 DEF FirstRun, OpenFile, Underway
  <2>2. /\ disk' = Store!WriteFile(disk, cpId, saving.op, Store!Torn)
        /\ UNCHANGED <<cpId, epoch, saved, saving, newest, doomed>>
        /\ phase' = "writing"
    BY <1>9 DEF OpenFile
  <2>3. /\ cpId \in CheckpointIds /\ saving.op \in Store!Names
        /\ saving.op # Store!Marker /\ Store!Torn \in Contents
    BY <1>9, TicksBounded, CoordinatorAssumption
       DEF OpenFile, TypeOK, Numbering, Underway, CheckpointIds, Store!Names, Contents
  <2>4. \A i \in CheckpointIds, n \in Store!Names :
          disk'[<<i, n>>] = IF i = cpId /\ n = saving.op THEN Store!Torn ELSE disk[<<i, n>>]
    BY <2>2, <2>3 DEF TypeOK, Store!WriteFile
  <2>5. NewestOnDisk'
    BY <2>1, <2>2, <2>3, NewestIsNotUnderway, OtherWriteStep
  <2>6. UnderwayOnDisk'
    <3>1. \A id \in CheckpointIds, name \in Store!Names :
            disk'[<<id, name>>] # Store!Absent => id <= cpId'
      BY <2>1, <2>2, <2>3, <2>4, TicksBounded DEF UnderwayOnDisk, CheckpointIds
    <3>2. disk'[<<cpId', Store!Marker>>] = Store!Absent
      BY <2>1, <2>2, <2>3, <2>4 DEF UnderwayOnDisk, Store!Names
    <3>3. ASSUME NEW op \in saved', op # saving'.op
          PROVE  disk'[<<cpId', op>>] = Store!Snapshot(epoch', cpId')
      <4>1. op \in Store!Names /\ op # saving.op
        BY <2>2, <3>3 DEF TypeOK, Store!Names
      <4>2. phase # "writing"
        BY <1>9 DEF OpenFile
      <4>3. QED  BY <2>1, <2>2, <2>3, <2>4, <4>1, <4>2, <3>3 DEF UnderwayOnDisk
    <3>4. QED  BY <2>2, <3>1, <3>2, <3>3 DEF UnderwayOnDisk
  <2>7. QED  BY <2>5, <2>6
<1>10. CASE SaveState
  <2> SUFFICES ASSUME epoch = 1, MaxRetained > 0 PROVE (UnderwayOnDisk /\ NewestOnDisk)'
    BY <1>10 DEF FirstRun, SaveState
  <2>1. UnderwayOnDisk /\ NewestOnDisk /\ Underway
    BY <1>10 DEF FirstRun, SaveState, Underway
  <2>2. /\ saving.op \in Operators /\ saving.cp = cpId /\ cpId \in CheckpointIds
    BY <1>10, TicksBounded DEF SaveState, TypeOK, Numbering, Underway, CheckpointIds
  <2> DEFINE whole == Store!Snapshot(epoch, cpId)
  <2>3. /\ disk' = Store!WriteFile(disk, cpId, saving.op, whole)
        /\ UNCHANGED <<cpId, epoch, newest, doomed>>
        /\ saved' = saved \cup {saving.op}
        /\ phase' = "collecting"
    BY <1>10, <2>2 DEF SaveState
  <2>4. /\ saving.op \in Store!Names /\ saving.op # Store!Marker /\ whole \in Contents
    BY <2>2, SnapshotIsContent, CoordinatorAssumption DEF TypeOK, Store!Names
  <2> HIDE DEF whole
  <2>5. \A i \in CheckpointIds, n \in Store!Names :
          disk'[<<i, n>>] = IF i = cpId /\ n = saving.op THEN whole ELSE disk[<<i, n>>]
    BY <2>2, <2>3, <2>4 DEF TypeOK, Store!WriteFile
  <2>6. NewestOnDisk'
    BY <2>1, <2>2, <2>3, <2>4, NewestIsNotUnderway, OtherWriteStep
  <2>7. UnderwayOnDisk'
    <3>1. \A id \in CheckpointIds, name \in Store!Names :
            disk'[<<id, name>>] # Store!Absent => id <= cpId'
      BY <2>1, <2>2, <2>3, <2>4, <2>5, TicksBounded DEF UnderwayOnDisk, CheckpointIds
    <3>2. disk'[<<cpId', Store!Marker>>] = Store!Absent
      BY <2>1, <2>2, <2>3, <2>4, <2>5 DEF UnderwayOnDisk, Store!Names
    <3>3. ASSUME NEW op \in saved'
          PROVE  disk'[<<cpId', op>>] = Store!Snapshot(epoch', cpId')
      <4>1. CASE op = saving.op
        BY <2>2, <2>3, <2>4, <2>5, <4>1 DEF whole
      <4>2. CASE op # saving.op
        <5>1. op \in saved /\ op \in Store!Names
          BY <2>3, <4>2 DEF TypeOK, Store!Names
        <5>2. QED  BY <2>1, <2>2, <2>3, <2>5, <4>2, <5>1 DEF UnderwayOnDisk
      <4>3. QED  BY <4>1, <4>2
    <3>4. QED  BY <2>3, <3>1, <3>2, <3>3 DEF UnderwayOnDisk
  <2>8. QED  BY <2>6, <2>7
<1>11. CASE Commit
  <2> SUFFICES ASSUME epoch = 1, MaxRetained > 0 PROVE (UnderwayOnDisk /\ NewestOnDisk)'
    BY <1>11 DEF FirstRun, Commit
  <2>1. UnderwayOnDisk /\ NewestOnDisk /\ Underway
    BY <1>11 DEF FirstRun, Commit, Underway
  <2>2. cpId \in CheckpointIds /\ cpId \in Nat
    BY <1>11, TicksBounded DEF Commit, TypeOK, Numbering, Underway, CheckpointIds
  <2>3. /\ disk' = Store!WriteFile(disk, cpId, Store!Marker, Store!Empty)
        /\ UNCHANGED <<cpId, epoch>>
        /\ newest' = Store!Snapshot(epoch, cpId)
        /\ doomed' \subseteq Store!Doomed(disk', MaxRetained)
        /\ phase' \notin {"sending", "collecting", "opening", "writing"}
    BY <1>11 DEF Commit
  <2>4. /\ Store!Marker \in Store!Names /\ Store!Empty \in Contents
        /\ Store!Empty # Store!Absent
    BY DEF Store!Names, Contents, Store!Empty, Store!Absent, Store!Snapshot
  <2>5. \A i \in CheckpointIds, n \in Store!Names :
          disk'[<<i, n>>] = IF i = cpId /\ n = Store!Marker THEN Store!Empty ELSE disk[<<i, n>>]
    BY <2>2, <2>3, <2>4 DEF TypeOK, Store!WriteFile
  <2>6. \A id \in CheckpointIds, name \in Store!Names :
          disk'[<<id, name>>] # Store!Absent => id <= cpId
    <3>1. cpId <= cpId
      BY <2>2
    <3>2. QED  BY <2>1, <2>5, <3>1 DEF UnderwayOnDisk
  <2>7. UnderwayOnDisk'
    BY <2>3, <2>6 DEF UnderwayOnDisk, Underway
  <2>8. /\ newest' # Store!Absent /\ newest'.cp = cpId /\ newest'.state = "whole"
    BY <2>3 DEF Store!Snapshot, Store!Absent
  <2>9. /\ cpId \in Store!Committed(disk')
        /\ \A id \in Store!Committed(disk') : id <= cpId
        /\ Store!Committed(disk') \subseteq Nat
    BY <2>2, <2>4, <2>5, <2>6, TicksBounded DEF Store!Committed, CheckpointIds
  <2>10. ASSUME NEW op \in Operators
         PROVE  disk'[<<cpId, op>>] = newest'
    <3>1. op \in saved /\ phase # "writing"
      BY <1>11, AllSaved DEF Commit, TypeOK
    <3>2. disk[<<cpId, op>>] = Store!Snapshot(epoch, cpId)
      BY <2>1, <3>1 DEF UnderwayOnDisk
    <3>3. op \in Store!Names /\ op # Store!Marker
      BY CoordinatorAssumption DEF Store!Names
    <3>4. QED  BY <2>2, <2>3, <2>5, <3>2, <3>3
  <2>11. cpId \notin doomed'
    BY <2>2, <2>3, <2>9, HighestIsNotDoomed
  <2>12. NewestOnDisk'
    BY <2>8, <2>9, <2>10, <2>11 DEF NewestOnDisk
  <2>13. QED  BY <2>7, <2>12
<1>12. CASE Remove
  <2>1. PICK id \in doomed : RemoveFails(id) \/ \E name \in Store!Names : RemoveFile(id, name)
    BY <1>12 DEF Remove
  <2>2. CASE RemoveFails(id)
    BY <2>2, QuietStep DEF RemoveFails, Underway
  <2>3. CASE \E name \in Store!Names : RemoveFile(id, name)
    <3> SUFFICES ASSUME epoch = 1, MaxRetained > 0 PROVE (UnderwayOnDisk /\ NewestOnDisk)'
      BY <2>3 DEF FirstRun, RemoveFile
    <3>1. PICK name \in Store!Names : RemoveFile(id, name)
      BY <2>3
    <3>2. UnderwayOnDisk /\ NewestOnDisk
      BY DEF FirstRun
    <3>3. /\ disk' = Store!WriteFile(disk, id, name, Store!Absent)
          /\ UNCHANGED <<cpId, epoch, newest>> /\ doomed' \subseteq doomed
          /\ phase' = "cleaning"
      BY <3>1 DEF RemoveFile
    <3>4. id \in CheckpointIds /\ Store!Absent \in Contents
      BY DEF TypeOK, Contents
    <3>5. newest # Store!Absent => id # newest.cp
      BY <3>2 DEF NewestOnDisk
    <3>6. NewestOnDisk'
      BY <3>2, <3>3, <3>4, <3>5, OtherWriteStep
    <3>7. \A i \in CheckpointIds, n \in Store!Names :
            disk'[<<i, n>>] = IF i = id /\ n = name THEN Store!Absent ELSE disk[<<i, n>>]
      BY <3>3, <3>4 DEF TypeOK, Store!WriteFile
    <3>8. UnderwayOnDisk'
      BY <3>2, <3>3, <3>7 DEF UnderwayOnDisk, Underway
    <3>9. QED  BY <3>6, <3>8
  <2>4. QED  BY <2>1, <2>2, <2>3
<1>13. ASSUME NEW s \in Sources, TakeBarrier(s) \/ EndSource(s)
       PROVE  FirstRun'
  BY <1>13, QuietStep DEF TakeBarrier, EndSource, Underway
<1>14. ASSUME NEW op \in Operators, Acknowledge(op) \/ EndOperator(op)
       PROVE  FirstRun'
  BY <1>14, QuietStep DEF Acknowledge, EndOperator, Underway
<1>15. CASE RequestCancel \/ Crash
  BY <1>15, QuietStep DEF RequestCancel, Crash, Underway
<1>16. CASE Restart
  BY <1>16 DEF Restart, Fresh, FirstRun, TypeOK
<1>17. CASE UNCHANGED vars
  BY <1>17, QuietStep DEF vars, Underway
<1>18. QED
  BY <1>1, <1>2, <1>3, <1>4, <1>5, <1>6, <1>7, <1>8, <1>9, <1>10, <1>11, <1>12,
     <1>13, <1>14, <1>15, <1>16, <1>17 DEF Next, Coordinate, Collect, Persist

-----------------------------------------------------------------------------
(* The theorems. *)

(* The inductive invariant holds in every reachable state. *)
THEOREM Invariance == Spec => []IInv
<1>1. IInv /\ [Next]_vars => IInv'
  BY NumberingStep, FirstRunStep DEF IInv
<1>2. QED  BY InitIInv, <1>1, PTL DEF Spec

(* Every variable of the coordinator keeps its type: no run uses more than *)
(* one id beyond its ticks, the one of a cancellation.                      *)
THEOREM TypeCorrect == Spec => []TypeOK
<1>1. IInv => TypeOK
  BY DEF IInv
<1>2. QED  BY <1>1, Invariance, PTL

(* The checkpoint latest_checkpoint finds in the directory of a first run, *)
(* after a crash at any point, is whole and of one barrier, as long as     *)
(* cleanup keeps at least one (store.rs line 4).                            *)
THEOREM FirstRunSafe ==
  ASSUME MaxRetained > 0
  PROVE  Spec => []FirstRunIsRestorable
<1>1. IInv => FirstRunIsRestorable
  <2> SUFFICES ASSUME IInv, epoch = 1, Latest # 0
               PROVE  Store!Restorable(disk, Latest)
    BY DEF FirstRunIsRestorable, LatestIsRestorable
  <2>1. NewestOnDisk
    BY DEF IInv, FirstRun
  <2>2. newest # Store!Absent
    BY <2>1, NoneIsLatest DEF NewestOnDisk
  <2>3. Latest = newest.cp
    BY <2>1, <2>2, LatestIsHighest DEF NewestOnDisk
  <2>4. PICK op \in Operators : TRUE
    BY CoordinatorAssumption
  <2>5. /\ newest.state = "whole"
        /\ \A o \in Operators : disk[<<Latest, o>>] = newest
    BY <2>1, <2>2, <2>3 DEF NewestOnDisk
  <2>6. newest \in {disk[<<Latest, o>>] : o \in Operators}
    BY <2>4, <2>5
  <2>7. QED  BY <2>5, <2>6 DEF Store!Restorable
<1>2. QED  BY <1>1, Invariance, PTL

(* The checkpoint committed last is the one latest_checkpoint finds, also  *)
(* while and after cleanup removes the older ones and fails to             *)
(* (store.rs line 89).                                                      *)
THEOREM NewestSafe ==
  ASSUME MaxRetained > 0
  PROVE  Spec => []NewestIsKept
<1>1. IInv => NewestIsKept
  <2> SUFFICES ASSUME IInv, epoch = 1, newest # Store!Absent
               PROVE  Latest # 0 /\ \A op \in Operators : disk[<<Latest, op>>] = newest
    BY DEF NewestIsKept
  <2>1. NewestOnDisk
    BY DEF IInv, FirstRun
  <2>2. Latest = newest.cp
    BY <2>1, LatestIsHighest DEF NewestOnDisk
  <2>3. newest.cp # 0
    BY <2>1, TicksBounded DEF NewestOnDisk, Store!Committed, CheckpointIds
  <2>4. QED  BY <2>1, <2>2, <2>3 DEF NewestOnDisk
<1>2. QED  BY <1>1, Invariance, PTL
=============================================================================
