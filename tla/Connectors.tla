----------------------------- MODULE Connectors -----------------------------
(***************************************************************************)
(* The sources and sinks (crates/flume-connectors, flume-api's source.rs   *)
(* and sink.rs): what they read, what they save on a checkpoint and where  *)
(* they resume.  A file is one partition of lines; its position is a byte  *)
(* offset.  A Kafka topic has several partitions; the broker's side (the   *)
(* group's assignment and committed offsets) is modelled from how the      *)
(* source uses it, the source being the only member of its group.          *)
(***************************************************************************)
EXTENDS Integers, Sequences, FiniteSets, SequencesExt, FiniteSetsExt

CONSTANTS
  None,
  Log,       (* the records of each partition                               *)
  LineBytes  (* the bytes of each line of the file, its newline included    *)

VARIABLES
  source,     (* "file", "kafka", "tcp" or "memory"                         *)
  assignment, (* the partitions assigned to the consumer                    *)
  restored,   (* whether restore assigned them, rather than the group       *)
  startAt,    (* the offset an assigned partition is fetched from           *)
  position,   (* per partition: bytes_read, or the consumer's position      *)
  committed,  (* the offsets the broker keeps for the consumer group        *)
  sink,       (* "file", "tcp", "kafka" or "collect"                        *)
  buffer,     (* the BufWriter: the results written and not flushed         *)
  stored      (* the results that reached the file, the peer or the topic   *)

sourceVars == <<source, assignment, restored, startAt, position, committed>>
sinkVars == <<sink, buffer, stored>>

Partitions == IF source = "kafka" THEN DOMAIN Log ELSE {1}

(* Where a line of the file ends: the sum of the n that read_line returned. *)
BytesOf(lines) ==
  LET sum[n \in 0..Len(LineBytes)] == IF n = 0 THEN 0 ELSE sum[n - 1] + LineBytes[n]
  IN  sum[lines]

(* The position after the n-th record of a partition was read. *)
Advanced(p, n) == IF source = "file" THEN BytesOf(n) ELSE n

(* How many records of a partition lie before the next one to be read.     *)
(* The reader that seeks into a line reads on from there.                  *)
Read(p) ==
  IF position[p] = None THEN startAt[p]
  ELSE IF source = "file"
       THEN Max({n \in 0..Len(Log[p]) : BytesOf(n) <= position[p]})
       ELSE position[p]

(* A consumer subscribes; what the group assigns to it is fetched from the *)
(* offset the group has committed.                                         *)
SourceNew(kind) ==
  [assignment |-> IF kind = "kafka" THEN {} ELSE {1},
   restored |-> FALSE,
   startAt |-> IF kind = "kafka" THEN committed ELSE [p \in DOMAIN Log |-> 0],
   position |-> [p \in DOMAIN Log |-> IF kind = "kafka" THEN None ELSE 0]]

(* The group assigns the topic's partitions to its subscriber, at first or *)
(* in a rebalance: the consumer stays subscribed, and what restore had     *)
(* assigned is replaced.                                                   *)
GroupAssign ==
  /\ source = "kafka"
  /\ assignment' = Partitions
  /\ restored' = FALSE
  /\ startAt' = committed
  /\ position' = [p \in DOMAIN Log |-> None]
  /\ UNCHANGED <<source, committed>>

(* enable.auto.commit is left on: now and then the consumer commits the    *)
(* positions it has.                                                       *)
AutoCommit ==
  /\ source = "kafka"
  /\ committed' = [p \in DOMAIN Log |->
                     IF p \in assignment /\ position[p] # None THEN position[p] ELSE committed[p]]
  /\ committed' # committed
  /\ UNCHANGED <<source, assignment, restored, startAt, position>>

(* What may be committed when the process dies: also offsets of records    *)
(* the source had returned and the job had not yet got to.                 *)
CommittedAhead ==
  {c \in [DOMAIN Log -> UNION {0..Len(Log[p]) : p \in DOMAIN Log}] :
     \A p \in DOMAIN Log :
       \/ c[p] = committed[p]
       \/ source = "kafka" /\ p \in assignment /\ c[p] \in (Read(p) + 1)..Len(Log[p])}

Fetch(p) ==
  /\ p \in assignment
  /\ Read(p) < Len(Log[p])
  /\ position' = [position EXCEPT ![p] = Advanced(p, Read(p) + 1)]
  /\ UNCHANGED <<source, assignment, restored, startAt, committed>>

FileNext(p) == source = "file" /\ Fetch(p)
KafkaNext(p) == source = "kafka" /\ Fetch(p)
TcpNext(p) == source = "tcp" /\ Fetch(p)
MemoryNext(p) == source = "memory" /\ Fetch(p)
Next(p) == FileNext(p) \/ KafkaNext(p) \/ TcpNext(p) \/ MemoryNext(p)

AtEnd == source # "kafka" /\ Read(1) = Len(Log[1])

FileSnapshot == [p \in {1} |-> position[1]]

(* An assigned partition without a position is saved as offset 0. *)
KafkaSnapshot == [p \in assignment |-> IF position[p] = None THEN 0 ELSE position[p]]

(* A TCP or in-memory source saves nothing. *)
SourceSnapshot ==
  CASE source = "file" -> FileSnapshot
    [] source = "kafka" -> KafkaSnapshot
    [] OTHER -> <<>>

(* Mutant: restoring leaves the new reader at the start of the file. *)
FileRestored_FromStart(s) == SourceNew("file")

FileRestored(s) == [SourceNew("file") EXCEPT !.position[1] = s[1]]

(* Mutant: the saved offsets are kept and the consumer is not assigned. *)
KafkaRestored_NotAssigned(s) ==
  [assignment |-> {},
   restored |-> TRUE,
   startAt |-> [p \in DOMAIN Log |-> IF p \in DOMAIN s THEN s[p] ELSE 0],
   position |-> [p \in DOMAIN Log |-> None]]

(* Exactly the saved partitions are assigned; the consumer has no position *)
(* in them until it has read from them, and it is still subscribed.        *)
KafkaRestored(s) ==
  [assignment |-> DOMAIN s,
   restored |-> TRUE,
   startAt |-> [p \in DOMAIN Log |-> IF p \in DOMAIN s THEN s[p] ELSE 0],
   position |-> [p \in DOMAIN Log |-> None]]

(* A new source restored from s. *)
SourceRestored(s) ==
  CASE source = "file" -> FileRestored(s)
    [] source = "kafka" -> KafkaRestored(s)
    [] OTHER -> SourceNew(source)

-----------------------------------------------------------------------------
(* A BufWriter passes on what it holds when it is full (here: any write). *)
Buffered(r) ==
  \/ buffer' = buffer \cup {r} /\ UNCHANGED stored
  \/ buffer' = {r} /\ stored' = stored \cup buffer /\ buffer # {}

Stored(r) == stored' = stored \cup {r} /\ UNCHANGED buffer

FileWrite(r) == sink = "file" /\ Buffered(r)
TcpWrite(r) == sink = "tcp" /\ Buffered(r)

(* It waits for the delivery. *)
KafkaWrite(r) == sink = "kafka" /\ Stored(r)
CollectWrite(r) == sink = "collect" /\ Stored(r)

Write(r) ==
  /\ FileWrite(r) \/ TcpWrite(r) \/ KafkaWrite(r) \/ CollectWrite(r)
  /\ UNCHANGED sink

(* Mutant: flush leaves the BufWriter alone. *)
FlushBuffer_None == UNCHANGED <<buffer, stored>>

FlushBuffer == stored' = stored \cup buffer /\ buffer' = {}

FileFlush == sink = "file" /\ FlushBuffer
TcpFlush == sink = "tcp" /\ FlushBuffer
KafkaFlush == sink = "kafka" /\ UNCHANGED <<buffer, stored>>
CollectFlush == sink = "collect" /\ UNCHANGED <<buffer, stored>>

Flush ==
  /\ FileFlush \/ TcpFlush \/ KafkaFlush \/ CollectFlush
  /\ UNCHANGED sink

(* A new sink: File::create truncates the file, CollectSink starts a new   *)
(* vector; what a peer or a topic has stays there.                         *)
FileSinkNew == sink = "file" /\ stored' = {}
CollectSinkNew == sink = "collect" /\ stored' = {}
RemoteSinkNew == sink \in {"tcp", "kafka"} /\ UNCHANGED stored

SinkNew ==
  /\ FileSinkNew \/ CollectSinkNew \/ RemoteSinkNew
  /\ buffer' = {}
  /\ UNCHANGED sink
=============================================================================
