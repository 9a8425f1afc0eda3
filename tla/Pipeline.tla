------------------------------ MODULE Pipeline ------------------------------
(***************************************************************************)
(* A job as the DataStream API wires it: a source drainer, a chain of      *)
(* operator tasks and a sink loop, joined by bounded channels              *)
(* (crates/flume-api/src/datastream.rs, crates/flume-runtime/src/task.rs,  *)
(* channel.rs and scheduler.rs).                                           *)
(*                                                                         *)
(* The source drainer waits for room in its channel; an operator is        *)
(* synchronous and its collector fails when the channel is full or closed, *)
(* which ends the task.  Ending a task drops both of its channel ends.     *)
(***************************************************************************)
EXTENDS Naturals, Sequences, SequencesExt, Filters

CONSTANTS
  NumOps,      (* operators between the source and the sink                 *)
  Capacity,    (* channel_buffer_size                                       *)
  FanOut,      (* FanOut[k]: how many records operator k makes of one       *)
  MayFail,     (* user code (source, operators, sink) may fail or panic     *)
  MaxElems     (* bound: elements the source yields                         *)

ASSUME PipelineAssumption ==
  /\ NumOps \in Nat \ {0}
  /\ Capacity \in Nat \ {0}
  /\ FanOut \in [1..NumOps -> Nat]
  /\ MayFail \in BOOLEAN
  /\ MaxElems \in Nat

VARIABLES
  source,      (* the source drainer: "running", "ok" or "err"              *)
  produced,    (* history: the elements the source yielded                  *)
  offered,     (* the element the drainer waits to send: <<>> or <<e>>      *)
  chan,        (* chan[k]: the channel out of task k, the source being 0    *)
  task,        (* task[k]: operator k is "running", "ok" or "err"           *)
  emit,        (* outputs of the element in process, not yet collected      *)
  draining,    (* draining[k]: task k saw the cancellation                  *)
  cancelled,   (* the scheduler's cancellation token                        *)
  sink,        (* add_sink: "running", "waiting" for the tasks, or returned
                  "ok" or "err"                                             *)
  delivered    (* history: the records written to the sink                  *)

sourceVars == <<source, produced, offered>>
sinkVars == <<sink, delivered>>
vars == <<sourceVars, chan, task, emit, draining, cancelled, sinkVars>>

Ops == 1..NumOps

(* A record is told by where it comes from: the place of the source's      *)
(* element, then which of its outputs each operator made of it.  Marks     *)
(* (watermarks and barriers) are forwarded.                                *)
Element(n, mark) == [id |-> <<n>>, mark |-> mark]
Outputs(k, e) ==
  IF e.mark THEN <<e>>
  ELSE [j \in 1..FanOut[k] |-> [e EXCEPT !.id = Append(@, j)]]

Init ==
  /\ source = "running"
  /\ produced = <<>>
  /\ offered = <<>>
  /\ chan = [k \in 0..NumOps |-> <<>>]
  /\ task = [k \in Ops |-> "running"]
  /\ emit = [k \in Ops |-> <<>>]
  /\ draining = [k \in Ops |-> FALSE]
  /\ cancelled = FALSE
  /\ sink = "running"
  /\ delivered = <<>>

SenderAlive(k) == IF k = 0 THEN source = "running" ELSE task[k] = "running"
ReceiverAlive(k) ==
  IF k = NumOps THEN sink = "running" ELSE task[k + 1] = "running"
HasRoom(k) == Len(chan[k]) < Capacity
Closed(k) == chan[k] = <<>> /\ ~SenderAlive(k)

-----------------------------------------------------------------------------
(* The source drainer of wire_upstream. *)

SourceNext(mark) ==
  /\ source = "running"
  /\ offered = <<>>
  /\ Len(produced) < MaxElems
  /\ LET e == Element(Len(produced) + 1, mark) IN
       /\ produced' = Append(produced, e)
       /\ offered' = <<e>>
  /\ UNCHANGED <<source, chan, task, emit, draining, cancelled, sinkVars>>

(* send().await waits for room in the channel. *)
SourceSend ==
  /\ source = "running"
  /\ offered # <<>>
  /\ ReceiverAlive(0)
  /\ HasRoom(0)
  /\ chan' = [chan EXCEPT ![0] = @ \o offered]
  /\ offered' = <<>>
  /\ UNCHANGED <<source, produced, task, emit, draining, cancelled, sinkVars>>

SourceSendFails ==
  /\ source = "running"
  /\ offered # <<>>
  /\ ~ReceiverAlive(0)
  /\ source' = "err"
  /\ UNCHANGED <<produced, offered, chan, task, emit, draining, cancelled, sinkVars>>

(* next() returns None, or an error. *)
SourceEnds ==
  /\ source = "running"
  /\ offered = <<>>
  /\ source' \in IF MayFail THEN {"ok", "err"} ELSE {"ok"}
  /\ UNCHANGED <<produced, offered, chan, task, emit, draining, cancelled, sinkVars>>

-----------------------------------------------------------------------------
(* The hot loop of TaskExecutor. *)

(* recv() comes first in the biased select!: the cancellation does not     *)
(* stop it.                                                                 *)
TaskRecv(k) ==
  /\ task[k] = "running"
  /\ emit[k] = <<>>
  /\ chan[k - 1] # <<>>
  /\ chan' = [chan EXCEPT ![k - 1] = Tail(@)]
  /\ emit' = [emit EXCEPT ![k] = Outputs(k, Head(chan[k - 1]))]
  /\ UNCHANGED <<sourceVars, task, draining, cancelled, sinkVars>>

(* Nothing to receive: the cancellation is seen, and recv() goes on. *)
TaskSeesCancel(k) ==
  /\ task[k] = "running"
  /\ emit[k] = <<>>
  /\ cancelled
  /\ ~draining[k]
  /\ chan[k - 1] = <<>>
  /\ SenderAlive(k - 1)
  /\ draining' = [draining EXCEPT ![k] = TRUE]
  /\ UNCHANGED <<sourceVars, chan, task, emit, cancelled, sinkVars>>

(* Mutant: a full channel loses the output. *)
TaskCollect_Lossy(k) ==
  /\ task[k] = "running"
  /\ emit[k] # <<>>
  /\ emit' = [emit EXCEPT ![k] = Tail(@)]
  /\ chan' = IF HasRoom(k) THEN [chan EXCEPT ![k] = Append(@, Head(emit[k]))]
                           ELSE chan
  /\ UNCHANGED <<sourceVars, task, draining, cancelled, sinkVars>>

(* One collect(): try_send finds room. *)
TaskCollect(k) ==
  /\ task[k] = "running"
  /\ emit[k] # <<>>
  /\ ReceiverAlive(k)
  /\ HasRoom(k)
  /\ chan' = [chan EXCEPT ![k] = Append(@, Head(emit[k]))]
  /\ emit' = [emit EXCEPT ![k] = Tail(@)]
  /\ UNCHANGED <<sourceVars, task, draining, cancelled, sinkVars>>

(* The error leaves the loop: what was received and not collected, in the  *)
(* task and in its input channel, is dropped.                              *)
TaskDies(k) ==
  /\ task' = [task EXCEPT ![k] = "err"]
  /\ emit' = [emit EXCEPT ![k] = <<>>]
  /\ chan' = [chan EXCEPT ![k - 1] = <<>>]
  /\ UNCHANGED <<sourceVars, draining, cancelled, sinkVars>>

(* try_send finds the channel full or closed: ChannelClosed either way. *)
TaskCollectFails(k) ==
  /\ task[k] = "running"
  /\ emit[k] # <<>>
  /\ ~ReceiverAlive(k) \/ ~HasRoom(k)
  /\ TaskDies(k)

(* The operator's user code returns an error or panics. *)
TaskFails(k) ==
  /\ MayFail
  /\ task[k] = "running"
  /\ emit[k] # <<>>
  /\ TaskDies(k)

(* recv() returns None once the channel is drained and its sender dropped. *)
TaskEnds(k) ==
  /\ task[k] = "running"
  /\ emit[k] = <<>>
  /\ Closed(k - 1)
  /\ task' = [task EXCEPT ![k] = "ok"]
  /\ UNCHANGED <<sourceVars, chan, emit, draining, cancelled, sinkVars>>

-----------------------------------------------------------------------------
(* The sink loop of add_sink, and wait_all. *)

SinkWrite ==
  /\ sink = "running"
  /\ chan[NumOps] # <<>>
  /\ chan' = [chan EXCEPT ![NumOps] = Tail(@)]
  /\ LET e == Head(chan[NumOps]) IN
       delivered' = IF e.mark THEN delivered ELSE Append(delivered, e.id)
  /\ UNCHANGED <<sourceVars, task, emit, draining, cancelled, sink>>

(* write or flush fails: add_sink returns without waiting for the tasks. *)
SinkFails ==
  /\ MayFail
  /\ sink = "running"
  /\ chan[NumOps] # <<>>
  /\ chan' = [chan EXCEPT ![NumOps] = <<>>]
  /\ sink' = "err"
  /\ UNCHANGED <<sourceVars, task, emit, draining, cancelled, delivered>>

SinkDrained ==
  /\ sink = "running"
  /\ Closed(NumOps)
  /\ sink' = "waiting"
  /\ UNCHANGED <<sourceVars, chan, task, emit, draining, cancelled, delivered>>

(* Every handle is awaited; the first error found is returned. *)
WaitAll ==
  /\ sink = "waiting"
  /\ source # "running"
  /\ \A k \in Ops : task[k] # "running"
  /\ sink' = IF source = "err" \/ \E k \in Ops : task[k] = "err" THEN "err" ELSE "ok"
  /\ UNCHANGED <<sourceVars, chan, task, emit, draining, cancelled, delivered>>

RequestCancel ==
  /\ ~cancelled
  /\ cancelled' = TRUE
  /\ UNCHANGED <<sourceVars, chan, task, emit, draining, sinkVars>>

-----------------------------------------------------------------------------
Yield == (\E mark \in BOOLEAN : SourceNext(mark)) \/ SourceEnds
Drainer == SourceSend \/ SourceSendFails
Task(k) ==
  \/ TaskRecv(k) \/ TaskSeesCancel(k) \/ TaskEnds(k)
  \/ TaskCollect(k) \/ TaskCollectFails(k) \/ TaskFails(k)
Sink == SinkWrite \/ SinkFails \/ SinkDrained \/ WaitAll

Next == Yield \/ Drainer \/ (\E k \in Ops : Task(k)) \/ Sink \/ RequestCancel

Spec == Init /\ [][Next]_vars

-----------------------------------------------------------------------------
Elems == [id : Seq(Nat), mark : BOOLEAN]
States == {"running", "ok", "err"}

(* Type correctness; no channel ever holds more than its capacity. *)
TypeOK ==
  /\ source \in States
  /\ produced \in Seq(Elems)
  /\ offered \in Seq(Elems) /\ Len(offered) <= 1
  /\ chan \in [0..NumOps -> Seq(Elems)] /\ \A k \in 0..NumOps : Len(chan[k]) <= Capacity
  /\ task \in [Ops -> States]
  /\ emit \in [Ops -> Seq(Elems)]
  /\ draining \in [Ops -> BOOLEAN]
  /\ cancelled \in BOOLEAN
  /\ sink \in States \cup {"waiting"}
  /\ delivered \in Seq(Seq(Nat))

(* What operators 1 to k make of a stream, and the records' ids in it. *)
Mapping(k) == [e \in Elems |-> Outputs(k, e)]
Records == [e \in Elems |-> IF e.mark THEN <<>> ELSE <<e.id>>]
Through(s) ==
  LET stage[k \in 0..NumOps] == IF k = 0 THEN s ELSE Flat(stage[k - 1], Mapping(k))
  IN  Flat(stage[NumOps], Records)

(* The sink sees the results in order, each once and without gaps, also    *)
(* while tasks die in the middle of an element (channel.rs lines 12-13).    *)
DeliveredInOrder == IsPrefix(delivered, Through(produced))

(* add_sink returns Ok only when the result of every element the source    *)
(* yielded reached the sink: no failure of a task is silent                *)
(* (scheduler.rs line 62).                                                  *)
OkMeansAll == sink = "ok" => delivered = Through(produced)

=============================================================================
