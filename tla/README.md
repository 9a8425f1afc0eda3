# Flume-rs: TLA+ models, TLC runs and TLAPS proofs

Flume-rs is a stream processor: a job is a graph of operator tasks joined by
bounded channels, fed by sources, drained by sinks, with event-time watermarks,
Chandy-Lamport checkpoints, and a JobManager that deploys subtasks to
TaskManagers. This directory models the parts whose correctness depends on
interleavings, failures, ordering or boundary cases. Paths are relative to
`src/crates/`; `map` in `PROJECT.json` leads every definition to its lines.

Run from this directory: `tlc -config X.cfg M.tla` for a run of
`PROJECT.json`; `tlapm M.tla` for the proofs of `M`, one of `TransportProofs`,
`BarrierAlignerProofs`, `MergeProofs`, `CoordinatorProofs`, `TaskProofs`,
`RecoveryProofs`, `DeploymentProofs` and `FilterLemmas` (one to five minutes each,
`TaskProofs` about ten).

## 1. Inventory

| Component | State it keeps | Operations | What is hard | What makes it correct |
|---|---|---|---|---|
| SPSC ring buffer (`flume-runtime/src/ring_buffer.rs`) | slots, `write_seq`, `read_seq`, `closed`, a `Notify`, a cached sequence at each end | `try_send`, `try_recv`, `recv`, drop of either end | lock-free interleaving, stale caches, parking against notifying | FIFO, no slot accessed in the wrong state, end only when drained, no missed wakeup |
| Barrier aligner (`checkpoint/aligner.rs`) | `barrier_received`, `blocked_buffers`, `pending_barrier`, `drain_index` | `next`, `recv_any` | polling passes against concurrent senders, inputs that end | consistent cut, per-input order, no loss |
| Two-input merge (`merge.rs`) | two watermarks, pending barriers, buffers, open flags | `two_input_merge` and its handlers | watermark minimum, barrier of a closed input, backpressure | event time downstream, consistent cut, no loss, ends |
| Checkpoint coordinator (`checkpoint/coordinator.rs`) | `next_checkpoint_id`, barrier senders, ack receiver, store | `run`, `trigger_and_collect` | timeouts and late acks, crash between two files, restart | latest checkpoint is restorable; a cancelled run returns |
| Snapshot store (`checkpoint/store.rs`) | directories `cp-{id}` with `*.bin` and `_complete` | `save_state`, `commit`, `load_state`, `latest_checkpoint`, `cleanup` | non-atomic writes and removals | the marker means a whole snapshot; newest kept |
| Pipeline (`task.rs`, `channel.rs`, `scheduler.rs`, `flume-api/src/datastream.rs`) | channels, task results, cancellation token | source drainer, hot loop, `collect`, sink loop, `wait_all` | tasks dying mid-element, full channels, cancellation | the sink sees a gapless prefix; `Ok` means all; returns |
| Job lifecycle (`flume-server/src/api/handlers.rs`, `job.rs`, `registry.rs`) | job map, statuses, cancellation tokens | submit, cancel, reaper | cancel racing completion | the status is true, terminal and final |
| Fluent API (`flume-api/src/datastream.rs`, `environment.rs`, `connected.rs`, `windowed.rs`, `join.rs`, `interval.rs`) | graph, spawned tasks, current node | one method per operator | graph and wiring built side by side | the graph is the wiring |
| DAG, physical plan, partitioning (`dag.rs`, `physical.rs`, `partition.rs`) | none (pure) | `topological_order`, `schedule`, `generate_edges`, `partition` | uneven offers, unequal parallelism, cycles | order, slots and edges against a reference |
| Watermark tracker (`watermark.rs`) | a watermark per input | `update` | inputs that go back | minimum of the promises |
| Windows (`flume-core/src/window.rs`, `operator/window.rs`, the stateless operators) | an accumulator per key and window | record, watermark | late records, ties at the watermark | each closing emits exactly its records |
| Process functions and timers (`timer.rs`, `operator/process.rs`) | timers, current key | element, watermark, the timer service | timers set by timers, keys | each timer fires once with its key |
| Joins (`operator/join.rs`, `operator/interval_join.rs`) | two keyed buffers | record, watermark | eviction against late matches | exactly the matching pairs, bounded state |
| State backends (`flume-state/src/`) | maps of value, list, map states by key | create, get, put, snapshot, restore | restore into a fresh process | state matches the source position |
| Connectors (`flume-connectors/`, `flume-api/src/source.rs`, `sink.rs`) | positions, sink buffers | next, snapshot, restore; write, flush | positions against records read, buffered results | replay loses nothing |
| Network exchange (`flume-network/src/network_collector.rs`, `network_input.rs`, `exchange.rs`, `connection_manager.rs`) | buffers, credits, streams, subscribers | `collect`, `flush`, `route`, `subscribe`, `recv` | credits, loss, lock held over an await | order without gaps, credits accounted for, no stuck handler |
| Cluster (`resource_manager.rs`, `slot_manager.rs`, `jm_service.rs`, `tm_service.rs`, `flume-server/src/jm.rs`, `tm.rs`) | TaskManagers, slots, subtasks | register, heartbeat, deploy, cancel | read-then-act between locks, partial deployment, restarts | slots consistent, counts true, the view converges |
| Side outputs, functional API, thread pinning, configuration and binaries | | | | section 6 |

How they interact: a method of `DataStream` adds a node to the graph and spawns
a task in the `Scheduler`; each task owns the receiver of its input channel and
the sender of its output. The server wraps a pipeline in a job with a status and
a token. A JobManager plans a graph on the slots its TaskManagers report and
calls them to deploy.

Several components are libraries that nothing in `src/` but tests calls yet:
`deploy_job`, `CheckpointCoordinator`, `BarrierAligner`, `NetworkInput`,
`ExchangeRouter`, `WatermarkTracker`, and the restore of state backends and
sources. They are modelled with any environment their interface allows, and
the definitions that stand for their callers are marked external in `map`.

The hazards of these components, with lines and covering properties, are listed
in `PROJECT.json`.

## 2. Modules

| Composition | Modules |
|---|---|
| `RingBuffer` implements `SpscChannel`; `TransportProofs` | a channel |
| `BarrierAligner` and `Merge` implement `AlignedStreams`; `BarrierAlignerProofs`, `MergeProofs` | several inputs |
| `Coordinator` uses `SnapshotStore`; `CoordinatorProofs` | checkpoints |
| `JobServer` extends `Pipeline`; `TaskProofs` | a job and what it runs |
| `StreamPlan` extends `PhysicalPlan`; `DeploymentProofs` | from API calls to a plan |
| `Cluster` extends `SlotManager` and `PhysicalPlan`; `DeploymentProofs` | deployment |
| `EventTime` instantiates `Windows`, `IntervalJoin`, `Timers`, `WatermarkTracker`, over `EventTimestamps`; `TaskProofs` | operators |
| `Recovery` instantiates `Connectors` and `KeyedState`; `RecoveryProofs` | source, state and sink together |
| `NetworkExchange`; `TransportProofs` | collectors, streams, router |
| `Filters` (filtering, mapping, adding up and sorting) is used where a proof reasons about it; `FilterLemmas` | |

`MC<Module>` and its `.cfg` give constants their values.

### RingBuffer, SpscChannel, TransportProofs

`RingBuffer` takes every access to a shared location as a step. The producer's
program counter walks through `try_send` (`SendBegin`, `SendReload`,
`SendWrite`, `SendPublish`, `SendNotify`) and its drop (`ProducerClose`,
`ProducerNotify`); the consumer's through `try_recv` (`CheckFound`,
`CheckEmpty`, `ReadSlot`, `Advance`) and through `recv`, whose place is `stage`
(fast path, spinning, woken, final drain). `CancelRecv` is a `select!` that
drops the future at its await point. `notify` models tokio's
`Notify` for one waiter: nothing, a waiter, or one stored permit. A slot is
`Uninit` unless it holds a live value, so reads of uninitialised memory,
overwrites, leaks and double drops are all visible. Sequences are unbounded
naturals (a 64-bit counter does not wrap in practice) and the memory is
sequentially consistent: the code publishes with release stores and reads
with acquire loads on two counters that each have a single writer.

`SpscChannel` is the abstract specification: a bounded queue that is sent to,
received from, closed, ended, abandoned and discarded. The refinement
mapping reads the queue from the slots between `readSeq` and `writeSeq`
(`QueueView`), with the value in the consumer's hand still at its head.

### BarrierAligner, AlignedStreams

Senders append data and barriers and may drop; the operator calls `next`.
Every `try_recv` of the three passes (unblocked, blocked, all) is a step, so
senders interleave with a pass. Data elements are told apart by their place.
`AlignedStreams` states what an aligning operator promises, without any pass,
buffer or flag: each input is handed on in order, once, and barrier `b` leaves
only when every input that did not end stands at `b`. `pos` is mapped to the
number of elements received less those still buffered or held as the pending
barrier.

### Merge

Every receive and every send into the bounded output is a step of its own;
`toSend` holds the sends the current iteration still has to make. Downstream
consumes or drops its receiver. Records, watermarks and barriers are distinct;
`HandleRecord`, `HandleWatermark` and `HandleBarrier` stand for the mirrored
handlers of the two inputs, and the one asymmetry (input 1's barrier is the
one forwarded) is kept. `Merge` implements `AlignedStreams` for records and
barriers.

### SnapshotStore, Coordinator

`SnapshotStore` maps `<<id, file>>` to contents and defines `latest_checkpoint`
and which ids `cleanup` removes. `Coordinator` steps through `run` and
`trigger_and_collect`: one step per barrier send, ack, file opened, file
written, marker, and file removed. A file being written is `Torn`. Each
operator acknowledges the checkpoints in order, after all sources upstream of
it took the barrier; sources and operators may end. `Timeout` may fire
whenever acks are awaited; any file operation may fail; `Crash` may happen
between any two steps and keeps only `disk`; `Restart` is a new coordinator
on the same directory. A process crash, not a power failure, is modelled:
what was written stays (the code does not sync files).

### Pipeline, JobServer

A source drainer, `NumOps` operators and a sink loop over mpsc channels.
`TaskRecv` takes an element and computes its outputs, `TaskCollect` collects
them one by one; a full or closed channel ends the task with an error, which
drops what it held and its channel ends. `SourceSend` waits instead. User code
(source, operator, sink) may fail at any point when `MayFail`. `WaitAll`
awaits all tasks and returns the first error. `JobServer` adds the job's status
and token: `CancelJob`, the task that carries the token to the scheduler
(`BridgeCancel`) and the reaper (`Reap`), each one step under the server's mutex.

### EventTimestamps, Windows, IntervalJoin, Timers, WatermarkTracker, EventTime

One task: a stateless operator (`Map`, `Filter`, `KeyBy`, `FlatMap`) followed by
one stateful operator chosen in `Init`, fed any sequence of records, watermarks
and barriers. A timestamp is a natural up to `MaxTs`, which stands for
`u64::MAX`; sums and differences saturate where the code says so (timers, interval
joins) and wrap where it uses plain operators (the bounds of windows, `Wrapped`).
`panes` are the accumulators, which fire pane by pane in any order (`Emission`), `buffers` the interval join's sorted maps (kept as sets, ranges
sorted by time and arrival), `timers` the two queues. A record is told by its
position, an aggregate is the list of records in it, so a result shows exactly
what went in. `input` and `out` are histories; each property compares `out` with
what the definition of the operator makes of the whole input at once. Upstream
forwards only advancing watermarks, which is what `merge.rs` and `watermark.rs`
do; the tracker itself is fed watermarks that go back.

### PhysicalPlan, StreamPlan

`PhysicalPlan` has `add_node`, `add_edge`, Kahn's algorithm as a recursion over
the queue (`Visit`, `Relax`), the slot queue, assignments, physical edges and the
partitioner's selection. `StreamPlan` has one action per API method: each adds
its node and edge (`Grow`), wires the upstream source if there is one
(`WiredTasks`), spawns its tasks (`TwoInputTasks` for connected streams) and
goes on from the new node (`Continue`). A graph may also be built directly, with
cycles, unequal parallelism and parallel edges. `MakePlan` schedules it.

### SlotManager, Cluster

A TaskManager process is its `boot`, also its address. `Register`, `Crash`,
`SendHeartbeat` (counts read under the lock), `HandleHeartbeat`, which may be
late and from an earlier process, and `LoseHeartbeat`. `PlanJob` reads offers in
any order (a `HashMap`) and schedules; then `Connect`, `HandleDeploy`,
`DeployAnswered`, `DeployFails` and `JobDeployed` are the calls, without locks,
so two deployments interleave. `JmRestart` forgets everybody. A TaskManager told
to stop keeps its entry in the JobManager.

### NetworkExchange

`Collect` runs a whole call of the collector (buffer, `Flush`, `TrySend`).
`NextBatch`, `InitialGrant`, `Route`, `RouteSend` and `CreditGrant` are the steps
of `exchange_data`'s task, each ending where it may have to wait (`Handle`): for
room for a grant, for the subscribers' lock, with the lock held for room in the
subscriber's channel, and for room for a grant again. A grant goes through two
bounded channels: `granting` is the response stream with the handler's `credit_tx`
(64 in the code), `grants` what `open_exchange`'s task (`ForwardGrant`) has taken
off it with the `credit_rx` of the sender (64). `Break` loses the grants in
`granting`; of the batches on a broken stream the handler may still take some
(`NextBatch`), the rest is lost (`Lose`), and a grant it sends goes nowhere.
`Subscribe` and `Unsubscribe` take the lock. `Recv` decodes: a watermark was
written without the length prefix and yields nothing.

### Connectors, KeyedState, Recovery

`Connectors` has the read position of each source (bytes of a file, next offset
of a Kafka partition, nothing for a socket or a vector), its snapshot and
restore, and each sink's buffer. `KeyedState` has the three kinds of state, the
creation of a key's backend, updates, `Snapshot` and `Restored`. `Recovery` runs
a source through a keyed operator into a sink with checkpoints (external: the
sink is flushed and both are snapshotted behind the records read), crashes and
restores into a new source, backend and sink.

The Kafka consumer is the only member of its group and leaves
`enable.auto.commit` at librdkafka's default (kafka `source.rs:69-77`): the
offsets the broker keeps (`committed`) move to the consumer's positions at any
time (`AutoCommit`) and survive a crash. A record is processed in the step that
reads it; those read ahead die with the process, and `Crash` lets their offsets
have been committed (`CommittedAhead`). A new consumer starts at `committed`, so a
crash before a checkpoint can leave records unprocessed. It subscribes when it is
built and `restore` only assigns (`:83-85`, `:238-240`), so the group may assign
the partitions anew at any time, after a restore too (`Rebalance`): the source then
goes on at the committed offsets. `skipped` collects the records it went on
behind, `strayed` says that this source, or one the state comes from, went on
elsewhere than it had stopped.

## 3. Runs

Ten runs must pass. No run checks deadlock: every system here may stop
legitimately (bounded inputs, ended tasks). `TypeOK` (`JobTypeOK` in
`JobServer`, `PlanTypeOK` in `StreamPlan`, `ExchangeTypeOK` in
`NetworkExchange`, `OperatorTypeOK` in `EventTime`) states the type of each, and
section 5 proves every one of them.

| Run | Bounds, and why they are enough | Shows |
|---|---|---|
| `ring` | 2 slots, 4 sends of 2 values, spin limit 2: sequences lap the ring twice, so every combination of stale caches and full or empty occurs | `SlotDiscipline`, `SlotsExact`, `EndOnlyWhenDrained`, `IInv`, refinement of the FIFO channel; a notified or closed consumer goes on |
| `aligner` | 1 to 3 inputs, 2 or 3 elements each, 2 barriers, one checkpoint at a time: two alignments in a row, data before, between and after, inputs ending anywhere | refinement of `AlignedStreams`, no loss outside an alignment, alignments complete |
| `merge` | 3 and 2 elements, times 1..2, 2 barriers, output capacity 1: both inputs fast, slow and closed, output mostly full | event time downstream, refinement of `AlignedStreams`, nothing lost, ends |
| `checkpoint` | 2 sources, 2 operators, 2 ticks and a final checkpoint in the first process, the final one in the second, 1 retained: timeouts with late acks, cleanup and a crash at every step | what the first process leaves on disk is restorable and the newest; a cancelled coordinator, also a restarted one, returns |
| `pipeline` | 2 operators (the first doubles records), 3 elements, capacity 2, user code may fail anywhere: two doubled records exceed the channel | gapless prefix, true status, every job ends and stays so |
| `eventtime` | records at times 0, 2, 3 and 6 of key 1 or none, watermarks 1, 2, 4 and the maximum 7, timers at 1, 2 and 7; 4 elements (3 for `process` and `co_process`, 5 for the tracker); tumbling 2, sliding 3 by 2, hopping 1 by 2; intervals 0..2 and 1..2: late, tied, first and last times and window ends that wrap all occur (2.0 million states), and four elements hold record, watermark, late record, watermark | windows, cogroups, joins and timers emit exactly what they should; the interval join's state is bounded; the tracker is exact |
| `recovery` | 2 partitions of 3 and 1 records, the first committed up to 1, lines of 2, 1 and 3 bytes, 6 pairings of source and sink, 3 kinds of state, 2 checkpoints, 2 crashes or rebalances, offsets committed at any time: a crash before, between and after checkpoints, a second recovery, a rebalance before and after a restore (2.0 million states) | keyed state is the effect of the records read, what a checkpoint covers is stored or was skipped by the group, the source goes on to the end |
| `network` | 2 channels on streams of their own, one of which may break, that share the router: up to 4 elements, among them 2 records, 2 barriers and a watermark, and a single barrier; batches of 2, 1 initial credit, 2 batches under way, 1 grant in each of the channels that bring it back, a subscriber's channel of 1: after the credits of a first barrier a second one comes behind a flushed record, one subscriber's full channel holds the lock the other needs, and a handler waits for room for its grant (824,808 states) | order without gaps, credits conserved, no handler stuck with a batch |
| `plan` | 3 nodes, 3 edges, parallelism 0..2, forward and rebalance, three offers with even, uneven and used slots: cycles of length 1 to 3, triangles, parallel edges, plans that fit, just fit and do not | graph is wiring, topological order, slots, edges are routes |
| `cluster` | TaskManagers of 2 and 1 slots, jobs of 2 and 1 subtasks with one name, 1 disturbance (crash, lost or failed call, cancellation, JobManager restart); the safety part also holds with 2 (3.1 million states) | slots consistent, offers fit, counts true, the view converges |

Two runs refute a sentence the repository says of itself; both are findings.

| Run | The sentence | What happens |
|---|---|---|
| `ring_wakeup` | `ring_buffer.rs:118` notify on empty→non-empty | the test compares with the cached read sequence, so a parked consumer sleeps over a non-empty buffer; a full ring returns `Err(Full)` without a notification (`:103-105`) and no later send finds the sequences equal, so only the producer's drop (`:130`) wakes it |
| `checkpoint_restart` | `store.rs:4` the marker means committed | ids restart at 1 and overwrite committed files under their marker |

### Mutants

Beside many actions stands a variant commented "Mutant": the action with a
plausible bug. No next-state relation uses it. Substituted for the original in
the run `PROJECT.json` names, it makes TLC refute the property listed with it,
so each property is known to tell the code from a broken version of it.

### Fairness

- `RingBuffer`: weak fairness of a call under way on each end (a polled task
  runs to its next await); strong fairness of starting `recv`, because the
  operator loop comes back to it although it may call `try_recv` in between.
  Nothing obliges the producer to send or to be dropped.
- `BarrierAligner`, `Merge`: the operator task and, for `Merge`, the consumer
  downstream are scheduled. Senders are free.
- `Coordinator`: its own steps, its timer among them (`CoordinatorFairSpec`), and
  in the run sources that take their barriers (`SourcesFairSpec`).
- `JobServer`: tasks, sink, bridge and reaper are scheduled (`TaskFairSpec`); the
  run adds a source that answers in the end (`JobFairSpec`).
- `NetworkExchange`: the tasks of both sides are scheduled. A handler's steps are
  strongly fair (`Handle`), because tokio's mutex and channels serve waiters in
  order. That subscribers keep receiving (`Recv`) and that the sender's task keeps
  taking grants out of `credit_rx` (`GrantCredits`) is up to callers outside
  `src/`: with a full `credit_rx` nobody drains, the forwarder, then the handler
  waits for ever (`exchange.rs:93,107-123`, `connection_manager.rs:79,92`).
- `Cluster`: a running TaskManager goes on sending heartbeats and not every one
  is lost (strong fairness of handling them). Deployments may hang.
- `Recovery`: a subscribed consumer gets its first assignment, a running source is
  read, and a crashed job recovers. Commits, rebalances, checkpoints and crashes
  are free.
- `EventTime` and `StreamPlan` check safety only.

## 4. Divergences the models reproduce

Each of these definitions states what a doc promises and fails in the model; put
it alone into the module's `.cfg` to see the behaviour. No run lists them.

| Definition (module) | Promise | What the code does |
|---|---|---|
| `ConsistentCut` (`BarrierAligner`, `Overlap = TRUE`) | `aligner.rs:27` emitted when all inputs received the barrier | ids are not compared (`:95`): when checkpoints overlap, two barriers of one input stand for one each of two; `merge.rs:280` merges pending barriers alike |
| `NoLossAtEnd` (`BarrierAligner`) | `aligner.rs:28` buffered records are drained | an input that ends without its barrier strands the others' buffers (`:170`) |
| `CancelEnds` (`JobServer`, `TaskFairSpec`) | `task.rs:63` until closed or cancelled | the cancelled task receives until its channel closes (`:77`), which an idle source never does |
| `CancelReturns` (`Coordinator`, `CoordinatorFairSpec`) | `coordinator.rs:55-56` returns on cancellation | a barrier send waits for room outside timeout and `select!` (`:112`) |
| `SpreadIsEven` (`StreamPlan`) | `physical.rs:75` spread evenly | the slot queue is popped from its end (`:115-117`), where the largest offers come last |
| `InUseIsOccupied` (`Cluster`) | `slot_manager.rs:38` number of slots in use | a name deployed twice is counted once (`:58`) and the first slot is never freed |
| `WatermarksHold` (`EventTime`) | `record.rs:47-48` no more records at or before it | window results are stamped `end - 1`, window-join results with the later record's time, both after the watermark may have passed |
| `WrittenAtEnd` (`Recovery`) | file `sink.rs` writes every record as one line | `add_sink` ends without a last flush (`datastream.rs:219-235`) |
| `ResumesWhereItStopped` (`Recovery`) | `traits/source.rs` restore resets to the checkpointed position | a Kafka partition nothing was read from is saved as 0 (`source.rs:174`), an empty assignment restores none; the still subscribed consumer can lose the restored offsets to a rebalance (`:83`, `:238`), and with auto-commit on (`:69-77`) it goes on, then or after a crash before a checkpoint, behind records whose results were lost |
| `WaitsForCredits` (`NetworkExchange`) | `network_collector.rs:4-5` waits for credits | no credit is `ChannelClosed` (`:66`) |

Also in the models, without a property of their own:
- `interval_join.rs`: a right record earlier than `lower` matches left records
  at time 0, and a right record at the maximum time those whose bounds pass it
  (the range saturates); `IntervalJoinExact` sets both cases apart. A range panics if `lower > upper`. Lines 28-31 omit `lower`.
- `window.rs:54,86,98` add the size to a start without a check: the end of a
  window past the maximum time wraps in a release build (and panics in a debug
  build), so the window lies in the past: a sliding assigner leaves it out, a
  tumbling one closes it at the next watermark. `WindowsExact` sets inputs with
  such windows apart (`InTime`); `KeyKept` does not.
- Timers at the maximum time never fire (`timer.rs:46`); `flat_map` drops the
  key; late records reopen windows that fired; no window, join or process
  operator snapshots its state on a barrier (`operator/window.rs:153`).
- `keyed.rs:66` restores only keys that already have a backend: keyed state is
  lost unless the operator creates its keys first (`registers` in `Recovery`).
- A file sink truncates its file on a restart (file `sink.rs:25`); the Kafka
  sink's `flush` panics on an error (`:114`).
- Network: initial credits come only after a channel's first batch, which only a
  barrier can be; barriers take no credit but earn one; a dropped batch takes its
  credit with it; grants on a broken stream are lost; watermarks are lost; the last
  buffer is never flushed; `route` holds the lock while it waits
  (`exchange.rs:59-61`), and the handler waits for room for its grants
  (`:107-123`), which only the sender's draining them makes.
- `deploy_job` returns `Ok` for a partly deployed job; subtask names are not
  unique over jobs; a job that completed before the reaper's pass and is then
  cancelled is reported cancelled.
- Retention after a restart removes the new, lower id (`store.rs:89`); `run`
  returns when the first source ends (`coordinator.rs:113`).
- The second source of a two-input operator has no node in the graph; `add_sink`
  takes the environment's scheduler, so a token connected earlier does not reach
  a second pipeline; a forward edge to a node of parallelism 0 panics.

## 5. Proofs

Every theorem is about the safety specification (`Spec`, `JobSpec`, `PlanSpec`,
`ExchangeSpec`, `OperatorSpec`) and holds for all values of the constants that the module's named assumption
allows; the hypotheses beyond that are stated below. Each rests on an inductive
invariant, called `IInv` (`PlanInv` for `StreamPlan`, `ExchangeInv` for
`NetworkExchange`; one for each operator of `EventTime`), which TLC confirmed on the module's run before it was proved.

| Module | Theorem | Property |
|---|---|---|
| `TransportProofs`, ring | `Invariance`, `TypeCorrect` | `IInv`, `TypeOK` |
| | `SlotSafety` | `SlotDiscipline`: the "Safety" comments of the unsafe blocks |
| | `SlotAccounting` | `SlotsExact`: nothing overwritten, leaked or dropped twice |
| | `DrainedAtEnd` | `EndOnlyWhenDrained` |
| | `Refinement` | `ImplementsChannel`: the ring buffer is a FIFO channel |
| `TransportProofs`, exchange | `ExchangeInvariance`, `ExchangeTypeCorrect` | `ExchangeInv`, `ExchangeTypeOK` |
| | `ArrivesInOrder` | `InOrderNoGaps`: a barrier's arrival means all before it arrived or was dropped |
| | `CreditsConserved` | `CreditConservation` |
| `BarrierAlignerProofs` | `TypeCorrect` | `TypeOK` |
| | `Refinement`, if `~Overlap` | `ImplementsAlignedStreams`: order, once, barriers cut all inputs |
| | `NothingLost`, if `~Overlap` | `NoLossWhenUnblocked` |
| `MergeProofs` | `Invariance`, `TypeCorrect` | `IInv`, `TypeOK` |
| | `Refinement` | `ImplementsAlignedStreams` |
| | `EventTimeKept` | `OutputInEventTime` |
| | `NothingLost` | `NoLossAtEnd` |
| `CoordinatorProofs` | `Invariance`, `TypeCorrect` | `IInv`, `TypeOK` |
| | `FirstRunSafe`, if `MaxRetained > 0` | `FirstRunIsRestorable` |
| | `NewestSafe`, if `MaxRetained > 0` | `NewestIsKept` |
| `TaskProofs`, job | `Invariance`, `TypeCorrect` | `IInv`, `JobTypeOK` |
| | `InOrder` | `DeliveredInOrder`: the sink sees a gapless prefix |
| | `StatusCorrect` | `StatusIsTrue`: completed means all was delivered |
| `TaskProofs`, operators | `TrackerCorrect` | `TrackerExact`: the least promise, only advancing watermarks |
| | `TimersCorrect` | `TimersExact`: each timer fires once, under its key, in order |
| | `TimersOrdered` | the `on_timer` calls of a watermark ascend by time, then key |
| | `JoinStateCorrect` | `JoinStateBounded`: a watermark leaves what may still match |
| | `IntervalJoinCorrect` | `IntervalJoinExact`: each matching pair once, no other |
| | `WindowsCorrect` | `WindowsExact`: each closing emits exactly its records |
| | `KeyCorrect` | `KeyKept`: a result has the key of all its records |
| | `OperatorTypeCorrect` | `OperatorTypeOK` |
| `RecoveryProofs` | `Invariance`, `TypeCorrect` | `IInv`, `TypeOK` |
| | `CheckpointSafe` | `CheckpointedIsStored` |
| | `PositionsExist` | a restored position is never past the input |
| | `ExactlyOnceState`, if `OneHome` | `StateMatchesPosition` |
| `DeploymentProofs`, plans | `PlanInvariance`, `PlanTypeCorrect` | `PlanInv`, `PlanTypeOK` |
| | `KahnCorrect` | `topological_order` is right of every graph |
| | `OrderCorrect` | `OrderIsTopological` |
| | `RoutesCorrect` | `RoutesAreConnected`: records are routed along planned edges |
| | `WiringCorrect` | `GraphMirrorsWiring`: the graph's edges are how the tasks are joined |
| | `AssignmentsCorrect` | `PlanFits`: every subtask has a slot of its own, offered as free |
| `DeploymentProofs`, cluster | `Invariance`, `TypeCorrect` | `IInv`, `TypeOK` |
| | `SlotSafety` | `SlotsConsistent`: the map leads every subtask to its own slot |
| | `OffersNeverUnderflow` | `OffersFit`: no report exceeds the slots it is subtracted from |
| | `JobsFit`, if `TMs` is finite | a job's plan fits the offers of the registry |
| | `DeployInvariance` | `DeployInv` |
| | `CountTrue` | `CountIsTrue`: what `deploy_job` returns was accepted |

**Ring buffer** (any capacity of at least two, spin limit, number of sends).
None of the wanted properties is inductive: that a slot is free when the
producer writes depends on the cached sequences. `IInv` adds
`WindowInv` (`cachedRead <= readSeq <= cachedWrite <= writeSeq <= cachedRead +
Capacity`, strict where an access is under way), `HistoryInv` (the sequences
count the histories, what was returned is a prefix of what was sent),
`ContentInv` (what each live slot and the consumer's hand hold), `VacancyInv`
(every other slot is empty) and `RecvInv` (how far `recv` and the drops are).
`SlotInjective`, from Euclidean division by the capacity, says that two
sequences in a window of `Capacity` never share a slot. For the refinement
`ViewIsUnread` shows that `QueueView` is the unread part of `sent`; then
publishing is `Send`, advancing is `Receive`, the last empty check is `End`, the
drops are `Close`, `Abandon` and `Discard`, and every other step stutters. The
slot index is `seq % Capacity`; the code masks with `Capacity - 1`, which is the
same because it rounds the capacity up to a power of two.

**Network exchange** (any channels over any connections, batch size, initial
credits and queue capacities; `ExchangeAssumption`). Neither property is
inductive. `OrderInv` and `ArrivalInv` place a channel's elements one behind the
other: received, in the subscriber's channel, dropped or routed, on the stream,
in the collector's buffer. `BatchInv` and `BufferInv` say what a batch may hold,
a control batch one element of its kind. `GapInv` says that every collected
element is in one of these places, but for watermarks, which `recv` loses, and
for what a failed collector lost, which came after all that it sent. So an
element collected before one that arrived can only have arrived or been dropped
(`ArrivedInOrder`). A call of the collector may send twice: `Ready` says how far
it got, with what is not sent yet as a parameter, and is kept by every send
(`ReadySend`) and by every failure (`ReadyFails`); `Ends` is what a call leaves.
Several channels may share a connection, so `Neighbours` says that one channel's
batches leave the others' order alone. The ledger counts the *set* of batches
under way or dropped, which `FiniteInv` keeps finite, and no batch is in it
twice because its elements come after all those already sent; `GrantInv` says
that a grant returns, over both channels, on the stream of its own channel. The
credits on their way are those in both (`Granted`) and what the handler is about
to grant (`Owed`). The ledger is an equation while the stream is up: then every
step moves credits from one of its places to another, or adds to both sides (a
first batch, a delivered barrier). `Break` and a grant sent on a broken stream only
take away from it, so there it stays an inequality. TLC confirmed `ExchangeInv`
within the run's bounds, and with both channels on one stream, up to 3 elements of
the first, 2 initial credits, queues of 3 and 2 and a `granting` of 2 (186,058
states).

**Barrier aligner** (any number of inputs, elements, checkpoints). `Buffering`
places every element taken off an input: handed on, the pending barrier, or in
the buffer behind it. `OneBarrier` says that ahead of what was handed on each
input has at most one barrier, the next one; it needs `~Overlap`, a coordinator
that awaits a checkpoint before it triggers the next, and fails otherwise
(section 4). `Draining` and `Ending` hold `drain_index` and the third pass to
what they assume. `InOrder` is the property itself; what `next` returned of an
input is the data of the part handed on.

**Two-input merge** (any inputs, event times, output capacity). `Alignment`
proves more than it needs to: while a barrier is pending its own input is not
read, so `buffer1` and `buffer2` of `two_input_merge` never hold anything.
`InputsInEventTime` and `NextInEventTime` carry the promise of each input over
the minimum to the output; `BarriersMatch` says that two open inputs passed
equally many barriers, so the refinement counts them alike.

**Coordinator** (any operators, sources, channel capacity, ticks, retention;
`CoordinatorAssumption`). `UnderwayOnDisk`: the marker comes
last, and an operator counts as saved only when its file is whole;
`NewestOnDisk`: the last committed checkpoint has all its files, the highest
marker and is not doomed by `cleanup`. Both are claimed of the first run of a
process on a directory, because a second one starts its ids again
(`checkpoint_restart`); and for `MaxRetained > 0`, because with zero `cleanup`
removes the checkpoint just committed (`store.rs:89`).

**Pipeline and job** (any number of operators, fan-outs, channel capacity). The
state alone does not say what a task had received before it died, so the
invariant says that sequences `taken` and `passed` *exist* (`Flow`): task `k`
received a prefix `taken[k]` of what was passed to it, passed on a prefix of what
it makes of that, and, while it has not failed, its channel and outputs hold
exactly the rest. Each step extends a witness (`StageTakes`, `StageCollects`,
`StageReceives`) or lets go of an equation (`TaskDiesKeeps`). `Ended` says that
what ended left nothing behind. An induction along the chain (`StagesReached`)
gives the prefix at the sink, and equality when `add_sink` returned `Ok`.
`Reaped` relates status, token and result.

**Recovery** (any logs, line lengths, partitions, pairings, first offsets, crashes,
rebalances; `RecoveryAssumption`). `Covered`: every record read past and not skipped
(`IdsUpTo`) has its result in the sink or its buffer, unless a crash took it;
`Saved`: what a checkpoint holds leads back to where the source was, or before; from
these `StoredUpTo`. Wherever a source goes on, the records between that place and
where it stopped are skipped, so what it has read past still is covered
(`IdsResumed`, for a restore and a rebalance alike); `ConnectorsOk` bounds the
offsets committed. The position in
a file is a number of bytes, so `ConnectorsOk` says that it is the end of a line,
and positive line lengths make it tell how many lines were read. For the state a
second invariant relates each key's state to the effect of the records read past
(`Matches`) and the snapshot to the saved positions (`SavedState`), as long as
nothing strayed: a checkpoint carries the flag of the process that took it, and a
recovery inherits it. Commits and rebalances disturb neither (`QuietKeeps`): the
state stays, and a rebalance that moves the source sets the flag. `OneHome`, a
key's records in one partition, is how a Kafka topic partitioned by key is
written; with a key in two partitions the state depends on how they interleave.
For the types, `Held` adds that sink, state and current key hold only what is in
the logs.

**Plans** (any graph, strategies, parallelisms, offers; `StreamPlanAssumption`).
`KahnCorrect` is about the algorithm alone. `Kahn` is its loop invariant over the
edges already taken off: a node's degree counts its other incoming edges, and it
is zero exactly when the node is in the order or in the queue. Taking one edge
off keeps it (`RelaxKeeps`), so a visit does, which takes off the edges of one
node, each once, parallel ones too (`AdjacencyPlaces`, `VisitKeeps`); afterwards
the edges off are those that leave the order, and every edge into the order
comes from an earlier node (`Forward`). After as many rounds as there are nodes
either all are in order or the queue is empty (`RunKeeps`), and then the nodes
left over feed each other: that is the cycle. The rounds are those of the
recursive function, taken by the least counterexample. `PlanInv` says that the
graph joins its own nodes and that a plan is of the graph as it is. For the
routes, `ConnectedIs` computes the connected subtasks of a logical edge from its
strategy and `SelectsReached` those the partitioner may select. A plan with edges
exists only if no remainder by zero is taken (`DividesByZero`), which the proof
needs: an edge of another target list would be unspecified.

For the graph beside the running tasks, `WiringInv` says that every channel has
one writer and one reader, that only the stream's channel is not read yet and is
written by the task of the stream's node (`Wired`), and that the arrows of the
graph are the pairs of nodes whose tasks are joined (`Arcs`). An operator's tasks
(`NewTasks`) read that one channel and otherwise only channels of their own, so
they are behind the one task that writes it (`BehindIs`); then a path from an old
task into the new ones goes over that task and over the first of the new ones, and
no path leads back (`JoinedMore`). Of the four tasks of a two-input operator only
the last one bears the node, and it is reached over the first (`TwoInputs`). So the
arrows and the joined pairs both grow by the same pair (`OneNodeMore`,
`GrowArrow`), and a source's drainer adds none (`DrainerKeeps`).

For the slots, the offers must be such as `slot_offers` makes (`FitOffers`): one
of each TaskManager, being the values of a map, and none with more slots used than
it has, without which the subtraction of `physical.rs:83` would underflow. Subtasks
and free slots are counted alike: lists without repetition or common elements, put
together in any order, have as many elements as the lists have together
(`FlatPlaces`, `Gathers`), and so `TotalSubtasks` and `TotalAvailable`, which add up
numbers, count the subtasks and the free slots (`SubtaskPieces`, `FreeCount`). The
queue is sorted by a rank; the ranks are a strict order that tells any two slots
apart (`LessIsOrder`, `QueueRankApart`), so the numbers of slots ranked before
each slot are all different, and every place of the queue is taken by exactly one
slot (`RanksTaken`, `QueueHolds`). Hence the pops are of different slots and never
of an empty queue, whichever strategy sorted it. `JobsFit` shows that the offers of
the JobManager are such (`OffersAreFit`): that no report exceeds the slots is
`OffersFit`, an invariant of the cluster.

**Cluster** (any TaskManagers, slots, jobs, disturbances).
`SlotsConsistent` is not inductive: a free slot's marker has to be told from a
subtask's entry, so `SlotsOk` adds that every entry of the map leads to an
*occupied* slot (the marker of a free slot is no job, the last conjunct of
`ClusterAssumption`: in the code it is another variant of `SlotState`). Then a
deploy, which takes a free slot, hits no entry (`DeployOk`), and a cancel frees
no other subtask's slot (`CancelOk`). The map is one-to-one into the slots, so
`slots_in_use` is at most their number (`InUseFits`), also in a report of an
earlier process that arrives late. The plan and its calls change neither slots
nor reports until a TaskManager handles one (`PlanningKeeps`).

`CountIsTrue` relates what a call returned to a history that other steps extend,
and a subtask accepted by a call whose answer was lost is not counted. So
`DeployInv` says that a *set* of accepted subtasks exists, at least as large as
the count plus an answer not read yet, none of which is waiting to be sent or
under way (`Counts`): an accept adds the subtask under way, which is new to the
set, and an answer that is read or lost leaves it. That no subtask waits twice
comes from the plan: the order of a graph of one node is that node (`OneNode`),
every index is assigned once (`PlanAssigns`), and the groups of the TaskManagers
share nothing (`GroupsApart`). `NamesAssumption` is about `format!("{}-{}")`:
different indices are written differently, and no name is one of the words that
`call` may also hold. `Processes` (a report names a process that was started)
completes the type.

**Operators** (any input, timestamps, keys, bounds; `EventTimeAssumption`). The
properties compare what was emitted with the whole input, so each operator has an
invariant that says what its state holds in terms of the input. `Paired` (one
output per input) and `Given` (the input's elements, each under its position) are
the frame; a step makes both histories longer by one (`Longer`, `Extends`) and
leaves every statement about an earlier position as it was. *Tracker*: an input's
watermark is the last one fed, at least the greatest while the channel advances, and
what was emitted grows strictly to the current minimum. *Timers*: the queue holds
exactly the timers registered, not deleted and not reached since, so that those due
at a watermark are the queue's (`DueIs`) and a timer set by `on_timer` is behind it.
Their order is that of a sorting operator, so `TimersInOrder` states it outright:
`Sooner` is a strict order of the timers, the queue is finite, and a finite set in
such an order has each element once, in that order (`AscendingIs`). `ServiceInv`
adds the types of the timer service and the tracker, and that an operator of
another kind keeps nothing; the panes and buffers have theirs from the invariants below.
*Interval join*: the buffers of a key hold exactly the records of that key and side
that arrived and that no later watermark evicts (`BuffersHold`), and have no empty
entry after a watermark; then `JoinedSo` says of every position which pairs it
emitted: those of its record with earlier ones that were not evicted and are in
range, and no other. It follows that a pair can be emitted only at the later one's
position; and that it is, when both are on time, because every watermark in between
is less than the later record's time, hence spares the earlier one (`MatchSpared`);
and that both ranges mean the same condition once saturation is set apart
(`MeetMatches`). *Windows*: the assigner's loop, a recursive function that walks back
slide by slide, adds at each start the window that reaches past the time, and as long
as no end wraps it stops only where no earlier window does (`WalkExact`); so it returns
the windows that contain the time (`AssignsExactly`). The invariant `PanesHold` says
that the pane of a key and window holds, in the order of arrival, exactly the records
of that key, side and assigned window that no watermark closed since they came
(`Pending`), and that there is a pane exactly when there is such a record: a record
goes to the end of its panes because its position is the greatest (`ArrangedAppend`),
a watermark empties the panes it reaches. It holds whether or not ends wrap. When none
does, what fires is what the definition closes (`ClosingsAre`), and whatever order the
panes fire in, every result is emitted as often as there are panes that make it
(`EmissionLists`). The records of a pane have its key, hence so have those of a result
(`MadeOf`); with `JoinedSo` for the interval join this is `KeyKept`, because a map or
a filter passes a record on as it is (`PassedOn`).

**Sequences.** The provers cannot expand `SelectSeq`, `FoldLeft` or
`FlattenSeq`, which take operators. Modules with proofs use `Keep`, `Flat`, `Total` and
`Sequenced` of `Filters`, over sets and functions, and `BytesOf`, `After`
and `Through` are recursive functions too. `FilterLemmas` proves what the first
two return (`KeepAppend`, `KeepNext`, `KeepPlaces`, `KeepLen`, `FlatAppend`,
`FlatBegins`), and that `Total`, the sum of a sequence, follows what is put at
its end and taken from its front (`TotalAppend`, `TotalTail`), and that
`Sequenced`, a finite set in an order given by what comes before each element, has
each element once and in that order (`RanksTaken`, `SequencedHolds`), each by the least
counterexample to the unfolding of its recursion; the library's induction
theorems take an operator and cannot be cited.

Only model-checked: liveness and fairness, which are outside the prover's reach.

## 6. Not modelled

- Side outputs (`side_output.rs`): an unbounded fan-out by tag which only user
  code drives; also the side outputs of process functions.
- Functional API, configuration builders, thread pinning, command line,
  configuration, binaries, chart: setters, parsing, formatting, start-up.
- In modelled components: the ring-buffer flavour of a channel inside a chain
  and the merge inside a chain (each is modelled on its own);
  `ConnectionManager::disconnect`, which nothing calls; `detect_dead`, `remove`,
  `update_slot_usage`, `SlotManager::cancel_job`, `fire_processing_time_up_to`,
  which only tests call; `job_reaper`, never called (`spawn_job_reaper` is);
  status and checkpoint reports, only logged; I/O errors of connectors, which end
  the call with an error; `PrintSink`; a subscriber's receiver dropped while
  `route` waits for it; serialization failures of state.
- Power failure: files written stay written; only process crashes are modelled.
- Weak memory: the ring's memory is sequentially consistent (two counters with
  one writer each, release stores and acquire loads).
