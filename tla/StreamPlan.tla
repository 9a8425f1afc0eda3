----------------------------- MODULE StreamPlan -----------------------------
(***************************************************************************)
(* How a job becomes a graph, tasks and a plan: the fluent API of          *)
(* StreamExecutionEnvironment and DataStream, which adds nodes to the      *)
(* logical graph while it spawns tasks and joins them by channels          *)
(* (crates/flume-api/src/environment.rs, datastream.rs, connected.rs), or  *)
(* a LogicalGraph built directly (dag.rs); then schedule() (physical.rs).  *)
(*                                                                         *)
(* Channels are numbered in the order they are made.  A task is told by    *)
(* the node it runs (0 for the helpers of a two-input operator) and the    *)
(* channels it reads and writes.                                           *)
(***************************************************************************)
EXTENDS PhysicalPlan

CONSTANTS
  Strategies,     (* the partition strategies of directly added edges       *)
  Parallelisms,   (* the parallelism of directly added nodes                *)
  SlotOffers,     (* the slot offers a plan may be made from                *)
  MaxNodes,       (* bound: nodes of the graph                              *)
  MaxEdges        (* bound: directly added edges                            *)

ASSUME StreamPlanAssumption ==
  /\ Strategies \subseteq {"forward", "hash", "broadcast", "rebalance"}
  /\ Parallelisms \subseteq Nat
  /\ \A offers \in SlotOffers : FitOffers(offers)
  /\ MaxNodes \in Nat
  /\ MaxEdges \in Nat

VARIABLES
  builder,    (* who adds to the graph: "api" or "graph"                    *)
  graph,      (* env.graph, or the LogicalGraph                             *)
  tasks,      (* the spawned tasks and add_sink's loop                      *)
  channels,   (* how many channels were made                                *)
  stream,     (* the DataStream: its node_id and upstream, or NoStream      *)
  plan        (* what schedule() was given and made of it, or NoPlan        *)

planVars == <<builder, graph, tasks, channels, stream, plan>>

(* upstream is a Source (0) or the OperatorInput of a channel. *)
NoStream == [node |-> 0, upstream |-> 0]
NoPlan == [offers |-> <<>>, strategy |-> "none", result |-> Failure("none")]

PlanInit ==
  /\ builder \in {"api", "graph"}
  /\ graph = EmptyGraph
  /\ tasks = {}
  /\ channels = 0
  /\ stream = NoStream
  /\ plan = NoPlan

TaskOf(node, reads, writes) == [node |-> node, reads |-> reads, writes |-> writes]
NextNode == Len(graph.nodes) + 1

Building(nodes) ==
  /\ builder = "api"
  /\ plan = NoPlan
  /\ Len(graph.nodes) + nodes <= MaxNodes

-----------------------------------------------------------------------------
(* from_source: only when no stream borrows the environment. *)
FromSource ==
  /\ Building(1)
  /\ stream = NoStream
  /\ graph' = AddNode(graph, "source", 1)
  /\ stream' = [node |-> NextNode, upstream |-> 0]
  /\ UNCHANGED <<builder, tasks, channels, plan>>

(* wire_upstream: a Source gets a channel and a drainer that fills it. *)
FromSourceUpstream == stream.upstream = 0
WiredInput == IF FromSourceUpstream THEN channels + 1 ELSE stream.upstream
WiredChannels == IF FromSourceUpstream THEN channels + 1 ELSE channels
WiredTasks ==
  IF FromSourceUpstream
  THEN tasks \cup {TaskOf(stream.node, {}, {WiredInput})}
  ELSE tasks

Grow(name) ==
  graph' = AddEdge(AddNode(graph, name, 1), stream.node, NextNode, "forward")

(* Mutant: the new DataStream keeps the node of the old one. *)
Continue_OldNode(output) ==
  stream' = [node |-> stream.node, upstream |-> output]

(* The DataStream over the output of the operator just added. *)
Continue(output) == stream' = [node |-> NextNode, upstream |-> output]

(* apply_operator: map, filter, key_by, process, window. *)
ApplyOperator(name) ==
  LET output == WiredChannels + 1 IN
  /\ Building(1)
  /\ stream # NoStream
  /\ Grow(name)
  /\ tasks' = WiredTasks \cup {TaskOf(NextNode, {WiredInput}, {output})}
  /\ channels' = output
  /\ Continue(output)
  /\ UNCHANGED <<builder, plan>>

(* The two input tasks, the merge and the operator. *)
TwoInputTasks(c) ==
  {TaskOf(0, {WiredInput}, {c + 1}), TaskOf(0, {}, {c + 2}),
   TaskOf(0, {c + 1, c + 2}, {c + 3}), TaskOf(NextNode, {c + 3}, {c + 4})}

(* wire_two_input_operator: connect, window_join, interval_join.  The      *)
(* second input is a Source without a node of its own.                     *)
ApplyTwoInput(name) ==
  /\ Building(1)
  /\ stream # NoStream
  /\ Grow(name)
  /\ tasks' = WiredTasks \cup TwoInputTasks(WiredChannels)
  /\ channels' = WiredChannels + 4
  /\ Continue(WiredChannels + 4)
  /\ UNCHANGED <<builder, plan>>

(* The methods of DataStream and of the streams it is connected into. *)
Map == ApplyOperator("map")
Filter == ApplyOperator("filter")
FlatMap == ApplyOperator("flat_map")
KeyBy == ApplyOperator("key_by")
Process == ApplyOperator("process")
ProcessKeyed == ApplyOperator("keyed_process")
WindowAggregate == ApplyOperator("window")
CoProcess == ApplyTwoInput("co_process")
WindowJoin == ApplyTwoInput("window_join")
WindowCogroup == ApplyTwoInput("window_cogroup")
IntervalJoin == ApplyTwoInput("interval_join")

Transform ==
  \/ Map \/ Filter \/ FlatMap \/ KeyBy \/ Process \/ ProcessKeyed \/ WindowAggregate
  \/ CoProcess \/ WindowJoin \/ WindowCogroup \/ IntervalJoin

(* add_sink consumes the stream and runs the job; the environment is free  *)
(* again when it returns.                                                   *)
AddSink ==
  /\ Building(1)
  /\ stream # NoStream
  /\ Grow("sink")
  /\ tasks' = WiredTasks \cup {TaskOf(NextNode, {WiredInput}, {})}
  /\ channels' = WiredChannels
  /\ stream' = NoStream
  /\ UNCHANGED <<builder, plan>>

-----------------------------------------------------------------------------
Directly == builder = "graph" /\ plan = NoPlan

AddGraphNode(parallelism) ==
  /\ Directly
  /\ Len(graph.nodes) < MaxNodes
  /\ graph.edges = <<>>
  /\ graph' = AddNode(graph, "node", parallelism)
  /\ UNCHANGED <<builder, tasks, channels, stream, plan>>

AddGraphEdge(from, to, strategy) ==
  /\ Directly
  /\ Len(graph.edges) < MaxEdges
  /\ graph' = AddEdge(graph, from, to, strategy)
  /\ UNCHANGED <<builder, tasks, channels, stream, plan>>

MakePlan(offers, strategy) ==
  /\ plan = NoPlan
  /\ plan' = [offers |-> offers, strategy |-> strategy,
              result |-> Schedule(graph, offers, strategy)]
  /\ UNCHANGED <<builder, graph, tasks, channels, stream>>

PlanNext ==
  \/ FromSource
  \/ Transform
  \/ AddSink
  \/ \E parallelism \in Parallelisms : AddGraphNode(parallelism)
  \/ \E from, to \in NodeIds(graph), strategy \in Strategies :
       AddGraphEdge(from, to, strategy)
  \/ \E offers \in SlotOffers, strategy \in {"spread", "pack"} :
       MakePlan(offers, strategy)

PlanSpec == PlanInit /\ [][PlanNext]_planVars

-----------------------------------------------------------------------------
Planned == plan.result.outcome = "ok"

(* Type correctness: the edges of the graph join nodes of it, tasks use    *)
(* channels that exist.                                                     *)
PlanTypeOK ==
  /\ builder \in {"api", "graph"}
  /\ \A k \in DOMAIN graph.edges :
       {graph.edges[k].from, graph.edges[k].to} \subseteq NodeIds(graph)
  /\ \A t \in tasks : /\ t.node \in {0} \cup NodeIds(graph)
                      /\ t.reads \cup t.writes \subseteq 1..channels
  /\ stream.node \in {0} \cup NodeIds(graph)
  /\ plan.result.outcome \in {"none", "ok", "cycle", "slots", "panic"}

(* The logical graph says how the running tasks are joined: two nodes have *)
(* an edge exactly if their tasks are joined by channels, directly or      *)
(* through the helpers of a two-input operator, and every channel has one  *)
(* writer and one reader, which is still missing only for the stream under *)
(* construction (datastream.rs wires tasks and graph side by side).        *)
Feeds(t, u) == t.writes \cap u.reads # {}
Downstream(t) ==
  LET reach[k \in 0..3] ==
        IF k = 0 THEN {u \in tasks : Feeds(t, u)}
        ELSE reach[k - 1] \cup
             {u \in tasks : \E v \in reach[k - 1] : v.node = 0 /\ Feeds(v, u)}
  IN  {u \in reach[3] : u.node # 0}

GraphMirrorsWiring ==
  /\ builder = "api" =>
       {<<graph.edges[k].from, graph.edges[k].to>> : k \in DOMAIN graph.edges} =
       UNION {{<<t.node, u.node>> : u \in Downstream(t)}
              : t \in {v \in tasks : v.node # 0}}
  /\ \A c \in 1..channels :
       /\ Cardinality({t \in tasks : c \in t.writes}) = 1
       /\ Cardinality({t \in tasks : c \in t.reads}) =
            IF c = stream.upstream THEN 0 ELSE 1

(* topological_order returns every node once with all edges pointing       *)
(* forward, and None exactly for a cyclic graph (dag.rs lines 86-88).       *)
OrderIsTopological ==
  LET order == TopologicalOrder(graph) IN
  IF Cyclic(graph) THEN order = <<>> ELSE IsTopological(graph, order)

(* A plan gives every subtask a slot of its own that its TaskManager       *)
(* offered as free, and there is a plan whenever the subtasks fit in the   *)
(* offers: the queue never runs out (physical.rs lines 100-124).            *)
PlanFits ==
  LET placed == plan.result.assignments IN
  /\ Planned =>
       /\ {placed[n].subtask : n \in DOMAIN placed} =
            UNION {Range(SubtasksOf(graph, id)) : id \in NodeIds(graph)}
       /\ \A m, n \in DOMAIN placed : m # n =>
            /\ placed[m].subtask # placed[n].subtask
            /\ <<placed[m].tm, placed[m].slot>> # <<placed[n].tm, placed[n].slot>>
       /\ \A n \in DOMAIN placed : \E k \in DOMAIN plan.offers :
            /\ plan.offers[k].tm = placed[n].tm
            /\ placed[n].slot \in plan.offers[k].used..(plan.offers[k].total - 1)
  /\ (plan.result.outcome = "slots") =>
       TotalSubtasks(graph) > TotalAvailable(plan.offers)

(* The plan's edges are the routes records take: whatever subtask the      *)
(* partitioner of a logical edge selects is connected to the sender, and   *)
(* no connection is without use (physical.rs line 177, partition.rs).       *)
RoutesAreConnected ==
  Planned =>
    \A k \in DOMAIN graph.edges :
      LET e == graph.edges[k]
          n == graph.nodes[e.to].parallelism
          Connected(i) == {c.to.index : c \in {d \in plan.result.edges :
                             /\ d.from = Subtask(graph, e.from, i)
                             /\ d.to.node = e.to
                             /\ d.strategy = e.strategy}}
      IN  n > 0 =>
            \A i \in 0..(graph.nodes[e.from].parallelism - 1) :
              Connected(i) =
                UNION {Select(e.strategy, x, i, x, n) : x \in 0..(n - 1)}

(* "Spread subtasks evenly across TMs for fault isolation" (physical.rs    *)
(* line 75): no TaskManager gets two subtasks more than one that still has *)
(* a free slot.                                                             *)
SpreadIsEven ==
  Planned /\ plan.strategy = "spread" =>
    LET placed == plan.result.assignments
        Share(k) == Cardinality({n \in DOMAIN placed :
                                   placed[n].tm = plan.offers[k].tm})
    IN  \A j, k \in DOMAIN plan.offers :
          Share(j) > Share(k) + 1 => Share(k) = Available(plan.offers[k])
=============================================================================
