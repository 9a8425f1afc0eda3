---------------------------- MODULE PhysicalPlan ----------------------------
(***************************************************************************)
(* The logical graph, its topological order and its physical plan          *)
(* (crates/flume-runtime/src/dag.rs, physical.rs and partition.rs).        *)
(*                                                                         *)
(* A graph is [nodes, edges], a node's id its place in nodes counted from  *)
(* 1; subtask and slot indices count from 0 as in the code.                *)
(***************************************************************************)
EXTENDS Integers, Sequences, FiniteSets, SequencesExt, Filters

EmptyGraph == [nodes |-> <<>>, edges |-> <<>>]
NodeIds(graph) == DOMAIN graph.nodes

AddNode(graph, name, parallelism) ==
  [graph EXCEPT !.nodes = Append(@, [name |-> name, parallelism |-> parallelism])]

AddEdge(graph, from, to, strategy) ==
  [graph EXCEPT !.edges =
     Append(@, [from |-> from, to |-> to, strategy |-> strategy])]

-----------------------------------------------------------------------------
(* Kahn's algorithm.  A state of it is the nodes in order so far, the      *)
(* queue of nodes without pending inputs and the in-degrees.               *)

Adjacency(graph, node) ==
  LET out == Keep(graph.edges, {e \in Range(graph.edges) : e.from = node})
  IN  [k \in DOMAIN out |-> out[k].to]

(* Mutant: a neighbour is queued at its first incoming edge. *)
Relax_FirstEdge(s, neighbor) ==
  [s EXCEPT !.degree[neighbor] = @ - 1, !.queue = Append(@, neighbor)]

Relax(s, neighbor) ==
  LET degree == s.degree[neighbor] - 1 IN
  [s EXCEPT !.degree[neighbor] = degree,
            !.queue = IF degree = 0 THEN Append(@, neighbor) ELSE @]

Visit(graph, s) ==
  LET node == Head(s.queue)
      next == Adjacency(graph, node)
      relaxed[k \in 0..Len(next)] ==
        IF k = 0 THEN [s EXCEPT !.order = Append(@, node), !.queue = Tail(@)]
                 ELSE Relax(relaxed[k - 1], next[k])
  IN  relaxed[Len(next)]

(* The order, or <<>> for None; the empty graph's order is empty too. *)
TopologicalOrder(graph) ==
  LET n == Len(graph.nodes)
      degree == [id \in NodeIds(graph) |->
                   Len(Keep(graph.edges, {e \in Range(graph.edges) : e.to = id}))]
      start == [order  |-> <<>>,
                queue  |-> Keep([id \in 1..n |-> id],
                                {id \in 1..n : degree[id] = 0}),
                degree |-> degree]
      run[k \in 0..n] ==
        IF k = 0 THEN start
        ELSE IF run[k - 1].queue = <<>> THEN run[k - 1]
        ELSE Visit(graph, run[k - 1])
  IN  IF Len(run[n].order) = n THEN run[n].order ELSE <<>>

(* What an order is to be: every node once, and every edge forward; a      *)
(* graph has one unless every node of some set has an edge from the set.   *)
IsTopological(graph, order) ==
  /\ Len(order) = Len(graph.nodes)
  /\ Range(order) = NodeIds(graph)
  /\ \A k \in DOMAIN graph.edges : \E i, j \in DOMAIN order :
       /\ i < j
       /\ order[i] = graph.edges[k].from
       /\ order[j] = graph.edges[k].to

Cyclic(graph) ==
  \E S \in (SUBSET NodeIds(graph)) \ {{}} :
    \A id \in S : \E k \in DOMAIN graph.edges :
      graph.edges[k].to = id /\ graph.edges[k].from \in S

-----------------------------------------------------------------------------
(* Slot offers: a sequence of [tm, total, used]. *)

Available(offer) == offer.total - offer.used
TotalAvailable(offers) == Total([k \in DOMAIN offers |-> Available(offers[k])])
TotalSubtasks(graph) == Total([id \in NodeIds(graph) |-> graph.nodes[id].parallelism])

(* What the offers of the registered TaskManagers are: one of each, as they *)
(* are the values of a map, and none uses more slots than it has.          *)
FitOffers(offers) ==
  /\ offers \in Seq(Range(offers))
  /\ \A k \in DOMAIN offers : /\ offers[k].total \in Nat
                              /\ offers[k].used \in 0..offers[k].total
  /\ \A j, k \in DOMAIN offers : offers[j].tm = offers[k].tm => j = k

(* Mutant: the slots of the strategy are numbered from 0, used ones too. *)
FreeSlots_All(offers) ==
  UNION {{[offer |-> k, slot |-> i] : i \in 0..(offers[k].total - 1)}
         : k \in DOMAIN offers}

(* A free slot, by its offer's place and its index. *)
FreeSlots(offers) ==
  UNION {{[offer |-> k, slot |-> i] : i \in offers[k].used..(offers[k].total - 1)}
         : k \in DOMAIN offers}

Lexicographic(s, t) ==
  \E k \in DOMAIN s : s[k] < t[k] /\ \A j \in 1..(k - 1) : s[j] = t[j]

(* Spread goes around the offers, most available first; Pack takes them    *)
(* one after the other, least available first.  Both sorts are stable.     *)
QueueRank(offers, strategy, s) ==
  LET offer == offers[s.offer] IN
  IF strategy = "spread"
  THEN <<s.slot - offer.used, -Available(offer), s.offer>>
  ELSE <<Available(offer), s.offer, s.slot>>

SlotQueue(offers, strategy) ==
  LET slots == FreeSlots(offers)
  IN  Sequenced(slots, [s \in slots |->
        {r \in slots : Lexicographic(QueueRank(offers, strategy, r),
                                     QueueRank(offers, strategy, s))}])

-----------------------------------------------------------------------------
Subtask(graph, id, index) ==
  [node |-> id, name |-> graph.nodes[id].name, index |-> index]

SubtasksOf(graph, id) ==
  [i \in 1..graph.nodes[id].parallelism |-> Subtask(graph, id, i - 1)]

(* The queue is a Vec popped from its end. *)
PopOrder(queue) == Reverse(queue)

Assignments(graph, order, offers, strategy) ==
  LET subtasks == Flat(order, [id \in NodeIds(graph) |-> SubtasksOf(graph, id)])
      slots == PopOrder(SlotQueue(offers, strategy))
  IN  [n \in DOMAIN subtasks |->
         [subtask |-> subtasks[n], tm |-> offers[slots[n].offer].tm,
          slot |-> slots[n].slot]]

(* Mutant: forward connects equal indices only. *)
ConnectedSubtasks_SameIndex(graph, edge) ==
  LET from == SubtasksOf(graph, edge.from)
      to == SubtasksOf(graph, edge.to)
  IN  IF edge.strategy = "forward"
      THEN {<<from[i], to[i]>> : i \in DOMAIN from \cap DOMAIN to}
      ELSE Range(from) \X Range(to)

ConnectedSubtasks(graph, edge) ==
  LET from == SubtasksOf(graph, edge.from)
      to == SubtasksOf(graph, edge.to)
  IN  IF edge.strategy = "forward"
      THEN {<<from[i], to[((i - 1) % Len(to)) + 1]>> : i \in DOMAIN from}
      ELSE Range(from) \X Range(to)

PhysicalEdges(graph) ==
  UNION {LET e == graph.edges[k] IN
           {[from |-> c[1], to |-> c[2], strategy |-> e.strategy]
              : c \in ConnectedSubtasks(graph, e)}
         : k \in DOMAIN graph.edges}

Failure(reason) == [outcome |-> reason, assignments |-> <<>>, edges |-> {}]

(* The remainder by an empty list of targets panics. *)
DividesByZero(graph) ==
  \E k \in DOMAIN graph.edges :
    LET e == graph.edges[k] IN
    /\ e.strategy = "forward"
    /\ graph.nodes[e.from].parallelism > 0
    /\ graph.nodes[e.to].parallelism = 0

Schedule(graph, offers, strategy) ==
  LET order == TopologicalOrder(graph) IN
  IF Len(order) # Len(graph.nodes) THEN Failure("cycle")
  ELSE IF TotalSubtasks(graph) > TotalAvailable(offers) THEN Failure("slots")
  ELSE IF DividesByZero(graph) THEN Failure("panic")
  ELSE [outcome |-> "ok",
        assignments |-> Assignments(graph, order, offers, strategy),
        edges |-> PhysicalEdges(graph)]

-----------------------------------------------------------------------------
(* Partitioner::select: the targets of a record among n > 0 subtasks, from *)
(* its key's hash, the sender's index and the rebalance counter.           *)
Select(strategy, hash, source, next, n) ==
  CASE strategy = "forward"   -> {source % n}
    [] strategy = "hash"      -> {hash % n}
    [] strategy = "broadcast" -> 0..(n - 1)
    [] strategy = "rebalance" -> {next % n}
=============================================================================
