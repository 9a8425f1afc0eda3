-------------------------- MODULE DeploymentProofs --------------------------
(***************************************************************************)
(* Proofs about the plan of a job (StreamPlan, PhysicalPlan) and its       *)
(* deployment (Cluster), for any graph, offers, TaskManagers and jobs.     *)
(*                                                                         *)
(* The order of the nodes is topological, the planned edges are the routes *)
(* of the records and the graph says how the tasks are joined; every       *)
(* subtask of a plan gets a free slot of its own; slots are never mixed    *)
(* up, no slot offer underflows, and what a deployment returns was         *)
(* accepted.                                                               *)
(***************************************************************************)
EXTENDS Cluster, StreamPlan, FilterLemmas, FiniteSetTheorems

-----------------------------------------------------------------------------
(* Kahn's algorithm, for every graph (dag.rs lines 89-124). *)

(* A graph whose edges join nodes of it. *)
IsGraph(G) ==
  /\ G.nodes \in Seq(Range(G.nodes))
  /\ G.edges \in Seq(Range(G.edges))
  /\ \A k \in 1..Len(G.edges) :
       G.edges[k].from \in NodeIds(G) /\ G.edges[k].to \in NodeIds(G)

(* A state of the algorithm, the edges in relaxed being taken off. *)
KahnStates(G) ==
  [order : Seq(NodeIds(G)), queue : Seq(NodeIds(G)), degree : [NodeIds(G) -> Int]]

Into(G, id, relaxed) == {k \in (1..Len(G.edges)) \ relaxed : G.edges[k].to = id}
Elements(q) == {q[i] : i \in 1..Len(q)}
Distinct(q) == \A i, k \in 1..Len(q) : q[i] = q[k] => i = k

(* The degree of a node counts its edges that are left; it is zero exactly *)
(* when the node is in the order or waits in the queue.                    *)
Kahn(G, s, relaxed) ==
  /\ s \in KahnStates(G)
  /\ relaxed \subseteq 1..Len(G.edges)
  /\ Distinct(s.order) /\ Distinct(s.queue)
  /\ Elements(s.order) \cap Elements(s.queue) = {}
  /\ \A id \in NodeIds(G) : s.degree[id] = Cardinality(Into(G, id, relaxed))
  /\ \A id \in NodeIds(G) :
       s.degree[id] = 0 <=> id \in Elements(s.order) \cup Elements(s.queue)

LEMMA IntoFinite ==
  ASSUME NEW G, IsGraph(G), NEW id, NEW relaxed
  PROVE  /\ IsFiniteSet(Into(G, id, relaxed))
         /\ Cardinality(Into(G, id, relaxed)) \in Nat
         /\ Cardinality(Into(G, id, relaxed)) = 0 <=> Into(G, id, relaxed) = {}
<1>1. Len(G.edges) \in Nat
  BY DEF IsGraph
<1>2. IsFiniteSet(1..Len(G.edges))
  <2>1. PICK n : n = Len(G.edges)
    OBVIOUS
  <2>2. n \in Int /\ 1 \in Int
    BY <1>1, <2>1
  <2>3. IsFiniteSet(1..n)
    BY <2>2, FS_Interval
  <2>4. QED  BY <2>1, <2>3
<1>3. Into(G, id, relaxed) \in SUBSET (1..Len(G.edges))
  BY DEF Into
<1>4. QED  BY <1>2, <1>3, FS_Subset, FS_CardinalityType, FS_EmptySet

Appended(T, q, x, a) ==
  /\ a \in Seq(T) /\ Len(a) = Len(q) + 1 /\ a[Len(a)] = x /\ Len(q) \in Nat
  /\ \A i \in 1..Len(q) : a[i] = q[i]
  /\ Elements(a) = Elements(q) \cup {x}
  /\ Distinct(q) /\ x \notin Elements(q) => Distinct(a)

LEMMA AppendElements ==
  ASSUME NEW T, NEW q \in Seq(T), NEW x \in T, NEW a, a = Append(q, x)
  PROVE  Appended(T, q, x, a)
<1>1. /\ a \in Seq(T) /\ Len(q) \in Nat /\ Len(a) = Len(q) + 1 /\ a[Len(q) + 1] = x
      /\ \A i \in 1..Len(q) : i \in 1..Len(a) /\ i # Len(q) + 1 /\ i < Len(a) /\ a[i] = q[i]
      /\ \A i \in 1..Len(a) : i \in 1..Len(q) \/ i = Len(q) + 1
      /\ Len(q) + 1 \in 1..Len(a)
  OBVIOUS
<1>2. Elements(a) = Elements(q) \cup {x}
  BY <1>1 DEF Elements
<1>3. Distinct(q) /\ x \notin Elements(q) => Distinct(a)
  BY <1>1 DEF Elements, Distinct
<1>4. QED  BY <1>1, <1>2, <1>3 DEF Appended

LEMMA TailElements ==
  ASSUME NEW T, NEW q \in Seq(T), q # <<>>, Distinct(q), NEW t, t = Tail(q)
  PROVE  /\ t \in Seq(T) /\ Head(q) \in T /\ Distinct(t)
         /\ Elements(q) = Elements(t) \cup {Head(q)} /\ Head(q) \notin Elements(t)
<1>1. /\ t \in Seq(T) /\ Len(q) \in Nat /\ Len(t) = Len(q) - 1 /\ Head(q) = q[1]
      /\ q[1] \in T /\ 1 \in 1..Len(q)
      /\ \A i \in 1..Len(t) : i + 1 \in 1..Len(q) /\ i + 1 # 1 /\ t[i] = q[i + 1]
      /\ \A i \in 1..Len(q) : i = 1 \/ (i - 1 \in 1..Len(t) /\ (i - 1) + 1 = i)
  OBVIOUS
<1>2. Distinct(t)
  BY <1>1 DEF Distinct
<1>3. Elements(q) = Elements(t) \cup {Head(q)}
  <2>1. ASSUME NEW i \in 1..Len(q)
        PROVE  q[i] \in Elements(t) \cup {Head(q)}
    <3>1. CASE i = 1
      BY <1>1, <3>1
    <3>2. CASE i # 1
      <4>1. i - 1 \in 1..Len(t) /\ t[i - 1] = q[i]
        BY <1>1, <3>2
      <4>2. QED  BY <4>1 DEF Elements
    <3>3. QED  BY <3>1, <3>2
  <2>2. \A i \in 1..Len(t) : t[i] \in Elements(q)
    BY <1>1 DEF Elements
  <2>3. Head(q) \in Elements(q)
    BY <1>1 DEF Elements
  <2>4. QED  BY <2>1, <2>2, <2>3 DEF Elements
<1>4. Head(q) \notin Elements(t)
  BY <1>1 DEF Elements, Distinct
<1>5. QED  BY <1>1, <1>2, <1>3, <1>4

(* Edge k is taken off, and the order stays. *)
TakenOff(G, s, r, relaxed, k) ==
  Kahn(G, r, relaxed \cup {k}) /\ r.order = s.order

LEMMA RelaxKeeps ==
  ASSUME NEW G, IsGraph(G), NEW s, NEW relaxed, Kahn(G, s, relaxed),
         NEW k, k \in 1..Len(G.edges), k \notin relaxed,
         NEW node, node = G.edges[k].to, NEW r, r = Relax(s, node)
  PROVE  TakenOff(G, s, r, relaxed, k)
<1> DEFINE N == NodeIds(G)
<1> DEFINE d == s.degree[node] - 1
<1> DEFINE more == relaxed \cup {k}
<1>1. node \in N /\ s \in KahnStates(G)
  BY DEF IsGraph, Kahn
<1>2. /\ s.order \in Seq(N) /\ s.queue \in Seq(N) /\ s.degree \in [N -> Int]
      /\ d \in Int
  BY <1>1 DEF KahnStates
<1>3. PICK queue : queue = IF d = 0 THEN Append(s.queue, node) ELSE s.queue
  OBVIOUS
<1>4. PICK degree : degree = [s.degree EXCEPT ![node] = d]
  OBVIOUS
<1>5. queue \in Seq(N) /\ degree \in [N -> Int]
  <2> HIDE DEF N
  <2>1. QED  BY <1>1, <1>2, <1>3, <1>4
<1>6. r = [order |-> s.order, queue |-> queue, degree |-> degree]
  <2>1. r = [s EXCEPT !.degree[node] = d, !.queue = IF d = 0 THEN Append(@, node) ELSE @]
    BY Zenon DEF Relax
  <2> HIDE DEF d
  <2>2. QED  BY <1>1, <1>3, <1>4, <2>1 DEF KahnStates
<1>7. r \in KahnStates(G) /\ r.order = s.order /\ r.queue = queue /\ r.degree = degree
  BY <1>2, <1>5, <1>6 DEF KahnStates
<1>8. Into(G, node, more) = Into(G, node, relaxed) \ {k} /\ k \in Into(G, node, relaxed)
  BY DEF Into
<1>9. ASSUME NEW id \in N, id # node
      PROVE  Into(G, id, more) = Into(G, id, relaxed)
  BY <1>9 DEF Into
<1>10. Cardinality(Into(G, node, more)) = Cardinality(Into(G, node, relaxed)) - 1
  <2>1. PICK S : S = Into(G, node, relaxed)
    OBVIOUS
  <2> HIDE DEF more
  <2>2. IsFiniteSet(S) /\ k \in S /\ Into(G, node, more) = S \ {k}
    BY <1>8, <2>1, IntoFinite
  <2>3. Cardinality(S \ {k}) = Cardinality(S) - 1
    BY <2>2, FS_RemoveElement
  <2>4. QED  BY <2>1, <2>2, <2>3
<1>11. \A id \in N : degree[id] = Cardinality(Into(G, id, more))
  <2> HIDE DEF N, more
  <2>1. \A id \in N : s.degree[id] = Cardinality(Into(G, id, relaxed))
    BY DEF Kahn, N
  <2>2. degree[node] = Cardinality(Into(G, node, more))
    BY <1>1, <1>2, <1>4, <1>10, <2>1
  <2>3. \A id \in N : id # node => degree[id] = s.degree[id]
    BY <1>2, <1>4
  <2>4. QED  BY <1>9, <2>1, <2>2, <2>3
<1>12. node \notin Elements(s.order) \cup Elements(s.queue)
  <2>1. s.degree[node] # 0
    BY <1>1, <1>8, IntoFinite DEF Kahn
  <2>2. QED  BY <1>1, <2>1 DEF Kahn
<1>13. /\ Distinct(queue) /\ Elements(queue) = Elements(s.queue) \cup (IF d = 0 THEN {node} ELSE {})
  <2> HIDE DEF N, d
  <2>1. CASE d = 0
    <3>1. PICK q : q = s.queue
      OBVIOUS
    <3>2. q \in Seq(N) /\ queue = Append(q, node) /\ Distinct(q) /\ node \notin Elements(q)
      BY <1>2, <1>3, <1>12, <2>1, <3>1 DEF Kahn
    <3>3. Elements(queue) = Elements(q) \cup {node} /\ Distinct(queue)
      <4>1. Appended(N, q, node, queue)
        BY <1>1, <3>2, AppendElements
      <4>2. QED  BY <3>2, <4>1 DEF Appended
    <3>4. QED  BY <2>1, <3>1, <3>3
  <2>2. CASE d # 0
    BY <1>3, <2>2 DEF Kahn
  <2>3. QED  BY <2>1, <2>2
<1>14. \A id \in N : degree[id] = 0 <=> id \in Elements(s.order) \cup Elements(queue)
  <2>1. degree[node] = d /\ \A id \in N : id # node => degree[id] = s.degree[id]
    BY <1>1, <1>2, <1>4
  <2>2. \A id \in N : s.degree[id] = 0 <=> id \in Elements(s.order) \cup Elements(s.queue)
    BY DEF Kahn
  <2> HIDE DEF N, d
  <2>3. QED  BY <1>12, <1>13, <2>1, <2>2
<1>15. Elements(s.order) \cap Elements(queue) = {}
  BY <1>12, <1>13 DEF Kahn
<1>16. more \subseteq 1..Len(G.edges)
  BY DEF Kahn
<1> HIDE DEF more
<1>17. Kahn(G, r, more)
  BY <1>7, <1>11, <1>13, <1>14, <1>15, <1>16 DEF Kahn
<1>18. QED  BY <1>7, <1>17 DEF more, TakenOff

(* The recursion of Visit and of TopologicalOrder. *)
Relaxes(f, next, begun, m) ==
  f = [k \in 0..m |-> IF k = 0 THEN begun ELSE Relax(f[k - 1], next[k])]

Runs(f, G, start, m) ==
  f = [k \in 0..m |-> IF k = 0 THEN start
                      ELSE IF f[k - 1].queue = <<>> THEN f[k - 1]
                      ELSE Visit(G, f[k - 1])]

LEMMA RelaxesExist ==
  ASSUME NEW next, NEW begun, NEW m \in Nat
  PROVE  \E f : Relaxes(f, next, begun, m)
<1> DEFINE Bad == {q \in Nat : ~ \E f : Relaxes(f, next, begun, q)}
<1>1. SUFFICES ASSUME Bad # {} PROVE FALSE
  OBVIOUS
<1>2. PICK q \in Bad : \A y \in Bad : q <= y
  <2>1. Bad \in SUBSET Nat
    OBVIOUS
  <2>2. QED  BY <1>1, <2>1, LeastElement
<1>3. q \in Nat /\ ~ \E f : Relaxes(f, next, begun, q)
  OBVIOUS
<1>4. q # 0
  <2> DEFINE f == [k \in 0..0 |-> begun]
  <2>1. \A k \in 0..0 : k = 0
    OBVIOUS
  <2>2. f = [k \in 0..0 |-> IF k = 0 THEN begun ELSE Relax(f[k - 1], next[k])]
    BY <2>1, Zenon
  <2>3. Relaxes(f, next, begun, 0)
    BY <2>2, Zenon DEF Relaxes
  <2>4. QED  BY <1>3, <2>3
<1>5. q - 1 \in Nat /\ ~ (q <= q - 1)
  BY <1>3, <1>4
<1>6. q - 1 \notin Bad
  <2> HIDE DEF Bad
  <2>1. QED  BY <1>2, <1>5
<1>7. PICK f : Relaxes(f, next, begun, q - 1)
  BY <1>5, <1>6
<1>8. \A k \in 0..(q - 1) : f[k] = IF k = 0 THEN begun ELSE Relax(f[k - 1], next[k])
  BY <1>7, Zenon DEF Relaxes
<1> DEFINE last == Relax(f[q - 1], next[q])
<1> DEFINE g == [k \in 0..q |-> IF k = q THEN last ELSE f[k]]
<1> HIDE DEF last, Bad
<1>9. g[q] = last /\ \A k \in 0..(q - 1) : g[k] = f[k] /\ k # q
  BY <1>3
<1>10. g = [k \in 0..q |-> g[k]]
  OBVIOUS
<1> HIDE DEF g
<1>11. ASSUME NEW k \in 0..q
       PROVE  g[k] = IF k = 0 THEN begun ELSE Relax(g[k - 1], next[k])
  <2>1. k \in 0..(q - 1) \/ k = q
    BY <1>3
  <2>2. CASE k = 0
    <3>1. k \in 0..(q - 1)
      BY <1>5, <2>2
    <3>2. QED  BY <1>8, <1>9, <2>2, <3>1
  <2>3. CASE k # 0 /\ k # q
    <3>1. k \in 0..(q - 1) /\ k - 1 \in 0..(q - 1)
      BY <1>3, <2>3
    <3>2. QED  BY <1>8, <1>9, <2>3, <3>1
  <2>4. CASE k # 0 /\ k = q
    <3>1. q - 1 \in 0..(q - 1)
      BY <1>5
    <3>2. QED  BY <1>9, <2>4, <3>1 DEF last
  <2>5. QED  BY <2>2, <2>3, <2>4
<1>12. Relaxes(g, next, begun, q)
  BY <1>10, <1>11 DEF Relaxes
<1>13. QED  BY <1>3, <1>12

LEMMA RunsExist ==
  ASSUME NEW G, NEW start, NEW m \in Nat
  PROVE  \E f : Runs(f, G, start, m)
<1> DEFINE Bad == {q \in Nat : ~ \E f : Runs(f, G, start, q)}
<1>1. SUFFICES ASSUME Bad # {} PROVE FALSE
  OBVIOUS
<1>2. PICK q \in Bad : \A y \in Bad : q <= y
  <2>1. Bad \in SUBSET Nat
    OBVIOUS
  <2>2. QED  BY <1>1, <2>1, LeastElement
<1>3. q \in Nat /\ ~ \E f : Runs(f, G, start, q)
  OBVIOUS
<1>4. q # 0
  <2> DEFINE f == [k \in 0..0 |-> start]
  <2>1. \A k \in 0..0 : k = 0
    OBVIOUS
  <2>2. f = [k \in 0..0 |-> IF k = 0 THEN start
                            ELSE IF f[k - 1].queue = <<>> THEN f[k - 1]
                            ELSE Visit(G, f[k - 1])]
    BY <2>1, Zenon
  <2>3. Runs(f, G, start, 0)
    BY <2>2, Zenon DEF Runs
  <2>4. QED  BY <1>3, <2>3
<1>5. q - 1 \in Nat /\ ~ (q <= q - 1)
  BY <1>3, <1>4
<1>6. q - 1 \notin Bad
  <2> HIDE DEF Bad
  <2>1. QED  BY <1>2, <1>5
<1>7. PICK f : Runs(f, G, start, q - 1)
  BY <1>5, <1>6
<1> DEFINE After(s) == IF s.queue = <<>> THEN s ELSE Visit(G, s)
<1>8. \A k \in 0..(q - 1) : f[k] = IF k = 0 THEN start ELSE After(f[k - 1])
  BY <1>7, Zenon DEF Runs
<1> DEFINE last == After(f[q - 1])
<1> DEFINE g == [k \in 0..q |-> IF k = q THEN last ELSE f[k]]
<1> HIDE DEF last, Bad
<1>9. g[q] = last /\ \A k \in 0..(q - 1) : g[k] = f[k] /\ k # q
  BY <1>3
<1>10. g = [k \in 0..q |-> g[k]]
  OBVIOUS
<1> HIDE DEF g
<1>11. ASSUME NEW k \in 0..q
       PROVE  g[k] = IF k = 0 THEN start ELSE After(g[k - 1])
  <2>1. k \in 0..(q - 1) \/ k = q
    BY <1>3
  <2>2. CASE k = 0
    <3>1. k \in 0..(q - 1)
      BY <1>5, <2>2
    <3>2. QED  BY <1>8, <1>9, <2>2, <3>1
  <2>3. CASE k # 0 /\ k # q
    <3>1. k \in 0..(q - 1) /\ k - 1 \in 0..(q - 1)
      BY <1>3, <2>3
    <3> HIDE DEF After
    <3>2. QED  BY <1>8, <1>9, <2>3, <3>1
  <2>4. CASE k # 0 /\ k = q
    <3>1. q - 1 \in 0..(q - 1)
      BY <1>5
    <3>2. QED  BY <1>9, <2>4, <3>1 DEF last
  <2>5. QED  BY <2>2, <2>3, <2>4
<1>12. Runs(g, G, start, q)
  BY <1>10, <1>11 DEF Runs
<1>13. QED  BY <1>3, <1>12

RelaxedBy(next, begun, m) == CHOOSE f : Relaxes(f, next, begun, m)
RunOf(G, start, m) == CHOOSE f : Runs(f, G, start, m)

Begun(s) == [s EXCEPT !.order = Append(@, Head(s.queue)), !.queue = Tail(@)]

StartOf(G) ==
  LET degree == [id \in NodeIds(G) |->
                   Len(Keep(G.edges, {e \in Range(G.edges) : e.to = id}))]
  IN  [order  |-> <<>>,
       queue  |-> Keep([id \in 1..Len(G.nodes) |-> id],
                       {id \in 1..Len(G.nodes) : degree[id] = 0}),
       degree |-> degree]

(* Visit and TopologicalOrder are values of the two recursions. *)
LEMMA VisitIs ==
  ASSUME NEW G, NEW s
  PROVE  LET next == Adjacency(G, Head(s.queue))
         IN  Visit(G, s) = RelaxedBy(next, Begun(s), Len(next))[Len(next)]
BY Zenon DEF Visit, Relaxes, RelaxedBy, Begun

LEMMA OrderIs ==
  ASSUME NEW G
  PROVE  LET n == Len(G.nodes)
             run == RunOf(G, StartOf(G), n)
         IN  TopologicalOrder(G) = IF Len(run[n].order) = n THEN run[n].order ELSE <<>>
BY Zenon DEF TopologicalOrder, RunOf, Runs, StartOf

(* One step of each recursion. *)
LEMMA RelaxedAt ==
  ASSUME NEW next, NEW begun, NEW m \in Nat, NEW f, f = RelaxedBy(next, begun, m)
  PROVE  f[0] = begun /\ \A k \in 1..m : f[k] = Relax(f[k - 1], next[k])
<1>1. Relaxes(f, next, begun, m)
  BY RelaxesExist DEF RelaxedBy
<1>2. \A k \in 0..m : f[k] = IF k = 0 THEN begun ELSE Relax(f[k - 1], next[k])
  BY <1>1, Zenon DEF Relaxes
<1>3. 0 \in 0..m /\ \A k \in 1..m : k \in 0..m /\ k # 0
  OBVIOUS
<1>4. QED  BY <1>2, <1>3

LEMMA RunAt ==
  ASSUME NEW G, NEW start, NEW m \in Nat, NEW f, f = RunOf(G, start, m)
  PROVE  /\ f[0] = start
         /\ \A k \in 1..m : f[k] = IF f[k - 1].queue = <<>> THEN f[k - 1] ELSE Visit(G, f[k - 1])
<1>1. Runs(f, G, start, m)
  BY RunsExist DEF RunOf
<1>2. \A k \in 0..m : f[k] = IF k = 0 THEN start
                             ELSE IF f[k - 1].queue = <<>> THEN f[k - 1]
                             ELSE Visit(G, f[k - 1])
  BY <1>1, Zenon DEF Runs
<1>3. 0 \in 0..m /\ \A k \in 1..m : k \in 0..m /\ k # 0
  OBVIOUS
<1>4. QED  BY <1>2, <1>3

(* The edges that leave the nodes of done. *)
From(G, done) == {k \in 1..Len(G.edges) : G.edges[k].from \in done}

(* The algorithm starts with the nodes nothing leads to. *)
LEMMA StartKahn ==
  ASSUME NEW G, IsGraph(G), NEW s, s = StartOf(G)
  PROVE  Kahn(G, s, {}) /\ s.order = <<>>
<1> DEFINE n == Len(G.nodes)
<1> DEFINE N == NodeIds(G)
<1> DEFINE In(id) == {e \in Range(G.edges) : e.to = id}
<1>1. PICK degree : degree = [id \in N |-> Len(Keep(G.edges, In(id)))]
  OBVIOUS
<1> DEFINE Z == {id \in 1..n : degree[id] = 0}
<1>2. PICK ids : ids = [id \in 1..n |-> id]
  OBVIOUS
<1>3. PICK queue : queue = Keep(ids, Z)
  OBVIOUS
<1>4. s = [order |-> <<>>, queue |-> queue, degree |-> degree]
  BY <1>1, <1>2, <1>3, Zenon DEF StartOf
<1>5. n \in Nat /\ N = 1..n /\ G.edges \in Seq(Range(G.edges))
  BY DEF IsGraph, NodeIds
<1>6. ASSUME NEW id \in N
      PROVE  degree[id] = Cardinality(Into(G, id, {}))
  <2> DEFINE M == {k \in 1..Len(G.edges) : G.edges[k] \in In(id)}
  <2>1. Len(Keep(G.edges, In(id))) = Cardinality(M)
    BY <1>5, KeepLen
  <2>2. \A k \in 1..Len(G.edges) : G.edges[k] \in Range(G.edges)
    BY <1>5
  <2>3. M = Into(G, id, {})
    BY <2>2 DEF Into
  <2>4. degree[id] = Len(Keep(G.edges, In(id)))
    BY <1>1, <1>6, Zenon
  <2>5. QED  BY <2>1, <2>3, <2>4, Zenon
<1>7. degree \in [N -> Int]
  <2>1. \A id \in N : degree[id] \in Int
    <3>1. TAKE id \in N
    <3>2. Cardinality(Into(G, id, {})) \in Nat
      BY IntoFinite
    <3>3. QED  BY <1>6, <3>2
  <2>2. degree = [id \in N |-> degree[id]]
    BY <1>1, Zenon
  <2> HIDE DEF N
  <2>3. QED  BY <2>1, <2>2
<1> HIDE DEF N, n
<1>8. /\ ids \in Seq(N) /\ Len(ids) = n /\ \A k \in 1..Len(ids) : ids[k] = k
      /\ \A i, k \in 1..Len(ids) : ids[i] = ids[k] => i = k
  BY <1>2, <1>5
<1> HIDE DEF Z
<1>9. queue \in Seq(N)
  <2>1. queue \in Seq(N \cap Z)
    BY <1>3, <1>8, KeepTyped
  <2>2. QED  BY <2>1
<1>10. Distinct(queue)
  <2>1. \A i, k \in 1..Len(Keep(ids, Z)) : Keep(ids, Z)[i] = Keep(ids, Z)[k] => i = k
    BY <1>8, KeepDistinct
  <2>2. QED  BY <1>3, <2>1 DEF Distinct
<1>11. Elements(queue) = Z
  <2>1. PICK g : PlacesOf(g, queue, ids, Z, Len(ids))
    <3>1. \E g : PlacesOf(g, Keep(ids, Z), ids, Z, Len(ids))
      BY <1>8, KeepPlaces
    <3>2. QED  BY <1>3, <3>1
  <2>2. \A i \in 1..Len(queue) : queue[i] \in Z
    BY <2>1 DEF PlacesOf
  <2>3. \A z \in Z : \E i \in 1..Len(queue) : queue[i] = z
    <3>1. TAKE z \in Z
    <3>2. z \in 1..Len(ids) /\ ids[z] = z
      BY <1>8 DEF Z
    <3>3. PICK i \in 1..Len(queue) : g[i] = z
      BY <2>1, <3>2 DEF PlacesOf
    <3>4. queue[i] = z
      BY <2>1, <3>2, <3>3 DEF PlacesOf
    <3>5. QED  BY <3>4
  <2>4. QED  BY <2>2, <2>3 DEF Elements
<1>12. Elements(<<>>) = {} /\ Distinct(<<>>) /\ <<>> \in Seq(N)
  BY DEF Elements, Distinct
<1>13. s \in KahnStates(G)
  BY <1>4, <1>7, <1>9, <1>12 DEF KahnStates, N
<1>14. \A id \in N : degree[id] = 0 <=> id \in Z
  BY <1>5 DEF Z
<1>15. s.order = <<>> /\ s.queue = queue /\ s.degree = degree
  BY <1>4
<1>16. Kahn(G, s, {})
  BY <1>6, <1>10, <1>11, <1>12, <1>13, <1>14, <1>15 DEF Kahn, N
<1>17. QED  BY <1>15, <1>16

(* Taking the first node off the queue. *)
LEMMA BegunKeeps ==
  ASSUME NEW G, NEW s, NEW relaxed, Kahn(G, s, relaxed), s.queue # <<>>,
         NEW b, b = Begun(s), NEW node, node = Head(s.queue)
  PROVE  /\ Kahn(G, b, relaxed)
         /\ node \in NodeIds(G)
         /\ node \in Elements(s.queue)
         /\ Appended(NodeIds(G), s.order, node, b.order)
<1> DEFINE N == NodeIds(G)
<1>1. s \in KahnStates(G) /\ s.order \in Seq(N) /\ s.queue \in Seq(N) /\ s.degree \in [N -> Int]
  BY DEF Kahn, KahnStates
<1>2. PICK order : order = Append(s.order, node)
  OBVIOUS
<1>3. PICK queue : queue = Tail(s.queue)
  OBVIOUS
<1>4. PICK q : q = s.queue
  OBVIOUS
<1>5. q \in Seq(N) /\ q # <<>> /\ Distinct(q) /\ queue = Tail(q) /\ node = Head(q)
  BY <1>1, <1>3, <1>4 DEF Kahn
<1> HIDE DEF N
<1>6. /\ queue \in Seq(N) /\ node \in N /\ Distinct(queue)
      /\ Elements(q) = Elements(queue) \cup {node} /\ node \notin Elements(queue)
  <2>1. PICK t : t = queue
    OBVIOUS
  <2>2. /\ t \in Seq(N) /\ Head(q) \in N /\ Distinct(t)
        /\ Elements(q) = Elements(t) \cup {Head(q)} /\ Head(q) \notin Elements(t)
    BY <1>5, <2>1, TailElements
  <2>3. QED  BY <1>5, <2>1, <2>2
<1>7. Appended(N, s.order, node, order)
  BY <1>1, <1>2, <1>6, AppendElements
<1>8. b = [order |-> order, queue |-> queue, degree |-> s.degree]
  BY <1>1, <1>2, <1>3 DEF Begun, KahnStates
<1>9. b \in KahnStates(G) /\ b.order = order /\ b.queue = queue /\ b.degree = s.degree
  BY <1>1, <1>6, <1>7, <1>8 DEF KahnStates, Appended, N
<1>10. node \notin Elements(s.order)
  BY <1>4, <1>6 DEF Kahn
<1>11. Elements(order) = Elements(s.order) \cup {node} /\ Distinct(order)
  BY <1>7, <1>10 DEF Appended, Kahn
<1>12. Elements(order) \cup Elements(queue) = Elements(s.order) \cup Elements(s.queue)
  BY <1>4, <1>6, <1>11
<1>13. Elements(order) \cap Elements(queue) = {}
  BY <1>4, <1>6, <1>11 DEF Kahn
<1>14. Kahn(G, b, relaxed)
  BY <1>6, <1>9, <1>11, <1>12, <1>13 DEF Kahn
<1>15. node \in Elements(s.queue)
  BY <1>4, <1>6
<1>16. QED  BY <1>6, <1>7, <1>9, <1>14, <1>15 DEF N

(* Every edge into a node of the order comes from a node before it. *)
Forward(G, order) ==
  \A i \in 1..Len(order), k \in 1..Len(G.edges) :
    G.edges[k].to = order[i] =>
      \E j \in 1..(i - 1) : order[j] = G.edges[k].from

KahnInv(G, s) ==
  /\ Kahn(G, s, From(G, Elements(s.order)))
  /\ Forward(G, s.order)

(* g tells of every element of next which edge out of the node it is for. *)
EdgesOf(g, G, node, next) ==
  /\ \A j \in 1..Len(next) :
       /\ g[j] \in 1..Len(G.edges)
       /\ G.edges[g[j]].from = node
       /\ G.edges[g[j]].to = next[j]
  /\ \A i, j \in 1..Len(next) : g[i] = g[j] => i = j
  /\ \A k \in From(G, {node}) : \E j \in 1..Len(next) : g[j] = k

(* The neighbours of a node are the ends of the edges out of it. *)
LEMMA AdjacencyPlaces ==
  ASSUME NEW G, IsGraph(G), NEW node, NEW next, next = Adjacency(G, node)
  PROVE  Len(next) \in Nat /\ \E g : EdgesOf(g, G, node, next)
<1> DEFINE E == Range(G.edges)
<1> DEFINE S == {e \in E : e.from = node}
<1>1. PICK edges : edges = G.edges
  OBVIOUS
<1>2. edges \in Seq(E) /\ Len(edges) \in Nat /\ \A k \in 1..Len(edges) : edges[k] \in E
  <2>1. edges \in Seq(E)
    BY <1>1 DEF IsGraph
  <2> HIDE DEF E
  <2>2. QED  BY <2>1
<1>3. PICK out : out = Keep(edges, S)
  OBVIOUS
<1>4. next = [k \in DOMAIN out |-> out[k].to]
  BY <1>1, <1>3, Zenon DEF Adjacency
<1>5. \A e \in E : e \in S <=> e.from = node
  OBVIOUS
<1> HIDE DEF E, S
<1>6. out \in Seq(E \cap S)
  BY <1>2, <1>3, KeepTyped
<1>7. Len(out) \in Nat /\ DOMAIN out = 1..Len(out)
  BY <1>6
<1>8. Len(next) = Len(out) /\ \A j \in 1..Len(next) : next[j] = out[j].to
  BY <1>4, <1>7
<1>9. PICK g : PlacesOf(g, out, edges, S, Len(edges))
  <2>1. \E g : PlacesOf(g, Keep(edges, S), edges, S, Len(edges))
    BY <1>2, KeepPlaces
  <2>2. QED  BY <1>3, <2>1
<1>10. ASSUME NEW j \in 1..Len(next)
       PROVE  /\ g[j] \in 1..Len(edges)
              /\ edges[g[j]].from = node
              /\ edges[g[j]].to = next[j]
  <2>1. g[j] \in 1..Len(edges) /\ out[j] = edges[g[j]] /\ edges[g[j]] \in S
    BY <1>8, <1>9 DEF PlacesOf
  <2>2. QED  BY <1>2, <1>5, <1>8, <2>1
<1>11. \A i, j \in 1..Len(next) : g[i] = g[j] => i = j
  BY <1>8, <1>9 DEF PlacesOf
<1>12. ASSUME NEW k \in From(G, {node})
       PROVE  \E j \in 1..Len(next) : g[j] = k
  <2>1. k \in 1..Len(edges) /\ edges[k] \in S
    BY <1>1, <1>2, <1>5 DEF From
  <2>2. QED  BY <1>8, <1>9, <2>1 DEF PlacesOf
<1>13. EdgesOf(g, G, node, next)
  BY <1>1, <1>10, <1>11, <1>12 DEF EdgesOf
<1>14. QED  BY <1>7, <1>8, <1>13

(* A visit puts one node in order and takes the edges out of it off. *)
LEMMA VisitKeeps ==
  ASSUME NEW G, IsGraph(G), NEW s, KahnInv(G, s), s.queue # <<>>,
         NEW v, v = Visit(G, s)
  PROVE  KahnInv(G, v) /\ Len(s.order) \in Nat /\ Len(v.order) = Len(s.order) + 1
<1>1. PICK node : node = Head(s.queue)
  OBVIOUS
<1>2. PICK b : b = Begun(s)
  OBVIOUS
<1>3. PICK old : old = From(G, Elements(s.order))
  OBVIOUS
<1>4. /\ Kahn(G, b, old) /\ node \in NodeIds(G) /\ node \in Elements(s.queue)
      /\ Appended(NodeIds(G), s.order, node, b.order)
  <2>1. Kahn(G, s, old)
    BY <1>3 DEF KahnInv
  <2>2. QED  BY <1>1, <1>2, <2>1, BegunKeeps
<1>5. PICK next : next = Adjacency(G, node)
  OBVIOUS
<1>6. Len(next) \in Nat
  BY <1>5, AdjacencyPlaces
<1>7. PICK g : EdgesOf(g, G, node, next)
  BY <1>5, AdjacencyPlaces
<1>8. PICK f : f = RelaxedBy(next, b, Len(next))
  OBVIOUS
<1>9. f[0] = b /\ \A k \in 1..Len(next) : f[k] = Relax(f[k - 1], next[k])
  BY <1>6, <1>8, RelaxedAt
<1>10. v = f[Len(next)]
  BY <1>1, <1>2, <1>5, <1>8, VisitIs, Zenon
<1>11. node \notin Elements(s.order)
  BY <1>3, <1>4 DEF KahnInv, Kahn
<1> DEFINE Off(j) == old \cup {g[i] : i \in 1..j}
<1>12. ASSUME NEW j \in 1..Len(next)
       PROVE  /\ g[j] \in (1..Len(G.edges)) \ Off(j - 1)
              /\ Off(j) = Off(j - 1) \cup {g[j]}
  <2>1. g[j] \notin old
    BY <1>3, <1>7, <1>11 DEF From, EdgesOf
  <2>2. \A i \in 1..(j - 1) : i \in 1..Len(next) /\ i # j
    BY <1>6
  <2>3. \A i \in 1..j : i \in 1..(j - 1) \/ i = j
    BY <1>6
  <2>4. (\A i \in 1..(j - 1) : i \in 1..j) /\ j \in 1..j
    BY <1>6
  <2>5. g[j] \in 1..Len(G.edges) /\ \A i \in 1..(j - 1) : g[i] # g[j]
    BY <1>7, <2>2 DEF EdgesOf
  <2>6. g[j] \notin Off(j - 1)
    BY <2>1, <2>5
  <2>7. Off(j) = Off(j - 1) \cup {g[j]}
    BY <2>3, <2>4
  <2>8. QED  BY <2>5, <2>6, <2>7
<1>13. Off(0) = old
  OBVIOUS
<1> DEFINE Good(j) == Kahn(G, f[j], Off(j)) /\ f[j].order = b.order
<1> HIDE DEF Off
<1>14. Good(Len(next))
  <2> DEFINE Bad == {j \in 0..Len(next) : ~Good(j)}
  <2>1. SUFFICES ASSUME Bad # {} PROVE FALSE
    <3>1. Len(next) \in 0..Len(next)
      BY <1>6
    <3>2. QED  BY <3>1
  <2>2. PICK j \in Bad : \A y \in Bad : j <= y
    <3>1. Bad \in SUBSET Nat
      BY <1>6
    <3>2. QED  BY <2>1, <3>1, LeastElement
  <2>3. j \in 0..Len(next) /\ ~Good(j)
    OBVIOUS
  <2>4. j # 0
    BY <1>4, <1>9, <1>13, <2>3
  <2>5. j - 1 \in 0..Len(next) /\ ~(j <= j - 1) /\ j \in 1..Len(next)
    BY <1>6, <2>3, <2>4
  <2>6. Good(j - 1)
    <3>1. j - 1 \notin Bad
      <4> HIDE DEF Bad
      <4>1. QED  BY <2>2, <2>5
    <3>2. QED  BY <2>5, <3>1
  <2>7. PICK p : p = f[j - 1]
    OBVIOUS
  <2>8. PICK k : k = g[j]
    OBVIOUS
  <2>9. f[j] = Relax(p, G.edges[k].to)
    BY <1>7, <1>9, <2>5, <2>7, <2>8 DEF EdgesOf
  <2>10. k \in (1..Len(G.edges)) \ Off(j - 1) /\ Off(j) = Off(j - 1) \cup {k}
    BY <1>12, <2>5, <2>8
  <2>11. Kahn(G, p, Off(j - 1)) /\ p.order = b.order
    BY <2>6, <2>7
  <2>12. PICK r : r = f[j]
    OBVIOUS
  <2>13. PICK off : off = Off(j - 1)
    OBVIOUS
  <2>14. Kahn(G, r, off \cup {k}) /\ r.order = p.order
    <3>1. PICK to : to = G.edges[k].to
      OBVIOUS
    <3>2. Kahn(G, p, off) /\ k \in 1..Len(G.edges) /\ k \notin off /\ r = Relax(p, to)
      BY <2>9, <2>10, <2>11, <2>12, <2>13, <3>1
    <3>3. TakenOff(G, p, r, off, k)
      BY <3>1, <3>2, RelaxKeeps
    <3>4. QED  BY <3>3 DEF TakenOff
  <2>15. Good(j)
    BY <2>10, <2>11, <2>12, <2>13, <2>14
  <2>16. QED  BY <2>3, <2>15
<1>15. Elements(v.order) = Elements(s.order) \cup {node}
  BY <1>4, <1>10, <1>14 DEF Appended
<1>16. Off(Len(next)) = From(G, Elements(v.order))
  <2>1. \A k \in From(G, {node}) : \E j \in 1..Len(next) : g[j] = k
    BY <1>7 DEF EdgesOf
  <2>2. \A j \in 1..Len(next) : g[j] \in From(G, {node})
    BY <1>7 DEF From, EdgesOf
  <2>3. {g[i] : i \in 1..Len(next)} = From(G, {node})
    BY <2>1, <2>2
  <2>4. From(G, Elements(v.order)) = old \cup From(G, {node})
    BY <1>3, <1>15 DEF From
  <2>5. QED  BY <2>3, <2>4 DEF Off
<1>17. Kahn(G, v, From(G, Elements(v.order))) /\ v.order = b.order
  BY <1>10, <1>14, <1>16
<1>18. /\ Len(s.order) \in Nat /\ Len(v.order) = Len(s.order) + 1
       /\ v.order[Len(v.order)] = node
       /\ \A i \in 1..Len(s.order) : v.order[i] = s.order[i]
  BY <1>4, <1>17 DEF Appended
<1>19. \A k \in 1..Len(G.edges) : G.edges[k].to = node => k \in old
  <2>1. Kahn(G, s, old)
    BY <1>3 DEF KahnInv
  <2>2. Cardinality(Into(G, node, old)) = 0
    BY <1>4, <2>1 DEF Kahn
  <2>3. Into(G, node, old) = {}
    BY <2>2, IntoFinite
  <2>4. QED  BY <2>3 DEF Into
<1>20. Forward(G, v.order)
  <2>1. SUFFICES ASSUME NEW i \in 1..Len(v.order), NEW k \in 1..Len(G.edges),
                        G.edges[k].to = v.order[i]
                 PROVE  \E j \in 1..(i - 1) : v.order[j] = G.edges[k].from
    BY DEF Forward
  <2>2. CASE i = Len(v.order)
    <3>1. k \in old
      BY <1>18, <1>19, <2>1, <2>2
    <3>2. PICK j \in 1..Len(s.order) : s.order[j] = G.edges[k].from
      BY <1>3, <3>1 DEF From, Elements
    <3>3. j \in 1..(i - 1)
      BY <1>18, <2>2
    <3>4. QED  BY <1>18, <3>2, <3>3
  <2>3. CASE i # Len(v.order)
    <3>1. i \in 1..Len(s.order) /\ G.edges[k].to = s.order[i]
      BY <1>18, <2>1, <2>3
    <3>2. PICK j \in 1..(i - 1) : s.order[j] = G.edges[k].from
      BY <3>1 DEF KahnInv, Forward
    <3>3. j \in 1..Len(s.order)
      BY <1>18, <3>1
    <3>4. QED  BY <1>18, <3>2, <3>3
  <2>4. QED  BY <2>2, <2>3
<1>21. QED  BY <1>17, <1>18, <1>20 DEF KahnInv

(* After m visits m nodes are in order, unless none is left to visit. *)
LEMMA RunKeeps ==
  ASSUME NEW G, IsGraph(G), NEW n \in Nat, NEW f, f = RunOf(G, StartOf(G), n)
  PROVE  /\ KahnInv(G, f[n])
         /\ Len(f[n].order) = n \/ f[n].queue = <<>>
<1> DEFINE Good(m) == KahnInv(G, f[m]) /\ (Len(f[m].order) = m \/ f[m].queue = <<>>)
<1>1. PICK start : start = StartOf(G)
  OBVIOUS
<1>2. f[0] = start /\ \A m \in 1..n : f[m] = IF f[m - 1].queue = <<>> THEN f[m - 1]
                                              ELSE Visit(G, f[m - 1])
  BY <1>1, RunAt
<1>3. Good(0)
  <2>1. Kahn(G, start, {}) /\ start.order = <<>>
    BY <1>1, StartKahn
  <2>2. Elements(<<>>) = {} /\ Len(<<>>) = 0
    BY DEF Elements
  <2>3. From(G, {}) = {} /\ Forward(G, <<>>)
    BY DEF From, Forward
  <2>4. KahnInv(G, start)
    BY <2>1, <2>2, <2>3 DEF KahnInv
  <2>5. QED  BY <1>2, <2>1, <2>2, <2>4
<1> DEFINE Bad == {m \in 0..n : ~Good(m)}
<1>4. SUFFICES ASSUME Bad # {} PROVE FALSE
  OBVIOUS
<1>5. PICK m \in Bad : \A y \in Bad : m <= y
  <2>1. Bad \in SUBSET Nat
    OBVIOUS
  <2>2. QED  BY <1>4, <2>1, LeastElement
<1>6. m \in 0..n /\ ~Good(m)
  OBVIOUS
<1>7. m - 1 \in 0..n /\ ~(m <= m - 1) /\ m \in 1..n
  BY <1>3, <1>6
<1>8. Good(m - 1)
  <2>1. m - 1 \notin Bad
    <3> HIDE DEF Bad
    <3>1. QED  BY <1>5, <1>7
  <2>2. QED  BY <1>7, <2>1
<1>9. PICK p : p = f[m - 1]
  OBVIOUS
<1>10. PICK s : s = f[m]
  OBVIOUS
<1>11. s = IF p.queue = <<>> THEN p ELSE Visit(G, p)
  BY <1>2, <1>7, <1>9, <1>10
<1>12. CASE p.queue = <<>>
  <2>1. s = p
    BY <1>11, <1>12
  <2>2. Good(m)
    BY <1>8, <1>9, <1>10, <1>12, <2>1
  <2>3. QED  BY <1>6, <2>2
<1>13. CASE p.queue # <<>>
  <2>1. s = Visit(G, p)
    BY <1>11, <1>13
  <2>2. KahnInv(G, p) /\ Len(p.order) = m - 1
    BY <1>8, <1>9, <1>13
  <2>3. KahnInv(G, s) /\ Len(s.order) = Len(p.order) + 1
    BY <1>13, <2>1, <2>2, VisitKeeps
  <2>4. Good(m)
    BY <1>7, <1>10, <2>2, <2>3
  <2>5. QED  BY <1>6, <2>4
<1>14. QED  BY <1>12, <1>13

(* A sequence of n of the numbers 1..n without repetition has all of them. *)
LEMMA DistinctFull ==
  ASSUME NEW n \in Nat, NEW q \in Seq(1..n), Distinct(q)
  PROVE  Elements(q) = 1..n <=> Len(q) = n
<1>1. PICK m : m = Len(q)
  OBVIOUS
<1>2. m \in Nat /\ q \in [1..m -> 1..n]
  BY <1>1
<1>3. /\ IsFiniteSet(1..m) /\ Cardinality(1..m) = m
      /\ IsFiniteSet(1..n) /\ Cardinality(1..n) = n
  <2>1. \A i \in Nat : IsFiniteSet(1..i) /\ Cardinality(1..i) = i
    <3>1. TAKE i \in Nat
    <3>2. i \in Int /\ 1 \in Int
      OBVIOUS
    <3>3. IsFiniteSet(1..i) /\ Cardinality(1..i) = IF 1 > i THEN 0 ELSE i - 1 + 1
      BY <3>2, FS_Interval
    <3>4. QED  BY <3>3
  <2>2. QED  BY <1>2, <2>1
<1>4. Elements(q) \subseteq 1..n
  BY DEF Elements
<1>5. q \in Bijection(1..m, Elements(q))
  BY <1>1, <1>2 DEF Elements, Distinct, Bijection, Injection, Surjection, IsInjective
<1>6. Cardinality(Elements(q)) = m /\ IsFiniteSet(Elements(q))
  <2>1. ExistsBijection(1..m, Elements(q))
    BY <1>5 DEF ExistsBijection
  <2>2. QED  BY <1>3, <2>1, FS_Bijection
<1>7. Elements(q) = 1..n => m = n
  BY <1>3, <1>6
<1>8. m = n => Elements(q) = 1..n
  BY <1>3, <1>4, <1>6, FS_Subset
<1>9. QED  BY <1>1, <1>7, <1>8

(* What the algorithm returns is every node once with every edge pointing  *)
(* forward, or nothing exactly for a graph with a cycle.                   *)
THEOREM KahnCorrect ==
  ASSUME NEW G, IsGraph(G)
  PROVE  /\ TopologicalOrder(G) \in Seq(NodeIds(G))
         /\ IF Cyclic(G) THEN TopologicalOrder(G) = <<>>
            ELSE IsTopological(G, TopologicalOrder(G))
<1> DEFINE N == NodeIds(G)
<1>1. PICK n : n = Len(G.nodes)
  OBVIOUS
<1>2. n \in Nat /\ N = 1..n /\ DOMAIN G.edges = 1..Len(G.edges)
  BY <1>1 DEF IsGraph, NodeIds
<1>3. PICK f : f = RunOf(G, StartOf(G), n)
  OBVIOUS
<1>4. PICK s : s = f[n]
  OBVIOUS
<1>5. KahnInv(G, s) /\ (Len(s.order) = n \/ s.queue = <<>>)
  BY <1>2, <1>3, <1>4, RunKeeps
<1>6. TopologicalOrder(G) = IF Len(s.order) = n THEN s.order ELSE <<>>
  BY <1>1, <1>3, <1>4, OrderIs, Zenon
<1>7. PICK order : order = s.order
  OBVIOUS
<1>8. order \in Seq(N) /\ Distinct(order) /\ Forward(G, order)
  BY <1>5, <1>7 DEF KahnInv, Kahn, KahnStates
<1>9. Len(order) \in Nat /\ DOMAIN order = 1..Len(order) /\ Elements(order) \subseteq N
  BY <1>8 DEF Elements
<1>10. Elements(order) = N <=> Len(order) = n
  BY <1>2, <1>8, DistinctFull
<1>11. TopologicalOrder(G) \in Seq(NodeIds(G))
  <2>1. <<>> \in Seq(N)
    OBVIOUS
  <2>2. QED  BY <1>6, <1>7, <1>8, <2>1
<1>12. CASE Len(order) = n
  <2>1. ~Cyclic(G)
    <3>1. SUFFICES ASSUME Cyclic(G) PROVE FALSE
      OBVIOUS
    <3>2. PICK S \in SUBSET N : S # {} /\ \A id \in S : \E k \in 1..Len(G.edges) :
                                   G.edges[k].to = id /\ G.edges[k].from \in S
      BY <1>2, <3>1 DEF Cyclic
    <3> DEFINE At == {i \in 1..Len(order) : order[i] \in S}
    <3>3. At # {}
      BY <1>10, <1>12, <3>2 DEF Elements
    <3>4. PICK i \in At : \A y \in At : i <= y
      <4>1. At \in SUBSET Nat
        BY <1>9
      <4>2. QED  BY <3>3, <4>1, LeastElement
    <3>5. PICK k \in 1..Len(G.edges) :
            G.edges[k].to = order[i] /\ G.edges[k].from \in S
      BY <3>2
    <3>6. PICK j \in 1..(i - 1) : order[j] = G.edges[k].from
      BY <1>8, <3>5 DEF Forward
    <3>7. j \in At /\ ~(i <= j)
      BY <1>9, <3>5, <3>6
    <3> HIDE DEF At
    <3>8. QED  BY <3>4, <3>7
  <2>2. Range(order) = N
    <3>1. Range(order) = Elements(order)
      BY <1>9 DEF Range, Elements
    <3>2. QED  BY <1>10, <1>12, <3>1
  <2>3. ASSUME NEW k \in DOMAIN G.edges
        PROVE  \E i, j \in DOMAIN order :
                 i < j /\ order[i] = G.edges[k].from /\ order[j] = G.edges[k].to
    <3>1. k \in 1..Len(G.edges) /\ G.edges[k].to \in N
      BY <1>2 DEF IsGraph
    <3>2. PICK j \in 1..Len(order) : order[j] = G.edges[k].to
      BY <1>10, <1>12, <3>1 DEF Elements
    <3>3. PICK i \in 1..(j - 1) : order[i] = G.edges[k].from
      BY <1>8, <3>1, <3>2 DEF Forward
    <3>4. i \in DOMAIN order /\ j \in DOMAIN order /\ i < j
      BY <1>9
    <3>5. QED  BY <3>2, <3>3, <3>4
  <2>4. IsTopological(G, order)
    BY <1>1, <1>12, <2>2, <2>3 DEF IsTopological
  <2>5. TopologicalOrder(G) = order
    BY <1>6, <1>7, <1>12
  <2>6. QED  BY <1>11, <2>1, <2>4, <2>5
<1>13. CASE Len(order) # n
  <2> DEFINE S == N \ Elements(order)
  <2>1. S # {} /\ S \in SUBSET N
    BY <1>9, <1>10, <1>13
  <2>2. ASSUME NEW id \in S
        PROVE  \E k \in DOMAIN G.edges : G.edges[k].to = id /\ G.edges[k].from \in S
    <3>1. PICK off : off = From(G, Elements(order))
      OBVIOUS
    <3>2. Kahn(G, s, off) /\ s.queue = <<>>
      BY <1>5, <1>7, <1>13, <3>1 DEF KahnInv
    <3>3. id \in N /\ id \notin Elements(order) /\ id \notin Elements(<<>>)
      BY DEF Elements
    <3>4. Cardinality(Into(G, id, off)) # 0
      BY <1>7, <3>2, <3>3 DEF Kahn
    <3>5. Into(G, id, off) # {}
      BY <3>4, IntoFinite
    <3>6. PICK k \in 1..Len(G.edges) : k \notin off /\ G.edges[k].to = id
      BY <3>5 DEF Into
    <3>7. G.edges[k].from \in S
      BY <3>1, <3>6 DEF From, IsGraph
    <3>8. QED  BY <1>2, <3>6, <3>7
  <2> HIDE DEF S
  <2>3. Cyclic(G)
    BY <2>1, <2>2 DEF Cyclic
  <2>4. TopologicalOrder(G) = <<>>
    BY <1>6, <1>7, <1>13
  <2>5. QED  BY <1>11, <2>3, <2>4
<1>14. QED  BY <1>12, <1>13

-----------------------------------------------------------------------------
(* The graph under construction and its plan (StreamPlan). *)

AllStrategies == {"forward", "hash", "broadcast", "rebalance"}

WellFormed(G) ==
  /\ G = [nodes |-> G.nodes, edges |-> G.edges]
  /\ IsGraph(G)
  /\ \A id \in NodeIds(G) : G.nodes[id].parallelism \in Nat
  /\ \A k \in DOMAIN G.edges : G.edges[k].strategy \in AllStrategies

PlanMade(p, G) ==
  \/ p = NoPlan
  \/ \E offers \in SlotOffers, strategy \in {"spread", "pack"} :
       p = [offers |-> offers, strategy |-> strategy, result |-> Schedule(G, offers, strategy)]

TaskTyped(t, ids, n) == t.node \in {0} \cup ids /\ t.reads \cup t.writes \subseteq 1..n

TasksTyped(ts, ids, n) == \A t \in ts : TaskTyped(t, ids, n)

(* The inductive invariant: the graph is one of its own nodes, the stream   *)
(* and the tasks are of nodes and channels there are, and the plan is of    *)
(* the graph as it is.                                                       *)
PlanInv ==
  /\ builder \in {"api", "graph"}
  /\ WellFormed(graph)
  /\ channels \in Nat
  /\ stream.upstream \in 0..channels
  /\ stream = NoStream \/ stream.node \in NodeIds(graph)
  /\ TasksTyped(tasks, NodeIds(graph), channels)
  /\ PlanMade(plan, graph)

(* One element more at the end. *)
Extended(q, x, a) ==
  /\ a \in Seq(Range(a)) /\ Len(q) \in Nat /\ Len(a) = Len(q) + 1
  /\ DOMAIN a = 1..Len(a) /\ DOMAIN q = 1..Len(q)
  /\ a[Len(q) + 1] = x /\ \A i \in 1..Len(q) : a[i] = q[i]

LEMMA ExtendSeq ==
  ASSUME NEW q, q \in Seq(Range(q)), NEW x, NEW a, a = Append(q, x)
  PROVE  Extended(q, x, a)
<1> DEFINE T == Range(q) \cup {x}
<1>1. q \in Seq(T) /\ x \in T
  <2>1. PICK R : R = Range(q)
    OBVIOUS
  <2>2. q \in Seq(R) /\ T = R \cup {x}
    BY <2>1
  <2> HIDE DEF T
  <2>3. QED  BY <2>2
<1> HIDE DEF T
<1>2. /\ a \in Seq(T) /\ Len(q) \in Nat /\ Len(a) = Len(q) + 1 /\ a[Len(q) + 1] = x
      /\ DOMAIN q = 1..Len(q) /\ \A i \in 1..Len(q) : a[i] = q[i]
  BY <1>1
<1>3. a \in Seq(Range(a)) /\ DOMAIN a = 1..Len(a)
  BY <1>2 DEF Range
<1>4. QED  BY <1>2, <1>3 DEF Extended

(* A node or an edge more leaves a graph one. *)
LEMMA AddNodeKeeps ==
  ASSUME NEW G, WellFormed(G), NEW name, NEW p \in Nat, NEW H, H = AddNode(G, name, p)
  PROVE  /\ WellFormed(H) /\ Len(G.nodes) \in Nat
         /\ NodeIds(H) = NodeIds(G) \cup {Len(G.nodes) + 1} /\ H.edges = G.edges
<1>1. PICK q : q = G.nodes
  OBVIOUS
<1>2. PICK x : x = [name |-> name, parallelism |-> p]
  OBVIOUS
<1>3. PICK a : a = Append(q, x)
  OBVIOUS
<1>4. H = [nodes |-> a, edges |-> G.edges]
  BY <1>1, <1>2, <1>3 DEF AddNode, WellFormed
<1>5. Extended(q, x, a)
  <2>1. q \in Seq(Range(q))
    BY <1>1 DEF WellFormed, IsGraph
  <2>2. QED  BY <1>3, <2>1, ExtendSeq
<1>6. NodeIds(H) = NodeIds(G) \cup {Len(G.nodes) + 1} /\ Len(G.nodes) \in Nat
  BY <1>1, <1>4, <1>5 DEF NodeIds, Extended
<1>7. IsGraph(H)
  <2>1. a \in Seq(Range(a))
    BY <1>5 DEF Extended
  <2>2. QED  BY <1>4, <1>6, <2>1 DEF IsGraph, WellFormed
<1>8. \A id \in NodeIds(H) : H.nodes[id].parallelism \in Nat
  <2>1. \A i \in 1..Len(q) : a[i].parallelism \in Nat
    BY <1>1, <1>5 DEF WellFormed, NodeIds, Extended
  <2>2. a[Len(q) + 1].parallelism \in Nat
    BY <1>2, <1>5 DEF Extended
  <2>3. NodeIds(H) = 1..(Len(q) + 1) /\ Len(q) \in Nat
    BY <1>4, <1>5 DEF NodeIds, Extended
  <2>4. \A i \in 1..(Len(q) + 1) : i \in 1..Len(q) \/ i = Len(q) + 1
    BY <2>3
  <2>5. QED  BY <1>4, <2>1, <2>2, <2>3, <2>4
<1>9. WellFormed(H)
  BY <1>4, <1>7, <1>8 DEF WellFormed
<1>10. QED  BY <1>4, <1>6, <1>9

LEMMA AddEdgeKeeps ==
  ASSUME NEW G, WellFormed(G), NEW from \in NodeIds(G), NEW to \in NodeIds(G),
         NEW strategy \in AllStrategies, NEW H, H = AddEdge(G, from, to, strategy)
  PROVE  WellFormed(H) /\ NodeIds(H) = NodeIds(G)
<1>1. PICK q : q = G.edges
  OBVIOUS
<1>2. PICK x : x = [from |-> from, to |-> to, strategy |-> strategy]
  OBVIOUS
<1>3. PICK a : a = Append(q, x)
  OBVIOUS
<1>4. H = [nodes |-> G.nodes, edges |-> a]
  BY <1>1, <1>2, <1>3 DEF AddEdge, WellFormed
<1>5. Extended(q, x, a)
  <2>1. q \in Seq(Range(q))
    BY <1>1 DEF WellFormed, IsGraph
  <2>2. QED  BY <1>3, <2>1, ExtendSeq
<1>6. NodeIds(H) = NodeIds(G)
  BY <1>4 DEF NodeIds
<1>7. \A k \in 1..Len(a) : k \in 1..Len(q) \/ a[k] = x
  BY <1>5 DEF Extended
<1>8. IsGraph(H)
  <2>1. a \in Seq(Range(a)) /\ \A k \in 1..Len(q) : a[k] = q[k]
    BY <1>5 DEF Extended
  <2>2. \A k \in 1..Len(q) : q[k].from \in NodeIds(G) /\ q[k].to \in NodeIds(G)
    BY <1>1 DEF WellFormed, IsGraph
  <2>3. x.from \in NodeIds(G) /\ x.to \in NodeIds(G)
    BY <1>2
  <2>4. \A k \in 1..Len(a) : a[k].from \in NodeIds(G) /\ a[k].to \in NodeIds(G)
    BY <1>7, <2>1, <2>2, <2>3
  <2>5. H.nodes = G.nodes /\ H.edges = a
    BY <1>4
  <2>6. G.nodes \in Seq(Range(G.nodes))
    BY DEF WellFormed, IsGraph
  <2>7. QED  BY <1>6, <2>1, <2>4, <2>5, <2>6 DEF IsGraph
<1>9. \A k \in DOMAIN H.edges : H.edges[k].strategy \in AllStrategies
  <2>1. x.strategy \in AllStrategies
    BY <1>2
  <2>2. \A k \in 1..Len(q) : a[k].strategy \in AllStrategies
    BY <1>1, <1>5 DEF WellFormed, Extended
  <2>3. H.edges = a /\ DOMAIN a = 1..Len(a)
    BY <1>4, <1>5 DEF Extended
  <2>4. QED  BY <1>7, <2>1, <2>2, <2>3
<1>10. WellFormed(H)
  <2>1. \A id \in NodeIds(G) : G.nodes[id].parallelism \in Nat
    BY DEF WellFormed
  <2>2. QED  BY <1>4, <1>6, <1>8, <1>9, <2>1 DEF WellFormed
<1>11. QED  BY <1>6, <1>10

LEMMA PlanStarts == PlanInit => PlanInv
<1> SUFFICES ASSUME PlanInit PROVE PlanInv
  OBVIOUS
<1>1. EmptyGraph.nodes = <<>> /\ EmptyGraph.edges = <<>> /\ <<>> \in Seq({}) /\ Len(<<>>) = 0
  BY DEF EmptyGraph
<1>2. NodeIds(EmptyGraph) = {} /\ DOMAIN EmptyGraph.edges = {}
  BY <1>1 DEF NodeIds
<1>3. IsGraph(EmptyGraph)
  <2>1. Range(<<>>) = {}
    BY DEF Range
  <2>2. QED  BY <1>1, <2>1 DEF IsGraph
<1>4. WellFormed(EmptyGraph)
  BY <1>1, <1>2, <1>3 DEF WellFormed, EmptyGraph
<1>5. stream = NoStream /\ stream.upstream \in 0..channels /\ channels \in Nat
  BY DEF PlanInit, NoStream
<1>6. TasksTyped(tasks, NodeIds(graph), channels) /\ PlanMade(plan, graph)
  BY DEF PlanInit, TasksTyped, PlanMade
<1>7. QED  BY <1>4, <1>5, <1>6 DEF PlanInit, PlanInv

(* What an operator is given to read, and the tasks wiring it makes. *)
LEMMA Wiring ==
  ASSUME PlanInv, stream # NoStream, NEW n \in Nat, WiredChannels <= n,
         NEW ids, NodeIds(graph) \subseteq ids
  PROVE  /\ WiredChannels \in Nat /\ WiredInput \in 1..n
         /\ TasksTyped(WiredTasks, ids, n)
<1>1. channels \in Nat /\ stream.upstream \in 0..channels /\ stream.node \in NodeIds(graph)
  BY DEF PlanInv
<1>2. WiredChannels \in Nat /\ WiredInput \in 1..n /\ channels <= n
  BY <1>1 DEF WiredChannels, WiredInput, FromSourceUpstream
<1>3. TasksTyped(tasks, ids, n)
  <2>1. 1..channels \subseteq 1..n
    BY <1>1, <1>2
  <2>2. QED  BY <2>1 DEF PlanInv, TasksTyped, TaskTyped
<1>4. TaskTyped(TaskOf(stream.node, {}, {WiredInput}), ids, n)
  BY <1>1, <1>2 DEF TaskTyped, TaskOf
<1>5. TasksTyped(WiredTasks, ids, n)
  BY <1>3, <1>4 DEF WiredTasks, TasksTyped
<1>6. QED  BY <1>2, <1>5

(* The node of an operator joins the graph, after the stream's node. *)
LEMMA GrowKeeps ==
  ASSUME PlanInv, stream # NoStream, NEW name, Grow(name)
  PROVE  /\ WellFormed(graph') /\ NodeIds(graph') = NodeIds(graph) \cup {NextNode}
<1>1. PICK H : H = AddNode(graph, name, 1)
  OBVIOUS
<1>2. PICK G : G = graph
  OBVIOUS
<1>3. WellFormed(G) /\ H = AddNode(G, name, 1) /\ 1 \in Nat
  BY <1>1, <1>2 DEF PlanInv
<1>4. WellFormed(H) /\ NodeIds(H) = NodeIds(G) \cup {Len(G.nodes) + 1}
  BY <1>3, AddNodeKeeps
<1>5. NextNode = Len(G.nodes) + 1 /\ graph' = AddEdge(H, stream.node, NextNode, "forward")
  BY <1>1, <1>2 DEF NextNode, Grow
<1>6. PICK from : from = stream.node
  OBVIOUS
<1>7. PICK to : to = NextNode
  OBVIOUS
<1>8. PICK strategy : strategy = "forward"
  OBVIOUS
<1>9. PICK K : K = AddEdge(H, from, to, strategy)
  OBVIOUS
<1>10. from \in NodeIds(H) /\ to \in NodeIds(H) /\ strategy \in AllStrategies
  BY <1>2, <1>4, <1>5, <1>6, <1>7, <1>8 DEF PlanInv, AllStrategies
<1>11. WellFormed(K) /\ NodeIds(K) = NodeIds(H)
  <2>1. WellFormed(H)
    BY <1>4
  <2>2. from \in NodeIds(H) /\ to \in NodeIds(H) /\ strategy \in AllStrategies
    BY <1>10
  <2>3. QED  BY <1>9, <2>1, <2>2, AddEdgeKeeps
<1>12. graph' = K
  BY <1>5, <1>6, <1>7, <1>8, <1>9
<1>13. QED  BY <1>2, <1>4, <1>5, <1>11, <1>12

(* Every call of the API, every addition to a graph and schedule(). *)
LEMMA PlanSteps == PlanInv /\ [PlanNext]_planVars => PlanInv'
<1> SUFFICES ASSUME PlanInv, [PlanNext]_planVars PROVE PlanInv'
  OBVIOUS
<1>1. WellFormed(graph) /\ channels \in Nat /\ stream.upstream \in 0..channels
  BY DEF PlanInv
<1>2. PlanMade(plan, graph) /\ PlanMade(NoPlan, graph')
  BY DEF PlanInv, PlanMade
<1>3. ASSUME NEW name, ApplyOperator(name)
      PROVE  PlanInv'
  <2>1. stream # NoStream /\ plan = NoPlan /\ plan' = plan /\ builder' = builder
    BY <1>3 DEF ApplyOperator, Building
  <2>2. PICK output : output = WiredChannels + 1
    OBVIOUS
  <2>3. /\ channels' = output /\ stream' = [node |-> NextNode, upstream |-> output]
        /\ tasks' = WiredTasks \cup {TaskOf(NextNode, {WiredInput}, {output})}
    BY <1>3, <2>2, Zenon DEF ApplyOperator, Continue
  <2>4. WellFormed(graph') /\ NodeIds(graph') = NodeIds(graph) \cup {NextNode}
    <3>1. Grow(name)
      BY <1>3 DEF ApplyOperator
    <3>2. QED  BY <2>1, <3>1, GrowKeeps
  <2>5. WiredChannels \in Nat
    BY <1>1 DEF WiredChannels
  <2>6. output \in Nat /\ output \in 1..output /\ WiredChannels <= output
    BY <2>2, <2>5
  <2>7. PICK ids : ids = NodeIds(graph')
    OBVIOUS
  <2>8. WiredInput \in 1..output /\ TasksTyped(WiredTasks, ids, output)
    BY <2>1, <2>4, <2>6, <2>7, Wiring
  <2>9. TaskTyped(TaskOf(NextNode, {WiredInput}, {output}), ids, output)
    BY <2>4, <2>6, <2>7, <2>8 DEF TaskTyped, TaskOf
  <2>10. TasksTyped(tasks', NodeIds(graph'), channels')
    BY <2>3, <2>7, <2>8, <2>9 DEF TasksTyped
  <2>11. stream'.node \in NodeIds(graph') /\ stream'.upstream \in 0..channels' /\ channels' \in Nat
    BY <2>3, <2>4, <2>6
  <2>12. builder' \in {"api", "graph"} /\ PlanMade(plan', graph')
    BY <1>2, <2>1 DEF PlanInv
  <2>13. QED  BY <2>4, <2>10, <2>11, <2>12 DEF PlanInv
<1>4. ASSUME NEW name, ApplyTwoInput(name)
      PROVE  PlanInv'
  <2>1. stream # NoStream /\ plan = NoPlan /\ plan' = plan /\ builder' = builder
    BY <1>4 DEF ApplyTwoInput, Building
  <2>2. PICK c : c = WiredChannels
    OBVIOUS
  <2>3. /\ channels' = c + 4 /\ stream' = [node |-> NextNode, upstream |-> c + 4]
        /\ tasks' = WiredTasks \cup TwoInputTasks(c)
    BY <1>4, <2>2, Zenon DEF ApplyTwoInput, Continue
  <2>4. WellFormed(graph') /\ NodeIds(graph') = NodeIds(graph) \cup {NextNode}
    <3>1. Grow(name)
      BY <1>4 DEF ApplyTwoInput
    <3>2. QED  BY <2>1, <3>1, GrowKeeps
  <2>5. c \in Nat
    BY <1>1, <2>2 DEF WiredChannels
  <2>6. /\ c + 4 \in Nat /\ {c + 1, c + 2, c + 3, c + 4} \subseteq 1..(c + 4)
        /\ c + 4 \in 0..(c + 4) /\ WiredChannels <= c + 4
    BY <2>2, <2>5
  <2>7. PICK ids : ids = NodeIds(graph')
    OBVIOUS
  <2>8. PICK n : n = c + 4
    OBVIOUS
  <2>9. WiredInput \in 1..n /\ TasksTyped(WiredTasks, ids, n)
    BY <2>1, <2>4, <2>6, <2>7, <2>8, Wiring
  <2>10. TasksTyped(TwoInputTasks(c), ids, n)
    <3>1. NextNode \in ids /\ {c + 1, c + 2, c + 3, c + 4} \subseteq 1..n
      BY <2>4, <2>6, <2>7, <2>8
    <3>2. PICK in : in = WiredInput
      OBVIOUS
    <3>3. in \in 1..n
      BY <2>9, <3>2
    <3>4. /\ TaskTyped(TaskOf(0, {in}, {c + 1}), ids, n)
          /\ TaskTyped(TaskOf(0, {}, {c + 2}), ids, n)
          /\ TaskTyped(TaskOf(0, {c + 1, c + 2}, {c + 3}), ids, n)
          /\ TaskTyped(TaskOf(NextNode, {c + 3}, {c + 4}), ids, n)
      BY <3>1, <3>3 DEF TaskTyped, TaskOf
    <3>5. QED  BY <3>2, <3>4 DEF TasksTyped, TwoInputTasks
  <2>11. TasksTyped(tasks', NodeIds(graph'), channels')
    BY <2>3, <2>7, <2>8, <2>9, <2>10 DEF TasksTyped
  <2>12. stream'.node \in NodeIds(graph') /\ stream'.upstream \in 0..channels' /\ channels' \in Nat
    BY <2>3, <2>4, <2>6
  <2>13. builder' \in {"api", "graph"} /\ PlanMade(plan', graph')
    BY <1>2, <2>1 DEF PlanInv
  <2>14. QED  BY <2>4, <2>11, <2>12, <2>13 DEF PlanInv
<1>5. CASE FromSource
  <2>1. /\ graph' = AddNode(graph, "source", 1) /\ stream' = [node |-> NextNode, upstream |-> 0]
        /\ plan = NoPlan /\ plan' = plan /\ builder' = builder /\ tasks' = tasks
        /\ channels' = channels
    BY <1>5 DEF FromSource, Building
  <2>2. PICK H : H = AddNode(graph, "source", 1)
    OBVIOUS
  <2>3. PICK G : G = graph
    OBVIOUS
  <2>4. WellFormed(H) /\ NodeIds(H) = NodeIds(G) \cup {Len(G.nodes) + 1}
    <3>1. WellFormed(G) /\ 1 \in Nat /\ H = AddNode(G, "source", 1)
      BY <1>1, <2>2, <2>3
    <3>2. QED  BY <3>1, AddNodeKeeps
  <2>5. graph' = H /\ NextNode \in NodeIds(H) /\ NodeIds(graph) \subseteq NodeIds(H)
    BY <2>1, <2>2, <2>3, <2>4 DEF NextNode
  <2>6. stream'.node \in NodeIds(graph') /\ stream'.upstream \in 0..channels'
    BY <1>1, <2>1, <2>5
  <2>7. TasksTyped(tasks', NodeIds(graph'), channels')
    BY <2>1, <2>5 DEF PlanInv, TasksTyped, TaskTyped
  <2>8. QED  BY <1>1, <1>2, <2>1, <2>4, <2>5, <2>6, <2>7 DEF PlanInv
<1>6. CASE AddSink
  <2>1. /\ stream # NoStream /\ plan = NoPlan /\ plan' = plan /\ builder' = builder
        /\ stream' = NoStream /\ channels' = WiredChannels
        /\ tasks' = WiredTasks \cup {TaskOf(NextNode, {WiredInput}, {})}
    BY <1>6 DEF AddSink, Building
  <2>2. WellFormed(graph') /\ NodeIds(graph') = NodeIds(graph) \cup {NextNode}
    <3>1. Grow("sink")
      BY <1>6 DEF AddSink
    <3>2. QED  BY <2>1, <3>1, GrowKeeps
  <2>3. PICK n : n = WiredChannels
    OBVIOUS
  <2>4. n \in Nat /\ WiredChannels <= n
    BY <1>1, <2>3 DEF WiredChannels
  <2>5. PICK ids : ids = NodeIds(graph')
    OBVIOUS
  <2>6. WiredInput \in 1..n /\ TasksTyped(WiredTasks, ids, n)
    BY <2>1, <2>2, <2>4, <2>5, Wiring
  <2>7. TaskTyped(TaskOf(NextNode, {WiredInput}, {}), ids, n)
    BY <2>2, <2>5, <2>6 DEF TaskTyped, TaskOf
  <2>8. TasksTyped(tasks', NodeIds(graph'), channels')
    BY <2>1, <2>3, <2>5, <2>6, <2>7 DEF TasksTyped
  <2>9. stream'.upstream \in 0..channels' /\ channels' \in Nat
    BY <2>1, <2>3, <2>4 DEF NoStream
  <2>10. QED  BY <1>2, <2>1, <2>2, <2>8, <2>9 DEF PlanInv
<1>7. ASSUME NEW parallelism \in Parallelisms, AddGraphNode(parallelism)
      PROVE  PlanInv'
  <2>1. /\ graph' = AddNode(graph, "node", parallelism) /\ stream' = stream
        /\ plan = NoPlan /\ plan' = plan /\ builder' = builder /\ tasks' = tasks
        /\ channels' = channels
    BY <1>7 DEF AddGraphNode, Directly
  <2>2. PICK H : H = AddNode(graph, "node", parallelism)
    OBVIOUS
  <2>3. PICK G : G = graph
    OBVIOUS
  <2>4. WellFormed(H) /\ NodeIds(H) = NodeIds(G) \cup {Len(G.nodes) + 1}
    <3>1. WellFormed(G) /\ parallelism \in Nat /\ H = AddNode(G, "node", parallelism)
      BY <1>1, <2>2, <2>3, StreamPlanAssumption
    <3>2. QED  BY <3>1, AddNodeKeeps
  <2>5. graph' = H /\ NodeIds(graph) \subseteq NodeIds(H)
    BY <2>1, <2>2, <2>3, <2>4
  <2>6. stream' = NoStream \/ stream'.node \in NodeIds(graph')
    BY <2>1, <2>5 DEF PlanInv
  <2>7. TasksTyped(tasks', NodeIds(graph'), channels')
    BY <2>1, <2>5 DEF PlanInv, TasksTyped, TaskTyped
  <2>8. QED  BY <1>1, <1>2, <2>1, <2>4, <2>5, <2>6, <2>7 DEF PlanInv
<1>8. ASSUME NEW from \in NodeIds(graph), NEW to \in NodeIds(graph), NEW strategy \in Strategies,
             AddGraphEdge(from, to, strategy)
      PROVE  PlanInv'
  <2>1. /\ graph' = AddEdge(graph, from, to, strategy) /\ stream' = stream
        /\ plan = NoPlan /\ plan' = plan /\ builder' = builder /\ tasks' = tasks
        /\ channels' = channels
    BY <1>8 DEF AddGraphEdge, Directly
  <2>2. PICK H : H = AddEdge(graph, from, to, strategy)
    OBVIOUS
  <2>3. strategy \in AllStrategies
    BY StreamPlanAssumption DEF AllStrategies
  <2>4. WellFormed(H) /\ NodeIds(H) = NodeIds(graph)
    <3>1. PICK G : G = graph
      OBVIOUS
    <3>2. WellFormed(G) /\ from \in NodeIds(G) /\ to \in NodeIds(G) /\ H = AddEdge(G, from, to, strategy)
      BY <1>1, <2>2, <3>1
    <3>3. WellFormed(H) /\ NodeIds(H) = NodeIds(G)
      BY <2>3, <3>2, AddEdgeKeeps
    <3>4. QED  BY <3>1, <3>3
  <2>5. graph' = H
    BY <2>1, <2>2
  <2>6. stream' = NoStream \/ stream'.node \in NodeIds(graph')
    BY <2>1, <2>4, <2>5 DEF PlanInv
  <2>7. TasksTyped(tasks', NodeIds(graph'), channels')
    BY <2>1, <2>4, <2>5 DEF PlanInv
  <2>8. QED  BY <1>1, <1>2, <2>1, <2>4, <2>5, <2>6, <2>7 DEF PlanInv
<1>9. ASSUME NEW offers \in SlotOffers, NEW strategy \in {"spread", "pack"},
             MakePlan(offers, strategy)
      PROVE  PlanInv'
  <2>1. /\ graph' = graph /\ stream' = stream /\ builder' = builder /\ tasks' = tasks
        /\ channels' = channels
        /\ plan' = [offers |-> offers, strategy |-> strategy,
                    result |-> Schedule(graph, offers, strategy)]
    BY <1>9 DEF MakePlan
  <2>2. PlanMade(plan', graph')
    <3>1. plan' = [offers |-> offers, strategy |-> strategy,
                   result |-> Schedule(graph', offers, strategy)]
      BY <2>1, Zenon
    <3>2. QED  BY <3>1, Zenon DEF PlanMade
  <2>3. QED  BY <2>1, <2>2 DEF PlanInv
<1>10. CASE UNCHANGED planVars
  BY <1>10 DEF PlanInv, planVars
<1>11. CASE Transform
  BY <1>3, <1>4, <1>11
     DEF Transform, Map, Filter, FlatMap, KeyBy, Process, ProcessKeyed, WindowAggregate,
         CoProcess, WindowJoin, WindowCogroup, IntervalJoin
<1>12. QED  BY <1>5, <1>6, <1>7, <1>8, <1>9, <1>10, <1>11 DEF PlanNext

(* The invariant holds of everything the API and schedule() build. *)
THEOREM PlanInvariance == PlanSpec => []PlanInv
BY PlanStarts, PlanSteps, PTL DEF PlanSpec

(* What schedule() returns: an error, or a plan with the graph's edges. *)
LEMMA ScheduleIs ==
  ASSUME NEW G, NEW offers, NEW strategy, NEW r, r = Schedule(G, offers, strategy)
  PROVE  /\ r.outcome \in {"ok", "cycle", "slots", "panic"}
         /\ r.outcome = "ok" => r.edges = PhysicalEdges(G) /\ ~DividesByZero(G)
<1>1. PICK placed : placed = Assignments(G, TopologicalOrder(G), offers, strategy)
  OBVIOUS
<1>2. \/ r = Failure("cycle") \/ r = Failure("slots") \/ r = Failure("panic")
      \/ /\ r = [outcome |-> "ok", assignments |-> placed, edges |-> PhysicalEdges(G)]
         /\ ~DividesByZero(G)
  BY <1>1, Zenon DEF Schedule
<1>3. QED  BY <1>2 DEF Failure

(* A plan that was made is of the graph as it is. *)
LEMMA PlanIs ==
  ASSUME PlanInv
  PROVE  /\ plan.result.outcome \in {"none", "ok", "cycle", "slots", "panic"}
         /\ Planned => plan.result.edges = PhysicalEdges(graph) /\ ~DividesByZero(graph)
<1>1. CASE plan = NoPlan
  BY <1>1 DEF NoPlan, Failure, Planned
<1>2. ASSUME NEW offers \in SlotOffers, NEW strategy \in {"spread", "pack"},
             plan = [offers |-> offers, strategy |-> strategy,
                     result |-> Schedule(graph, offers, strategy)]
      PROVE  /\ plan.result.outcome \in {"none", "ok", "cycle", "slots", "panic"}
             /\ Planned => plan.result.edges = PhysicalEdges(graph) /\ ~DividesByZero(graph)
  <2>1. PICK r : r = Schedule(graph, offers, strategy)
    OBVIOUS
  <2>2. PICK G : G = graph
    OBVIOUS
  <2>3. plan.result = r /\ r = Schedule(G, offers, strategy)
    BY <1>2, <2>1, <2>2
  <2>4. /\ r.outcome \in {"ok", "cycle", "slots", "panic"}
        /\ r.outcome = "ok" => r.edges = PhysicalEdges(G) /\ ~DividesByZero(G)
    BY <2>3, ScheduleIs
  <2>5. QED  BY <2>2, <2>3, <2>4 DEF Planned
<1>3. QED  BY <1>1, <1>2 DEF PlanInv, PlanMade

(* Tasks, the stream and edges are of nodes and channels there are. *)
THEOREM PlanTypeCorrect == PlanSpec => []PlanTypeOK
<1>1. PlanInv => PlanTypeOK
  <2> SUFFICES ASSUME PlanInv PROVE PlanTypeOK
    OBVIOUS
  <2>1. \A k \in DOMAIN graph.edges :
          {graph.edges[k].from, graph.edges[k].to} \subseteq NodeIds(graph)
    BY DEF PlanInv, WellFormed, IsGraph
  <2>2. \A t \in tasks : /\ t.node \in {0} \cup NodeIds(graph)
                         /\ t.reads \cup t.writes \subseteq 1..channels
    BY DEF PlanInv, TasksTyped, TaskTyped
  <2>3. stream.node \in {0} \cup NodeIds(graph)
    BY DEF PlanInv, NoStream
  <2>4. plan.result.outcome \in {"none", "ok", "cycle", "slots", "panic"}
    BY PlanIs
  <2>5. QED  BY <2>1, <2>2, <2>3, <2>4 DEF PlanInv, PlanTypeOK
<1> QED  BY <1>1, PlanInvariance, PTL

(* topological_order() is right of whatever graph the API or the           *)
(* LogicalGraph's own methods build (dag.rs lines 86-121).                  *)
THEOREM OrderCorrect == PlanSpec => []OrderIsTopological
<1>1. PlanInv => OrderIsTopological
  <2> SUFFICES ASSUME PlanInv PROVE OrderIsTopological
    OBVIOUS
  <2>1. PICK G : G = graph
    OBVIOUS
  <2>2. IsGraph(G)
    BY <2>1 DEF PlanInv, WellFormed
  <2>3. IF Cyclic(G) THEN TopologicalOrder(G) = <<>> ELSE IsTopological(G, TopologicalOrder(G))
    BY <2>2, KahnCorrect
  <2>4. QED  BY <2>1, <2>3 DEF OrderIsTopological
<1> QED  BY <1>1, PlanInvariance, PTL

(* The subtasks a sender of index i is connected to. *)
Reached(strategy, i, n) == IF strategy = "forward" THEN {i % n} ELSE 0..(n - 1)

(* A partitioner may select just the subtasks reached. *)
LEMMA SelectsReached ==
  ASSUME NEW strategy \in AllStrategies, NEW i \in Nat, NEW n \in Nat \ {0}
  PROVE  UNION {Select(strategy, x, i, x, n) : x \in 0..(n - 1)} = Reached(strategy, i, n)
<1>1. \A x \in 0..(n - 1) : x % n = x
  OBVIOUS
<1>2. 0 \in 0..(n - 1)
  OBVIOUS
<1>3. CASE strategy = "forward"
  <2>1. \A x \in 0..(n - 1) : Select(strategy, x, i, x, n) = {i % n}
    BY <1>3 DEF Select
  <2>2. UNION {Select(strategy, x, i, x, n) : x \in 0..(n - 1)} = {i % n}
    BY <1>2, <2>1
  <2>3. QED  BY <1>3, <2>2 DEF Reached
<1>4. CASE strategy = "broadcast"
  <2>1. \A x \in 0..(n - 1) : Select(strategy, x, i, x, n) = 0..(n - 1)
    BY <1>4 DEF Select
  <2>2. UNION {Select(strategy, x, i, x, n) : x \in 0..(n - 1)} = 0..(n - 1)
    BY <1>2, <2>1
  <2>3. QED  BY <1>4, <2>2 DEF Reached
<1>5. CASE strategy = "hash" \/ strategy = "rebalance"
  <2>1. \A x \in 0..(n - 1) : Select(strategy, x, i, x, n) = {x}
    BY <1>1, <1>5 DEF Select
  <2>2. UNION {Select(strategy, x, i, x, n) : x \in 0..(n - 1)} = 0..(n - 1)
    BY <2>1
  <2>3. QED  BY <1>5, <2>2 DEF Reached
<1>6. QED  BY <1>3, <1>4, <1>5 DEF AllStrategies

(* c joins subtask i of the edge's source to one that it reaches. *)
Joins(G, e, i, n, c) ==
  /\ c[1] = Subtask(G, e.from, i)
  /\ \E j \in Reached(e.strategy, i, n) : c[2] = Subtask(G, e.to, j)

LEMMA SubtasksAre ==
  ASSUME NEW G, NEW id, NEW m \in Nat, m = G.nodes[id].parallelism,
         NEW q, q = SubtasksOf(G, id)
  PROVE  /\ DOMAIN q = 1..m /\ Len(q) = m
         /\ \A i \in 0..(m - 1) : i + 1 \in 1..m /\ q[i + 1] = Subtask(G, id, i)
         /\ \A k \in 1..m : k - 1 \in 0..(m - 1) /\ k = (k - 1) + 1
         /\ Range(q) = {Subtask(G, id, i) : i \in 0..(m - 1)}
<1>1. DOMAIN q = 1..m /\ Len(q) = m /\ \A i \in 1..m : q[i] = Subtask(G, id, i - 1)
  BY DEF SubtasksOf
<1>2. \A i \in 0..(m - 1) : i + 1 \in 1..m /\ (i + 1) - 1 = i
  OBVIOUS
<1>3. \A k \in 1..m : k - 1 \in 0..(m - 1) /\ k = (k - 1) + 1
  OBVIOUS
<1>4. \A i \in 0..(m - 1) : i + 1 \in 1..m /\ q[i + 1] = Subtask(G, id, i)
  BY <1>1, <1>2
<1>5. Range(q) = {Subtask(G, id, i) : i \in 0..(m - 1)}
  BY <1>1, <1>3, <1>4 DEF Range
<1>6. QED  BY <1>1, <1>3, <1>4, <1>5

(* The connected subtasks of a logical edge: every one of the source to    *)
(* those it reaches, unless the remainder is taken by zero.                *)
LEMMA ConnectedIs ==
  ASSUME NEW G, NEW e, NEW m \in Nat, m = G.nodes[e.from].parallelism,
         NEW n \in Nat, n = G.nodes[e.to].parallelism,
         e.strategy = "forward" /\ m > 0 => n > 0
  PROVE  /\ \A c \in ConnectedSubtasks(G, e) : \E i \in 0..(m - 1) : Joins(G, e, i, n, c)
         /\ \A i \in 0..(m - 1) : \A j \in Reached(e.strategy, i, n) :
              <<Subtask(G, e.from, i), Subtask(G, e.to, j)>> \in ConnectedSubtasks(G, e)
<1>1. PICK from : from = SubtasksOf(G, e.from)
  OBVIOUS
<1>2. PICK to : to = SubtasksOf(G, e.to)
  OBVIOUS
<1>3. PICK id : id = e.from
  OBVIOUS
<1>4. PICK jd : jd = e.to
  OBVIOUS
<1>5. /\ DOMAIN from = 1..m
      /\ \A i \in 0..(m - 1) : i + 1 \in 1..m /\ from[i + 1] = Subtask(G, id, i)
      /\ \A k \in 1..m : k - 1 \in 0..(m - 1) /\ k = (k - 1) + 1
      /\ Range(from) = {Subtask(G, id, i) : i \in 0..(m - 1)}
  <2>1. m = G.nodes[id].parallelism /\ from = SubtasksOf(G, id)
    BY <1>1, <1>3
  <2>2. QED  BY <2>1, SubtasksAre
<1>6. /\ Len(to) = n
      /\ \A j \in 0..(n - 1) : to[j + 1] = Subtask(G, jd, j)
      /\ Range(to) = {Subtask(G, jd, j) : j \in 0..(n - 1)}
  <2>1. n = G.nodes[jd].parallelism /\ to = SubtasksOf(G, jd)
    BY <1>2, <1>4
  <2>2. QED  BY <2>1, SubtasksAre
<1>7. CASE e.strategy = "forward"
  <2>1. ConnectedSubtasks(G, e) = {<<from[k], to[((k - 1) % n) + 1]>> : k \in 1..m}
    BY <1>1, <1>2, <1>5, <1>6, <1>7 DEF ConnectedSubtasks
  <2>2. \A i : Reached(e.strategy, i, n) = {i % n}
    BY <1>7 DEF Reached
  <2>3. ASSUME NEW i \in 0..(m - 1)
        PROVE  from[i + 1] = Subtask(G, id, i) /\ to[(i % n) + 1] = Subtask(G, jd, i % n)
    <3>1. n \in Nat \ {0} /\ i \in Nat
      BY <1>7
    <3>2. i % n \in 0..(n - 1)
      BY <3>1
    <3>3. QED  BY <1>5, <1>6, <3>2
  <2>4. ASSUME NEW c \in ConnectedSubtasks(G, e)
        PROVE  \E i \in 0..(m - 1) : Joins(G, e, i, n, c)
    <3>1. PICK k \in 1..m : c = <<from[k], to[((k - 1) % n) + 1]>>
      BY <2>1
    <3>2. PICK i : i = k - 1
      OBVIOUS
    <3>3. i \in 0..(m - 1) /\ k = i + 1
      BY <1>5, <3>2
    <3>4. c[1] = Subtask(G, id, i) /\ c[2] = Subtask(G, jd, i % n)
      BY <2>3, <3>1, <3>2, <3>3
    <3>5. i % n \in Reached(e.strategy, i, n)
      BY <2>2
    <3>6. Joins(G, e, i, n, c)
      BY <1>3, <1>4, <3>4, <3>5 DEF Joins
    <3>7. QED  BY <3>3, <3>6
  <2>5. ASSUME NEW i \in 0..(m - 1), NEW j \in Reached(e.strategy, i, n)
        PROVE  <<Subtask(G, id, i), Subtask(G, jd, j)>> \in ConnectedSubtasks(G, e)
    <3>1. j = i % n
      BY <2>2
    <3>2. PICK k : k = i + 1
      OBVIOUS
    <3>3. k \in 1..m /\ k - 1 = i
      BY <1>5, <3>2
    <3>4. <<Subtask(G, id, i), Subtask(G, jd, j)>> = <<from[k], to[((k - 1) % n) + 1]>>
      BY <2>3, <3>1, <3>2, <3>3
    <3>5. QED  BY <2>1, <3>3, <3>4
  <2>6. QED  BY <1>3, <1>4, <2>4, <2>5
<1>8. CASE e.strategy # "forward"
  <2>1. ConnectedSubtasks(G, e) = Range(from) \X Range(to)
    BY <1>1, <1>2, <1>8, Zenon DEF ConnectedSubtasks
  <2>2. \A i : Reached(e.strategy, i, n) = 0..(n - 1)
    BY <1>8 DEF Reached
  <2>3. ASSUME NEW c \in ConnectedSubtasks(G, e)
        PROVE  \E i \in 0..(m - 1) : Joins(G, e, i, n, c)
    <3>1. c[1] \in Range(from) /\ c[2] \in Range(to)
      BY <2>1
    <3>2. PICK i \in 0..(m - 1) : c[1] = Subtask(G, id, i)
      BY <1>5, <3>1
    <3>3. PICK j \in 0..(n - 1) : c[2] = Subtask(G, jd, j)
      BY <1>6, <3>1
    <3>4. Joins(G, e, i, n, c)
      BY <1>3, <1>4, <2>2, <3>2, <3>3 DEF Joins
    <3>5. QED  BY <3>4
  <2>4. ASSUME NEW i \in 0..(m - 1), NEW j \in Reached(e.strategy, i, n)
        PROVE  <<Subtask(G, id, i), Subtask(G, jd, j)>> \in ConnectedSubtasks(G, e)
    <3>1. Subtask(G, id, i) \in Range(from)
      BY <1>5
    <3>2. Subtask(G, jd, j) \in Range(to)
      BY <1>6, <2>2
    <3>3. QED  BY <2>1, <3>1, <3>2
  <2>5. QED  BY <1>3, <1>4, <2>3, <2>4
<1>9. QED  BY <1>7, <1>8

(* The subtasks of the edge's end that edges lead to from subtask i.       *)
Targets(edges, G, e, i) ==
  {c.to.index : c \in {d \in edges : /\ d.from = Subtask(G, e.from, i)
                                     /\ d.to.node = e.to
                                     /\ d.strategy = e.strategy}}

(* The physical edges between two nodes by one strategy lead from a        *)
(* sender to the subtasks it reaches, whatever other logical edges there   *)
(* are.                                                                     *)
LEMMA EdgesReach ==
  ASSUME NEW G, WellFormed(G), ~DividesByZero(G), NEW k \in DOMAIN G.edges,
         NEW e, e = G.edges[k], NEW n, n = G.nodes[e.to].parallelism,
         NEW i, i \in 0..(G.nodes[e.from].parallelism - 1)
  PROVE  Targets(PhysicalEdges(G), G, e, i) = Reached(e.strategy, i, n)
<1> DEFINE Mine == {d \in PhysicalEdges(G) : /\ d.from = Subtask(G, e.from, i)
                                             /\ d.to.node = e.to
                                             /\ d.strategy = e.strategy}
<1>1. ASSUME NEW l \in DOMAIN G.edges, NEW f, f = G.edges[l],
             NEW m, m = G.nodes[f.from].parallelism, NEW p, p = G.nodes[f.to].parallelism
      PROVE  /\ m \in Nat /\ p \in Nat
             /\ f.strategy = "forward" /\ m > 0 => p > 0
  <2>1. l \in 1..Len(G.edges)
    BY DEF WellFormed, IsGraph
  <2>2. m \in Nat /\ p \in Nat
    BY <1>1, <2>1 DEF WellFormed, IsGraph
  <2>3. ~(f.strategy = "forward" /\ m > 0 /\ p = 0)
    BY <1>1 DEF DividesByZero
  <2>4. QED  BY <2>2, <2>3
<1>2. \A id, x : Subtask(G, id, x).node = id /\ Subtask(G, id, x).index = x
  BY DEF Subtask
<1>3. ASSUME NEW d \in Mine
      PROVE  d.to.index \in Reached(e.strategy, i, n)
  <2>1. PICK l \in DOMAIN G.edges : \E c \in ConnectedSubtasks(G, G.edges[l]) :
          d = [from |-> c[1], to |-> c[2], strategy |-> G.edges[l].strategy]
    BY DEF PhysicalEdges
  <2>2. PICK f : f = G.edges[l]
    OBVIOUS
  <2>3. PICK c \in ConnectedSubtasks(G, f) :
          d = [from |-> c[1], to |-> c[2], strategy |-> f.strategy]
    BY <2>1, <2>2
  <2>4. c[1] = Subtask(G, e.from, i) /\ c[2].node = e.to /\ f.strategy = e.strategy
        /\ d.to = c[2]
    BY <2>3
  <2>5. PICK m : m = G.nodes[f.from].parallelism
    OBVIOUS
  <2>6. PICK p : p = G.nodes[f.to].parallelism
    OBVIOUS
  <2>7. m \in Nat /\ p \in Nat /\ (f.strategy = "forward" /\ m > 0 => p > 0)
    BY <1>1, <2>2, <2>5, <2>6
  <2>8. PICK h \in 0..(m - 1) : Joins(G, f, h, p, c)
    BY <2>5, <2>6, <2>7, ConnectedIs
  <2>9. PICK j \in Reached(f.strategy, h, p) :
          c[1] = Subtask(G, f.from, h) /\ c[2] = Subtask(G, f.to, j)
    BY <2>8 DEF Joins
  <2>10. h = i /\ f.to = e.to /\ c[2].index = j
    <3>1. c[1].index = h /\ c[2].node = f.to /\ c[2].index = j
      BY <1>2, <2>9
    <3>2. c[1].index = i
      BY <1>2, <2>4
    <3>3. QED  BY <2>4, <3>1, <3>2
  <2>11. p = n
    BY <2>6, <2>10
  <2>12. QED  BY <2>4, <2>9, <2>10, <2>11
<1>4. ASSUME NEW j \in Reached(e.strategy, i, n)
      PROVE  \E d \in Mine : d.to.index = j
  <2>1. PICK m : m = G.nodes[e.from].parallelism
    OBVIOUS
  <2>2. m \in Nat /\ n \in Nat /\ (e.strategy = "forward" /\ m > 0 => n > 0)
    BY <1>1, <2>1
  <2>3. PICK c : c = <<Subtask(G, e.from, i), Subtask(G, e.to, j)>>
    OBVIOUS
  <2>4. c \in ConnectedSubtasks(G, e)
    <3>1. i \in 0..(m - 1)
      BY <2>1
    <3>2. <<Subtask(G, e.from, i), Subtask(G, e.to, j)>> \in ConnectedSubtasks(G, e)
      BY <2>1, <2>2, <3>1, ConnectedIs
    <3>3. QED  BY <2>3, <3>2
  <2>5. PICK d : d = [from |-> c[1], to |-> c[2], strategy |-> e.strategy]
    OBVIOUS
  <2>6. d \in PhysicalEdges(G)
    BY <2>4, <2>5 DEF PhysicalEdges
  <2>7. d.from = Subtask(G, e.from, i) /\ d.to = Subtask(G, e.to, j) /\ d.strategy = e.strategy
    BY <2>3, <2>5
  <2>8. QED  BY <1>2, <2>6, <2>7
<1> HIDE DEF Mine
<1>5. {c.to.index : c \in Mine} = Reached(e.strategy, i, n)
  BY <1>3, <1>4
<1>6. QED  BY <1>5 DEF Mine, Targets

(* The partitioner finds every target it selects connected, and every      *)
(* connection is one it may select (physical.rs line 177, partition.rs).   *)
THEOREM RoutesCorrect == PlanSpec => []RoutesAreConnected
<1>1. PlanInv => RoutesAreConnected
  <2> SUFFICES ASSUME PlanInv, Planned,
                      NEW k \in DOMAIN graph.edges,
                      graph.nodes[graph.edges[k].to].parallelism > 0,
                      NEW i \in 0..(graph.nodes[graph.edges[k].from].parallelism - 1)
               PROVE  LET e == graph.edges[k]
                          n == graph.nodes[e.to].parallelism
                      IN  {c.to.index : c \in {d \in plan.result.edges :
                                                 /\ d.from = Subtask(graph, e.from, i)
                                                 /\ d.to.node = e.to
                                                 /\ d.strategy = e.strategy}}
                            = UNION {Select(e.strategy, x, i, x, n) : x \in 0..(n - 1)}
    BY Zenon DEF RoutesAreConnected
  <2>1. PICK G : G = graph
    OBVIOUS
  <2>2. PICK e : e = G.edges[k]
    OBVIOUS
  <2>3. PICK n : n = G.nodes[e.to].parallelism
    OBVIOUS
  <2>4. WellFormed(G) /\ ~DividesByZero(G) /\ plan.result.edges = PhysicalEdges(G)
    BY <2>1, PlanIs DEF PlanInv
  <2>5. i \in 0..(G.nodes[e.from].parallelism - 1) /\ k \in DOMAIN G.edges
    BY <2>1, <2>2
  <2>6. Targets(PhysicalEdges(G), G, e, i) = Reached(e.strategy, i, n)
    BY <2>2, <2>3, <2>4, <2>5, EdgesReach
  <2>7. UNION {Select(e.strategy, x, i, x, n) : x \in 0..(n - 1)} = Reached(e.strategy, i, n)
    <3>1. k \in 1..Len(G.edges)
      BY <2>4, <2>5 DEF WellFormed, IsGraph
    <3>2. e.strategy \in AllStrategies /\ n \in Nat \ {0} /\ i \in Nat
      BY <2>1, <2>2, <2>3, <2>4, <2>5, <3>1 DEF WellFormed, IsGraph
    <3>3. PICK strategy : strategy = e.strategy
      OBVIOUS
    <3>4. UNION {Select(strategy, x, i, x, n) : x \in 0..(n - 1)} = Reached(strategy, i, n)
      BY <3>2, <3>3, SelectsReached
    <3>5. QED  BY <3>3, <3>4
  <2>8. QED  BY <2>1, <2>2, <2>3, <2>4, <2>6, <2>7 DEF Targets
<1> QED  BY <1>1, PlanInvariance, PTL

-----------------------------------------------------------------------------
(* The wiring beside the graph: the channels of the spawned tasks.         *)

Direct(ts, t) == {u \in ts : Feeds(t, u)}
Hop(ts, R) == R \cup {u \in ts : \E v \in R : v.node = 0 /\ Feeds(v, u)}
Reaches(ts, R) == Hop(ts, Hop(ts, Hop(ts, R)))
Named(R) == {u \in R : u.node # 0}

(* The nodes whose tasks are joined, as the graph should have them. *)
Arcs(ts) ==
  UNION {{<<t.node, u.node>> : u \in Named(Reaches(ts, Direct(ts, t)))} : t \in Named(ts)}

Arrows(G) == {<<G.edges[k].from, G.edges[k].to>> : k \in DOMAIN G.edges}

(* Every channel feed to n has one writer and one reader, but feed, which the  *)
(* task of node writes and nobody reads yet.                               *)
Wired(ts, n, node, feed) ==
  /\ \A t \in ts : t.reads \cup t.writes \subseteq 1..n
  /\ \A c \in 1..n : \E t \in ts : {u \in ts : c \in u.writes} = {t}
  /\ \A c \in 1..n : c # feed => \E t \in ts : {u \in ts : c \in u.reads} = {t}
  /\ {u \in ts : feed \in u.reads} = {}
  /\ \A t \in ts : feed \in t.writes => t.node = node

WiringInv ==
  /\ Wired(tasks, channels, stream.node, stream.upstream)
  /\ builder = "api" => Arrows(graph) = Arcs(tasks)

(* Downstream goes over at most three helpers, one after the other. *)
LEMMA DownstreamIs ==
  ASSUME NEW t
  PROVE  Downstream(t) = Named(Reaches(tasks, Direct(tasks, t)))
<1> DEFINE Rec(f) ==
      f = [k \in 0..3 |->
             IF k = 0 THEN {u \in tasks : Feeds(t, u)}
             ELSE f[k - 1] \cup
                  {u \in tasks : \E v \in f[k - 1] : v.node = 0 /\ Feeds(v, u)}]
<1> DEFINE g == CHOOSE f : Rec(f)
<1>1. Downstream(t) = {u \in g[3] : u.node # 0}
  BY DEF Downstream
<1>2. \E f : Rec(f)
  <2> DEFINE D == Direct(tasks, t)
  <2> DEFINE f == [k \in 0..3 |-> IF k = 0 THEN D ELSE IF k = 1 THEN Hop(tasks, D)
                                  ELSE IF k = 2 THEN Hop(tasks, Hop(tasks, D))
                                  ELSE Reaches(tasks, D)]
  <2>1. /\ f[0] = D /\ f[1] = Hop(tasks, D) /\ f[2] = Hop(tasks, Hop(tasks, D))
        /\ f[3] = Reaches(tasks, D)
    OBVIOUS
  <2>2. \A k \in 0..3 : f[k] = IF k = 0 THEN Direct(tasks, t) ELSE Hop(tasks, f[k - 1])
    <3>1. \A k \in 0..3 : k = 0 \/ k = 1 \/ k = 2 \/ k = 3
      OBVIOUS
    <3> HIDE DEF f
    <3>2. f[1] = Hop(tasks, f[0]) /\ f[2] = Hop(tasks, f[1]) /\ f[3] = Hop(tasks, f[2])
      BY <2>1 DEF Reaches
    <3>3. 1 - 1 = 0 /\ 2 - 1 = 1 /\ 3 - 1 = 2
      OBVIOUS
    <3>4. QED  BY <2>1, <3>1, <3>2, <3>3
  <2>3. DOMAIN f = 0..3 /\ f = [k \in 0..3 |-> f[k]]
    OBVIOUS
  <2> HIDE DEF f
  <2>4. Rec(f)
    BY <2>2, <2>3 DEF Direct, Hop
  <2>5. QED  BY <2>4
<1>3. Rec(g)
  BY <1>2
<1> HIDE DEF g
<1>4. g[0] = Direct(tasks, t) /\ g[1] = Hop(tasks, g[0]) /\ g[2] = Hop(tasks, g[1])
      /\ g[3] = Hop(tasks, g[2])
  <2>1. \A k \in 0..3 : g[k] = IF k = 0 THEN Direct(tasks, t) ELSE Hop(tasks, g[k - 1])
    BY <1>3 DEF Direct, Hop
  <2>2. QED  BY <2>1
<1>5. g[3] = Reaches(tasks, Direct(tasks, t))
  BY <1>4 DEF Reaches
<1>6. QED  BY <1>1, <1>5 DEF Named

LEMMA MirrorsGraph ==
  ASSUME PlanInv, WiringInv
  PROVE  GraphMirrorsWiring
<1>1. ASSUME builder = "api"
      PROVE  {<<graph.edges[k].from, graph.edges[k].to>> : k \in DOMAIN graph.edges} =
             UNION {{<<t.node, u.node>> : u \in Downstream(t)}
                    : t \in {v \in tasks : v.node # 0}}
  <2>1. Arrows(graph) = Arcs(tasks)
    BY <1>1 DEF WiringInv
  <2>2. \A t : Downstream(t) = Named(Reaches(tasks, Direct(tasks, t)))
    BY DownstreamIs
  <2>3. Arcs(tasks) = UNION {{<<t.node, u.node>> : u \in Downstream(t)} : t \in Named(tasks)}
    BY <2>2 DEF Arcs
  <2>4. QED  BY <2>1, <2>3 DEF Arrows, Named
<1>2. ASSUME NEW c \in 1..channels
      PROVE  /\ Cardinality({t \in tasks : c \in t.writes}) = 1
             /\ Cardinality({t \in tasks : c \in t.reads}) =
                  IF c = stream.upstream THEN 0 ELSE 1
  <2>1. Cardinality({}) = 0 /\ \A x : Cardinality({x}) = 1
    BY FS_EmptySet, FS_Singleton
  <2>2. Wired(tasks, channels, stream.node, stream.upstream)
    BY DEF WiringInv
  <2>3. PICK t \in tasks : {u \in tasks : c \in u.writes} = {t}
    BY <2>2 DEF Wired
  <2>4. CASE c = stream.upstream
    <3>1. {u \in tasks : c \in u.reads} = {}
      BY <2>2, <2>4 DEF Wired
    <3>2. QED  BY <2>1, <2>3, <2>4, <3>1
  <2>5. CASE c # stream.upstream
    <3>1. PICK r \in tasks : {u \in tasks : c \in u.reads} = {r}
      BY <2>2, <2>5 DEF Wired
    <3>2. QED  BY <2>1, <2>3, <2>5, <3>1
  <2>6. QED  BY <2>4, <2>5
<1>3. QED  BY <1>1, <1>2 DEF GraphMirrorsWiring

Link(ts, t, u) ==
  t \in ts /\ t.node # 0 /\ u \in Reaches(ts, Direct(ts, t)) /\ u.node # 0

LEMMA JoinedHas ==
  ASSUME NEW ts, NEW p
  PROVE  p \in Arcs(ts) <=> \E t, u : Link(ts, t, u) /\ p = <<t.node, u.node>>
BY DEF Arcs, Named, Link

(* The drainer of a Source joins no nodes yet. *)
LEMMA DrainerKeeps ==
  ASSUME NEW ts, NEW n \in Nat, NEW node, NEW m, m = n + 1, Wired(ts, n, node, 0),
         NEW d, d = TaskOf(node, {}, {m}), NEW all, all = ts \cup {d}
  PROVE  Wired(all, m, node, m) /\ Arcs(all) = Arcs(ts)
<1>1. d.node = node /\ d.reads = {} /\ d.writes = {m}
  BY DEF TaskOf
<1>2. /\ \A t \in ts : t.reads \subseteq 1..n /\ t.writes \subseteq 1..n
      /\ \A c \in 1..n : \E t \in ts : {u \in ts : c \in u.writes} = {t}
      /\ \A c \in 1..n : c # 0 => \E t \in ts : {u \in ts : c \in u.reads} = {t}
  BY DEF Wired
<1>3. m \notin 1..n /\ m \in 1..m /\ 1..n \subseteq 1..m /\ \A c \in 1..m : c \in 1..n \/ c = m
  OBVIOUS
<1>4. \A c \in 1..n : c # 0
  OBVIOUS
<1>5. Wired(all, m, node, m)
  <2>1. \A t \in all : t.reads \cup t.writes \subseteq 1..m
    BY <1>1, <1>2, <1>3
  <2>2. ASSUME NEW c \in 1..m
        PROVE  \E t \in all : {u \in all : c \in u.writes} = {t}
    <3>1. CASE c \in 1..n
      <4>1. PICK t \in ts : {u \in ts : c \in u.writes} = {t}
        BY <1>2, <3>1
      <4>2. {u \in all : c \in u.writes} = {t}
        BY <1>1, <1>3, <3>1, <4>1
      <4>3. QED  BY <4>1, <4>2
    <3>2. CASE c = m
      <4>1. {u \in all : c \in u.writes} = {d}
        BY <1>1, <1>2, <1>3, <3>2
      <4>2. QED  BY <4>1
    <3>3. QED  BY <1>3, <3>1, <3>2
  <2>3. ASSUME NEW c \in 1..m, c # m
        PROVE  \E t \in all : {u \in all : c \in u.reads} = {t}
    <3>1. PICK t \in ts : {u \in ts : c \in u.reads} = {t}
      BY <1>2, <1>3, <1>4, <2>3
    <3>2. {u \in all : c \in u.reads} = {t}
      BY <1>1, <3>1
    <3>3. QED  BY <3>1, <3>2
  <2>4. {u \in all : m \in u.reads} = {}
    BY <1>1, <1>2, <1>3
  <2>5. \A t \in all : m \in t.writes => t.node = node
    BY <1>1, <1>2, <1>3
  <2>6. QED  BY <2>1, <2>2, <2>3, <2>4, <2>5 DEF Wired
<1>6. \A t : Direct(all, t) = Direct(ts, t)
  BY <1>1 DEF Direct, Feeds
<1>7. \A R : Hop(all, R) = Hop(ts, R)
  BY <1>1 DEF Hop, Feeds
<1>8. \A R : Reaches(all, R) = Reaches(ts, R)
  BY <1>7 DEF Reaches
<1>9. Reaches(ts, Direct(ts, d)) = {}
  <2>1. Direct(ts, d) = {}
    <3>1. ASSUME NEW u \in ts
          PROVE  ~Feeds(d, u)
      <4>1. m \notin u.reads
        BY <1>2, <1>3
      <4>2. QED  BY <1>1, <4>1 DEF Feeds
    <3>2. QED  BY <3>1 DEF Direct
  <2>2. Hop(ts, {}) = {}
    BY DEF Hop
  <2>3. QED  BY <2>1, <2>2 DEF Reaches
<1>10. Arcs(all) = Arcs(ts)
  <2>1. \A t, u : Link(all, t, u) <=> Link(ts, t, u)
    BY <1>6, <1>8, <1>9 DEF Link
  <2>2. ASSUME NEW p
        PROVE  p \in Arcs(all) <=> p \in Arcs(ts)
    <3>1. \A S : p \in Arcs(S) <=> \E t, u : Link(S, t, u) /\ p = <<t.node, u.node>>
      BY JoinedHas
    <3>2. /\ p \in Arcs(all) <=> \E t, u : Link(all, t, u) /\ p = <<t.node, u.node>>
          /\ p \in Arcs(ts) <=> \E t, u : Link(ts, t, u) /\ p = <<t.node, u.node>>
      BY <3>1
    <3>3. QED  BY <2>1, <3>2
  <2>3. QED  BY <2>2
<1>11. QED  BY <1>5, <1>10

(* New tasks behind the writer of a channel: first reads what the task w   *)
(* writes, and nothing else joins the old tasks and the new ones.          *)
Behind(old, new, w, first) ==
  /\ w \in old /\ w.node # 0 /\ first \in new
  /\ \A t \in old, u \in new : Feeds(t, u) <=> t = w /\ u = first
  /\ \A t \in new, u \in old : ~Feeds(t, u)

LEMMA JoinedMore ==
  ASSUME NEW old, NEW new, NEW w, NEW first, Behind(old, new, w, first),
         NEW all, all = old \cup new, old \cap new = {}
  PROVE  \A p : p \in Arcs(all) <=>
           \/ p \in Arcs(old) \/ p \in Arcs(new)
           \/ \E u \in Named(Reaches(new, {first})) : p = <<w.node, u.node>>
<1>1. /\ w \in old /\ w.node # 0 /\ first \in new
      /\ \A t \in old, u \in new : Feeds(t, u) <=> t = w /\ u = first
      /\ \A t \in new, u \in old : ~Feeds(t, u)
  BY DEF Behind
<1>2. ASSUME NEW R, R \subseteq old, NEW Q, Q \subseteq new
      PROVE  /\ Hop(all, R \cup Q) = Hop(old, R) \cup Hop(new, Q)
             /\ Hop(old, R) \subseteq old /\ Hop(new, Q) \subseteq new
  <2>1. \A v \in R, u \in new : ~(v.node = 0 /\ Feeds(v, u))
    BY <1>1, <1>2
  <2>2. \A v \in Q, u \in old : ~Feeds(v, u)
    BY <1>1, <1>2
  <2>3. Hop(old, R) \subseteq old /\ Hop(new, Q) \subseteq new
    BY <1>2 DEF Hop
  <2>4. ASSUME NEW u
        PROVE  u \in Hop(all, R \cup Q) <=> u \in Hop(old, R) \cup Hop(new, Q)
    BY <2>1, <2>2 DEF Hop
  <2>5. QED  BY <2>3, <2>4
<1>3. ASSUME NEW R, R \subseteq old, NEW Q, Q \subseteq new
      PROVE  /\ Reaches(all, R \cup Q) = Reaches(old, R) \cup Reaches(new, Q)
             /\ Reaches(old, R) \subseteq old /\ Reaches(new, Q) \subseteq new
  <2>1. PICK R1, Q1 : R1 = Hop(old, R) /\ Q1 = Hop(new, Q)
    OBVIOUS
  <2>2. Hop(all, R \cup Q) = R1 \cup Q1 /\ R1 \subseteq old /\ Q1 \subseteq new
    BY <1>2, <1>3, <2>1
  <2>3. PICK R2, Q2 : R2 = Hop(old, R1) /\ Q2 = Hop(new, Q1)
    OBVIOUS
  <2>4. Hop(all, R1 \cup Q1) = R2 \cup Q2 /\ R2 \subseteq old /\ Q2 \subseteq new
    BY <1>2, <2>2, <2>3
  <2>5. /\ Hop(all, R2 \cup Q2) = Hop(old, R2) \cup Hop(new, Q2)
        /\ Hop(old, R2) \subseteq old /\ Hop(new, Q2) \subseteq new
    BY <1>2, <2>4
  <2>6. QED  BY <2>1, <2>2, <2>3, <2>4, <2>5 DEF Reaches
<1>4. \A ts : Reaches(ts, {}) = {}
  <2>1. \A ts : Hop(ts, {}) = {}
    BY DEF Hop
  <2>2. QED  BY <2>1 DEF Reaches
<1>5. ASSUME NEW t \in old
      PROVE  Reaches(all, Direct(all, t))
             = Reaches(old, Direct(old, t)) \cup (IF t = w THEN Reaches(new, {first}) ELSE {})
  <2>1. PICK R : R = Direct(old, t)
    OBVIOUS
  <2>2. R \subseteq old
    BY <2>1 DEF Direct
  <2>3. CASE t = w
    <3>1. Direct(all, t) = R \cup {first}
      BY <1>1, <2>1, <2>3 DEF Direct
    <3>2. {first} \subseteq new
      BY <1>1
    <3>3. Reaches(all, R \cup {first}) = Reaches(old, R) \cup Reaches(new, {first})
      BY <1>3, <2>2, <3>2
    <3>4. QED  BY <2>1, <2>3, <3>1, <3>3
  <2>4. CASE t # w
    <3>1. Direct(all, t) = R \cup {}
      BY <1>1, <2>1, <2>4 DEF Direct
    <3>2. Reaches(all, R \cup {}) = Reaches(old, R) \cup Reaches(new, {})
      BY <1>3, <2>2
    <3>3. QED  BY <1>4, <2>1, <2>4, <3>1, <3>2
  <2>5. QED  BY <2>3, <2>4
<1>6. ASSUME NEW t \in new
      PROVE  Reaches(all, Direct(all, t)) = Reaches(new, Direct(new, t))
  <2>1. PICK Q : Q = Direct(new, t)
    OBVIOUS
  <2>2. Q \subseteq new
    BY <2>1 DEF Direct
  <2>3. Direct(all, t) = {} \cup Q
    BY <1>1, <2>1 DEF Direct
  <2>4. Reaches(all, {} \cup Q) = Reaches(old, {}) \cup Reaches(new, Q)
    BY <1>3, <2>2
  <2>5. QED  BY <1>4, <2>1, <2>3, <2>4
<1>7. ASSUME NEW t, NEW u
      PROVE  Link(all, t, u) <=>
               \/ Link(old, t, u) \/ Link(new, t, u)
               \/ t = w /\ u \in Named(Reaches(new, {first}))
  <2>1. CASE t \in old
    <3>1. CASE t = w
      BY <1>1, <1>5, <2>1, <3>1 DEF Link, Named
    <3>2. CASE t # w
      BY <1>5, <2>1, <3>2 DEF Link, Named
    <3>3. QED  BY <3>1, <3>2
  <2>2. CASE t \in new
    BY <1>1, <1>6, <2>2 DEF Link
  <2>3. CASE t \notin all
    BY <1>1, <2>3 DEF Link
  <2>4. QED  BY <2>1, <2>2, <2>3
<1>8. ASSUME NEW p
      PROVE  p \in Arcs(all) <=>
               \/ p \in Arcs(old) \/ p \in Arcs(new)
               \/ \E u \in Named(Reaches(new, {first})) : p = <<w.node, u.node>>
  <2>1. \A ts : p \in Arcs(ts) <=> \E t, u : Link(ts, t, u) /\ p = <<t.node, u.node>>
    BY JoinedHas
  <2>2. ASSUME p \in Arcs(all)
        PROVE  \/ p \in Arcs(old) \/ p \in Arcs(new)
               \/ \E u \in Named(Reaches(new, {first})) : p = <<w.node, u.node>>
    <3>1. PICK t, u : Link(all, t, u) /\ p = <<t.node, u.node>>
      BY <2>1, <2>2
    <3>2. CASE Link(old, t, u) \/ Link(new, t, u)
      BY <2>1, <3>1, <3>2
    <3>3. CASE t = w /\ u \in Named(Reaches(new, {first}))
      BY <3>1, <3>3
    <3>4. QED  BY <1>7, <3>1, <3>2, <3>3
  <2>3. ASSUME p \in Arcs(old) \/ p \in Arcs(new)
        PROVE  p \in Arcs(all)
    BY <1>7, <2>1, <2>3
  <2>4. ASSUME NEW u \in Named(Reaches(new, {first})), p = <<w.node, u.node>>
        PROVE  p \in Arcs(all)
    <3>1. Link(all, w, u)
      BY <1>7, <2>4
    <3>2. QED  BY <2>1, <2>4, <3>1
  <2>5. QED  BY <2>2, <2>3, <2>4
<1>9. QED  BY <1>8

(* New tasks with the channels n + 1 to m of their own, the first of which *)
(* reads feed and the one of node writes out, or nothing for out = 0.        *)
NewTasks(new, first, n, m, feed, node, out) ==
  /\ first \in new /\ first.reads = {feed} /\ first.writes \subseteq (n + 1)..m
  /\ \A t \in new : t.writes \subseteq (n + 1)..m
  /\ \A t \in new : t # first => t.reads \subseteq (n + 1)..m /\ t.writes # {}
  /\ \A c \in (n + 1)..m : \E t \in new : {u \in new : c \in u.writes} = {t}
  /\ \A c \in (n + 1)..m : c # out => \E t \in new : {u \in new : c \in u.reads} = {t}
  /\ \A t \in new : out \in t.writes => t.node = node
  /\ out \in {0} \cup (n + 1)..m
  /\ {u \in new : out \in u.reads} = {}

LEMMA WiredMore ==
  ASSUME NEW old, NEW n \in Nat, NEW from, NEW feed \in 1..n, Wired(old, n, from, feed),
         NEW new, NEW first, NEW m \in Nat, n <= m, NEW node, NEW out,
         NewTasks(new, first, n, m, feed, node, out),
         NEW all, all = old \cup new
  PROVE  Wired(all, m, node, out)
<1>1. /\ \A t \in old : t.reads \subseteq 1..n /\ t.writes \subseteq 1..n
      /\ \A c \in 1..n : \E t \in old : {u \in old : c \in u.writes} = {t}
      /\ \A c \in 1..n : c # feed => \E t \in old : {u \in old : c \in u.reads} = {t}
      /\ {u \in old : feed \in u.reads} = {}
  BY DEF Wired
<1>2. /\ first \in new /\ first.reads = {feed}
      /\ \A t \in new : t.writes \subseteq (n + 1)..m
      /\ \A t \in new : t # first => t.reads \subseteq (n + 1)..m
      /\ \A c \in (n + 1)..m : \E t \in new : {u \in new : c \in u.writes} = {t}
      /\ \A c \in (n + 1)..m : c # out => \E t \in new : {u \in new : c \in u.reads} = {t}
      /\ \A t \in new : out \in t.writes => t.node = node
      /\ out \in {0} \cup (n + 1)..m
      /\ {u \in new : out \in u.reads} = {}
  BY DEF NewTasks
<1>3. /\ \A c \in 1..m : c \in 1..n \/ c \in (n + 1)..m
      /\ \A c \in 1..n : c \notin (n + 1)..m /\ c \in 1..m /\ c # out
      /\ \A c \in (n + 1)..m : c \notin 1..n /\ c \in 1..m
      /\ out \notin 1..n
  BY <1>2
<1>4. \A t \in all : t.reads \cup t.writes \subseteq 1..m
  BY <1>1, <1>2, <1>3
<1>5. ASSUME NEW c \in 1..m
      PROVE  \E t \in all : {u \in all : c \in u.writes} = {t}
  <2>1. CASE c \in 1..n
    <3>1. PICK t \in old : {u \in old : c \in u.writes} = {t}
      BY <1>1, <2>1
    <3>2. \A u \in new : c \notin u.writes
      BY <1>2, <1>3, <2>1
    <3>3. {u \in all : c \in u.writes} = {t}
      BY <3>1, <3>2
    <3>4. QED  BY <3>1, <3>3
  <2>2. CASE c \in (n + 1)..m
    <3>1. PICK t \in new : {u \in new : c \in u.writes} = {t}
      BY <1>2, <2>2
    <3>2. \A u \in old : c \notin u.writes
      BY <1>1, <1>3, <2>2
    <3>3. {u \in all : c \in u.writes} = {t}
      BY <3>1, <3>2
    <3>4. QED  BY <3>1, <3>3
  <2>3. QED  BY <1>3, <2>1, <2>2
<1>6. ASSUME NEW c \in 1..m, c # out
      PROVE  \E t \in all : {u \in all : c \in u.reads} = {t}
  <2>1. CASE c = feed
    <3>1. \A u \in new : c \in u.reads => u = first
      BY <1>2, <1>3, <2>1
    <3>2. \A u \in old : c \notin u.reads
      BY <1>1, <2>1
    <3>3. c \in first.reads
      BY <1>2, <2>1
    <3>4. {u \in all : c \in u.reads} = {first}
      BY <1>2, <3>1, <3>2, <3>3
    <3>5. QED  BY <1>2, <3>4
  <2>2. CASE c \in 1..n /\ c # feed
    <3>1. PICK t \in old : {u \in old : c \in u.reads} = {t}
      BY <1>1, <2>2
    <3>2. \A u \in new : c \notin u.reads
      BY <1>2, <1>3, <2>2
    <3>3. {u \in all : c \in u.reads} = {t}
      BY <3>1, <3>2
    <3>4. QED  BY <3>1, <3>3
  <2>3. CASE c \in (n + 1)..m
    <3>1. PICK t \in new : {u \in new : c \in u.reads} = {t}
      BY <1>2, <1>6, <2>3
    <3>2. \A u \in old : c \notin u.reads
      BY <1>1, <1>3, <2>3
    <3>3. {u \in all : c \in u.reads} = {t}
      BY <3>1, <3>2
    <3>4. QED  BY <3>1, <3>3
  <2>4. QED  BY <1>3, <2>1, <2>2, <2>3
<1>7. {u \in all : out \in u.reads} = {}
  BY <1>1, <1>2, <1>3
<1>8. \A t \in all : out \in t.writes => t.node = node
  BY <1>1, <1>2, <1>3
<1>9. QED  BY <1>4, <1>5, <1>6, <1>7, <1>8 DEF Wired

(* The new tasks are behind the task that writes feed, and new. *)
LEMMA BehindIs ==
  ASSUME NEW old, NEW n \in Nat, NEW from, from # 0, NEW feed \in 1..n, Wired(old, n, from, feed),
         NEW new, NEW first, NEW m \in Nat, NEW node, NEW out,
         NewTasks(new, first, n, m, feed, node, out)
  PROVE  old \cap new = {} /\ \E w : w.node = from /\ Behind(old, new, w, first)
<1>1. /\ \A t \in old : t.reads \subseteq 1..n /\ t.writes \subseteq 1..n
      /\ \A c \in 1..n : \E t \in old : {u \in old : c \in u.writes} = {t}
      /\ {u \in old : feed \in u.reads} = {}
      /\ \A t \in old : feed \in t.writes => t.node = from
  BY DEF Wired
<1>2. /\ first \in new /\ first.reads = {feed}
      /\ \A t \in new : t.writes \subseteq (n + 1)..m
      /\ \A t \in new : t # first => t.reads \subseteq (n + 1)..m /\ t.writes # {}
  BY DEF NewTasks
<1>3. \A c \in (n + 1)..m : c \notin 1..n
  OBVIOUS
<1>4. PICK w \in old : {u \in old : feed \in u.writes} = {w}
  BY <1>1
<1>5. w.node = from
  BY <1>1, <1>4
<1>6. ASSUME NEW t \in old, NEW u \in new
      PROVE  Feeds(t, u) <=> t = w /\ u = first
  <2>1. CASE u = first
    <3>1. Feeds(t, u) <=> feed \in t.writes
      BY <1>2, <2>1 DEF Feeds
    <3>2. QED  BY <1>4, <2>1, <3>1
  <2>2. CASE u # first
    BY <1>1, <1>2, <1>3, <2>2 DEF Feeds
  <2>3. QED  BY <2>1, <2>2
<1>7. \A t \in new, u \in old : ~Feeds(t, u)
  BY <1>1, <1>2, <1>3 DEF Feeds
<1>8. Behind(old, new, w, first)
  BY <1>2, <1>4, <1>5, <1>6, <1>7 DEF Behind
<1>9. \A t \in new : t \notin old
  <2>1. first \notin old
    BY <1>1, <1>2
  <2>2. ASSUME NEW t \in new, t # first
        PROVE  t \notin old
    BY <1>1, <1>2, <1>3, <2>2
  <2>3. QED  BY <2>1, <2>2
<1>10. QED  BY <1>5, <1>8, <1>9

(* The new tasks are those of one node, the one op runs. *)
NewNode(new, first, n, m, feed, node, out, op) ==
  /\ NewTasks(new, first, n, m, feed, node, out)
  /\ Arcs(new) = {} /\ Named(Reaches(new, {first})) = {op}

Attached(all, old, from, m, node, out, op) ==
  Wired(all, m, node, out) /\ Arcs(all) = Arcs(old) \cup {<<from, op.node>>}

(* One node more: its tasks join the node of the stream with it. *)
LEMMA OneNodeMore ==
  ASSUME NEW old, NEW n \in Nat, NEW from, from # 0, NEW feed \in 1..n, Wired(old, n, from, feed),
         NEW new, NEW first, NEW m \in Nat, n <= m, NEW node, NEW out,
         NEW op, NewNode(new, first, n, m, feed, node, out, op),
         NEW all, all = old \cup new
  PROVE  Attached(all, old, from, m, node, out, op)
<1> USE DEF NewNode
<1>1. Wired(all, m, node, out)
  BY WiredMore
<1>2. old \cap new = {} /\ \E w : w.node = from /\ Behind(old, new, w, first)
  BY BehindIs
<1>3. PICK w : w.node = from /\ Behind(old, new, w, first)
  BY <1>2
<1>4. \A p : p \in Arcs(all) <=>
           \/ p \in Arcs(old) \/ p \in Arcs(new)
           \/ \E u \in Named(Reaches(new, {first})) : p = <<w.node, u.node>>
  <2>1. Behind(old, new, w, first) /\ old \cap new = {}
    BY <1>2, <1>3
  <2>2. QED  BY <2>1, JoinedMore
<1>5. \A p : p \in Arcs(all) <=> p \in Arcs(old) \cup {<<from, op.node>>}
  BY <1>3, <1>4
<1>6. QED  BY <1>1, <1>5 DEF Attached

(* The task of an operator or of a sink. *)
LEMMA OneTask ==
  ASSUME NEW op, ~Feeds(op, op), op.node # 0
  PROVE  Arcs({op}) = {} /\ Named(Reaches({op}, {op})) = {op}
<1>1. Direct({op}, op) = {}
  BY DEF Direct
<1>2. Hop({op}, {}) = {} /\ Hop({op}, {op}) = {op}
  BY DEF Hop
<1>3. Reaches({op}, {}) = {} /\ Reaches({op}, {op}) = {op}
  BY <1>2 DEF Reaches
<1>4. Named({op}) = {op}
  BY DEF Named
<1>5. \A t, u : ~Link({op}, t, u)
  BY <1>1, <1>3 DEF Link
<1>6. \A p : p \notin Arcs({op})
  BY <1>5, JoinedHas
<1>7. QED  BY <1>3, <1>4, <1>6

LEMMA OperatorTask ==
  ASSUME NEW n \in Nat, NEW feed \in 1..n, NEW node, node # 0, NEW m, m = n + 1,
         NEW op, op = TaskOf(node, {feed}, {m})
  PROVE  NewNode({op}, op, n, m, feed, node, m, op)
<1>1. op.node = node /\ op.reads = {feed} /\ op.writes = {m}
  BY DEF TaskOf
<1>2. (n + 1)..m = {m} /\ feed # m
  OBVIOUS
<1>3. ~Feeds(op, op)
  BY <1>1, <1>2 DEF Feeds
<1>4. NewTasks({op}, op, n, m, feed, node, m)
  BY <1>1, <1>2 DEF NewTasks
<1>5. Arcs({op}) = {} /\ Named(Reaches({op}, {op})) = {op}
  BY <1>1, <1>3, OneTask
<1>6. QED  BY <1>4, <1>5 DEF NewNode

LEMMA SinkTask ==
  ASSUME NEW n \in Nat, NEW feed \in 1..n, NEW node, node # 0,
         NEW op, op = TaskOf(node, {feed}, {})
  PROVE  NewNode({op}, op, n, n, feed, 0, 0, op)
<1>1. op.node = node /\ op.reads = {feed} /\ op.writes = {}
  BY DEF TaskOf
<1>2. (n + 1)..n = {} /\ feed # 0
  OBVIOUS
<1>3. ~Feeds(op, op)
  BY <1>1 DEF Feeds
<1>4. NewTasks({op}, op, n, n, feed, 0, 0)
  BY <1>1, <1>2 DEF NewTasks
<1>5. Arcs({op}) = {} /\ Named(Reaches({op}, {op})) = {op}
  BY <1>1, <1>3, OneTask
<1>6. QED  BY <1>4, <1>5 DEF NewNode

TwoInputOf(new, in1, in2, merge, op, n, feed, node) ==
  /\ in1 = TaskOf(0, {feed}, {n + 1}) /\ in2 = TaskOf(0, {}, {n + 2})
  /\ merge = TaskOf(0, {n + 1, n + 2}, {n + 3}) /\ op = TaskOf(node, {n + 3}, {n + 4})
  /\ new = {in1, in2, merge, op}

(* The tasks of a two-input operator: only its own bears its node, and it  *)
(* is reached over the input task and the merge.                           *)
LEMMA TwoInputs ==
  ASSUME NEW n \in Nat, NEW feed \in 1..n, NEW node, node # 0,
         NEW in1, NEW in2, NEW merge, NEW op, NEW new,
         TwoInputOf(new, in1, in2, merge, op, n, feed, node), NEW m, m = n + 4
  PROVE  NewNode(new, in1, n, m, feed, node, m, op)
<1>1. /\ in1.node = 0 /\ in1.reads = {feed} /\ in1.writes = {n + 1}
      /\ in2.node = 0 /\ in2.reads = {} /\ in2.writes = {n + 2}
      /\ merge.node = 0 /\ merge.reads = {n + 1, n + 2} /\ merge.writes = {n + 3}
      /\ op.node = node /\ op.reads = {n + 3} /\ op.writes = {n + 4}
  BY DEF TaskOf, TwoInputOf
<1>2. /\ in1 \in new /\ in2 \in new /\ merge \in new /\ op \in new
      /\ \A u \in new : u = in1 \/ u = in2 \/ u = merge \/ u = op
  BY DEF TwoInputOf
<1>3. /\ (n + 1)..m = {n + 1, n + 2, n + 3, n + 4}
      /\ \A k \in {n + 1, n + 2, n + 3, n + 4} : feed # k
  OBVIOUS
<1>4. /\ n + 1 # n + 2 /\ n + 1 # n + 3 /\ n + 1 # n + 4
      /\ n + 2 # n + 3 /\ n + 2 # n + 4 /\ n + 3 # n + 4
  OBVIOUS
<1>5. \A t, u \in new : Feeds(t, u) <=>
        \/ t \in {in1, in2} /\ u = merge
        \/ t = merge /\ u = op
  <2>1. \A u \in new : (Feeds(in1, u) <=> u = merge) /\ (Feeds(in2, u) <=> u = merge)
    <3>1. \A u : /\ Feeds(in1, u) <=> n + 1 \in u.reads
                 /\ Feeds(in2, u) <=> n + 2 \in u.reads
      BY <1>1 DEF Feeds
    <3>2. QED  BY <1>1, <1>3, <1>4, <1>2, <3>1
  <2>2. \A u \in new : (Feeds(merge, u) <=> u = op) /\ ~Feeds(op, u)
    <3>1. \A u : /\ Feeds(merge, u) <=> n + 3 \in u.reads
                 /\ Feeds(op, u) <=> n + 4 \in u.reads
      BY <1>1 DEF Feeds
    <3>2. QED  BY <1>1, <1>3, <1>4, <1>2, <3>1
  <2>3. op # in1 /\ op # in2 /\ op # merge /\ merge # in1 /\ merge # in2
    BY <1>1, <1>4
  <2>4. QED  BY <1>2, <2>1, <2>2, <2>3
<1>6. NewTasks(new, in1, n, m, feed, node, m)
  <2>1. /\ {u \in new : n + 1 \in u.writes} = {in1} /\ {u \in new : n + 2 \in u.writes} = {in2}
        /\ {u \in new : n + 3 \in u.writes} = {merge} /\ {u \in new : n + 4 \in u.writes} = {op}
    BY <1>1, <1>4, <1>2
  <2>2. /\ {u \in new : n + 1 \in u.reads} = {merge} /\ {u \in new : n + 2 \in u.reads} = {merge}
        /\ {u \in new : n + 3 \in u.reads} = {op} /\ {u \in new : n + 4 \in u.reads} = {}
    BY <1>1, <1>3, <1>4, <1>2
  <2>3. \A c \in (n + 1)..m : \E t \in new : {u \in new : c \in u.writes} = {t}
    <3>1. ASSUME NEW c \in (n + 1)..m
          PROVE  \E t \in new : {u \in new : c \in u.writes} = {t}
      <4>1. c = n + 1 \/ c = n + 2 \/ c = n + 3 \/ c = n + 4
        OBVIOUS
      <4>2. CASE c = n + 1
        BY <1>2, <2>1, <4>2
      <4>3. CASE c = n + 2
        BY <1>2, <2>1, <4>3
      <4>4. CASE c = n + 3
        BY <1>2, <2>1, <4>4
      <4>5. CASE c = n + 4
        BY <1>2, <2>1, <4>5
      <4>6. QED  BY <4>1, <4>2, <4>3, <4>4, <4>5
    <3>2. QED  BY <3>1
  <2>4. \A c \in (n + 1)..m : c # m => \E t \in new : {u \in new : c \in u.reads} = {t}
    <3>1. ASSUME NEW c \in (n + 1)..m, c # m
          PROVE  \E t \in new : {u \in new : c \in u.reads} = {t}
      <4>1. c = n + 1 \/ c = n + 2 \/ c = n + 3
        BY <3>1
      <4>2. CASE c = n + 1
        BY <1>2, <2>2, <4>2
      <4>3. CASE c = n + 2
        BY <1>2, <2>2, <4>3
      <4>4. CASE c = n + 3
        BY <1>2, <2>2, <4>4
      <4>5. QED  BY <4>1, <4>2, <4>3, <4>4
    <3>2. QED  BY <3>1
  <2>5. /\ \A t \in new : t.writes \subseteq (n + 1)..m /\ t.writes # {}
        /\ \A t \in new : t # in1 => t.reads \subseteq (n + 1)..m
        /\ \A t \in new : m \in t.writes => t.node = node
    BY <1>1, <1>3, <1>4, <1>2
  <2>6. m \in {0} \cup (n + 1)..m /\ in1 \in new /\ in1.reads = {feed}
        /\ in1.writes \subseteq (n + 1)..m /\ {u \in new : m \in u.reads} = {}
    BY <1>1, <1>3, <1>2, <2>2
  <2>7. QED  BY <2>3, <2>4, <2>5, <2>6 DEF NewTasks
<1>7. Hop(new, {in1}) = {in1, merge} /\ Hop(new, {in1, merge}) = {in1, merge, op}
      /\ Hop(new, {in1, merge, op}) = {in1, merge, op} /\ Hop(new, {}) = {}
  <2>1. \A u : u \in Hop(new, {in1}) <=> u \in {in1, merge}
    BY <1>1, <1>5, <1>2 DEF Hop
  <2>2. \A u : u \in Hop(new, {in1, merge}) <=> u \in {in1, merge, op}
    BY <1>1, <1>5, <1>2 DEF Hop
  <2>3. \A u : u \in Hop(new, {in1, merge, op}) <=> u \in {in1, merge, op}
    BY <1>1, <1>5, <1>2 DEF Hop
  <2>4. Hop(new, {}) = {}
    BY DEF Hop
  <2>5. QED  BY <2>1, <2>2, <2>3, <2>4
<1>8. Named(Reaches(new, {in1})) = {op}
  <2>1. Reaches(new, {in1}) = {in1, merge, op}
    BY <1>7 DEF Reaches
  <2>2. QED  BY <1>1, <2>1 DEF Named
<1>9. Arcs(new) = {}
  <2>1. Direct(new, op) = {} /\ Reaches(new, {}) = {}
    <3>1. op # in1 /\ op # in2 /\ op # merge
      BY <1>1
    <3>2. \A u \in new : ~Feeds(op, u)
      BY <1>5, <1>2, <3>1
    <3>3. QED  BY <1>7, <3>2 DEF Direct, Reaches
  <2>2. \A t, u : ~Link(new, t, u)
    BY <1>1, <1>2, <2>1 DEF Link
  <2>3. \A S, p : p \in Arcs(S) <=> \E t, u : Link(S, t, u) /\ p = <<t.node, u.node>>
    BY JoinedHas
  <2>4. \A p : p \notin Arcs(new)
    BY <2>2, <2>3
  <2>5. QED  BY <2>4
<1>10. QED  BY <1>6, <1>8, <1>9 DEF NewNode

-----------------------------------------------------------------------------
(* What the next operator reads: the stream's channel, or its drainer's.   *)
LEMMA WiredIs ==
  ASSUME PlanInv, WiringInv, stream # NoStream
  PROVE  /\ WiredChannels \in Nat /\ WiredInput \in 1..WiredChannels /\ stream.node # 0
         /\ Wired(WiredTasks, WiredChannels, stream.node, WiredInput)
         /\ Arcs(WiredTasks) = Arcs(tasks)
<1>1. /\ channels \in Nat /\ stream.upstream \in 0..channels
      /\ stream.node \in NodeIds(graph) /\ graph.nodes \in Seq(Range(graph.nodes))
  BY DEF PlanInv, WellFormed, IsGraph
<1>2. stream.node # 0
  <2>1. PICK R : R = Range(graph.nodes)
    OBVIOUS
  <2>2. NodeIds(graph) = 1..Len(graph.nodes)
    BY <1>1, <2>1 DEF NodeIds
  <2>3. QED  BY <1>1, <2>2
<1>3. Wired(tasks, channels, stream.node, stream.upstream)
  BY DEF WiringInv
<1>4. CASE FromSourceUpstream
  <2>1. PICK m : m = channels + 1
    OBVIOUS
  <2>2. PICK node : node = stream.node
    OBVIOUS
  <2>3. PICK d : d = TaskOf(node, {}, {m})
    OBVIOUS
  <2>4. PICK all : all = tasks \cup {d}
    OBVIOUS
  <2>5. WiredInput = m /\ WiredChannels = m /\ WiredTasks = all
    BY <1>4, <2>1, <2>2, <2>3, <2>4 DEF WiredInput, WiredChannels, WiredTasks
  <2>6. PICK ts : ts = tasks
    OBVIOUS
  <2>7. PICK n : n = channels
    OBVIOUS
  <2>8. Wired(ts, n, node, 0) /\ n \in Nat
    BY <1>1, <1>3, <1>4, <2>2, <2>6, <2>7 DEF FromSourceUpstream
  <2>9. Wired(all, m, node, m) /\ Arcs(all) = Arcs(ts)
    <3>1. Wired(ts, n, node, 0)
      BY <2>8
    <3>2. n \in Nat /\ m = n + 1 /\ all = ts \cup {d}
      BY <2>1, <2>4, <2>6, <2>7, <2>8
    <3>3. QED  BY <2>3, <3>1, <3>2, DrainerKeeps
  <2>10. m \in Nat /\ m \in 1..m
    BY <1>1, <2>1
  <2>11. QED  BY <1>2, <2>2, <2>5, <2>6, <2>9, <2>10
<1>5. CASE ~FromSourceUpstream
  <2>1. WiredInput = stream.upstream /\ WiredChannels = channels /\ WiredTasks = tasks
    BY <1>5 DEF WiredInput, WiredChannels, WiredTasks
  <2>2. stream.upstream \in 1..channels
    BY <1>1, <1>5 DEF FromSourceUpstream
  <2>3. QED  BY <1>1, <1>2, <1>3, <2>1, <2>2
<1>6. QED  BY <1>4, <1>5

LEMMA AddEdgeArrow ==
  ASSUME NEW G, WellFormed(G), NEW from, NEW to, NEW strategy,
         NEW H, H = AddEdge(G, from, to, strategy)
  PROVE  Arrows(H) = Arrows(G) \cup {<<from, to>>}
<1>1. PICK q : q = G.edges
  OBVIOUS
<1>2. PICK x : x = [from |-> from, to |-> to, strategy |-> strategy]
  OBVIOUS
<1>3. PICK a : a = Append(q, x)
  OBVIOUS
<1>4. H.edges = a
  BY <1>1, <1>2, <1>3 DEF AddEdge, WellFormed
<1>5. Extended(q, x, a)
  <2>1. q \in Seq(Range(q))
    BY <1>1 DEF WellFormed, IsGraph
  <2>2. QED  BY <1>3, <2>1, ExtendSeq
<1>6. /\ DOMAIN a = 1..(Len(q) + 1) /\ DOMAIN q = 1..Len(q) /\ Len(q) \in Nat
      /\ a[Len(q) + 1] = x /\ \A i \in 1..Len(q) : a[i] = q[i]
  BY <1>5 DEF Extended
<1>7. x.from = from /\ x.to = to
  BY <1>2
<1>8. \A k \in 1..(Len(q) + 1) : k \in 1..Len(q) \/ k = Len(q) + 1
  BY <1>6
<1>9. Len(q) + 1 \in 1..(Len(q) + 1) /\ 1..Len(q) \subseteq 1..(Len(q) + 1)
  BY <1>6
<1>10. ASSUME NEW p
       PROVE  p \in Arrows(H) <=> p \in Arrows(G) \/ p = <<from, to>>
  <2>1. p \in Arrows(H) <=> \E k \in 1..(Len(q) + 1) : p = <<a[k].from, a[k].to>>
    BY <1>4, <1>6 DEF Arrows
  <2>2. p \in Arrows(G) <=> \E k \in 1..Len(q) : p = <<q[k].from, q[k].to>>
    BY <1>1, <1>6 DEF Arrows
  <2>3. QED  BY <1>6, <1>7, <1>8, <1>9, <2>1, <2>2
<1>11. QED  BY <1>10

(* A new node joins the graph by one edge from the stream's node. *)
LEMMA GrowArrow ==
  ASSUME PlanInv, NEW name, Grow(name)
  PROVE  Arrows(graph') = Arrows(graph) \cup {<<stream.node, NextNode>>}
<1>1. PICK G : G = graph
  OBVIOUS
<1>2. PICK H : H = AddNode(G, name, 1)
  OBVIOUS
<1>3. WellFormed(G) /\ 1 \in Nat
  BY <1>1 DEF PlanInv
<1>4. WellFormed(H) /\ H.edges = G.edges
  BY <1>2, <1>3, AddNodeKeeps
<1>5. PICK from : from = stream.node
  OBVIOUS
<1>6. PICK to : to = NextNode
  OBVIOUS
<1>7. PICK strategy : strategy = "forward"
  OBVIOUS
<1>8. PICK K : K = AddEdge(H, from, to, strategy)
  OBVIOUS
<1>9. Arrows(K) = Arrows(H) \cup {<<from, to>>}
  <2>1. WellFormed(H)
    BY <1>4
  <2>2. QED  BY <1>8, <2>1, AddEdgeArrow
<1>10. graph' = K
  BY <1>1, <1>2, <1>5, <1>6, <1>7, <1>8 DEF Grow
<1>11. Arrows(H) = Arrows(graph)
  BY <1>1, <1>4 DEF Arrows
<1>12. QED  BY <1>5, <1>6, <1>9, <1>10, <1>11

(* The tasks of the next node are wired to the stream's node, and the graph *)
(* gets the edge that says so.                                              *)
LEMMA AttachKeeps ==
  ASSUME PlanInv, WiringInv, stream # NoStream, NEW name, Grow(name), builder' = builder,
         NEW new, NEW first, NEW m \in Nat, WiredChannels <= m, NEW node, NEW out,
         NEW op, op.node = NextNode,
         NewNode(new, first, WiredChannels, m, WiredInput, node, out, op),
         tasks' = WiredTasks \cup new, channels' = m,
         stream'.node = node, stream'.upstream = out
  PROVE  WiringInv'
<1>1. PICK old : old = WiredTasks
  OBVIOUS
<1>2. PICK n : n = WiredChannels
  OBVIOUS
<1>3. PICK feed : feed = WiredInput
  OBVIOUS
<1>4. PICK from : from = stream.node
  OBVIOUS
<1>5. PICK all : all = old \cup new
  OBVIOUS
<1>6. n \in Nat /\ feed \in 1..n /\ from # 0 /\ Wired(old, n, from, feed) /\ Arcs(old) = Arcs(tasks)
  BY <1>1, <1>2, <1>3, <1>4, WiredIs
<1>7. NewNode(new, first, n, m, feed, node, out, op) /\ n <= m
  BY <1>2, <1>3
<1>8. Attached(all, old, from, m, node, out, op)
  <2>1. /\ n \in Nat /\ feed \in 1..n
    BY <1>6
  <2>2. from # 0
    BY <1>6
  <2>3. Wired(old, n, from, feed)
    BY <1>6
  <2>4. NewNode(new, first, n, m, feed, node, out, op)
    BY <1>7
  <2>5. n <= m /\ m \in Nat
    BY <1>7
  <2>6. QED  BY <1>5, <2>1, <2>2, <2>3, <2>4, <2>5, OneNodeMore
<1>9. Wired(tasks', channels', stream'.node, stream'.upstream)
  BY <1>1, <1>5, <1>8 DEF Attached
<1>10. Arrows(graph') = Arrows(graph) \cup {<<from, NextNode>>}
  BY <1>4, GrowArrow
<1>11. ASSUME builder' = "api"
       PROVE  Arrows(graph') = Arcs(tasks')
  <2>1. Arrows(graph) = Arcs(tasks)
    BY <1>11 DEF WiringInv
  <2>2. tasks' = all
    BY <1>1, <1>5
  <2>3. QED  BY <1>6, <1>8, <1>10, <2>1, <2>2 DEF Attached
<1>12. QED  BY <1>9, <1>11 DEF WiringInv

LEMMA WiringStarts == PlanInit => WiringInv
<1> SUFFICES ASSUME PlanInit PROVE WiringInv
  OBVIOUS
<1>1. /\ tasks = {} /\ channels = 0 /\ stream.node = 0 /\ stream.upstream = 0
      /\ graph.edges = <<>>
  BY DEF PlanInit, NoStream, EmptyGraph
<1>2. Wired({}, 0, 0, 0)
  <2>1. 1..0 = {}
    OBVIOUS
  <2>2. QED  BY <2>1 DEF Wired
<1>3. Arrows(graph) = {}
  BY <1>1 DEF Arrows
<1>4. Arcs({}) = {}
  BY DEF Arcs, Named
<1>5. QED  BY <1>1, <1>2, <1>3, <1>4 DEF WiringInv

(* Every call wires what the graph says. *)
LEMMA WiringSteps == PlanInv /\ WiringInv /\ [PlanNext]_planVars => WiringInv'
<1> SUFFICES ASSUME PlanInv, WiringInv, [PlanNext]_planVars PROVE WiringInv'
  OBVIOUS
<1>1. NextNode # 0
  <2>1. PICK R : R = Range(graph.nodes)
    OBVIOUS
  <2>2. graph.nodes \in Seq(R)
    BY <2>1 DEF PlanInv, WellFormed, IsGraph
  <2>3. Len(graph.nodes) \in Nat
    BY <2>2
  <2>4. QED  BY <2>3 DEF NextNode
<1>2. ASSUME NEW name, ApplyOperator(name)
      PROVE  WiringInv'
  <2>1. stream # NoStream /\ builder' = builder /\ Grow(name)
    BY <1>2 DEF ApplyOperator
  <2>2. WiredChannels \in Nat /\ WiredInput \in 1..WiredChannels
    BY <2>1, WiredIs
  <2>3. PICK n : n = WiredChannels
    OBVIOUS
  <2>4. PICK feed : feed = WiredInput
    OBVIOUS
  <2>5. PICK m : m = n + 1
    OBVIOUS
  <2>6. PICK node : node = NextNode
    OBVIOUS
  <2>7. PICK op : op = TaskOf(node, {feed}, {m})
    OBVIOUS
  <2>8. n \in Nat /\ feed \in 1..n /\ node # 0
    BY <1>1, <2>2, <2>3, <2>4, <2>6
  <2>9. NewNode({op}, op, n, m, feed, node, m, op)
    BY <2>5, <2>7, <2>8, OperatorTask
  <2>10. /\ tasks' = WiredTasks \cup {op} /\ channels' = m
         /\ stream'.node = node /\ stream'.upstream = m
    BY <1>2, <2>3, <2>4, <2>5, <2>6, <2>7 DEF ApplyOperator, Continue
  <2>11. op.node = NextNode /\ m \in Nat /\ WiredChannels <= m
    BY <2>3, <2>5, <2>6, <2>7, <2>8 DEF TaskOf
  <2>12. NewNode({op}, op, WiredChannels, m, WiredInput, node, m, op)
    BY <2>3, <2>4, <2>9
  <2>13. QED  BY <2>1, <2>10, <2>11, <2>12, AttachKeeps
<1>3. ASSUME NEW name, ApplyTwoInput(name)
      PROVE  WiringInv'
  <2>1. stream # NoStream /\ builder' = builder /\ Grow(name)
    BY <1>3 DEF ApplyTwoInput
  <2>2. WiredChannels \in Nat /\ WiredInput \in 1..WiredChannels
    BY <2>1, WiredIs
  <2>3. PICK n : n = WiredChannels
    OBVIOUS
  <2>4. PICK feed : feed = WiredInput
    OBVIOUS
  <2>5. PICK m : m = n + 4
    OBVIOUS
  <2>6. PICK node : node = NextNode
    OBVIOUS
  <2>7. PICK in1 : in1 = TaskOf(0, {feed}, {n + 1})
    OBVIOUS
  <2>8. PICK in2 : in2 = TaskOf(0, {}, {n + 2})
    OBVIOUS
  <2>9. PICK merge : merge = TaskOf(0, {n + 1, n + 2}, {n + 3})
    OBVIOUS
  <2>10. PICK op : op = TaskOf(node, {n + 3}, {n + 4})
    OBVIOUS
  <2>11. PICK new : new = {in1, in2, merge, op}
    OBVIOUS
  <2>12. n \in Nat /\ feed \in 1..n /\ node # 0
    BY <1>1, <2>2, <2>3, <2>4, <2>6
  <2>13. NewNode(new, in1, n, m, feed, node, m, op)
    <3>1. TwoInputOf(new, in1, in2, merge, op, n, feed, node)
      BY <2>7, <2>8, <2>9, <2>10, <2>11 DEF TwoInputOf
    <3>2. QED  BY <2>5, <2>12, <3>1, TwoInputs
  <2>14. TwoInputTasks(n) = new
    BY <2>4, <2>6, <2>7, <2>8, <2>9, <2>10, <2>11 DEF TwoInputTasks
  <2>15. /\ tasks' = WiredTasks \cup new /\ channels' = m
         /\ stream'.node = node /\ stream'.upstream = m
    BY <1>3, <2>3, <2>5, <2>6, <2>14 DEF ApplyTwoInput, Continue
  <2>16. op.node = NextNode /\ m \in Nat /\ WiredChannels <= m
    BY <2>3, <2>5, <2>6, <2>10, <2>12 DEF TaskOf
  <2>17. NewNode(new, in1, WiredChannels, m, WiredInput, node, m, op)
    BY <2>3, <2>4, <2>13
  <2>18. QED  BY <2>1, <2>15, <2>16, <2>17, AttachKeeps
<1>4. CASE AddSink
  <2>1. stream # NoStream /\ builder' = builder /\ Grow("sink")
    BY <1>4 DEF AddSink
  <2>2. WiredChannels \in Nat /\ WiredInput \in 1..WiredChannels
    BY <2>1, WiredIs
  <2>3. PICK n : n = WiredChannels
    OBVIOUS
  <2>4. PICK feed : feed = WiredInput
    OBVIOUS
  <2>5. PICK node : node = NextNode
    OBVIOUS
  <2>6. PICK op : op = TaskOf(node, {feed}, {})
    OBVIOUS
  <2>7. n \in Nat /\ feed \in 1..n /\ node # 0
    BY <1>1, <2>2, <2>3, <2>4, <2>5
  <2>8. NewNode({op}, op, n, n, feed, 0, 0, op)
    BY <2>6, <2>7, SinkTask
  <2>9. /\ tasks' = WiredTasks \cup {op} /\ channels' = n
        /\ stream'.node = 0 /\ stream'.upstream = 0
    BY <1>4, <2>3, <2>4, <2>5, <2>6 DEF AddSink, NoStream
  <2>10. op.node = NextNode /\ WiredChannels <= n
    BY <2>3, <2>5, <2>6, <2>7 DEF TaskOf
  <2>11. NewNode({op}, op, WiredChannels, n, WiredInput, 0, 0, op)
    BY <2>3, <2>4, <2>8
  <2>12. QED  BY <2>1, <2>7, <2>9, <2>10, <2>11, AttachKeeps
<1>5. CASE FromSource
  <2>1. /\ tasks' = tasks /\ channels' = channels /\ builder' = builder
        /\ stream.upstream = 0 /\ stream'.upstream = 0
    BY <1>5 DEF FromSource, NoStream
  <2>2. Arrows(graph') = Arrows(graph)
    <3>1. PICK G : G = graph
      OBVIOUS
    <3>2. PICK H : H = AddNode(G, "source", 1)
      OBVIOUS
    <3>3. WellFormed(G) /\ 1 \in Nat
      BY <3>1 DEF PlanInv
    <3>4. H.edges = G.edges
      BY <3>2, <3>3, AddNodeKeeps
    <3>5. graph' = H
      BY <1>5, <3>1, <3>2 DEF FromSource
    <3>6. QED  BY <3>1, <3>4, <3>5 DEF Arrows
  <2>3. Wired(tasks, channels, stream'.node, 0)
    <3>1. Wired(tasks, channels, stream.node, 0)
      BY <2>1 DEF WiringInv
    <3>2. \A t \in tasks : 0 \notin t.writes
      BY <3>1 DEF Wired
    <3>3. QED  BY <3>1, <3>2 DEF Wired
  <2>4. QED  BY <2>1, <2>2, <2>3 DEF WiringInv
<1>6. CASE builder = "graph" /\ UNCHANGED <<builder, tasks, channels, stream>>
  BY <1>6 DEF WiringInv
<1>7. CASE UNCHANGED <<builder, graph, tasks, channels, stream>>
  BY <1>7 DEF WiringInv, Arrows
<1>8. CASE Transform
  BY <1>2, <1>3, <1>8
     DEF Transform, Map, Filter, FlatMap, KeyBy, Process, ProcessKeyed, WindowAggregate,
         CoProcess, WindowJoin, WindowCogroup, IntervalJoin
<1>9. CASE \/ \E parallelism \in Parallelisms : AddGraphNode(parallelism)
           \/ \E from, to \in NodeIds(graph), strategy \in Strategies :
                AddGraphEdge(from, to, strategy)
  BY <1>6, <1>9 DEF AddGraphNode, AddGraphEdge, Directly
<1>10. CASE \E offers \in SlotOffers, strategy \in {"spread", "pack"} :
              MakePlan(offers, strategy)
  BY <1>7, <1>10 DEF MakePlan
<1>11. CASE UNCHANGED planVars
  BY <1>7, <1>11 DEF planVars
<1>12. QED  BY <1>4, <1>5, <1>8, <1>9, <1>10, <1>11 DEF PlanNext

(* The logical graph says how the tasks are joined: two nodes have an edge *)
(* exactly if their tasks are joined by channels, and each channel has one *)
(* writer and one reader, which only the stream under construction lacks   *)
(* (datastream.rs wires the tasks and the graph side by side).             *)
THEOREM WiringCorrect == PlanSpec => []GraphMirrorsWiring
<1>1. PlanSpec => []WiringInv
  <2>1. PlanInv /\ [PlanNext]_planVars /\ WiringInv => WiringInv'
    BY WiringSteps
  <2>2. QED  BY <2>1, WiringStarts, PlanInvariance, PTL DEF PlanSpec
<1>2. PlanInv /\ WiringInv => GraphMirrorsWiring
  BY MirrorsGraph
<1>3. QED  BY <1>1, <1>2, PlanInvariance, PTL

-----------------------------------------------------------------------------
(* Counting by sequences: one without repetition has as many elements as   *)
(* it is long.                                                             *)

LEMMA DistinctCount ==
  ASSUME NEW U, NEW q \in Seq(U), Distinct(q)
  PROVE  IsFiniteSet(Elements(q)) /\ Cardinality(Elements(q)) = Len(q)
<1>1. PICK m : m = Len(q)
  OBVIOUS
<1>2. m \in Nat /\ q \in [1..m -> U]
  BY <1>1
<1>3. IsFiniteSet(1..m) /\ Cardinality(1..m) = m
  <2>1. m \in Int /\ 1 \in Int
    BY <1>2
  <2>2. IsFiniteSet(1..m) /\ Cardinality(1..m) = IF 1 > m THEN 0 ELSE m - 1 + 1
    BY <2>1, FS_Interval
  <2>3. QED  BY <1>2, <2>2
<1>4. q \in Bijection(1..m, Elements(q))
  BY <1>1, <1>2 DEF Elements, Distinct, Bijection, Injection, Surjection, IsInjective
<1>5. ExistsBijection(1..m, Elements(q))
  BY <1>4 DEF ExistsBijection
<1>6. QED  BY <1>1, <1>3, <1>5, FS_Bijection

(* c is a followed by b, and nothing is in both. *)
Glued(a, b, c) ==
  /\ Len(c) = Len(a) + Len(b)
  /\ Elements(c) = Elements(a) \cup Elements(b)
  /\ Distinct(a) /\ Distinct(b) /\ Elements(a) \cap Elements(b) = {} => Distinct(c)

(* Joining two sequences glues them. *)
LEMMA ConcatGlues ==
  ASSUME NEW U, NEW a \in Seq(U), NEW b \in Seq(U)
  PROVE  Glued(a, b, Joined(a, b))
<1> DEFINE c == a \o b
<1>1. /\ Len(a) \in Nat /\ Len(b) \in Nat /\ c \in Seq(U) /\ Len(c) = Len(a) + Len(b)
      /\ \A i \in 1..Len(c) : c[i] = IF i <= Len(a) THEN a[i] ELSE b[i - Len(a)]
  OBVIOUS
<1> HIDE DEF c
<1>2. \A i \in 1..Len(c) : i \in 1..Len(a) \/ i - Len(a) \in 1..Len(b)
  BY <1>1
<1>3. \A i \in 1..Len(a) : i \in 1..Len(c) /\ c[i] = a[i]
  BY <1>1
<1>4. ASSUME NEW i \in 1..Len(b)
      PROVE  i + Len(a) \in 1..Len(c) /\ c[i + Len(a)] = b[i]
  <2>1. PICK m, n : m = Len(a) /\ n = Len(b) /\ m \in Nat /\ n \in Nat /\ i \in 1..n
    BY <1>1
  <2>2. i + m \in 1..(m + n) /\ ~(i + m <= m) /\ (i + m) - m = i
    BY <2>1
  <2>3. i + m \in 1..Len(c)
    BY <1>1, <2>1, <2>2
  <2>4. c[i + m] = b[(i + m) - m]
    BY <1>1, <2>1, <2>2, <2>3
  <2>5. QED  BY <2>1, <2>2, <2>3, <2>4
<1>5. \A i \in 1..Len(c) : i \notin 1..Len(a) => c[i] = b[i - Len(a)]
  BY <1>1
<1>6. Elements(c) = Elements(a) \cup Elements(b)
  <2>1. \A x : x \in Elements(c) => x \in Elements(a) \cup Elements(b)
    BY <1>2, <1>3, <1>5 DEF Elements
  <2>2. \A x : x \in Elements(a) \cup Elements(b) => x \in Elements(c)
    BY <1>3, <1>4 DEF Elements
  <2>3. QED  BY <2>1, <2>2
<1>7. ASSUME Distinct(a), Distinct(b), Elements(a) \cap Elements(b) = {}
      PROVE  Distinct(c)
  <2> SUFFICES ASSUME NEW i \in 1..Len(c), NEW k \in 1..Len(c), c[i] = c[k]
               PROVE  i = k
    BY DEF Distinct
  <2>1. \A j \in 1..Len(a), l \in 1..Len(b) : a[j] # b[l]
    BY <1>7 DEF Elements
  <2>2. CASE i \in 1..Len(a) /\ k \in 1..Len(a)
    BY <1>3, <1>7, <2>2 DEF Distinct
  <2>3. CASE i \notin 1..Len(a) /\ k \notin 1..Len(a)
    <3>1. /\ c[i] = b[i - Len(a)] /\ i - Len(a) \in 1..Len(b)
          /\ c[k] = b[k - Len(a)] /\ k - Len(a) \in 1..Len(b)
      BY <1>2, <1>5, <2>3
    <3>2. i - Len(a) = k - Len(a)
      BY <1>7, <3>1 DEF Distinct
    <3>3. QED  BY <1>1, <3>2
  <2>4. CASE i \in 1..Len(a) /\ k \notin 1..Len(a)
    BY <1>2, <1>3, <1>5, <2>1, <2>4
  <2>5. CASE i \notin 1..Len(a) /\ k \in 1..Len(a)
    BY <1>2, <1>3, <1>5, <2>1, <2>5
  <2>6. QED  BY <2>2, <2>3, <2>4, <2>5
<1>8. Glued(a, b, c)
  BY <1>1, <1>6, <1>7 DEF Glued
<1>9. QED  BY <1>8 DEF c, Joined

(* What F makes of the first k elements of s. *)
Made(s, F, k) == UNION {Elements(F[s[j]]) : j \in 1..k}

(* F makes of every element of s a sequence without repetition, and nothing *)
(* twice; L says how long each is.                                         *)
Disjointly(s, F, L) ==
  /\ \A k \in 1..Len(s) : Distinct(F[s[k]]) /\ L[k] = Len(F[s[k]])
  /\ \A j, k \in 1..Len(s) : j # k => Elements(F[s[j]]) \cap Elements(F[s[k]]) = {}

Places(q, s, F, L) ==
  Len(q) = Total(L) /\ Elements(q) = Made(s, F, Len(s)) /\ Distinct(q)

LEMMA MadeNext ==
  ASSUME NEW s, NEW F, NEW k \in Nat, k > 0
  PROVE  /\ Made(s, F, k) = Made(s, F, k - 1) \cup Elements(F[s[k]])
         /\ Made(s, F, 0) = {}
<1>1. 1..0 = {} /\ k \in 1..k /\ \A j \in 1..k : j \in 1..(k - 1) \/ j = k
  OBVIOUS
<1>2. 1..(k - 1) \subseteq 1..k
  OBVIOUS
<1>3. Made(s, F, 0) = {}
  BY <1>1 DEF Made
<1>4. \A x, i : x \in Made(s, F, i) <=> \E j \in 1..i : x \in Elements(F[s[j]])
  BY DEF Made
<1>5. ASSUME NEW x
      PROVE  x \in Made(s, F, k) <=> x \in Made(s, F, k - 1) \/ x \in Elements(F[s[k]])
  <2>1. /\ x \in Made(s, F, k) <=> \E j \in 1..k : x \in Elements(F[s[j]])
        /\ x \in Made(s, F, k - 1) <=> \E j \in 1..(k - 1) : x \in Elements(F[s[j]])
    BY <1>4
  <2>2. QED  BY <1>1, <1>2, <2>1
<1>6. QED  BY <1>3, <1>5

LEMMA FlatPlaces ==
  ASSUME NEW T, NEW U, NEW s \in Seq(T), NEW F \in [T -> Seq(U)],
         NEW L \in Seq(Nat), Len(L) = Len(s), Disjointly(s, F, L)
  PROVE  Flat(s, F) \in Seq(U) /\ Places(Flat(s, F), s, F, L)
<1>1. PICK f : Flats(f, s, F, Len(s)) /\ Flat(s, F) = f[Len(s)]
  BY FlatPick
<1>2. PICK g : /\ Total(L) = g[Len(L)] /\ g[0] = 0
               /\ \A k \in 1..Len(L) : g[k] = g[k - 1] + L[k]
  BY TotalPick
<1>3. PICK m : m = Len(s)
  OBVIOUS
<1>4. m \in Nat /\ m = Len(L) /\ \A k \in 1..m : s[k] \in T /\ F[s[k]] \in Seq(U)
  BY <1>3
<1>5. f[0] = <<>> /\ \A k \in 1..m : f[k] = Joined(f[k - 1], F[s[k]])
  <2>1. Len(s) \in Nat
    OBVIOUS
  <2>2. f[0] = <<>>
    BY <1>1, <2>1, FlatsAt
  <2>3. \A k \in 1..Len(s) : f[k] = Joined(f[k - 1], F[s[k]])
    BY <1>1, <2>1, FlatsAt
  <2>4. QED  BY <1>3, <2>2, <2>3
<1>6. \A k \in 0..m : f[k] \in Seq(U)
  BY <1>1, <1>3, FlatsTyped
<1> DEFINE Good(k) == Len(f[k]) = g[k] /\ Elements(f[k]) = Made(s, F, k) /\ Distinct(f[k])
<1> DEFINE Bad == {k \in 0..m : ~Good(k)}
<1>7. Bad = {}
  <2>1. SUFFICES ASSUME Bad # {} PROVE FALSE
    OBVIOUS
  <2>2. PICK k \in Bad : \A y \in Bad : k <= y
    <3>1. Bad \in SUBSET Nat
      BY <1>4
    <3> HIDE DEF Bad
    <3>2. QED  BY <2>1, <3>1, LeastElement
  <2>3. k \in 0..m /\ ~Good(k)
    OBVIOUS
  <2>4. Good(0)
    <3>1. Len(<<>>) = 0 /\ 1..0 = {}
      OBVIOUS
    <3>2. Elements(<<>>) = {} /\ Distinct(<<>>)
      BY <3>1 DEF Elements, Distinct
    <3>3. Made(s, F, 0) = {}
      BY <3>1 DEF Made
    <3>4. QED  BY <1>2, <1>5, <3>1, <3>2, <3>3
  <2>5. k - 1 \in 0..m /\ ~ (k <= k - 1) /\ k \in 1..m /\ k \in Nat /\ k > 0
    <3> HIDE DEF Good
    <3>1. k # 0
      BY <2>3, <2>4
    <3>2. QED  BY <1>4, <2>3, <3>1
  <2>6. Good(k - 1)
    <3>1. k - 1 \notin Bad
      <4> HIDE DEF Bad
      <4>1. QED  BY <2>2, <2>5
    <3> HIDE DEF Good
    <3>2. QED  BY <2>5, <3>1
  <2>7. PICK a : a = f[k - 1]
    OBVIOUS
  <2>8. PICK b : b = F[s[k]]
    OBVIOUS
  <2>9. a \in Seq(U) /\ b \in Seq(U) /\ f[k] = Joined(a, b)
    BY <1>4, <1>5, <1>6, <2>5, <2>7, <2>8
  <2>10. Glued(a, b, f[k])
    <3>1. Glued(a, b, Joined(a, b))
      BY <2>9, ConcatGlues
    <3>2. QED  BY <2>9, <3>1
  <2>11. Len(b) = L[k] /\ Distinct(b)
    BY <1>3, <2>5, <2>8 DEF Disjointly
  <2>12. Len(a) = g[k - 1] /\ Elements(a) = Made(s, F, k - 1) /\ Distinct(a)
    BY <2>6, <2>7
  <2>13. Len(f[k]) = g[k]
    BY <1>2, <1>4, <2>5, <2>10, <2>11, <2>12 DEF Glued
  <2>14. Elements(f[k]) = Made(s, F, k)
    <3>1. Made(s, F, k) = Made(s, F, k - 1) \cup Elements(F[s[k]])
      BY <2>5, MadeNext
    <3>2. QED  BY <2>8, <2>10, <2>12, <3>1 DEF Glued
  <2>15. Elements(a) \cap Elements(b) = {}
    <3>1. ASSUME NEW x \in Elements(a)
          PROVE  x \notin Elements(b)
      <4>1. PICK j \in 1..(k - 1) : x \in Elements(F[s[j]])
        BY <2>12, <3>1 DEF Made
      <4>2. j \in 1..m /\ j # k
        BY <1>4, <2>5
      <4>3. Elements(F[s[j]]) \cap Elements(F[s[k]]) = {}
        BY <1>3, <2>5, <4>2 DEF Disjointly
      <4>4. QED  BY <2>8, <4>1, <4>3
    <3>2. QED  BY <3>1
  <2>16. Distinct(f[k])
    BY <2>10, <2>11, <2>12, <2>15 DEF Glued
  <2>17. QED  BY <2>3, <2>13, <2>14, <2>16
<1>8. m \in 0..m
  BY <1>4
<1>9. Good(m)
  <2> HIDE DEF Good
  <2>1. QED  BY <1>7, <1>8
<1>10. QED  BY <1>1, <1>2, <1>3, <1>4, <1>6, <1>8, <1>9 DEF Places

-----------------------------------------------------------------------------
(* Sequences without common elements, one for each number up to m. *)
Pieces(F, U, m) ==
  /\ F \in [1..m -> Seq(U)]
  /\ \A k \in 1..m : Distinct(F[k])
  /\ \A j, k \in 1..m : j # k => Elements(F[j]) \cap Elements(F[k]) = {}

AllOf(F, m) == UNION {Elements(F[k]) : k \in 1..m}
Lengths(F, m) == [k \in 1..m |-> Len(F[k])]

(* In whatever order the pieces are put together. *)
Gathered(q, F, m) ==
  /\ Elements(q) = AllOf(F, m) /\ Distinct(q)
  /\ Len(q) = Total(Lengths(F, m))
  /\ IsFiniteSet(AllOf(F, m)) /\ Cardinality(AllOf(F, m)) = Len(q)

Placed(s, F, U, m) ==
  \E L : /\ L = [k \in 1..Len(s) |-> Len(F[s[k]])]
         /\ Flat(s, F) \in Seq(U) /\ Len(Flat(s, F)) = Total(L)
         /\ Elements(Flat(s, F)) = AllOf(F, m) /\ Distinct(Flat(s, F))

LEMMA PiecesPlaces ==
  ASSUME NEW m \in Nat, NEW U, NEW F, Pieces(F, U, m),
         NEW s \in Seq(1..m), Distinct(s), Elements(s) = 1..m
  PROVE  Placed(s, F, U, m)
<1>1. F \in [1..m -> Seq(U)] /\ Len(s) \in Nat /\ \A k \in 1..Len(s) : s[k] \in 1..m
  BY DEF Pieces
<1>2. PICK n : n = Len(s)
  OBVIOUS
<1>3. PICK L : L = [k \in 1..n |-> Len(F[s[k]])]
  OBVIOUS
<1>4. L \in Seq(Nat) /\ Len(L) = Len(s)
  <2>1. L \in [1..n -> Nat]
    BY <1>1, <1>2, <1>3
  <2>2. n \in Nat
    BY <1>1, <1>2
  <2>3. QED  BY <1>2, <2>1, <2>2
<1>5. Disjointly(s, F, L)
  <2>1. \A j, k \in 1..Len(s) : j # k => s[j] # s[k]
    BY DEF Distinct
  <2>2. \A k \in 1..Len(s) : L[k] = Len(F[s[k]])
    BY <1>2, <1>3
  <2>3. QED  BY <1>1, <2>1, <2>2 DEF Disjointly, Pieces
<1>6. Flat(s, F) \in Seq(U) /\ Places(Flat(s, F), s, F, L)
  <2>1. F \in [1..m -> Seq(U)]
    BY <1>1
  <2>2. L \in Seq(Nat)
    BY <1>4
  <2>3. Len(L) = Len(s) /\ Disjointly(s, F, L)
    BY <1>4, <1>5
  <2>4. QED  BY <2>1, <2>2, <2>3, FlatPlaces
<1>7. Made(s, F, Len(s)) = AllOf(F, m)
  <2>1. ASSUME NEW x \in Made(s, F, Len(s))
        PROVE  x \in AllOf(F, m)
    <3>1. PICK j \in 1..Len(s) : x \in Elements(F[s[j]])
      BY <2>1 DEF Made
    <3>2. QED  BY <1>1, <3>1 DEF AllOf
  <2>2. ASSUME NEW x \in AllOf(F, m)
        PROVE  x \in Made(s, F, Len(s))
    <3>1. PICK k \in 1..m : x \in Elements(F[k])
      BY <2>2 DEF AllOf
    <3>2. k \in Elements(s)
      BY <3>1
    <3>3. PICK j \in 1..Len(s) : s[j] = k
      BY <3>2 DEF Elements
    <3>4. QED  BY <3>1, <3>3 DEF Made
  <2>3. QED  BY <2>1, <2>2
<1>8. QED  BY <1>2, <1>3, <1>6, <1>7 DEF Places, Placed

LEMMA Gathers ==
  ASSUME NEW m \in Nat, NEW U, NEW F, Pieces(F, U, m),
         NEW s \in Seq(1..m), Distinct(s), Elements(s) = 1..m
  PROVE  Flat(s, F) \in Seq(U) /\ Gathered(Flat(s, F), F, m)
<1>1. PICK q : q = Flat(s, F)
  OBVIOUS
<1>2. q \in Seq(U) /\ Elements(q) = AllOf(F, m) /\ Distinct(q)
  <2>1. Placed(s, F, U, m)
    BY PiecesPlaces
  <2>2. QED  BY <1>1, <2>1 DEF Placed
<1>3. IsFiniteSet(AllOf(F, m)) /\ Cardinality(AllOf(F, m)) = Len(q)
  <2>1. IsFiniteSet(Elements(q)) /\ Cardinality(Elements(q)) = Len(q)
    BY <1>2, DistinctCount
  <2>2. QED  BY <1>2, <2>1
<1>4. Len(q) = Total(Lengths(F, m))
  <2>1. PICK ids : ids = [k \in 1..m |-> k]
    OBVIOUS
  <2>2. ids \in Seq(1..m) /\ Len(ids) = m /\ \A k \in 1..m : ids[k] = k
    <3>1. ids \in [1..m -> 1..m]
      BY <2>1
    <3>2. \A k \in 1..m : ids[k] = k
      BY <2>1
    <3>3. QED  BY <3>1, <3>2
  <2>3. Distinct(ids) /\ Elements(ids) = 1..m
    BY <2>2 DEF Distinct, Elements
  <2>4. PICK L : /\ L = [k \in 1..Len(ids) |-> Len(F[ids[k]])]
                 /\ Flat(ids, F) \in Seq(U) /\ Len(Flat(ids, F)) = Total(L)
                 /\ Elements(Flat(ids, F)) = AllOf(F, m) /\ Distinct(Flat(ids, F))
    <3>1. ids \in Seq(1..m)
      BY <2>2
    <3>2. Placed(ids, F, U, m)
      BY <2>3, <3>1, PiecesPlaces
    <3>3. QED  BY <3>2 DEF Placed
  <2>5. L = Lengths(F, m)
    BY <2>2, <2>4 DEF Lengths
  <2>6. PICK p : p = Flat(ids, F)
    OBVIOUS
  <2>7. Cardinality(Elements(p)) = Len(p)
    <3>1. p \in Seq(U) /\ Distinct(p)
      BY <2>4, <2>6
    <3>2. QED  BY <3>1, DistinctCount
  <2>8. QED  BY <1>3, <2>4, <2>5, <2>6, <2>7
<1>5. QED  BY <1>1, <1>2, <1>3, <1>4 DEF Gathered

(* There are as many free slots as are counted available. *)
LEMMA FreeCount ==
  ASSUME NEW offers, FitOffers(offers)
  PROVE  /\ IsFiniteSet(FreeSlots(offers))
         /\ Cardinality(FreeSlots(offers)) = TotalAvailable(offers)
<1>1. PICK R : R = Range(offers)
  OBVIOUS
<1>2. PICK m : m = Len(offers)
  OBVIOUS
<1>3. offers \in Seq(R) /\ m \in Nat /\ DOMAIN offers = 1..m
  BY <1>1, <1>2 DEF FitOffers
<1>4. \A k \in 1..m : /\ offers[k].total \in Nat /\ offers[k].used \in 0..offers[k].total
                      /\ Available(offers[k]) \in Nat
  BY <1>3 DEF FitOffers, Available
<1> DEFINE Piece(k) == [i \in 1..Available(offers[k]) |->
                          [offer |-> k, slot |-> offers[k].used + i - 1]]
<1>5. PICK F : F = [k \in 1..m |-> Piece(k)]
  OBVIOUS
<1>6. PICK U : U = FreeSlots(offers)
  OBVIOUS
<1>8. \A x : x \in U <=> \E k \in 1..m : \E i \in offers[k].used..(offers[k].total - 1) :
                             x = [offer |-> k, slot |-> i]
  BY <1>3, <1>6 DEF FreeSlots
<1>9. \A k \in 1..m : /\ DOMAIN F[k] = 1..Available(offers[k])
                      /\ \A i \in 1..Available(offers[k]) :
                           /\ F[k][i] = [offer |-> k, slot |-> offers[k].used + i - 1]
                           /\ F[k][i].offer = k
                           /\ F[k][i].slot = offers[k].used + i - 1
  BY <1>5
<1>10. ASSUME NEW k \in 1..m
       PROVE  F[k] \in Seq(U) /\ Len(F[k]) = Available(offers[k])
  <2>1. PICK n : n = Available(offers[k])
    OBVIOUS
  <2>2. PICK u : u = offers[k].used
    OBVIOUS
  <2>3. n \in Nat /\ u \in Nat /\ offers[k].total = u + n
    BY <1>4, <2>1, <2>2 DEF Available
  <2>4. \A i \in 1..n : u + i - 1 \in u..(offers[k].total - 1)
    BY <2>3
  <2>5. \A i \in 1..n : F[k][i] \in U
    <3>1. ASSUME NEW i \in 1..n
          PROVE  F[k][i] \in U
      <4>1. PICK e : e = u + i - 1
        OBVIOUS
      <4>2. F[k][i] = [offer |-> k, slot |-> e]
        BY <1>9, <2>1, <2>2, <4>1
      <4>3. e \in offers[k].used..(offers[k].total - 1)
        BY <2>2, <2>4, <4>1
      <4>4. QED  BY <1>8, <4>2, <4>3
    <3>2. QED  BY <3>1
  <2>6. F[k] \in [1..n -> U]
    <3>1. F[k] = [i \in 1..n |-> F[k][i]]
      BY <1>5, <2>1
    <3>2. QED  BY <2>5, <3>1
  <2>7. QED  BY <2>1, <2>3, <2>6
<1>11. Pieces(F, U, m)
  <2>1. F \in [1..m -> Seq(U)]
    <3>1. F = [k \in 1..m |-> F[k]]
      BY <1>5
    <3>2. QED  BY <1>10, <3>1
  <2>2. ASSUME NEW k \in 1..m
        PROVE  Distinct(F[k])
    <3>1. \A i \in 1..Available(offers[k]) : F[k][i].slot = offers[k].used + i - 1
      BY <1>9
    <3>2. offers[k].used \in Nat
      BY <1>4
    <3>3. Available(offers[k]) \in Nat /\ Len(F[k]) = Available(offers[k])
      BY <1>4, <1>10
    <3>4. QED  BY <3>1, <3>2, <3>3 DEF Distinct
  <2>3. ASSUME NEW j \in 1..m, NEW k \in 1..m, j # k
        PROVE  Elements(F[j]) \cap Elements(F[k]) = {}
    <3>1. \A l \in 1..m : \A x \in Elements(F[l]) : x.offer = l
      <4>1. ASSUME NEW l \in 1..m, NEW x \in Elements(F[l])
            PROVE  x.offer = l
        <5>1. PICK i \in 1..Len(F[l]) : x = F[l][i]
          BY <4>1 DEF Elements
        <5>2. QED  BY <1>9, <1>10, <5>1
      <4>2. QED  BY <4>1
    <3>2. QED  BY <2>3, <3>1
  <2>4. QED  BY <2>1, <2>2, <2>3 DEF Pieces
<1>12. AllOf(F, m) = U
  <2>1. ASSUME NEW x \in AllOf(F, m)
        PROVE  x \in U
    <3>1. PICK k \in 1..m : x \in Elements(F[k])
      BY <2>1 DEF AllOf
    <3>2. QED  BY <1>10, <3>1 DEF Elements
  <2>2. ASSUME NEW x \in U
        PROVE  x \in AllOf(F, m)
    <3>1. PICK k \in 1..m : \E i \in offers[k].used..(offers[k].total - 1) :
                              x = [offer |-> k, slot |-> i]
      BY <1>8
    <3>2. PICK i \in offers[k].used..(offers[k].total - 1) : x = [offer |-> k, slot |-> i]
      BY <3>1
    <3>3. PICK n : n = i - offers[k].used + 1
      OBVIOUS
    <3>4. n \in 1..Available(offers[k]) /\ offers[k].used + n - 1 = i
      BY <1>4, <3>3 DEF Available
    <3>5. x = F[k][n]
      BY <1>9, <3>2, <3>4
    <3>6. x \in Elements(F[k])
      BY <1>10, <3>4, <3>5 DEF Elements
    <3>7. QED  BY <3>6 DEF AllOf
  <2>3. QED  BY <2>1, <2>2
<1>13. Lengths(F, m) = [k \in DOMAIN offers |-> Available(offers[k])]
  BY <1>3, <1>10 DEF Lengths
<1>14. PICK ids : ids = [k \in 1..m |-> k]
  OBVIOUS
<1>15. ids \in Seq(1..m) /\ Distinct(ids) /\ Elements(ids) = 1..m
  <2>1. ids \in [1..m -> 1..m] /\ \A k \in 1..m : ids[k] = k
    BY <1>14
  <2>2. ids \in Seq(1..m) /\ Len(ids) = m
    BY <1>3, <2>1
  <2>3. QED  BY <2>1, <2>2 DEF Distinct, Elements
<1>16. Gathered(Flat(ids, F), F, m)
  BY <1>3, <1>11, <1>15, Gathers
<1>17. QED  BY <1>6, <1>12, <1>13, <1>16 DEF Gathered, TotalAvailable

-----------------------------------------------------------------------------
(* The slot queue: each free slot has a place of its own in it. *)

Triple(r) == DOMAIN r = 1..3 /\ r[1] \in Int /\ r[2] \in Int /\ r[3] \in Int

Less(r, t) ==
  \/ r[1] < t[1]
  \/ r[1] = t[1] /\ r[2] < t[2]
  \/ r[1] = t[1] /\ r[2] = t[2] /\ r[3] < t[3]

LEMMA LexicographicIs ==
  ASSUME NEW r, NEW t, Triple(r), Triple(t)
  PROVE  Lexicographic(r, t) <=> Less(r, t)
<1>1. /\ DOMAIN r = 1..3 /\ \A k \in 1..3 : k = 1 \/ k = 2 \/ k = 3
      /\ 1 \in 1..3 /\ 2 \in 1..3 /\ 3 \in 1..3
  BY DEF Triple
<1>2. /\ \A j \in 1..(1 - 1) : r[j] = t[j]
      /\ (\A j \in 1..(2 - 1) : r[j] = t[j]) <=> r[1] = t[1]
      /\ (\A j \in 1..(3 - 1) : r[j] = t[j]) <=> r[1] = t[1] /\ r[2] = t[2]
  <2>1. /\ \A j \in 1..(1 - 1) : FALSE
        /\ \A j \in 1..(2 - 1) : j = 1
        /\ \A j \in 1..(3 - 1) : j = 1 \/ j = 2
        /\ 1 \in 1..(2 - 1) /\ 1 \in 1..(3 - 1) /\ 2 \in 1..(3 - 1)
    OBVIOUS
  <2>2. QED  BY <2>1
<1>3. QED  BY <1>1, <1>2 DEF Lexicographic, Less

LEMMA LessIsOrder ==
  ASSUME NEW q, NEW r, NEW t, Triple(q), Triple(r), Triple(t)
  PROVE  /\ ~Less(r, r)
         /\ Less(q, r) /\ Less(r, t) => Less(q, t)
         /\ (r[1] # t[1] \/ r[2] # t[2] \/ r[3] # t[3]) => Less(r, t) \/ Less(t, r)
BY DEF Less, Triple

(* The rank tells the slots apart. *)
LEMMA QueueRankIs ==
  ASSUME NEW offers, FitOffers(offers), NEW strategy, NEW s \in FreeSlots(offers)
  PROVE  /\ s.offer \in DOMAIN offers /\ Triple(QueueRank(offers, strategy, s))
         /\ s.slot \in offers[s.offer].used..(offers[s.offer].total - 1)
         /\ s = [offer |-> s.offer, slot |-> s.slot]
<1>1. PICK k \in DOMAIN offers : \E i \in offers[k].used..(offers[k].total - 1) :
                                   s = [offer |-> k, slot |-> i]
  BY DEF FreeSlots
<1>2. PICK i \in offers[k].used..(offers[k].total - 1) : s = [offer |-> k, slot |-> i]
  BY <1>1
<1>3. s.offer = k /\ s.slot = i
  BY <1>2
<1>4. /\ k \in Nat /\ offers[k].total \in Nat /\ offers[k].used \in Nat
      /\ Available(offers[k]) \in Int
  <2>1. PICK R : R = Range(offers)
    OBVIOUS
  <2>2. offers \in Seq(R)
    BY <2>1 DEF FitOffers
  <2>3. DOMAIN offers = 1..Len(offers)
    BY <2>2
  <2>4. QED  BY <1>1, <2>3 DEF FitOffers, Available
<1>5. \A a, b, c \in Int : Triple(<<a, b, c>>)
  BY DEF Triple
<1>6. Triple(QueueRank(offers, strategy, s))
  <2>1. PICK a : a = Available(offers[k])
    OBVIOUS
  <2>2. PICK u : u = offers[k].used
    OBVIOUS
  <2>3. a \in Int /\ -a \in Int /\ i \in Int /\ k \in Int /\ i - u \in Int
    BY <1>4, <2>1, <2>2
  <2>4. CASE strategy = "spread"
    <3>1. QueueRank(offers, strategy, s) = <<i - u, -a, k>>
      BY <1>3, <2>1, <2>2, <2>4 DEF QueueRank
    <3>2. QED  BY <1>5, <2>3, <3>1
  <2>5. CASE strategy # "spread"
    <3>1. QueueRank(offers, strategy, s) = <<a, k, i>>
      BY <1>3, <2>1, <2>2, <2>5 DEF QueueRank
    <3>2. QED  BY <1>5, <2>3, <3>1
  <2>6. QED  BY <2>4, <2>5
<1>7. QED  BY <1>1, <1>2, <1>3, <1>6

LEMMA QueueRankApart ==
  ASSUME NEW offers, FitOffers(offers), NEW strategy,
         NEW s \in FreeSlots(offers), NEW t \in FreeSlots(offers), s # t,
         NEW p, p = QueueRank(offers, strategy, s), NEW q, q = QueueRank(offers, strategy, t)
  PROVE  p[1] # q[1] \/ p[2] # q[2] \/ p[3] # q[3]
<1>1. /\ s.offer \in DOMAIN offers /\ t.offer \in DOMAIN offers
      /\ s = [offer |-> s.offer, slot |-> s.slot] /\ t = [offer |-> t.offer, slot |-> t.slot]
      /\ s.slot \in offers[s.offer].used..(offers[s.offer].total - 1)
      /\ t.slot \in offers[t.offer].used..(offers[t.offer].total - 1)
  BY QueueRankIs
<1>2. s.offer # t.offer \/ s.slot # t.slot
  BY <1>1
<1>3. CASE strategy = "spread"
  <2>1. /\ p[1] = s.slot - offers[s.offer].used /\ p[3] = s.offer
        /\ q[1] = t.slot - offers[t.offer].used /\ q[3] = t.offer
    BY <1>3 DEF QueueRank
  <2>2. offers[s.offer].used \in Nat /\ s.slot \in Int /\ t.slot \in Int
    BY <1>1 DEF FitOffers
  <2>3. QED  BY <1>2, <2>1, <2>2
<1>4. CASE strategy # "spread"
  <2>1. p[2] = s.offer /\ p[3] = s.slot /\ q[2] = t.offer /\ q[3] = t.slot
    BY <1>4 DEF QueueRank
  <2>2. QED  BY <1>2, <2>1
<1>5. QED  BY <1>3, <1>4

(* The queue holds every free slot once. *)
LEMMA QueueHolds ==
  ASSUME NEW offers, FitOffers(offers), NEW strategy,
         NEW q, q = SlotQueue(offers, strategy), NEW n, n = TotalAvailable(offers)
  PROVE  /\ n \in Nat /\ DOMAIN q = 1..n /\ q = [k \in 1..n |-> q[k]]
         /\ \A k \in 1..n : q[k] \in FreeSlots(offers)
         /\ \A j, k \in 1..n : q[j] = q[k] => j = k
<1>1. PICK S : S = FreeSlots(offers)
  OBVIOUS
<1>2. IsFiniteSet(S) /\ Cardinality(S) = n
  BY <1>1, FreeCount
<1>3. n \in Nat
  BY <1>2, FS_CardinalityType
<1> DEFINE Rank(s) == QueueRank(offers, strategy, s)
<1>4. PICK B : B = [s \in S |-> {r \in S : Lexicographic(Rank(r), Rank(s))}]
  OBVIOUS
<1>5. \A s \in S : Triple(Rank(s))
  BY <1>1, QueueRankIs
<1> HIDE DEF Rank
<1>6. \A r, s \in S : r \in B[s] <=> Less(Rank(r), Rank(s))
  <2>1. \A r, s \in S : Lexicographic(Rank(r), Rank(s)) <=> Less(Rank(r), Rank(s))
    BY <1>5, LexicographicIs
  <2>2. QED  BY <1>4, <2>1
<1>7. Ranks(S, B)
  <2>1. B \in [S -> SUBSET S]
    BY <1>4
  <2>2. \A s \in S : s \notin B[s]
    BY <1>5, <1>6, LessIsOrder
  <2>3. ASSUME NEW r \in S, NEW s \in S, r \in B[s]
        PROVE  B[r] \subseteq B[s]
    <3>1. ASSUME NEW t \in B[r]
          PROVE  t \in B[s]
      <4>1. t \in S
        BY <2>1, <3>1
      <4>2. Less(Rank(t), Rank(r)) /\ Less(Rank(r), Rank(s))
        BY <1>6, <2>3, <3>1, <4>1
      <4>3. Triple(Rank(t)) /\ Triple(Rank(r)) /\ Triple(Rank(s))
        BY <1>5, <4>1
      <4>4. Less(Rank(t), Rank(s))
        BY <4>2, <4>3, LessIsOrder
      <4>5. QED  BY <1>6, <4>1, <4>4
    <3>2. QED  BY <3>1
  <2>4. ASSUME NEW r \in S, NEW s \in S, r # s
        PROVE  r \in B[s] \/ s \in B[r]
    <3>1. PICK x : x = Rank(r)
      OBVIOUS
    <3>2. PICK y : y = Rank(s)
      OBVIOUS
    <3>3. x[1] # y[1] \/ x[2] # y[2] \/ x[3] # y[3]
      <4>1. x = QueueRank(offers, strategy, r) /\ y = QueueRank(offers, strategy, s)
        BY <3>1, <3>2 DEF Rank
      <4>2. r \in FreeSlots(offers) /\ s \in FreeSlots(offers)
        BY <1>1
      <4>3. QED  BY <2>4, <4>1, <4>2, QueueRankApart
    <3>4. Triple(x) /\ Triple(y)
      BY <1>5, <3>1, <3>2
    <3>5. Less(x, y) \/ Less(y, x)
      BY <3>3, <3>4, LessIsOrder
    <3>6. QED  BY <1>6, <3>1, <3>2, <3>5
  <2>5. QED  BY <2>1, <2>2, <2>3, <2>4 DEF Ranks
<1>8. q = Sequenced(S, B)
  <2>1. B = [s \in FreeSlots(offers) |->
              {r \in FreeSlots(offers) :
                 Lexicographic(QueueRank(offers, strategy, r), QueueRank(offers, strategy, s))}]
    BY <1>1, <1>4 DEF Rank
  <2>2. QED  BY <1>1, <2>1, Zenon DEF SlotQueue
<1>9. InSequence(S, B, q)
  BY <1>2, <1>7, <1>8, SequencedHolds
<1>10. QED  BY <1>1, <1>2, <1>3, <1>9 DEF InSequence

-----------------------------------------------------------------------------
(* Every subtask is assigned once, to a slot of its own. *)

AllSubtasks(G) == UNION {Range(SubtasksOf(G, id)) : id \in NodeIds(G)}

SubtaskLists(G) == [id \in NodeIds(G) |-> SubtasksOf(G, id)]

(* Each node has its subtasks, as many as its parallelism. *)
LEMMA SubtaskPieces ==
  ASSUME NEW G, WellFormed(G), NEW n, n = Len(G.nodes)
  PROVE  /\ n \in Nat /\ NodeIds(G) = 1..n
         /\ Pieces(SubtaskLists(G), AllSubtasks(G), n)
         /\ AllOf(SubtaskLists(G), n) = AllSubtasks(G)
         /\ Total(Lengths(SubtaskLists(G), n)) = TotalSubtasks(G)
<1>1. n \in Nat /\ NodeIds(G) = 1..n
  <2>1. PICK R : R = Range(G.nodes)
    OBVIOUS
  <2>2. G.nodes \in Seq(R)
    BY <2>1 DEF WellFormed, IsGraph
  <2>3. QED  BY <2>2 DEF NodeIds
<1>2. PICK F : F = SubtaskLists(G)
  OBVIOUS
<1>3. PICK U : U = AllSubtasks(G)
  OBVIOUS
<1>4. PICK P : P = [id \in 1..n |-> G.nodes[id].parallelism]
  OBVIOUS
<1>5. \A id \in 1..n : P[id] = G.nodes[id].parallelism /\ P[id] \in Nat
  BY <1>1, <1>4 DEF WellFormed
<1>6. \A id \in 1..n : /\ F[id] = [i \in 1..P[id] |-> Subtask(G, id, i - 1)]
                       /\ DOMAIN F[id] = 1..P[id]
                       /\ \A i \in 1..P[id] : /\ F[id][i].node = id
                                              /\ F[id][i].index = i - 1
  BY <1>1, <1>2, <1>5 DEF SubtaskLists, SubtasksOf, Subtask
<1>7. \A x : x \in U <=> \E id \in 1..n : \E i \in 1..P[id] : x = F[id][i]
  <2>1. ASSUME NEW x
        PROVE  x \in U <=> \E id \in 1..n : x \in Range(F[id])
    <3>1. \A id \in 1..n : F[id] = SubtasksOf(G, id)
      BY <1>1, <1>2 DEF SubtaskLists
    <3>2. U = UNION {Range(SubtasksOf(G, id)) : id \in 1..n}
      BY <1>1, <1>3 DEF AllSubtasks
    <3>3. x \in U <=> \E id \in 1..n : x \in Range(SubtasksOf(G, id))
      BY <3>2
    <3>4. QED  BY <3>1, <3>3
  <2>2. \A id \in 1..n : \A x : x \in Range(F[id]) <=> \E i \in 1..P[id] : x = F[id][i]
    BY <1>6 DEF Range
  <2>3. ASSUME NEW x
        PROVE  x \in U <=> \E id \in 1..n : \E i \in 1..P[id] : x = F[id][i]
    <3>1. x \in U <=> \E id \in 1..n : x \in Range(F[id])
      BY <2>1
    <3>2. ASSUME x \in U
          PROVE  \E id \in 1..n : \E i \in 1..P[id] : x = F[id][i]
      <4>1. PICK id \in 1..n : x \in Range(F[id])
        BY <3>1, <3>2
      <4>2. \E i \in 1..P[id] : x = F[id][i]
        BY <2>2, <4>1
      <4>3. QED  BY <4>2
    <3>3. ASSUME NEW id \in 1..n, NEW i \in 1..P[id], x = F[id][i]
          PROVE  x \in U
      <4>1. x \in Range(F[id])
        BY <2>2, <3>3
      <4>2. QED  BY <3>1, <4>1
    <3>4. QED  BY <3>2, <3>3
  <2>4. QED  BY <2>3
<1>8. ASSUME NEW id \in 1..n
      PROVE  F[id] \in Seq(U) /\ Len(F[id]) = P[id]
  <2>1. PICK p : p = P[id]
    OBVIOUS
  <2>2. PICK f : f = F[id]
    OBVIOUS
  <2>3. \A i \in 1..p : f[i] \in U
    BY <1>7, <2>1, <2>2
  <2>4. f = [i \in 1..p |-> f[i]]
    BY <1>6, <2>1, <2>2
  <2>5. f \in [1..p -> U] /\ p \in Nat
    BY <1>5, <2>1, <2>3, <2>4
  <2>6. QED  BY <2>1, <2>2, <2>5
<1>9. Pieces(F, U, n)
  <2>1. F \in [1..n -> Seq(U)]
    <3>1. F = [id \in 1..n |-> F[id]]
      BY <1>1, <1>2 DEF SubtaskLists
    <3>2. QED  BY <1>8, <3>1
  <2>2. ASSUME NEW k \in 1..n
        PROVE  Distinct(F[k])
    <3>1. Len(F[k]) = P[k] /\ P[k] \in Nat /\ \A i \in 1..P[k] : F[k][i].index = i - 1
      BY <1>6, <1>8, <1>5
    <3>2. QED  BY <3>1 DEF Distinct
  <2>3. ASSUME NEW j \in 1..n, NEW k \in 1..n, j # k
        PROVE  Elements(F[j]) \cap Elements(F[k]) = {}
    <3>1. ASSUME NEW l \in 1..n, NEW x \in Elements(F[l])
          PROVE  x.node = l
      <4>1. PICK i \in 1..Len(F[l]) : x = F[l][i]
        BY <3>1 DEF Elements
      <4>2. QED  BY <1>6, <1>8, <4>1
    <3>2. QED  BY <2>3, <3>1
  <2>4. QED  BY <2>1, <2>2, <2>3 DEF Pieces
<1>10. AllOf(F, n) = U
  <2>1. ASSUME NEW x
        PROVE  x \in AllOf(F, n) <=> \E id \in 1..n : \E i \in 1..P[id] : x = F[id][i]
    <3>1. x \in AllOf(F, n) <=> \E id \in 1..n : x \in Elements(F[id])
      BY DEF AllOf
    <3>2. \A id \in 1..n : x \in Elements(F[id]) <=> \E i \in 1..P[id] : x = F[id][i]
      BY <1>8 DEF Elements
    <3>3. QED  BY <3>1, <3>2
  <2>2. QED  BY <1>7, <2>1
<1>11. Lengths(F, n) = [id \in NodeIds(G) |-> G.nodes[id].parallelism]
  <2>1. \A id \in 1..n : Len(F[id]) = G.nodes[id].parallelism
    BY <1>8, <1>5
  <2>2. QED  BY <1>1, <2>1 DEF Lengths
<1>12. QED  BY <1>1, <1>2, <1>3, <1>9, <1>10, <1>11 DEF TotalSubtasks

(* A topological order has every node once. *)
LEMMA TopologicalOnce ==
  ASSUME NEW n \in Nat, NEW order \in Seq(1..n), Len(order) = n, Range(order) = 1..n
  PROVE  Distinct(order) /\ Elements(order) = 1..n
<1>1. order \in [1..n -> 1..n] /\ DOMAIN order = 1..n
  OBVIOUS
<1>2. Elements(order) = 1..n
  BY <1>1 DEF Elements, Range
<1>3. order \in Surjection(1..n, 1..n)
  BY <1>1, <1>2 DEF Surjection, Elements
<1>4. IsFiniteSet(1..n)
  <2>1. 1 \in Int /\ n \in Int
    OBVIOUS
  <2>2. QED  BY <2>1, FS_Interval
<1>5. order \in Injection(1..n, 1..n)
  BY <1>3, <1>4, FS_SurjSameCardinalityImpliesInj
<1>6. QED  BY <1>1, <1>2, <1>5 DEF Injection, IsInjective, Distinct

(* What PlanFits says of assignments. *)
Fits(G, offers, placed) ==
  /\ {placed[n].subtask : n \in DOMAIN placed} = AllSubtasks(G)
  /\ \A m, n \in DOMAIN placed : m # n =>
       /\ placed[m].subtask # placed[n].subtask
       /\ <<placed[m].tm, placed[m].slot>> # <<placed[n].tm, placed[n].slot>>
  /\ \A n \in DOMAIN placed : \E k \in DOMAIN offers :
       /\ offers[k].tm = placed[n].tm
       /\ placed[n].slot \in offers[k].used..(offers[k].total - 1)

(* Popping the queue once for each subtask, in the order of the nodes. *)
LEMMA AssignmentsFit ==
  ASSUME NEW G, WellFormed(G), NEW order \in Seq(NodeIds(G)), IsTopological(G, order),
         NEW offers, FitOffers(offers), TotalSubtasks(G) <= TotalAvailable(offers),
         NEW strategy, NEW placed, placed = Assignments(G, order, offers, strategy)
  PROVE  Fits(G, offers, placed)
<1>1. PICK n : n = Len(G.nodes)
  OBVIOUS
<1>2. PICK F : F = SubtaskLists(G)
  OBVIOUS
<1>3. PICK U : U = AllSubtasks(G)
  OBVIOUS
<1>4. PICK q : q = Flat(order, F)
  OBVIOUS
<1>5. PICK z : z = SlotQueue(offers, strategy)
  OBVIOUS
<1>6. PICK a : a = TotalAvailable(offers)
  OBVIOUS
<1>7. PICK m : m = TotalSubtasks(G)
  OBVIOUS
<1>8. /\ n \in Nat /\ NodeIds(G) = 1..n /\ Pieces(F, U, n)
      /\ AllOf(F, n) = U /\ Total(Lengths(F, n)) = m
  BY <1>1, <1>2, <1>3, <1>7, SubtaskPieces
<1>9. q \in Seq(U) /\ Elements(q) = U /\ Distinct(q) /\ Len(q) = m
  <2>1. order \in Seq(1..n) /\ Len(order) = n /\ Range(order) = 1..n
    BY <1>1, <1>8 DEF IsTopological
  <2>2. Distinct(order) /\ Elements(order) = 1..n
    BY <1>8, <2>1, TopologicalOnce
  <2>3. q \in Seq(U) /\ Gathered(q, F, n)
    <3>1. order \in Seq(1..n)
      BY <2>1
    <3>2. Pieces(F, U, n) /\ n \in Nat
      BY <1>8
    <3>3. Flat(order, F) \in Seq(U) /\ Gathered(Flat(order, F), F, n)
      BY <2>2, <3>1, <3>2, Gathers
    <3>4. QED  BY <1>4, <3>3
  <2>4. QED  BY <1>8, <2>3 DEF Gathered
<1>10. /\ a \in Nat /\ DOMAIN z = 1..a /\ z = [k \in 1..a |-> z[k]]
       /\ \A k \in 1..a : z[k] \in FreeSlots(offers)
       /\ \A j, k \in 1..a : z[j] = z[k] => j = k
  BY <1>5, <1>6, QueueHolds
<1>11. m \in Nat /\ m <= a /\ DOMAIN q = 1..m
  BY <1>6, <1>7, <1>9
<1>12. PICK slots : slots = PopOrder(z)
  OBVIOUS
<1>13. \A i \in 1..m : a - i + 1 \in 1..a /\ slots[i] = z[a - i + 1]
  <2>1. Len(z) = a
    BY <1>10
  <2>2. slots = [i \in 1..a |-> z[a - i + 1]]
    BY <1>12, <2>1 DEF PopOrder, Reverse
  <2>3. \A i \in 1..m : i \in 1..a /\ a - i + 1 \in 1..a
    BY <1>10, <1>11
  <2>4. QED  BY <2>2, <2>3
<1>14. DOMAIN placed = 1..m
       /\ \A i \in 1..m : /\ placed[i].subtask = q[i]
                          /\ placed[i].tm = offers[slots[i].offer].tm
                          /\ placed[i].slot = slots[i].slot
  <2>1. placed = [i \in DOMAIN q |->
                    [subtask |-> q[i], tm |-> offers[slots[i].offer].tm,
                     slot |-> slots[i].slot]]
    BY <1>2, <1>4, <1>5, <1>12, Zenon DEF Assignments, SubtaskLists
  <2>2. QED  BY <1>11, <2>1
<1>15. \A i \in 1..m :
         /\ slots[i].offer \in DOMAIN offers
         /\ slots[i].slot \in offers[slots[i].offer].used..(offers[slots[i].offer].total - 1)
         /\ slots[i] = [offer |-> slots[i].offer, slot |-> slots[i].slot]
  <2>1. ASSUME NEW i \in 1..m
        PROVE  slots[i] \in FreeSlots(offers)
    BY <1>10, <1>13
  <2>2. QED  BY <2>1, QueueRankIs
<1>16. \A i, j \in 1..m : slots[i] = slots[j] => i = j
  <2>1. ASSUME NEW i \in 1..m, NEW j \in 1..m, slots[i] = slots[j]
        PROVE  i = j
    <3>1. a - i + 1 = a - j + 1
      BY <1>10, <1>13, <2>1
    <3>2. QED  BY <1>10, <1>11, <3>1
  <2>2. QED  BY <2>1
<1>17. {placed[i].subtask : i \in DOMAIN placed} = AllSubtasks(G)
  BY <1>3, <1>9, <1>14 DEF Elements
<1>18. ASSUME NEW i \in 1..m, NEW j \in 1..m, i # j
       PROVE  /\ placed[i].subtask # placed[j].subtask
              /\ <<placed[i].tm, placed[i].slot>> # <<placed[j].tm, placed[j].slot>>
  <2>1. placed[i].subtask # placed[j].subtask
    BY <1>9, <1>14, <1>18 DEF Distinct
  <2>2. ASSUME placed[i].tm = placed[j].tm, placed[i].slot = placed[j].slot
        PROVE  FALSE
    <3>1. slots[i].offer = slots[j].offer
      <4>1. PICK k : k = slots[i].offer
        OBVIOUS
      <4>2. PICK l : l = slots[j].offer
        OBVIOUS
      <4>3. k \in DOMAIN offers /\ l \in DOMAIN offers
        BY <1>15, <4>1, <4>2
      <4>4. offers[k].tm = offers[l].tm
        BY <1>14, <2>2, <4>1, <4>2
      <4>5. QED  BY <4>1, <4>2, <4>3, <4>4 DEF FitOffers
    <3>2. slots[i].slot = slots[j].slot
      BY <1>14, <2>2
    <3>3. slots[i] = slots[j]
      BY <1>15, <3>1, <3>2
    <3>4. QED  BY <1>16, <1>18, <3>3
  <2>3. QED  BY <2>1, <2>2
<1>19. \A i \in 1..m : \E k \in DOMAIN offers :
         /\ offers[k].tm = placed[i].tm
         /\ placed[i].slot \in offers[k].used..(offers[k].total - 1)
  BY <1>14, <1>15
<1>20. QED  BY <1>14, <1>17, <1>18, <1>19 DEF Fits

(* schedule() plans what fits, and refuses only what does not. *)
LEMMA ScheduleFits ==
  ASSUME NEW G, WellFormed(G), NEW offers, FitOffers(offers), NEW strategy,
         NEW r, r = Schedule(G, offers, strategy)
  PROVE  /\ r.outcome = "ok" => Fits(G, offers, r.assignments)
         /\ r.outcome = "slots" => TotalSubtasks(G) > TotalAvailable(offers)
<1>1. PICK order : order = TopologicalOrder(G)
  OBVIOUS
<1>2. PICK placed : placed = Assignments(G, order, offers, strategy)
  OBVIOUS
<1>3. \/ r = Failure("cycle") \/ r = Failure("panic")
      \/ r = Failure("slots") /\ TotalSubtasks(G) > TotalAvailable(offers)
      \/ /\ r = [outcome |-> "ok", assignments |-> placed, edges |-> PhysicalEdges(G)]
         /\ Len(order) = Len(G.nodes) /\ ~(TotalSubtasks(G) > TotalAvailable(offers))
  BY <1>1, <1>2, Zenon DEF Schedule
<1>4. CASE r = Failure("cycle") \/ r = Failure("panic")
  BY <1>4 DEF Failure
<1>5. CASE r = Failure("slots") /\ TotalSubtasks(G) > TotalAvailable(offers)
  BY <1>5 DEF Failure
<1>6. CASE /\ r = [outcome |-> "ok", assignments |-> placed, edges |-> PhysicalEdges(G)]
           /\ Len(order) = Len(G.nodes) /\ ~(TotalSubtasks(G) > TotalAvailable(offers))
  <2>1. IsGraph(G)
    BY DEF WellFormed
  <2>2. /\ order \in Seq(NodeIds(G))
        /\ IF Cyclic(G) THEN order = <<>> ELSE IsTopological(G, order)
    BY <1>1, <2>1, KahnCorrect
  <2>3. ~Cyclic(G)
    <3>1. SUFFICES ASSUME Cyclic(G) PROVE FALSE
      OBVIOUS
    <3>2. Len(G.nodes) = 0
      BY <1>6, <2>2, <3>1
    <3>3. NodeIds(G) = {}
      <4>1. PICK R : R = Range(G.nodes)
        OBVIOUS
      <4>2. G.nodes \in Seq(R)
        BY <2>1, <4>1 DEF IsGraph
      <4>3. QED  BY <3>2, <4>2 DEF NodeIds
    <3>4. QED  BY <3>1, <3>3 DEF Cyclic
  <2>4. TotalSubtasks(G) <= TotalAvailable(offers)
    <3>1. TotalAvailable(offers) \in Nat
      BY QueueHolds
    <3>2. TotalSubtasks(G) \in Nat
      <4>1. PICK n : n = Len(G.nodes)
        OBVIOUS
      <4>2. PICK F : F = SubtaskLists(G)
        OBVIOUS
      <4>3. PICK U : U = AllSubtasks(G)
        OBVIOUS
      <4>4. n \in Nat /\ Pieces(F, U, n) /\ Total(Lengths(F, n)) = TotalSubtasks(G)
        BY <4>1, <4>2, <4>3, SubtaskPieces
      <4>5. Lengths(F, n) \in Seq(Nat)
        <5>1. Lengths(F, n) \in [1..n -> Nat]
          BY <4>4 DEF Lengths, Pieces
        <5>2. QED  BY <4>4, <5>1
      <4>6. QED  BY <4>4, <4>5, TotalType
    <3>3. QED  BY <1>6, <3>1, <3>2
  <2>5. order \in Seq(NodeIds(G)) /\ IsTopological(G, order)
    BY <2>2, <2>3
  <2>6. Fits(G, offers, placed)
    BY <1>2, <2>4, <2>5, AssignmentsFit
  <2>7. r.outcome = "ok" /\ r.assignments = placed
    BY <1>6
  <2>8. QED  BY <2>6, <2>7
<1>7. QED  BY <1>3, <1>4, <1>5, <1>6

(* A plan gives every subtask a slot of its own that its TaskManager       *)
(* offered as free, and there is a plan whenever the subtasks fit in the   *)
(* offers: the queue never runs out (physical.rs lines 100-124).            *)
THEOREM AssignmentsCorrect == PlanSpec => []PlanFits
<1>1. PlanInv => PlanFits
  <2> SUFFICES ASSUME PlanInv PROVE PlanFits
    OBVIOUS
  <2>1. CASE plan = NoPlan
    BY <2>1 DEF NoPlan, Failure, Planned, PlanFits
  <2>2. ASSUME NEW offers \in SlotOffers, NEW strategy \in {"spread", "pack"},
               plan = [offers |-> offers, strategy |-> strategy,
                       result |-> Schedule(graph, offers, strategy)]
        PROVE  PlanFits
    <3>1. PICK r : r = Schedule(graph, offers, strategy)
      OBVIOUS
    <3>2. PICK G : G = graph
      OBVIOUS
    <3>3. plan.offers = offers /\ plan.result = r
      BY <2>2, <3>1
    <3>4. FitOffers(offers) /\ WellFormed(G) /\ r = Schedule(G, offers, strategy)
      BY <3>1, <3>2, StreamPlanAssumption DEF PlanInv
    <3>5. /\ r.outcome = "ok" => Fits(G, offers, r.assignments)
          /\ r.outcome = "slots" => TotalSubtasks(G) > TotalAvailable(offers)
      BY <3>4, ScheduleFits
    <3>6. Planned => Fits(graph, plan.offers, plan.result.assignments)
      BY <3>2, <3>3, <3>5 DEF Planned
    <3>7. plan.result.outcome = "slots" => TotalSubtasks(graph) > TotalAvailable(plan.offers)
      BY <3>2, <3>3, <3>5
    <3>8. QED  BY <3>6, <3>7, Zenon DEF Fits, AllSubtasks, PlanFits
  <2>3. QED  BY <2>1, <2>2 DEF PlanInv, PlanMade
<1>2. QED  BY <1>1, PlanInvariance, PTL

-----------------------------------------------------------------------------
(* The slots of the TaskManagers (Cluster). *)

(* What holds of a TaskManager of n slots: every entry of the map leads to *)
(* an occupied slot of its own subtask.                                    *)
SlotsOk(s, n) ==
  /\ DOMAIN s.slots = 0..(n - 1)
  /\ \A x \in DOMAIN s.slotOf :
       /\ s.slotOf[x] \in 0..(n - 1)
       /\ s.slots[s.slotOf[x]] # Free
       /\ s.slots[s.slotOf[x]].subtask = x

Typing ==
  /\ boot \in [TMs -> Nat]
  /\ up \subseteq TMs
  /\ DOMAIN sm = TMs
  /\ rm \in [TMs -> [boot : Nat, used : Nat]]
  /\ beats \subseteq [tm : TMs, boot : Nat, used : Nat]

SlotsInv == \A t \in TMs : SlotsOk(sm[t], NumSlots[t])

(* The inductive invariant. *)
IInv == Typing /\ SlotsInv /\ OffersFit

-----------------------------------------------------------------------------
(* Lemmas about the slots. *)

LEMMA MinIsLeast ==
  ASSUME NEW S \in SUBSET Nat, S # {}
  PROVE  Min(S) \in S
<1>1. \E x \in S : \A y \in S : x <= y
  BY LeastElement
<1>2. QED  BY <1>1 DEF Min

(* A new TaskManager has its slots free. *)
LEMMA NewSlotsOk ==
  ASSUME NEW n \in Nat
  PROVE  SlotsOk(NewSlots(n), n)
BY DEF SlotsOk, NewSlots

(* deploy takes a free slot and no other, and remembers it.                *)
LEMMA DeployOk ==
  ASSUME NEW s, NEW n \in Nat, SlotsOk(s, n), ~IsFull(s),
         NEW j \in Jobs, NEW x
  PROVE  SlotsOk(Deploy(s, j, x), n)
<1> DEFINE i == Min(FreeIndices(s))
<1> DEFINE d == Deploy(s, j, x)
<1>1. i \in 0..(n - 1) /\ s.slots[i] = Free
  <2>1. FreeIndices(s) \in SUBSET Nat /\ FreeIndices(s) # {}
    BY DEF SlotsOk, IsFull, FreeIndices
  <2>2. i \in FreeIndices(s)
    BY <2>1, MinIsLeast
  <2>3. QED  BY <2>2 DEF SlotsOk, FreeIndices
<1> HIDE DEF i
<1>2. /\ d.slots = [s.slots EXCEPT ![i] = [job |-> j, subtask |-> x]]
      /\ d.slotOf = [y \in DOMAIN s.slotOf \cup {x} |-> IF y = x THEN i ELSE s.slotOf[y]]
  BY DEF Deploy, PutIn, i
<1> HIDE DEF d
<1>3. [job |-> j, subtask |-> x] # Free
  BY ClusterAssumption DEF Free
<1>4. DOMAIN d.slots = 0..(n - 1)
  BY <1>2 DEF SlotsOk
<1>5. ASSUME NEW y \in DOMAIN d.slotOf
      PROVE  /\ d.slotOf[y] \in 0..(n - 1)
             /\ d.slots[d.slotOf[y]] # Free
             /\ d.slots[d.slotOf[y]].subtask = y
  <2>1. CASE y = x
    <3>1. d.slotOf[y] = i
      BY <1>2, <2>1
    <3>2. d.slots[i] = [job |-> j, subtask |-> x]
      BY <1>1, <1>2 DEF SlotsOk
    <3>3. QED  BY <1>1, <1>3, <2>1, <3>1, <3>2
  <2>2. CASE y # x
    <3>1. y \in DOMAIN s.slotOf /\ d.slotOf[y] = s.slotOf[y]
      BY <1>2, <2>2
    <3>2. s.slotOf[y] # i
      BY <1>1, <3>1 DEF SlotsOk
    <3>3. d.slots[s.slotOf[y]] = s.slots[s.slotOf[y]]
      BY <1>2, <3>1, <3>2 DEF SlotsOk
    <3>4. QED  BY <3>1, <3>3 DEF SlotsOk
  <2>3. QED  BY <2>1, <2>2
<1>6. QED  BY <1>4, <1>5 DEF SlotsOk, d

(* cancel frees the slot of its subtask and of nobody else.                *)
LEMMA CancelOk ==
  ASSUME NEW s, NEW n \in Nat, SlotsOk(s, n), NEW x
  PROVE  SlotsOk(Cancel(s, x), n)
<1> DEFINE gone == {x} \cap DOMAIN s.slotOf
<1> DEFINE d == Cancel(s, x)
<1>1. /\ d.slots = [i \in DOMAIN s.slots |->
                      IF \E y \in gone : s.slotOf[y] = i THEN Free ELSE s.slots[i]]
      /\ d.slotOf = [y \in DOMAIN s.slotOf \ gone |-> s.slotOf[y]]
  BY DEF Cancel, Forget, Restrict
<1> HIDE DEF d
<1>2. ASSUME NEW y \in DOMAIN d.slotOf
      PROVE  /\ d.slotOf[y] \in 0..(n - 1)
             /\ d.slots[d.slotOf[y]] = s.slots[s.slotOf[y]]
             /\ y \in DOMAIN s.slotOf /\ d.slotOf[y] = s.slotOf[y]
  <2>1. y \in DOMAIN s.slotOf /\ y \notin gone /\ d.slotOf[y] = s.slotOf[y]
    BY <1>1
  <2>2. ~ \E z \in gone : s.slotOf[z] = s.slotOf[y]
    BY <2>1 DEF SlotsOk
  <2>3. s.slotOf[y] \in DOMAIN s.slots /\ s.slotOf[y] \in 0..(n - 1)
    BY <2>1 DEF SlotsOk
  <2>4. d.slots[s.slotOf[y]] = s.slots[s.slotOf[y]]
    <3> HIDE DEF gone
    <3> QED  BY <1>1, <2>2, <2>3
  <2>5. QED  BY <2>1, <2>3, <2>4
<1>3. DOMAIN d.slots = 0..(n - 1)
  BY <1>1 DEF SlotsOk
<1>4. QED  BY <1>2, <1>3 DEF SlotsOk, d

(* slots_in_use is at most the number of slots: the map is one-to-one.     *)
LEMMA InUseFits ==
  ASSUME NEW s, NEW n \in Nat, SlotsOk(s, n)
  PROVE  InUse(s) \in Nat /\ InUse(s) <= n
<1> DEFINE f == [x \in DOMAIN s.slotOf |-> s.slotOf[x]]
<1>1. f \in Injection(DOMAIN s.slotOf, 0..(n - 1))
  BY DEF SlotsOk, Injection, IsInjective
<1>2. IsFiniteSet(0..(n - 1)) /\ Cardinality(0..(n - 1)) = n
  BY FS_Interval
<1>3. IsFiniteSet(DOMAIN s.slotOf) /\ Cardinality(DOMAIN s.slotOf) <= n
  BY <1>1, <1>2, FS_Injection
<1>4. QED  BY <1>3, FS_CardinalityType DEF InUse

-----------------------------------------------------------------------------
(* The invariant is kept by every action. *)

LEMMA InitOk == Init => IInv
<1> SUFFICES ASSUME Init PROVE IInv
  OBVIOUS
<1>1. Typing
  BY DEF Init, Typing, Unknown
<1>2. SlotsInv
  BY NewSlotsOk, ClusterAssumption DEF Init, SlotsInv
<1>3. OffersFit
  BY ClusterAssumption DEF Init, OffersFit, Unknown
<1> QED  BY <1>1, <1>2, <1>3 DEF IInv

(* A process that registers or stops has all its slots free. *)
LEMMA RegisterKeeps ==
  ASSUME NEW t \in TMs, IInv, Register(t)
  PROVE  IInv'
<1>1. Typing'
  BY DEF IInv, Typing, Register
<1>2. SlotsInv'
  BY NewSlotsOk, ClusterAssumption DEF IInv, Typing, SlotsInv, Register
<1>3. OffersFit'
  <2>1. /\ \A u \in TMs : rm'[u].used = 0 \/ rm'[u] = rm[u]
        /\ beats' = beats
    BY DEF IInv, Typing, Register
  <2>2. \A u \in TMs : 0 <= NumSlots[u]
    BY ClusterAssumption
  <2>3. QED  BY <2>1, <2>2 DEF IInv, OffersFit
<1> QED  BY <1>1, <1>2, <1>3 DEF IInv

LEMMA StopKeeps ==
  ASSUME NEW t \in TMs, Typing, SlotsInv, Stop(t)
  PROVE  up' \subseteq TMs /\ DOMAIN sm' = TMs /\ SlotsInv'
BY NewSlotsOk, ClusterAssumption DEF Typing, SlotsInv, Stop

LEMMA CrashKeeps ==
  ASSUME NEW t \in TMs, IInv, Crash(t)
  PROVE  IInv'
<1>1. up' \subseteq TMs /\ DOMAIN sm' = TMs /\ SlotsInv'
  BY StopKeeps DEF IInv, Crash
<1>2. UNCHANGED <<boot, rm, beats>>
  BY DEF Crash
<1> QED  BY <1>1, <1>2 DEF IInv, Typing, OffersFit

(* A report is made of slots in use, which fit. *)
LEMMA SendHeartbeatKeeps ==
  ASSUME NEW t \in TMs, IInv, SendHeartbeat(t)
  PROVE  IInv'
<1>1. InUse(sm[t]) \in Nat /\ InUse(sm[t]) <= NumSlots[t]
  BY InUseFits, ClusterAssumption DEF IInv, SlotsInv
<1>2. /\ beats' = beats \cup {[tm |-> t, boot |-> boot[t], used |-> InUse(sm[t])]}
      /\ UNCHANGED <<boot, up, sm, rm>>
  BY DEF SendHeartbeat, tmVars
<1> DEFINE u == InUse(sm[t])
<1> HIDE DEF u
<1>3. Typing'
  BY <1>1, <1>2 DEF IInv, Typing
<1>4. SlotsInv'
  BY <1>2 DEF IInv, SlotsInv
<1>5. OffersFit'
  BY <1>1, <1>2 DEF IInv, OffersFit
<1> QED  BY <1>3, <1>4, <1>5 DEF IInv

(* A report that fits becomes the entry, whichever process sent it. *)
LEMMA HandleHeartbeatKeeps ==
  ASSUME NEW b \in beats, IInv, HandleHeartbeat(b)
  PROVE  IInv'
<1>1. b \in [tm : TMs, boot : Nat, used : Nat] /\ b.used <= NumSlots[b.tm]
  BY DEF IInv, Typing, OffersFit
<1>2. up' \subseteq TMs /\ DOMAIN sm' = TMs /\ SlotsInv'
  <2>1. CASE Stop(b.tm)
    BY <1>1, <2>1, StopKeeps DEF IInv
  <2>2. CASE UNCHANGED <<up, sm>>
    BY <2>2 DEF IInv, Typing, SlotsInv
  <2>3. QED  BY <2>1, <2>2 DEF HandleHeartbeat
<1>3. /\ rm' \in [TMs -> [boot : Nat, used : Nat]]
      /\ \A t \in TMs : rm'[t].used <= NumSlots[t]
  BY <1>1 DEF IInv, Typing, OffersFit, HandleHeartbeat
<1>4. beats' \subseteq beats /\ boot' = boot
  BY DEF HandleHeartbeat
<1>5. QED  BY <1>2, <1>3, <1>4 DEF IInv, Typing, OffersFit

LEMMA LoseHeartbeatKeeps ==
  ASSUME NEW b \in beats, IInv, LoseHeartbeat(b)
  PROVE  IInv'
BY DEF IInv, Typing, SlotsInv, OffersFit, LoseHeartbeat, tmVars

(* The calls of a deployment change no slot until they are handled. *)
LEMMA PlanningKeeps ==
  ASSUME IInv, UNCHANGED <<boot, up, sm, rm, beats>>
  PROVE  IInv'
BY DEF IInv, Typing, SlotsInv, OffersFit

LEMMA HandleDeployKeeps ==
  ASSUME NEW j \in Jobs, IInv, HandleDeploy(j)
  PROVE  IInv'
<1> DEFINE t == job[j].target
<1>1. t \in TMs
  BY DEF HandleDeploy, Answers, IInv, Typing
<1>2. UNCHANGED <<boot, up, rm, beats>>
  BY DEF HandleDeploy
<1>3. CASE IsFull(sm[t])
  BY <1>2, <1>3, PlanningKeeps DEF HandleDeploy
<1>4. CASE ~IsFull(sm[t])
  <2>1. sm' = [sm EXCEPT ![t] = Deploy(@, j, job[j].call)]
    BY <1>4 DEF HandleDeploy
  <2>2. SlotsOk(Deploy(sm[t], j, job[j].call), NumSlots[t])
    BY <1>1, <1>4, DeployOk, ClusterAssumption DEF IInv, SlotsInv
  <2>3. DOMAIN sm' = TMs /\ SlotsInv'
    BY <1>1, <2>1, <2>2 DEF IInv, Typing, SlotsInv
  <2>4. QED  BY <1>2, <2>3 DEF IInv, Typing, OffersFit
<1>5. QED  BY <1>3, <1>4

LEMMA CancelSubtaskKeeps ==
  ASSUME NEW t \in TMs, NEW x, IInv, CancelSubtask(t, x)
  PROVE  IInv'
<1>1. SlotsOk(Cancel(sm[t], x), NumSlots[t])
  BY CancelOk, ClusterAssumption DEF IInv, SlotsInv
<1>2. sm' = [sm EXCEPT ![t] = Cancel(@, x)] /\ UNCHANGED <<boot, up, rm, beats>>
  BY DEF CancelSubtask
<1>3. DOMAIN sm' = TMs /\ SlotsInv'
  BY <1>1, <1>2 DEF IInv, Typing, SlotsInv
<1> QED  BY <1>2, <1>3 DEF IInv, Typing, OffersFit

LEMMA JmRestartKeeps ==
  ASSUME IInv, JmRestart
  PROVE  IInv'
<1>1. rm' = [t \in TMs |-> Unknown] /\ UNCHANGED <<boot, up, sm, beats>>
  BY DEF JmRestart, tmVars
<1> QED  BY <1>1, ClusterAssumption DEF IInv, Typing, SlotsInv, OffersFit, Unknown

LEMMA StepKeeps == IInv /\ [Next]_vars => IInv'
<1> SUFFICES ASSUME IInv, [Next]_vars PROVE IInv'
  OBVIOUS
<1>1. ASSUME NEW t \in TMs, Register(t) \/ Crash(t) \/ SendHeartbeat(t)
      PROVE  IInv'
  BY <1>1, RegisterKeeps, CrashKeeps, SendHeartbeatKeeps
<1>2. ASSUME NEW b \in beats, HandleHeartbeat(b) \/ LoseHeartbeat(b)
      PROVE  IInv'
  BY <1>2, HandleHeartbeatKeeps, LoseHeartbeatKeeps
<1>3. ASSUME NEW j \in Jobs, PlanJob(j) \/ Deployment(j)
      PROVE  IInv'
  <2>1. CASE HandleDeploy(j)
    BY <2>1, HandleDeployKeeps
  <2>2. CASE PlanJob(j)
    BY <2>2, PlanningKeeps DEF PlanJob, tmVars
  <2>3. ASSUME NEW t \in TMs, Connect(j, t)
        PROVE  IInv'
    BY <2>3, PlanningKeeps DEF Connect, tmVars
  <2>4. CASE DeployAnswered(j) \/ DeployFails(j) \/ JobDeployed(j)
    BY <2>4, PlanningKeeps DEF DeployAnswered, DeployFails, JobDeployed, tmVars
  <2>5. QED  BY <1>3, <2>1, <2>2, <2>3, <2>4 DEF Deployment
<1>4. ASSUME NEW t \in TMs, NEW x, CancelSubtask(t, x)
      PROVE  IInv'
  BY <1>4, CancelSubtaskKeeps
<1>5. CASE JmRestart
  BY <1>5, JmRestartKeeps
<1>6. CASE UNCHANGED vars
  BY <1>6, PlanningKeeps DEF vars, tmVars
<1>7. QED  BY <1>1, <1>2, <1>3, <1>4, <1>5, <1>6 DEF Next

-----------------------------------------------------------------------------
(* IInv always holds (slot_manager.rs lines 50-75, resource_manager.rs     *)
(* lines 59-66): the map and the slots agree, and reports fit.             *)
THEOREM Invariance == Spec => []IInv
BY InitOk, StepKeeps, PTL DEF Spec

(* Whatever is deployed, cancelled, replayed and restarted, in any order,  *)
(* the map of a TaskManager leads every subtask to its own slot            *)
(* (slot_manager.rs lines 50-75).                                           *)
THEOREM SlotSafety == Spec => []SlotsConsistent
<1>1. IInv => SlotsConsistent
  BY DEF IInv, SlotsInv, SlotsOk, SlotsConsistent, Consistent
<1> QED  BY <1>1, Invariance, PTL

(* No slot offer is made of a count greater than the slots, from whichever *)
(* process the count is (resource_manager.rs line 23, physical.rs line 83). *)
THEOREM OffersNeverUnderflow == Spec => []OffersFit
<1>1. IInv => OffersFit
  BY DEF IInv
<1> QED  BY <1>1, Invariance, PTL

-----------------------------------------------------------------------------
(* A job planned by the JobManager on the offers of its registry.          *)

(* The graph of a job is one node (jm.rs build_job_graph). *)
LEMMA JobGraphFormed ==
  ASSUME NEW j \in Jobs
  PROVE  WellFormed(JobGraph(j))
<1>1. EmptyGraph.nodes = <<>> /\ EmptyGraph.edges = <<>> /\ <<>> \in Seq({}) /\ Len(<<>>) = 0
  BY DEF EmptyGraph
<1>2. NodeIds(EmptyGraph) = {} /\ DOMAIN EmptyGraph.edges = {}
  BY <1>1 DEF NodeIds
<1>3. IsGraph(EmptyGraph)
  <2>1. Range(<<>>) = {}
    BY DEF Range
  <2>2. QED  BY <1>1, <2>1 DEF IsGraph
<1>4. WellFormed(EmptyGraph)
  BY <1>1, <1>2, <1>3 DEF WellFormed, EmptyGraph
<1>5. PICK G : G = EmptyGraph
  OBVIOUS
<1>6. PICK p : p = Parallelism[j]
  OBVIOUS
<1>7. PICK name : name = NameOf[j]
  OBVIOUS
<1>8. PICK H : H = AddNode(G, name, p)
  OBVIOUS
<1>9. WellFormed(H)
  <2>1. p \in Nat
    BY <1>6, ClusterAssumption
  <2>2. WellFormed(G)
    BY <1>4, <1>5
  <2>3. QED  BY <1>8, <2>1, <2>2, AddNodeKeeps
<1>10. QED  BY <1>5, <1>6, <1>7, <1>8, <1>9 DEF JobGraph

(* The orders in which the JobManager may list the TaskManagers it knows. *)
Listings == SetToSeqs({t \in TMs : Known(t)})

(* Every plan of a job fits the offers it is made on. *)
PlannedJobsFit ==
  \A order \in Listings : \A j \in Jobs :
    LET made == Schedule(JobGraph(j), Offers(order), "spread") IN
    made.outcome = "ok" => Fits(JobGraph(j), Offers(order), made.assignments)

(* The offers the JobManager makes of its registry are such as schedule()  *)
(* needs.                                                                  *)
LEMMA OffersAreFit ==
  ASSUME IsFiniteSet(TMs), IInv, NEW order \in Listings
  PROVE  FitOffers(Offers(order))
<1>1. PICK S : S = {t \in TMs : Known(t)}
  OBVIOUS
<1>2. PICK n : n = Cardinality(S)
  OBVIOUS
<1>3. n \in Nat
  <2>1. S \in SUBSET TMs
    BY <1>1
  <2>2. IsFiniteSet(S)
    BY <2>1, FS_Subset
  <2>3. QED  BY <1>2, <2>2, FS_CardinalityType
<1>4. order \in [1..n -> S] /\ \A i, k \in 1..n : i # k => order[i] # order[k]
  BY <1>1, <1>2 DEF Listings, SetToSeqs
<1>5. PICK o : o = Offers(order)
  OBVIOUS
<1>6. o = [k \in 1..n |-> [tm |-> order[k], total |-> NumSlots[order[k]],
                           used |-> rm[order[k]].used]]
  BY <1>4, <1>5 DEF Offers
<1>7. DOMAIN o = 1..n /\ \A k \in 1..n : /\ o[k].tm = order[k]
                                        /\ o[k].total = NumSlots[order[k]]
                                        /\ o[k].used = rm[order[k]].used
  BY <1>6
<1>8. o \in Seq(Range(o))
  <2>1. PICK R : R = Range(o)
    OBVIOUS
  <2>2. \A k \in 1..n : o[k] \in R
    BY <1>7, <2>1 DEF Range
  <2>3. o = [k \in 1..n |-> o[k]]
    BY <1>6
  <2>4. o \in [1..n -> R]
    BY <2>2, <2>3
  <2>5. QED  BY <1>3, <2>1, <2>4
<1>9. ASSUME NEW k \in 1..n
      PROVE  o[k].total \in Nat /\ o[k].used \in 0..o[k].total
  <2>1. PICK t \in TMs : t = order[k]
    BY <1>1, <1>4
  <2>2. NumSlots[t] \in Nat /\ rm[t].used \in Nat /\ rm[t].used <= NumSlots[t]
    BY ClusterAssumption DEF IInv, Typing, OffersFit
  <2>3. QED  BY <1>7, <2>1, <2>2
<1>10. \A i, k \in 1..n : o[i].tm = o[k].tm => i = k
  BY <1>4, <1>7
<1>11. FitOffers(o)
  BY <1>7, <1>8, <1>9, <1>10 DEF FitOffers
<1>12. QED  BY <1>5, <1>11

(* However late usage is reported and in whatever order the TaskManagers   *)
(* are listed, a plan of a job gives every subtask a slot of its own among *)
(* those its TaskManager was last reported not to use (jm.rs line 139).    *)
THEOREM JobsFit ==
  ASSUME IsFiniteSet(TMs)
  PROVE  Spec => []PlannedJobsFit
<1>1. IInv => PlannedJobsFit
  <2> SUFFICES ASSUME IInv, NEW order \in Listings, NEW j \in Jobs
               PROVE  LET made == Schedule(JobGraph(j), Offers(order), "spread") IN
                      made.outcome = "ok" => Fits(JobGraph(j), Offers(order), made.assignments)
    BY Zenon DEF PlannedJobsFit
  <2>1. PICK G : G = JobGraph(j)
    OBVIOUS
  <2>2. PICK offers : offers = Offers(order)
    OBVIOUS
  <2>3. PICK strategy : strategy = "spread"
    OBVIOUS
  <2>4. PICK r : r = Schedule(G, offers, strategy)
    OBVIOUS
  <2>5. WellFormed(G) /\ FitOffers(offers)
    BY <2>1, <2>2, JobGraphFormed, OffersAreFit
  <2>6. r.outcome = "ok" => Fits(G, offers, r.assignments)
    BY <2>4, <2>5, ScheduleFits
  <2>7. QED  BY <2>1, <2>2, <2>3, <2>4, <2>6
<1>2. QED  BY <1>1, Invariance, PTL

-----------------------------------------------------------------------------
(* The plan of a job: its graph has one node, and every index of it is     *)
(* assigned once.                                                           *)

LEMMA OneElement ==
  ASSUME NEW x
  PROVE  /\ <<x>> \in Seq({x}) /\ Len(<<x>>) = 1 /\ <<x>>[1] = x /\ DOMAIN <<x>> = {1}
         /\ Append(<<>>, x) = <<x>> /\ <<>> \in Seq({x}) /\ [k \in 1..1 |-> x] = <<x>>
         /\ 1..1 = {1}
OBVIOUS

(* One node that nothing leads to is the whole order. *)
LEMMA OneNode ==
  ASSUME NEW G, NEW node, G.nodes = <<node>>, G.edges = <<>>
  PROVE  TopologicalOrder(G) = <<1>>
<1>1. /\ Len(G.nodes) = 1 /\ NodeIds(G) = {1} /\ DOMAIN G.edges = {}
  BY OneElement DEF NodeIds
<1>2. IsGraph(G)
  <2>1. G.nodes \in Seq(Range(G.nodes)) /\ G.edges \in Seq(Range(G.edges))
    BY OneElement DEF Range
  <2>2. QED  BY <1>1, <2>1 DEF IsGraph
<1>3. ~Cyclic(G)
  BY <1>1 DEF Cyclic
<1>4. PICK order : order = TopologicalOrder(G)
  OBVIOUS
<1>5. order \in Seq({1}) /\ IsTopological(G, order)
  BY <1>1, <1>2, <1>3, <1>4, KahnCorrect
<1>6. Len(order) = 1
  BY <1>1, <1>5 DEF IsTopological
<1>7. order = <<1>>
  BY <1>5, <1>6
<1>8. QED  BY <1>4, <1>7
(* Every index of the job is assigned once, in its order. *)
EachIndexOnce(j, assignments) ==
  /\ DOMAIN assignments = 1..Parallelism[j]
  /\ assignments = [n \in 1..Parallelism[j] |-> assignments[n]]
  /\ \A n \in 1..Parallelism[j] : assignments[n].subtask.index = n - 1

LEMMA AssignsAll ==
  ASSUME NEW j \in Jobs, NEW offers
  PROVE  EachIndexOnce(j, Assignments(JobGraph(j), <<1>>, offers, "spread"))
<1> DEFINE G == JobGraph(j)
<1> DEFINE node == [name |-> NameOf[j], parallelism |-> Parallelism[j]]
<1>1. G.nodes = <<node>>
  BY OneElement DEF JobGraph, AddNode, EmptyGraph
<1>2. NodeIds(G) = {1} /\ G.nodes[1].parallelism = Parallelism[j]
  BY <1>1, OneElement DEF NodeIds
<1> HIDE DEF G
<1> DEFINE P == Parallelism[j]
<1> DEFINE mine == [i \in 1..P |-> Subtask(G, 1, i - 1)]
<1>3. SubtasksOf(G, 1) = mine
  BY <1>2 DEF SubtasksOf
<1> DEFINE F == [id \in NodeIds(G) |-> SubtasksOf(G, id)]
<1>4. P \in Nat
  BY ClusterAssumption
<1>5. Flat(<<1>>, F) = mine
  <2> DEFINE U == {Subtask(G, 1, i - 1) : i \in 1..P}
  <2>1. mine \in Seq(U)
    <3>1. mine \in [1..P -> U]
      OBVIOUS
    <3> HIDE DEF mine, U, P
    <3>2. QED  BY <1>4, <3>1
  <2>2. F \in [{1} -> Seq(U)] /\ F[1] = mine
    BY <1>2, <1>3, <2>1
  <2> HIDE DEF F, mine, U
  <2>3. Flat(<<1>>, F) = Flat(<<>>, F) \o F[1]
    <3>1. <<>> \in Seq({1}) /\ 1 \in {1} /\ Append(<<>>, 1) = <<1>>
      BY OneElement
    <3>2. Flat(Append(<<>>, 1), F) = Flat(<<>>, F) \o F[1]
      BY <3>1, FlatAppend
    <3>3. QED  BY <3>1, <3>2
  <2>4. Flat(<<>>, F) = <<>>
    BY FlatEmpty
  <2>5. <<>> \o mine = mine
    BY <2>1
  <2>6. QED  BY <2>2, <2>3, <2>4, <2>5
<1> DEFINE slots == PopOrder(SlotQueue(offers, "spread"))
<1> DEFINE made == [n \in DOMAIN mine |->
                      [subtask |-> mine[n], tm |-> offers[slots[n].offer].tm,
                       slot |-> slots[n].slot]]
<1>6. Assignments(G, <<1>>, offers, "spread") = made
  <2> HIDE DEF mine
  <2>1. QED  BY <1>5, Zenon DEF Assignments
<1>7. EachIndexOnce(j, made)
  <2>1. DOMAIN mine = 1..P /\ \A n \in 1..P : mine[n].index = n - 1
    BY DEF Subtask
  <2> HIDE DEF mine, slots
  <2>2. QED  BY <2>1 DEF EachIndexOnce
<1> HIDE DEF made
<1>8. QED  BY <1>6, <1>7 DEF G

LEMMA PlanAssigns ==
  ASSUME NEW j \in Jobs, NEW offers
  PROVE  LET made == Schedule(JobGraph(j), offers, "spread") IN
         made.assignments = <<>> \/ EachIndexOnce(j, made.assignments)
<1> DEFINE G == JobGraph(j)
<1> DEFINE made == Schedule(G, offers, "spread")
<1>1. TopologicalOrder(G) = <<1>>
  <2>1. \E node : G.nodes = <<node>> /\ G.edges = <<>>
    BY OneElement DEF JobGraph, AddNode, EmptyGraph
  <2> HIDE DEF G
  <2>2. QED  BY <2>1, OneNode
<1>2. EachIndexOnce(j, Assignments(G, <<1>>, offers, "spread"))
  BY AssignsAll
<1> HIDE DEF G
<1>3. \/ \E reason : made = Failure(reason)
      \/ made = [outcome |-> "ok",
                 assignments |-> Assignments(G, <<1>>, offers, "spread"),
                 edges |-> PhysicalEdges(G)]
  BY <1>1, Zenon DEF Schedule
<1>4. \A reason : Failure(reason).assignments = <<>>
  BY DEF Failure
<1> HIDE DEF made
<1>5. made.assignments = <<>> \/ made.assignments = Assignments(G, <<1>>, offers, "spread")
  BY <1>3, <1>4
<1>6. QED  BY <1>2, <1>5 DEF made, G

-----------------------------------------------------------------------------
(* What a deploy_job call still has to send and what it has counted.       *)

Names(j) == {SubtaskName(j, i) : i \in 0..(Parallelism[j] - 1)}
AcceptedNames(answers) == {a[3] : a \in answers}

Waiting(todo) == UNION {{todo[t][n] : n \in 1..Len(todo[t])} : t \in TMs}

(* No subtask waits twice. *)
Apart(todo) ==
  \A t, u \in TMs : \A n \in 1..Len(todo[t]), m \in 1..Len(todo[u]) :
    todo[t][n] = todo[u][m] => t = u /\ n = m

Entries(j) ==
  [stage : Stages, todo : [TMs -> Seq(Names(j))], address : [TMs -> Nat],
   target : TMs \cup {NoCall}, call : Names(j) \cup {NoCall, "yes", "no"},
   deployed : Nat]

(* The subtasks counted are accepted ones that will not be sent again. *)
Counts(r, counted) ==
  /\ r.deployed + (IF r.call = "yes" THEN 1 ELSE 0) <= Cardinality(counted)
  /\ counted \cap Waiting(r.todo) = {}
  /\ r.call \notin counted

Serves(j, r, taken) ==
  /\ r \in Entries(j)
  /\ taken \subseteq Names(j)
  /\ Apart(r.todo)
  /\ r.call \notin Waiting(r.todo)
  /\ r.call # NoCall => r.target \in TMs
  /\ r.stage = "new" => r.call = NoCall /\ r.deployed = 0
  /\ \E counted \in SUBSET taken : Counts(r, counted)

(* Kept besides IInv. *)
DeployInv ==
  /\ DOMAIN job = Jobs /\ DOMAIN accepted = Jobs
  /\ \A j \in Jobs : Serves(j, job[j], AcceptedNames(accepted[j]))

LEMMA NamesFinite ==
  ASSUME NEW j \in Jobs
  PROVE  /\ IsFiniteSet(Names(j)) /\ Cardinality(Names(j)) \in Nat
         /\ Cardinality(Names(j)) <= Parallelism[j]
<1> DEFINE P == Parallelism[j]
<1> DEFINE f == [n \in 1..P |-> SubtaskName(j, n - 1)]
<1>1. P \in Nat /\ IsFiniteSet(1..P) /\ Cardinality(1..P) = P
  BY ClusterAssumption, FS_Interval
<1>2. \A i \in 0..(P - 1) : i + 1 \in 1..P /\ (i + 1) - 1 = i
  BY <1>1
<1>3. \A n \in 1..P : n - 1 \in 0..(P - 1)
  BY <1>1
<1>4. f \in Surjection(1..P, Names(j))
  <2>1. f \in [1..P -> Names(j)]
    BY <1>3 DEF Names
  <2>2. \A x \in Names(j) : \E n \in 1..P : f[n] = x
    <3>1. TAKE x \in Names(j)
    <3>2. PICK i \in 0..(P - 1) : x = SubtaskName(j, i)
      BY DEF Names
    <3>3. f[i + 1] = x
      BY <1>2, <3>2
    <3>4. QED  BY <1>2, <3>3
  <2> HIDE DEF f, P
  <2>3. QED  BY <2>1, <2>2 DEF Surjection
<1>5. QED  BY <1>1, <1>4, FS_Surjection, FS_CardinalityType

(* None of the names is a word of the answer. *)
LEMMA NamesApart ==
  ASSUME NEW j \in Jobs
  PROVE  NoCall \notin Names(j) /\ "yes" \notin Names(j) /\ "no" \notin Names(j)
BY NamesAssumption, Zenon DEF Names

(* Taking the first subtask, or all of a TaskManager's, off the list. *)
WithoutFirst(N, todo, t, rest) ==
  /\ rest \in [TMs -> Seq(N)] /\ Apart(rest)
  /\ Waiting(rest) \subseteq Waiting(todo)
  /\ Head(todo[t]) \in Waiting(todo) /\ Head(todo[t]) \in N
  /\ Head(todo[t]) \notin Waiting(rest)

LEMMA DropFirst ==
  ASSUME NEW N, NEW todo \in [TMs -> Seq(N)], Apart(todo), NEW t \in TMs, todo[t] # <<>>,
         NEW rest, rest = [todo EXCEPT ![t] = Tail(todo[t])]
  PROVE  WithoutFirst(N, todo, t, rest)
<1>1. /\ todo[t] \in Seq(N) /\ Len(todo[t]) \in Nat /\ 1 \in 1..Len(todo[t])
      /\ Head(todo[t]) = todo[t][1] /\ todo[t][1] \in N
  OBVIOUS
<1>2. /\ rest[t] \in Seq(N) /\ Len(rest[t]) = Len(todo[t]) - 1
      /\ \A n \in 1..Len(rest[t]) : /\ n + 1 \in 1..Len(todo[t]) /\ n + 1 # 1
                                    /\ rest[t][n] = todo[t][n + 1]
  <2>1. rest[t] = Tail(todo[t])
    OBVIOUS
  <2>2. QED  BY <1>1, <2>1
<1>3. \A u \in TMs : u # t => rest[u] = todo[u]
  OBVIOUS
<1>4. rest \in [TMs -> Seq(N)]
  BY <1>2, <1>3
<1>5. Waiting(rest) \subseteq Waiting(todo)
  BY <1>2, <1>3 DEF Waiting
<1>6. Head(todo[t]) \in Waiting(todo)
  BY <1>1 DEF Waiting
<1>7. \A u \in TMs : \A n \in 1..Len(rest[u]) : rest[u][n] # todo[t][1]
  <2>1. TAKE u \in TMs
  <2>2. TAKE n \in 1..Len(rest[u])
  <2>3. CASE u = t
    BY <1>1, <1>2, <2>3 DEF Apart
  <2>4. CASE u # t
    BY <1>1, <1>3, <2>4 DEF Apart
  <2>5. QED  BY <2>3, <2>4
<1>8. Head(todo[t]) \notin Waiting(rest)
  BY <1>1, <1>7 DEF Waiting
<1>9. Apart(rest)
  <2>1. SUFFICES ASSUME NEW u \in TMs, NEW v \in TMs,
                        NEW n \in 1..Len(rest[u]), NEW m \in 1..Len(rest[v]),
                        rest[u][n] = rest[v][m]
                 PROVE  u = v /\ n = m
    BY DEF Apart
  <2>2. /\ n \in Nat /\ m \in Nat
    BY <1>4
  <2>3. PICK n1 \in 1..Len(todo[u]) :
          rest[u][n] = todo[u][n1] /\ n1 = IF u = t THEN n + 1 ELSE n
    BY <1>2, <1>3
  <2>4. PICK m1 \in 1..Len(todo[v]) :
          rest[v][m] = todo[v][m1] /\ m1 = IF v = t THEN m + 1 ELSE m
    BY <1>2, <1>3
  <2>5. u = v /\ n1 = m1
    BY <2>1, <2>3, <2>4 DEF Apart
  <2>6. QED  BY <2>2, <2>3, <2>4, <2>5
<1>10. QED  BY <1>1, <1>4, <1>5, <1>6, <1>8, <1>9 DEF WithoutFirst

LEMMA DropAll ==
  ASSUME NEW N, NEW todo \in [TMs -> Seq(N)], Apart(todo), NEW t \in TMs,
         NEW rest, rest = [todo EXCEPT ![t] = <<>>]
  PROVE  /\ rest \in [TMs -> Seq(N)] /\ Apart(rest)
         /\ Waiting(rest) \subseteq Waiting(todo)
<1>1. rest[t] = <<>> /\ Len(<<>>) = 0 /\ 1..0 = {} /\ <<>> \in Seq(N)
  OBVIOUS
<1>2. \A u \in TMs : u # t => rest[u] = todo[u]
  OBVIOUS
<1>3. rest \in [TMs -> Seq(N)]
  BY <1>1, <1>2
<1>4. \A u \in TMs : u = t => 1..Len(rest[u]) = {}
  BY <1>1
<1>5. Waiting(rest) \subseteq Waiting(todo)
  BY <1>2, <1>4 DEF Waiting
<1>6. Apart(rest)
  BY <1>2, <1>4 DEF Apart
<1>7. QED  BY <1>3, <1>5, <1>6

(* A plan gives every TaskManager subtasks of its own. *)
LEMMA GroupsApart ==
  ASSUME NEW j \in Jobs, NEW assignments,
         assignments = <<>> \/ EachIndexOnce(j, assignments),
         NEW todo, todo = [t \in TMs |-> GroupFor(t, j, assignments)]
  PROVE  todo \in [TMs -> Seq(Names(j))] /\ Apart(todo)
<1> DEFINE P == Parallelism[j]
<1> DEFINE A == {assignments[n] : n \in 1..Len(assignments)}
<1>1. P \in Nat
  BY ClusterAssumption
<1>2. /\ assignments \in Seq(A) /\ Len(assignments) \in Nat
      /\ \A n \in 1..Len(assignments) : n \in 1..P /\ assignments[n].subtask.index = n - 1
  <2>1. CASE assignments = <<>>
    BY <2>1
  <2>2. CASE EachIndexOnce(j, assignments)
    <3>1. assignments \in [1..P -> {assignments[n] : n \in 1..P}]
      BY <2>2 DEF EachIndexOnce
    <3>2. assignments \in Seq({assignments[n] : n \in 1..P}) /\ Len(assignments) = P
      BY <1>1, <3>1
    <3>3. QED  BY <1>1, <2>2, <3>2 DEF EachIndexOnce
  <2>3. QED  BY <2>1, <2>2
<1>3. \A n, m \in 1..Len(assignments) : assignments[n] = assignments[m] => n = m
  <2>1. TAKE n, m \in 1..Len(assignments)
  <2>2. HAVE assignments[n] = assignments[m]
  <2>3. n - 1 = m - 1
    BY <1>2, <2>2, Zenon
  <2>4. QED  BY <1>2, <2>3
<1>4. \A a \in A : a.subtask.index \in 0..(P - 1)
  <2>1. TAKE a \in A
  <2>2. PICK n \in 1..Len(assignments) : a = assignments[n]
    OBVIOUS
  <2>3. n \in 1..P /\ a.subtask.index = n - 1
    BY <1>2, <2>2, Zenon
  <2>4. QED  BY <1>1, <2>3
<1>5. \A a, b \in A : a.subtask.index = b.subtask.index => a = b
  <2>1. TAKE a, b \in A
  <2>2. PICK n \in 1..Len(assignments), m \in 1..Len(assignments) :
          a = assignments[n] /\ b = assignments[m]
    OBVIOUS
  <2>3. QED  BY <1>2, <2>2
<1> HIDE DEF A
<1> DEFINE Of(t) == {a \in Range(assignments) : a.tm = t}
<1> DEFINE mine(t) == Keep(assignments, Of(t))
<1>6. ASSUME NEW t \in TMs
      PROVE  /\ mine(t) \in Seq(A \cap Of(t))
             /\ \A n, m \in 1..Len(mine(t)) : mine(t)[n] = mine(t)[m] => n = m
  <2>1. mine(t) \in Seq(A \cap Of(t))
    BY <1>2, KeepTyped
  <2>2. \A n, m \in 1..Len(mine(t)) : mine(t)[n] = mine(t)[m] => n = m
    BY <1>2, <1>3, KeepDistinct
  <2>3. QED  BY <2>1, <2>2
<1>7. ASSUME NEW t \in TMs
      PROVE  /\ Len(mine(t)) \in Nat
             /\ \A n \in 1..Len(mine(t)) :
                  /\ mine(t)[n] \in A /\ mine(t)[n].tm = t
                  /\ mine(t)[n].subtask.index \in 0..(P - 1)
  <2>1. PICK s : s = mine(t)
    OBVIOUS
  <2>2. s \in Seq(A \cap Of(t))
    BY <1>6, <2>1
  <2> HIDE DEF mine
  <2>3. Len(s) \in Nat /\ \A n \in 1..Len(s) : s[n] \in A \cap Of(t)
    <3> HIDE DEF Of
    <3> QED  BY <2>2
  <2>4. QED  BY <1>4, <2>1, <2>3
<1>8. ASSUME NEW t \in TMs
      PROVE  /\ todo[t] \in Seq(Names(j)) /\ Len(todo[t]) = Len(mine(t))
             /\ \A n \in 1..Len(mine(t)) : todo[t][n] = SubtaskName(j, mine(t)[n].subtask.index)
  <2>1. todo[t] = [n \in DOMAIN mine(t) |-> SubtaskName(j, mine(t)[n].subtask.index)]
    BY Zenon DEF GroupFor
  <2>2. DOMAIN mine(t) = 1..Len(mine(t))
    <3> HIDE DEF mine, Of
    <3>1. QED  BY <1>6
  <2> HIDE DEF mine
  <2>3. todo[t] \in [1..Len(mine(t)) -> Names(j)]
    <3>1. \A n \in 1..Len(mine(t)) : SubtaskName(j, mine(t)[n].subtask.index) \in Names(j)
      BY <1>7, Zenon DEF Names
    <3>2. QED  BY <2>1, <2>2, <3>1
  <2>4. todo[t] \in Seq(Names(j)) /\ Len(todo[t]) = Len(mine(t))
    <3>1. PICK q : q = Len(mine(t))
      OBVIOUS
    <3>2. PICK f : f = todo[t]
      OBVIOUS
    <3>3. q \in Nat /\ f \in [1..q -> Names(j)]
      BY <1>7, <2>3, <3>1, <3>2
    <3>4. f \in Seq(Names(j)) /\ Len(f) = q
      BY <3>3
    <3>5. QED  BY <3>1, <3>2, <3>4
  <2>5. QED  BY <2>1, <2>2, <2>4
<1> HIDE DEF mine
<1>9. todo \in [TMs -> Seq(Names(j))]
  BY <1>8
<1>10. Apart(todo)
  <2>1. SUFFICES ASSUME NEW t \in TMs, NEW u \in TMs,
                        NEW n \in 1..Len(todo[t]), NEW m \in 1..Len(todo[u]),
                        todo[t][n] = todo[u][m]
                 PROVE  t = u /\ n = m
    BY DEF Apart
  <2>2. n \in 1..Len(mine(t)) /\ m \in 1..Len(mine(u))
    BY <1>8
  <2>3. SubtaskName(j, mine(t)[n].subtask.index) = SubtaskName(j, mine(u)[m].subtask.index)
    BY <1>8, <2>1, <2>2
  <2>4. mine(t)[n].subtask.index = mine(u)[m].subtask.index
    <3>1. /\ mine(t)[n].subtask.index \in 0..(Parallelism[j] - 1)
          /\ mine(u)[m].subtask.index \in 0..(Parallelism[j] - 1)
      BY <1>7, <2>2
    <3>2. QED  BY <2>3, <3>1, NamesAssumption, Zenon
  <2>5. mine(t)[n] = mine(u)[m]
    BY <1>5, <1>7, <2>2, <2>4
  <2>6. t = u
    BY <1>7, <2>2, <2>5
  <2>7. QED  BY <1>6, <2>2, <2>5, <2>6 DEF mine
<1>11. QED  BY <1>9, <1>10

-----------------------------------------------------------------------------
(* DeployInv is kept by every step of a deployment. *)

(* A change of one job's call. *)
LEMMA OneJob ==
  ASSUME DeployInv, NEW j \in Jobs, NEW r, job' = [job EXCEPT ![j] = r],
         UNCHANGED accepted, Serves(j, r, AcceptedNames(accepted[j]))
  PROVE  DeployInv'
<1>1. job'[j] = r /\ DOMAIN job' = Jobs /\ \A k \in Jobs : k # j => job'[k] = job[k]
  BY DEF DeployInv
<1>2. accepted' = accepted
  OBVIOUS
<1>3. \A k \in Jobs : Serves(k, job'[k], AcceptedNames(accepted[k]))
  BY <1>1, Zenon DEF DeployInv
<1>4. QED  BY <1>1, <1>2, <1>3 DEF DeployInv

LEMMA EmptyCounts ==
  Cardinality({}) = 0
BY FS_EmptySet

LEMMA PlanServes ==
  ASSUME IInv, DeployInv, NEW j \in Jobs, PlanJob(j)
  PROVE  DeployInv'
<1> DEFINE r == job[j]
<1>1. r \in Entries(j) /\ AcceptedNames(accepted[j]) \subseteq Names(j)
  BY DEF DeployInv, Serves
<1>2. r.stage = "new" /\ r.call = NoCall /\ r.deployed = 0
  BY DEF PlanJob, DeployInv, Serves
<1>3. PICK order \in SetToSeqs({t \in TMs : Known(t)}) :
        LET made == Schedule(JobGraph(j), Offers(order), "spread")
            grouped == [t \in TMs |-> GroupFor(t, j, made.assignments)]
            refused == order = <<>> \/ made.outcome # "ok"
        IN  job' = [job EXCEPT ![j] =
                      [@ EXCEPT !.stage = IF refused THEN "refused" ELSE "deploying",
                                !.todo = grouped,
                                !.address = [t \in TMs |-> rm[t].boot]]]
  BY Zenon DEF PlanJob
<1> DEFINE made == Schedule(JobGraph(j), Offers(order), "spread")
<1> DEFINE grouped == [t \in TMs |-> GroupFor(t, j, made.assignments)]
<1> DEFINE address == [t \in TMs |-> rm[t].boot]
<1>4. grouped \in [TMs -> Seq(Names(j))] /\ Apart(grouped)
  <2>1. made.assignments = <<>> \/ EachIndexOnce(j, made.assignments)
    BY PlanAssigns
  <2> HIDE DEF made
  <2>2. PICK g : g = grouped
    OBVIOUS
  <2>3. g \in [TMs -> Seq(Names(j))] /\ Apart(g)
    BY <2>1, <2>2, GroupsApart
  <2>4. QED  BY <2>2, <2>3
<1>5. address \in [TMs -> Nat]
  BY DEF IInv, Typing
<1>6. PICK stage : stage \in Stages /\ stage # "new" /\
        job' = [job EXCEPT ![j] =
                  [r EXCEPT !.stage = stage, !.todo = grouped, !.address = address]]
  <2> HIDE DEF made, address
  <2>1. job' = [job EXCEPT ![j] =
                  [r EXCEPT !.stage = IF order = <<>> \/ made.outcome # "ok"
                                      THEN "refused" ELSE "deploying",
                            !.todo = grouped, !.address = address]]
    BY <1>3, Zenon DEF made, address
  <2> HIDE DEF grouped, r
  <2>2. "refused" \in Stages /\ "deploying" \in Stages
    BY DEF Stages
  <2>3. CASE order = <<>> \/ made.outcome # "ok"
    BY <2>1, <2>2, <2>3
  <2>4. CASE ~(order = <<>> \/ made.outcome # "ok")
    BY <2>1, <2>2, <2>4
  <2>5. QED  BY <2>3, <2>4, Zenon
<1> HIDE DEF made, grouped, address
<1> DEFINE s == [r EXCEPT !.stage = stage, !.todo = grouped, !.address = address]
<1>7. /\ s \in Entries(j) /\ s.stage # "new" /\ s.todo = grouped
      /\ s.call = NoCall /\ s.deployed = 0
  <2> HIDE DEF r
  <2>1. QED  BY <1>1, <1>2, <1>4, <1>5, <1>6 DEF Entries
<1> HIDE DEF s
<1>8. s.call \notin Waiting(s.todo)
  <2>1. Waiting(grouped) \subseteq Names(j)
    <3>1. \A t \in TMs : \A n \in 1..Len(grouped[t]) : grouped[t][n] \in Names(j)
      BY <1>4
    <3>2. QED  BY <3>1 DEF Waiting
  <2>2. QED  BY <1>7, <2>1, NamesApart
<1>9. Counts(s, {})
  <2>1. s.call # "yes"
    BY <1>7 DEF NoCall
  <2>2. QED  BY <1>7, <2>1, EmptyCounts DEF Counts
<1>10. Serves(j, s, AcceptedNames(accepted[j]))
  BY <1>1, <1>4, <1>7, <1>8, <1>9 DEF Serves
<1>11. QED  BY <1>6, <1>10, OneJob DEF PlanJob, s

(* The next call is of a subtask that is not counted yet. *)
LEMMA NextServes ==
  ASSUME NEW j \in Jobs, NEW t \in TMs, NEW taken,
         Serves(j, job[j], taken), Deploying(j),
         NEW n \in {0, 1}, n = 1 => job[j].call = "yes",
         NEW next, next = NextCall(j, t), NEW m, m = next.deployed + n,
         NEW s, s = [next EXCEPT !.deployed = m]
  PROVE  Serves(j, s, taken)
<1> DEFINE r == job[j]
<1>1. r \in Entries(j) /\ taken \subseteq Names(j) /\ Apart(r.todo) /\ r.stage = "deploying"
  BY DEF Serves, Deploying
<1>2. PICK counted \in SUBSET taken : Counts(r, counted)
  BY DEF Serves
<1>3. counted \subseteq Names(j) /\ NoCall \notin counted /\ "yes" \notin Names(j)
  BY <1>1, NamesApart
<1>4. Cardinality(counted) \in Nat
  BY <1>3, NamesFinite, FS_Subset, FS_CardinalityType
<1>5. r.deployed + n <= Cardinality(counted)
  <2>1. r.deployed \in Nat
    BY <1>1 DEF Entries
  <2>2. QED  BY <1>2, <1>4, <2>1 DEF Counts
<1>6. CASE r.todo[t] = <<>>
  <2>1. next = [r EXCEPT !.target = NoCall, !.call = NoCall]
    BY <1>6, Zenon DEF NextCall
  <2> HIDE DEF r
  <2>2. /\ next \in Entries(j) /\ next.stage = "deploying" /\ next.todo = r.todo
        /\ next.call = NoCall /\ next.deployed = r.deployed
    BY <1>1, <2>1 DEF Entries
  <2>3. /\ s \in Entries(j) /\ s.stage = "deploying" /\ s.todo = r.todo
        /\ s.call = NoCall /\ s.deployed = r.deployed + n
    <3>1. m \in Nat /\ m = r.deployed + n
      BY <1>1, <2>2 DEF Entries
    <3>2. QED  BY <2>2, <3>1 DEF Entries
  <2>4. Waiting(r.todo) \subseteq Names(j)
    <3>1. r.todo \in [TMs -> Seq(Names(j))]
      BY <1>1 DEF Entries
    <3>2. \A u \in TMs : \A k \in 1..Len(r.todo[u]) : r.todo[u][k] \in Names(j)
      BY <3>1
    <3>3. QED  BY <3>2 DEF Waiting
  <2>5. Counts(s, counted)
    <3>1. s.call # "yes" /\ s.deployed \in Nat
      BY <2>3 DEF NoCall, Entries
    <3>2. QED  BY <1>2, <1>3, <1>5, <2>3, <3>1 DEF Counts
  <2>6. s.call \notin Waiting(s.todo) /\ s.stage # "new"
    BY <2>3, <2>4, NamesApart
  <2>7. QED  BY <1>1, <2>3, <2>5, <2>6 DEF Serves
<1>7. CASE r.todo[t] # <<>>
  <2> DEFINE first == Head(r.todo[t])
  <2> DEFINE rest == [r.todo EXCEPT ![t] = Tail(r.todo[t])]
  <2>1. next = [r EXCEPT !.target = t, !.call = first, !.todo = rest]
    BY <1>7, Zenon DEF NextCall
  <2>2. PICK todo : todo = r.todo
    OBVIOUS
  <2>3. PICK d : d = rest
    OBVIOUS
  <2>4. todo \in [TMs -> Seq(Names(j))] /\ Apart(todo)
    BY <1>1, <2>2 DEF Entries
  <2> HIDE DEF r
  <2>5. todo[t] # <<>> /\ d = [todo EXCEPT ![t] = Tail(todo[t])] /\ first = Head(todo[t])
    BY <1>7, <2>2, <2>3
  <2> HIDE DEF first, rest
  <2>6. /\ d \in [TMs -> Seq(Names(j))] /\ Apart(d)
        /\ Waiting(d) \subseteq Waiting(todo)
        /\ first \in Waiting(todo) /\ first \in Names(j)
        /\ first \notin Waiting(d)
    <3>1. WithoutFirst(Names(j), todo, t, d)
      BY <2>4, <2>5, DropFirst
    <3>2. QED  BY <2>5, <3>1 DEF WithoutFirst
  <2>7. /\ next \in Entries(j) /\ next.stage = "deploying" /\ next.todo = d
        /\ next.call = first /\ next.deployed = r.deployed /\ next.target = t
    BY <1>1, <2>1, <2>3, <2>6 DEF Entries
  <2>8. /\ s \in Entries(j) /\ s.stage = "deploying" /\ s.todo = d
        /\ s.call = first /\ s.deployed = r.deployed + n /\ s.target = t
    <3>1. m \in Nat /\ m = r.deployed + n
      BY <1>1, <2>7 DEF Entries
    <3>2. QED  BY <2>7, <3>1 DEF Entries
  <2>9. Counts(s, counted)
    <3>1. s.call # "yes" /\ s.deployed \in Nat
      BY <1>3, <2>6, <2>8 DEF Entries
    <3>2. counted \cap Waiting(todo) = {}
      BY <1>2, <2>2 DEF Counts
    <3>3. QED  BY <1>5, <2>6, <2>8, <3>1, <3>2 DEF Counts
  <2>10. QED  BY <1>1, <2>6, <2>8, <2>9 DEF Serves
<1>8. QED  BY <1>6, <1>7

(* Connecting sends the first call, or skips all of them. *)
LEMMA ConnectServes ==
  ASSUME DeployInv, NEW j \in Jobs, NEW t \in TMs, Connect(j, t)
  PROVE  DeployInv'
<1> DEFINE r == job[j]
<1> DEFINE taken == AcceptedNames(accepted[j])
<1>1. Serves(j, r, taken) /\ Deploying(j)
  BY DEF DeployInv, Connect
<1>2. r \in Entries(j) /\ taken \subseteq Names(j) /\ Apart(r.todo) /\ r.stage = "deploying"
  BY <1>1 DEF Serves, Deploying
<1>3. PICK next : next = NextCall(j, t)
  OBVIOUS
<1>4. PICK rest : rest = [r.todo EXCEPT ![t] = <<>>]
  OBVIOUS
<1>5. job' = [job EXCEPT ![j] = IF Answers(j, t) THEN next ELSE [r EXCEPT !.todo = rest]]
  BY <1>3, <1>4, Zenon DEF Connect
<1>6. UNCHANGED accepted
  BY DEF Connect
<1> HIDE DEF taken
<1>7. CASE Answers(j, t)
  <2>1. r.todo[t] # <<>>
    BY DEF Connect
  <2>2. next \in Entries(j)
    <3> DEFINE first == Head(r.todo[t])
    <3>1. PICK d : d = [r.todo EXCEPT ![t] = Tail(r.todo[t])]
      OBVIOUS
    <3>2. next = [r EXCEPT !.target = t, !.call = first, !.todo = d]
      BY <1>3, <2>1, <3>1, Zenon DEF NextCall
    <3>3. PICK todo : todo = r.todo
      OBVIOUS
    <3>4. todo \in [TMs -> Seq(Names(j))]
      BY <1>2, <3>3 DEF Entries
    <3>5. WithoutFirst(Names(j), todo, t, d)
      <4> HIDE DEF r
      <4>1. Apart(todo) /\ todo[t] # <<>> /\ d = [todo EXCEPT ![t] = Tail(todo[t])]
        BY <1>2, <2>1, <3>1, <3>3
      <4>2. QED  BY <3>4, <4>1, DropFirst
    <3>6. first \in Names(j) /\ d \in [TMs -> Seq(Names(j))]
      BY <3>3, <3>5 DEF WithoutFirst
    <3> HIDE DEF first, r
    <3>7. QED  BY <1>2, <3>2, <3>6 DEF Entries
  <2>3. PICK s : s = [next EXCEPT !.deployed = next.deployed]
    OBVIOUS
  <2>4. s = next
    BY <2>2, <2>3 DEF Entries
  <2>5. next.deployed + 0 = next.deployed
    BY <2>2 DEF Entries
  <2>6. Serves(j, s, taken)
    <3>1. 0 \in {0, 1} /\ (0 = 1 => r.call = "yes")
      OBVIOUS
    <3>2. next.deployed = next.deployed + 0
      BY <2>5
    <3>3. QED  BY <1>1, <1>3, <2>3, <3>1, <3>2, NextServes
  <2>7. job' = [job EXCEPT ![j] = next]
    BY <1>5, <1>7, Zenon
  <2>8. QED  BY <1>6, <2>4, <2>6, <2>7, OneJob DEF taken
<1>8. CASE ~Answers(j, t)
  <2>1. PICK s : s = [r EXCEPT !.todo = rest]
    OBVIOUS
  <2>2. job' = [job EXCEPT ![j] = s]
    BY <1>5, <1>8, <2>1, Zenon
  <2>3. /\ rest \in [TMs -> Seq(Names(j))] /\ Apart(rest)
        /\ Waiting(rest) \subseteq Waiting(r.todo)
    <3>1. PICK todo : todo = r.todo
      OBVIOUS
    <3>2. todo \in [TMs -> Seq(Names(j))] /\ Apart(todo)
      BY <1>2, <3>1 DEF Entries
    <3> HIDE DEF r
    <3>3. rest = [todo EXCEPT ![t] = <<>>]
      BY <1>4, <3>1
    <3>4. QED  BY <3>1, <3>2, <3>3, DropAll
  <2> HIDE DEF r
  <2>4. /\ s \in Entries(j) /\ s.stage = "deploying" /\ s.todo = rest /\ s.call = r.call
        /\ s.deployed = r.deployed /\ s.target = r.target
    BY <1>2, <2>1, <2>3 DEF Entries
  <2>5. PICK counted \in SUBSET taken : Counts(r, counted)
    BY <1>1 DEF Serves
  <2>6. Counts(s, counted)
    BY <2>3, <2>4, <2>5 DEF Counts
  <2>7. Serves(j, s, taken)
    BY <1>1, <2>3, <2>4, <2>6 DEF Serves
  <2>8. QED  BY <1>6, <2>2, <2>7, OneJob DEF taken
<1>9. QED  BY <1>7, <1>8

(* The answer is read, or the call fails. *)
LEMMA CountedServes ==
  ASSUME DeployInv, NEW j \in Jobs, Deploying(j), job[j].call # NoCall,
         NEW n \in {0, 1}, n = 1 => job[j].call = "yes",
         Counted(j, n), UNCHANGED accepted
  PROVE  DeployInv'
<1> DEFINE t == job[j].target
<1> DEFINE taken == AcceptedNames(accepted[j])
<1>1. Serves(j, job[j], taken)
  BY DEF DeployInv
<1>2. t \in TMs
  BY <1>1 DEF Serves
<1>3. PICK next : next = NextCall(j, t)
  OBVIOUS
<1>4. PICK m : m = next.deployed + n
  OBVIOUS
<1>5. PICK s : s = [next EXCEPT !.deployed = m]
  OBVIOUS
<1>6. job' = [job EXCEPT ![j] = s]
  BY <1>3, <1>4, <1>5, Zenon DEF Counted
<1> HIDE DEF t, taken
<1>7. Serves(j, s, taken)
  BY <1>1, <1>2, <1>3, <1>4, <1>5, NextServes
<1>8. QED  BY <1>6, <1>7, OneJob DEF taken

LEMMA AnswerServes ==
  ASSUME DeployInv, NEW j \in Jobs, DeployAnswered(j) \/ DeployFails(j)
  PROVE  DeployInv'
<1>1. CASE DeployAnswered(j)
  <2> DEFINE n == IF job[j].call = "yes" THEN 1 ELSE 0
  <2>1. Deploying(j) /\ job[j].call # NoCall /\ Counted(j, n) /\ UNCHANGED accepted
    BY <1>1 DEF DeployAnswered, NoCall
  <2>2. n \in {0, 1} /\ (n = 1 => job[j].call = "yes")
    OBVIOUS
  <2> HIDE DEF n
  <2>3. QED  BY <2>1, <2>2, CountedServes
<1>2. CASE DeployFails(j)
  <2>1. Deploying(j) /\ job[j].call # NoCall /\ Counted(j, 0) /\ UNCHANGED accepted
    BY <1>2 DEF DeployFails
  <2>2. 0 \in {0, 1} /\ (0 = 1 => job[j].call = "yes")
    OBVIOUS
  <2>3. QED  BY <2>1, <2>2, CountedServes
<1>3. QED  BY <1>1, <1>2

LEMMA DeployedServes ==
  ASSUME DeployInv, NEW j \in Jobs, JobDeployed(j)
  PROVE  DeployInv'
<1>1. PICK s : s = [job[j] EXCEPT !.stage = "returned"]
  OBVIOUS
<1>2. job' = [job EXCEPT ![j] = s] /\ UNCHANGED accepted
  BY <1>1 DEF JobDeployed
<1> DEFINE r == job[j]
<1> DEFINE taken == AcceptedNames(accepted[j])
<1>3. Serves(j, r, taken)
  BY DEF DeployInv
<1> HIDE DEF taken
<1>4. r \in Entries(j) /\ "returned" \in Stages
  BY <1>3 DEF Serves, Stages
<1>5. /\ s \in Entries(j) /\ s.stage = "returned" /\ s.todo = r.todo /\ s.call = r.call
      /\ s.deployed = r.deployed /\ s.target = r.target
  <2> HIDE DEF r
  <2>1. s = [r EXCEPT !.stage = "returned"]
    BY <1>1 DEF r
  <2>2. QED  BY <1>4, <2>1 DEF Entries
<1>6. PICK counted \in SUBSET taken : Counts(r, counted)
  BY <1>3 DEF Serves
<1> HIDE DEF r
<1>7. Counts(s, counted)
  BY <1>5, <1>6 DEF Counts
<1>8. Serves(j, s, taken)
  BY <1>3, <1>5, <1>7 DEF Serves
<1>9. QED  BY <1>2, <1>8, OneJob DEF taken

(* An accepted subtask may be counted, and is not sent again. *)
LEMMA AcceptServes ==
  ASSUME DeployInv, NEW j \in Jobs, HandleDeploy(j)
  PROVE  DeployInv'
<1> DEFINE r == job[j]
<1> DEFINE x == r.call
<1> DEFINE taken == AcceptedNames(accepted[j])
<1>1. Serves(j, r, taken)
  BY DEF DeployInv
<1> HIDE DEF taken
<1>2. /\ r \in Entries(j) /\ r.stage = "deploying" /\ x \notin {NoCall, "yes", "no"}
      /\ x \in Names(j)
  <2>1. r \in Entries(j)
    BY <1>1 DEF Serves
  <2>2. r.stage = "deploying" /\ x \notin {NoCall, "yes", "no"}
    BY DEF HandleDeploy, Deploying
  <2> HIDE DEF r
  <2>3. r.call \in Names(j) \cup {NoCall, "yes", "no"}
    BY <2>1 DEF Entries
  <2>4. QED  BY <2>1, <2>2, <2>3
<1>3. r.target \in TMs /\ taken \subseteq Names(j) /\ Apart(r.todo) /\ x \notin Waiting(r.todo)
  BY <1>1, <1>2 DEF Serves
<1>4. PICK counted \in SUBSET taken : Counts(r, counted)
  BY <1>1 DEF Serves
<1>5. IsFiniteSet(counted) /\ Cardinality(counted) \in Nat /\ counted \subseteq Names(j)
  BY <1>3, NamesFinite, FS_Subset, FS_CardinalityType
<1>6. r.deployed \in Nat /\ r.deployed <= Cardinality(counted)
  <2>1. r.deployed \in Nat
    <3> HIDE DEF r
    <3>1. QED  BY <1>2 DEF Entries
  <2>2. QED  BY <1>2, <1>4, <2>1 DEF Counts
<1>7. Waiting(r.todo) \subseteq Names(j)
  <2>1. r.todo \in [TMs -> Seq(Names(j))]
    <3> HIDE DEF r
    <3>1. QED  BY <1>2 DEF Entries
  <2>2. \A u \in TMs : \A k \in 1..Len(r.todo[u]) : r.todo[u][k] \in Names(j)
    BY <2>1
  <2>3. QED  BY <2>2 DEF Waiting
<1>8. ASSUME NEW word \in {"yes", "no"}
      PROVE  LET s == [r EXCEPT !.call = word] IN
             /\ s \in Entries(j) /\ s.stage = "deploying" /\ s.todo = r.todo /\ s.call = word
             /\ s.deployed = r.deployed /\ s.target = r.target
             /\ s.call \notin Waiting(s.todo)
  <2>1. PICK s : s = [r EXCEPT !.call = word]
    OBVIOUS
  <2> HIDE DEF r
  <2>2. /\ s \in Entries(j) /\ s.stage = "deploying" /\ s.todo = r.todo /\ s.call = word
        /\ s.deployed = r.deployed /\ s.target = r.target
    BY <1>2, <2>1 DEF Entries
  <2>3. word \notin Names(j)
    BY NamesApart
  <2>4. QED  BY <1>7, <2>1, <2>2, <2>3
<1>9. CASE IsFull(sm[r.target])
  <2>1. PICK s : s = [r EXCEPT !.call = "no"]
    OBVIOUS
  <2>2. job' = [job EXCEPT ![j] = s] /\ UNCHANGED accepted
    BY <1>9, <2>1 DEF HandleDeploy
  <2>3. /\ s \in Entries(j) /\ s.stage = "deploying" /\ s.todo = r.todo /\ s.call = "no"
        /\ s.deployed = r.deployed /\ s.target = r.target /\ s.call \notin Waiting(s.todo)
    BY <1>8, <2>1
  <2> HIDE DEF r
  <2>4. Counts(s, counted)
    <3>1. "no" \notin counted
      BY <1>5, NamesApart
    <3>2. QED  BY <1>4, <1>6, <2>3, <3>1 DEF Counts
  <2>5. Serves(j, s, taken)
    BY <1>3, <2>3, <2>4 DEF Serves
  <2>6. QED  BY <2>2, <2>5, OneJob DEF taken
<1>10. CASE ~IsFull(sm[r.target])
  <2>1. PICK s : s = [r EXCEPT !.call = "yes"]
    OBVIOUS
  <2>2. PICK more : more = accepted[j] \cup {<<r.target, boot[r.target], x>>}
    OBVIOUS
  <2>3. job' = [job EXCEPT ![j] = s] /\ accepted' = [accepted EXCEPT ![j] = more]
    BY <1>10, <2>1, <2>2 DEF HandleDeploy
  <2>4. /\ s \in Entries(j) /\ s.stage = "deploying" /\ s.todo = r.todo /\ s.call = "yes"
        /\ s.deployed = r.deployed /\ s.target = r.target /\ s.call \notin Waiting(s.todo)
    BY <1>8, <2>1
  <2>5. AcceptedNames(more) = taken \cup {x}
    <3>1. <<r.target, boot[r.target], x>>[3] = x
      OBVIOUS
    <3> HIDE DEF x, r
    <3>2. QED  BY <2>2, <3>1 DEF AcceptedNames, taken
  <2> DEFINE counted1 == counted \cup {x}
  <2>6. Cardinality(counted1) = Cardinality(counted) + 1
    <3>1. x \notin counted
      BY <1>4 DEF Counts
    <3>2. QED  BY <1>5, <3>1, FS_AddElement
  <2>7. counted1 \subseteq Names(j) /\ counted1 \cap Waiting(r.todo) = {}
    BY <1>2, <1>3, <1>4, <1>5 DEF Counts
  <2> HIDE DEF r
  <2>8. Counts(s, counted1)
    <3>1. "yes" \notin counted1
      BY <2>7, NamesApart
    <3> HIDE DEF counted1, x
    <3>2. QED  BY <1>5, <1>6, <2>4, <2>6, <2>7, <3>1 DEF Counts
  <2>9. Serves(j, s, AcceptedNames(more))
    <3>1. AcceptedNames(more) \subseteq Names(j) /\ counted1 \subseteq AcceptedNames(more)
      BY <1>2, <1>3, <2>5
    <3> HIDE DEF counted1, x
    <3>2. QED  BY <1>3, <2>4, <2>8, <3>1 DEF Serves
  <2>10. /\ job'[j] = s /\ DOMAIN job' = Jobs /\ \A k \in Jobs : k # j => job'[k] = job[k]
         /\ accepted'[j] = more /\ DOMAIN accepted' = Jobs
         /\ \A k \in Jobs : k # j => accepted'[k] = accepted[k]
    BY <2>3 DEF DeployInv
  <2>11. \A k \in Jobs : Serves(k, job'[k], AcceptedNames(accepted'[k]))
    BY <2>9, <2>10, Zenon DEF DeployInv
  <2>12. QED  BY <2>10, <2>11 DEF DeployInv
<1>11. QED  BY <1>9, <1>10

(* The deployments of the old JobManager count nothing any more. *)
LEMMA RestartServes ==
  ASSUME DeployInv, JmRestart
  PROVE  DeployInv'
<1>1. PICK s : s = [NotDeployed EXCEPT !.stage = "lost"]
  OBVIOUS
<1>2. /\ DOMAIN job' = Jobs /\ UNCHANGED accepted
      /\ \A k \in Jobs : job'[k] = IF Deploying(k) THEN s ELSE job[k]
  BY <1>1 DEF JmRestart
<1>3. ASSUME NEW j \in Jobs
      PROVE  Serves(j, s, AcceptedNames(accepted[j]))
  <2>1. AcceptedNames(accepted[j]) \subseteq Names(j)
    BY DEF DeployInv, Serves
  <2>2. NotDeployed \in Entries(j)
    BY DEF NotDeployed, Entries, Stages
  <2>3. /\ s \in Entries(j) /\ s.stage = "lost" /\ s.todo = [t \in TMs |-> <<>>]
        /\ s.call = NoCall /\ s.deployed = 0
    <3>1. "lost" \in Stages
      BY DEF Stages
    <3>2. /\ NotDeployed.todo = [t \in TMs |-> <<>>]
          /\ NotDeployed.call = NoCall /\ NotDeployed.deployed = 0
      BY DEF NotDeployed
    <3>3. QED  BY <1>1, <2>2, <3>1, <3>2 DEF Entries
  <2>4. \A t \in TMs : 1..Len(s.todo[t]) = {}
    BY <2>3
  <2>5. Waiting(s.todo) = {} /\ Apart(s.todo)
    BY <2>4 DEF Waiting, Apart
  <2>6. Counts(s, {})
    <3>1. s.call # "yes"
      BY <2>3 DEF NoCall
    <3>2. QED  BY <2>3, <3>1, EmptyCounts DEF Counts
  <2>7. QED  BY <2>1, <2>3, <2>5, <2>6 DEF Serves
<1>4. \A k \in Jobs : Serves(k, job'[k], AcceptedNames(accepted[k]))
  BY <1>2, <1>3 DEF DeployInv
<1>5. QED  BY <1>2, <1>4 DEF DeployInv

LEMMA DeployInit ==
  ASSUME Init
  PROVE  DeployInv
<1>1. ASSUME NEW j \in Jobs
      PROVE  Serves(j, NotDeployed, {})
  <2>1. NotDeployed \in Entries(j)
    BY DEF NotDeployed, Entries, Stages
  <2>2. /\ NotDeployed.todo = [t \in TMs |-> <<>>]
        /\ NotDeployed.call = NoCall /\ NotDeployed.deployed = 0
    BY DEF NotDeployed
  <2>3. \A t \in TMs : 1..Len(NotDeployed.todo[t]) = {}
    BY <2>2
  <2>4. Waiting(NotDeployed.todo) = {} /\ Apart(NotDeployed.todo)
    BY <2>3 DEF Waiting, Apart
  <2>5. Counts(NotDeployed, {})
    <3>1. NotDeployed.call # "yes"
      BY <2>2 DEF NoCall
    <3>2. QED  BY <2>2, <3>1, EmptyCounts DEF Counts
  <2>6. QED  BY <2>1, <2>2, <2>4, <2>5 DEF Serves
<1>2. AcceptedNames({}) = {}
  BY DEF AcceptedNames
<1>3. QED  BY <1>1, <1>2 DEF Init, DeployInv

LEMMA DeployStep == IInv /\ DeployInv /\ [Next]_vars => DeployInv'
<1> SUFFICES ASSUME IInv, DeployInv, [Next]_vars PROVE DeployInv'
  OBVIOUS
<1>1. CASE UNCHANGED <<job, accepted>>
  BY <1>1 DEF DeployInv
<1>2. ASSUME NEW t \in TMs, Register(t) \/ Crash(t) \/ SendHeartbeat(t)
      PROVE  DeployInv'
  BY <1>1, <1>2 DEF Register, Crash, SendHeartbeat
<1>3. ASSUME NEW b \in beats, HandleHeartbeat(b) \/ LoseHeartbeat(b)
      PROVE  DeployInv'
  BY <1>1, <1>3 DEF HandleHeartbeat, LoseHeartbeat
<1>4. ASSUME NEW j \in Jobs, PlanJob(j) \/ Deployment(j)
      PROVE  DeployInv'
  BY <1>4, PlanServes, ConnectServes, AcceptServes, AnswerServes, DeployedServes DEF Deployment
<1>5. ASSUME NEW t \in TMs, NEW x, CancelSubtask(t, x)
      PROVE  DeployInv'
  BY <1>1, <1>5 DEF CancelSubtask
<1>6. CASE JmRestart
  BY <1>6, RestartServes
<1>7. CASE UNCHANGED vars
  BY <1>1, <1>7 DEF vars
<1>8. QED  BY <1>2, <1>3, <1>4, <1>5, <1>6, <1>7 DEF Next

(* What deploy_job has counted was accepted, whatever calls were lost or   *)
(* answered late (jm.rs lines 160-195).                                     *)
THEOREM DeployInvariance == Spec => []DeployInv
BY DeployInit, DeployStep, Invariance, PTL DEF Spec

(* deploy_job never returns more than was accepted, and when it returns    *)
(* the parallelism every subtask of the job was accepted (jm.rs line 195). *)
THEOREM CountTrue == Spec => []CountIsTrue
<1>1. DeployInv => CountIsTrue
  <2> SUFFICES ASSUME DeployInv, NEW j \in Jobs, job[j].stage = "returned"
               PROVE  LET names == {a[3] : a \in accepted[j]} IN
                      /\ job[j].deployed <= Cardinality(names)
                      /\ job[j].deployed = Parallelism[j] =>
                           names = {SubtaskName(j, i) : i \in 0..(Parallelism[j] - 1)}
    BY DEF CountIsTrue
  <2> DEFINE names == AcceptedNames(accepted[j])
  <2>1. names \subseteq Names(j) /\ job[j] \in Entries(j)
    BY DEF DeployInv, Serves
  <2>2. PICK counted \in SUBSET names : Counts(job[j], counted)
    BY DEF DeployInv, Serves
  <2> HIDE DEF names
  <2>3. job[j].deployed \in Nat
    BY <2>1 DEF Entries
  <2>4. /\ IsFiniteSet(Names(j)) /\ Cardinality(Names(j)) \in Nat
        /\ Cardinality(Names(j)) <= Parallelism[j]
    BY NamesFinite
  <2>5. /\ IsFiniteSet(names) /\ Cardinality(names) \in Nat
        /\ Cardinality(names) <= Cardinality(Names(j))
        /\ Cardinality(Names(j)) = Cardinality(names) => Names(j) = names
    BY <2>1, <2>4, FS_Subset, FS_CardinalityType
  <2>6. Cardinality(counted) \in Nat /\ Cardinality(counted) <= Cardinality(names)
    BY <2>2, <2>5, FS_Subset, FS_CardinalityType
  <2>7. job[j].deployed <= Cardinality(counted)
    BY <2>2, <2>3, <2>6 DEF Counts
  <2>8. job[j].deployed <= Cardinality(names)
    BY <2>3, <2>5, <2>6, <2>7
  <2>9. job[j].deployed = Parallelism[j] => names = Names(j)
    BY <2>3, <2>4, <2>5, <2>8, ClusterAssumption
  <2>10. QED  BY <2>8, <2>9 DEF names, AcceptedNames, Names
<1>2. QED  BY <1>1, DeployInvariance, PTL

-----------------------------------------------------------------------------
(* A report is of a process that was started. *)
Processes ==
  /\ \A t \in up : boot[t] >= 1
  /\ \A b \in beats : b.boot \in 1..boot[b.tm]

LEMMA ProcessesStep == IInv /\ Processes /\ [Next]_vars => Processes'
<1> SUFFICES ASSUME IInv, Processes, [Next]_vars PROVE Processes'
  OBVIOUS
<1>1. CASE boot' = boot /\ up' \subseteq up /\ beats' \subseteq beats
  BY <1>1 DEF Processes
<1>2. ASSUME NEW t \in TMs, Register(t)
      PROVE  Processes'
  <2>1. boot[t] \in Nat /\ \A b \in beats : b.tm \in TMs /\ b.boot \in Nat
    BY DEF IInv, Typing
  <2>2. /\ boot' \in [TMs -> Nat] /\ boot'[t] = boot[t] + 1
        /\ \A u \in TMs : u # t => boot'[u] = boot[u]
        /\ up' = up \cup {t} /\ beats' = beats /\ up \subseteq TMs
    BY <1>2, <2>1 DEF IInv, Typing, Register
  <2>3. ASSUME NEW u \in up'
        PROVE  boot'[u] >= 1
    BY <2>1, <2>2 DEF Processes
  <2>4. ASSUME NEW b \in beats
        PROVE  b.boot \in 1..boot'[b.tm]
    <3>1. b.tm \in TMs /\ b.boot \in 1..boot[b.tm] /\ boot[b.tm] \in Nat
      BY <2>1 DEF Processes, IInv, Typing
    <3>2. CASE b.tm = t
      BY <2>1, <2>2, <3>1, <3>2
    <3>3. CASE b.tm # t
      BY <2>2, <3>1, <3>3
    <3>4. QED  BY <3>2, <3>3
  <2>5. QED  BY <2>2, <2>3, <2>4 DEF Processes
<1>3. ASSUME NEW t \in TMs, SendHeartbeat(t)
      PROVE  Processes'
  <2>1. /\ t \in up /\ boot' = boot /\ up' = up
        /\ beats' = beats \cup {[tm |-> t, boot |-> boot[t], used |-> InUse(sm[t])]}
    BY <1>3 DEF SendHeartbeat, tmVars
  <2>2. boot[t] \in 1..boot[t]
    BY <2>1 DEF Processes, IInv, Typing
  <2>3. QED  BY <2>1, <2>2 DEF Processes
<1>4. ASSUME NEW t \in TMs, Crash(t)
      PROVE  Processes'
  BY <1>1, <1>4 DEF Crash, Stop
<1>5. ASSUME NEW b \in beats, HandleHeartbeat(b) \/ LoseHeartbeat(b)
      PROVE  Processes'
  BY <1>1, <1>5 DEF HandleHeartbeat, LoseHeartbeat, Stop, tmVars
<1>6. ASSUME NEW j \in Jobs, PlanJob(j) \/ Deployment(j)
      PROVE  Processes'
  <2>1. UNCHANGED <<boot, up, beats>>
    BY <1>6 DEF PlanJob, Deployment, Connect, HandleDeploy, DeployAnswered, DeployFails,
                JobDeployed, tmVars
  <2>2. QED  BY <1>1, <2>1
<1>7. ASSUME NEW t \in TMs, NEW x, CancelSubtask(t, x)
      PROVE  Processes'
  BY <1>1, <1>7 DEF CancelSubtask
<1>8. CASE JmRestart
  BY <1>1, <1>8 DEF JmRestart, tmVars
<1>9. CASE UNCHANGED vars
  BY <1>1, <1>9 DEF vars, tmVars
<1>10. QED  BY <1>2, <1>3, <1>4, <1>5, <1>6, <1>7, <1>8, <1>9 DEF Next

(* Every variable keeps its type: a report names a process that was        *)
(* started, and no more subtasks are counted than the job has.             *)
THEOREM TypeCorrect == Spec => []TypeOK
<1>1. Init => Processes
  BY DEF Init, Processes
<1>2. IInv /\ DeployInv /\ Processes => TypeOK
  <2> SUFFICES ASSUME IInv, DeployInv, Processes PROVE TypeOK
    OBVIOUS
  <2>1. /\ boot \in [TMs -> Nat] /\ up \subseteq TMs
        /\ rm \in [TMs -> [boot : Nat, used : Nat]]
    BY DEF IInv, Typing
  <2>2. \A t \in TMs : /\ DOMAIN sm[t].slots = 0..(NumSlots[t] - 1)
                       /\ \A s \in DOMAIN sm[t].slotOf : sm[t].slotOf[s] \in DOMAIN sm[t].slots
    BY DEF IInv, SlotsInv, SlotsOk
  <2>3. \A b \in beats : b.tm \in TMs /\ b.boot \in 1..boot[b.tm]
    BY DEF IInv, Typing, Processes
  <2>4. ASSUME NEW j \in Jobs
        PROVE  /\ job[j].stage \in Stages
               /\ job[j].deployed \in 0..Parallelism[j]
               /\ job[j].target \in TMs \cup {NoCall}
    <3> DEFINE r == job[j]
    <3>1. r \in Entries(j) /\ AcceptedNames(accepted[j]) \subseteq Names(j)
      BY DEF DeployInv, Serves
    <3>2. PICK counted \in SUBSET AcceptedNames(accepted[j]) : Counts(r, counted)
      BY DEF DeployInv, Serves
    <3> HIDE DEF r
    <3>3. r.stage \in Stages /\ r.target \in TMs \cup {NoCall} /\ r.deployed \in Nat
      BY <3>1 DEF Entries
    <3>4. Cardinality(counted) \in Nat /\ Cardinality(counted) <= Parallelism[j]
      <4>1. counted \in SUBSET Names(j)
        BY <3>1, <3>2
      <4>2. IsFiniteSet(counted) /\ Cardinality(counted) <= Cardinality(Names(j))
        BY <4>1, NamesFinite, FS_Subset
      <4>3. Cardinality(counted) \in Nat
        BY <4>2, FS_CardinalityType
      <4>4. QED  BY <4>2, <4>3, NamesFinite, ClusterAssumption
    <3>5. r.deployed <= Cardinality(counted)
      BY <3>2, <3>3, <3>4 DEF Counts
    <3>6. QED  BY <3>3, <3>4, <3>5, ClusterAssumption DEF r
  <2>5. QED  BY <2>1, <2>2, <2>3, <2>4 DEF TypeOK
<1>3. QED  BY <1>1, <1>2, ProcessesStep, Invariance, DeployInvariance, PTL DEF Spec

=============================================================================
