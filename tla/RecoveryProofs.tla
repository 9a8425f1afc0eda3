--------------------------- MODULE RecoveryProofs ---------------------------
(***************************************************************************)
(* Proofs about Recovery for any logs, files, partitions, pairings and     *)
(* number of crashes: what a completed checkpoint covers is stored outside *)
(* the process, and the state of a key is the effect of exactly the        *)
(* records read past, wherever the consumer group lets a source go on.     *)
(***************************************************************************)
EXTENDS Recovery, FilterLemmas

(* The results of the records up to n, but those skipped. *)
IdsUpTo(p, n) == {Log[p][k].id : k \in {j \in (Start(p) + 1)..n : <<p, j>> \notin skipped}}

(* The sinks whose stored results outlive the process, or no crash yet. *)
Durable == sink \in {"tcp", "kafka"} \/ crashes = 0

(* The connectors: a file is positioned at the end of a line. *)
ConnectorsOk ==
  /\ source \in SourceKinds /\ sink \in SinkKinds
  /\ assignment \subseteq C!Partitions
  /\ startAt \in [DOMAIN Log -> Nat] /\ DOMAIN position = DOMAIN Log
  /\ \A p \in DOMAIN Log : startAt[p] <= Len(Log[p])
  /\ committed \in [DOMAIN Log -> Nat] /\ \A p \in DOMAIN Log : committed[p] <= Len(Log[p])
  /\ source = "file" => \E n \in 0..Len(Log[1]) : position[1] = C!BytesOf(n)
  /\ source \in {"tcp", "memory"} => position[1] \in 0..Len(Log[1])
  /\ source = "kafka" => \A p \in DOMAIN Log : position[p] \in (0..Len(Log[p])) \cup {None}
  /\ sink \in {"kafka", "collect"} => buffer = {}
  /\ crashes \in Nat /\ (status = "crashed" => crashes # 0)

(* Every record read past and not skipped has its result in the sink's hands. *)
Covered ==
  Durable => \A p \in C!Partitions : IdsUpTo(p, C!Read(p)) \subseteq stored \cup buffer

(* What a checkpoint saved leads back to where the source was, or before. *)
Saved ==
  checkpoint # None =>
    /\ DOMAIN checkpoint.reached = C!Partitions
    /\ \A p \in C!Partitions : checkpoint.reached[p] \in 0..Len(Log[p])
    /\ source = "file" => checkpoint.source[1] = C!BytesOf(checkpoint.reached[1])
    /\ source = "kafka" =>
         /\ DOMAIN checkpoint.source \subseteq C!Partitions
         /\ \A p \in DOMAIN checkpoint.source : checkpoint.source[p] \in 0..checkpoint.reached[p]

(* CheckpointedIsStored, told of the records one by one. *)
StoredUpTo ==
  checkpoint # None /\ Durable =>
    \A p \in DOMAIN checkpoint.reached : IdsUpTo(p, checkpoint.reached[p]) \subseteq stored

(* The inductive invariant. *)
IInv == ConnectorsOk /\ Covered /\ Saved /\ StoredUpTo

-----------------------------------------------------------------------------
(* The position of a file determines the lines read. *)

Sums(f, q) == f = [n \in 0..q |-> IF n = 0 THEN 0 ELSE f[n - 1] + LineBytes[n]]

LEMMA SumsExist ==
  ASSUME NEW q \in Nat
  PROVE  \E f : Sums(f, q)
<1> DEFINE Bad == {m \in Nat : ~ \E f : Sums(f, m)}
<1>1. SUFFICES ASSUME Bad # {} PROVE FALSE
  OBVIOUS
<1>2. PICK m \in Bad : \A y \in Bad : m <= y
  <2>1. Bad \in SUBSET Nat
    OBVIOUS
  <2>2. QED  BY <1>1, <2>1, LeastElement
<1>3. m \in Nat /\ ~ \E f : Sums(f, m)
  OBVIOUS
<1>4. CASE m = 0
  <2> DEFINE f == [n \in 0..0 |-> 0]
  <2>1. Sums(f, 0)
    BY DEF Sums
  <2>2. QED  BY <1>3, <1>4, <2>1
<1>5. CASE m # 0
  <2>1. m - 1 \in Nat /\ ~(m <= m - 1)
    BY <1>3, <1>5
  <2>2. m - 1 \notin Bad
    <3> HIDE DEF Bad
    <3>1. QED  BY <1>2, <2>1
  <2>3. PICK f : Sums(f, m - 1)
    BY <2>1, <2>2
  <2>4. \A n \in 0..(m - 1) : f[n] = IF n = 0 THEN 0 ELSE f[n - 1] + LineBytes[n]
    BY <2>3 DEF Sums
  <2> DEFINE g == [n \in 0..m |-> IF n = m THEN f[m - 1] + LineBytes[m] ELSE f[n]]
  <2>5. /\ g = [n \in 0..m |-> g[n]] /\ g[m] = f[m - 1] + LineBytes[m]
        /\ \A n \in 0..(m - 1) : g[n] = f[n]
    BY <1>3
  <2> HIDE DEF g
  <2>6. \A n \in 0..m : g[n] = IF n = 0 THEN 0 ELSE g[n - 1] + LineBytes[n]
    <3>1. TAKE n \in 0..m
    <3>2. CASE n = m
      <4>1. m - 1 \in 0..(m - 1)
        BY <2>1
      <4>2. QED  BY <1>5, <2>5, <3>2, <4>1
    <3>3. CASE n # m
      <4>1. n \in 0..(m - 1) /\ (n # 0 => n - 1 \in 0..(m - 1))
        BY <1>3, <3>3
      <4>2. QED  BY <2>4, <2>5, <4>1
    <3>4. QED  BY <3>2, <3>3
  <2>7. Sums(g, m)
    BY <2>5, <2>6 DEF Sums
  <2>8. QED  BY <1>3, <2>7
<1>6. QED  BY <1>4, <1>5

(* The end of a line lies after the end of the line before it. *)
LEMMA BytesStep ==
  /\ C!BytesOf(0) = 0
  /\ \A n \in 1..Len(LineBytes) : C!BytesOf(n) = C!BytesOf(n - 1) + LineBytes[n]
<1> DEFINE f == CHOOSE g : Sums(g, Len(LineBytes))
<1>1. Len(LineBytes) \in Nat
  BY RecoveryAssumption
<1>2. Sums(f, Len(LineBytes))
  BY <1>1, SumsExist
<1>3. \A n : C!BytesOf(n) = f[n]
  BY Zenon DEF C!BytesOf, Sums
<1> HIDE DEF f
<1>4. \A n \in 0..Len(LineBytes) : f[n] = IF n = 0 THEN 0 ELSE f[n - 1] + LineBytes[n]
  BY <1>2 DEF Sums
<1>5. 0 \in 0..Len(LineBytes) /\ \A n \in 1..Len(LineBytes) : n \in 0..Len(LineBytes) /\ n # 0
  BY <1>1
<1>6. QED  BY <1>3, <1>4, <1>5

LEMMA BytesGrow ==
  /\ \A n \in 0..Len(LineBytes) : C!BytesOf(n) \in Nat
  /\ \A n \in 0..Len(LineBytes) : \A m \in 0..Len(LineBytes) :
       m < n => C!BytesOf(m) < C!BytesOf(n)
<1> DEFINE L == Len(LineBytes)
<1> DEFINE b(n) == C!BytesOf(n)
<1> DEFINE Good(n) == b(n) \in Nat /\ \A m \in 0..L : m < n => b(m) < b(n)
<1> DEFINE Bad == {n \in 0..L : ~Good(n)}
<1>1. L \in Nat /\ \A n \in 1..L : LineBytes[n] \in Nat /\ LineBytes[n] > 0
  BY RecoveryAssumption
<1>2. b(0) = 0 /\ \A n \in 1..L : b(n) = b(n - 1) + LineBytes[n]
  BY BytesStep
<1> HIDE DEF b, L
<1>3. SUFFICES ASSUME Bad # {} PROVE FALSE
  <2>1. \A n \in 0..L : Good(n)
    BY <1>3
  <2>2. QED  BY <2>1 DEF b, L
<1>4. PICK n \in Bad : \A y \in Bad : n <= y
  <2>1. Bad \in SUBSET Nat
    BY <1>1
  <2>2. QED  BY <1>3, <2>1, LeastElement
<1>5. n \in 0..L /\ ~Good(n)
  OBVIOUS
<1>6. n # 0
  <2>1. Good(0)
    BY <1>1, <1>2
  <2>2. QED  BY <1>5, <2>1
<1>7. n \in 1..L /\ n - 1 \in 0..L /\ ~(n <= n - 1)
  BY <1>1, <1>5, <1>6
<1>8. Good(n - 1)
  <2>1. n - 1 \notin Bad
    <3> HIDE DEF Bad
    <3>1. QED  BY <1>4, <1>7
  <2>2. QED  BY <1>7, <2>1
<1>9. b(n - 1) \in Nat /\ b(n) \in Nat /\ b(n - 1) < b(n)
  BY <1>1, <1>2, <1>7, <1>8
<1>10. \A m \in 0..L : m < n => b(m) < b(n)
  <2>1. TAKE m \in 0..L
  <2>2. HAVE m < n
  <2>3. m = n - 1 \/ m < n - 1
    BY <1>1, <1>5, <2>2
  <2>4. b(m) = b(n - 1) \/ b(m) < b(n - 1)
    BY <1>8, <2>3
  <2>5. CASE m < n - 1
    <3>1. b(m) < b(n - 1)
      BY <1>8, <2>5
    <3>2. b(m) \in Nat
      <4>1. m \notin Bad
        <5>1. ~(n <= m)
          BY <1>1, <1>5, <2>2
        <5> HIDE DEF Bad
        <5>2. QED  BY <1>4, <5>1
      <4>2. QED  BY <4>1
    <3>3. QED  BY <1>9, <3>1, <3>2
  <2>6. QED  BY <1>9, <2>3, <2>5
<1>11. QED  BY <1>5, <1>9, <1>10

LinesAt(pos) == Max({n \in 0..Len(Log[1]) : C!BytesOf(n) <= pos})

LEMMA LinesAtEnd ==
  ASSUME NEW n \in 0..Len(Log[1])
  PROVE  LinesAt(C!BytesOf(n)) = n /\ C!BytesOf(n) # None
<1> DEFINE S == {m \in 0..Len(Log[1]) : C!BytesOf(m) <= C!BytesOf(n)}
<1>1. /\ Len(Log[1]) \in Nat /\ Len(LineBytes) \in Nat /\ Len(Log[1]) <= Len(LineBytes)
      /\ None \notin Nat
  BY RecoveryAssumption
<1>2. \A m \in 0..Len(Log[1]) : m \in 0..Len(LineBytes) /\ C!BytesOf(m) \in Nat
  BY <1>1, BytesGrow
<1>3. n \in S
  BY <1>2
<1>4. \A m \in S : n >= m
  <2>1. TAKE m \in S
  <2>2. ~(n < m)
    <3>1. ASSUME n < m PROVE FALSE
      <4>1. C!BytesOf(n) < C!BytesOf(m)
        BY <1>2, <3>1, BytesGrow
      <4>2. QED  BY <1>2, <4>1
    <3>2. QED  BY <3>1
  <2>3. QED  BY <1>1, <2>2
<1>5. \A m \in S : m \in Nat
  BY <1>1
<1> HIDE DEF S
<1>6. Max(S) = n
  <2>1. Max(S) \in S /\ \A m \in S : Max(S) >= m
    BY <1>3, <1>4 DEF Max
  <2>2. Max(S) \in Nat /\ n \in Nat /\ n >= Max(S) /\ Max(S) >= n
    BY <1>3, <1>4, <1>5, <2>1
  <2>3. \A x, y \in Nat : x >= y /\ y >= x => x = y
    OBVIOUS
  <2>4. QED  BY <2>2, <2>3, Zenon
<1>7. QED  BY <1>1, <1>2, <1>6 DEF LinesAt, S

-----------------------------------------------------------------------------
(* What was read, and the properties of the start of the source.           *)

LEMMA LogTyped ==
  /\ 1 \in DOMAIN Log
  /\ \A p \in DOMAIN Log : Len(Log[p]) \in Nat
  /\ C!Partitions \subseteq DOMAIN Log
BY RecoveryAssumption DEF C!Partitions

LEMMA StartTyped ==
  ASSUME source \in SourceKinds, NEW p \in DOMAIN Log
  PROVE  Start(p) \in Nat /\ Start(p) <= Len(Log[p])
BY RecoveryAssumption, LogTyped DEF Start

(* How far the source is, by its kind. *)
LEMMA ReadIs ==
  ASSUME ConnectorsOk, NEW p \in C!Partitions
  PROVE  /\ C!Read(p) \in 0..Len(Log[p])
         /\ source = "file" => p = 1 /\ position[1] = C!BytesOf(C!Read(p))
         /\ source \in {"tcp", "memory"} => p = 1 /\ C!Read(p) = position[1]
         /\ source = "kafka" => C!Read(p) = IF position[p] = None THEN startAt[p] ELSE position[p]
<1>1. p \in DOMAIN Log /\ Len(Log[p]) \in Nat /\ 1 \in DOMAIN Log /\ None \notin Nat
  BY LogTyped, RecoveryAssumption
<1>2. CASE source = "file"
  <2>1. p = 1
    BY <1>2 DEF C!Partitions
  <2>2. PICK n \in 0..Len(Log[1]) : position[1] = C!BytesOf(n)
    BY <1>2 DEF ConnectorsOk
  <2>3. LinesAt(position[1]) = n /\ position[1] # None
    BY <2>2, LinesAtEnd
  <2>4. C!Read(p) = n
    <3>1. \A S : C!Max(S) = Max(S)
      BY DEF C!Max, Max
    <3>2. C!Read(p) = C!Max({m \in 0..Len(Log[1]) : C!BytesOf(m) <= position[1]})
      BY <1>2, <2>1, <2>3 DEF C!Read
    <3>3. QED  BY <2>3, <3>1, <3>2 DEF LinesAt
  <2>5. QED  BY <1>2, <2>1, <2>2, <2>4
<1>3. CASE source \in {"tcp", "memory"}
  <2>1. p = 1 /\ position[1] \in 0..Len(Log[1])
    BY <1>3 DEF C!Partitions, ConnectorsOk
  <2>2. position[1] # None
    BY <1>1, <2>1
  <2>3. C!Read(p) = position[1]
    BY <1>3, <2>1, <2>2 DEF C!Read
  <2>4. QED  BY <1>3, <2>1, <2>3
<1>4. CASE source = "kafka"
  <2>1. C!Read(p) = IF position[p] = None THEN startAt[p] ELSE position[p]
    BY <1>4 DEF C!Read
  <2>2. startAt[p] \in 0..Len(Log[p]) /\ position[p] \in (0..Len(Log[p])) \cup {None}
    BY <1>1, <1>4 DEF ConnectorsOk
  <2>3. QED  BY <1>4, <2>1, <2>2
<1>5. QED  BY <1>2, <1>3, <1>4 DEF ConnectorsOk, SourceKinds

(* Reading one record more, or fewer. *)
LEMMA IdsGrow ==
  ASSUME NEW p, NEW n \in Nat, Start(p) \in Nat
  PROVE  IdsUpTo(p, n + 1) \subseteq IdsUpTo(p, n) \cup {Log[p][n + 1].id}
<1>1. \A k \in (Start(p) + 1)..(n + 1) : k = n + 1 \/ k \in (Start(p) + 1)..n
  OBVIOUS
<1>2. QED  BY <1>1 DEF IdsUpTo

LEMMA IdsFewer ==
  ASSUME NEW p, NEW n \in Nat, NEW m \in Nat, m <= n, Start(p) \in Nat
  PROVE  IdsUpTo(p, m) \subseteq IdsUpTo(p, n)
<1>1. \A k \in (Start(p) + 1)..m : k \in (Start(p) + 1)..n
  OBVIOUS
<1>2. QED  BY <1>1 DEF IdsUpTo

LEMMA IdsNone ==
  ASSUME NEW p, Start(p) \in Nat
  PROVE  \A n \in 0..Start(p) : IdsUpTo(p, n) = {}
<1>1. \A n \in 0..Start(p) : (Start(p) + 1)..n = {}
  OBVIOUS
<1>2. QED  BY <1>1 DEF IdsUpTo

(* A write hands the result to the sink. *)
LEMMA WriteKeeps ==
  ASSUME NEW id, C!Write(id), sink \in {"kafka", "collect"} => buffer = {}
  PROVE  /\ sink' = sink
         /\ stored \cup buffer \cup {id} \subseteq stored' \cup buffer'
         /\ stored \subseteq stored'
         /\ sink \in {"kafka", "collect"} => buffer' = {}
BY DEF C!Write, C!FileWrite, C!TcpWrite, C!KafkaWrite, C!CollectWrite, C!Buffered, C!Stored

(* A flush stores everything handed to the sink. *)
LEMMA FlushStores ==
  ASSUME C!Flush, sink \in {"kafka", "collect"} => buffer = {}
  PROVE  sink' = sink /\ buffer' = {} /\ stored' = stored \cup buffer
BY DEF C!Flush, C!FileFlush, C!TcpFlush, C!KafkaFlush, C!CollectFlush, C!FlushBuffer

-----------------------------------------------------------------------------
(* The steps. *)

(* The sink or the operator alone: the source stays. *)
LEMMA ReadKept ==
  ASSUME source' = source, startAt' = startAt, position' = position
  PROVE  /\ C!Partitions' = C!Partitions
         /\ \A p : C!Read(p)' = C!Read(p)
BY DEF C!Partitions, C!Read, C!BytesOf, C!Max

LEMMA StartKept ==
  ASSUME source' = source
  PROVE  /\ C!Partitions' = C!Partitions
         /\ \A p : Start(p)' = Start(p)
         /\ skipped' = skipped => \A p, n : IdsUpTo(p, n)' = IdsUpTo(p, n)
         /\ skipped \subseteq skipped' => \A p, n : IdsUpTo(p, n)' \subseteq IdsUpTo(p, n)
BY DEF C!Partitions, IdsUpTo, Start

(* Going on at b in place of a covers no record that a did not. *)
LEMMA IdsResumed ==
  ASSUME source' = source, skipped \subseteq skipped',
         NEW p, NEW a \in Nat, NEW b \in Nat, Start(p) \in Nat,
         \A n \in (a + 1)..b : <<p, n>> \in skipped'
  PROVE  IdsUpTo(p, b)' \subseteq IdsUpTo(p, a)
<1>1. Start(p)' = Start(p)
  BY StartKept
<1>2. \A n \in (Start(p) + 1)..b : n \in (a + 1)..b \/ n \in (Start(p) + 1)..a
  OBVIOUS
<1>3. \A n \in (Start(p) + 1)..b : <<p, n>> \notin skipped' =>
        n \in (Start(p) + 1)..a /\ <<p, n>> \notin skipped
  BY <1>2
<1>4. IdsUpTo(p, b)' = {Log[p][k].id : k \in {j \in (Start(p) + 1)..b : <<p, j>> \notin skipped'}}
  BY <1>1 DEF IdsUpTo
<1>5. QED  BY <1>3, <1>4 DEF IdsUpTo

(* Where a source at this position reads on. *)
ReadAt(kindOf, p, start, pos) ==
  IF pos = None THEN start
  ELSE IF kindOf = "file" THEN Max({n \in 0..Len(Log[p]) : C!BytesOf(n) <= pos})
  ELSE pos

LEMMA ReadsAt ==
  /\ \A p : C!Read(p) = ReadAt(source, p, startAt[p], position[p])
  /\ \A p : C!Read(p)' = ReadAt(source', p, startAt'[p], position'[p])
<1>1. \A S : C!Max(S) = Max(S)
  BY DEF C!Max, Max
<1>2. \A p : C!Read(p) = ReadAt(source, p, startAt[p], position[p])
  BY <1>1 DEF C!Read, ReadAt
<1>3. \A p : C!Read(p)' = ReadAt(source', p, startAt'[p], position'[p])
  BY <1>1 DEF C!Read, ReadAt, C!BytesOf, C!Max
<1>4. QED  BY <1>2, <1>3

(* A consumer the group has assigned its partitions goes on where the      *)
(* group has committed.                                                    *)
LEMMA AssignReads ==
  ASSUME C!GroupAssign
  PROVE  /\ source = "kafka" /\ source' = source /\ C!Partitions = DOMAIN Log
         /\ C!Partitions' = C!Partitions
         /\ \A p \in DOMAIN Log : C!Read(p)' = committed[p]
<1>1. /\ source = "kafka" /\ source' = source /\ startAt' = committed
      /\ position' = [p \in DOMAIN Log |-> None]
  BY DEF C!GroupAssign
<1>2. \A p \in DOMAIN Log : C!Read(p)' = ReadAt(source', p, startAt'[p], position'[p])
  BY ReadsAt
<1>3. QED  BY <1>1, <1>2 DEF ReadAt, C!Partitions

LEMMA AssignKeeps ==
  ASSUME IInv, Reassign
  PROVE  IInv'
<1>1. /\ C!GroupAssign /\ source = "kafka" /\ source' = source /\ startAt' = committed
      /\ position' = [p \in DOMAIN Log |-> None] /\ committed' = committed
      /\ assignment' = C!Partitions
      /\ skipped' = skipped \cup Skips(Reached, committed)
      /\ UNCHANGED <<sink, buffer, stored, status, crashes, checkpoint>>
  BY DEF Reassign, C!GroupAssign, sinkVars
<1>2. /\ C!Partitions = DOMAIN Log /\ C!Partitions' = DOMAIN Log
      /\ \A p \in DOMAIN Log : C!Read(p)' = committed[p]
      /\ skipped \subseteq skipped'
  BY <1>1, AssignReads
<1>3. Durable' = Durable
  BY <1>1 DEF Durable
<1>4. ConnectorsOk'
  BY <1>1, <1>2 DEF IInv, ConnectorsOk
<1>5. Covered'
  <2>1. SUFFICES ASSUME Durable, NEW p \in DOMAIN Log
                 PROVE  IdsUpTo(p, C!Read(p))' \subseteq stored \cup buffer
    BY <1>1, <1>2, <1>3 DEF Covered
  <2>2. PICK a, b : a = C!Read(p) /\ b = committed[p]
    OBVIOUS
  <2>3. a \in Nat /\ b \in Nat /\ Start(p) \in Nat /\ Reached[p] = a
    BY <1>2, <2>2, ReadIs, LogTyped, StartTyped DEF IInv, ConnectorsOk, Reached
  <2>4. \A n \in (a + 1)..b : <<p, n>> \in skipped'
    BY <1>1, <1>2, <2>2, <2>3 DEF Skips
  <2>5. IdsUpTo(p, b)' \subseteq IdsUpTo(p, a)
    BY <1>1, <1>2, <2>3, <2>4, IdsResumed
  <2>6. IdsUpTo(p, C!Read(p))' = IdsUpTo(p, b)'
    BY <1>2, <2>2 DEF IdsUpTo
  <2>7. QED  BY <1>2, <2>1, <2>2, <2>5, <2>6 DEF IInv, Covered
<1>6. Saved'
  BY <1>1, <1>2 DEF IInv, Saved
<1>7. StoredUpTo'
  <2>1. checkpoint # None /\ Durable =>
          \A p \in DOMAIN checkpoint.reached : IdsUpTo(p, checkpoint.reached[p])' \subseteq stored
    BY <1>1, <1>2, StartKept DEF IInv, StoredUpTo
  <2>2. QED  BY <1>1, <1>3, <2>1 DEF StoredUpTo, IdsUpTo, Start
<1>8. QED  BY <1>4, <1>5, <1>6, <1>7 DEF IInv

LEMMA FileReadAt ==
  ASSUME NEW n \in 0..Len(Log[1]), NEW start
  PROVE  ReadAt("file", 1, start, C!BytesOf(n)) = n
BY LinesAtEnd DEF ReadAt, LinesAt

ReadInRange == \A p \in C!Partitions : C!Read(p) \in 0..Len(Log[p])

LEMMA ReadNext == ConnectorsOk' => ReadInRange'
<1>1. ConnectorsOk => ReadInRange
  BY ReadIs DEF ReadInRange
<1>2. QED  BY <1>1, PTL

(* Processing reads one record of one partition. *)
LEMMA ProcessReads ==
  ASSUME ConnectorsOk, NEW p \in DOMAIN Log, C!Next(p)
  PROVE  /\ source' = source /\ assignment' = assignment /\ startAt' = startAt
         /\ committed' = committed
         /\ p \in C!Partitions /\ C!Read(p) + 1 \in 1..Len(Log[p])
         /\ position'[p] = C!Advanced(p, C!Read(p) + 1)
         /\ DOMAIN position' = DOMAIN Log
         /\ \A q \in DOMAIN Log : q # p => position'[q] = position[q]
         /\ C!Read(p)' = C!Read(p) + 1
         /\ \A q \in DOMAIN Log : q # p => C!Read(q)' = C!Read(q)
<1> DEFINE n == C!Read(p)
<1>1. /\ p \in assignment /\ n < Len(Log[p])
      /\ position' = [position EXCEPT ![p] = C!Advanced(p, n + 1)]
      /\ source' = source /\ assignment' = assignment /\ startAt' = startAt
      /\ committed' = committed
  BY DEF C!Next, C!FileNext, C!KafkaNext, C!TcpNext, C!MemoryNext, C!Fetch
<1>2. /\ p \in C!Partitions /\ n \in 0..Len(Log[p]) /\ Len(Log[p]) \in Nat
      /\ None \notin Nat /\ source \in SourceKinds
      /\ DOMAIN position = DOMAIN Log
  BY <1>1, ReadIs, LogTyped, RecoveryAssumption DEF ConnectorsOk
<1>3. n + 1 \in 0..Len(Log[p]) /\ n + 1 \in 1..Len(Log[p]) /\ n + 1 \in Nat
  BY <1>1, <1>2
<1> HIDE DEF n
<1>4. /\ position'[p] = C!Advanced(p, n + 1)
      /\ \A q \in DOMAIN Log : q # p => position'[q] = position[q]
      /\ DOMAIN position' = DOMAIN Log
  BY <1>1, <1>2
<1>5. C!Read(p)' = n + 1
  <2>1. C!Read(p)' = ReadAt(source, p, startAt[p], C!Advanced(p, n + 1))
    BY <1>1, <1>4, ReadsAt
  <2>2. CASE source = "file"
    <3>1. p = 1 /\ C!Advanced(p, n + 1) = C!BytesOf(n + 1)
      BY <1>2, <2>2 DEF C!Partitions, C!Advanced
    <3>2. ReadAt("file", 1, startAt[1], C!BytesOf(n + 1)) = n + 1
      BY <1>3, <3>1, FileReadAt
    <3>3. QED  BY <2>1, <2>2, <3>1, <3>2
  <2>3. CASE source # "file"
    <3>1. C!Advanced(p, n + 1) = n + 1
      BY <2>3 DEF C!Advanced
    <3>2. QED  BY <1>2, <1>3, <2>1, <2>3, <3>1 DEF ReadAt
  <2>4. QED  BY <2>2, <2>3
<1>6. \A q \in DOMAIN Log : q # p => C!Read(q)' = C!Read(q)
  BY <1>1, <1>4, ReadsAt
<1>7. QED  BY <1>1, <1>2, <1>3, <1>4, <1>5, <1>6 DEF n

LEMMA ProcessKeeps ==
  ASSUME IInv, NEW p \in DOMAIN Log, ProcessRecord(p)
  PROVE  IInv'
<1> DEFINE n == C!Read(p)
<1> DEFINE id == Log[p][n + 1].id
<1>1. /\ C!Next(p) /\ C!Write(id)
      /\ UNCHANGED <<status, crashes, checkpoint, skipped>>
  BY DEF ProcessRecord, job
<1>2. source' = source /\ assignment' = assignment /\ startAt' = startAt /\ committed' = committed
  BY <1>1, ProcessReads DEF IInv
<1>3. /\ p \in C!Partitions /\ Len(Log[p]) \in Nat
      /\ None \notin Nat /\ source \in SourceKinds
  BY <1>1, ProcessReads, LogTyped, RecoveryAssumption DEF IInv, ConnectorsOk
<1>4. n + 1 \in 0..Len(Log[p]) /\ n + 1 \in Nat /\ n \in Nat
  BY <1>1, <1>3, ProcessReads, ReadIs DEF IInv
<1>5. /\ sink' = sink /\ stored \cup buffer \cup {id} \subseteq stored' \cup buffer'
      /\ stored \subseteq stored' /\ (sink' \in {"kafka", "collect"} => buffer' = {})
  BY <1>1, WriteKeeps DEF IInv, ConnectorsOk
<1>6. /\ position'[p] = C!Advanced(p, n + 1)
      /\ \A q \in DOMAIN Log : q # p => position'[q] = position[q]
      /\ DOMAIN position' = DOMAIN Log
  BY <1>1, ProcessReads DEF IInv
<1>7. C!Read(p)' = n + 1 /\ \A q \in DOMAIN Log : q # p => C!Read(q)' = C!Read(q)
  BY <1>1, ProcessReads DEF IInv
<1> HIDE DEF n, id
<1>8. ConnectorsOk'
  <2>1. /\ source' \in SourceKinds /\ sink' \in SinkKinds
        /\ assignment' \subseteq C!Partitions'
        /\ startAt' \in [DOMAIN Log -> Nat] /\ DOMAIN position' = DOMAIN Log
        /\ \A q \in DOMAIN Log : startAt'[q] <= Len(Log[q])
        /\ committed' \in [DOMAIN Log -> Nat] /\ \A q \in DOMAIN Log : committed'[q] <= Len(Log[q])
        /\ crashes' \in Nat /\ (status' = "crashed" => crashes' # 0)
    BY <1>1, <1>2, <1>5, <1>6, StartKept DEF IInv, ConnectorsOk
  <2>2. source' = "file" => position'[1] = C!BytesOf(n + 1) /\ n + 1 \in 0..Len(Log[1])
    BY <1>2, <1>3, <1>4, <1>6 DEF C!Partitions, C!Advanced
  <2>3. source' \in {"tcp", "memory"} => position'[1] \in 0..Len(Log[1])
    BY <1>2, <1>3, <1>4, <1>6 DEF C!Partitions, C!Advanced
  <2>4. source' = "kafka" => \A q \in DOMAIN Log : position'[q] \in (0..Len(Log[q])) \cup {None}
    BY <1>2, <1>4, <1>6 DEF C!Advanced, IInv, ConnectorsOk
  <2>5. source' = "file" => \E m \in 0..Len(Log[1]) : position'[1] = C!BytesOf(m)'
    BY <2>2 DEF C!BytesOf
  <2>6. QED  BY <1>5, <2>1, <2>3, <2>4, <2>5 DEF ConnectorsOk
<1>9. Covered'
  <2>1. SUFFICES ASSUME Durable', NEW q \in C!Partitions
        PROVE  IdsUpTo(q, C!Read(q)') \subseteq stored' \cup buffer'
    BY <1>1, <1>2, StartKept DEF Covered, C!Partitions, IdsUpTo, Start
  <2>2. Durable
    BY <1>1, <1>5, <2>1 DEF Durable
  <2>3. IdsUpTo(q, C!Read(q)) \subseteq stored \cup buffer
    BY <2>2 DEF IInv, Covered
  <2>4. CASE q = p
    <3>1. Start(p) \in Nat
      BY <1>3, StartTyped
    <3>2. IdsUpTo(p, n + 1) \subseteq IdsUpTo(p, n) \cup {id}
      BY <1>4, <3>1, IdsGrow DEF id
    <3>3. QED  BY <1>5, <1>7, <2>3, <2>4, <3>2 DEF n
  <2>5. CASE q # p
    <3>1. C!Read(q)' = C!Read(q)
      BY <1>7, <2>5, LogTyped
    <3>2. QED  BY <1>5, <2>3, <3>1
  <2>6. QED  BY <2>4, <2>5
<1>10. Saved' /\ StoredUpTo'
  <2>1. Durable' = Durable
    BY <1>1, <1>5 DEF Durable
  <2>2. Saved'
    BY <1>1, <1>2 DEF IInv, Saved, C!Partitions, C!BytesOf
  <2>3. StoredUpTo'
    BY <1>1, <1>2, <1>5, <2>1 DEF IInv, StoredUpTo, IdsUpTo, Start
  <2>4. QED  BY <2>2, <2>3
<1>11. QED  BY <1>8, <1>9, <1>10 DEF IInv

(* A checkpoint stores what was handed to the sink and saves the position. *)
LEMMA CheckpointKeeps ==
  ASSUME IInv, Checkpoint
  PROVE  IInv'
<1>1. /\ source' = source /\ startAt' = startAt /\ position' = position
      /\ assignment' = assignment /\ crashes' = crashes /\ status' = status
      /\ committed' = committed /\ skipped' = skipped
      /\ checkpoint'.source = C!SourceSnapshot
      /\ checkpoint'.reached = [p \in C!Partitions |-> C!Read(p)]
      /\ C!Flush
  BY DEF Checkpoint, sourceVars, Reached
<1>2. sink' = sink /\ buffer' = {} /\ stored' = stored \cup buffer
  BY <1>1, FlushStores DEF IInv, ConnectorsOk
<1>3. ConnectorsOk'
  BY <1>1, <1>2, ReadKept DEF IInv, ConnectorsOk, C!BytesOf
<1>4. Durable' = Durable
  BY <1>1, <1>2 DEF Durable
<1>5. Covered'
  BY <1>1, <1>2, <1>4, ReadKept, StartKept DEF IInv, Covered
<1>6. \A p \in C!Partitions : checkpoint'.reached[p] = C!Read(p)
  BY <1>1
<1>7. Saved'
  <2>1. /\ DOMAIN checkpoint'.reached = C!Partitions
        /\ \A p \in C!Partitions : checkpoint'.reached[p] \in 0..Len(Log[p])
    BY <1>1, <1>6, ReadIs DEF IInv
  <2>2. source = "file" => checkpoint'.source[1] = C!BytesOf(checkpoint'.reached[1])
    <3>1. ASSUME source = "file" PROVE checkpoint'.source[1] = C!BytesOf(checkpoint'.reached[1])
      <4>1. 1 \in C!Partitions
        BY <3>1 DEF C!Partitions
      <4>2. checkpoint'.source[1] = position[1]
        BY <1>1, <3>1 DEF C!SourceSnapshot, C!FileSnapshot
      <4>3. position[1] = C!BytesOf(C!Read(1))
        BY <3>1, <4>1, ReadIs DEF IInv
      <4>4. QED  BY <1>6, <4>1, <4>2, <4>3
    <3>2. QED  BY <3>1
  <2>3. source = "kafka" =>
          /\ DOMAIN checkpoint'.source \subseteq C!Partitions
          /\ \A p \in DOMAIN checkpoint'.source : checkpoint'.source[p] \in 0..checkpoint'.reached[p]
    <3>1. SUFFICES ASSUME source = "kafka"
                   PROVE  /\ DOMAIN checkpoint'.source \subseteq C!Partitions
                          /\ \A p \in DOMAIN checkpoint'.source :
                               checkpoint'.source[p] \in 0..checkpoint'.reached[p]
      OBVIOUS
    <3>2. checkpoint'.source = [p \in assignment |-> IF position[p] = None THEN 0 ELSE position[p]]
      BY <1>1, <3>1 DEF C!SourceSnapshot, C!KafkaSnapshot
    <3>3. assignment \subseteq C!Partitions
      BY DEF IInv, ConnectorsOk
    <3>4. ASSUME NEW p \in assignment
          PROVE  (IF position[p] = None THEN 0 ELSE position[p]) \in 0..checkpoint'.reached[p]
      <4>1. p \in C!Partitions /\ checkpoint'.reached[p] = C!Read(p)
        BY <1>6, <3>3
      <4>2. C!Read(p) = (IF position[p] = None THEN startAt[p] ELSE position[p]) /\ C!Read(p) \in Nat
        BY <3>1, <4>1, ReadIs, LogTyped DEF IInv
      <4>3. QED  BY <4>1, <4>2
    <3>5. QED  BY <3>2, <3>3, <3>4
  <2>4. QED  BY <1>1, <2>1, <2>2, <2>3 DEF Saved, C!Partitions, C!BytesOf
<1>8. StoredUpTo'
  <2>1. Durable' => \A p \in C!Partitions : IdsUpTo(p, checkpoint'.reached[p]) \subseteq stored'
    BY <1>2, <1>4, <1>6 DEF IInv, Covered
  <2>2. DOMAIN checkpoint'.reached = C!Partitions
    BY <1>1
  <2>3. QED  BY <1>1, <2>1, <2>2 DEF StoredUpTo, IdsUpTo, Start
<1>9. QED  BY <1>3, <1>5, <1>7, <1>8 DEF IInv

(* A new source reads from its start, or where the group has committed. *)
LEMMA NewSource ==
  ASSUME source \in SourceKinds, committed \in [DOMAIN Log -> Nat],
         \A p \in DOMAIN Log : committed[p] <= Len(Log[p])
  PROVE  LET new == C!SourceNew(source)
         IN /\ new.assignment \subseteq C!Partitions
            /\ new.startAt \in [DOMAIN Log -> Nat] /\ DOMAIN new.position = DOMAIN Log
            /\ \A p \in DOMAIN Log : new.startAt[p] <= Len(Log[p])
            /\ source = "file" => new.position[1] = C!BytesOf(0)
            /\ source # "kafka" => new.position[1] = 0
            /\ source = "kafka" => \A p \in DOMAIN Log : new.position[p] = None
            /\ \A p \in C!Partitions :
                 ReadAt(source, p, new.startAt[p], new.position[p]) =
                   IF source = "kafka" THEN committed[p] ELSE Start(p)
<1> DEFINE new == C!SourceNew(source)
<1>1. /\ 1 \in DOMAIN Log /\ \A p \in DOMAIN Log : Len(Log[p]) \in Nat
      /\ C!BytesOf(0) = 0 /\ None \notin Nat /\ C!Partitions \subseteq DOMAIN Log
  BY LogTyped, BytesStep, RecoveryAssumption
<1>2. CASE source = "kafka"
  <2>1. /\ new.assignment = {} /\ new.startAt = committed
        /\ new.position = [p \in DOMAIN Log |-> None]
    BY <1>2 DEF C!SourceNew
  <2> HIDE DEF new
  <2>2. QED  BY <1>1, <1>2, <2>1 DEF ReadAt, new
<1>3. CASE source # "kafka"
  <2>1. /\ new.assignment = {1} /\ new.startAt = [p \in DOMAIN Log |-> 0]
        /\ new.position = [p \in DOMAIN Log |-> 0]
    BY <1>3 DEF C!SourceNew
  <2>2. C!Partitions = {1} /\ Start(1) = 0
    BY <1>1, <1>3 DEF C!Partitions, Start
  <2> HIDE DEF new
  <2>3. ReadAt(source, 1, 0, 0) = 0
    <3>1. CASE source = "file"
      BY <1>1, <3>1, FileReadAt
    <3>2. CASE source # "file"
      BY <1>1, <3>2 DEF ReadAt
    <3>3. QED  BY <3>1, <3>2
  <2>4. QED  BY <1>1, <1>3, <2>1, <2>2, <2>3 DEF new
<1>4. QED  BY <1>2, <1>3

(* A restored file is read from the line the checkpoint had reached. *)
LEMMA FileBack ==
  ASSUME IInv, checkpoint # None, source = "file"
  PROVE  LET new == C!SourceRestored(checkpoint.source)
         IN  /\ new.assignment = {1} /\ new.startAt = [p \in DOMAIN Log |-> 0]
             /\ DOMAIN new.position = DOMAIN Log
             /\ checkpoint.reached[1] \in 0..Len(Log[1])
             /\ new.position[1] = C!BytesOf(checkpoint.reached[1])
             /\ ReadAt(source, 1, new.startAt[1], new.position[1]) = checkpoint.reached[1]
<1> DEFINE new == C!SourceRestored(checkpoint.source)
<1>1. new = C!FileRestored(checkpoint.source)
  BY DEF C!SourceRestored
<1>2. PICK n \in 0..Len(Log[1]) : checkpoint.reached[1] = n /\ checkpoint.source[1] = C!BytesOf(n)
  BY DEF IInv, Saved, C!Partitions
<1>3. /\ new.assignment = {1} /\ new.startAt = [p \in DOMAIN Log |-> 0]
      /\ new.position = [[p \in DOMAIN Log |-> 0] EXCEPT ![1] = checkpoint.source[1]]
  BY <1>1 DEF C!FileRestored, C!SourceNew
<1>4. DOMAIN new.position = DOMAIN Log /\ new.position[1] = C!BytesOf(n)
  BY <1>2, <1>3, LogTyped
<1>5. ReadAt("file", 1, new.startAt[1], new.position[1]) = n
  BY <1>4, FileReadAt
<1> HIDE DEF new
<1>6. QED  BY <1>2, <1>3, <1>4, <1>5 DEF new

(* A restored consumer reads a partition from its saved offset. *)
LEMMA KafkaBack ==
  ASSUME IInv, checkpoint # None, source = "kafka"
  PROVE  LET new == C!SourceRestored(checkpoint.source)
             s == checkpoint.source
         IN  /\ DOMAIN checkpoint.reached = DOMAIN Log
             /\ new.assignment = DOMAIN s /\ DOMAIN s \subseteq DOMAIN Log
             /\ new.startAt = [p \in DOMAIN Log |-> IF p \in DOMAIN s THEN s[p] ELSE 0]
             /\ new.position = [p \in DOMAIN Log |-> None]
             /\ \A p \in DOMAIN Log :
                  /\ checkpoint.reached[p] \in 0..Len(Log[p])
                  /\ new.startAt[p] \in 0..checkpoint.reached[p]
                  /\ ReadAt(source, p, new.startAt[p], new.position[p]) = new.startAt[p]
<1> DEFINE s == checkpoint.source
<1> DEFINE new == C!SourceRestored(s)
<1>1. /\ new.assignment = DOMAIN s
      /\ new.startAt = [p \in DOMAIN Log |-> IF p \in DOMAIN s THEN s[p] ELSE 0]
      /\ new.position = [p \in DOMAIN Log |-> None]
  BY DEF C!SourceRestored, C!KafkaRestored
<1>2. /\ DOMAIN checkpoint.reached = DOMAIN Log
      /\ \A p \in DOMAIN Log : checkpoint.reached[p] \in 0..Len(Log[p])
      /\ DOMAIN s \subseteq DOMAIN Log
      /\ \A p \in DOMAIN s : s[p] \in 0..checkpoint.reached[p]
  BY DEF IInv, Saved, C!Partitions
<1> HIDE DEF s, new
<1>3. \A p \in DOMAIN Log : new.startAt[p] \in 0..checkpoint.reached[p]
  BY <1>1, <1>2, LogTyped
<1>4. \A p \in DOMAIN Log : ReadAt("kafka", p, new.startAt[p], new.position[p]) = new.startAt[p]
  BY <1>1 DEF ReadAt
<1>5. QED  BY <1>1, <1>2, <1>3, <1>4 DEF s, new

(* The restart loses the buffer, and the source goes on at what a          *)
(* checkpoint covers, whose results were stored before, but for what is    *)
(* skipped.                                                                *)
LEMMA RecoverKeeps ==
  ASSUME IInv, Recover
  PROVE  IInv'
<1> DEFINE new == IF checkpoint = None THEN C!SourceNew(source)
                  ELSE C!SourceRestored(checkpoint.source)
<1> DEFINE stopped == IF checkpoint = None THEN [p \in C!Partitions |-> Start(p)]
                      ELSE checkpoint.reached
<1>1. /\ source' = source /\ checkpoint' = checkpoint /\ crashes' = crashes
      /\ committed' = committed
      /\ status = "crashed" /\ status' = "running"
      /\ assignment' = new.assignment /\ startAt' = new.startAt /\ position' = new.position
      /\ skipped' = skipped \cup Skips(stopped, Reached')
      /\ C!SinkNew
  BY DEF Recover
<1>2. /\ sink' = sink /\ buffer' = {}
      /\ sink \in {"tcp", "kafka"} => stored' = stored
  BY <1>1 DEF C!SinkNew, C!FileSinkNew, C!CollectSinkNew, C!RemoteSinkNew
<1>3. Durable' => sink \in {"tcp", "kafka"} /\ stored' = stored /\ Durable
  BY <1>1, <1>2 DEF Durable, IInv, ConnectorsOk
<1>4. /\ source \in SourceKinds /\ 1 \in DOMAIN Log /\ None \notin Nat
      /\ C!Partitions \subseteq DOMAIN Log
      /\ \A p \in DOMAIN Log : Len(Log[p]) \in Nat
      /\ \A p \in DOMAIN Log : Start(p) \in Nat /\ Start(p) <= Len(Log[p])
      /\ committed \in [DOMAIN Log -> Nat] /\ \A p \in DOMAIN Log : committed[p] <= Len(Log[p])
      /\ skipped \subseteq skipped'
  BY <1>1, LogTyped, RecoveryAssumption, StartTyped DEF IInv, ConnectorsOk
<1> HIDE DEF new
<1>5. /\ new.assignment \subseteq C!Partitions
      /\ new.startAt \in [DOMAIN Log -> Nat] /\ DOMAIN new.position = DOMAIN Log
      /\ \A p \in DOMAIN Log : new.startAt[p] <= Len(Log[p])
      /\ source = "file" => \E n \in 0..Len(Log[1]) : new.position[1] = C!BytesOf(n)
      /\ source \in {"tcp", "memory"} => new.position[1] \in 0..Len(Log[1])
      /\ source = "kafka" => \A p \in DOMAIN Log : new.position[p] \in (0..Len(Log[p])) \cup {None}
  <2>1. CASE checkpoint = None \/ source \in {"tcp", "memory"}
    <3>1. new = C!SourceNew(source)
      BY <2>1 DEF new, C!SourceRestored
    <3>2. 0 \in 0..Len(Log[1])
      BY <1>4
    <3>3. source \in {"tcp", "memory"} => source # "kafka"
      OBVIOUS
    <3>4. QED  BY <1>4, <3>1, <3>2, <3>3, NewSource
  <2>2. CASE checkpoint # None /\ source = "file"
    <3>1. new = C!SourceRestored(checkpoint.source)
      BY <2>2 DEF new
    <3>2. C!Partitions = {1}
      BY <2>2 DEF C!Partitions
    <3>3. QED  BY <1>4, <2>2, <3>1, <3>2, FileBack
  <2>3. CASE checkpoint # None /\ source = "kafka"
    <3>1. new = C!SourceRestored(checkpoint.source)
      BY <2>3 DEF new
    <3>2. C!Partitions = DOMAIN Log
      BY <2>3 DEF C!Partitions
    <3>3. /\ DOMAIN checkpoint.reached = DOMAIN Log /\ new.assignment \subseteq DOMAIN Log
          /\ DOMAIN new.startAt = DOMAIN Log
          /\ new.startAt = [p \in DOMAIN Log |-> new.startAt[p]]
          /\ DOMAIN new.position = DOMAIN Log /\ \A p \in DOMAIN Log : new.position[p] = None
      BY <2>3, <3>1, KafkaBack
    <3>4. \A p \in DOMAIN Log : /\ checkpoint.reached[p] \in Nat /\ new.startAt[p] \in Nat
                                /\ new.startAt[p] <= checkpoint.reached[p]
                                /\ checkpoint.reached[p] <= Len(Log[p])
      BY <1>4, <2>3, <3>1, KafkaBack
    <3>5. \A p \in DOMAIN Log : new.startAt[p] <= Len(Log[p])
      BY <1>4, <3>4
    <3>6. new.startAt \in [DOMAIN Log -> Nat]
      BY <3>3, <3>4
    <3>7. QED  BY <2>3, <3>2, <3>3, <3>5, <3>6
  <2>4. QED  BY <1>4, <2>1, <2>2, <2>3 DEF SourceKinds
<1>6. ConnectorsOk'
  BY <1>1, <1>2, <1>4, <1>5 DEF IInv, ConnectorsOk, C!Partitions, C!BytesOf
<1>7. Covered'
  <2>1. C!Partitions' = C!Partitions
    BY <1>1, StartKept
  <2>2. SUFFICES ASSUME Durable', NEW p \in C!Partitions
                 PROVE  IdsUpTo(p, C!Read(p))' \subseteq stored
    BY <1>3, <2>1 DEF Covered
  <2>3. PICK a, b : a = stopped[p] /\ b = C!Read(p)'
    OBVIOUS
  <2>4. p \in DOMAIN Log /\ Start(p) \in Nat
    BY <1>4
  <2>5. b \in Nat
    <3>1. C!Read(p)' \in 0..Len(Log[p])
      BY <1>6, <2>1, ReadNext DEF ReadInRange
    <3>2. QED  BY <1>4, <2>3, <2>4, <3>1
  <2>6. a \in Nat /\ IdsUpTo(p, a) \subseteq stored
    <3>1. CASE checkpoint = None
      <4>1. a = Start(p) /\ Start(p) \in 0..Start(p)
        BY <2>3, <2>4, <3>1
      <4>2. QED  BY <2>4, <4>1, IdsNone
    <3>2. CASE checkpoint # None
      <4>1. a = checkpoint.reached[p] /\ p \in DOMAIN checkpoint.reached /\ a \in 0..Len(Log[p])
        BY <2>3, <3>2 DEF IInv, Saved
      <4>2. QED  BY <1>3, <1>4, <2>2, <2>4, <3>2, <4>1 DEF IInv, StoredUpTo
    <3>3. QED  BY <3>1, <3>2
  <2>7. \A n \in (a + 1)..b : <<p, n>> \in skipped'
    <3>1. Reached'[p] = b
      BY <2>1, <2>3 DEF Reached
    <3> HIDE DEF stopped
    <3>2. QED  BY <1>1, <2>3, <3>1 DEF Skips
  <2>8. IdsUpTo(p, b)' \subseteq IdsUpTo(p, a)
    BY <1>1, <1>4, <2>4, <2>5, <2>6, <2>7, IdsResumed
  <2>9. IdsUpTo(p, C!Read(p))' = IdsUpTo(p, b)'
    BY <2>3 DEF IdsUpTo
  <2>10. QED  BY <2>6, <2>8, <2>9
<1>8. Saved'
  BY <1>1 DEF IInv, Saved, C!Partitions, C!BytesOf
<1>9. StoredUpTo'
  <2>1. checkpoint # None /\ Durable' =>
          \A p \in DOMAIN checkpoint.reached : IdsUpTo(p, checkpoint.reached[p])' \subseteq stored
    BY <1>1, <1>3, <1>4, StartKept DEF IInv, StoredUpTo
  <2>2. QED  BY <1>1, <1>3, <2>1 DEF StoredUpTo, IdsUpTo, Start
<1>10. QED  BY <1>6, <1>7, <1>8, <1>9 DEF IInv

LEMMA StepKeeps ==
  ASSUME IInv, [Next]_vars
  PROVE  IInv'
<1> DEFINE Still == UNCHANGED <<source, assignment, startAt, position, sink, buffer, stored, checkpoint, skipped>>
<1>1. ASSUME Still, crashes' \in Nat, crashes' = 0 => crashes = 0, status' = "crashed" => crashes' # 0,
             committed' \in [DOMAIN Log -> Nat], \A p \in DOMAIN Log : committed'[p] <= Len(Log[p])
      PROVE  IInv'
  <2>1. Durable' => Durable
    BY <1>1 DEF Durable
  <2>2. ConnectorsOk'
    BY <1>1 DEF IInv, ConnectorsOk, C!Partitions, C!BytesOf
  <2>3. Covered'
    BY <1>1, <2>1, ReadKept, StartKept DEF IInv, Covered
  <2>4. Saved'
    BY <1>1 DEF IInv, Saved, C!Partitions, C!BytesOf
  <2>5. StoredUpTo'
    BY <1>1, <2>1 DEF IInv, StoredUpTo, IdsUpTo, Start
  <2>6. QED  BY <2>2, <2>3, <2>4, <2>5 DEF IInv
<1>2. /\ crashes \in Nat /\ (status = "crashed" => crashes # 0)
      /\ committed \in [DOMAIN Log -> Nat] /\ \A p \in DOMAIN Log : committed[p] <= Len(Log[p])
      /\ \A p \in DOMAIN Log : Len(Log[p]) \in Nat
  BY LogTyped DEF IInv, ConnectorsOk
<1>3. CASE GroupAssign \/ Rebalance
  BY <1>3, AssignKeeps DEF GroupAssign, Rebalance
<1>4. ASSUME NEW p \in DOMAIN Log, ProcessRecord(p) PROVE IInv'
  BY <1>4, ProcessKeeps
<1>5. CASE DropKey
  BY <1>1, <1>2, <1>5 DEF DropKey, sourceVars, sinkVars, job
<1>6. CASE EndOfStream
  BY <1>1, <1>2, <1>6 DEF EndOfStream, sourceVars, sinkVars
<1>7. CASE Checkpoint
  BY <1>7, CheckpointKeeps
<1>8. CASE AutoCommit
  <2>1. /\ source = "kafka"
        /\ committed' = [p \in DOMAIN Log |-> IF p \in assignment /\ position[p] # None
                                              THEN position[p] ELSE committed[p]]
        /\ Still /\ UNCHANGED <<crashes, status>>
    BY <1>8 DEF AutoCommit, C!AutoCommit, sinkVars, job
  <2>2. \A p \in DOMAIN Log : position[p] # None => position[p] \in 0..Len(Log[p])
    BY <2>1 DEF IInv, ConnectorsOk
  <2>3. \A p \in DOMAIN Log : committed'[p] \in Nat /\ committed'[p] <= Len(Log[p])
    BY <1>2, <2>1, <2>2
  <2>4. committed' \in [DOMAIN Log -> Nat]
    <3>1. committed' = [p \in DOMAIN Log |-> committed'[p]]
      BY <2>1
    <3>2. QED  BY <2>3, <3>1
  <2>5. QED  BY <1>1, <1>2, <2>1, <2>3, <2>4
<1>9. CASE Crash
  <2>1. /\ Still /\ status' = "crashed" /\ crashes' = crashes + 1
        /\ committed' \in C!CommittedAhead
    BY <1>9 DEF Crash, sinkVars
  <2>2. PICK q : committed' \in [DOMAIN Log -> q]
    BY <2>1 DEF C!CommittedAhead
  <2>3. committed' = [p \in DOMAIN Log |-> committed'[p]]
    BY <2>2
  <2>4. ASSUME NEW p \in DOMAIN Log
        PROVE  committed'[p] \in Nat /\ committed'[p] <= Len(Log[p])
    <3>1. \/ committed'[p] = committed[p]
          \/ p \in assignment /\ committed'[p] \in (C!Read(p) + 1)..Len(Log[p])
      BY <2>1 DEF C!CommittedAhead
    <3>2. p \in assignment => C!Read(p) \in Nat
      BY <1>2, ReadIs DEF IInv, ConnectorsOk
    <3>3. QED  BY <1>2, <3>1, <3>2
  <2>5. committed' \in [DOMAIN Log -> Nat]
    BY <2>3, <2>4
  <2>6. crashes' \in Nat /\ crashes' # 0
    BY <1>2, <2>1
  <2>7. QED  BY <1>1, <2>1, <2>4, <2>5, <2>6
<1>10. CASE Recover
  BY <1>10, RecoverKeeps
<1>11. CASE UNCHANGED vars
  BY <1>1, <1>2, <1>11 DEF vars, sourceVars, sinkVars, job
<1>12. QED  BY <1>3, <1>4, <1>5, <1>6, <1>7, <1>8, <1>9, <1>10, <1>11 DEF Next, Running

LEMMA InitKeeps ==
  ASSUME Init
  PROVE  IInv
<1> DEFINE new == C!SourceNew(source)
<1>1. source \in SourceKinds /\ sink \in SinkKinds
  <2>1. PICK pair \in Pairings : source = pair[1] /\ sink = pair[2]
    BY DEF Init
  <2>2. QED  BY <2>1, RecoveryAssumption
<1>2. /\ assignment = new.assignment /\ startAt = new.startAt /\ position = new.position
      /\ buffer = {} /\ status = "running" /\ checkpoint = None /\ crashes = 0
      /\ committed = Committed
      /\ committed \in [DOMAIN Log -> Nat] /\ \A p \in DOMAIN Log : committed[p] <= Len(Log[p])
  BY RecoveryAssumption DEF Init
<1>3. /\ 1 \in DOMAIN Log /\ C!Partitions \subseteq DOMAIN Log /\ Len(Log[1]) \in Nat
      /\ \A p \in DOMAIN Log : Start(p) \in Nat
  BY <1>1, LogTyped, StartTyped
<1> HIDE DEF new
<1>4. ConnectorsOk
  <2>1. 0 \in 0..Len(Log[1])
    BY <1>3
  <2>2. source \in {"tcp", "memory"} => source # "kafka"
    OBVIOUS
  <2>3. QED  BY <1>1, <1>2, <2>1, <2>2, NewSource DEF ConnectorsOk, new
<1>5. Covered
  <2>1. SUFFICES ASSUME NEW p \in C!Partitions PROVE IdsUpTo(p, C!Read(p)) = {}
    BY DEF Covered
  <2>2. C!Read(p) = Start(p)
    BY <1>1, <1>2, NewSource, ReadsAt DEF new, Start
  <2>3. Start(p) \in Nat /\ Start(p) \in 0..Start(p)
    BY <1>3
  <2>4. QED  BY <2>2, <2>3, IdsNone
<1>6. QED  BY <1>2, <1>4, <1>5 DEF IInv, Saved, StoredUpTo

(* IInv is an invariant of every run: the positions of the sources, the    *)
(* checkpoints and what the sinks hold fit together through any crashes.   *)
THEOREM Invariance == Spec => []IInv
<1>1. Init => IInv
  BY InitKeeps
<1>2. IInv /\ [Next]_vars => IInv'
  BY StepKeeps
<1>3. QED  BY <1>1, <1>2, PTL DEF Spec

(* Sink.flush before the barrier is acknowledged: whatever the job had     *)
(* read when a completed checkpoint was taken is outside the process, but  *)
(* for what the consumer group had it skip, for any log and any crashes    *)
(* with a TCP or Kafka sink, until the first crash with the others.        *)
THEOREM CheckpointSafe == Spec => []CheckpointedIsStored
<1>1. IInv => CheckpointedIsStored
  <2>1. SUFFICES ASSUME IInv, checkpoint # None, Durable, NEW p \in DOMAIN checkpoint.reached,
                        NEW n \in (Start(p) + 1)..checkpoint.reached[p], <<p, n>> \notin skipped
                 PROVE  Log[p][n].id \in stored
    BY DEF CheckpointedIsStored, Durable
  <2>2. Log[p][n].id \in IdsUpTo(p, checkpoint.reached[p])
    BY <2>1 DEF IdsUpTo
  <2>3. QED  BY <2>1, <2>2 DEF IInv, StoredUpTo
<1>2. QED  BY <1>1, Invariance, PTL

(* Source::restore and next: a position is never past the input, so that   *)
(* whatever was restored there is a next record, or all have been read.    *)
THEOREM PositionsExist == Spec => [](\A p \in C!Partitions : C!Read(p) \in 0..Len(Log[p]))
<1>1. IInv => \A p \in C!Partitions : C!Read(p) \in 0..Len(Log[p])
  BY ReadIs DEF IInv
<1>2. QED  BY <1>1, Invariance, PTL

-----------------------------------------------------------------------------
(* Exactly-once state. *)

(* Every record of a key is in one partition. *)
OneHome ==
  \A p, q \in DOMAIN Log : \A r \in Range(Log[p]), t \in Range(Log[q]) : r.key = t.key => p = q

(* The state of a key in some backends, empty before it is created. *)
StateOf(b, k) == IF k \in DOMAIN b THEN b[k][kind] ELSE K!EmptyState(kind)

(* The backends hold one state, for known keys only; for all of them when *)
(* the operator registers its states up front.                            *)
ShapeOf(b) ==
  /\ DOMAIN b \subseteq Keys
  /\ \A k \in DOMAIN b : DOMAIN b[k] = {kind}
  /\ registers => DOMAIN b = Keys

(* A source that has not strayed is not before its start, nor was it. *)
Progress ==
  /\ ~strayed => \A p \in C!Partitions : C!Read(p) >= Start(p)
  /\ checkpoint # None /\ ~checkpoint.strayed =>
       \A p \in C!Partitions : checkpoint.reached[p] >= Start(p)

Matches ==
  status = "running" /\ (registers \/ crashes = 0) /\ ~strayed =>
    \A k \in Keys : StateOf(backends, k) = Expected(k, Reached)

(* The saved state is that of the saved position. *)
SavedState ==
  checkpoint # None /\ registers /\ ~checkpoint.strayed =>
    /\ DOMAIN checkpoint.state = Keys
    /\ \A k \in Keys : /\ DOMAIN checkpoint.state[k] = {kind}
                       /\ checkpoint.state[k][kind] = Expected(k, checkpoint.reached)

SInv == ShapeOf(backends) /\ Progress /\ Matches /\ SavedState

-----------------------------------------------------------------------------
(* The state after each record exists, and each record changes its key's. *)

FollowsOn(f, k, p, q) ==
  f = [m \in 0..q |-> IF m <= Start(p) THEN K!EmptyState(kind)
                      ELSE IF Log[p][m].key = k THEN Applied(f[m - 1], Log[p][m])
                      ELSE f[m - 1]]

LEMMA AfterExists ==
  ASSUME NEW k, NEW p, Start(p) \in Nat, NEW q \in Nat
  PROVE  \E f : FollowsOn(f, k, p, q)
<1> DEFINE Bad == {m \in Nat : ~ \E f : FollowsOn(f, k, p, m)}
<1>1. SUFFICES ASSUME Bad # {} PROVE FALSE
  OBVIOUS
<1>2. PICK m \in Bad : \A y \in Bad : m <= y
  <2>1. Bad \in SUBSET Nat
    OBVIOUS
  <2>2. QED  BY <1>1, <2>1, LeastElement
<1>3. m \in Nat /\ ~ \E f : FollowsOn(f, k, p, m)
  OBVIOUS
<1> DEFINE Then(x, n) == IF n <= Start(p) THEN K!EmptyState(kind)
                         ELSE IF Log[p][n].key = k THEN Applied(x, Log[p][n]) ELSE x
<1>4. \A f, n : FollowsOn(f, k, p, n) <=> f = [j \in 0..n |-> Then(f[j - 1], j)]
  BY DEF FollowsOn
<1>5. \A x : Then(x, 0) = K!EmptyState(kind)
  OBVIOUS
<1> HIDE DEF Then
<1>6. CASE m = 0
  <2> DEFINE f == [n \in 0..0 |-> K!EmptyState(kind)]
  <2>1. f = [j \in 0..0 |-> Then(f[j - 1], j)]
    BY <1>5
  <2>2. QED  BY <1>3, <1>4, <1>6, <2>1
<1>7. CASE m # 0
  <2>1. m - 1 \in Nat /\ ~(m <= m - 1)
    BY <1>3, <1>7
  <2>2. m - 1 \notin Bad
    <3> HIDE DEF Bad
    <3>1. QED  BY <1>2, <2>1
  <2>3. PICK f : FollowsOn(f, k, p, m - 1)
    BY <2>1, <2>2
  <2>4. \A n \in 0..(m - 1) : f[n] = Then(f[n - 1], n)
    BY <1>4, <2>3
  <2> DEFINE g == [n \in 0..m |-> IF n = m THEN Then(f[m - 1], m) ELSE f[n]]
  <2>5. /\ g = [n \in 0..m |-> g[n]] /\ g[m] = Then(f[m - 1], m)
        /\ \A n \in 0..(m - 1) : g[n] = f[n]
    BY <1>3
  <2> HIDE DEF g
  <2>6. \A n \in 0..m : g[n] = Then(g[n - 1], n)
    <3>1. TAKE n \in 0..m
    <3>2. CASE n = m
      <4>1. m - 1 \in 0..(m - 1)
        BY <2>1
      <4>2. QED  BY <2>5, <3>2, <4>1
    <3>3. CASE n = 0
      <4>1. n \in 0..(m - 1)
        BY <2>1, <3>3
      <4>2. \A x : Then(x, n) = K!EmptyState(kind)
        BY <1>5, <3>3
      <4>3. QED  BY <2>4, <2>5, <4>1, <4>2
    <3>4. CASE n # m /\ n # 0
      <4>1. n \in 0..(m - 1) /\ n - 1 \in 0..(m - 1)
        BY <1>3, <3>4
      <4>2. QED  BY <2>4, <2>5, <4>1
    <3>5. QED  BY <3>2, <3>3, <3>4
  <2>7. g = [n \in 0..m |-> Then(g[n - 1], n)]
    <3>1. [n \in 0..m |-> g[n]] = [n \in 0..m |-> Then(g[n - 1], n)]
      BY <2>6, Zenon
    <3>2. QED  BY <2>5, <3>1, Zenon
  <2>8. FollowsOn(g, k, p, m)
    BY <1>4, <2>7, Zenon
  <2>9. QED  BY <1>3, <2>8
<1>8. QED  BY <1>6, <1>7

LEMMA AfterStep ==
  ASSUME source \in SourceKinds, NEW k, NEW p \in DOMAIN Log
  PROVE  /\ \A n \in 0..Len(Log[p]) : n <= Start(p) => After(k, p, n) = K!EmptyState(kind)
         /\ \A n \in 1..Len(Log[p]) : n > Start(p) =>
              After(k, p, n) = IF Log[p][n].key = k THEN Applied(After(k, p, n - 1), Log[p][n])
                               ELSE After(k, p, n - 1)
<1> DEFINE f == CHOOSE g : FollowsOn(g, k, p, Len(Log[p]))
<1>1. Start(p) \in Nat /\ Len(Log[p]) \in Nat
  BY LogTyped, StartTyped
<1>2. FollowsOn(f, k, p, Len(Log[p]))
  BY <1>1, AfterExists
<1>3. \A n : After(k, p, n) = f[n]
  BY Zenon DEF After, FollowsOn
<1> HIDE DEF f
<1>4. \A n \in 0..Len(Log[p]) :
        f[n] = IF n <= Start(p) THEN K!EmptyState(kind)
               ELSE IF Log[p][n].key = k THEN Applied(f[n - 1], Log[p][n])
               ELSE f[n - 1]
  BY <1>2 DEF FollowsOn
<1>5. \A n \in 1..Len(Log[p]) : n \in 0..Len(Log[p]) /\ (n > Start(p) => ~(n <= Start(p)))
  BY <1>1
<1>6. QED  BY <1>3, <1>4, <1>5

LEMMA AfterKept ==
  ASSUME source' = source, kind' = kind
  PROVE  /\ \A k, p, n : After(k, p, n)' = After(k, p, n)
         /\ \A k, reached : Expected(k, reached)' = Expected(k, reached)
BY DEF After, Expected, Start, Applied, K!EmptyState, K!Cleared, K!ValueSet, K!ListAdd,
       K!MapPut, K!MapRemove

(* The state expected of a key is that of its one partition, if any. *)
LEMMA HomeIs ==
  ASSUME OneHome, NEW k, NEW reached, DOMAIN reached \subseteq DOMAIN Log,
         NEW p \in DOMAIN reached, NEW r \in Range(Log[p]), r.key = k
  PROVE  Expected(k, reached) = After(k, p, reached[p])
<1> DEFINE home == {q \in DOMAIN reached : \E t \in Range(Log[q]) : t.key = k}
<1>1. p \in home
  OBVIOUS
<1>2. \A q \in home : q = p
  BY DEF OneHome
<1>3. home = {p}
  BY <1>1, <1>2
<1>4. (CHOOSE q \in home : TRUE) = p
  BY <1>3
<1>5. Expected(k, reached) =
        IF home = {} THEN K!EmptyState(kind)
        ELSE After(k, CHOOSE q \in home : TRUE, reached[CHOOSE q \in home : TRUE])
  BY DEF Expected
<1> HIDE DEF home
<1>6. QED  BY <1>1, <1>4, <1>5

LEMMA HomeLess ==
  ASSUME NEW k, NEW reached,
         \A p \in DOMAIN reached : \A r \in Range(Log[p]) : r.key # k
  PROVE  Expected(k, reached) = K!EmptyState(kind)
<1>1. {q \in DOMAIN reached : \E t \in Range(Log[q]) : t.key = k} = {}
  OBVIOUS
<1>2. QED  BY <1>1 DEF Expected

LEMMA ExpectedSame ==
  ASSUME OneHome, NEW k, NEW a, NEW b, DOMAIN a = DOMAIN b, DOMAIN a \subseteq DOMAIN Log,
         \A p \in DOMAIN a : \A r \in Range(Log[p]) :
           r.key = k => After(k, p, a[p]) = After(k, p, b[p])
  PROVE  Expected(k, a) = Expected(k, b)
<1>1. CASE \E p \in DOMAIN a : \E r \in Range(Log[p]) : r.key = k
  <2>1. PICK p \in DOMAIN a : \E r \in Range(Log[p]) : r.key = k
    BY <1>1
  <2>2. PICK r \in Range(Log[p]) : r.key = k
    BY <2>1
  <2>3. Expected(k, a) = After(k, p, a[p])
    BY <2>2, HomeIs
  <2>4. Expected(k, b) = After(k, p, b[p])
    BY <2>2, HomeIs
  <2>5. QED  BY <2>2, <2>3, <2>4
<1>2. CASE ~ \E p \in DOMAIN a : \E r \in Range(Log[p]) : r.key = k
  BY <1>2, HomeLess
<1>3. QED  BY <1>1, <1>2

(* Nothing is expected at the start. *)
LEMMA ExpectedStart ==
  ASSUME OneHome, source \in SourceKinds, NEW k, NEW a, DOMAIN a \subseteq DOMAIN Log,
         \A p \in DOMAIN a : a[p] = Start(p)
  PROVE  Expected(k, a) = K!EmptyState(kind)
<1>1. CASE \E p \in DOMAIN a : \E r \in Range(Log[p]) : r.key = k
  <2>1. PICK p \in DOMAIN a : \E r \in Range(Log[p]) : r.key = k
    BY <1>1
  <2>2. PICK r \in Range(Log[p]) : r.key = k
    BY <2>1
  <2>3. Expected(k, a) = After(k, p, Start(p))
    BY <2>2, HomeIs
  <2>4. Start(p) \in 0..Len(Log[p]) /\ Start(p) <= Start(p)
    BY StartTyped, LogTyped
  <2>5. QED  BY <2>3, <2>4, AfterStep
<1>2. CASE ~ \E p \in DOMAIN a : \E r \in Range(Log[p]) : r.key = k
  BY <1>2, HomeLess
<1>3. QED  BY <1>1, <1>2

-----------------------------------------------------------------------------
(* What the operations on the backends do. *)

LEMMA StateIs ==
  ASSUME ShapeOf(backends), NEW k
  PROVE  State(k) = StateOf(backends, k)
BY DEF ShapeOf, State, StateOf, K!Backend

LEMMA CreatedIs ==
  ASSUME NEW b, NEW k, k \notin DOMAIN b
  PROVE  LET c == K!Created(b, k, kind)
         IN  /\ DOMAIN c = DOMAIN b \cup {k}
             /\ DOMAIN c[k] = {kind} /\ c[k][kind] = K!EmptyState(kind)
             /\ \A j \in DOMAIN b : c[j] = b[j]
<1> DEFINE c == K!Created(b, k, kind)
<1>1. K!Backend(b, k) = <<>>
  BY DEF K!Backend
<1>2. K!WithState(<<>>, kind) = [name \in {kind} |-> K!EmptyState(kind)]
  BY DEF K!WithState
<1>3. c = [j \in DOMAIN b \cup {k} |-> IF j = k THEN [name \in {kind} |-> K!EmptyState(kind)] ELSE b[j]]
  BY <1>1, <1>2 DEF K!Created
<1> HIDE DEF c
<1>4. /\ DOMAIN c = DOMAIN b \cup {k}
      /\ DOMAIN c[k] = {kind} /\ c[k][kind] = K!EmptyState(kind)
      /\ \A j \in DOMAIN b : c[j] = b[j]
  BY <1>3
<1>5. QED  BY <1>4 DEF c

LEMMA AllCreatedIs ==
  ASSUME NEW c, c = AllCreated(<<>>)
  PROVE  /\ DOMAIN c = Keys
         /\ \A k \in Keys : DOMAIN c[k] = {kind} /\ c[k][kind] = K!EmptyState(kind)
<1>1. c = [k \in Keys |-> K!Created(<<>>, k, kind)[k]]
  BY DEF AllCreated
<1>2. ASSUME NEW k \in Keys
      PROVE  DOMAIN c[k] = {kind} /\ c[k][kind] = K!EmptyState(kind)
  <2> DEFINE none == <<>>
  <2>1. k \notin DOMAIN none
    OBVIOUS
  <2>2. c[k] = K!Created(none, k, kind)[k]
    BY <1>1
  <2> HIDE DEF none
  <2>3. DOMAIN K!Created(none, k, kind)[k] = {kind}
    BY <2>1, CreatedIs, Zenon
  <2>4. K!Created(none, k, kind)[k][kind] = K!EmptyState(kind)
    BY <2>1, CreatedIs, Zenon
  <2>5. QED  BY <2>2, <2>3, <2>4
<1>3. QED  BY <1>1, <1>2

(* Processing changes the state of one key. *)
LEMMA UpdateIs ==
  ASSUME ShapeOf(backends), NEW key \in Keys, key # None, NEW b, NEW c, NEW s,
         b = (IF K!CanCreate(key, kind) THEN K!Created(backends, key, kind) ELSE backends),
         c = K!Updated(b, key, kind, s)
  PROVE  /\ b[key][kind] = StateOf(backends, key)
         /\ ShapeOf(c)
         /\ StateOf(c, key) = s
         /\ \A k : k # key => StateOf(c, k) = StateOf(backends, k)
<1>1. K!CanCreate(key, kind) <=> key \notin DOMAIN backends
  BY DEF K!CanCreate, K!Backend, ShapeOf
<1>2. /\ DOMAIN b = DOMAIN backends \cup {key}
      /\ DOMAIN b[key] = {kind} /\ b[key][kind] = StateOf(backends, key)
      /\ \A k \in DOMAIN backends : b[k] = backends[k]
  <2>1. CASE key \notin DOMAIN backends
    <3>1. b = K!Created(backends, key, kind)
      BY <1>1, <2>1
    <3> DEFINE made == K!Created(backends, key, kind)
    <3>2. DOMAIN made = DOMAIN backends \cup {key}
      BY <2>1, CreatedIs, Zenon
    <3>3. DOMAIN made[key] = {kind} /\ made[key][kind] = K!EmptyState(kind)
      BY <2>1, CreatedIs, Zenon
    <3>4. \A k \in DOMAIN backends : made[k] = backends[k]
      BY <2>1, CreatedIs, Zenon
    <3>5. StateOf(backends, key) = K!EmptyState(kind)
      BY <2>1 DEF StateOf
    <3>6. QED  BY <3>1, <3>2, <3>3, <3>4, <3>5
  <2>2. CASE key \in DOMAIN backends
    BY <1>1, <2>2 DEF StateOf, ShapeOf
  <2>3. QED  BY <2>1, <2>2
<1>3. /\ DOMAIN c = DOMAIN b
      /\ DOMAIN c[key] = {kind} /\ c[key][kind] = s
      /\ \A k \in DOMAIN b : k # key => c[k] = b[k]
  BY <1>2 DEF K!Updated
<1>4. QED  BY <1>2, <1>3 DEF ShapeOf, StateOf

(* Restored backends hold the saved states. *)
LEMMA RestoredIs ==
  ASSUME NEW b, NEW s, NEW c, c = K!Restored(b, s),
         DOMAIN b = Keys, \A k \in Keys : DOMAIN b[k] = {kind},
         DOMAIN s = Keys, \A k \in Keys : DOMAIN s[k] = {kind}
  PROVE  /\ DOMAIN c = Keys
         /\ \A k \in Keys : DOMAIN c[k] = {kind} /\ c[k][kind] = s[k][kind]
BY DEF K!Restored, K!BackendRestored

LEMMA SnapshotIs ==
  ASSUME NEW s, s = K!Snapshot
  PROVE  /\ DOMAIN s = DOMAIN backends
         /\ \A k \in DOMAIN backends : /\ DOMAIN s[k] = DOMAIN backends[k]
                                       /\ \A n \in DOMAIN backends[k] : s[k][n] = backends[k][n]
BY DEF K!Snapshot, K!BackendSnapshot

-----------------------------------------------------------------------------
(* The steps, again. *)

(* Neither the state nor, but for a straying source, its position. *)
LEMMA QuietKeeps ==
  ASSUME SInv, UNCHANGED <<source, backends, kind, registers, checkpoint>>,
         ~strayed' => ~strayed /\ \A p \in C!Partitions : C!Read(p)' = C!Read(p),
         status' = "running" => status = "running", crashes' = 0 => crashes = 0
  PROVE  SInv'
<1>1. C!Partitions' = C!Partitions /\ \A p : Start(p)' = Start(p)
  BY StartKept
<1>2. ~strayed' => Reached' = Reached
  BY <1>1 DEF Reached
<1>3. \A k, reached : Expected(k, reached)' = Expected(k, reached)
  BY AfterKept
<1>4. \A k : StateOf(backends, k)' = StateOf(backends, k)
  BY DEF StateOf, K!EmptyState
<1>5. ShapeOf(backends)'
  BY DEF SInv, ShapeOf
<1>6. Progress'
  BY <1>1 DEF SInv, Progress
<1>7. Matches'
  BY <1>2, <1>3, <1>4 DEF SInv, Matches
<1>8. SavedState'
  BY <1>3 DEF SInv, SavedState
<1>9. QED  BY <1>5, <1>6, <1>7, <1>8 DEF SInv

LEMMA ProcessMatches ==
  ASSUME OneHome, IInv, SInv, NEW p \in DOMAIN Log, ProcessRecord(p)
  PROVE  SInv'
<1> DEFINE n == C!Read(p)
<1> DEFINE r == Log[p][n + 1]
<1> DEFINE b == IF K!CanCreate(r.key, kind) THEN K!Created(backends, r.key, kind) ELSE backends
<1>1. /\ C!Next(p) /\ status = "running"
      /\ backends' = K!Updated(b, r.key, kind, Applied(b[r.key][kind], r))
      /\ UNCHANGED <<status, kind, registers, checkpoint, crashes, strayed>>
  BY DEF ProcessRecord, job
<1>2. /\ source' = source /\ startAt' = startAt /\ source \in SourceKinds
      /\ p \in C!Partitions /\ n + 1 \in 1..Len(Log[p]) /\ n \in Nat
      /\ C!Read(p)' = n + 1 /\ \A q \in DOMAIN Log : q # p => C!Read(q)' = C!Read(q)
  BY <1>1, ProcessReads, ReadIs DEF IInv, ConnectorsOk
<1>3. r \in Range(Log[p]) /\ r.key \in Keys /\ r.key # None
  <2>1. Log[p] \in Seq(Range(Log[p]))
    BY RecoveryAssumption
  <2>2. n + 1 \in DOMAIN Log[p]
    BY <1>2, <2>1
  <2>3. r \in Range(Log[p])
    BY <2>2 DEF Range
  <2>4. QED  BY <2>3, RecoveryAssumption DEF Keys
<1> HIDE DEF n, r
<1>4. /\ b[r.key][kind] = StateOf(backends, r.key)
      /\ ShapeOf(backends')
      /\ StateOf(backends', r.key) = Applied(b[r.key][kind], r)
      /\ \A k : k # r.key => StateOf(backends', k) = StateOf(backends, k)
  BY <1>1, <1>3, UpdateIs DEF SInv
<1> HIDE DEF b
<1>5. ShapeOf(backends)'
  BY <1>1, <1>4 DEF ShapeOf
<1>6. C!Partitions' = C!Partitions /\ C!Partitions \subseteq DOMAIN Log
  BY <1>2, StartKept, LogTyped
<1>7. \A q \in C!Partitions : Start(q)' = Start(q)
  BY <1>2 DEF Start
<1>8. Progress'
  <2>1. ~strayed => \A q \in C!Partitions : C!Read(q)' >= Start(q)
    <3>1. SUFFICES ASSUME ~strayed, NEW q \in C!Partitions PROVE C!Read(q)' >= Start(q)
      OBVIOUS
    <3>2. C!Read(q) >= Start(q) /\ Start(q) \in Nat
      BY <1>2, <1>6, <3>1, StartTyped DEF SInv, Progress
    <3>3. CASE q = p
      BY <1>2, <3>2, <3>3 DEF n
    <3>4. CASE q # p
      BY <1>2, <1>6, <3>2, <3>4
    <3>5. QED  BY <3>3, <3>4
  <2>2. QED  BY <1>1, <1>6, <1>7, <2>1 DEF SInv, Progress
<1>9. SavedState'
  BY <1>1, <1>2, AfterKept DEF SInv, SavedState
<1>10. Matches'
  <2>1. PICK next : next = Reached'
    OBVIOUS
  <2>2. /\ DOMAIN next = C!Partitions /\ DOMAIN Reached = C!Partitions
        /\ \A q \in C!Partitions : next[q] = C!Read(q)' /\ Reached[q] = C!Read(q)
    BY <1>6, <2>1 DEF Reached
  <2>3. SUFFICES ASSUME status' = "running", registers' \/ crashes' = 0, ~strayed', NEW k \in Keys
                 PROVE  StateOf(backends', k) = Expected(k, next)
    <3>1. \A k : Expected(k, Reached)' = Expected(k, next)
      BY <1>1, <1>2, <2>1, AfterKept
    <3>2. \A k : StateOf(backends, k)' = StateOf(backends', k)
      BY <1>1 DEF StateOf, K!EmptyState
    <3>3. QED  BY <2>3, <3>1, <3>2 DEF Matches
  <2>4. StateOf(backends, k) = Expected(k, Reached)
    BY <1>1, <2>3 DEF SInv, Matches
  <2>5. n + 1 > Start(p)
    <3>1. n >= Start(p) /\ Start(p) \in Nat
      BY <1>1, <1>2, <1>6, <2>3, StartTyped DEF SInv, Progress, n
    <3>2. QED  BY <1>2, <3>1
  <2>6. After(k, p, n + 1) = IF r.key = k THEN Applied(After(k, p, n), r) ELSE After(k, p, n)
    <3>1. PICK m : m = n + 1
      OBVIOUS
    <3>2. m - 1 = n /\ m \in 1..Len(Log[p]) /\ m > Start(p)
      BY <1>2, <2>5, <3>1
    <3>3. After(k, p, m) = IF Log[p][m].key = k THEN Applied(After(k, p, m - 1), Log[p][m])
                           ELSE After(k, p, m - 1)
      BY <1>2, <3>2, AfterStep
    <3>4. r = Log[p][m]
      BY <3>1 DEF r
    <3>5. QED  BY <3>1, <3>2, <3>3, <3>4, Zenon
  <2>7. CASE r.key = k
    <3>1. Expected(k, Reached) = After(k, p, n)
      BY <1>2, <1>3, <1>6, <2>2, <2>7, HomeIs DEF n
    <3>2. Expected(k, next) = After(k, p, n + 1)
      BY <1>2, <1>3, <1>6, <2>2, <2>7, HomeIs
    <3>3. QED  BY <1>4, <2>4, <2>6, <2>7, <3>1, <3>2
  <2>8. CASE r.key # k
    <3>1. \A q \in C!Partitions : After(k, q, Reached[q]) = After(k, q, next[q])
      <4>1. TAKE q \in C!Partitions
      <4>2. CASE q = p
        BY <1>2, <2>2, <2>6, <2>8, <4>2 DEF n
      <4>3. CASE q # p
        BY <1>2, <1>6, <2>2, <4>3
      <4>4. QED  BY <4>2, <4>3
    <3>2. Expected(k, Reached) = Expected(k, next)
      BY <1>6, <2>2, <3>1, ExpectedSame
    <3>3. QED  BY <1>4, <2>4, <2>8, <3>2
  <2>9. QED  BY <2>7, <2>8
<1>11. QED  BY <1>5, <1>8, <1>9, <1>10 DEF SInv

LEMMA CheckpointMatches ==
  ASSUME IInv, SInv, Checkpoint
  PROVE  SInv'
<1>1. /\ UNCHANGED <<source, startAt, position, backends, kind, registers, status, crashes, strayed>>
      /\ status = "running"
      /\ checkpoint'.state = K!Snapshot /\ checkpoint'.reached = Reached
      /\ checkpoint'.strayed = strayed
  BY DEF Checkpoint, sourceVars, stateVars
<1>2. /\ C!Partitions' = C!Partitions /\ \A p : C!Read(p)' = C!Read(p)
      /\ \A p : Start(p)' = Start(p)
  BY <1>1, ReadKept, StartKept
<1>3. Reached' = Reached
  BY <1>2 DEF Reached
<1>4. \A k, reached : Expected(k, reached)' = Expected(k, reached)
  BY <1>1, AfterKept
<1>5. ShapeOf(backends)'
  BY <1>1 DEF SInv, ShapeOf
<1>6. Progress'
  BY <1>1, <1>2 DEF SInv, Progress, Reached
<1>7. Matches'
  <2>1. \A k : StateOf(backends, k)' = StateOf(backends, k)
    BY <1>1 DEF StateOf, K!EmptyState
  <2>2. QED  BY <1>1, <1>3, <1>4, <2>1 DEF SInv, Matches
<1>8. SavedState'
  <2>1. PICK s : s = K!Snapshot
    OBVIOUS
  <2>2. SUFFICES ASSUME registers, ~strayed
                 PROVE  /\ DOMAIN s = Keys
                        /\ \A k \in Keys : DOMAIN s[k] = {kind} /\ s[k][kind] = Expected(k, Reached)
    BY <1>1, <1>4, <2>1 DEF SavedState
  <2>3. DOMAIN backends = Keys /\ \A k \in Keys : DOMAIN backends[k] = {kind}
    BY <2>2 DEF SInv, ShapeOf
  <2>4. \A k \in Keys : backends[k][kind] = Expected(k, Reached)
    BY <1>1, <2>2, <2>3 DEF SInv, Matches, StateOf
  <2>5. QED  BY <2>1, <2>3, <2>4, SnapshotIs
<1>9. QED  BY <1>5, <1>6, <1>7, <1>8 DEF SInv

(* What is restored is the state saved with the position restored, or the *)
(* source has strayed.                                                    *)
LEMMA RecoverMatches ==
  ASSUME OneHome, IInv, SInv, Recover
  PROVE  SInv'
<1> DEFINE fresh == IF registers THEN AllCreated(<<>>) ELSE <<>>
<1> DEFINE new == IF checkpoint = None THEN C!SourceNew(source)
                  ELSE C!SourceRestored(checkpoint.source)
<1>1. /\ UNCHANGED <<source, kind, registers, checkpoint, crashes>>
      /\ startAt' = new.startAt /\ position' = new.position
      /\ backends' = IF checkpoint = None THEN fresh ELSE K!Restored(fresh, checkpoint.state)
      /\ checkpoint = None /\ ~strayed' => (source = "kafka" => committed = Committed)
      /\ checkpoint # None /\ ~strayed' =>
           /\ ~checkpoint.strayed
           /\ source \notin {"tcp", "memory"}
           /\ source = "kafka" => checkpoint.source = checkpoint.reached
      /\ status = "crashed"
  BY DEF Recover
<1>2. /\ source \in SourceKinds /\ C!Partitions \subseteq DOMAIN Log
      /\ committed \in [DOMAIN Log -> Nat] /\ \A p \in DOMAIN Log : committed[p] <= Len(Log[p])
      /\ crashes # 0
      /\ C!Partitions' = C!Partitions
      /\ \A p : Start(p)' = Start(p)
      /\ \A k, reached : Expected(k, reached)' = Expected(k, reached)
  BY <1>1, LogTyped, AfterKept DEF IInv, ConnectorsOk, C!Partitions, Start
<1>3. \A p : C!Read(p)' = ReadAt(source, p, new.startAt[p], new.position[p])
  BY <1>1, ReadsAt
<1> HIDE DEF new
<1>4. checkpoint = None /\ ~strayed' => \A p \in C!Partitions : C!Read(p)' = Start(p)
  <2>1. SUFFICES ASSUME checkpoint = None, ~strayed', NEW p \in C!Partitions
                 PROVE  C!Read(p)' = Start(p)
    OBVIOUS
  <2>2. C!Read(p)' = IF source = "kafka" THEN committed[p] ELSE Start(p)
    BY <1>2, <1>3, <2>1, NewSource DEF new
  <2>3. QED  BY <1>1, <2>1, <2>2 DEF Start
<1>5. checkpoint # None /\ ~strayed' =>
        /\ DOMAIN checkpoint.reached = C!Partitions
        /\ \A p \in C!Partitions : C!Read(p)' = checkpoint.reached[p]
  <2>1. SUFFICES ASSUME checkpoint # None, ~strayed'
                 PROVE  \A p \in C!Partitions : C!Read(p)' = checkpoint.reached[p]
    BY DEF IInv, Saved
  <2>2. CASE source = "file"
    <3>1. C!Partitions = {1}
      BY <2>2 DEF C!Partitions
    <3>2. QED  BY <1>3, <2>1, <2>2, <3>1, FileBack DEF new
  <2>3. CASE source = "kafka"
    <3>1. checkpoint.source = checkpoint.reached /\ C!Partitions = DOMAIN Log
      BY <1>1, <2>1, <2>3 DEF C!Partitions
    <3>2. QED  BY <1>3, <2>1, <2>3, <3>1, KafkaBack DEF new
  <2>4. QED  BY <1>1, <1>2, <2>1, <2>2, <2>3 DEF SourceKinds
<1>6. registers => /\ DOMAIN fresh = Keys
                   /\ \A k \in Keys : DOMAIN fresh[k] = {kind} /\ fresh[k][kind] = K!EmptyState(kind)
  BY AllCreatedIs
<1>7. ~registers => DOMAIN backends' = {}
  <2>1. ~registers => DOMAIN fresh = {}
    OBVIOUS
  <2> HIDE DEF fresh
  <2>2. QED  BY <1>1, <2>1 DEF K!Restored
<1> HIDE DEF fresh
<1>8. registers => /\ DOMAIN backends' = Keys
                   /\ \A k \in Keys : DOMAIN backends'[k] = {kind}
  <2>1. SUFFICES ASSUME registers, checkpoint # None
                 PROVE  /\ DOMAIN backends' = Keys
                        /\ \A k \in Keys : DOMAIN backends'[k] = {kind}
    BY <1>1, <1>6
  <2>2. backends' = K!Restored(fresh, checkpoint.state)
    BY <1>1, <2>1
  <2>3. QED  BY <1>6, <2>1, <2>2 DEF K!Restored, K!BackendRestored
<1>9. ShapeOf(backends)'
  BY <1>1, <1>7, <1>8 DEF ShapeOf
<1>10. Progress'
  <2>1. ~strayed' => \A p \in C!Partitions : C!Read(p)' >= Start(p)
    <3>1. \A p \in C!Partitions : Start(p) >= Start(p)
      BY <1>2, StartTyped
    <3>2. QED  BY <1>1, <1>4, <1>5, <3>1 DEF SInv, Progress
  <2>2. QED  BY <1>1, <1>2, <2>1 DEF SInv, Progress
<1>11. SavedState'
  BY <1>1, <1>2 DEF SInv, SavedState
<1>12. Matches'
  <2>1. PICK next : next = Reached'
    OBVIOUS
  <2>2. DOMAIN next = C!Partitions /\ \A q \in C!Partitions : next[q] = C!Read(q)'
    BY <1>2, <2>1 DEF Reached
  <2>3. SUFFICES ASSUME registers, ~strayed', NEW k \in Keys
                 PROVE  backends'[k][kind] = Expected(k, next)
    <3>1. \A k \in Keys : Expected(k, Reached)' = Expected(k, next)
      BY <1>2, <2>1
    <3>2. registers => \A k \in Keys : StateOf(backends, k)' = backends'[k][kind]
      BY <1>1, <1>8 DEF StateOf, K!EmptyState
    <3>3. QED  BY <1>1, <1>2, <2>3, <3>1, <3>2 DEF Matches
  <2>4. CASE checkpoint = None
    <3>1. backends'[k][kind] = K!EmptyState(kind)
      BY <1>1, <1>6, <2>3, <2>4
    <3>2. Expected(k, next) = K!EmptyState(kind)
      BY <1>2, <1>4, <2>2, <2>3, <2>4, ExpectedStart
    <3>3. QED  BY <3>1, <3>2
  <2>5. CASE checkpoint # None
    <3>1. /\ DOMAIN checkpoint.state = Keys /\ \A j \in Keys : DOMAIN checkpoint.state[j] = {kind}
          /\ checkpoint.state[k][kind] = Expected(k, checkpoint.reached)
      BY <1>1, <2>3, <2>5 DEF SInv, SavedState
    <3>2. backends' = K!Restored(fresh, checkpoint.state)
      BY <1>1, <2>5
    <3>3. backends'[k][kind] = checkpoint.state[k][kind]
      BY <1>6, <2>3, <3>1, <3>2 DEF K!Restored, K!BackendRestored
    <3>4. Expected(k, next) = Expected(k, checkpoint.reached)
      BY <1>2, <1>5, <2>2, <2>3, <2>5, ExpectedSame
    <3>5. QED  BY <3>1, <3>3, <3>4
  <2>6. QED  BY <2>4, <2>5
<1>13. QED  BY <1>9, <1>10, <1>11, <1>12 DEF SInv

LEMMA StepMatches ==
  ASSUME OneHome, IInv, SInv, [Next]_vars
  PROVE  SInv'
<1>1. ASSUME UNCHANGED <<source, startAt, position, strayed>>
      PROVE  ~strayed' => ~strayed /\ \A p \in C!Partitions : C!Read(p)' = C!Read(p)
  BY <1>1, ReadKept
<1>2. CASE GroupAssign \/ Rebalance
  <2>1. /\ C!GroupAssign /\ strayed' = (strayed \/ committed # Reached)
        /\ UNCHANGED <<backends, kind, registers, checkpoint, status, crashes>>
    BY <1>2 DEF GroupAssign, Rebalance, Reassign, stateVars
  <2>2. ~strayed' => ~strayed /\ \A p \in C!Partitions : C!Read(p)' = C!Read(p)
    BY <2>1, AssignReads DEF Reached
  <2>3. QED  BY <2>1, <2>2, AssignReads, QuietKeeps
<1>3. ASSUME NEW p \in DOMAIN Log, ProcessRecord(p) PROVE SInv'
  BY <1>3, ProcessMatches
<1>4. CASE DropKey
  BY <1>1, <1>4, QuietKeeps DEF DropKey, K!ClearCurrentKey, sourceVars, job
<1>5. CASE EndOfStream
  BY <1>1, <1>5, QuietKeeps DEF EndOfStream, sourceVars, stateVars
<1>6. CASE Checkpoint
  BY <1>6, CheckpointMatches
<1>7. CASE AutoCommit
  BY <1>1, <1>7, QuietKeeps DEF AutoCommit, C!AutoCommit, stateVars, job
<1>8. CASE Crash
  <2>1. crashes' # 0 /\ status' # "running"
    BY <1>8 DEF Crash, IInv, ConnectorsOk
  <2>2. QED  BY <1>1, <1>8, <2>1, QuietKeeps DEF Crash, stateVars
<1>9. CASE Recover
  BY <1>9, RecoverMatches
<1>10. CASE UNCHANGED vars
  BY <1>1, <1>10, QuietKeeps DEF vars, sourceVars, stateVars, job
<1>11. QED  BY <1>2, <1>3, <1>4, <1>5, <1>6, <1>7, <1>8, <1>9, <1>10 DEF Next, Running

LEMMA InitMatches ==
  ASSUME OneHome, Init
  PROVE  SInv
<1>1. /\ source \in SourceKinds /\ C!Partitions \subseteq DOMAIN Log
      /\ checkpoint = None /\ committed = Committed
      /\ committed \in [DOMAIN Log -> Nat] /\ \A p \in DOMAIN Log : committed[p] <= Len(Log[p])
      /\ startAt = C!SourceNew(source).startAt /\ position = C!SourceNew(source).position
      /\ backends = IF registers THEN AllCreated(<<>>) ELSE <<>>
  BY InitKeeps, LogTyped DEF IInv, ConnectorsOk, Init
<1>2. \A p \in C!Partitions : C!Read(p) = Start(p) /\ Start(p) \in Nat
  <2>1. \A p \in C!Partitions : C!Read(p) = IF source = "kafka" THEN committed[p] ELSE Start(p)
    BY <1>1, NewSource, ReadsAt
  <2>2. QED  BY <1>1, <2>1, StartTyped DEF Start
<1>3. /\ registers => /\ DOMAIN backends = Keys
                      /\ \A k \in Keys : DOMAIN backends[k] = {kind}
                                         /\ backends[k][kind] = K!EmptyState(kind)
      /\ ~registers => DOMAIN backends = {}
  BY <1>1, AllCreatedIs
<1>4. \A k \in Keys : StateOf(backends, k) = K!EmptyState(kind)
  BY <1>3 DEF StateOf
<1>5. \A k : Expected(k, Reached) = K!EmptyState(kind)
  <2>1. DOMAIN Reached = C!Partitions /\ \A p \in C!Partitions : Reached[p] = Start(p)
    BY <1>2 DEF Reached
  <2>2. QED  BY <1>1, <2>1, ExpectedStart
<1>6. \A p \in C!Partitions : C!Read(p) >= Start(p)
  BY <1>2
<1>7. QED  BY <1>1, <1>3, <1>4, <1>5, <1>6 DEF SInv, ShapeOf, Progress, Matches, SavedState

(* README.md, "Exactly-once state": whatever the crashes and checkpoints,  *)
(* each key's state is the effect of exactly the records read past, when   *)
(* the operator registers its states first and the source did not stray.   *)
THEOREM ExactlyOnceState ==
  ASSUME OneHome
  PROVE  Spec => []StateMatchesPosition
<1>1. Init => IInv /\ SInv
  BY InitKeeps, InitMatches
<1>2. (IInv /\ SInv) /\ [Next]_vars => (IInv /\ SInv)'
  BY StepKeeps, StepMatches
<1>3. IInv /\ SInv => StateMatchesPosition
  BY StateIs DEF SInv, Matches, StateMatchesPosition
<1>4. QED  BY <1>1, <1>2, <1>3, PTL DEF Spec
-----------------------------------------------------------------------------
(* The types. *)

(* The sink, the state and the current key hold only what is in the log. *)
Held ==
  /\ stored \cup buffer \subseteq Ids
  /\ ShapeOf(backends)
  /\ currentKey \in Keys \cup {None}
  /\ status \in {"running", "crashed", "ended"}

LEMMA HeldKept ==
  ASSUME Held, UNCHANGED <<stored, buffer, backends, kind, registers>>,
         currentKey' \in Keys \cup {None}, status' \in {"running", "crashed", "ended"}
  PROVE  Held'
<1>1. ShapeOf(backends)'
  BY DEF Held, ShapeOf
<1>2. QED  BY <1>1 DEF Held

(* A record's result is written and its key's state changed. *)
LEMMA ProcessHolds ==
  ASSUME IInv, Held, NEW p \in DOMAIN Log, ProcessRecord(p)
  PROVE  Held'
<1> DEFINE n == C!Read(p)
<1> DEFINE r == Log[p][n + 1]
<1> DEFINE b == IF K!CanCreate(r.key, kind) THEN K!Created(backends, r.key, kind) ELSE backends
<1>1. /\ C!Next(p) /\ K!SetCurrentKey(r.key) /\ C!Write(r.id)
      /\ backends' = K!Updated(b, r.key, kind, Applied(b[r.key][kind], r))
      /\ UNCHANGED <<status, kind, registers>>
  BY DEF ProcessRecord, job
<1>2. n + 1 \in 1..Len(Log[p])
  BY <1>1, ProcessReads DEF IInv
<1>3. r.key \in Keys /\ r.key # None /\ r.id \in Ids
  <2>1. Log[p] \in Seq(Range(Log[p]))
    BY RecoveryAssumption
  <2>2. n + 1 \in DOMAIN Log[p]
    BY <1>2, <2>1
  <2>3. r \in Range(Log[p])
    BY <2>2 DEF Range
  <2>4. QED  BY <2>3, RecoveryAssumption DEF Keys, Ids
<1> HIDE DEF n, r
<1>4. ShapeOf(backends')
  BY <1>1, <1>3, UpdateIs DEF Held
<1> HIDE DEF b
<1>5. ShapeOf(backends)'
  BY <1>1, <1>4 DEF ShapeOf
<1>6. stored' \cup buffer' \subseteq stored \cup buffer \cup {r.id}
  BY <1>1 DEF C!Write, C!FileWrite, C!TcpWrite, C!KafkaWrite, C!CollectWrite, C!Buffered, C!Stored
<1>7. currentKey' \in Keys \cup {None}
  BY <1>1, <1>3 DEF K!SetCurrentKey
<1>8. QED  BY <1>1, <1>3, <1>5, <1>6, <1>7 DEF Held

(* A restored backend has the states it was created with. *)
LEMMA RecoverHolds ==
  ASSUME Held, Recover
  PROVE  Held'
<1> DEFINE fresh == IF registers THEN AllCreated(<<>>) ELSE <<>>
<1>1. /\ UNCHANGED <<kind, registers>> /\ status' = "running" /\ currentKey' = None /\ C!SinkNew
      /\ \/ backends' = fresh
         \/ backends' = K!Restored(fresh, checkpoint.state)
  BY DEF Recover
<1>2. DOMAIN fresh \subseteq Keys /\ (registers => DOMAIN fresh = Keys)
  BY AllCreatedIs
<1>3. \A k \in DOMAIN fresh : DOMAIN fresh[k] = {kind}
  BY AllCreatedIs
<1> HIDE DEF fresh
<1>4. /\ DOMAIN backends' = DOMAIN fresh
      /\ \A k \in DOMAIN fresh : DOMAIN (backends'[k]) = {kind}
  <2>1. ASSUME NEW s, backends' = K!Restored(fresh, s)
        PROVE  /\ DOMAIN backends' = DOMAIN fresh
               /\ \A k \in DOMAIN fresh : DOMAIN (backends'[k]) = {kind}
    BY <1>3, <2>1 DEF K!Restored, K!BackendRestored
  <2>2. CASE backends' = fresh
    BY <1>3, <2>2
  <2>3. QED  BY <1>1, <2>1, <2>2
<1>5. ShapeOf(backends)'
  BY <1>1, <1>2, <1>4 DEF ShapeOf
<1>6. stored' \cup buffer' \subseteq stored \cup buffer
  BY <1>1 DEF C!SinkNew, C!FileSinkNew, C!CollectSinkNew, C!RemoteSinkNew
<1>7. QED  BY <1>1, <1>5, <1>6 DEF Held

LEMMA StepHolds ==
  ASSUME IInv, Held, [Next]_vars
  PROVE  Held'
<1>1. currentKey \in Keys \cup {None} /\ status \in {"running", "crashed", "ended"}
  BY DEF Held
<1>2. CASE GroupAssign \/ Rebalance
  BY <1>1, <1>2, HeldKept DEF GroupAssign, Rebalance, Reassign, sinkVars, stateVars
<1>3. ASSUME NEW p \in DOMAIN Log, ProcessRecord(p) PROVE Held'
  BY <1>3, ProcessHolds
<1>4. CASE DropKey
  BY <1>1, <1>4, HeldKept DEF DropKey, K!ClearCurrentKey, sinkVars, job
<1>5. CASE EndOfStream
  BY <1>1, <1>5, HeldKept DEF EndOfStream, sinkVars, stateVars
<1>6. CASE Checkpoint
  <2>1. /\ UNCHANGED <<backends, currentKey, kind, registers, status>>
        /\ stored' \cup buffer' \subseteq stored \cup buffer
    BY <1>6 DEF Checkpoint, stateVars, C!Flush, C!FileFlush, C!TcpFlush, C!KafkaFlush,
                C!CollectFlush, C!FlushBuffer
  <2>2. ShapeOf(backends)'
    BY <2>1 DEF Held, ShapeOf
  <2>3. QED  BY <1>1, <2>1, <2>2 DEF Held
<1>7. CASE Crash
  BY <1>1, <1>7, HeldKept DEF Crash, sinkVars, stateVars
<1>8. CASE Recover
  BY <1>8, RecoverHolds
<1>9. CASE AutoCommit
  BY <1>1, <1>9, HeldKept DEF AutoCommit, sinkVars, stateVars, job
<1>10. CASE UNCHANGED vars
  BY <1>1, <1>10, HeldKept DEF vars, sinkVars, stateVars, job
<1>11. QED  BY <1>2, <1>3, <1>4, <1>5, <1>6, <1>7, <1>8, <1>9, <1>10 DEF Next, Running

LEMMA InitHolds ==
  ASSUME Init
  PROVE  Held
<1>1. /\ stored = {} /\ buffer = {} /\ currentKey = None /\ status = "running"
      /\ backends = IF registers THEN AllCreated(<<>>) ELSE <<>>
  BY DEF Init
<1>2. ShapeOf(backends)
  BY <1>1, AllCreatedIs DEF ShapeOf
<1>3. QED  BY <1>1, <1>2 DEF Held

(* A source stands where something can be read from, at the end of a line  *)
(* or at an offset of the topic, after any restore; no key and no result   *)
(* is made up.                                                             *)
THEOREM TypeCorrect == Spec => []TypeOK
<1>1. Init => IInv /\ Held
  BY InitKeeps, InitHolds
<1>2. (IInv /\ Held) /\ [Next]_vars => (IInv /\ Held)'
  BY StepKeeps, StepHolds
<1>3. IInv /\ Held => TypeOK
  <2>1. SUFFICES ASSUME IInv, Held PROVE TypeOK
    OBVIOUS
  <2>2. ASSUME NEW p \in C!Partitions
        PROVE  LET end == IF source = "file" THEN C!BytesOf(Len(Log[p])) ELSE Len(Log[p])
               IN /\ position[p] \in (0..end) \cup {None}
                  /\ {startAt[p], committed[p]} \subseteq 0..Len(Log[p])
    <3>1. p \in DOMAIN Log /\ Len(Log[p]) \in Nat
      BY LogTyped
    <3>2. startAt[p] \in 0..Len(Log[p]) /\ committed[p] \in 0..Len(Log[p])
      BY <2>1, <3>1 DEF IInv, ConnectorsOk
    <3>3. CASE source = "file"
      <4>1. p = 1
        BY <3>3 DEF C!Partitions
      <4>2. PICK n \in 0..Len(Log[1]) : position[1] = C!BytesOf(n)
        BY <2>1, <3>3 DEF IInv, ConnectorsOk
      <4>3. /\ n \in 0..Len(LineBytes) /\ Len(Log[1]) \in 0..Len(LineBytes)
            /\ n = Len(Log[1]) \/ n < Len(Log[1])
        BY <3>1, <4>1, <4>2, RecoveryAssumption
      <4>4. C!BytesOf(n) \in Nat /\ C!BytesOf(Len(Log[1])) \in Nat
        BY <4>3, BytesGrow
      <4>5. n < Len(Log[1]) => C!BytesOf(n) < C!BytesOf(Len(Log[1]))
        BY <4>3, BytesGrow
      <4>6. position[1] \in 0..C!BytesOf(Len(Log[1]))
        BY <4>2, <4>3, <4>4, <4>5
      <4>7. QED  BY <3>2, <3>3, <4>1, <4>6
    <3>4. CASE source \in {"tcp", "memory"}
      BY <2>1, <3>2, <3>4 DEF IInv, ConnectorsOk, C!Partitions
    <3>5. CASE source = "kafka"
      BY <2>1, <3>1, <3>2, <3>5 DEF IInv, ConnectorsOk
    <3>6. QED  BY <2>1, <3>3, <3>4, <3>5 DEF IInv, ConnectorsOk, SourceKinds
  <2>3. assignment \subseteq DOMAIN Log
    BY <2>1, LogTyped DEF IInv, ConnectorsOk
  <2>4. DOMAIN backends \subseteq Keys
    BY <2>1 DEF Held, ShapeOf
  <2>5. QED  BY <2>1, <2>2, <2>3, <2>4 DEF TypeOK, Held
<1>4. QED  BY <1>1, <1>2, <1>3, PTL DEF Spec
=============================================================================
