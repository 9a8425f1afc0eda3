----------------------------- MODULE TaskProofs -----------------------------
(***************************************************************************)
(* Proofs about the tasks of a job.  Of Pipeline and JobServer, for any    *)
(* number of operators, fan-outs and capacity of the channels: what the    *)
(* sink sees is a prefix of what the operators make of the source's        *)
(* elements, and a job that is reported completed delivered all of it.  Of *)
(* EventTime, for any input: the watermark tracker, the timers, the        *)
(* interval join and the windows do what their definitions over the whole  *)
(* input say.                                                              *)
(***************************************************************************)
EXTENDS JobServer, EventTime, FilterLemmas

(* taken[k] is what task k has received so far, the sink being the last,   *)
(* and passed[k] what was ever sent into channel k.  Neither is a variable *)
(* of the model: an invariant says that such sequences exist.              *)

(* The source drainer offers one element and has passed on the others. *)
SourceFlow(made, offer, to) == made = to \o offer

(* A task has got a prefix of what comes from the task before it, and has  *)
(* passed on a prefix of what it makes of that; until it fails, what is     *)
(* missing is in its channel and in its outputs.                            *)
StageFlow(F, from, got, to, state, queue, outputs) ==
  /\ Begins(got, from)
  /\ Begins(to, Flat(got, F))
  /\ state # "err" => from = got \o queue /\ Flat(got, F) = to \o outputs

(* The sink has written the records it got. *)
SinkFlow(from, got, state, queue, written) ==
  /\ Begins(got, from)
  /\ state # "err" => from = got \o queue
  /\ written = Flat(got, Records)

Histories(taken, passed) ==
  /\ taken \in [1..(NumOps + 1) -> Seq(Elems)]
  /\ passed \in [0..NumOps -> Seq(Elems)]

Flow(taken, passed) ==
  /\ Histories(taken, passed)
  /\ SourceFlow(produced, offered, passed[0])
  /\ \A k \in Ops : StageFlow(Mapping(k), passed[k - 1], taken[k], passed[k],
                             task[k], chan[k - 1], emit[k])
  /\ SinkFlow(passed[NumOps], taken[NumOps + 1], sink, chan[NumOps], delivered)

(* What has ended leaves nothing behind. *)
Ended ==
  /\ source = "ok" => offered = <<>>
  /\ \A k \in Ops : task[k] = "ok" => emit[k] = <<>> /\ Closed(k - 1)
  /\ sink \in {"waiting", "ok"} => Closed(NumOps)
  /\ sink = "ok" => source = "ok" /\ \A k \in Ops : task[k] = "ok"

(* The inductive invariant of the pipeline. *)
IInv == TypeOK /\ Ended /\ \E taken, passed : Flow(taken, passed)

-----------------------------------------------------------------------------
LEMMA FlowNext ==
  ASSUME NEW taken, NEW passed, Histories(taken, passed),
         SourceFlow(produced', offered', passed[0]),
         \A k \in Ops : StageFlow(Mapping(k), passed[k - 1], taken[k], passed[k],
                                 task'[k], chan'[k - 1], emit'[k]),
         SinkFlow(passed[NumOps], taken[NumOps + 1], sink', chan'[NumOps], delivered')
  PROVE  Flow(taken, passed)'
BY DEF Flow, Histories

(* Sequences: what moves from the front of one to the end of another. *)
LEMMA MoveHead ==
  ASSUME NEW T, NEW s \in Seq(T), NEW t \in Seq(T), t # <<>>
  PROVE  /\ Head(t) \in T /\ Tail(t) \in Seq(T) /\ Append(s, Head(t)) \in Seq(T)
         /\ s \o t = Append(s, Head(t)) \o Tail(t)
OBVIOUS

LEMMA JoinEmpty ==
  ASSUME NEW T, NEW s \in Seq(T)
  PROVE  s \o <<>> = s
OBVIOUS

LEMMA BeginsAppend ==
  ASSUME NEW T, NEW s \in Seq(T), NEW t \in Seq(T), NEW e \in T, Begins(s, t)
  PROVE  Begins(s, Append(t, e)) /\ Begins(s, t \o <<e>>)
BY DEF Begins

LEMMA BeginsTrans ==
  ASSUME NEW T, NEW s \in Seq(T), NEW t \in Seq(T), NEW u \in Seq(T), Begins(s, t), Begins(t, u)
  PROVE  Begins(s, u)
BY DEF Begins

LEMMA BeginsIsPrefix ==
  ASSUME NEW T, NEW s \in Seq(T), NEW t \in Seq(T), Begins(s, t)
  PROVE  IsPrefix(s, t)
BY DEF Begins, IsPrefix

LEMMA MappingTyped ==
  ASSUME NEW k \in Ops
  PROVE  Mapping(k) \in [Elems -> Seq(Elems)]
<1>1. FanOut[k] \in Nat
  BY PipelineAssumption DEF Ops
<1>2. ASSUME NEW e \in Elems PROVE Outputs(k, e) \in Seq(Elems)
  <2>1. CASE e.mark
    BY <2>1 DEF Outputs
  <2>2. CASE ~e.mark
    <3>1. ASSUME NEW j \in 1..FanOut[k] PROVE [e EXCEPT !.id = Append(@, j)] \in Elems
      BY <1>1, <3>1 DEF Elems
    <3> DEFINE output(j) == [e EXCEPT !.id = Append(@, j)]
    <3>2. \A j \in 1..FanOut[k] : output(j) \in Elems
      BY <3>1
    <3> HIDE DEF output
    <3>3. [j \in 1..FanOut[k] |-> output(j)] \in Seq(Elems)
      BY <1>1, <3>2
    <3>4. QED  BY <2>2, <3>3 DEF Outputs, output
  <2>3. QED  BY <2>1, <2>2
<1>3. QED  BY <1>2 DEF Mapping

LEMMA RecordsTyped == Records \in [Elems -> Seq(Seq(Nat))]
BY DEF Records, Elems

-----------------------------------------------------------------------------
(* A channel lies between the task before it and the task after it. *)
LEMMA Places ==
  /\ NumOps \in Nat \ {0} /\ NumOps \in Ops /\ 0 \in 0..NumOps /\ NumOps \in 0..NumOps
  /\ NumOps + 1 \in 1..(NumOps + 1) /\ NumOps + 1 \notin Ops
  /\ \A k \in Ops : /\ k \in 0..NumOps /\ k - 1 \in 0..NumOps /\ k \in 1..(NumOps + 1)
                    /\ k # 0 /\ k - 1 # k /\ k - 1 # NumOps
                    /\ k # NumOps => k + 1 \in Ops /\ (k + 1) - 1 = k
                    /\ k = NumOps \/ k + 1 \in Ops
                    /\ \A j \in Ops : j - 1 = k - 1 => j = k
BY PipelineAssumption DEF Ops

-----------------------------------------------------------------------------
(* What one step does to a stage, whatever its place in the pipeline. *)

LEMMA StageReceives ==
  ASSUME NEW F, NEW from \in Seq(Elems), NEW got \in Seq(Elems), NEW to, NEW state,
         NEW queue \in Seq(Elems), NEW outputs, NEW e \in Elems, state # "err",
         StageFlow(F, from, got, to, state, queue, outputs)
  PROVE  StageFlow(F, Append(from, e), got, to, state, Append(queue, e), outputs)
<1>1. Begins(got, Append(from, e))
  BY BeginsAppend DEF StageFlow
<1>2. Append(from, e) = got \o Append(queue, e)
  <2>1. from = got \o queue
    BY DEF StageFlow
  <2>2. Append(got \o queue, e) = got \o Append(queue, e)
    OBVIOUS
  <2>3. QED  BY <2>1, <2>2, Zenon
<1>3. QED  BY <1>1, <1>2 DEF StageFlow

LEMMA StageTakes ==
  ASSUME NEW F \in [Elems -> Seq(Elems)], NEW from \in Seq(Elems), NEW got \in Seq(Elems),
         NEW to \in Seq(Elems), NEW state, NEW queue \in Seq(Elems), state # "err", queue # <<>>,
         NEW none, none = <<>>, StageFlow(F, from, got, to, state, queue, none)
  PROVE  StageFlow(F, from, Append(got, Head(queue)), to, state, Tail(queue), F[Head(queue)])
<1>1. PICK e, rest : e = Head(queue) /\ rest = Tail(queue)
  OBVIOUS
<1>2. e \in Elems /\ rest \in Seq(Elems) /\ Append(got, e) \in Seq(Elems)
      /\ got \o queue = Append(got, e) \o rest
  BY <1>1, MoveHead
<1>3. from = Append(got, e) \o rest
  BY <1>2 DEF StageFlow
<1>4. Begins(Append(got, e), from)
  BY <1>2, <1>3, BeginsConcat
<1>5. Flat(got, F) = to
  BY JoinEmpty DEF StageFlow
<1>6. Flat(Append(got, e), F) = to \o F[e]
  BY <1>2, <1>5, FlatAppend
<1>7. Begins(to, Flat(Append(got, e), F))
  <2>1. F[e] \in Seq(Elems)
    BY <1>2
  <2>2. QED  BY <1>6, <2>1, BeginsConcat
<1>8. QED  BY <1>1, <1>3, <1>4, <1>6, <1>7 DEF StageFlow

LEMMA StageCollects ==
  ASSUME NEW F, NEW from, NEW got, NEW to \in Seq(Elems), NEW state, NEW queue,
         NEW outputs \in Seq(Elems), state # "err", outputs # <<>>,
         StageFlow(F, from, got, to, state, queue, outputs)
  PROVE  StageFlow(F, from, got, Append(to, Head(outputs)), state, queue, Tail(outputs))
<1>1. /\ Tail(outputs) \in Seq(Elems) /\ Append(to, Head(outputs)) \in Seq(Elems)
      /\ to \o outputs = Append(to, Head(outputs)) \o Tail(outputs)
  BY MoveHead
<1>2. Flat(got, F) = Append(to, Head(outputs)) \o Tail(outputs)
  BY <1>1 DEF StageFlow
<1>3. Begins(Append(to, Head(outputs)), Flat(got, F))
  BY <1>1, <1>2, BeginsConcat
<1>4. QED  BY <1>2, <1>3 DEF StageFlow

LEMMA SinkReceives ==
  ASSUME NEW from \in Seq(Elems), NEW got \in Seq(Elems), NEW state, NEW queue \in Seq(Elems),
         NEW written, NEW e \in Elems, state # "err", SinkFlow(from, got, state, queue, written)
  PROVE  SinkFlow(Append(from, e), got, state, Append(queue, e), written)
<1>1. Begins(got, Append(from, e))
  BY BeginsAppend DEF SinkFlow
<1>2. Append(from, e) = got \o Append(queue, e)
  <2>1. from = got \o queue
    BY DEF SinkFlow
  <2>2. Append(got \o queue, e) = got \o Append(queue, e)
    OBVIOUS
  <2>3. QED  BY <2>1, <2>2, Zenon
<1>3. QED  BY <1>1, <1>2 DEF SinkFlow

LEMMA SinkTakes ==
  ASSUME NEW from \in Seq(Elems), NEW got \in Seq(Elems), NEW state, NEW queue \in Seq(Elems),
         NEW written, state # "err", queue # <<>>, SinkFlow(from, got, state, queue, written)
  PROVE  SinkFlow(from, Append(got, Head(queue)), state, Tail(queue),
                  written \o Records[Head(queue)])
<1>1. PICK e, rest : e = Head(queue) /\ rest = Tail(queue)
  OBVIOUS
<1>2. e \in Elems /\ rest \in Seq(Elems) /\ Append(got, e) \in Seq(Elems)
      /\ got \o queue = Append(got, e) \o rest
  BY <1>1, MoveHead
<1>3. from = Append(got, e) \o rest
  BY <1>2 DEF SinkFlow
<1>4. Begins(Append(got, e), from)
  BY <1>2, <1>3, BeginsConcat
<1>5. Flat(Append(got, e), Records) = Flat(got, Records) \o Records[e]
  BY <1>2, FlatAppend
<1>6. QED  BY <1>1, <1>3, <1>4, <1>5 DEF SinkFlow

-----------------------------------------------------------------------------
LEMMA FlowTyped ==
  ASSUME NEW taken, NEW passed, Flow(taken, passed), TypeOK
  PROVE  /\ \A k \in 1..(NumOps + 1) : taken[k] \in Seq(Elems)
         /\ \A k \in 0..NumOps : passed[k] \in Seq(Elems) /\ chan[k] \in Seq(Elems)
         /\ \A k \in Ops : emit[k] \in Seq(Elems)
         /\ offered \in Seq(Elems) /\ produced \in Seq(Elems)
BY DEF Flow, Histories, TypeOK

(* What the tasks that do not send it, and the sink, make of an element    *)
(* passed on to channel c.                                                  *)
Onward(taken, p, q, c, e) ==
  /\ Histories(taken, q)
  /\ q[c] = Append(p[c], e) /\ \A k \in 0..NumOps : k # c => q[k] = p[k]
  /\ \A k \in Ops : k # c => StageFlow(Mapping(k), q[k - 1], taken[k], q[k],
                                     task'[k], chan'[k - 1], emit[k])
  /\ SinkFlow(q[NumOps], taken[NumOps + 1], sink', chan'[NumOps], delivered)

LEMMA PassOn ==
  ASSUME TypeOK, NEW taken, NEW p, Flow(taken, p), NEW c \in 0..NumOps, NEW e \in Elems,
         ReceiverAlive(c), chan' = [chan EXCEPT ![c] = Append(@, e)], task' = task, sink' = sink
  PROVE  \E q : Onward(taken, p, q, c, e)
<1> DEFINE q == [p EXCEPT ![c] = Append(@, e)]
<1>1. /\ p \in [0..NumOps -> Seq(Elems)] /\ chan \in [0..NumOps -> Seq(Elems)]
      /\ task \in [Ops -> States]
  BY DEF Flow, Histories, TypeOK
<1>2. Append(p[c], e) \in Seq(Elems)
  BY <1>1
<1>3. /\ Histories(taken, q)
      /\ q[c] = Append(p[c], e) /\ \A k \in 0..NumOps : k # c => q[k] = p[k]
  BY <1>1, <1>2 DEF Flow, Histories
<1>4. /\ chan'[c] = Append(chan[c], e) /\ \A k \in 0..NumOps : k # c => chan'[k] = chan[k]
  BY <1>1
<1> HIDE DEF q
<1>5. ASSUME NEW k \in Ops, k # c
      PROVE  StageFlow(Mapping(k), q[k - 1], taken[k], q[k], task'[k], chan'[k - 1], emit[k])
  <2>1. StageFlow(Mapping(k), p[k - 1], taken[k], p[k], task[k], chan[k - 1], emit[k])
    BY DEF Flow
  <2>2. q[k] = p[k] /\ task' = task
    BY <1>3, <1>5, Places
  <2>3. CASE k - 1 = c
    <3>1. task[k] # "err"
      <4>1. c # NumOps /\ c + 1 = k
        BY <2>3, Places DEF Ops
      <4>2. QED  BY <4>1 DEF ReceiverAlive
    <3>2. /\ p[k - 1] \in Seq(Elems) /\ chan[k - 1] \in Seq(Elems)
          /\ taken[k] \in Seq(Elems)
      BY FlowTyped, Places
    <3>3. StageFlow(Mapping(k), Append(p[k - 1], e), taken[k], p[k],
                    task[k], Append(chan[k - 1], e), emit[k])
      BY <2>1, <3>1, <3>2, StageReceives
    <3>4. QED  BY <1>3, <1>4, <2>2, <2>3, <3>3
  <2>4. CASE k - 1 # c
    <3>1. q[k - 1] = p[k - 1] /\ chan'[k - 1] = chan[k - 1]
      BY <1>3, <1>4, <2>4, Places
    <3>2. QED  BY <2>1, <2>2, <3>1
  <2>5. QED  BY <2>3, <2>4
<1>6. SinkFlow(q[NumOps], taken[NumOps + 1], sink', chan'[NumOps], delivered)
  <2>1. SinkFlow(p[NumOps], taken[NumOps + 1], sink, chan[NumOps], delivered)
    BY DEF Flow
  <2>2. CASE c = NumOps
    <3>1. sink # "err"
      BY <2>2 DEF ReceiverAlive
    <3>2. /\ p[NumOps] \in Seq(Elems) /\ chan[NumOps] \in Seq(Elems)
          /\ taken[NumOps + 1] \in Seq(Elems)
      BY FlowTyped, Places
    <3>3. SinkFlow(Append(p[NumOps], e), taken[NumOps + 1], sink,
                   Append(chan[NumOps], e), delivered)
      BY <2>1, <3>1, <3>2, SinkReceives
    <3>4. QED  BY <1>3, <1>4, <2>2, <3>3
  <2>3. CASE c # NumOps
    <3>1. q[NumOps] = p[NumOps] /\ chan'[NumOps] = chan[NumOps]
      BY <1>3, <1>4, <2>3, Places
    <3>2. QED  BY <2>1, <3>1
  <2>4. QED  BY <2>2, <2>3
<1>7. QED  BY <1>3, <1>5, <1>6 DEF Onward

-----------------------------------------------------------------------------
(* The steps that move elements. *)

LEMMA SourceNextKeeps ==
  ASSUME IInv, NEW mark \in BOOLEAN, SourceNext(mark)
  PROVE  IInv'
<1>1. PICK e : e = Element(Len(produced) + 1, mark)
  OBVIOUS
<1>2. /\ offered = <<>> /\ produced' = Append(produced, e) /\ offered' = <<e>>
      /\ source = "running"
      /\ UNCHANGED <<source, chan, task, emit, draining, cancelled, sink, delivered>>
  BY <1>1 DEF SourceNext, sinkVars
<1>3. e \in Elems
  <2>1. Len(produced) \in Nat
    BY DEF IInv, TypeOK
  <2>2. QED  BY <1>1, <2>1 DEF Element, Elems
<1>4. TypeOK'
  BY <1>2, <1>3 DEF IInv, TypeOK, Elems
<1>5. Ended'
  BY <1>2 DEF IInv, Ended, Closed, SenderAlive
<1>6. PICK taken, passed : Flow(taken, passed)
  BY DEF IInv
<1>7. SourceFlow(produced', offered', passed[0])
  <2>1. passed[0] \in Seq(Elems)
    BY <1>6, FlowTyped, Places DEF IInv
  <2>2. produced = passed[0]
    BY <1>2, <1>6, <2>1, JoinEmpty DEF Flow, SourceFlow
  <2>3. QED  BY <1>2, <1>3, <2>1, <2>2 DEF SourceFlow
<1>8. Flow(taken, passed)'
  BY <1>2, <1>6, <1>7, FlowNext DEF Flow
<1>9. QED  BY <1>4, <1>5, <1>8 DEF IInv

LEMMA SourceSendKeeps ==
  ASSUME IInv, SourceSend
  PROVE  IInv'
<1>1. PICK e : offered = <<e>> /\ e \in Elems
  <2>1. offered \in Seq(Elems) /\ Len(offered) = 1
    <3>1. offered \in Seq(Elems) /\ Len(offered) <= 1 /\ offered # <<>>
      BY DEF IInv, TypeOK, SourceSend
    <3>2. Len(offered) \in Nat /\ Len(offered) # 0
      BY <3>1
    <3>3. QED  BY <3>1, <3>2
  <2>2. offered[1] \in Elems
    BY <2>1
  <2>3. offered = <<offered[1]>>
    BY <2>1
  <2>4. QED  BY <2>2, <2>3
<1>2. /\ chan \in [0..NumOps -> Seq(Elems)] /\ task \in [Ops -> States] /\ TypeOK
      /\ \A k \in 0..NumOps : Len(chan[k]) <= Capacity
  BY DEF IInv, TypeOK
<1>3. /\ offered' = <<>> /\ Len(chan[0]) < Capacity
      /\ source = "running" /\ ReceiverAlive(0)
      /\ UNCHANGED <<source, produced, task, emit, draining, cancelled, sink, delivered>>
  BY DEF SourceSend, HasRoom, sinkVars
<1>4. chan' = [chan EXCEPT ![0] = Append(@, e)]
  <2>1. chan[0] \o offered = Append(chan[0], e)
    BY <1>1, <1>2, Places
  <2>2. chan' = [chan EXCEPT ![0] = @ \o offered]
    BY DEF SourceSend
  <2>3. QED  BY <1>2, <2>1, <2>2, Places, Zenon
<1>5. /\ chan'[0] = Append(chan[0], e) /\ \A k \in 0..NumOps : k # 0 => chan'[k] = chan[k]
      /\ chan[0] \in Seq(Elems) /\ 1 \in Ops /\ NumOps # 0
  BY <1>2, <1>4, Places DEF Ops
<1>6. task[1] = "running"
  BY <1>3, <1>5 DEF ReceiverAlive
<1>7. TypeOK'
  <2>1. Len(chan'[0]) <= Capacity /\ chan' \in [0..NumOps -> Seq(Elems)]
    BY <1>1, <1>2, <1>3, <1>4, <1>5, PipelineAssumption
  <2>2. \A k \in 0..NumOps : Len(chan'[k]) <= Capacity
    BY <1>2, <1>5, <2>1
  <2>3. QED  BY <1>2, <1>3, <2>1, <2>2 DEF IInv, TypeOK
<1>8. Ended'
  <2>1. \A k \in Ops : task[k] = "ok" => chan'[k - 1] = chan[k - 1]
    BY <1>5, <1>6, Places DEF Ops
  <2>2. chan'[NumOps] = chan[NumOps]
    BY <1>5, Places
  <2>3. QED  BY <1>3, <2>1, <2>2 DEF IInv, Ended, Closed, SenderAlive
<1>9. PICK taken, p : Flow(taken, p)
  BY DEF IInv
<1>10. PICK q : Onward(taken, p, q, 0, e)
  <2>1. task' = task /\ sink' = sink
    BY <1>3
  <2>2. QED  BY <1>1, <1>2, <1>3, <1>4, <1>9, <2>1, Places, PassOn, Zenon
<1>11. SourceFlow(produced', offered', q[0])
  <2>1. p[0] \in Seq(Elems)
    BY <1>2, <1>9, FlowTyped, Places
  <2>2. produced = p[0] \o <<e>>
    BY <1>1, <1>9 DEF Flow, SourceFlow
  <2>3. produced = Append(p[0], e) \o <<>>
    BY <1>1, <2>1, <2>2
  <2>4. QED  BY <1>3, <1>10, <2>3 DEF SourceFlow, Onward
<1>12. ASSUME NEW k \in Ops
       PROVE  StageFlow(Mapping(k), q[k - 1], taken[k], q[k], task'[k], chan'[k - 1], emit'[k])
  BY <1>3, <1>10, Places DEF Onward
<1>13. SinkFlow(q[NumOps], taken[NumOps + 1], sink', chan'[NumOps], delivered')
  BY <1>3, <1>10 DEF Onward
<1>14. Flow(taken, q)'
  BY <1>10, <1>11, <1>12, <1>13, FlowNext DEF Onward
<1>15. QED  BY <1>7, <1>8, <1>14 DEF IInv

LEMMA TaskCollectKeeps ==
  ASSUME IInv, NEW j \in Ops, TaskCollect(j)
  PROVE  IInv'
<1>1. /\ chan \in [0..NumOps -> Seq(Elems)] /\ task \in [Ops -> States]
      /\ emit \in [Ops -> Seq(Elems)] /\ TypeOK
      /\ \A k \in 0..NumOps : Len(chan[k]) <= Capacity
  BY DEF IInv, TypeOK
<1>2. PICK e, rest : e = Head(emit[j]) /\ rest = Tail(emit[j])
  OBVIOUS
<1>3. /\ task[j] = "running" /\ emit[j] # <<>> /\ ReceiverAlive(j) /\ Len(chan[j]) < Capacity
      /\ chan' = [chan EXCEPT ![j] = Append(@, e)] /\ emit' = [emit EXCEPT ![j] = rest]
      /\ UNCHANGED <<source, produced, offered, task, draining, cancelled, sink, delivered>>
  BY <1>1, <1>2 DEF TaskCollect, HasRoom, sourceVars, sinkVars
<1>4. e \in Elems /\ rest \in Seq(Elems) /\ emit[j] \in Seq(Elems)
  BY <1>1, <1>2, <1>3
<1>5. /\ chan'[j] = Append(chan[j], e) /\ \A k \in 0..NumOps : k # j => chan'[k] = chan[k]
      /\ emit'[j] = rest /\ \A k \in Ops : k # j => emit'[k] = emit[k]
      /\ chan[j] \in Seq(Elems) /\ j \in 0..NumOps
  BY <1>1, <1>3, Places
<1>6. TypeOK'
  <2>1. Len(chan'[j]) <= Capacity /\ chan' \in [0..NumOps -> Seq(Elems)]
    BY <1>1, <1>3, <1>4, <1>5, PipelineAssumption
  <2>2. \A k \in 0..NumOps : Len(chan'[k]) <= Capacity
    BY <1>1, <1>5, <2>1
  <2>3. emit' \in [Ops -> Seq(Elems)]
    BY <1>1, <1>3, <1>4
  <2>4. QED  BY <1>1, <1>3, <2>1, <2>2, <2>3 DEF IInv, TypeOK
<1>7. Ended'
  <2>1. \A k \in Ops : task[k] = "ok" => chan'[k - 1] = chan[k - 1] /\ emit'[k] = emit[k]
    <3>1. SUFFICES ASSUME NEW k \in Ops, task[k] = "ok"
                   PROVE  k - 1 # j /\ k # j
      BY <1>5, Places
    <3>2. k # j
      BY <1>3, <3>1
    <3>3. ASSUME k - 1 = j PROVE FALSE
      <4>1. j # NumOps /\ j + 1 = k
        BY <3>3, Places DEF Ops
      <4>2. QED  BY <1>3, <3>1, <4>1 DEF ReceiverAlive
    <3>4. QED  BY <3>2, <3>3
  <2>2. sink \in {"waiting", "ok"} => chan'[NumOps] = chan[NumOps]
    BY <1>3, <1>5, Places DEF ReceiverAlive
  <2>3. QED  BY <1>3, <2>1, <2>2 DEF IInv, Ended, Closed, SenderAlive
<1>8. PICK taken, p : Flow(taken, p)
  BY DEF IInv
<1>9. PICK q : Onward(taken, p, q, j, e)
  <2>1. task' = task /\ sink' = sink
    BY <1>3
  <2>2. QED  BY <1>1, <1>3, <1>4, <1>5, <1>8, <2>1, PassOn, Zenon
<1>10. SourceFlow(produced', offered', q[0])
  BY <1>3, <1>8, <1>9, Places DEF Flow, Onward
<1>11. ASSUME NEW k \in Ops
       PROVE  StageFlow(Mapping(k), q[k - 1], taken[k], q[k], task'[k], chan'[k - 1], emit'[k])
  <2>1. CASE k = j
    <3>1. StageFlow(Mapping(j), p[j - 1], taken[j], p[j], task[j], chan[j - 1], emit[j])
      BY <1>8 DEF Flow
    <3>2. p[j] \in Seq(Elems)
      BY <1>1, <1>5, <1>8, FlowTyped
    <3>3. StageFlow(Mapping(j), p[j - 1], taken[j], q[j], task[j], chan[j - 1], rest)
      <4>1. task[j] # "err"
        BY <1>3
      <4>2. QED  BY <1>2, <1>3, <1>4, <1>9, <3>1, <3>2, <4>1, StageCollects DEF Onward
    <3>4. q[j - 1] = p[j - 1] /\ chan'[j - 1] = chan[j - 1] /\ task'[j] = task[j]
      BY <1>3, <1>5, <1>9, Places DEF Onward
    <3>5. QED  BY <1>5, <2>1, <3>3, <3>4
  <2>2. CASE k # j
    BY <1>5, <1>9, <2>2 DEF Onward
  <2>3. QED  BY <2>1, <2>2
<1>12. SinkFlow(q[NumOps], taken[NumOps + 1], sink', chan'[NumOps], delivered')
  BY <1>3, <1>9 DEF Onward
<1>13. Flow(taken, q)'
  BY <1>9, <1>10, <1>11, <1>12, FlowNext DEF Onward
<1>14. QED  BY <1>6, <1>7, <1>13 DEF IInv

LEMMA TaskRecvKeeps ==
  ASSUME IInv, NEW j \in Ops, TaskRecv(j)
  PROVE  IInv'
<1>1. /\ chan \in [0..NumOps -> Seq(Elems)] /\ task \in [Ops -> States]
      /\ emit \in [Ops -> Seq(Elems)] /\ TypeOK
      /\ \A k \in 0..NumOps : Len(chan[k]) <= Capacity
  BY DEF IInv, TypeOK
<1>2. PICK e, rest : e = Head(chan[j - 1]) /\ rest = Tail(chan[j - 1])
  OBVIOUS
<1>3. /\ task[j] = "running" /\ emit[j] = <<>> /\ chan[j - 1] # <<>>
      /\ chan' = [chan EXCEPT ![j - 1] = rest] /\ emit' = [emit EXCEPT ![j] = Outputs(j, e)]
      /\ UNCHANGED <<source, produced, offered, task, draining, cancelled, sink, delivered>>
  BY <1>1, <1>2, Places DEF TaskRecv, sourceVars, sinkVars
<1>4. /\ chan[j - 1] \in Seq(Elems) /\ j - 1 \in 0..NumOps
      /\ e \in Elems /\ rest \in Seq(Elems) /\ Len(rest) <= Len(chan[j - 1])
  <2>1. chan[j - 1] \in Seq(Elems) /\ j - 1 \in 0..NumOps
    BY <1>1, Places
  <2>2. QED  BY <1>2, <1>3, <2>1
<1>5. Mapping(j)[e] = Outputs(j, e) /\ Mapping(j)[e] \in Seq(Elems)
  <2>1. Mapping(j)[e] \in Seq(Elems)
    BY <1>4, MappingTyped
  <2>2. Mapping(j)[e] = Outputs(j, e)
    BY <1>4 DEF Mapping
  <2>3. QED  BY <2>1, <2>2
<1>6. /\ chan'[j - 1] = rest /\ \A k \in 0..NumOps : k # j - 1 => chan'[k] = chan[k]
      /\ emit'[j] = Mapping(j)[e] /\ \A k \in Ops : k # j => emit'[k] = emit[k]
  BY <1>1, <1>3, <1>4, <1>5
<1>7. TypeOK'
  <2>1. chan' \in [0..NumOps -> Seq(Elems)]
    BY <1>1, <1>3, <1>4
  <2>2. \A k \in 0..NumOps : Len(chan'[k]) <= Capacity
    <3>1. Len(rest) <= Capacity
      <4>1. Len(rest) \in Nat /\ Len(chan[j - 1]) \in Nat /\ Capacity \in Nat
        BY <1>4, PipelineAssumption
      <4>2. QED  BY <1>1, <1>4, <4>1
    <3>2. QED  BY <1>1, <1>6, <3>1
  <2>3. emit' \in [Ops -> Seq(Elems)]
    <3>1. Outputs(j, e) \in Seq(Elems)
      BY <1>5
    <3>2. QED  BY <1>1, <1>3, <3>1
  <2>4. QED  BY <1>1, <1>3, <2>1, <2>2, <2>3 DEF IInv, TypeOK
<1>8. Ended'
  <2>1. \A k \in Ops : task[k] = "ok" => chan'[k - 1] = chan[k - 1] /\ emit'[k] = emit[k]
    BY <1>3, <1>6, Places
  <2>2. chan'[NumOps] = chan[NumOps]
    BY <1>6, Places
  <2>3. QED  BY <1>3, <2>1, <2>2 DEF IInv, Ended, Closed, SenderAlive
<1>9. PICK taken, p : Flow(taken, p)
  BY DEF IInv
<1>10. /\ taken \in [1..(NumOps + 1) -> Seq(Elems)] /\ j \in 1..(NumOps + 1)
       /\ taken[j] \in Seq(Elems) /\ p[j] \in Seq(Elems) /\ p[j - 1] \in Seq(Elems)
  BY <1>1, <1>9, FlowTyped, Places DEF Flow, Histories
<1> DEFINE t == [taken EXCEPT ![j] = Append(@, e)]
<1>11. Append(taken[j], e) \in Seq(Elems)
  BY <1>4, <1>10
<1>12. /\ t[j] = Append(taken[j], e) /\ \A k \in 1..(NumOps + 1) : k # j => t[k] = taken[k]
       /\ Histories(t, p)
  BY <1>9, <1>10, <1>11 DEF Flow, Histories
<1> HIDE DEF t
<1>13. SourceFlow(produced', offered', p[0])
  BY <1>3, <1>9 DEF Flow
<1>14. ASSUME NEW k \in Ops
       PROVE  StageFlow(Mapping(k), p[k - 1], t[k], p[k], task'[k], chan'[k - 1], emit'[k])
  <2>1. StageFlow(Mapping(k), p[k - 1], taken[k], p[k], task[k], chan[k - 1], emit[k])
    BY <1>9 DEF Flow
  <2>2. CASE k = j
    <3>1. task[j] # "err" /\ Mapping(j) \in [Elems -> Seq(Elems)]
      BY <1>3, MappingTyped
    <3>2. StageFlow(Mapping(j), p[j - 1], Append(taken[j], e), p[j], task[j], rest, Mapping(j)[e])
      BY <1>2, <1>3, <1>4, <1>10, <2>1, <2>2, <3>1, StageTakes
    <3>3. QED  BY <1>3, <1>6, <1>12, <2>2, <3>2
  <2>3. CASE k # j
    <3>1. t[k] = taken[k] /\ chan'[k - 1] = chan[k - 1] /\ emit'[k] = emit[k] /\ task' = task
      BY <1>3, <1>6, <1>12, <2>3, Places
    <3>2. QED  BY <2>1, <3>1
  <2>4. QED  BY <2>2, <2>3
<1>15. SinkFlow(p[NumOps], t[NumOps + 1], sink', chan'[NumOps], delivered')
  <2>1. t[NumOps + 1] = taken[NumOps + 1] /\ chan'[NumOps] = chan[NumOps]
    BY <1>6, <1>12, Places
  <2>2. QED  BY <1>3, <1>9, <2>1 DEF Flow
<1>16. Flow(t, p)'
  BY <1>12, <1>13, <1>14, <1>15, FlowNext
<1>17. QED  BY <1>7, <1>8, <1>16 DEF IInv

LEMMA SinkWriteKeeps ==
  ASSUME IInv, SinkWrite
  PROVE  IInv'
<1>1. /\ chan \in [0..NumOps -> Seq(Elems)] /\ delivered \in Seq(Seq(Nat)) /\ TypeOK
      /\ \A k \in 0..NumOps : Len(chan[k]) <= Capacity
  BY DEF IInv, TypeOK
<1>2. PICK e, rest : e = Head(chan[NumOps]) /\ rest = Tail(chan[NumOps])
  OBVIOUS
<1>3. /\ sink = "running" /\ chan[NumOps] # <<>> /\ chan' = [chan EXCEPT ![NumOps] = rest]
      /\ delivered' = (IF e.mark THEN delivered ELSE Append(delivered, e.id))
      /\ UNCHANGED <<source, produced, offered, task, emit, draining, cancelled, sink>>
  BY <1>1, <1>2, Places DEF SinkWrite, sourceVars
<1>4. /\ chan[NumOps] \in Seq(Elems) /\ NumOps \in 0..NumOps
      /\ e \in Elems /\ rest \in Seq(Elems) /\ Len(rest) <= Len(chan[NumOps])
  <2>1. chan[NumOps] \in Seq(Elems) /\ NumOps \in 0..NumOps
    BY <1>1, Places
  <2>2. QED  BY <1>2, <1>3, <2>1
<1>5. chan'[NumOps] = rest /\ \A k \in 0..NumOps : k # NumOps => chan'[k] = chan[k]
  BY <1>1, <1>3, <1>4
<1>6. delivered' = delivered \o Records[e] /\ delivered' \in Seq(Seq(Nat))
  <2>1. e.id \in Seq(Nat)
    BY <1>4 DEF Elems
  <2>2. Records[e] = IF e.mark THEN <<>> ELSE <<e.id>>
    BY <1>4 DEF Records
  <2>3. CASE e.mark
    BY <1>1, <1>3, <2>2, <2>3, JoinEmpty
  <2>4. CASE ~e.mark
    <3>1. delivered \o <<e.id>> = Append(delivered, e.id)
      BY <1>1, <2>1
    <3>2. QED  BY <1>1, <1>3, <2>1, <2>2, <2>4, <3>1
  <2>5. QED  BY <2>3, <2>4
<1>7. TypeOK'
  <2>1. chan' \in [0..NumOps -> Seq(Elems)]
    BY <1>1, <1>3, <1>4
  <2>2. \A k \in 0..NumOps : Len(chan'[k]) <= Capacity
    <3>1. Len(rest) <= Capacity
      <4>1. Len(rest) \in Nat /\ Len(chan[NumOps]) \in Nat /\ Capacity \in Nat
        BY <1>4, PipelineAssumption
      <4>2. QED  BY <1>1, <1>4, <4>1
    <3>2. QED  BY <1>1, <1>5, <3>1
  <2>3. QED  BY <1>1, <1>3, <1>6, <2>1, <2>2 DEF IInv, TypeOK
<1>8. Ended'
  <2>1. \A k \in Ops : chan'[k - 1] = chan[k - 1]
    BY <1>5, Places
  <2>2. QED  BY <1>3, <2>1 DEF IInv, Ended, Closed, SenderAlive
<1>9. PICK taken, p : Flow(taken, p)
  BY DEF IInv
<1>10. /\ taken \in [1..(NumOps + 1) -> Seq(Elems)] /\ NumOps + 1 \in 1..(NumOps + 1)
       /\ taken[NumOps + 1] \in Seq(Elems) /\ p[NumOps] \in Seq(Elems)
  BY <1>1, <1>9, FlowTyped, Places DEF Flow, Histories
<1> DEFINE t == [taken EXCEPT ![NumOps + 1] = Append(@, e)]
<1>11. Append(taken[NumOps + 1], e) \in Seq(Elems)
  BY <1>4, <1>10
<1>12. /\ t[NumOps + 1] = Append(taken[NumOps + 1], e) /\ \A k \in Ops : t[k] = taken[k]
       /\ Histories(t, p)
  BY <1>9, <1>10, <1>11, Places DEF Flow, Histories
<1> HIDE DEF t
<1>13. SourceFlow(produced', offered', p[0])
  BY <1>3, <1>9 DEF Flow
<1>14. ASSUME NEW k \in Ops
       PROVE  StageFlow(Mapping(k), p[k - 1], t[k], p[k], task'[k], chan'[k - 1], emit'[k])
  <2>1. t[k] = taken[k] /\ chan'[k - 1] = chan[k - 1]
    BY <1>5, <1>12, Places
  <2>2. QED  BY <1>3, <1>9, <2>1 DEF Flow
<1>15. SinkFlow(p[NumOps], t[NumOps + 1], sink', chan'[NumOps], delivered')
  <2>1. SinkFlow(p[NumOps], taken[NumOps + 1], sink, chan[NumOps], delivered)
    BY <1>9 DEF Flow
  <2>2. sink # "err"
    BY <1>3
  <2>3. SinkFlow(p[NumOps], Append(taken[NumOps + 1], e), sink, rest, delivered \o Records[e])
    BY <1>2, <1>3, <1>4, <1>10, <2>1, <2>2, SinkTakes
  <2>4. QED  BY <1>3, <1>5, <1>6, <1>12, <2>3
<1>16. Flow(t, p)'
  BY <1>12, <1>13, <1>14, <1>15, FlowNext
<1>17. QED  BY <1>7, <1>8, <1>16 DEF IInv

-----------------------------------------------------------------------------
(* The steps that drop elements: only what had ended its flow loses them. *)

LEMMA TaskDiesKeeps ==
  ASSUME IInv, NEW j \in Ops, task[j] = "running", TaskDies(j)
  PROVE  IInv'
<1>1. /\ chan \in [0..NumOps -> Seq(Elems)] /\ task \in [Ops -> States]
      /\ emit \in [Ops -> Seq(Elems)] /\ TypeOK
      /\ \A k \in 0..NumOps : Len(chan[k]) <= Capacity
  BY DEF IInv, TypeOK
<1> DEFINE none == <<>>
<1>2. none \in Seq(Elems) /\ Len(none) = 0
  OBVIOUS
<1>3. /\ chan' = [chan EXCEPT ![j - 1] = none] /\ emit' = [emit EXCEPT ![j] = none]
      /\ task' = [task EXCEPT ![j] = "err"]
      /\ UNCHANGED <<source, produced, offered, draining, cancelled, sink, delivered>>
  BY DEF TaskDies, sourceVars, sinkVars
<1>4. j - 1 \in 0..NumOps
  BY Places
<1>5. /\ chan'[j - 1] = none /\ \A k \in 0..NumOps : k # j - 1 => chan'[k] = chan[k]
      /\ emit'[j] = none /\ \A k \in Ops : k # j => emit'[k] = emit[k]
      /\ task'[j] = "err" /\ \A k \in Ops : k # j => task'[k] = task[k]
  BY <1>1, <1>3, <1>4
<1>6. TypeOK'
  <2>1. chan' \in [0..NumOps -> Seq(Elems)]
    BY <1>1, <1>2, <1>3, <1>4
  <2>2. \A k \in 0..NumOps : Len(chan'[k]) <= Capacity
    <3>1. Len(none) <= Capacity
      BY <1>2, PipelineAssumption
    <3> HIDE DEF none
    <3>2. QED  BY <1>1, <1>5, <3>1
  <2>3. emit' \in [Ops -> Seq(Elems)]
    BY <1>1, <1>2, <1>3
  <2>4. task' \in [Ops -> States]
    BY <1>1, <1>3 DEF States
  <2>5. QED  BY <1>1, <1>3, <2>1, <2>2, <2>3, <2>4 DEF IInv, TypeOK
<1> HIDE DEF none
<1>7. Ended'
  <2>1. \A k \in Ops : task'[k] = "ok" => /\ task[k] = "ok" /\ emit'[k] = emit[k]
                                          /\ chan'[k - 1] = chan[k - 1]
    BY <1>5, Places
  <2>2. \A k \in 0..NumOps : SenderAlive(k)' => SenderAlive(k)
    <3>1. SUFFICES ASSUME NEW k \in 0..NumOps, k # 0, task'[k] = "running"
                   PROVE  task[k] = "running"
      BY <1>3 DEF SenderAlive
    <3>2. k \in Ops
      BY <3>1, Places DEF Ops
    <3>3. QED  BY <1>5, <3>1, <3>2
  <2>3. chan'[NumOps] = chan[NumOps] /\ sink # "ok"
    BY <1>5, Places DEF IInv, Ended
  <2>4. \A k \in Ops : task'[k] = "ok" => emit'[k] = <<>> /\ Closed(k - 1)'
    <3>1. SUFFICES ASSUME NEW k \in Ops, task'[k] = "ok" PROVE emit'[k] = <<>> /\ Closed(k - 1)'
      OBVIOUS
    <3>2. emit[k] = <<>> /\ chan[k - 1] = <<>> /\ ~SenderAlive(k - 1)
      BY <2>1, <3>1 DEF IInv, Ended, Closed
    <3>3. ~SenderAlive(k - 1)'
      BY <2>2, <3>2, Places
    <3>4. QED  BY <2>1, <3>1, <3>2, <3>3 DEF Closed
  <2>5. sink' \in {"waiting", "ok"} => Closed(NumOps)'
    BY <1>3, <2>2, <2>3, Places DEF IInv, Ended, Closed
  <2>6. QED  BY <1>3, <2>3, <2>4, <2>5 DEF IInv, Ended
<1>8. PICK taken, p : Flow(taken, p)
  BY DEF IInv
<1>9. Histories(taken, p) /\ SourceFlow(produced', offered', p[0])
  BY <1>3, <1>8 DEF Flow
<1>10. ASSUME NEW k \in Ops
       PROVE  StageFlow(Mapping(k), p[k - 1], taken[k], p[k], task'[k], chan'[k - 1], emit'[k])
  <2>1. StageFlow(Mapping(k), p[k - 1], taken[k], p[k], task[k], chan[k - 1], emit[k])
    BY <1>8 DEF Flow
  <2>2. CASE k = j
    BY <1>5, <2>1, <2>2 DEF StageFlow
  <2>3. CASE k # j
    <3>1. task'[k] = task[k] /\ chan'[k - 1] = chan[k - 1] /\ emit'[k] = emit[k]
      BY <1>5, <2>3, Places
    <3>2. QED  BY <2>1, <3>1
  <2>4. QED  BY <2>2, <2>3
<1>11. SinkFlow(p[NumOps], taken[NumOps + 1], sink', chan'[NumOps], delivered')
  <2>1. chan'[NumOps] = chan[NumOps]
    BY <1>5, Places
  <2>2. QED  BY <1>3, <1>8, <2>1 DEF Flow
<1>12. Flow(taken, p)'
  BY <1>9, <1>10, <1>11, FlowNext
<1>13. QED  BY <1>6, <1>7, <1>12 DEF IInv

LEMMA SinkFailsKeeps ==
  ASSUME IInv, SinkFails
  PROVE  IInv'
<1>1. /\ chan \in [0..NumOps -> Seq(Elems)] /\ TypeOK
      /\ \A k \in 0..NumOps : Len(chan[k]) <= Capacity
  BY DEF IInv, TypeOK
<1> DEFINE none == <<>>
<1>2. none \in Seq(Elems) /\ Len(none) <= Capacity
  <2>1. Len(none) = 0
    OBVIOUS
  <2>2. QED  BY <2>1, PipelineAssumption
<1>3. /\ chan' = [chan EXCEPT ![NumOps] = none] /\ sink' = "err"
      /\ UNCHANGED <<source, produced, offered, task, emit, draining, cancelled, delivered>>
  BY DEF SinkFails, sourceVars
<1> HIDE DEF none
<1>4. chan'[NumOps] = none /\ \A k \in 0..NumOps : k # NumOps => chan'[k] = chan[k]
  BY <1>1, <1>3, Places
<1>5. TypeOK'
  <2>1. chan' \in [0..NumOps -> Seq(Elems)]
    BY <1>1, <1>2, <1>3
  <2>2. \A k \in 0..NumOps : Len(chan'[k]) <= Capacity
    BY <1>1, <1>2, <1>4
  <2>3. QED  BY <1>1, <1>3, <2>1, <2>2 DEF IInv, TypeOK, States
<1>6. \A k \in Ops : chan'[k - 1] = chan[k - 1]
  BY <1>4, Places
<1>7. Ended'
  BY <1>3, <1>6 DEF IInv, Ended, Closed, SenderAlive
<1>8. PICK taken, p : Flow(taken, p)
  BY DEF IInv
<1>9. Histories(taken, p) /\ SourceFlow(produced', offered', p[0])
  BY <1>3, <1>8 DEF Flow
<1>10. ASSUME NEW k \in Ops
       PROVE  StageFlow(Mapping(k), p[k - 1], taken[k], p[k], task'[k], chan'[k - 1], emit'[k])
  BY <1>3, <1>6, <1>8 DEF Flow
<1>11. SinkFlow(p[NumOps], taken[NumOps + 1], sink', chan'[NumOps], delivered')
  BY <1>3, <1>8 DEF Flow, SinkFlow
<1>12. Flow(taken, p)'
  BY <1>9, <1>10, <1>11, FlowNext
<1>13. QED  BY <1>5, <1>7, <1>12 DEF IInv

-----------------------------------------------------------------------------
(* The steps that move nothing. *)

(* The flow asks of a task and of the sink only whether it failed. *)
LEMMA FlowStays ==
  ASSUME IInv, UNCHANGED <<produced, offered, chan, emit, delivered>>,
         \A k \in Ops : task'[k] # "err" => task[k] # "err",
         sink' # "err" => sink # "err"
  PROVE  \E taken, passed : Flow(taken, passed)'
<1>1. PICK taken, p : Flow(taken, p)
  BY DEF IInv
<1>2. Histories(taken, p) /\ SourceFlow(produced', offered', p[0])
  BY <1>1 DEF Flow
<1>3. ASSUME NEW k \in Ops
      PROVE  StageFlow(Mapping(k), p[k - 1], taken[k], p[k], task'[k], chan'[k - 1], emit'[k])
  BY <1>1 DEF Flow, StageFlow
<1>4. SinkFlow(p[NumOps], taken[NumOps + 1], sink', chan'[NumOps], delivered')
  BY <1>1 DEF Flow, SinkFlow
<1>5. Flow(taken, p)'
  BY <1>2, <1>3, <1>4, FlowNext
<1>6. QED  BY <1>5

LEMMA SourceStopKeeps ==
  ASSUME IInv, SourceSendFails \/ SourceEnds
  PROVE  IInv'
<1>1. /\ source = "running" /\ source' \in {"ok", "err"}
      /\ source' = "ok" => offered = <<>>
      /\ UNCHANGED <<produced, offered, chan, task, emit, draining, cancelled, sink, delivered>>
  BY DEF SourceSendFails, SourceEnds, sinkVars
<1>2. TypeOK'
  BY <1>1 DEF IInv, TypeOK, States
<1>3. Ended'
  BY <1>1 DEF IInv, Ended, Closed, SenderAlive
<1>4. \E taken, passed : Flow(taken, passed)'
  BY <1>1, FlowStays
<1>5. QED  BY <1>2, <1>3, <1>4 DEF IInv

LEMMA TaskSeesCancelKeeps ==
  ASSUME IInv, NEW j \in Ops, TaskSeesCancel(j)
  PROVE  IInv'
<1>1. /\ draining' = [draining EXCEPT ![j] = TRUE]
      /\ UNCHANGED <<source, produced, offered, chan, task, emit, cancelled, sink, delivered>>
  BY DEF TaskSeesCancel, sourceVars, sinkVars
<1>2. TypeOK'
  BY <1>1 DEF IInv, TypeOK
<1>3. Ended'
  BY <1>1 DEF IInv, Ended, Closed, SenderAlive
<1>4. \E taken, passed : Flow(taken, passed)'
  BY <1>1, FlowStays
<1>5. QED  BY <1>2, <1>3, <1>4 DEF IInv

LEMMA TaskEndsKeeps ==
  ASSUME IInv, NEW j \in Ops, TaskEnds(j)
  PROVE  IInv'
<1>1. /\ task[j] = "running" /\ emit[j] = <<>> /\ Closed(j - 1)
      /\ task' = [task EXCEPT ![j] = "ok"] /\ task \in [Ops -> States]
      /\ UNCHANGED <<source, produced, offered, chan, emit, draining, cancelled, sink, delivered>>
  BY DEF TaskEnds, sourceVars, sinkVars, IInv, TypeOK
<1>2. task'[j] = "ok" /\ \A k \in Ops : k # j => task'[k] = task[k]
  BY <1>1
<1>3. TypeOK'
  <2>1. task' \in [Ops -> States]
    BY <1>1 DEF States
  <2>2. QED  BY <1>1, <2>1 DEF IInv, TypeOK
<1>4. \A k \in 0..NumOps : Closed(k) => Closed(k)'
  <2>1. SUFFICES ASSUME NEW k \in 0..NumOps, Closed(k) PROVE Closed(k)'
    OBVIOUS
  <2>2. CASE k = 0
    BY <1>1, <2>1, <2>2 DEF Closed, SenderAlive
  <2>3. CASE k # 0
    <3>1. k \in Ops
      BY <2>3, Places DEF Ops
    <3>2. QED  BY <1>1, <1>2, <2>1, <2>3, <3>1 DEF Closed, SenderAlive
  <2>4. QED  BY <2>2, <2>3
<1>5. Ended'
  <2>1. \A k \in Ops : task'[k] = "ok" => emit'[k] = <<>> /\ Closed(k - 1)'
    <3>1. SUFFICES ASSUME NEW k \in Ops, task'[k] = "ok" PROVE emit'[k] = <<>> /\ Closed(k - 1)'
      OBVIOUS
    <3>2. emit[k] = <<>> /\ Closed(k - 1)
      BY <1>1, <1>2, <3>1 DEF IInv, Ended
    <3>3. QED  BY <1>1, <1>4, <3>2, Places
  <2>2. sink \in {"waiting", "ok"} => Closed(NumOps)'
    BY <1>4, Places DEF IInv, Ended
  <2>3. sink # "ok"
    BY <1>1 DEF IInv, Ended
  <2>4. QED  BY <1>1, <2>1, <2>2, <2>3 DEF IInv, Ended
<1>6. \E taken, passed : Flow(taken, passed)'
  <2>1. \A k \in Ops : task'[k] # "err" => task[k] # "err"
    BY <1>1, <1>2
  <2>2. QED  BY <1>1, <2>1, FlowStays
<1>7. QED  BY <1>3, <1>5, <1>6 DEF IInv

LEMMA SinkStopKeeps ==
  ASSUME IInv, SinkDrained \/ WaitAll
  PROVE  IInv'
<1>1. /\ UNCHANGED <<source, produced, offered, chan, task, emit, draining, cancelled, delivered>>
      /\ sink # "err" /\ sink' \in {"waiting", "ok", "err"}
      /\ sink' # "err" => Closed(NumOps)
      /\ sink' = "ok" => source = "ok" /\ \A k \in Ops : task[k] = "ok"
  <2>1. source \in States /\ \A k \in Ops : task[k] \in States
    BY DEF IInv, TypeOK
  <2>2. sink = "waiting" => Closed(NumOps)
    BY DEF IInv, Ended
  <2>3. CASE SinkDrained
    BY <2>3 DEF SinkDrained, sourceVars
  <2>4. CASE WaitAll
    BY <2>1, <2>2, <2>4 DEF WaitAll, sourceVars, States
  <2>5. QED  BY <2>3, <2>4
<1>2. TypeOK'
  BY <1>1 DEF IInv, TypeOK, States
<1>3. Ended'
  BY <1>1 DEF IInv, Ended, Closed, SenderAlive
<1>4. \E taken, passed : Flow(taken, passed)'
  BY <1>1, FlowStays
<1>5. QED  BY <1>2, <1>3, <1>4 DEF IInv

LEMMA StutterKeeps ==
  ASSUME IInv, UNCHANGED <<source, produced, offered, chan, task, emit, draining, sink, delivered>>,
         cancelled' \in BOOLEAN
  PROVE  IInv'
<1>1. TypeOK'
  BY DEF IInv, TypeOK
<1>2. Ended'
  BY DEF IInv, Ended, Closed, SenderAlive
<1>3. \E taken, passed : Flow(taken, passed)'
  BY FlowStays
<1>4. QED  BY <1>1, <1>2, <1>3 DEF IInv

-----------------------------------------------------------------------------
LEMMA NextKeeps ==
  ASSUME IInv, [Next]_vars
  PROVE  IInv'
<1>1. CASE Yield
  BY <1>1, SourceNextKeeps, SourceStopKeeps DEF Yield
<1>2. CASE Drainer
  BY <1>2, SourceSendKeeps, SourceStopKeeps DEF Drainer
<1>3. ASSUME NEW k \in Ops, Task(k)
      PROVE  IInv'
  <2>1. CASE TaskCollectFails(k) \/ TaskFails(k)
    <3>1. task[k] = "running" /\ TaskDies(k)
      BY <2>1 DEF TaskCollectFails, TaskFails
    <3>2. QED  BY <3>1, TaskDiesKeeps
  <2>2. QED  BY <1>3, <2>1, TaskRecvKeeps, TaskSeesCancelKeeps, TaskEndsKeeps, TaskCollectKeeps
             DEF Task
<1>4. CASE Sink
  BY <1>4, SinkWriteKeeps, SinkFailsKeeps, SinkStopKeeps DEF Sink
<1>5. CASE RequestCancel
  BY <1>5, StutterKeeps DEF RequestCancel, sourceVars, sinkVars
<1>6. CASE UNCHANGED vars
  <2>1. UNCHANGED <<source, produced, offered, chan, task, emit, draining, sink, delivered>>
        /\ cancelled' = cancelled
    BY <1>6 DEF vars, sourceVars, sinkVars
  <2>2. cancelled' \in BOOLEAN
    BY <2>1 DEF IInv, TypeOK
  <2>3. QED  BY <2>1, <2>2, StutterKeeps
<1>7. QED  BY <1>1, <1>2, <1>3, <1>4, <1>5, <1>6 DEF Next

LEMMA InitKeeps ==
  ASSUME Init
  PROVE  IInv
<1> DEFINE none == <<>>
<1>1. none \in Seq(Elems) /\ Len(none) = 0 /\ none \in Seq(Seq(Nat))
  OBVIOUS
<1>2. /\ source = "running" /\ produced = none /\ offered = none
      /\ chan = [k \in 0..NumOps |-> none] /\ task = [k \in Ops |-> "running"]
      /\ emit = [k \in Ops |-> none] /\ draining = [k \in Ops |-> FALSE] /\ cancelled = FALSE
      /\ sink = "running" /\ delivered = none
  BY DEF Init
<1>3. /\ \A F : Flat(none, F) = none
      /\ none \o none = none /\ Begins(none, none)
  <2>1. \A F : Flat(none, F) = none
    BY FlatEmpty
  <2>2. none \o none = none /\ Begins(none, none)
    BY DEF Begins
  <2>3. QED  BY <2>1, <2>2
<1> HIDE DEF none
<1>4. TypeOK
  <2>1. Len(none) <= 1 /\ Len(none) <= Capacity
    BY <1>1, PipelineAssumption
  <2>2. /\ chan \in [0..NumOps -> Seq(Elems)] /\ emit \in [Ops -> Seq(Elems)]
        /\ \A k \in 0..NumOps : Len(chan[k]) <= Capacity
    BY <1>1, <1>2, <2>1
  <2>3. task \in [Ops -> States] /\ draining \in [Ops -> BOOLEAN]
    BY <1>2 DEF States
  <2>4. QED  BY <1>1, <1>2, <2>1, <2>2, <2>3 DEF TypeOK, States
<1>5. Ended
  BY <1>2 DEF Ended
<1> DEFINE taken == [k \in 1..(NumOps + 1) |-> none]
<1> DEFINE passed == [k \in 0..NumOps |-> none]
<1>6. Flow(taken, passed)
  <2>1. Histories(taken, passed)
    BY <1>1 DEF Histories
  <2>2. /\ \A k \in 1..(NumOps + 1) : taken[k] = none
        /\ \A k \in 0..NumOps : passed[k] = none /\ chan[k] = none
        /\ \A k \in Ops : emit[k] = none
    BY <1>2
  <2> HIDE DEF taken, passed
  <2>3. SourceFlow(produced, offered, passed[0])
    BY <1>2, <1>3, <2>2, Places DEF SourceFlow
  <2>4. ASSUME NEW k \in Ops
        PROVE  StageFlow(Mapping(k), passed[k - 1], taken[k], passed[k],
                         task[k], chan[k - 1], emit[k])
    <3>1. StageFlow(Mapping(k), none, none, none, task[k], none, none)
      BY <1>3, Zenon DEF StageFlow
    <3>2. QED  BY <2>2, <3>1, Places
  <2>5. SinkFlow(passed[NumOps], taken[NumOps + 1], sink, chan[NumOps], delivered)
    <3>1. SinkFlow(none, none, sink, none, none)
      BY <1>3, Zenon DEF SinkFlow
    <3>2. QED  BY <1>2, <2>2, <3>1, Places
  <2>6. QED  BY <2>1, <2>3, <2>4, <2>5 DEF Flow
<1>7. QED  BY <1>4, <1>5, <1>6 DEF IInv

-----------------------------------------------------------------------------
(* What the operators make of the source's elements. *)

(* f gives, for every k up to m, what comes out of task k. *)
Stages(f, s, m) ==
  f = [k \in 0..m |-> IF k = 0 THEN s ELSE Flat(f[k - 1], Mapping(k))]

LEMMA ThroughIs ==
  ASSUME NEW s
  PROVE  Through(s) = Flat((CHOOSE f : Stages(f, s, NumOps))[NumOps], Records)
BY Zenon DEF Through, Stages

LEMMA StagesAt ==
  ASSUME NEW f, NEW s, NEW m \in Nat, Stages(f, s, m)
  PROVE  f[0] = s /\ \A k \in 1..m : f[k] = Flat(f[k - 1], Mapping(k))
<1>1. \A k \in 0..m : f[k] = IF k = 0 THEN s ELSE Flat(f[k - 1], Mapping(k))
  BY DEF Stages
<1>2. 0 \in 0..m /\ \A k \in 1..m : k \in 0..m /\ k # 0
  OBVIOUS
<1>3. QED  BY <1>1, <1>2

LEMMA StagesExist ==
  ASSUME NEW s, NEW m \in Nat
  PROVE  \E f : Stages(f, s, m)
<1> DEFINE Bad == {q \in Nat : ~ \E f : Stages(f, s, q)}
<1>1. SUFFICES ASSUME Bad # {} PROVE FALSE
  OBVIOUS
<1>2. PICK q \in Bad : \A y \in Bad : q <= y
  <2>1. Bad \in SUBSET Nat
    OBVIOUS
  <2>2. QED  BY <1>1, <2>1, LeastElement
<1>3. q \in Nat /\ ~ \E f : Stages(f, s, q)
  OBVIOUS
<1>4. CASE q = 0
  <2> DEFINE f == [k \in 0..0 |-> s]
  <2>1. Stages(f, s, 0)
    BY DEF Stages
  <2>2. QED  BY <1>3, <1>4, <2>1
<1>5. CASE q # 0
  <2>1. q - 1 \in Nat /\ ~ (q <= q - 1)
    BY <1>3, <1>5
  <2>2. q - 1 \notin Bad
    <3> HIDE DEF Bad
    <3>1. QED  BY <1>2, <2>1
  <2>3. PICK f : Stages(f, s, q - 1)
    BY <2>1, <2>2
  <2> DEFINE last == Flat(f[q - 1], Mapping(q))
  <2> DEFINE g == [k \in 0..q |-> IF k = q THEN last ELSE f[k]]
  <2>4. f[0] = s /\ \A k \in 1..(q - 1) : f[k] = Flat(f[k - 1], Mapping(k))
    BY <2>1, <2>3, StagesAt
  <2>5. \A k \in 0..(q - 1) : g[k] = f[k]
    BY <1>3
  <2>6. g[q] = last
    BY <1>3
  <2>7. g[0] = s
    BY <1>3, <1>5, <2>1, <2>4, <2>5
  <2>8. ASSUME NEW k \in 1..q
        PROVE  g[k] = Flat(g[k - 1], Mapping(k))
    <3>1. k - 1 \in 0..(q - 1) /\ g[k - 1] = f[k - 1]
      BY <1>3, <2>5
    <3>2. CASE k = q
      BY <2>6, <3>1, <3>2
    <3>3. CASE k # q
      <4>1. k \in 1..(q - 1) /\ k \in 0..(q - 1)
        BY <1>3, <3>3
      <4>2. QED  BY <2>4, <2>5, <3>1, <4>1
    <3>4. QED  BY <3>2, <3>3
  <2>9. g = [k \in 0..q |-> g[k]]
    OBVIOUS
  <2> HIDE DEF g
  <2>10. \A k \in 0..q : g[k] = IF k = 0 THEN s ELSE Flat(g[k - 1], Mapping(k))
    BY <1>3, <2>7, <2>8
  <2>11. Stages(g, s, q)
    BY <2>9, <2>10 DEF Stages
  <2>12. QED  BY <1>3, <2>11
<1>6. QED  BY <1>4, <1>5

LEMMA ThroughPick ==
  ASSUME NEW s
  PROVE  \E f : Stages(f, s, NumOps) /\ Through(s) = Flat(f[NumOps], Records)
<1>1. NumOps \in Nat
  BY PipelineAssumption
<1>2. \E f : Stages(f, s, NumOps)
  BY <1>1, StagesExist
<1>3. Stages(CHOOSE f : Stages(f, s, NumOps), s, NumOps)
  BY <1>2
<1>4. QED  BY <1>3, ThroughIs

(* Each task passes on a prefix of its stage, and all of it when no task   *)
(* failed and nothing is under way any more.                                *)
LEMMA StagesReached ==
  ASSUME IInv, NEW taken, NEW passed, Flow(taken, passed), NEW f, Stages(f, produced, NumOps)
  PROVE  \A k \in 0..NumOps :
           /\ f[k] \in Seq(Elems)
           /\ Begins(passed[k], f[k])
           /\ sink = "ok" => passed[k] = f[k]
<1>1. /\ TypeOK /\ Ended /\ NumOps \in Nat /\ 0 \in 0..NumOps
      /\ \A k \in 0..NumOps : passed[k] \in Seq(Elems)
      /\ produced \in Seq(Elems) /\ offered \in Seq(Elems)
  BY FlowTyped, Places DEF IInv
<1>2. f[0] = produced /\ \A k \in 1..NumOps : f[k] = Flat(f[k - 1], Mapping(k))
  BY <1>1, StagesAt
<1> DEFINE Good(k) == /\ f[k] \in Seq(Elems)
                      /\ Begins(passed[k], f[k])
                      /\ sink = "ok" => passed[k] = f[k]
<1> DEFINE Bad == {k \in 0..NumOps : ~Good(k)}
<1>3. SUFFICES ASSUME Bad # {} PROVE FALSE
  OBVIOUS
<1>4. PICK k \in Bad : \A y \in Bad : k <= y
  <2>1. Bad \in SUBSET Nat
    OBVIOUS
  <2>2. QED  BY <1>3, <2>1, LeastElement
<1>5. k \in 0..NumOps /\ ~Good(k)
  OBVIOUS
<1>6. CASE k = 0
  <2>1. produced = passed[0] \o offered
    BY DEF Flow, SourceFlow
  <2>2. Begins(passed[0], produced)
    BY <1>1, <2>1, BeginsConcat
  <2>3. ASSUME sink = "ok" PROVE passed[0] = produced
    <3>1. offered = <<>>
      BY <1>1, <2>3 DEF Ended
    <3>2. QED  BY <1>1, <2>1, <3>1, JoinEmpty
  <2>4. Good(0)
    BY <1>1, <1>2, <2>2, <2>3
  <2>5. QED  BY <1>5, <1>6, <2>4
<1>7. CASE k # 0
  <2>1. k \in Ops /\ k \in 1..NumOps /\ k - 1 \in 0..NumOps /\ ~ (k <= k - 1)
    BY <1>1, <1>5, <1>7 DEF Ops
  <2>2. Good(k - 1)
    <3>1. k - 1 \notin Bad
      <4> HIDE DEF Bad
      <4>1. QED  BY <1>4, <2>1
    <3>2. QED  BY <2>1, <3>1
  <2>3. StageFlow(Mapping(k), passed[k - 1], taken[k], passed[k], task[k], chan[k - 1], emit[k])
    BY <2>1 DEF Flow
  <2>4. /\ taken[k] \in Seq(Elems) /\ Mapping(k) \in [Elems -> Seq(Elems)]
        /\ passed[k - 1] \in Seq(Elems) /\ passed[k] \in Seq(Elems)
    BY <1>1, <1>5, <2>1, FlowTyped, MappingTyped, Places
  <2>5. f[k] = Flat(f[k - 1], Mapping(k)) /\ f[k - 1] \in Seq(Elems)
    BY <1>2, <2>1, <2>2
  <2>6. f[k] \in Seq(Elems) /\ Flat(taken[k], Mapping(k)) \in Seq(Elems)
    BY <2>4, <2>5, FlatTyped
  <2>7. Begins(taken[k], passed[k - 1]) /\ Begins(passed[k], Flat(taken[k], Mapping(k)))
    BY <2>3 DEF StageFlow
  <2>8. Begins(taken[k], f[k - 1])
    BY <2>2, <2>4, <2>5, <2>7, BeginsTrans
  <2>9. Begins(Flat(taken[k], Mapping(k)), f[k])
    BY <2>4, <2>5, <2>8, FlatBegins
  <2>10. Begins(passed[k], f[k])
    BY <2>4, <2>6, <2>7, <2>9, BeginsTrans
  <2>11. ASSUME sink = "ok" PROVE passed[k] = f[k]
    <3>1. task[k] = "ok" /\ emit[k] = <<>> /\ chan[k - 1] = <<>>
      BY <1>1, <2>1, <2>11 DEF Ended, Closed
    <3>2. passed[k - 1] = taken[k] /\ Flat(taken[k], Mapping(k)) = passed[k]
      BY <2>3, <2>4, <3>1, JoinEmpty DEF StageFlow
    <3>3. QED  BY <2>2, <2>5, <2>11, <3>2
  <2>12. Good(k)
    BY <2>6, <2>10, <2>11
  <2>13. QED  BY <1>5, <2>12
<1>8. QED  BY <1>6, <1>7

LEMMA Delivery ==
  ASSUME IInv
  PROVE  DeliveredInOrder /\ OkMeansAll
<1>1. PICK taken, passed : Flow(taken, passed)
  BY DEF IInv
<1>2. PICK f : Stages(f, produced, NumOps) /\ Through(produced) = Flat(f[NumOps], Records)
  BY ThroughPick
<1>3. /\ f[NumOps] \in Seq(Elems) /\ Begins(passed[NumOps], f[NumOps])
      /\ sink = "ok" => passed[NumOps] = f[NumOps]
  BY <1>1, <1>2, StagesReached, Places
<1>4. /\ SinkFlow(passed[NumOps], taken[NumOps + 1], sink, chan[NumOps], delivered)
      /\ taken[NumOps + 1] \in Seq(Elems) /\ passed[NumOps] \in Seq(Elems)
  BY <1>1, FlowTyped, Places DEF Flow, IInv
<1>5. delivered = Flat(taken[NumOps + 1], Records) /\ Begins(taken[NumOps + 1], passed[NumOps])
  BY <1>4 DEF SinkFlow
<1>6. DeliveredInOrder
  <2>1. Begins(taken[NumOps + 1], f[NumOps])
    BY <1>3, <1>4, <1>5, BeginsTrans
  <2>2. /\ Begins(delivered, Through(produced))
        /\ delivered \in Seq(Seq(Nat)) /\ Through(produced) \in Seq(Seq(Nat))
    BY <1>2, <1>3, <1>4, <1>5, <2>1, RecordsTyped, FlatBegins, FlatTyped
  <2>3. QED  BY <2>2, BeginsIsPrefix DEF DeliveredInOrder
<1>7. OkMeansAll
  <2>1. SUFFICES ASSUME sink = "ok" PROVE delivered = Through(produced)
    BY DEF OkMeansAll
  <2>2. chan[NumOps] = <<>>
    BY <2>1 DEF IInv, Ended, Closed
  <2>3. passed[NumOps] = taken[NumOps + 1]
    BY <1>4, <2>1, <2>2, JoinEmpty DEF SinkFlow
  <2>4. QED  BY <1>2, <1>3, <1>5, <2>1, <2>3
<1>8. QED  BY <1>6, <1>7

-----------------------------------------------------------------------------
(* The job's status and token against what add_sink returned. *)
Reaped ==
  /\ status = "running" => ~token
  /\ status = "completed" => sink = "ok" /\ ~token
  /\ status = "cancelled" => sink = "ok" /\ token
  /\ status = "failed" => sink = "err"
  /\ status \in {"running", "cancelling"} \cup Terminal
  /\ token \in BOOLEAN

(* IInv and Reaped hold in every state of a job. *)
THEOREM Invariance == JobSpec => [](IInv /\ Reaped)
<1>1. JobInit => IInv /\ Reaped
  BY InitKeeps DEF JobInit, Reaped, Terminal
<1>2. IInv /\ Reaped /\ [JobNext]_serverVars => (IInv /\ Reaped)'
  <2>1. SUFFICES ASSUME IInv, Reaped, [JobNext]_serverVars
                 PROVE  IInv' /\ Reaped'
    OBVIOUS
  <2>2. [Next]_vars /\ (sink \in {"ok", "err"} => sink' = sink)
    <3>1. CASE CancelJob \/ Reap \/ UNCHANGED serverVars
      BY <3>1 DEF CancelJob, Reap, serverVars, vars, sinkVars
    <3>2. CASE BridgeCancel
      BY <3>2 DEF BridgeCancel, Next, RequestCancel, sinkVars
    <3>3. CASE JobStep(Yield)
      BY <3>3 DEF JobStep, Next, Yield, SourceNext, SourceEnds, sinkVars
    <3>4. CASE JobStep(Drainer)
      BY <3>4 DEF JobStep, Next, Drainer, SourceSend, SourceSendFails, sinkVars
    <3>5. ASSUME NEW k \in Ops, JobStep(Task(k))
          PROVE  [Next]_vars /\ sink' = sink
      <4>1. Next
        BY <3>5 DEF JobStep, Next
      <4>2. sink' = sink
        BY <3>5 DEF JobStep, Task, TaskRecv, TaskSeesCancel, TaskEnds, TaskCollect,
                    TaskCollectFails, TaskFails, TaskDies, sinkVars
      <4>3. QED  BY <4>1, <4>2
    <3>6. CASE JobStep(Sink)
      <4>1. Next
        BY <3>6 DEF JobStep, Next
      <4>2. sink \in {"ok", "err"} => sink' = sink
        BY <3>6 DEF JobStep, Sink, SinkWrite, SinkFails, SinkDrained, WaitAll
      <4>3. QED  BY <4>1, <4>2
    <3>7. QED  BY <2>1, <3>1, <3>2, <3>3, <3>4, <3>5, <3>6 DEF JobNext
  <2>3. IInv'
    BY <2>1, <2>2, NextKeeps
  <2>4. Reaped'
    <3>1. CASE CancelJob
      BY <2>1, <3>1 DEF CancelJob, Reaped, Terminal
    <3>2. CASE Reap
      BY <2>1, <3>2 DEF Reap, Reaped, Outcome, Finished, Terminal, vars, sinkVars
    <3>3. CASE UNCHANGED jobVars
      BY <2>1, <2>2, <3>3 DEF Reaped, jobVars
    <3>4. QED  BY <2>1, <3>1, <3>2, <3>3 DEF JobNext, JobStep, BridgeCancel, serverVars
  <2>5. QED  BY <2>3, <2>4
<1>3. QED  BY <1>1, <1>2, PTL DEF JobSpec

(* The variables of the pipeline and of its job keep their types; no       *)
(* channel ever holds more than its capacity.                               *)
THEOREM TypeCorrect == JobSpec => []JobTypeOK
<1>1. IInv /\ Reaped => JobTypeOK
  BY DEF IInv, Reaped, JobTypeOK
<1>2. QED  BY <1>1, Invariance, PTL

(* The sink sees the results in order, each once and without gaps,         *)
(* whichever tasks die and wherever in the handling of an element.          *)
THEOREM InOrder == JobSpec => []DeliveredInOrder
<1>1. IInv /\ Reaped => DeliveredInOrder
  BY Delivery
<1>2. QED  BY <1>1, Invariance, PTL

(* A job is reported completed or cancelled only when the result of every  *)
(* element the source yielded reached the sink and no task had failed.      *)
THEOREM StatusCorrect == JobSpec => []StatusIsTrue
<1>1. IInv /\ Reaped => StatusIsTrue
  <2>1. SUFFICES ASSUME IInv, Reaped PROVE StatusIsTrue
    OBVIOUS
  <2>2. OkMeansAll /\ (sink = "ok" => \A k \in Ops : task[k] # "err")
    BY <2>1, Delivery DEF IInv, Ended
  <2>3. QED  BY <2>1, <2>2 DEF Reaped, StatusIsTrue
<1>2. QED  BY <1>1, Invariance, PTL

-----------------------------------------------------------------------------
(* The histories: one element longer with every step. *)

Listed(s) == Len(s) \in Nat /\ s \in [1..Len(s) -> Range(s)]

(* c is s followed by e. *)
Longer(s, e, c) ==
  /\ Listed(c) /\ Len(c) = Len(s) + 1 /\ c[Len(c)] = e
  /\ \A i \in 1..Len(s) : i \in 1..Len(c) /\ i # Len(c) /\ c[i] = s[i]
  /\ \A i \in 1..Len(c) : i = Len(c) \/ i \in 1..Len(s)

LEMMA AppendLonger ==
  ASSUME NEW s, Listed(s), NEW e
  PROVE  Longer(s, e, Append(s, e))
<1>1. PICK U : U = Range(s) \cup {e}
  OBVIOUS
<1>2. s \in Seq(U) /\ e \in U
  BY <1>1 DEF Listed
<1>3. PICK c : c = Append(s, e)
  OBVIOUS
<1>4. /\ Len(s) \in Nat /\ c \in Seq(U) /\ Len(c) = Len(s) + 1 /\ c[Len(c)] = e
      /\ \A i \in 1..Len(s) : c[i] = s[i]
  BY <1>2, <1>3
<1>5. Listed(c)
  <2>1. c \in [1..Len(c) -> U] /\ Len(c) \in Nat /\ DOMAIN c = 1..Len(c)
    BY <1>4
  <2>2. \A i \in 1..Len(c) : c[i] \in Range(c)
    BY <2>1 DEF Range
  <2>3. QED  BY <2>1, <2>2 DEF Listed
<1>6. Longer(s, e, c)
  BY <1>4, <1>5 DEF Longer
<1>7. QED  BY <1>3, <1>6

Feeds(e, o) == Longer(input, e, input') /\ Longer(out, o, out') /\ operator' = operator

Paired == Listed(input) /\ Listed(out) /\ Len(out) = Len(input)

LEMMA StepFeeds ==
  ASSUME Paired, OperatorNext
  PROVE  \E e, o : Feeds(e, o)
<1>1. ASSUME NEW e, NEW o, input' = Append(input, e), out' = Append(out, o), operator' = operator
      PROVE  \E f, u : Feeds(f, u)
  <2>1. Longer(input, e, input') /\ Longer(out, o, out')
    BY <1>1, AppendLonger DEF Paired
  <2>2. Feeds(e, o)
    BY <1>1, <2>1 DEF Feeds
  <2>3. QED  BY <2>2
<1>2. ASSUME NEW r, FeedRecord(r)
      PROVE  \E e, o : Feeds(e, o)
  BY <1>1, <1>2 DEF FeedRecord, Fed, W!ProcessRecord, J!ProcessRecord
<1>3. ASSUME NEW r, FeedCall(r)
      PROVE  \E e, o : Feeds(e, o)
  BY <1>1, <1>3 DEF FeedCall, Fed, P!ProcessRecord, P!ProcessElement, P!KeyedElement,
                    P!CoElement, P!UserCall
<1>4. ASSUME NEW t, NEW rearm, FeedWatermark(t, rearm)
      PROVE  \E e, o : Feeds(e, o)
  BY <1>1, <1>4 DEF FeedWatermark, Fed, W!ProcessWatermark, W!WindowWatermark, W!JoinWatermark,
                    W!CogroupWatermark, W!Fire, J!ProcessWatermark, P!ProcessWatermark,
                    P!ProcessTimers, P!KeyedTimers, P!CoTimers, P!OnTimers
<1>5. CASE FeedBarrier
  BY <1>1, <1>5 DEF FeedBarrier, Fed
<1>6. ASSUME NEW i, NEW t, FeedTracker(i, t)
      PROVE  \E e, o : Feeds(e, o)
  BY <1>1, <1>6 DEF FeedTracker, Fed, Tracker!Update
<1>7. QED  BY <1>2, <1>3, <1>4, <1>5, <1>6 DEF OperatorNext

THEOREM PairedAlways == OperatorSpec => []Paired
<1>1. OperatorInit => Paired
  <2>1. <<>> \in Seq({}) /\ Len(<<>>) = 0
    OBVIOUS
  <2>2. Listed(<<>>)
    BY <2>1 DEF Listed, Range
  <2>3. QED  BY <2>1, <2>2 DEF OperatorInit, Paired
<1>2. Paired /\ [OperatorNext]_operatorVars => Paired'
  <2>1. CASE UNCHANGED operatorVars
    BY <2>1 DEF operatorVars, Paired, Listed, Range
  <2>2. CASE OperatorNext
    BY <2>2, StepFeeds DEF Paired, Feeds, Longer
  <2>3. QED  BY <2>1, <2>2
<1>3. QED  BY <1>1, <1>2, PTL DEF OperatorSpec

-----------------------------------------------------------------------------
(* The watermark tracker. *)

LEMMA MaxIs ==
  ASSUME NEW S \in SUBSET Int, NEW x \in S, \A y \in S : y <= x
  PROVE  Max(S) = x
<1>1. Max(S) = CHOOSE m \in S : \A y \in S : m >= y
  BY DEF Max
<1>2. \A y \in S : x >= y
  OBVIOUS
<1>3. PICK m : m = Max(S)
  OBVIOUS
<1>4. m \in S /\ \A y \in S : m >= y
  BY <1>1, <1>2, <1>3
<1>5. QED  BY <1>3, <1>4

LEMMA MinIs ==
  ASSUME NEW S \in SUBSET Int, NEW x \in S, \A y \in S : x <= y
  PROVE  Min(S) = x
<1>1. Min(S) = CHOOSE m \in S : \A y \in S : m <= y
  BY DEF Min
<1>2. \A y \in S : x <= y
  OBVIOUS
<1>3. PICK m : m = Min(S)
  OBVIOUS
<1>4. m \in S /\ \A y \in S : m <= y
  BY <1>1, <1>2, <1>3
<1>5. QED  BY <1>3, <1>4

(* x is the highest watermark channel i has sent, or 0. *)
Highest(x, i) ==
  /\ x \in Nat
  /\ x = 0 \/ \E p \in MarksOf(i) : input[p].ts = x
  /\ \A p \in MarksOf(i) : input[p].ts <= x

LEMMA HighestIsPromise ==
  ASSUME NEW i, NEW x, Highest(x, i), \A p \in MarksOf(i) : input[p].ts \in Nat
  PROVE  Promise(i) = x
<1>1. PICK S : S = {0} \cup {input[p].ts : p \in MarksOf(i)}
  OBVIOUS
<1>2. S \in SUBSET Int /\ x \in S /\ \A y \in S : y <= x
  BY <1>1 DEF Highest
<1>3. QED  BY <1>1, <1>2, MaxIs DEF Promise

(* What a channel has sent last is at most what it promised, and exactly   *)
(* that if it never goes back; the tracker is behind both promises, and at *)
(* one of them if neither channel goes back.                               *)
Tracked ==
  /\ inputWatermarks \in [1..2 -> Nat] /\ trackerWatermark \in Nat
  /\ \A p \in Positions : input[p].channel \in 1..2 /\ input[p].ts \in Nat
  /\ \A i \in 1..2 : \E x \in Nat :
       /\ Highest(x, i)
       /\ inputWatermarks[i] <= x /\ trackerWatermark <= x
       /\ Advances(i) => inputWatermarks[i] = x
  /\ (\A i \in 1..2 : Advances(i)) =>
       \E i \in 1..2 : \A j \in 1..2 :
         trackerWatermark = inputWatermarks[i] /\ inputWatermarks[i] <= inputWatermarks[j]

(* What was emitted advances up to the tracker's watermark. *)
Emitting ==
  /\ \A p \in Positions : out[p] # <<>> =>
       Len(out[p]) = 1 /\ out[p][1].ts \in 0..trackerWatermark
  /\ \A p, q \in Positions : out[p] # <<>> /\ out[q] # <<>> /\ p < q =>
       out[p][1].ts < out[q][1].ts
  /\ trackerWatermark > 0 =>
       \E p \in Positions : out[p] # <<>> /\ out[p][1].ts = trackerWatermark

TrackerInv == Tracking => Tracked /\ Emitting

LEMMA TrackerShows ==
  ASSUME TrackerInv
  PROVE  TrackerExact
<1> SUFFICES ASSUME Tracking PROVE TrackerExact
  BY DEF TrackerExact
<1> DEFINE least == Min({Promise(i) : i \in 1..2})
<1>1. Tracked /\ Emitting
  BY DEF TrackerInv
<1>2. \A i \in 1..2 : /\ Promise(i) \in Nat
                      /\ inputWatermarks[i] <= Promise(i) /\ trackerWatermark <= Promise(i)
                      /\ Advances(i) => inputWatermarks[i] = Promise(i)
  <2>1. ASSUME NEW i \in 1..2
        PROVE  /\ Promise(i) \in Nat
               /\ inputWatermarks[i] <= Promise(i) /\ trackerWatermark <= Promise(i)
               /\ Advances(i) => inputWatermarks[i] = Promise(i)
    <3>1. PICK x \in Nat : /\ Highest(x, i)
                           /\ inputWatermarks[i] <= x /\ trackerWatermark <= x
                           /\ Advances(i) => inputWatermarks[i] = x
      BY <1>1 DEF Tracked
    <3>2. \A p \in MarksOf(i) : input[p].ts \in Nat
      BY <1>1 DEF Tracked, MarksOf
    <3>3. QED  BY <3>1, <3>2, HighestIsPromise
  <2>2. QED  BY <2>1
<1>3. \E i \in 1..2 : least = Promise(i) /\ \A j \in 1..2 : Promise(i) <= Promise(j)
  <2>1. PICK i \in 1..2 : \A j \in 1..2 : Promise(i) <= Promise(j)
    BY <1>2
  <2>2. PICK S : S = {Promise(j) : j \in 1..2}
    OBVIOUS
  <2>3. PICK x : x = Promise(i)
    OBVIOUS
  <2>4. S \in SUBSET Int /\ x \in S /\ \A y \in S : x <= y
    BY <1>2, <2>1, <2>2, <2>3
  <2>5. Min(S) = x
    BY <2>4, MinIs
  <2>6. QED  BY <2>1, <2>2, <2>3, <2>5
<1> HIDE DEF least
<1>4. trackerWatermark <= least
  BY <1>2, <1>3
<1>5. (\A i \in 1..2 : Advances(i)) => trackerWatermark = least
  <2> SUFFICES ASSUME \A i \in 1..2 : Advances(i) PROVE trackerWatermark = least
    OBVIOUS
  <2>1. PICK i \in 1..2 : \A j \in 1..2 :
          trackerWatermark = inputWatermarks[i] /\ inputWatermarks[i] <= inputWatermarks[j]
    BY <1>1 DEF Tracked
  <2>2. \A j \in 1..2 : inputWatermarks[j] = Promise(j)
    BY <1>2
  <2>3. PICK j \in 1..2 : least = Promise(j) /\ \A k \in 1..2 : Promise(j) <= Promise(k)
    BY <1>3
  <2>4. Promise(i) \in Nat /\ Promise(j) \in Nat /\ Promise(i) <= Promise(j) /\ Promise(j) <= Promise(i)
    BY <1>2, <2>1, <2>2, <2>3
  <2>5. QED  BY <2>1, <2>2, <2>3, <2>4
<1>6. /\ \A p \in Positions : out[p] # <<>> => Len(out[p]) = 1 /\ out[p][1].ts <= trackerWatermark
      /\ \A p, q \in Positions : out[p] # <<>> /\ out[q] # <<>> /\ p < q => out[p][1].ts < out[q][1].ts
      /\ trackerWatermark > 0 => \E p \in Positions : out[p] # <<>> /\ out[p][1].ts = trackerWatermark
  BY <1>1 DEF Emitting, Tracked
<1>7. QED  BY <1>4, <1>5, <1>6 DEF TrackerExact, least

LEMMA TrackerMoves ==
  ASSUME EventTimeAssumption, Paired, Tracked, NEW i \in 1..2, NEW t \in Marks, FeedTracker(i, t)
  PROVE  \E o : /\ Longer(out, o, out')
                /\ Tracked'
                /\ trackerWatermark' >= trackerWatermark
                /\ o = IF trackerWatermark' > trackerWatermark
                       THEN <<[kind |-> "watermark", ts |-> trackerWatermark']>> ELSE <<>>
<1> DEFINE e == [kind |-> "watermark", ts |-> t, channel |-> i]
           L == Len(input')
<1>1. PICK least : least = Tracker!Least
  OBVIOUS
<1>2. PICK o : o = IF least > trackerWatermark THEN <<[kind |-> "watermark", ts |-> least]>> ELSE <<>>
  OBVIOUS
<1>3. /\ input' = Append(input, e) /\ out' = Append(out, o)
      /\ inputWatermarks' = [inputWatermarks EXCEPT ![i] = t]
      /\ trackerWatermark' = IF least < trackerWatermark THEN trackerWatermark ELSE least
  BY <1>1, <1>2 DEF FeedTracker, Fed, Tracker!Update, Tracker!Later, Tracker!Watermark
<1>4. Longer(input, e, input') /\ Longer(out, o, out')
  BY <1>3, AppendLonger DEF Paired
<1>5. e.ts = t /\ e.channel = i /\ t \in Nat
  BY DEF EventTimeAssumption
<1> HIDE DEF e
<1>6. /\ Positions = 1..Len(input) /\ Positions' = 1..L /\ L = Len(input) + 1 /\ Len(input) \in Nat
      /\ Positions' = Positions \cup {L} /\ L \notin Positions
      /\ \A p \in Positions : input'[p] = input[p] /\ p < L
      /\ input'[L] = e
  BY <1>4 DEF Paired, Longer, Listed, Positions
<1>7. /\ MarksOf(i)' = MarksOf(i) \cup {L}
      /\ \A j \in 1..2 : j # i => MarksOf(j)' = MarksOf(j)
  BY <1>5, <1>6 DEF MarksOf
<1>8. inputWatermarks' \in [1..2 -> Nat] /\ inputWatermarks'[i] = t
      /\ \A j \in 1..2 : j # i => inputWatermarks'[j] = inputWatermarks[j]
  BY <1>3, <1>5 DEF Tracked
<1>9. PICK k \in 1..2 : least = inputWatermarks'[k] /\ \A j \in 1..2 : least <= inputWatermarks'[j]
  <2>1. PICK k \in 1..2 : \A j \in 1..2 : inputWatermarks'[k] <= inputWatermarks'[j]
    BY <1>8
  <2>2. PICK S : S = {inputWatermarks'[j] : j \in 1..2}
    OBVIOUS
  <2>3. PICK x : x = inputWatermarks'[k]
    OBVIOUS
  <2>4. S \in SUBSET Int /\ x \in S /\ \A y \in S : x <= y
    BY <1>8, <2>1, <2>2, <2>3
  <2>5. Min(S) = x
    BY <2>4, MinIs
  <2>6. Tracker!Least = Min(S)
    <3>1. DOMAIN inputWatermarks = 1..2
      BY DEF Tracked
    <3>2. {inputWatermarks'[j] : j \in DOMAIN inputWatermarks} = S
      BY <2>2, <3>1
    <3>3. Tracker!Least = Tracker!Min(S)
      BY <3>2 DEF Tracker!Least
    <3>4. QED  BY <3>3 DEF Tracker!Min, Min
  <2>7. QED  BY <1>1, <2>1, <2>3, <2>5, <2>6
<1>10. least \in Nat /\ trackerWatermark \in Nat /\ trackerWatermark' \in Nat
       /\ least <= trackerWatermark' /\ trackerWatermark <= trackerWatermark'
       /\ (trackerWatermark' = least \/ trackerWatermark' = trackerWatermark)
  BY <1>3, <1>8, <1>9 DEF Tracked
<1>11. \A p \in Positions' : input'[p].channel \in 1..2 /\ input'[p].ts \in Nat
  BY <1>5, <1>6 DEF Tracked
<1>12. \A j \in 1..2 : Advances(j)' => Advances(j)
  BY <1>6, <1>7 DEF Advances, MarksOf
<1>13. ASSUME NEW j \in 1..2
       PROVE  \E x \in Nat : /\ Highest(x, j)'
                             /\ inputWatermarks'[j] <= x /\ trackerWatermark' <= x
                             /\ Advances(j)' => inputWatermarks'[j] = x
  <2>1. PICK x \in Nat : /\ Highest(x, j)
                         /\ inputWatermarks[j] <= x /\ trackerWatermark <= x
                         /\ Advances(j) => inputWatermarks[j] = x
    BY DEF Tracked
  <2>2. CASE j # i
    <3>1. Highest(x, j)'
      BY <1>6, <1>7, <2>1, <2>2 DEF Highest, MarksOf
    <3>2. QED  BY <1>8, <1>9, <1>10, <1>12, <2>1, <2>2, <3>1
  <2>3. CASE j = i
    <3>1. PICK y \in Nat : y = IF x < t THEN t ELSE x
      BY <1>5
    <3>2. \A p \in MarksOf(i) : p \in Positions /\ input'[p] = input[p] /\ p < L
      BY <1>6 DEF MarksOf
    <3>3. Highest(y, i)'
      <4>1. y = 0 \/ \E p \in MarksOf(i)' : input'[p].ts = y
        BY <1>5, <1>6, <1>7, <2>1, <2>3, <3>1, <3>2 DEF Highest
      <4>2. \A p \in MarksOf(i) : input'[p].ts \in Nat /\ input'[p].ts <= x
        BY <2>1, <2>3, <3>2 DEF Highest, Tracked
      <4>3. \A p \in MarksOf(i)' : input'[p].ts <= y
        BY <1>5, <1>6, <1>7, <3>1, <4>2
      <4>4. QED  BY <4>1, <4>3 DEF Highest
    <3>4. ASSUME Advances(i)'
          PROVE  x <= t
      <4>1. \A p \in MarksOf(i) : input[p].ts <= t
        BY <1>5, <1>6, <1>7, <3>2, <3>4 DEF Advances
      <4>2. QED  BY <1>5, <2>1, <2>3, <4>1 DEF Highest
    <3>5. QED  BY <1>5, <1>8, <1>9, <1>10, <2>1, <2>3, <3>1, <3>3, <3>4
  <2>4. QED  BY <2>2, <2>3
<1>14. ASSUME \A j \in 1..2 : Advances(j)'
       PROVE  \E m \in 1..2 : \A j \in 1..2 :
                trackerWatermark' = inputWatermarks'[m] /\ inputWatermarks'[m] <= inputWatermarks'[j]
  <2>1. PICK m \in 1..2 : \A j \in 1..2 :
          trackerWatermark = inputWatermarks[m] /\ inputWatermarks[m] <= inputWatermarks[j]
    BY <1>12, <1>14 DEF Tracked
  <2>2. inputWatermarks[i] <= t
    <3>1. PICK x \in Nat : Highest(x, i) /\ inputWatermarks[i] <= x
      BY DEF Tracked
    <3>2. \A p \in MarksOf(i) : p \in Positions /\ input'[p] = input[p] /\ p < L
      BY <1>6 DEF MarksOf
    <3>3. \A p \in MarksOf(i) : input[p].ts <= t
      BY <1>5, <1>6, <1>7, <1>14, <3>2 DEF Advances
    <3>4. QED  BY <1>5, <3>1, <3>3 DEF Highest, Tracked
  <2>3. \A j \in 1..2 : trackerWatermark <= inputWatermarks'[j]
    BY <1>5, <1>8, <2>1, <2>2 DEF Tracked
  <2>4. trackerWatermark' = least
    BY <1>9, <1>10, <2>3
  <2>5. QED  BY <1>9, <2>4
<1>15. Tracked'
  BY <1>8, <1>10, <1>11, <1>13, <1>14 DEF Tracked
<1>16. o = IF trackerWatermark' > trackerWatermark
           THEN <<[kind |-> "watermark", ts |-> trackerWatermark']>> ELSE <<>>
  BY <1>2, <1>3, <1>10
<1>17. QED  BY <1>4, <1>10, <1>15, <1>16

LEMMA TrackerEmits ==
  ASSUME Paired, Paired', Tracked, Emitting, NEW o, Longer(out, o, out'), Len(input') = Len(input) + 1,
         trackerWatermark' \in Nat, trackerWatermark' >= trackerWatermark,
         o = IF trackerWatermark' > trackerWatermark
             THEN <<[kind |-> "watermark", ts |-> trackerWatermark']>> ELSE <<>>
  PROVE  Emitting'
<1> DEFINE L == Len(out')
<1>1. /\ Positions' = Positions \cup {L} /\ L \notin Positions /\ out'[L] = o
      /\ \A p \in Positions : out'[p] = out[p] /\ p < L /\ p \in Nat
      /\ L \in Nat
  BY DEF Paired, Longer, Listed, Positions
<1>2. o # <<>> => /\ Len(o) = 1 /\ o[1].ts = trackerWatermark'
                  /\ trackerWatermark' > trackerWatermark
  <2>1. <<[kind |-> "watermark", ts |-> trackerWatermark']>>[1].ts = trackerWatermark'
    OBVIOUS
  <2>2. QED  BY <2>1
<1>3. o = <<>> => trackerWatermark' = trackerWatermark
  <2>1. <<[kind |-> "watermark", ts |-> trackerWatermark']>> # <<>>
    OBVIOUS
  <2>2. QED  BY <2>1 DEF Tracked
<1> HIDE DEF L
<1>4. \A p \in Positions' : out'[p] # <<>> =>
        Len(out'[p]) = 1 /\ out'[p][1].ts \in 0..trackerWatermark'
  BY <1>1, <1>2 DEF Emitting, Tracked
<1>5. ASSUME NEW p \in Positions', NEW q \in Positions', out'[p] # <<>>, out'[q] # <<>>, p < q
      PROVE  out'[p][1].ts < out'[q][1].ts
  <2>1. p \in Positions
    BY <1>1, <1>5
  <2>2. CASE q \in Positions
    BY <1>1, <1>5, <2>1, <2>2 DEF Emitting
  <2>3. CASE q = L
    BY <1>1, <1>2, <1>5, <2>1, <2>3 DEF Emitting, Tracked
  <2>4. QED  BY <1>1, <2>2, <2>3
<1>6. trackerWatermark' > 0 =>
        \E p \in Positions' : out'[p] # <<>> /\ out'[p][1].ts = trackerWatermark'
  BY <1>1, <1>2, <1>3 DEF Emitting
<1>7. QED  BY <1>4, <1>5, <1>6 DEF Emitting

(* However the watermarks of the channels go back and forth, the tracker   *)
(* emits what every channel has promised and nothing beyond it             *)
(* (watermark.rs lines 26-45).                                              *)
THEOREM TrackerCorrect == OperatorSpec => []TrackerExact
<1>1. OperatorInit => TrackerInv
  <2> SUFFICES ASSUME OperatorInit PROVE Tracked /\ Emitting
    BY DEF TrackerInv
  <2>1. Positions = {} /\ inputWatermarks = [i \in 1..2 |-> 0] /\ trackerWatermark = 0
    BY DEF OperatorInit, Positions
  <2>2. \A i \in 1..2 : Highest(0, i)
    BY <2>1 DEF Highest, MarksOf
  <2>3. Tracked
    BY <2>1, <2>2 DEF Tracked
  <2>4. QED  BY <2>1, <2>3 DEF Emitting
<1>2. EventTimeAssumption /\ Paired /\ Paired' /\ TrackerInv /\ [OperatorNext]_operatorVars => TrackerInv'
  <2> SUFFICES ASSUME EventTimeAssumption, Paired, Paired', TrackerInv, [OperatorNext]_operatorVars,
                      Tracking'
               PROVE  Tracked' /\ Emitting'
    BY DEF TrackerInv
  <2>1. CASE UNCHANGED operatorVars
    <3>1. Tracked /\ Emitting
      BY <2>1 DEF TrackerInv, Tracking, operatorVars
    <3>2. UNCHANGED <<input, out, inputWatermarks, trackerWatermark>>
      BY <2>1 DEF operatorVars, tracker
    <3>3. QED  BY <3>1, <3>2 DEF Tracked, Emitting, Highest, Advances, MarksOf, Positions
  <2>2. CASE OperatorNext
    <3>1. operator' = operator
      BY <2>2, StepFeeds DEF Feeds
    <3>2. Tracked /\ Emitting
      BY <3>1 DEF TrackerInv, Tracking
    <3>3. PICK i \in 1..2, t \in Marks : FeedTracker(i, t)
      BY <2>2, <3>1 DEF OperatorNext, FeedRecord, FeedCall, FeedWatermark, FeedBarrier,
                        Tracking, Windowed, Joining, Processing
    <3>4. PICK o : /\ Longer(out, o, out')
                   /\ Tracked'
                   /\ trackerWatermark' >= trackerWatermark
                   /\ o = IF trackerWatermark' > trackerWatermark
                          THEN <<[kind |-> "watermark", ts |-> trackerWatermark']>> ELSE <<>>
      BY <3>2, <3>3, TrackerMoves
    <3>5. trackerWatermark' \in Nat /\ Len(input') = Len(input) + 1
      BY <2>2, <3>4, StepFeeds DEF Feeds, Longer, Tracked
    <3>6. Emitting'
      BY <3>2, <3>4, <3>5, TrackerEmits
    <3>7. QED  BY <3>4, <3>6
  <2>3. QED  BY <2>1, <2>2
<1>3. EventTimeAssumption
  BY EventTimeAssumption
<1>4. QED  BY <1>1, <1>2, <1>3, PairedAlways, TrackerShows, PTL DEF OperatorSpec

-----------------------------------------------------------------------------
(* Timers. *)

Reaches(f, t) == f[1] < Plus(t, 1)

(* What was asked for and neither deleted nor fired since. *)
Outstanding ==
  {f \in UNION {Asked(q) : q \in Positions} :
     \E q \in Positions :
       /\ f \in Asked(q)
       /\ \A m \in (q + 1)..Len(input) :
            f \notin Deleted(m) /\ ~(IsMark(m) /\ Reaches(f, input[m].ts))}

LEMMA OutstandingNext ==
  ASSUME Paired, NEW e, Longer(input, e, input'), NEW n, n = Len(input')
  PROVE  Outstanding' = {f \in Outstanding : f \notin Deleted(n)' /\ ~(IsMark(n)' /\ Reaches(f, e.ts))}
                        \cup Asked(n)'
<1>1. /\ Positions = 1..Len(input) /\ Positions' = 1..n /\ n = Len(input) + 1 /\ Len(input) \in Nat
      /\ Positions' = Positions \cup {n} /\ n \notin Positions
      /\ \A p \in Positions : input'[p] = input[p] /\ p < n
      /\ input'[n] = e
  BY DEF Paired, Longer, Listed, Positions
<1>2. \A p \in Positions : Asked(p)' = Asked(p) /\ Deleted(p)' = Deleted(p) /\ (IsMark(p)' <=> IsMark(p))
  BY <1>1 DEF Asked, Deleted, IsMark, IsRecord
<1> DEFINE Left(f, q) ==
             \A m \in (q + 1)..Len(input) : f \notin Deleted(m) /\ ~(IsMark(m) /\ Reaches(f, input[m].ts))
<1> DEFINE Stays(f) == f \notin Deleted(n)' /\ ~(IsMark(n)' /\ Reaches(f, e.ts))
<1>3. \A q \in Positions : /\ \A m \in (q + 1)..Len(input) : m \in Positions
                           /\ \A m \in (q + 1)..n : m \in (q + 1)..Len(input) \/ m = n
                           /\ \A m \in (q + 1)..Len(input) : m \in (q + 1)..n
                           /\ n \in (q + 1)..n
  BY <1>1
<1>4. \A f : \A q \in Positions :
        (\A m \in (q + 1)..n : f \notin Deleted(m)' /\ ~(IsMark(m)' /\ Reaches(f, input'[m].ts)))
          <=> Left(f, q) /\ Stays(f)
  <2>1. ASSUME NEW f, NEW q \in Positions,
               \A m \in (q + 1)..n : f \notin Deleted(m)' /\ ~(IsMark(m)' /\ Reaches(f, input'[m].ts))
        PROVE  Left(f, q) /\ Stays(f)
    BY <1>1, <1>2, <1>3, <2>1
  <2>2. ASSUME NEW f, NEW q \in Positions, Left(f, q), Stays(f), NEW m \in (q + 1)..n
        PROVE  f \notin Deleted(m)' /\ ~(IsMark(m)' /\ Reaches(f, input'[m].ts))
    BY <1>1, <1>2, <1>3, <2>2
  <2>3. QED  BY <2>1, <2>2
<1>5. \A f : f \in Outstanding' <=>
        \E q \in Positions' :
          /\ f \in Asked(q)'
          /\ \A m \in (q + 1)..n : f \notin Deleted(m)' /\ ~(IsMark(m)' /\ Reaches(f, input'[m].ts))
  BY DEF Outstanding, Reaches
<1>6. \A f : f \in Outstanding <=> \E q \in Positions : f \in Asked(q) /\ Left(f, q)
  BY DEF Outstanding
<1>7. (n + 1)..n = {}
  BY <1>1
<1> HIDE DEF Left, Stays
<1>8. \A f : f \in Outstanding' => (f \in Outstanding /\ Stays(f)) \/ f \in Asked(n)'
  BY <1>1, <1>2, <1>4, <1>5, <1>6
<1>9. \A f : f \in Outstanding /\ Stays(f) => f \in Outstanding'
  BY <1>1, <1>2, <1>4, <1>5, <1>6
<1>10. \A f : f \in Asked(n)' => f \in Outstanding'
  BY <1>1, <1>5, <1>7
<1>11. QED  BY <1>8, <1>9, <1>10 DEF Stays

(* What on_timer is called with and the watermark that follows. *)
Served(due, t) ==
  LET calls == P!Ascending(due)
  IN [k \in DOMAIN calls |-> P!OnTimer(calls[k])] \o <<Watermark(t)>>

TimesOk ==
  \A p \in Positions : /\ IsMark(p) => input[p].ts \in 0..MaxTs
                       /\ \A f \in Asked(p) : f[1] \in 0..MaxTs

TimersInv ==
  Processing =>
    /\ DOMAIN timers = {"event", "processing"}
    /\ TimesOk
    /\ timers.event = Outstanding
    /\ \A p \in Positions : IsMark(p) => out[p] = Served(Due(p), input[p].ts)

(* A timer is due exactly if it is outstanding and the watermark reaches   *)
(* it: only at the maximum time do the two tests differ.                   *)
LEMMA DueIs ==
  ASSUME EventTimeAssumption, Paired, TimesOk, NEW e, Longer(input, e, input'),
         NEW n, n = Len(input'), e.ts \in 0..MaxTs
  PROVE  Due(n)' = {f \in Outstanding : Reaches(f, e.ts)}
<1>1. /\ Positions = 1..Len(input) /\ Positions' = 1..n /\ n = Len(input) + 1 /\ Len(input) \in Nat
      /\ 1..(n - 1) = Positions
      /\ \A p \in Positions : input'[p] = input[p] /\ p < n
      /\ input'[n] = e
  BY DEF Paired, Longer, Listed, Positions
<1>2. \A p \in Positions : Asked(p)' = Asked(p) /\ Deleted(p)' = Deleted(p) /\ (IsMark(p)' <=> IsMark(p))
  BY <1>1 DEF Asked, Deleted, IsMark, IsRecord
<1>3. \A q \in Positions : (q + 1)..(n - 1) = (q + 1)..Len(input)
                           /\ \A m \in (q + 1)..Len(input) : m \in Positions
  BY <1>1
<1>4. ASSUME NEW f, f[1] \in 0..MaxTs, NEW t \in 0..MaxTs
      PROVE  Reaches(f, t) <=> f[1] <= t /\ f[1] < MaxTs
  BY <1>4, EventTimeAssumption DEF Reaches, Plus, EventTimeAssumption
<1> DEFINE Left(f, q) ==
      \A m \in (q + 1)..(n - 1) : f \notin Deleted(m)' /\ ~(IsMark(m)' /\ input'[m].ts >= f[1])
    Still(f, q) ==
      \A m \in (q + 1)..Len(input) : f \notin Deleted(m) /\ ~(IsMark(m) /\ Reaches(f, input[m].ts))
<1>5. ASSUME NEW q \in Positions, NEW f \in Asked(q), f[1] < MaxTs
      PROVE  Left(f, q) <=> Still(f, q)
  <2>1. f[1] \in 0..MaxTs
    BY DEF TimesOk
  <2>2. \A m \in (q + 1)..Len(input) :
          m \in Positions /\ (IsMark(m) => (Reaches(f, input[m].ts) <=> input[m].ts >= f[1]))
    BY <1>3, <1>4, <1>5, <2>1 DEF TimesOk, EventTimeAssumption
  <2>3. QED  BY <1>1, <1>2, <1>3, <2>2
<1>6. \A f : f \in Due(n)' <=> /\ f[1] <= e.ts /\ f[1] < MaxTs
                              /\ \E q \in Positions : f \in Asked(q) /\ Left(f, q)
  BY <1>1, <1>2 DEF Due
<1>7. \A f : f \in Outstanding <=> \E q \in Positions : f \in Asked(q) /\ Still(f, q)
  BY DEF Outstanding
<1> HIDE DEF Left, Still
<1>8. ASSUME NEW f, f \in Due(n)'
      PROVE  f \in Outstanding /\ Reaches(f, e.ts)
  <2>1. PICK q \in Positions : f \in Asked(q) /\ Left(f, q)
    BY <1>6, <1>8
  <2>2. f[1] \in 0..MaxTs /\ f[1] <= e.ts /\ f[1] < MaxTs
    BY <1>6, <1>8, <2>1 DEF TimesOk
  <2>3. QED  BY <1>4, <1>5, <1>7, <2>1, <2>2
<1>9. ASSUME NEW f, f \in Outstanding, Reaches(f, e.ts)
      PROVE  f \in Due(n)'
  <2>1. PICK q \in Positions : f \in Asked(q) /\ Still(f, q)
    BY <1>7, <1>9
  <2>2. f[1] \in 0..MaxTs
    BY <2>1 DEF TimesOk
  <2>3. f[1] <= e.ts /\ f[1] < MaxTs
    BY <1>4, <1>9, <2>2
  <2>4. QED  BY <1>5, <1>6, <2>1, <2>3
<1>10. QED  BY <1>8, <1>9

(* A step of a process operator, of which a is what it asks and del what   *)
(* it deletes.                                                             *)
LEMMA TimersNext ==
  ASSUME EventTimeAssumption, Paired, TimesOk, timers.event = Outstanding,
         \A p \in Positions : IsMark(p) => out[p] = Served(Due(p), input[p].ts),
         NEW e, Longer(input, e, input'), NEW o, Longer(out, o, out'), NEW n, n = Len(input'),
         IsMark(n)' => e.ts \in 0..MaxTs /\ o = Served({f \in timers.event : Reaches(f, e.ts)}, e.ts),
         \A f \in Asked(n)' : f[1] \in 0..MaxTs,
         timers'.event = {f \in timers.event : f \notin Deleted(n)' /\ ~(IsMark(n)' /\ Reaches(f, e.ts))}
                         \cup Asked(n)'
  PROVE  /\ TimesOk'
         /\ timers'.event = Outstanding'
         /\ \A p \in Positions' : IsMark(p)' => out'[p] = Served(Due(p)', input'[p].ts)
<1>1. /\ Positions = 1..Len(input) /\ Positions' = 1..n /\ n = Len(input) + 1 /\ Len(input) \in Nat
      /\ Positions' = Positions \cup {n} /\ n \notin Positions /\ n = Len(out')
      /\ \A p \in Positions : input'[p] = input[p] /\ out'[p] = out[p] /\ p < n
      /\ input'[n] = e /\ out'[n] = o
  BY DEF Paired, Longer, Listed, Positions
<1>2. \A p \in Positions : Asked(p)' = Asked(p) /\ Deleted(p)' = Deleted(p) /\ (IsMark(p)' <=> IsMark(p))
  BY <1>1 DEF Asked, Deleted, IsMark, IsRecord
<1>3. TimesOk'
  BY <1>1, <1>2 DEF TimesOk
<1>4. timers'.event = Outstanding'
  BY OutstandingNext
<1>5. \A p \in Positions : Due(p)' = Due(p)
  <2>1. ASSUME NEW p \in Positions
        PROVE  Due(p)' = Due(p)
    <3>1. \A q \in 1..(p - 1) : /\ q \in Positions /\ input'[q] = input[q]
                                /\ \A m \in (q + 1)..(p - 1) : m \in Positions /\ input'[m] = input[m]
      BY <1>1
    <3>2. input'[p].ts = input[p].ts
      BY <1>1
    <3>3. /\ \A q \in 1..(p - 1) : Asked(q)' = Asked(q)
          /\ \A q \in 1..(p - 1) : \A m \in (q + 1)..(p - 1) :
                Deleted(m)' = Deleted(m) /\ (IsMark(m)' <=> IsMark(m)) /\ input'[m] = input[m]
      BY <1>2, <3>1
    <3>4. QED  BY <3>2, <3>3 DEF Due
  <2>2. QED  BY <2>1
<1>6. IsMark(n)' => o = Served(Due(n)', e.ts)
  BY DueIs
<1>7. QED  BY <1>1, <1>2, <1>3, <1>4, <1>5, <1>6

LEMMA CallIs ==
  ASSUME NEW side, NEW k, NEW id, NEW c, NEW r, r = Caller(side, k, id, c)
  PROVE  r.kind = "record" /\ r.key = k /\ r.call = c
BY DEF Caller

LEMMA CallKeeps ==
  ASSUME EventTimeAssumption, Paired, TimersInv, Processing, NEW side, NEW k, NEW c \in Calls,
         FeedCall(Caller(side, k, Next1, c))
  PROVE  TimersInv'
<1>1. PICK r : r = Caller(side, k, Next1, c)
  OBVIOUS
<1>2. r.kind = "record" /\ r.key = k /\ r.call = c
  BY <1>1, CallIs
<1>3. FeedCall(r)
  BY <1>1
<1>4. PICK o : /\ input' = Append(input, r) /\ out' = Append(out, o) /\ operator' = operator
               /\ timers' = P!Call(timers, r.call, P!KeyOf(r))
  BY <1>3 DEF FeedCall, Fed, P!ProcessRecord, P!ProcessElement, P!KeyedElement, P!CoElement, P!UserCall
<1>5. Longer(input, r, input') /\ Longer(out, o, out')
  BY <1>4, AppendLonger DEF Paired
<1>6. PICK n : n = Len(input')
  OBVIOUS
<1>7. input'[n] = r
  BY <1>5, <1>6 DEF Longer
<1>8. ~IsMark(n)' /\ IsRecord(n)'
  BY <1>2, <1>7 DEF IsMark, IsRecord
<1>9. PICK f : f = <<c.time, KeyOf(r)>>
  OBVIOUS
<1>10. /\ Asked(n)' = IF c.op = "register" THEN {f} ELSE {}
       /\ Deleted(n)' = IF c.op = "delete" THEN {f} ELSE {}
  BY <1>2, <1>7, <1>8, <1>9 DEF Asked, Deleted, KeyOf
<1>11. f[1] \in 0..MaxTs
  BY <1>9 DEF EventTimeAssumption, Calls
<1>12. P!Timer(c.time, P!KeyOf(r)) = f
  BY <1>9 DEF P!Timer, P!KeyOf, KeyOf
<1>13. /\ DOMAIN timers' = {"event", "processing"}
       /\ timers'.event = IF c.op = "register" THEN timers.event \cup {f}
                          ELSE IF c.op = "delete" THEN timers.event \ {f} ELSE timers.event
  <2>1. DOMAIN timers = {"event", "processing"}
    BY DEF TimersInv
  <2>2. CASE c.op = "register"
    BY <1>2, <1>4, <1>12, <2>1, <2>2 DEF P!Call, P!RegisterEventTime
  <2>3. CASE c.op = "delete"
    BY <1>2, <1>4, <1>12, <2>1, <2>3 DEF P!Call, P!DeleteEventTime
  <2>4. CASE c.op = "register_processing"
    BY <1>2, <1>4, <2>1, <2>4 DEF P!Call, P!RegisterProcessingTime
  <2>5. CASE c.op = "delete_processing"
    BY <1>2, <1>4, <2>1, <2>5 DEF P!Call, P!DeleteProcessingTime
  <2>6. QED  BY <2>2, <2>3, <2>4, <2>5 DEF Calls
<1>14. timers'.event = {g \in timers.event : g \notin Deleted(n)' /\ ~(IsMark(n)' /\ Reaches(g, r.ts))}
                       \cup Asked(n)'
  BY <1>8, <1>10, <1>13
<1>15. /\ TimesOk /\ timers.event = Outstanding
       /\ \A p \in Positions : IsMark(p) => out[p] = Served(Due(p), input[p].ts)
  BY DEF TimersInv
<1>16. \A g \in Asked(n)' : g[1] \in 0..MaxTs
  BY <1>10, <1>11
<1>17. /\ TimesOk'
       /\ timers'.event = Outstanding'
       /\ \A p \in Positions' : IsMark(p)' => out'[p] = Served(Due(p)', input'[p].ts)
  BY <1>5, <1>6, <1>8, <1>14, <1>15, <1>16, TimersNext
<1>18. QED  BY <1>13, <1>17 DEF TimersInv, Served

LEMMA WatermarkKeeps ==
  ASSUME EventTimeAssumption, Paired, TimersInv, Processing, NEW t \in Marks,
         NEW rearm \in SUBSET timers.event, FeedWatermark(t, rearm)
  PROVE  TimersInv'
<1>1. PICK e : e = [kind |-> "watermark", ts |-> t, rearm |-> rearm]
  OBVIOUS
<1>2. e.kind = "watermark" /\ e.ts = t /\ e.rearm = rearm /\ t \in 0..MaxTs
  BY <1>1 DEF EventTimeAssumption
<1>3. PICK fired : fired = {f \in timers.event : Reaches(f, t)}
  OBVIOUS
<1>4. P!FireEventTimeUpTo(t) = fired
  BY <1>3 DEF P!FireEventTimeUpTo, Reaches, P!Plus, Plus
<1>5. PICK o : o = Served(fired, t)
  OBVIOUS
<1>6. PICK asked : asked = {<<Plus(f[1], 1), f[2]>> : f \in rearm}
  OBVIOUS
<1>7. P!OnTimers(t, rearm)
  BY DEF FeedWatermark, Processing, Windowed, Joining, P!ProcessWatermark,
         P!ProcessTimers, P!KeyedTimers, P!CoTimers
<1>8. /\ out' = Append(out, o)
      /\ timers' = [timers EXCEPT !.event = (timers.event \ fired) \cup asked]
  <2>1. {P!Timer(P!Plus(f[1], 1), P!TimerKey(f)) : f \in rearm} = asked
    BY <1>6 DEF P!Timer, P!Plus, Plus, P!TimerKey
  <2>2. timers' = [timers EXCEPT !.event = (timers.event \ fired) \cup asked]
    BY <1>4, <1>7, <2>1 DEF P!OnTimers
  <2>3. out' = Append(out, o)
    BY <1>4, <1>5, <1>7 DEF P!OnTimers, Served, P!Watermark, Watermark
  <2>4. QED  BY <2>2, <2>3
<1>9. input' = Append(input, e)
  BY <1>1 DEF FeedWatermark, Fed
<1>10. Longer(input, e, input') /\ Longer(out, o, out')
  BY <1>8, <1>9, AppendLonger DEF Paired
<1>11. PICK n : n = Len(input')
  OBVIOUS
<1>12. input'[n] = e
  BY <1>10, <1>11 DEF Longer
<1>13. IsMark(n)' /\ ~IsRecord(n)' /\ Asked(n)' = asked /\ Deleted(n)' = {}
  BY <1>2, <1>6, <1>12 DEF IsMark, IsRecord, Asked, Deleted
<1>14. /\ TimesOk /\ timers.event = Outstanding /\ DOMAIN timers = {"event", "processing"}
       /\ \A p \in Positions : IsMark(p) => out[p] = Served(Due(p), input[p].ts)
  BY DEF TimersInv
<1>15. \A f \in Asked(n)' : f[1] \in 0..MaxTs
  <2>1. \A f \in rearm : f[1] \in 0..MaxTs
    BY <1>14 DEF Outstanding, TimesOk
  <2>2. \A f \in rearm : Plus(f[1], 1) \in 0..MaxTs
    BY <2>1 DEF Plus, EventTimeAssumption
  <2>3. QED  BY <1>6, <1>13, <2>2
<1>16. /\ DOMAIN timers' = {"event", "processing"}
       /\ timers'.event = (timers.event \ fired) \cup asked
  BY <1>8, <1>14
<1>17. timers'.event = {f \in timers.event : f \notin Deleted(n)' /\ ~(IsMark(n)' /\ Reaches(f, e.ts))}
                       \cup Asked(n)'
  BY <1>2, <1>3, <1>13, <1>16
<1>18. e.ts \in 0..MaxTs /\ o = Served({f \in timers.event : Reaches(f, e.ts)}, e.ts)
  BY <1>2, <1>3, <1>5
<1>19. /\ TimesOk'
       /\ timers'.event = Outstanding'
       /\ \A p \in Positions' : IsMark(p)' => out'[p] = Served(Due(p)', input'[p].ts)
  BY <1>10, <1>11, <1>14, <1>15, <1>17, <1>18, TimersNext
<1>20. QED  BY <1>16, <1>19 DEF TimersInv, Served

LEMMA BarrierKeeps ==
  ASSUME EventTimeAssumption, Paired, TimersInv, Processing, FeedBarrier
  PROVE  TimersInv'
<1>1. PICK e : e = Barrier
  OBVIOUS
<1>2. e.kind = "barrier"
  BY <1>1 DEF Barrier
<1>3. input' = Append(input, e) /\ out' = Append(out, <<e>>) /\ timers' = timers
  BY <1>1 DEF FeedBarrier, Fed, service
<1>4. Longer(input, e, input') /\ Longer(out, <<e>>, out')
  BY <1>3, AppendLonger DEF Paired
<1>5. PICK n : n = Len(input')
  OBVIOUS
<1>6. ~IsMark(n)' /\ Asked(n)' = {} /\ Deleted(n)' = {}
  BY <1>2, <1>4, <1>5 DEF Longer, IsMark, IsRecord, Asked, Deleted
<1>7. /\ TimesOk /\ timers.event = Outstanding /\ DOMAIN timers = {"event", "processing"}
      /\ \A p \in Positions : IsMark(p) => out[p] = Served(Due(p), input[p].ts)
  BY DEF TimersInv
<1>8. timers'.event = {f \in timers.event : f \notin Deleted(n)' /\ ~(IsMark(n)' /\ Reaches(f, e.ts))}
                      \cup Asked(n)'
  BY <1>3, <1>6
<1>9. \A f \in Asked(n)' : f[1] \in 0..MaxTs
  BY <1>6
<1>10. PICK o : o = <<e>>
  OBVIOUS
<1>11. /\ TimesOk'
       /\ timers'.event = Outstanding'
       /\ \A p \in Positions' : IsMark(p)' => out'[p] = Served(Due(p)', input'[p].ts)
  BY <1>4, <1>5, <1>6, <1>7, <1>8, <1>9, <1>10, TimersNext
<1>12. QED  BY <1>3, <1>7, <1>11 DEF TimersInv, Served

(* Every timer fires once, with its own key and at the first watermark     *)
(* that reaches it, whatever is registered, deleted and registered again   *)
(* before and from within on_timer (timer.rs lines 42-58,                  *)
(* operator/process.rs).                                                   *)
THEOREM TimersCorrect == OperatorSpec => []TimersExact
<1>1. OperatorInit => TimersInv
  <2> SUFFICES ASSUME OperatorInit PROVE TimersInv
    OBVIOUS
  <2>1. Positions = {} /\ timers = [event |-> {}, processing |-> {}]
    BY DEF OperatorInit, Positions
  <2>2. QED  BY <2>1 DEF TimersInv, TimesOk, Outstanding
<1>2. EventTimeAssumption /\ Paired /\ TimersInv /\ [OperatorNext]_operatorVars => TimersInv'
  <2> SUFFICES ASSUME EventTimeAssumption, Paired, TimersInv, [OperatorNext]_operatorVars
               PROVE  TimersInv'
    OBVIOUS
  <2>1. CASE UNCHANGED operatorVars
    <3>1. UNCHANGED <<operator, timers, input, out>>
      BY <2>1 DEF operatorVars, service
    <3>2. \A p : /\ Asked(p)' = Asked(p) /\ Deleted(p)' = Deleted(p) /\ (IsMark(p)' <=> IsMark(p))
                 /\ Positions' = Positions
      BY <3>1 DEF Asked, Deleted, IsMark, IsRecord, Positions
    <3>3. Outstanding' = Outstanding
      BY <3>1, <3>2 DEF Outstanding
    <3>4. \A p : Due(p)' = Due(p)
      BY <3>1, <3>2 DEF Due
    <3>5. QED  BY <3>1, <3>2, <3>3, <3>4 DEF TimersInv, TimesOk, Processing, Served
  <2>2. CASE OperatorNext
    <3>1. operator' = operator
      BY <2>2, StepFeeds DEF Feeds
    <3>2. CASE ~Processing
      BY <3>1, <3>2 DEF TimersInv, Processing
    <3>3. CASE Processing
      BY <2>2, <3>3, CallKeeps, WatermarkKeeps, BarrierKeeps
         DEF OperatorNext, FeedRecord, FeedTracker, Tracking, Windowed, Joining, Processing
    <3>4. QED  BY <3>2, <3>3
  <2>3. QED  BY <2>1, <2>2
<1>3. TimersInv => TimersExact
  BY DEF TimersInv, TimersExact, Served
<1>4. EventTimeAssumption
  BY EventTimeAssumption
<1>5. QED  BY <1>1, <1>2, <1>3, <1>4, PairedAlways, PTL DEF OperatorSpec

-----------------------------------------------------------------------------
(* The records the windows and joins are given. *)

Recs ==
  [kind : {"record"}, side : {"left", "right"}, key : Nat \cup {None}, ts : 0..MaxTs, id : Nat]

Receiving == Windowed \/ Joining

Given ==
  /\ operator \in Operators
  /\ Receiving =>
       \A p \in Positions : /\ IsRecord(p) => input[p] \in Recs /\ input[p].id = p
                            /\ IsMark(p) => input[p].ts \in 0..MaxTs

Arrived == UNION {Arrivals(q) : q \in Positions}

(* A stateless operator passes on a record as it is, but for its key. *)
PassedOn(r, s) ==
  /\ s \in Recs /\ s.id = r.id /\ s.ts = r.ts /\ s.side = r.side
  /\ operator.stateless \in {"map", "filter"} => s = r

LEMMA StatelessIs ==
  ASSUME EventTimeAssumption, operator \in Operators, Receiving, NEW r \in Recs
  PROVE  /\ \A s \in Stateless(r) : PassedOn(r, s)
         /\ \A s, u \in Stateless(r) : s = u
<1>1. operator.stateless \in {"map", "filter", "key_by", "flat_map"}
  BY DEF EventTimeAssumption, Receiving, Windowed, Joining
<1>2. CASE operator.stateless = "map"
  BY <1>2 DEF Stateless, Map, PassedOn, Recs
<1>3. CASE operator.stateless = "filter"
  BY <1>3 DEF Stateless, Filter, PassedOn, Recs
<1>4. CASE operator.stateless = "key_by"
  <2>1. r.ts % 2 \in Nat
    BY DEF Recs
  <2>2. PICK k : k = r.ts % 2
    OBVIOUS
  <2>3. Stateless(r) = {[r EXCEPT !.key = k]}
    BY <1>4, <2>2 DEF Stateless, KeyBy
  <2>4. PassedOn(r, [r EXCEPT !.key = k])
    BY <1>4, <2>1, <2>2 DEF PassedOn, Recs
  <2>5. QED  BY <2>3, <2>4
<1>5. CASE operator.stateless = "flat_map"
  BY <1>5 DEF Stateless, FlatMap, PassedOn, Recs
<1>6. QED  BY <1>1, <1>2, <1>3, <1>4, <1>5

LEMMA ArrivalIs ==
  ASSUME EventTimeAssumption, Given, Receiving, NEW p \in Positions, NEW r \in Arrivals(p)
  PROVE  /\ IsRecord(p) /\ PassedOn(input[p], r) /\ r.id = p
         /\ \A s \in Arrivals(p) : s = r
<1>1. PICK x : x = input[p]
  OBVIOUS
<1>2. IsRecord(p) /\ x \in Recs /\ x.id = p /\ Arrivals(p) = Stateless(x)
  BY <1>1 DEF Arrivals, Given
<1>3. /\ \A s \in Stateless(x) : PassedOn(x, s)
      /\ \A s, u \in Stateless(x) : s = u
  BY <1>2, StatelessIs DEF Given
<1>4. QED  BY <1>1, <1>2, <1>3 DEF PassedOn

(* The id tells which record it is. *)
LEMMA ArrivedIs ==
  ASSUME EventTimeAssumption, Given, Receiving, NEW r \in Arrived
  PROVE  /\ r \in Recs /\ r.id \in Positions /\ r \in Arrivals(r.id) /\ PassedOn(input[r.id], r)
         /\ \A s \in Arrived : s.id = r.id => s = r
<1>1. \A s \in Arrived : s.id \in Positions /\ s \in Arrivals(s.id)
  <2>1. ASSUME NEW s \in Arrived
        PROVE  s.id \in Positions /\ s \in Arrivals(s.id)
    <3>1. PICK p \in Positions : s \in Arrivals(p)
      BY DEF Arrived
    <3>2. QED  BY <3>1, ArrivalIs
  <2>2. QED  BY <2>1
<1>2. PICK p \in Positions : p = r.id /\ r \in Arrivals(p)
  BY <1>1
<1>3. PassedOn(input[p], r) /\ \A s \in Arrivals(p) : s = r
  BY <1>2, ArrivalIs
<1>4. QED  BY <1>1, <1>2, <1>3 DEF PassedOn

LEMMA ArrivedFinite ==
  ASSUME EventTimeAssumption, Paired, Given, Receiving, NEW S \in SUBSET Arrived
  PROVE  IsFiniteSet(S)
<1>1. PICK n : n = Len(input)
  OBVIOUS
<1>2. n \in Nat /\ Positions = 1..n
  BY <1>1 DEF Paired, Listed, Positions
<1>3. IsFiniteSet(1..n)
  <2>1. 1 \in Int /\ n \in Int
    BY <1>2
  <2>2. QED  BY <2>1, FS_Interval
<1>4. PICK f : f = [r \in S |-> r.id]
  OBVIOUS
<1>5. f \in Injection(S, 1..n)
  <2>1. \A r \in S : r.id \in 1..n /\ \A s \in S : s.id = r.id => s = r
    BY <1>2, ArrivedIs
  <2>2. QED  BY <1>4, <2>1 DEF Injection, IsInjective
<1>6. QED  BY <1>3, <1>5, FS_Injection

THEOREM GivenAlways == OperatorSpec => []Given
<1>1. OperatorInit => Given
  BY DEF OperatorInit, Given, Positions
<1>2. EventTimeAssumption /\ Paired /\ Given /\ [OperatorNext]_operatorVars => Given'
  <2> SUFFICES ASSUME EventTimeAssumption, Paired, Given, [OperatorNext]_operatorVars
               PROVE  Given'
    OBVIOUS
  <2>1. CASE UNCHANGED operatorVars
    BY <2>1 DEF operatorVars, Given, Receiving, Windowed, Joining, Positions, IsRecord, IsMark
  <2>2. CASE OperatorNext
    <3>1. PICK e, o : Feeds(e, o)
      BY <2>2, StepFeeds
    <3>2. PICK n : n = Len(input')
      OBVIOUS
    <3>3. /\ Positions' = Positions \cup {n} /\ n = Next1
          /\ \A p \in Positions : input'[p] = input[p]
          /\ input'[n] = e /\ operator' = operator
      BY <3>1, <3>2 DEF Feeds, Paired, Longer, Listed, Positions, Next1
    <3>4. CASE ~Receiving
      BY <3>3, <3>4 DEF Given, Receiving, Windowed, Joining
    <3>5. ASSUME Receiving
          PROVE  /\ e.kind = "record" => e \in Recs /\ e.id = n
                 /\ e.kind = "watermark" => e.ts \in 0..MaxTs
      <4>1. \A f : input' = Append(input, f) => f = e
        <5>1. ASSUME NEW f, input' = Append(input, f)
              PROVE  f = e
          <6>1. Longer(input, f, input')
            BY <5>1, AppendLonger DEF Paired
          <6>2. QED  BY <3>1, <6>1 DEF Feeds, Longer
        <5>2. QED  BY <5>1
      <4>2. ASSUME NEW side \in Sides, NEW k \in Keys, NEW t \in Times,
                   FeedRecord(Record(side, k, t, Next1))
            PROVE  e \in Recs /\ e.id = n
        <5>1. e = Record(side, k, t, Next1)
          BY <4>1, <4>2 DEF FeedRecord, Fed
        <5>2. n \in Nat
          BY <3>3 DEF Next1, Paired, Listed
        <5>3. QED  BY <3>3, <5>1, <5>2 DEF Record, Recs, Sides, EventTimeAssumption
      <4>3. ASSUME NEW t \in Marks, NEW rearm, FeedWatermark(t, rearm)
            PROVE  e.ts \in 0..MaxTs /\ e.kind = "watermark"
        <5>1. e = [kind |-> "watermark", ts |-> t, rearm |-> rearm]
          BY <4>1, <4>3 DEF FeedWatermark, Fed
        <5>2. QED  BY <5>1 DEF EventTimeAssumption
      <4>4. ASSUME FeedBarrier
            PROVE  e.kind = "barrier"
        BY <4>1, <4>4 DEF FeedBarrier, Fed, Barrier
      <4>5. ~Processing /\ ~Tracking
        BY <3>5 DEF Receiving, Windowed, Joining, Processing, Tracking
      <4>6. \/ \E side \in Sides, k \in Keys, t \in Times : FeedRecord(Record(side, k, t, Next1))
            \/ \E t \in Marks, rearm \in SUBSET timers.event : FeedWatermark(t, rearm)
            \/ FeedBarrier
        BY <2>2, <4>5 DEF OperatorNext, FeedCall, FeedTracker
      <4>7. \A t, rearm : FeedWatermark(t, rearm) /\ t \in Marks => e.kind = "watermark" /\ e.ts \in 0..MaxTs
        BY <4>3
      <4>8. e \in Recs => e.kind = "record"
        BY DEF Recs
      <4>9. QED  BY <4>2, <4>4, <4>6, <4>7, <4>8
    <3>6. QED  BY <3>3, <3>4, <3>5 DEF Given, Receiving, Windowed, Joining, IsRecord, IsMark
  <2>3. QED  BY <2>1, <2>2
<1>3. EventTimeAssumption
  BY EventTimeAssumption
<1>4. QED  BY <1>1, <1>2, <1>3, PairedAlways, PTL DEF OperatorSpec

-----------------------------------------------------------------------------
(* The interval join: what its buffers hold. *)

(* No watermark before position p evicts r. *)
Spared(r, p) ==
  \A m \in (r.id + 1)..(p - 1) : IsMark(m) => r.ts >= Minus(input[m].ts, operator.upper)

Held(k, side) == {r \in Arrived : KeyOf(r) = k /\ r.side = side /\ Spared(r, Next1)}

BuffersHold ==
  /\ \A k : J!Buffers(k) = [left |-> Held(k, "left"), right |-> Held(k, "right")]
  /\ input # <<>> /\ IsMark(Len(input)) =>
       \A k \in DOMAIN buffers : Held(k, "left") \cup Held(k, "right") # {}

(* What one step does to the positions and the arrivals. *)
Extends(n, e) ==
  /\ Positions = 1..Len(input) /\ Positions' = 1..n /\ n = Len(input) + 1 /\ Len(input) \in Nat
  /\ Positions' = Positions \cup {n} /\ n \notin Positions
  /\ n = Next1 /\ Next1' = n + 1
  /\ \A p \in Positions : input'[p] = input[p] /\ p < n
  /\ input'[n] = e
  /\ \A p \in Positions : Arrivals(p)' = Arrivals(p) /\ (IsMark(p)' <=> IsMark(p))
  /\ Arrived' = Arrived \cup Arrivals(n)'
  /\ operator' = operator

LEMMA FeedExtends ==
  ASSUME Paired, NEW e, Longer(input, e, input'), operator' = operator, NEW n, n = Len(input')
  PROVE  Extends(n, e)
<1>1. /\ Positions = 1..Len(input) /\ Positions' = 1..n /\ n = Len(input) + 1 /\ Len(input) \in Nat
      /\ Positions' = Positions \cup {n} /\ n \notin Positions
      /\ n = Next1 /\ Next1' = n + 1
      /\ \A p \in Positions : input'[p] = input[p] /\ p < n
      /\ input'[n] = e
  BY DEF Paired, Longer, Listed, Positions, Next1
<1>2. \A r : Stateless(r)' = Stateless(r)
  BY DEF Stateless
<1>3. \A p \in Positions : Arrivals(p)' = Arrivals(p) /\ (IsMark(p)' <=> IsMark(p))
  BY <1>1, <1>2 DEF Arrivals, IsMark, IsRecord, Processing
<1>4. Arrived' = Arrived \cup Arrivals(n)'
  BY <1>1, <1>3 DEF Arrived
<1>5. QED  BY <1>1, <1>3, <1>4 DEF Extends

LEMMA NewArrival ==
  ASSUME EventTimeAssumption, Given, Given', Receiving, NEW n, NEW e, Extends(n, e),
         NEW s \in Arrivals(n)'
  PROVE  /\ e \in Recs /\ e.id = n /\ IsRecord(n)' /\ PassedOn(e, s) /\ s.id = n
         /\ \A u \in Arrivals(n)' : u = s
<1>1. IsRecord(n)' /\ input'[n] = e /\ n \in Positions' /\ operator' = operator
  BY DEF Extends, Arrivals
<1>2. Receiving'
  BY <1>1 DEF Receiving, Windowed, Joining
<1>3. e \in Recs /\ e.id = n
  BY <1>1, <1>2 DEF Given
<1>4. Arrivals(n)' = Stateless(e)
  <2>1. \A r : Stateless(r)' = Stateless(r)
    BY <1>1 DEF Stateless
  <2>2. ~Processing'
    BY <1>1 DEF Receiving, Windowed, Joining, Processing
  <2>3. QED  BY <1>1, <2>1, <2>2 DEF Arrivals
<1>5. /\ \A u \in Stateless(e) : PassedOn(e, u)
      /\ \A u, v \in Stateless(e) : u = v
  BY <1>3, StatelessIs DEF Given
<1>6. QED  BY <1>1, <1>3, <1>4, <1>5 DEF PassedOn

LEMMA HeldNext ==
  ASSUME EventTimeAssumption, Given, Given', Receiving, NEW n, NEW e, Extends(n, e)
  PROVE  \A k, side : Held(k, side)' =
           {r \in Held(k, side) : IsMark(n)' => r.ts >= Minus(e.ts, operator.upper)}
           \cup {r \in Arrivals(n)' : KeyOf(r) = k /\ r.side = side}
<1>1. ASSUME NEW r \in Arrived
      PROVE  Spared(r, Next1)' <=>
               Spared(r, Next1) /\ (IsMark(n)' => r.ts >= Minus(e.ts, operator.upper))
  <2>1. r.id \in Positions
    BY ArrivedIs
  <2>2. /\ \A m \in (r.id + 1)..(Next1 - 1) : m \in Positions /\ m \in (r.id + 1)..(Next1' - 1)
        /\ \A m \in (r.id + 1)..(Next1' - 1) : m \in (r.id + 1)..(Next1 - 1) \/ m = n
        /\ n \in (r.id + 1)..(Next1' - 1)
    BY <2>1 DEF Extends
  <2>3. /\ \A m \in Positions : input'[m] = input[m] /\ (IsMark(m)' <=> IsMark(m))
        /\ input'[n] = e /\ operator' = operator
    BY DEF Extends
  <2>4. QED  BY <2>2, <2>3 DEF Spared
<1>2. ASSUME NEW r \in Arrivals(n)'
      PROVE  Spared(r, Next1)'
  <2>2. r.id = n
    BY NewArrival
  <2>3. (r.id + 1)..(Next1' - 1) = {}
    BY <2>2 DEF Extends
  <2>4. QED  BY <2>3 DEF Spared
<1>3. Arrived' = Arrived \cup Arrivals(n)'
  BY DEF Extends
<1>4. QED  BY <1>1, <1>2, <1>3 DEF Held

LEMMA HoldsRecord ==
  ASSUME EventTimeAssumption, Paired, Given, Given', Joining, BuffersHold,
         NEW e, Longer(input, e, input'), NEW n, n = Len(input'), operator' = operator,
         IsRecord(n)',
         \/ Arrivals(n)' = {} /\ buffers' = buffers
         \/ \E s \in Arrivals(n)' : J!ProcessRecord(s)
  PROVE  BuffersHold'
<1>1. Extends(n, e)
  BY FeedExtends
<1>2. ~IsMark(n)' /\ Receiving
  BY DEF IsMark, IsRecord, Receiving
<1>3. \A k, side : Held(k, side)' = Held(k, side) \cup {r \in Arrivals(n)' : KeyOf(r) = k /\ r.side = side}
  BY <1>1, <1>2, HeldNext
<1>4. Len(input') = n
  OBVIOUS
<1>5. CASE Arrivals(n)' = {} /\ buffers' = buffers
  <2>1. \A k : J!Buffers(k)' = J!Buffers(k)
    BY <1>5 DEF J!Buffers
  <2>2. \A k : J!Buffers(k) = [left |-> Held(k, "left"), right |-> Held(k, "right")]
    BY DEF BuffersHold
  <2>3. \A k, side : Held(k, side)' = Held(k, side)
    BY <1>3, <1>5
  <2>4. QED  BY <1>2, <1>4, <2>1, <2>2, <2>3 DEF BuffersHold
<1>6. ASSUME NEW s \in Arrivals(n)', J!ProcessRecord(s)
      PROVE  BuffersHold'
  <2>1. Arrivals(n)' = {s} /\ s.side \in {"left", "right"}
    <3>1. PassedOn(e, s) /\ \A u \in Arrivals(n)' : u = s
      BY <1>1, <1>2, NewArrival
    <3>2. QED  BY <3>1 DEF PassedOn, Recs
  <2>2. PICK key : key = KeyOf(s)
    OBVIOUS
  <2>3. buffers' = [j \in DOMAIN buffers \cup {key} |->
                      IF j = key THEN [J!Buffers(key) EXCEPT ![s.side] = @ \cup {s}] ELSE buffers[j]]
    BY <1>6, <2>2 DEF J!ProcessRecord, J!KeyOf, KeyOf
  <2>4. \A k : J!Buffers(k) = [left |-> Held(k, "left"), right |-> Held(k, "right")]
    BY DEF BuffersHold
  <2>5. ASSUME NEW k, k # key
        PROVE  J!Buffers(k)' = [left |-> Held(k, "left"), right |-> Held(k, "right")]'
    <3>1. J!Buffers(k)' = J!Buffers(k)
      BY <2>3, <2>5 DEF J!Buffers
    <3>2. \A side : Held(k, side)' = Held(k, side)
      BY <1>3, <2>1, <2>2, <2>5
    <3>3. QED  BY <2>4, <3>1, <3>2
  <2>6. J!Buffers(key)' = [left |-> Held(key, "left"), right |-> Held(key, "right")]'
    <3>1. J!Buffers(key)' = buffers'[key] /\ key \in DOMAIN buffers'
      BY <2>3 DEF J!Buffers
    <3>2. \A side : Held(key, side)' = IF side = s.side THEN Held(key, side) \cup {s} ELSE Held(key, side)
      BY <1>3, <2>1, <2>2
    <3>3. PICK b : b = J!Buffers(key)
      OBVIOUS
    <3>4. DOMAIN b = {"left", "right"} /\ b["left"] = Held(key, "left") /\ b["right"] = Held(key, "right")
      BY <2>4, <3>3
    <3>5. buffers'[key] = [side \in {"left", "right"} |-> IF side = s.side THEN b[side] \cup {s} ELSE b[side]]
      <4>1. buffers'[key] = [b EXCEPT ![s.side] = b[s.side] \cup {s}]
        BY <2>3, <3>3
      <4>2. QED  BY <2>1, <3>4, <4>1
    <3>6. buffers'[key] = [side \in {"left", "right"} |-> Held(key, side)']
      BY <3>2, <3>4, <3>5
    <3>7. buffers'[key] = [left |-> Held(key, "left"), right |-> Held(key, "right")]'
      BY <3>6
    <3>8. QED  BY <3>1, <3>7
  <2>7. QED  BY <1>2, <1>4, <2>5, <2>6 DEF BuffersHold
<1>7. QED  BY <1>5, <1>6

LEMMA HoldsBarrier ==
  ASSUME EventTimeAssumption, Paired, Given, Given', Joining, BuffersHold, FeedBarrier
  PROVE  BuffersHold'
<1>1. PICK e : e = Barrier
  OBVIOUS
<1>2. PICK n : n = Len(input')
  OBVIOUS
<1>3. input' = Append(input, e) /\ buffers' = buffers /\ operator' = operator
  BY <1>1 DEF FeedBarrier, Fed
<1>4. Longer(input, e, input')
  BY <1>3, AppendLonger DEF Paired
<1>5. Extends(n, e)
  BY <1>2, <1>3, <1>4, FeedExtends
<1>6. ~IsMark(n)' /\ ~IsRecord(n)'
  BY <1>1, <1>5 DEF Extends, IsMark, IsRecord, Barrier
<1>7. Arrivals(n)' = {}
  BY <1>6 DEF Arrivals
<1>8. \A k, side : Held(k, side)' = Held(k, side)
  <2>1. Receiving
    BY DEF Receiving
  <2>2. \A k, side : Held(k, side)' =
          {r \in Held(k, side) : IsMark(n)' => r.ts >= Minus(e.ts, operator.upper)}
          \cup {r \in Arrivals(n)' : KeyOf(r) = k /\ r.side = side}
    BY <1>5, <2>1, HeldNext
  <2>3. QED  BY <1>6, <1>7, <2>2
<1>9. \A k : J!Buffers(k)' = J!Buffers(k)
  BY <1>3 DEF J!Buffers
<1>10. \A k : J!Buffers(k) = [left |-> Held(k, "left"), right |-> Held(k, "right")]
  BY DEF BuffersHold
<1>11. \A k : J!Buffers(k)' = [left |-> Held(k, "left"), right |-> Held(k, "right")]'
  BY <1>8, <1>9, <1>10
<1>12. QED  BY <1>2, <1>6, <1>11 DEF BuffersHold

LEMMA HoldsWatermark ==
  ASSUME EventTimeAssumption, Paired, Given, Given', Joining, BuffersHold,
         NEW t \in Marks, NEW rearm, FeedWatermark(t, rearm)
  PROVE  BuffersHold'
<1>1. PICK e : e = [kind |-> "watermark", ts |-> t, rearm |-> rearm]
  OBVIOUS
<1>2. PICK n : n = Len(input')
  OBVIOUS
<1>3. input' = Append(input, e) /\ operator' = operator /\ J!ProcessWatermark(t)
  BY <1>1 DEF FeedWatermark, Fed, Joining, Windowed, Processing
<1>4. Longer(input, e, input')
  BY <1>3, AppendLonger DEF Paired
<1>5. Extends(n, e)
  BY <1>2, <1>3, <1>4, FeedExtends
<1>6. IsMark(n)' /\ ~IsRecord(n)' /\ e.ts = t
  BY <1>1, <1>5 DEF Extends, IsMark, IsRecord
<1>7. Arrivals(n)' = {}
  BY <1>6 DEF Arrivals
<1> DEFINE Live(S) == {r \in S : r.ts >= Minus(t, operator.upper)}
<1>8. \A k, side : Held(k, side)' = Live(Held(k, side))
  BY <1>5, <1>6, <1>7, HeldNext DEF Receiving
<1>9. \A k : J!Buffers(k) = [left |-> Held(k, "left"), right |-> Held(k, "right")]
  BY DEF BuffersHold
<1>10. PICK kept : kept = [k \in DOMAIN buffers |-> [left |-> Live(buffers[k].left),
                                                     right |-> Live(buffers[k].right)]]
  OBVIOUS
<1>11. buffers' = [k \in {j \in DOMAIN kept : kept[j].left # {} \/ kept[j].right # {}} |-> kept[k]]
  BY <1>3, <1>10 DEF J!ProcessWatermark, J!Minus, Minus
<1>12. \A k \in DOMAIN buffers : kept[k] = [left |-> Held(k, "left")', right |-> Held(k, "right")']
  <2>1. ASSUME NEW k \in DOMAIN buffers
        PROVE  kept[k] = [left |-> Held(k, "left")', right |-> Held(k, "right")']
    <3>1. buffers[k].left = Held(k, "left") /\ buffers[k].right = Held(k, "right")
      <4>1. J!Buffers(k) = buffers[k]
        BY DEF J!Buffers
      <4>2. QED  BY <1>9, <4>1
    <3> HIDE DEF Live
    <3>2. QED  BY <1>8, <1>10, <3>1
  <2>2. QED  BY <2>1
<1>13. \A k : k \notin DOMAIN buffers => Held(k, "left")' = {} /\ Held(k, "right")' = {}
  <2>1. ASSUME NEW k, k \notin DOMAIN buffers
        PROVE  Held(k, "left")' = {} /\ Held(k, "right")' = {}
    <3>1. J!Buffers(k) = [left |-> {}, right |-> {}]
      BY <2>1 DEF J!Buffers
    <3>2. Held(k, "left") = {} /\ Held(k, "right") = {}
      BY <1>9, <3>1
    <3>3. \A r : r \notin Held(k, "left")' /\ r \notin Held(k, "right")'
      BY <1>8, <3>2
    <3>4. QED  BY <3>3
  <2>2. QED  BY <2>1
<1> HIDE DEF Live
<1>14. DOMAIN kept = DOMAIN buffers
  BY <1>10
<1>15. \A k \in DOMAIN buffers' : /\ k \in DOMAIN buffers /\ buffers'[k] = kept[k]
                                  /\ kept[k].left # {} \/ kept[k].right # {}
  BY <1>11, <1>14
<1>16. \A k \in DOMAIN buffers : k \notin DOMAIN buffers' => kept[k].left = {} /\ kept[k].right = {}
  BY <1>11, <1>14
<1>17. ASSUME NEW k
       PROVE  J!Buffers(k)' = [left |-> Held(k, "left"), right |-> Held(k, "right")]'
  <2>1. CASE k \in DOMAIN buffers'
    BY <1>12, <1>15, <2>1 DEF J!Buffers
  <2>2. CASE k \notin DOMAIN buffers'
    <3>1. Held(k, "left")' = {} /\ Held(k, "right")' = {}
      <4>1. CASE k \in DOMAIN buffers
        <5>1. kept[k] = [left |-> Held(k, "left")', right |-> Held(k, "right")']
          BY <1>12, <4>1
        <5>2. kept[k].left = {} /\ kept[k].right = {}
          BY <1>16, <2>2, <4>1
        <5>3. QED  BY <5>1, <5>2
      <4>2. QED  BY <1>13, <4>1
    <3>2. QED  BY <2>2, <3>1 DEF J!Buffers
  <2>3. QED  BY <2>1, <2>2
<1>18. \A k \in DOMAIN buffers' : Held(k, "left")' \cup Held(k, "right")' # {}
  <2>1. ASSUME NEW k \in DOMAIN buffers'
        PROVE  Held(k, "left")' \cup Held(k, "right")' # {}
    <3>1. kept[k] = [left |-> Held(k, "left")', right |-> Held(k, "right")']
      BY <1>12, <1>15
    <3>2. kept[k].left # {} \/ kept[k].right # {}
      BY <1>15
    <3>3. QED  BY <3>1, <3>2
  <2>2. QED  BY <2>1
<1>19. QED  BY <1>17, <1>18 DEF BuffersHold

LEMMA BuffersStart ==
  ASSUME OperatorInit
  PROVE  BuffersHold
<1>1. Positions = {} /\ input = <<>> /\ buffers = <<>>
  BY DEF OperatorInit, Positions
<1>2. \A k, side : Held(k, side) = {}
  BY <1>1 DEF Held, Arrived
<1>3. DOMAIN buffers = {}
  BY <1>1
<1>4. \A k : J!Buffers(k) = [left |-> {}, right |-> {}]
  BY <1>3 DEF J!Buffers
<1>5. QED  BY <1>1, <1>2, <1>4 DEF BuffersHold

(* What an interval join does on a record. *)
RecordJoined(n, o) ==
  \/ Arrivals(n)' = {} /\ o = <<>> /\ buffers' = buffers
  \/ \E s \in Arrivals(n)' : J!ProcessRecord(s) /\ out' = Append(out, o)

LEMMA JoinRecordIs ==
  ASSUME EventTimeAssumption, Paired, Given, Given', Joining, NEW side \in Sides, NEW k \in Keys, NEW t \in Times,
         FeedRecord(Record(side, k, t, Next1)), NEW n, n = Len(input')
  PROVE  \E e, o : /\ Longer(input, e, input') /\ Longer(out, o, out') /\ operator' = operator
                   /\ IsRecord(n)'
                   /\ RecordJoined(n, o)
<1>1. PICK e : e = Record(side, k, t, Next1)
  OBVIOUS
<1>2. FeedRecord(e) /\ input' = Append(input, e) /\ operator' = operator
  BY <1>1 DEF FeedRecord, Fed
<1>3. Longer(input, e, input')
  BY <1>2, AppendLonger DEF Paired
<1>5. IsRecord(n)' /\ Arrivals(n)' = Stateless(e)
  <2>1. input'[n] = e /\ e.kind = "record"
    BY <1>1, <1>3 DEF Longer, Record
  <2>2. \A r : Stateless(r)' = Stateless(r)
    BY <1>2 DEF Stateless
  <2>3. ~Processing'
    BY <1>2 DEF Joining, Processing
  <2>4. QED  BY <2>1, <2>2, <2>3 DEF Arrivals, IsRecord
<1>6. CASE Stateless(e) = {} /\ out' = Append(out, <<>>) /\ UNCHANGED <<panes, buffers, service>>
  <2>1. Longer(out, <<>>, out')
    BY <1>6, AppendLonger DEF Paired
  <2>2. RecordJoined(n, <<>>)
    BY <1>5, <1>6 DEF RecordJoined
  <2>3. QED  BY <1>2, <1>3, <1>5, <2>1, <2>2
<1>7. ASSUME NEW s \in Stateless(e), J!ProcessRecord(s)
      PROVE  \E o : Longer(out, o, out') /\ RecordJoined(n, o)
  <2>1. PICK o : out' = Append(out, o)
    BY <1>7 DEF J!ProcessRecord
  <2>2. Longer(out, o, out')
    BY <2>1, AppendLonger DEF Paired
  <2>3. RecordJoined(n, o)
    BY <1>5, <1>7, <2>1 DEF RecordJoined
  <2>4. QED  BY <2>2, <2>3
<1>8. \/ Stateless(e) = {} /\ out' = Append(out, <<>>) /\ UNCHANGED <<panes, buffers, service>>
      \/ \E s \in Stateless(e) : J!ProcessRecord(s)
  BY <1>2 DEF FeedRecord, Joining, Windowed
<1>9. CASE \E s \in Stateless(e) : J!ProcessRecord(s)
  BY <1>2, <1>3, <1>5, <1>7, <1>9
<1>10. QED  BY <1>6, <1>8, <1>9

(* The steps of an interval join. *)
JoinSteps ==
  \/ \E side \in Sides, k \in Keys, t \in Times : FeedRecord(Record(side, k, t, Next1))
  \/ \E t \in Marks, rearm \in SUBSET timers.event : FeedWatermark(t, rearm)
  \/ FeedBarrier

LEMMA ReceivingSteps ==
  ASSUME Receiving, OperatorNext
  PROVE  JoinSteps
<1>1. ~Processing /\ ~Tracking
  BY DEF Receiving, Windowed, Joining, Processing, Tracking
<1>2. QED  BY <1>1 DEF JoinSteps, OperatorNext, FeedCall, FeedTracker

BuffersInv == Joining => BuffersHold

THEOREM BuffersAlways == OperatorSpec => []BuffersInv
<1>1. OperatorInit => BuffersInv
  BY BuffersStart DEF BuffersInv
<1>2. EventTimeAssumption /\ Paired /\ Given /\ Given' /\ BuffersInv /\ [OperatorNext]_operatorVars => BuffersInv'
  <2> SUFFICES ASSUME EventTimeAssumption, Paired, Given, Given', BuffersInv,
                      [OperatorNext]_operatorVars, Joining'
               PROVE  BuffersHold'
    BY DEF BuffersInv
  <2>1. CASE UNCHANGED operatorVars
    <3>1. UNCHANGED <<operator, buffers, input>>
      BY <2>1 DEF operatorVars
    <3>2. BuffersHold
      BY <3>1 DEF BuffersInv, Joining
    <3>3. \A p : Arrivals(p)' = Arrivals(p) /\ (IsMark(p)' <=> IsMark(p)) /\ Positions' = Positions
      BY <3>1 DEF Arrivals, IsRecord, IsMark, Stateless, Positions, Processing
    <3>4. \A k, side : Held(k, side)' = Held(k, side)
      BY <3>1, <3>3 DEF Held, Arrived, Spared, Next1
    <3>5. \A k : J!Buffers(k)' = J!Buffers(k)
      BY <3>1 DEF J!Buffers
    <3>6. \A k : J!Buffers(k) = [left |-> Held(k, "left"), right |-> Held(k, "right")]
      BY <3>2 DEF BuffersHold
    <3>7. \A k : J!Buffers(k)' = [left |-> Held(k, "left"), right |-> Held(k, "right")]'
      BY <3>4, <3>5, <3>6
    <3>8. (input # <<>> /\ IsMark(Len(input)) =>
             \A k \in DOMAIN buffers : Held(k, "left") \cup Held(k, "right") # {})'
      BY <3>1, <3>2, <3>3, <3>4 DEF BuffersHold
    <3>9. QED  BY <3>7, <3>8 DEF BuffersHold
  <2>2. CASE OperatorNext
    <3>1. operator' = operator
      BY <2>2, StepFeeds DEF Feeds
    <3>2. Joining /\ BuffersHold /\ JoinSteps
      BY <2>2, <3>1, ReceivingSteps DEF BuffersInv, Joining, Receiving
    <3>3. ASSUME NEW side \in Sides, NEW k \in Keys, NEW t \in Times,
                 FeedRecord(Record(side, k, t, Next1))
          PROVE  BuffersHold'
      <4>1. PICK n : n = Len(input')
        OBVIOUS
      <4>2. PICK e, o : /\ Longer(input, e, input') /\ Longer(out, o, out') /\ operator' = operator
                        /\ IsRecord(n)'
                        /\ RecordJoined(n, o)
        BY <3>2, <3>3, <4>1, JoinRecordIs
      <4>3. \/ Arrivals(n)' = {} /\ buffers' = buffers
            \/ \E s \in Arrivals(n)' : J!ProcessRecord(s)
        BY <4>2 DEF RecordJoined
      <4>4. QED  BY <3>2, <4>1, <4>2, <4>3, HoldsRecord
    <3>4. QED  BY <3>2, <3>3, HoldsWatermark, HoldsBarrier DEF JoinSteps
  <2>3. QED  BY <2>1, <2>2
<1>3. EventTimeAssumption
  BY EventTimeAssumption
<1>4. QED  BY <1>1, <1>2, <1>3, PairedAlways, GivenAlways, PTL DEF OperatorSpec

(* After a watermark an interval join keeps only what a record still to    *)
(* come could match, and no entry of a key without any                     *)
(* (interval_join.rs lines 127-160).                                       *)
THEOREM JoinStateCorrect == OperatorSpec => []JoinStateBounded
<1>1. EventTimeAssumption /\ Paired /\ Given /\ BuffersInv => JoinStateBounded
  <2> SUFFICES ASSUME EventTimeAssumption, Paired, Given, BuffersInv,
                      Joining, input # <<>>, IsMark(Len(input)), NEW k \in DOMAIN buffers
               PROVE  LET kept == buffers[k].left \cup buffers[k].right IN
                      /\ kept # {}
                      /\ \A r \in kept : r.ts + operator.upper >= Last(input).ts
    BY DEF JoinStateBounded
  <2>1. PICK n : n = Len(input)
    OBVIOUS
  <2>2. n \in Positions /\ Last(input) = input[n] /\ Next1 = n + 1 /\ n \in Nat
    <3>1. n # 0
      BY <2>1 DEF Paired, Listed
    <3>2. QED  BY <2>1, <3>1 DEF Paired, Listed, Positions, Last, Next1
  <2>3. buffers[k].left = Held(k, "left") /\ buffers[k].right = Held(k, "right")
    <3>1. J!Buffers(k) = buffers[k]
      BY DEF J!Buffers
    <3>2. J!Buffers(k) = [left |-> Held(k, "left"), right |-> Held(k, "right")]
      BY DEF BuffersInv, BuffersHold
    <3>3. QED  BY <3>1, <3>2
  <2>4. Held(k, "left") \cup Held(k, "right") # {}
    BY DEF BuffersInv, BuffersHold
  <2>5. ASSUME NEW side, NEW r \in Held(k, side)
        PROVE  r.ts + operator.upper >= input[n].ts
    <3>1. r \in Arrived /\ Spared(r, Next1)
      BY DEF Held
    <3>2. r \in Recs /\ r.id \in Positions /\ PassedOn(input[r.id], r) /\ r \in Arrivals(r.id)
      BY <3>1, ArrivedIs DEF Receiving
    <3>3. r.id # n
      BY <2>1, <3>2 DEF Arrivals, IsRecord, IsMark
    <3>4. n \in (r.id + 1)..(Next1 - 1)
      BY <2>1, <2>2, <3>2, <3>3 DEF Positions, Paired, Listed
    <3>5. r.ts >= Minus(input[n].ts, operator.upper)
      BY <2>1, <3>1, <3>4 DEF Spared
    <3>6. input[n].ts \in Nat /\ r.ts \in Nat /\ operator.upper \in Nat
      BY <2>1, <2>2, <3>2 DEF Given, Receiving, Recs, EventTimeAssumption
    <3>7. QED  BY <3>5, <3>6 DEF Minus
  <2>6. QED  BY <2>2, <2>3, <2>4, <2>5
<1>2. EventTimeAssumption
  BY EventTimeAssumption
<1>3. QED  BY <1>1, <1>2, PairedAlways, GivenAlways, BuffersAlways, PTL

-----------------------------------------------------------------------------
(* The interval join: which pairs it emits. *)

(* The test a record x makes of y, which came before it. *)
Meet(x, y) ==
  \/ /\ x.side = "left" /\ y.side = "right"
     /\ Plus(x.ts, operator.lower) <= y.ts /\ y.ts <= Plus(x.ts, operator.upper)
  \/ /\ x.side = "right" /\ y.side = "left"
     /\ Minus(x.ts, operator.upper) <= y.ts /\ y.ts <= Minus(x.ts, operator.lower)

Couple(x, y) == IF x.side = "left" THEN <<x.id, y.id>> ELSE <<y.id, x.id>>

(* u is what is emitted of x and y. *)
Shows(u, x, y) ==
  KeyOf(x) = KeyOf(y) /\ Meet(x, y) /\ u.key = KeyOf(x) /\ u.of = Couple(x, y)

JoinedSo ==
  \A p \in Positions :
    /\ \A u \in ResultsOf(p) : \E x \in Arrivals(p) : \E y \in Arrived : y.id < p /\ Shows(u, x, y)
    /\ \A x \in Arrivals(p) : \A y \in Arrived :
         y.id < p /\ KeyOf(x) = KeyOf(y) /\ Meet(x, y) /\ Spared(y, p) =>
           \E u \in ResultsOf(p) : u.of = Couple(x, y)

LEMMA BetweenHolds ==
  ASSUME EventTimeAssumption, Paired, Given, Receiving, NEW S \in SUBSET Arrived, NEW a, NEW b,
         NEW m, m = J!Between(S, a, b)
  PROVE  /\ \A i \in DOMAIN m : m[i] \in S /\ a <= m[i].ts /\ m[i].ts <= b
         /\ \A y \in S : a <= y.ts /\ y.ts <= b => \E i \in DOMAIN m : m[i] = y
<1>1. PICK found : found = {r \in S : a <= r.ts /\ r.ts <= b}
  OBVIOUS
<1>2. PICK B : B = [s \in found |-> {r \in found : J!Earlier(r, s)}]
  OBVIOUS
<1>3. found \in SUBSET Arrived
  BY <1>1
<1>4. IsFiniteSet(found)
  BY <1>3, ArrivedFinite
<1>5. m = Sequenced(found, B)
  <2>1. m = J!Sequenced(found, B)
    BY <1>1, <1>2, Zenon DEF J!Between
  <2>2. PICK F : F = [i \in 1..Cardinality(found) |-> CHOOSE s \in found : Cardinality(B[s]) = i - 1]
    OBVIOUS
  <2>3. F = Sequenced(found, B)
    BY <2>2, Zenon DEF Sequenced
  <2>4. F = J!Sequenced(found, B)
    <3>1. \A T : J!Cardinality(T) = Cardinality(T)
      BY Zenon DEF J!Cardinality, Cardinality
    <3>2. QED  BY <2>2, <3>1 DEF J!Sequenced
  <2>5. QED  BY <2>1, <2>3, <2>4
<1>6. Ranks(found, B)
  <2>1. \A r, s \in found : /\ r.ts \in Nat /\ r.id \in Nat /\ s.ts \in Nat /\ s.id \in Nat
                            /\ r.id = s.id => r = s
    <3>1. \A r \in found : r \in Recs /\ \A s \in Arrived : s.id = r.id => s = r
      BY <1>3, ArrivedIs
    <3>2. QED  BY <1>3, <3>1 DEF Recs
  <2>2. \A r, s \in found : r \in B[s] <=> r.ts < s.ts \/ (r.ts = s.ts /\ r.id < s.id)
    BY <1>2 DEF J!Earlier
  <2>3. \A s \in found : B[s] \subseteq found
    BY <1>2
  <2>4. \A r, s \in found : r \in B[s] => B[r] \subseteq B[s]
    BY <2>1, <2>2, <2>3
  <2>5. \A s \in found : s \notin B[s]
    BY <2>1, <2>2
  <2>6. \A r, s \in found : r # s => r \in B[s] \/ s \in B[r]
    BY <2>1, <2>2
  <2>7. B \in [found -> SUBSET found]
    BY <1>2
  <2>8. QED  BY <2>4, <2>5, <2>6, <2>7 DEF Ranks
<1>7. InSequence(found, B, m)
  BY <1>4, <1>5, <1>6, SequencedHolds
<1>8. (\A i \in DOMAIN m : m[i] \in found) /\ (\A s \in found : \E i \in DOMAIN m : m[i] = s)
  BY <1>7 DEF InSequence
<1>9. QED  BY <1>1, <1>8

LEMMA MatchesHold ==
  ASSUME EventTimeAssumption, Paired, Given, Joining, BuffersHold, NEW s, s.side \in {"left", "right"},
         NEW m, m = J!Matches(s)
  PROVE  /\ \A i \in DOMAIN m : m[i] \in Arrived /\ KeyOf(m[i]) = KeyOf(s) /\ Meet(s, m[i])
         /\ \A y \in Arrived : KeyOf(y) = KeyOf(s) /\ Meet(s, y) /\ Spared(y, Next1) =>
              \E i \in DOMAIN m : m[i] = y
<1>1. PICK k : k = KeyOf(s)
  OBVIOUS
<1>2. J!Buffers(k) = [left |-> Held(k, "left"), right |-> Held(k, "right")] /\ J!KeyOf(s) = k
  BY <1>1 DEF BuffersHold, J!KeyOf, KeyOf
<1>3. \A t, d : J!Plus(t, d) = Plus(t, d) /\ J!Minus(t, d) = Minus(t, d)
  BY DEF J!Plus, J!Minus, Plus, Minus
<1>4. Receiving /\ Held(k, "left") \in SUBSET Arrived /\ Held(k, "right") \in SUBSET Arrived
  BY DEF Receiving, Held
<1>5. CASE s.side = "left"
  <2>1. PICK S : S = Held(k, "right")
    OBVIOUS
  <2>2. PICK a : a = Plus(s.ts, operator.lower)
    OBVIOUS
  <2>3. PICK b : b = Plus(s.ts, operator.upper)
    OBVIOUS
  <2>4. m = J!Between(S, a, b)
    BY <1>2, <1>3, <1>5, <2>1, <2>2, <2>3 DEF J!Matches
  <2>5. /\ \A i \in DOMAIN m : m[i] \in S /\ a <= m[i].ts /\ m[i].ts <= b
        /\ \A y \in S : a <= y.ts /\ y.ts <= b => \E i \in DOMAIN m : m[i] = y
    BY <1>4, <2>1, <2>4, BetweenHolds
  <2>6. \A y \in S : y \in Arrived /\ KeyOf(y) = KeyOf(s) /\ y.side = "right"
    BY <1>1, <2>1 DEF Held
  <2>7. \A y \in Arrived : KeyOf(y) = KeyOf(s) /\ y.side = "right" /\ Spared(y, Next1) => y \in S
    BY <1>1, <2>1 DEF Held
  <2>8. \A y : Meet(s, y) <=> y.side = "right" /\ a <= y.ts /\ y.ts <= b
    BY <1>5, <2>2, <2>3 DEF Meet
  <2>9. QED  BY <2>5, <2>6, <2>7, <2>8
<1>6. CASE s.side = "right"
  <2>1. PICK S : S = Held(k, "left")
    OBVIOUS
  <2>2. PICK a : a = Minus(s.ts, operator.upper)
    OBVIOUS
  <2>3. PICK b : b = Minus(s.ts, operator.lower)
    OBVIOUS
  <2>4. m = J!Between(S, a, b)
    BY <1>2, <1>3, <1>6, <2>1, <2>2, <2>3 DEF J!Matches
  <2>5. /\ \A i \in DOMAIN m : m[i] \in S /\ a <= m[i].ts /\ m[i].ts <= b
        /\ \A y \in S : a <= y.ts /\ y.ts <= b => \E i \in DOMAIN m : m[i] = y
    BY <1>4, <2>1, <2>4, BetweenHolds
  <2>6. \A y \in S : y \in Arrived /\ KeyOf(y) = KeyOf(s) /\ y.side = "left"
    BY <1>1, <2>1 DEF Held
  <2>7. \A y \in Arrived : KeyOf(y) = KeyOf(s) /\ y.side = "left" /\ Spared(y, Next1) => y \in S
    BY <1>1, <2>1 DEF Held
  <2>8. \A y : Meet(s, y) <=> y.side = "left" /\ a <= y.ts /\ y.ts <= b
    BY <1>6, <2>2, <2>3 DEF Meet
  <2>9. QED  BY <2>5, <2>6, <2>7, <2>8
<1>7. QED  BY <1>5, <1>6

(* What holds of the output o of the element at n. *)
EmitsPairs(n, o) ==
  /\ \A u \in ToSet(o) : u.kind = "result" =>
       \E x \in Arrivals(n) : \E y \in Arrived : y.id < n /\ Shows(u, x, y)
  /\ \A x \in Arrivals(n) : \A y \in Arrived :
       y.id < n /\ KeyOf(x) = KeyOf(y) /\ Meet(x, y) /\ Spared(y, n) =>
         \E u \in ToSet(o) : u.kind = "result" /\ u.of = Couple(x, y)

LEMMA JoinedNext ==
  ASSUME EventTimeAssumption, Given, Given', Receiving, JoinedSo, NEW n, NEW e, Extends(n, e),
         NEW o, Longer(out, o, out'), n = Len(out'), Len(out) = Len(input), EmitsPairs(n, o)'
  PROVE  JoinedSo'
<1>1. \A p \in Positions : out'[p] = out[p]
  BY DEF Longer, Extends
<1>2. out'[n] = o
  BY DEF Longer
<1>3. \A p \in Positions : ResultsOf(p)' = ResultsOf(p)
  BY <1>1 DEF ResultsOf, Emitted
<1>4. \A x, y : (Meet(x, y)' <=> Meet(x, y)) /\ \A u : (Shows(u, x, y)' <=> Shows(u, x, y))
  BY DEF Extends, Meet, Shows
<1>5. \A y \in Arrived : y.id \in Positions
  BY ArrivedIs
<1>6. ASSUME NEW p \in Positions, NEW y \in Arrived, y.id < p
      PROVE  Spared(y, p)' <=> Spared(y, p)
  <2>1. \A m \in (y.id + 1)..(p - 1) : m \in Positions
    BY <1>5 DEF Extends
  <2>2. \A m \in Positions : input'[m] = input[m] /\ (IsMark(m)' <=> IsMark(m)) /\ operator' = operator
    BY DEF Extends
  <2>3. QED  BY <2>1, <2>2 DEF Spared
<1>7. \A p \in Positions : \A y \in Arrived' : y.id < p => y \in Arrived
  <2>1. \A y \in Arrivals(n)' : y.id = n
    BY NewArrival
  <2>2. QED  BY <2>1 DEF Extends
<1>8. \A p \in Positions : p < n /\ Arrivals(p)' = Arrivals(p)
  BY DEF Extends
<1>9. ASSUME NEW p \in Positions
      PROVE  /\ \A u \in ResultsOf(p)' : \E x \in Arrivals(p)' : \E y \in Arrived' :
                  y.id < p /\ Shows(u, x, y)'
             /\ \A x \in Arrivals(p)' : \A y \in Arrived' :
                  y.id < p /\ KeyOf(x) = KeyOf(y) /\ Meet(x, y)' /\ Spared(y, p)' =>
                    \E u \in ResultsOf(p)' : u.of = Couple(x, y)
  <2>1. \A u \in ResultsOf(p) : \E x \in Arrivals(p) : \E y \in Arrived : y.id < p /\ Shows(u, x, y)
    BY DEF JoinedSo
  <2>2. \A x \in Arrivals(p) : \A y \in Arrived :
          y.id < p /\ KeyOf(x) = KeyOf(y) /\ Meet(x, y) /\ Spared(y, p) =>
            \E u \in ResultsOf(p) : u.of = Couple(x, y)
    BY DEF JoinedSo
  <2>3. Arrived \subseteq Arrived'
    BY DEF Extends
  <2>4. QED  BY <1>3, <1>4, <1>6, <1>7, <1>8, <2>1, <2>2, <2>3
<1>10. /\ \A u \in ResultsOf(n)' : \E x \in Arrivals(n)' : \E y \in Arrived' :
            y.id < n /\ Shows(u, x, y)'
       /\ \A x \in Arrivals(n)' : \A y \in Arrived' :
            y.id < n /\ KeyOf(x) = KeyOf(y) /\ Meet(x, y)' /\ Spared(y, n)' =>
              \E u \in ResultsOf(n)' : u.of = Couple(x, y)
  <2>1. ResultsOf(n)' = {u \in ToSet(o) : u.kind = "result"}
    BY <1>2 DEF ResultsOf, Emitted
  <2>2. QED  BY <2>1 DEF EmitsPairs
<1>11. Positions' = Positions \cup {n}
  BY DEF Extends
<1>12. QED  BY <1>9, <1>10, <1>11 DEF JoinedSo

LEMMA SilentPairs ==
  ASSUME NEW n, NEW o, Arrivals(n) = {}, \A u \in ToSet(o) : u.kind # "result"
  PROVE  EmitsPairs(n, o)
BY DEF EmitsPairs

LEMMA PairsRecord ==
  ASSUME EventTimeAssumption, Paired, Given, Given', Joining, BuffersHold,
         NEW n, NEW e, Extends(n, e), NEW s \in Arrivals(n)', J!ProcessRecord(s),
         NEW o, Longer(out, o, out'), out' = Append(out, o)
  PROVE  EmitsPairs(n, o)'
<1>1. PICK m : m = J!Matches(s)
  OBVIOUS
<1>2. Receiving
  BY DEF Receiving
<1>3. /\ \A x \in Arrivals(n)' : x = s /\ x.id = n
      /\ s.side \in {"left", "right"}
  <2>1. \A x \in Arrivals(n)' : x = s /\ x.id = n
    BY <1>2, NewArrival
  <2>2. PassedOn(e, s)
    BY <1>2, NewArrival
  <2>3. QED  BY <2>1, <2>2 DEF PassedOn, Recs
<1>4. o = [i \in DOMAIN m |-> J!Joined(s, m[i])]
  <2>1. PICK f : f = [i \in DOMAIN m |-> J!Joined(s, m[i])]
    OBVIOUS
  <2>2. out' = Append(out, f)
    BY <1>1, <2>1 DEF J!ProcessRecord
  <2>3. Longer(out, f, out')
    BY <2>2, AppendLonger DEF Paired
  <2>4. QED  BY <2>1, <2>3 DEF Longer
<1>5. /\ \A i \in DOMAIN m : m[i] \in Arrived /\ KeyOf(m[i]) = KeyOf(s) /\ Meet(s, m[i])
      /\ \A y \in Arrived : KeyOf(y) = KeyOf(s) /\ Meet(s, y) /\ Spared(y, Next1) =>
           \E i \in DOMAIN m : m[i] = y
  BY <1>1, <1>3, MatchesHold
<1>6. \A y : LET u == J!Joined(s, y) IN
        u.kind = "result" /\ u.key = KeyOf(s) /\ u.of = Couple(s, y)
  BY DEF J!Joined, J!Result, J!KeyOf, KeyOf, Couple
<1>7. ToSet(o) = {J!Joined(s, m[i]) : i \in DOMAIN m}
  BY <1>4 DEF ToSet
<1>8. \A y \in Arrived : y.id < n
  BY <1>2, ArrivedIs DEF Extends
<1>9. \A x, y : (Meet(x, y)' <=> Meet(x, y)) /\ \A u : (Shows(u, x, y)' <=> Shows(u, x, y))
  BY DEF Extends, Meet, Shows
<1>10. Arrived' = Arrived \cup Arrivals(n)' /\ Next1 = n
  BY DEF Extends
<1>11. ASSUME NEW y \in Arrived
       PROVE  Spared(y, n)' <=> Spared(y, n)
  <2>1. \A q \in (y.id + 1)..(n - 1) : q \in Positions
    BY <1>2, ArrivedIs DEF Extends
  <2>2. \A q \in Positions : input'[q] = input[q] /\ (IsMark(q)' <=> IsMark(q)) /\ operator' = operator
    BY DEF Extends
  <2>3. QED  BY <2>1, <2>2 DEF Spared
<1>12. \A u \in ToSet(o) : u.kind = "result" =>
         \E x \in Arrivals(n)' : \E y \in Arrived' : y.id < n /\ Shows(u, x, y)'
  <2>1. ASSUME NEW u \in ToSet(o)
        PROVE  \E y \in Arrived : y.id < n /\ Shows(u, s, y)
    <3>1. PICK i \in DOMAIN m : u = J!Joined(s, m[i])
      BY <1>7, <2>1
    <3>2. u.key = KeyOf(s) /\ u.of = Couple(s, m[i])
      BY <1>6, <3>1
    <3>3. QED  BY <1>5, <1>8, <3>2 DEF Shows
  <2>2. QED  BY <1>9, <1>10, <2>1
<1>13. \A x \in Arrivals(n)' : \A y \in Arrived' :
         y.id < n /\ KeyOf(x) = KeyOf(y) /\ Meet(x, y)' /\ Spared(y, n)' =>
           \E u \in ToSet(o) : u.kind = "result" /\ u.of = Couple(x, y)
  <2>1. ASSUME NEW y \in Arrived, KeyOf(s) = KeyOf(y), Meet(s, y), Spared(y, n)
        PROVE  \E u \in ToSet(o) : u.kind = "result" /\ u.of = Couple(s, y)
    <3>1. PICK i \in DOMAIN m : m[i] = y
      BY <1>5, <1>10, <2>1
    <3>2. J!Joined(s, y) \in ToSet(o)
      BY <1>7, <3>1
    <3>3. QED  BY <1>6, <3>2
  <2>2. \A y \in Arrived' : y.id < n => y \in Arrived
    <3>1. n \in Nat
      BY DEF Extends
    <3>2. QED  BY <1>3, <1>10, <3>1
  <2>3. QED  BY <1>3, <1>9, <1>11, <2>1, <2>2
<1>14. QED  BY <1>12, <1>13 DEF EmitsPairs

JoinedInv == Joining => JoinedSo

THEOREM JoinedAlways == OperatorSpec => []JoinedInv
<1>1. OperatorInit => JoinedInv
  BY DEF OperatorInit, JoinedInv, JoinedSo, Positions
<1>2. EventTimeAssumption /\ Paired /\ Paired' /\ Given /\ Given' /\ BuffersInv /\ JoinedInv
        /\ [OperatorNext]_operatorVars => JoinedInv'
  <2> SUFFICES ASSUME EventTimeAssumption, Paired, Paired', Given, Given', BuffersInv, JoinedInv,
                      [OperatorNext]_operatorVars, Joining'
               PROVE  JoinedSo'
    BY DEF JoinedInv
  <2>1. CASE UNCHANGED operatorVars
    <3>1. UNCHANGED <<operator, input, out>>
      BY <2>1 DEF operatorVars
    <3>2. JoinedSo
      BY <3>1 DEF JoinedInv, Joining
    <3>3. \A p : /\ Arrivals(p)' = Arrivals(p) /\ (IsMark(p)' <=> IsMark(p)) /\ Positions' = Positions
                 /\ ResultsOf(p)' = ResultsOf(p)
      BY <3>1 DEF Arrivals, IsRecord, IsMark, Stateless, Positions, Processing, ResultsOf, Emitted
    <3>4. Arrived' = Arrived
      BY <3>3 DEF Arrived
    <3>5. \A x, y, p : /\ Meet(x, y)' <=> Meet(x, y)
                       /\ Spared(x, p)' <=> Spared(x, p)
                       /\ \A u : (Shows(u, x, y)' <=> Shows(u, x, y))
      BY <3>1, <3>3 DEF Meet, Shows, Spared
    <3>6. QED  BY <3>2, <3>3, <3>4, <3>5 DEF JoinedSo
  <2>2. CASE OperatorNext
    <3>1. operator' = operator
      BY <2>2, StepFeeds DEF Feeds
    <3>2. Joining /\ BuffersHold /\ JoinedSo /\ JoinSteps /\ Receiving
      BY <2>2, <3>1, ReceivingSteps DEF BuffersInv, JoinedInv, Joining, Receiving
    <3>3. PICK n : n = Len(input')
      OBVIOUS
    <3>4. n = Len(out') /\ Len(out) = Len(input)
      BY <3>3 DEF Paired
    <3>5. ASSUME NEW side \in Sides, NEW k \in Keys, NEW t \in Times,
                 FeedRecord(Record(side, k, t, Next1))
          PROVE  JoinedSo'
      <4>1. PICK e, o : /\ Longer(input, e, input') /\ Longer(out, o, out') /\ operator' = operator
                        /\ IsRecord(n)'
                        /\ RecordJoined(n, o)
        BY <3>2, <3>3, <3>5, JoinRecordIs
      <4>2. Extends(n, e)
        BY <3>3, <4>1, FeedExtends
      <4>3. EmitsPairs(n, o)'
        <5>1. CASE Arrivals(n)' = {} /\ o = <<>>
          BY <5>1 DEF EmitsPairs, ToSet
        <5>2. ASSUME NEW s \in Arrivals(n)', J!ProcessRecord(s), out' = Append(out, o)
              PROVE  EmitsPairs(n, o)'
          BY <3>2, <4>1, <4>2, <5>2, PairsRecord
        <5>3. QED  BY <4>1, <5>1, <5>2 DEF RecordJoined
      <4>4. QED  BY <3>2, <3>4, <4>1, <4>2, <4>3, JoinedNext
    <3>6. ASSUME NEW e, NEW o, input' = Append(input, e), out' = Append(out, o),
                 e.kind # "record", \A u \in ToSet(o) : u.kind # "result"
          PROVE  JoinedSo'
      <4>1. Longer(input, e, input') /\ Longer(out, o, out')
        BY <3>6, AppendLonger DEF Paired
      <4>2. Extends(n, e)
        BY <3>1, <3>3, <4>1, FeedExtends
      <4>3. Arrivals(n)' = {}
        BY <3>6, <4>2 DEF Arrivals, IsRecord, Extends
      <4>4. EmitsPairs(n, o)'
        BY <3>6, <4>3 DEF EmitsPairs
      <4>5. QED  BY <3>2, <3>4, <4>1, <4>2, <4>4, JoinedNext
    <3>7. ASSUME NEW t \in Marks, NEW rearm, FeedWatermark(t, rearm)
          PROVE  JoinedSo'
      <4>1. PICK e : e = [kind |-> "watermark", ts |-> t, rearm |-> rearm]
        OBVIOUS
      <4>2. PICK o : o = <<J!Watermark(t)>>
        OBVIOUS
      <4>3. input' = Append(input, e) /\ out' = Append(out, o)
        BY <3>2, <3>7, <4>1, <4>2 DEF FeedWatermark, Fed, Joining, Windowed, Processing, J!ProcessWatermark
      <4>4. e.kind # "record" /\ \A u \in ToSet(o) : u.kind # "result"
        BY <4>1, <4>2 DEF ToSet, J!Watermark
      <4>5. QED  BY <3>6, <4>3, <4>4
    <3>8. ASSUME FeedBarrier
          PROVE  JoinedSo'
      <4>1. PICK e : e = Barrier
        OBVIOUS
      <4>2. PICK o : o = <<Barrier>>
        OBVIOUS
      <4>3. input' = Append(input, e) /\ out' = Append(out, o)
        BY <3>8, <4>1, <4>2 DEF FeedBarrier, Fed
      <4>4. e.kind # "record" /\ \A u \in ToSet(o) : u.kind # "result"
        BY <4>1, <4>2 DEF ToSet, Barrier
      <4>5. QED  BY <3>6, <4>3, <4>4
    <3>9. QED  BY <3>2, <3>5, <3>7, <3>8 DEF JoinSteps
  <2>3. QED  BY <2>1, <2>2
<1>3. EventTimeAssumption
  BY EventTimeAssumption
<1>4. QED  BY <1>1, <1>2, <1>3, PairedAlways, GivenAlways, BuffersAlways, PTL DEF OperatorSpec
(* MarkBefore is ahead of every watermark before it. *)
LEMMA MarkAhead ==
  ASSUME EventTimeAssumption, Paired, Given, Receiving, NEW p \in Positions,
         NEW m \in 1..(p - 1), IsMark(m)
  PROVE  MarkBefore(p) \in Int /\ input[m].ts <= MarkBefore(p)
<1>1. PICK S : S = {0} \cup {input[q].ts : q \in {n \in 1..(p - 1) : IsMark(n)}}
  OBVIOUS
<1>2. S \in SUBSET (0..MaxTs) /\ 0 \in S /\ input[m].ts \in S
  <2>1. \A q \in 1..(p - 1) : q \in Positions
    BY DEF Positions, Paired, Listed
  <2>2. MaxTs \in Nat
    BY DEF EventTimeAssumption
  <2>3. QED  BY <1>1, <2>1, <2>2 DEF Given
<1>3. PICK T : T = {MaxTs - x : x \in S}
  OBVIOUS
<1>4. T \in SUBSET Nat /\ T # {}
  BY <1>2, <1>3 DEF EventTimeAssumption
<1>5. PICK least \in T : \A y \in T : least <= y
  BY <1>4, LeastElement
<1>6. PICK x \in S : least = MaxTs - x
  BY <1>3
<1>7. \A y \in S : y <= x
  <2>1. \A y \in S : MaxTs - x <= MaxTs - y
    BY <1>3, <1>5, <1>6
  <2>2. QED  BY <1>2, <2>1 DEF EventTimeAssumption
<1>8. Max(S) = x
  BY <1>2, <1>7, MaxIs DEF EventTimeAssumption
<1>9. x \in Int
  BY <1>2 DEF EventTimeAssumption
<1>10. QED  BY <1>1, <1>2, <1>7, <1>8, <1>9 DEF MarkBefore

(* The condition two records match under, without the saturations. *)
Match(l, r) ==
  KeyOf(l) = KeyOf(r) /\ l.ts + operator.lower <= r.ts /\ r.ts <= l.ts + operator.upper

LEMMA MeetMatches ==
  ASSUME EventTimeAssumption, operator \in Operators, NEW l \in Recs, NEW r \in Recs,
         l.side = "left", r.side = "right", KeyOf(l) = KeyOf(r),
         l.ts > 0 \/ r.ts >= operator.lower, r.ts < MaxTs
  PROVE  (Meet(l, r) <=> Match(l, r)) /\ (Meet(r, l) <=> Match(l, r))
<1>1. PICK t, u, a, b : t = l.ts /\ u = r.ts /\ a = operator.lower /\ b = operator.upper
  OBVIOUS
<1>2. t \in Nat /\ u \in Nat /\ a \in Nat /\ b \in Nat /\ MaxTs \in Nat /\ a <= b
  BY <1>1 DEF Recs, EventTimeAssumption
<1>3. Match(l, r) <=> t + a <= u /\ u <= t + b
  BY <1>1 DEF Match
<1>4. Meet(l, r) <=> Plus(t, a) <= u /\ u <= Plus(t, b)
  BY <1>1 DEF Meet
<1>5. Meet(r, l) <=> Minus(u, b) <= t /\ t <= Minus(u, a)
  BY <1>1 DEF Meet
<1>6. Plus(t, a) <= u /\ u <= Plus(t, b) <=> t + a <= u /\ u <= t + b
  BY <1>1, <1>2 DEF Plus
<1>7. Minus(u, b) <= t /\ t <= Minus(u, a) <=> t + a <= u /\ u <= t + b
  BY <1>1, <1>2 DEF Minus
<1>8. QED  BY <1>3, <1>4, <1>5, <1>6, <1>7

(* A record on time is not evicted before a record it matches arrives. *)
LEMMA MatchSpared ==
  ASSUME EventTimeAssumption, Paired, Given, Receiving, OnTime,
         NEW l \in Arrived, NEW r \in Arrived, Match(l, r)
  PROVE  /\ l.id < r.id => Spared(l, r.id)
         /\ r.id < l.id => Spared(r, l.id)
<1>1. \A s \in Arrived : /\ s \in Recs /\ s.id \in Positions
                         /\ IsRecord(s.id) /\ input[s.id].ts = s.ts
  BY ArrivedIs DEF Arrivals, PassedOn
<1>2. /\ \A s \in Arrived : s.ts \in Nat
      /\ operator.lower \in Nat /\ operator.upper \in Nat
  BY <1>1 DEF Recs, Given, EventTimeAssumption
<1>3. Positions = 1..Len(input) /\ Len(input) \in Nat
  BY DEF Paired, Listed, Positions
<1>4. ASSUME NEW s \in Arrived, NEW m \in 1..(s.id - 1), IsMark(m)
      PROVE  input[m].ts \in Nat /\ input[m].ts < s.ts
  <2>1. s.id \in Positions /\ m \in Positions
    BY <1>1, <1>3
  <2>2. MarkBefore(s.id) \in Int /\ input[m].ts <= MarkBefore(s.id)
    BY <1>4, <2>1, MarkAhead
  <2>3. s.ts > MarkBefore(s.id)
    BY <1>1 DEF OnTime
  <2>4. input[m].ts \in Nat /\ s.ts \in Nat
    BY <1>2, <1>4, <2>1 DEF Given, EventTimeAssumption
  <2>5. QED  BY <2>2, <2>3, <2>4
<1>5. \A s, x \in Arrived : x.id < s.id => (x.id + 1)..(s.id - 1) \subseteq 1..(s.id - 1)
  BY <1>1, <1>3
<1>6. ASSUME l.id < r.id
      PROVE  Spared(l, r.id)
  BY <1>2, <1>4, <1>5, <1>6 DEF Spared, Match, Minus
<1>7. ASSUME r.id < l.id
      PROVE  Spared(r, l.id)
  BY <1>2, <1>4, <1>5, <1>7 DEF Spared, Match, Minus
<1>8. QED  BY <1>6, <1>7

(* The interval join emits a pair of records on time exactly once when     *)
(* they match, whichever of them came first and whatever was evicted in    *)
(* between, and no other pair (interval_join.rs lines 91-125).             *)
THEOREM IntervalJoinCorrect == OperatorSpec => []IntervalJoinExact
<1>1. EventTimeAssumption /\ Paired /\ Given /\ JoinedInv => IntervalJoinExact
  <2> SUFFICES ASSUME EventTimeAssumption, Paired, Given, JoinedInv, Joining,
                      NEW l \in Arrived, NEW r \in Arrived, l.side = "left", r.side = "right",
                      l.ts > 0 \/ r.ts >= operator.lower, r.ts < MaxTs
               PROVE  /\ Pairs(l, r) # {} => Match(l, r)
                      /\ Match(l, r) /\ OnTime => Cardinality(Pairs(l, r)) = 1
    BY DEF IntervalJoinExact, Arrived, Match
  <2>1. Receiving /\ operator \in Operators /\ JoinedSo
    BY DEF Receiving, Given, JoinedInv
  <2>2. \A s \in Arrived : /\ s \in Recs /\ s.id \in Positions /\ s \in Arrivals(s.id)
                           /\ \A x \in Arrived : x.id = s.id => x = s
    BY <2>1, ArrivedIs
  <2>3. l.id \in Nat /\ r.id \in Nat
    BY <2>2 DEF Recs
  <2>4. KeyOf(l) = KeyOf(r) => (Meet(l, r) <=> Match(l, r)) /\ (Meet(r, l) <=> Match(l, r))
    BY <2>1, <2>2, MeetMatches
  <2>5. ASSUME NEW p \in Pairs(l, r)
        PROVE  /\ Match(l, r)
               /\ l.id < r.id => p = r.id
               /\ r.id < l.id => p = l.id
    <3>1. p \in Positions /\ \E u \in ResultsOf(p) : u.of = <<l.id, r.id>>
      BY DEF Pairs
    <3>2. PICK u \in ResultsOf(p) : u.of = <<l.id, r.id>>
      BY <3>1
    <3>3. PICK x \in Arrivals(p), y \in Arrived : y.id < p /\ Shows(u, x, y)
      BY <2>1, <3>1 DEF JoinedSo
    <3>4. x \in Arrived /\ x.id = p
      <4>1. x \in Arrived
        BY <3>1, <3>3 DEF Arrived
      <4>2. input[p] \in Recs /\ input[p].id = p /\ x \in Stateless(input[p])
        BY <2>1, <3>1, <3>3 DEF Arrivals, Given
      <4>3. x.id = p
        BY <2>1, <4>2, StatelessIs DEF PassedOn
      <4>4. QED  BY <4>1, <4>3
    <3>5. Couple(x, y) = <<l.id, r.id>> /\ Meet(x, y) /\ KeyOf(x) = KeyOf(y)
      BY <3>2, <3>3 DEF Shows
    <3>6. CASE x.side = "left"
      <4>1. x.id = l.id /\ y.id = r.id
        BY <3>5, <3>6 DEF Couple
      <4>2. x = l /\ y = r
        BY <2>2, <3>4, <4>1
      <4>3. r.id < l.id /\ p = l.id
        BY <3>3, <3>4, <4>2
      <4>4. QED  BY <2>3, <2>4, <3>5, <4>2, <4>3
    <3>7. CASE x.side = "right"
      <4>1. x.id = r.id /\ y.id = l.id
        BY <3>5, <3>7 DEF Couple
      <4>2. x = r /\ y = l
        BY <2>2, <3>4, <4>1
      <4>3. l.id < r.id /\ p = r.id
        BY <3>3, <3>4, <4>2
      <4>4. QED  BY <2>3, <2>4, <3>5, <4>2, <4>3
    <3>8. QED  BY <3>5, <3>6, <3>7 DEF Meet
  <2>6. l.id # r.id
    BY <2>2
  <2>7. ASSUME Match(l, r), OnTime
        PROVE  \E p : Pairs(l, r) = {p}
    <3>1. /\ l.id < r.id => Spared(l, r.id)
          /\ r.id < l.id => Spared(r, l.id)
      BY <2>1, <2>7, MatchSpared
    <3>2. KeyOf(l) = KeyOf(r) /\ Meet(l, r) /\ Meet(r, l)
      BY <2>4, <2>7 DEF Match
    <3>3. CASE l.id < r.id
      <4>1. \E u \in ResultsOf(r.id) : u.of = Couple(r, l)
        BY <2>1, <2>2, <3>1, <3>2, <3>3 DEF JoinedSo
      <4>2. Couple(r, l) = <<l.id, r.id>>
        BY DEF Couple
      <4>3. r.id \in Pairs(l, r)
        BY <2>2, <4>1, <4>2 DEF Pairs
      <4>4. QED  BY <2>5, <3>3, <4>3
    <3>4. CASE r.id < l.id
      <4>1. \E u \in ResultsOf(l.id) : u.of = Couple(l, r)
        BY <2>1, <2>2, <3>1, <3>2, <3>4 DEF JoinedSo
      <4>2. Couple(l, r) = <<l.id, r.id>>
        BY DEF Couple
      <4>3. l.id \in Pairs(l, r)
        BY <2>2, <4>1, <4>2 DEF Pairs
      <4>4. QED  BY <2>5, <3>4, <4>3
    <3>5. l.id < r.id \/ r.id < l.id
      BY <2>3, <2>6
    <3>6. QED  BY <3>3, <3>4, <3>5
  <2>8. QED  BY <2>5, <2>7, FS_Singleton
<1>2. EventTimeAssumption
  BY EventTimeAssumption
<1>3. QED  BY <1>1, <1>2, PairedAlways, GivenAlways, JoinedAlways, PTL

-----------------------------------------------------------------------------
(* The windows a time is assigned. *)

(* What one start of the walk adds, and whether the walk ends there. *)
Covering(size, t, start) ==
  IF t < W!Wrapped(start + size) THEN {W!Window(start, W!Wrapped(start + size))} ELSE {}
Stops(size, slide, t, start) == start < slide \/ W!Wrapped(start - slide + size) <= t

(* f is the walk, from every start up to m. *)
Walked(f, size, slide, t, m) ==
  f = [start \in 0..m |-> Covering(size, t, start)
                          \cup (IF Stops(size, slide, t, start) THEN {} ELSE f[start - slide])]

LEMMA WalkIs ==
  ASSUME NEW size, NEW slide, NEW t
  PROVE  W!SlidingWindow(size, slide, t) =
           (CHOOSE f : Walked(f, size, slide, t, t))[(t \div slide) * slide]
BY Zenon DEF W!SlidingWindow, Walked, Covering, Stops

LEMMA WalkedAt ==
  ASSUME NEW f, NEW size, NEW slide, NEW t, NEW m, Walked(f, size, slide, t, m)
  PROVE  \A k \in 0..m : f[k] = Covering(size, t, k)
                                \cup (IF Stops(size, slide, t, k) THEN {} ELSE f[k - slide])
BY DEF Walked

LEMMA WalkExists ==
  ASSUME NEW size, NEW slide \in Nat \ {0}, NEW t, NEW m \in Nat
  PROVE  \E f : Walked(f, size, slide, t, m)
<1> DEFINE Bad == {q \in Nat : ~ \E f : Walked(f, size, slide, t, q)}
<1>1. SUFFICES ASSUME Bad # {} PROVE FALSE
  OBVIOUS
<1>2. PICK q \in Bad : \A y \in Bad : q <= y
  <2>1. Bad \in SUBSET Nat
    OBVIOUS
  <2>2. QED  BY <1>1, <2>1, LeastElement
<1>3. q \in Nat /\ ~ \E f : Walked(f, size, slide, t, q)
  OBVIOUS
<1>4. \E f : \A k \in 0..(q - 1) : f[k] = Covering(size, t, k)
                 \cup (IF Stops(size, slide, t, k) THEN {} ELSE f[k - slide])
  <2>1. CASE q = 0
    BY <2>1
  <2>2. CASE q # 0
    <3>1. q - 1 \in Nat /\ ~ (q <= q - 1)
      BY <1>3, <2>2
    <3>2. q - 1 \notin Bad
      <4> HIDE DEF Bad
      <4>1. QED  BY <1>2, <3>1
    <3>3. PICK f : Walked(f, size, slide, t, q - 1)
      BY <3>1, <3>2
    <3>4. QED  BY <3>3, WalkedAt
  <2>3. QED  BY <2>1, <2>2
<1>5. PICK f : \A k \in 0..(q - 1) : f[k] = Covering(size, t, k)
                 \cup (IF Stops(size, slide, t, k) THEN {} ELSE f[k - slide])
  BY <1>4
<1>6. PICK last : last = Covering(size, t, q)
                    \cup (IF Stops(size, slide, t, q) THEN {} ELSE f[q - slide])
  OBVIOUS
<1>7. PICK g : g = [k \in 0..q |-> IF k = q THEN last ELSE f[k]]
  OBVIOUS
<1>8. g = [k \in 0..q |-> g[k]] /\ g[q] = last /\ \A k \in 0..(q - 1) : g[k] = f[k]
  BY <1>3, <1>7
<1>9. ASSUME NEW k \in 0..q
      PROVE  g[k] = Covering(size, t, k)
                    \cup (IF Stops(size, slide, t, k) THEN {} ELSE g[k - slide])
  <2>1. ~Stops(size, slide, t, k) => k - slide \in 0..(q - 1)
    BY <1>3 DEF Stops
  <2>2. ~Stops(size, slide, t, k) => g[k - slide] = f[k - slide]
    BY <1>8, <2>1
  <2>3. CASE k = q
    BY <1>6, <1>8, <2>2, <2>3
  <2>4. CASE k # q
    <3>1. k \in 0..(q - 1)
      BY <1>3, <2>4
    <3>2. QED  BY <1>5, <1>8, <2>2, <3>1
  <2>5. QED  BY <2>3, <2>4
<1>10. Walked(g, size, slide, t, q)
  BY <1>8, <1>9 DEF Walked
<1>11. QED  BY <1>3, <1>10

(* The start the walk begins at. *)
LEMMA LastStart ==
  ASSUME NEW slide \in Nat \ {0}, NEW t \in Nat
  PROVE  \E n \in Nat : /\ n = t \div slide /\ n * slide \in 0..t /\ t < n * slide + slide
                        /\ n <= t
<1>1. PICK n : n = t \div slide
  OBVIOUS
<1>2. n \in Nat /\ t % slide \in 0..(slide - 1) /\ t = slide * n + (t % slide)
  BY <1>1
<1>3. n * slide \in Nat /\ n * slide = slide * n
  BY <1>2
<1>4. PICK x \in Nat : x = n * slide
  BY <1>3
<1>5. n <= x
  <2>1. PICK d \in Nat : slide = d + 1
    OBVIOUS
  <2>2. n * slide = n * d + n /\ n * d \in Nat
    BY <1>2, <2>1
  <2>3. QED  BY <1>2, <1>4, <2>2
<1>6. QED  BY <1>1, <1>2, <1>3, <1>4, <1>5

LEMMA WalkPick ==
  ASSUME NEW size, NEW slide \in Nat \ {0}, NEW t \in Nat
  PROVE  \E f : /\ Walked(f, size, slide, t, t)
                /\ W!SlidingWindow(size, slide, t) = f[(t \div slide) * slide]
<1>1. \E f : Walked(f, size, slide, t, t)
  BY WalkExists
<1> DEFINE f == CHOOSE f : Walked(f, size, slide, t, t)
<1>2. Walked(f, size, slide, t, t)
  BY <1>1
<1>3. QED  BY <1>2, WalkIs

(* Every window of the walk starts at or before t. *)
Starting(size, t) == {W!Window(start, W!Wrapped(start + size)) : start \in 0..t}

LEMMA WalkWithin ==
  ASSUME NEW size, NEW slide \in Nat \ {0}, NEW t \in Nat, NEW f, Walked(f, size, slide, t, t)
  PROVE  \A k \in 0..t : f[k] \subseteq Starting(size, t)
<1> DEFINE Bad == {k \in 0..t : ~(f[k] \subseteq Starting(size, t))}
<1>1. SUFFICES ASSUME Bad # {} PROVE FALSE
  OBVIOUS
<1>2. PICK k \in Bad : \A y \in Bad : k <= y
  <2>1. Bad \in SUBSET Nat
    OBVIOUS
  <2>2. QED  BY <1>1, <2>1, LeastElement
<1>3. k \in 0..t /\ ~(f[k] \subseteq Starting(size, t))
  OBVIOUS
<1>4. Covering(size, t, k) \subseteq Starting(size, t)
  BY <1>3 DEF Covering, Starting
<1>5. f[k] = Covering(size, t, k) \cup (IF Stops(size, slide, t, k) THEN {} ELSE f[k - slide])
  BY <1>3, WalkedAt
<1>6. ~Stops(size, slide, t, k) => f[k - slide] \subseteq Starting(size, t)
  <2>1. SUFFICES ASSUME ~Stops(size, slide, t, k) PROVE f[k - slide] \subseteq Starting(size, t)
    OBVIOUS
  <2>2. k - slide \in 0..t /\ ~(k <= k - slide)
    BY <1>3, <2>1 DEF Stops
  <2>3. k - slide \notin Bad
    <3> HIDE DEF Bad
    <3>1. QED  BY <1>2, <2>2
  <2>4. QED  BY <2>2, <2>3
<1>7. QED  BY <1>3, <1>4, <1>5, <1>6

(* What a finite set is mapped to is finite. *)
LEMMA FiniteImage ==
  ASSUME NEW S, IsFiniteSet(S), NEW f, DOMAIN f = S
  PROVE  IsFiniteSet({f[x] : x \in S})
<1>1. PICK T : T = {f[x] : x \in S}
  OBVIOUS
<1>2. PICK g : g = [x \in S |-> f[x]]
  OBVIOUS
<1>3. g \in Surjection(S, T)
  BY <1>1, <1>2 DEF Surjection
<1>4. QED  BY <1>1, <1>3, FS_Surjection

LEMMA StartingFinite ==
  ASSUME NEW size, NEW t \in Nat
  PROVE  IsFiniteSet(Starting(size, t))
<1>1. IsFiniteSet(0..t)
  <2>1. 0 \in Int /\ t \in Int
    OBVIOUS
  <2>2. QED  BY <2>1, FS_Interval
<1>2. PICK f : f = [start \in 0..t |-> W!Window(start, W!Wrapped(start + size))]
  OBVIOUS
<1>3. DOMAIN f = 0..t /\ Starting(size, t) = {f[x] : x \in 0..t}
  BY <1>2 DEF Starting
<1>4. QED  BY <1>1, <1>3, FiniteImage

(* What an operator of windows is given. *)
LEMMA AssignerIs ==
  ASSUME EventTimeAssumption, operator \in Operators, Windowed
  PROVE  Assigner(operator.assigner)
BY DEF EventTimeAssumption, Windowed

LEMMA AssignedWithin ==
  ASSUME EventTimeAssumption, operator \in Operators, Windowed, NEW t \in Nat
  PROVE  W!AssignWindows(t) \in SUBSET Starting(operator.assigner.size, t)
<1>1. PICK a, size, slide : a = operator.assigner /\ size = a.size /\ slide = a.slide
  OBVIOUS
<1>2. Assigner(a)
  BY <1>1, AssignerIs
<1>3. CASE a.kind = "tumbling"
  <2>1. PICK start : start = (t \div size) * size
    OBVIOUS
  <2>2. W!AssignWindows(t) = {W!Window(start, W!Wrapped(start + size))}
    BY <1>1, <1>3, <2>1 DEF W!AssignWindows, W!TumblingWindow
  <2>3. size \in Nat \ {0}
    BY <1>1, <1>2, <1>3 DEF Assigner
  <2>4. start \in 0..t
    BY <2>1, <2>3, LastStart
  <2>5. QED  BY <1>1, <2>2, <2>4 DEF Starting
<1>4. CASE a.kind # "tumbling"
  <2>1. slide \in Nat \ {0}
    BY <1>1, <1>2, <1>4 DEF Assigner
  <2>2. PICK f : /\ Walked(f, size, slide, t, t)
                 /\ W!SlidingWindow(size, slide, t) = f[(t \div slide) * slide]
    BY <2>1, WalkPick
  <2>3. (t \div slide) * slide \in 0..t
    BY <2>1, LastStart
  <2>4. f[(t \div slide) * slide] \subseteq Starting(size, t)
    BY <2>1, <2>2, <2>3, WalkWithin
  <2>5. W!AssignWindows(t) = W!SlidingWindow(size, slide, t)
    BY <1>1, <1>4 DEF W!AssignWindows
  <2>6. QED  BY <1>1, <2>2, <2>4, <2>5
<1>5. QED  BY <1>3, <1>4

LEMMA AssignedIs ==
  ASSUME EventTimeAssumption, operator \in Operators, Windowed, NEW t \in Nat
  PROVE  /\ IsFiniteSet(W!AssignWindows(t))
         /\ \A w \in W!AssignWindows(t) : w.end \in Nat
<1>1. PICK size : size = operator.assigner.size
  OBVIOUS
<1>2. W!AssignWindows(t) \in SUBSET Starting(size, t)
  BY <1>1, AssignedWithin
<1>3. IsFiniteSet(W!AssignWindows(t))
  BY <1>2, StartingFinite, FS_Subset
<1>4. ASSUME NEW w \in W!AssignWindows(t)
      PROVE  w.end \in Nat
  <2>1. PICK start \in 0..t : w = W!Window(start, W!Wrapped(start + size))
    BY <1>2 DEF Starting
  <2>2. size \in Nat /\ MaxTs \in Nat
    BY <1>1, AssignerIs DEF Assigner, EventTimeAssumption
  <2>3. W!Wrapped(start + size) \in Nat
    <3>1. PICK x \in Nat, m \in Nat \ {0} : x = start + size /\ m = MaxTs + 1
      BY <2>2
    <3>2. x % m \in Nat
      OBVIOUS
    <3>3. QED  BY <3>1, <3>2 DEF W!Wrapped
  <2>4. QED  BY <2>1, <2>3 DEF W!Window
<1>5. QED  BY <1>3, <1>4

LEMMA WrapsNot ==
  ASSUME EventTimeAssumption, NEW n \in Nat, n <= MaxTs
  PROVE  W!Wrapped(n) = n
<1>1. MaxTs \in Nat
  BY DEF EventTimeAssumption
<1>2. PICK m : m = MaxTs + 1
  OBVIOUS
<1>3. m \in Nat \ {0} /\ n < m
  BY <1>1, <1>2
<1>4. n % m = n
  BY <1>3
<1>5. QED  BY <1>2, <1>4 DEF W!Wrapped

(* The windows of the first n + 1 starts that reach past t. *)
Reaching(size, slide, t, n) ==
  {W!Window(i * slide, i * slide + size) : i \in {j \in 0..n : t < j * slide + size}}

LEMMA MultipleMonotone ==
  ASSUME NEW slide \in Nat, NEW i \in Nat, NEW n \in Nat, i <= n
  PROVE  i * slide \in Nat /\ n * slide \in Nat /\ i * slide <= n * slide
<1>1. PICK d \in Nat : n = i + d
  OBVIOUS
<1>2. n * slide = i * slide + d * slide /\ d * slide \in Nat /\ i * slide \in Nat
  BY <1>1
<1>3. QED  BY <1>2

LEMMA ReachingNext ==
  ASSUME NEW size \in Nat, NEW slide \in Nat \ {0}, NEW t \in Nat, NEW n \in Nat \ {0}
  PROVE  Reaching(size, slide, t, n) =
           Reaching(size, slide, t, n - 1)
           \cup {w \in {W!Window(n * slide, n * slide + size)} : t < n * slide + size}
<1>1. 0..n = 0..(n - 1) \cup {n}
  OBVIOUS
<1>2. QED  BY <1>1 DEF Reaching

LEMMA WalkExact ==
  ASSUME EventTimeAssumption, NEW size \in Nat, NEW slide \in Nat \ {0}, NEW t \in Nat,
         t + size <= MaxTs, NEW f, Walked(f, size, slide, t, t)
  PROVE  \A n \in Nat : n * slide \in 0..t => f[n * slide] = Reaching(size, slide, t, n)
<1> DEFINE Bad == {n \in Nat : n * slide \in 0..t /\ f[n * slide] # Reaching(size, slide, t, n)}
<1>1. SUFFICES ASSUME Bad # {} PROVE FALSE
  OBVIOUS
<1>2. PICK n \in Bad : \A y \in Bad : n <= y
  <2>1. Bad \in SUBSET Nat
    OBVIOUS
  <2>2. QED  BY <1>1, <2>1, LeastElement
<1>3. n \in Nat /\ n * slide \in 0..t /\ f[n * slide] # Reaching(size, slide, t, n)
  OBVIOUS
<1>4. PICK x : x = n * slide
  OBVIOUS
<1>5. x \in 0..t /\ f[x] # Reaching(size, slide, t, n)
  BY <1>3, <1>4
<1>6. \A start \in 0..t : W!Wrapped(start + size) = start + size
  <2>1. \A start \in 0..t : start + size \in Nat /\ start + size <= MaxTs
    BY DEF EventTimeAssumption
  <2>2. QED  BY <2>1, WrapsNot
<1>7. Covering(size, t, x) = {w \in {W!Window(x, x + size)} : t < x + size}
  BY <1>5, <1>6 DEF Covering
<1>8. f[x] = Covering(size, t, x) \cup (IF Stops(size, slide, t, x) THEN {} ELSE f[x - slide])
  BY <1>5, WalkedAt
<1>9. CASE n = 0
  <2>1. x = 0
    BY <1>4, <1>9
  <2>2. Stops(size, slide, t, x)
    BY <2>1 DEF Stops
  <2>3. Reaching(size, slide, t, n) = {w \in {W!Window(x, x + size)} : t < x + size}
    <3>1. 0..n = {0}
      BY <1>9
    <3>2. QED  BY <1>4, <1>9, <3>1, <2>1 DEF Reaching
  <2>4. QED  BY <1>5, <1>7, <1>8, <2>2, <2>3
<1>10. CASE n # 0
  <2>1. n - 1 \in Nat /\ (n - 1) * slide = x - slide /\ (n - 1) * slide \in Nat
    <3>1. PICK d \in Nat : n = d + 1
      BY <1>3, <1>10
    <3>2. n * slide = d * slide + slide /\ d * slide \in Nat
      BY <3>1
    <3>3. n - 1 = d
      BY <3>1
    <3>4. QED  BY <1>4, <1>5, <3>2, <3>3
  <2>2. (n - 1) * slide \in 0..t /\ x - slide \in 0..t /\ slide <= x
    BY <1>5, <2>1
  <2>3. f[x - slide] = Reaching(size, slide, t, n - 1)
    <3>1. n - 1 \notin Bad
      <4>1. ~(n <= n - 1)
        BY <1>3
      <4> HIDE DEF Bad
      <4>2. QED  BY <1>2, <4>1
    <3>2. f[(n - 1) * slide] = Reaching(size, slide, t, n - 1)
      BY <2>1, <2>2, <3>1
    <3>3. QED  BY <2>1, <3>2
  <2>4. Stops(size, slide, t, x) => Reaching(size, slide, t, n - 1) = {}
    <3>1. SUFFICES ASSUME Stops(size, slide, t, x), NEW i \in 0..(n - 1), t < i * slide + size
                   PROVE  FALSE
      BY DEF Reaching
    <3>2. x - slide + size <= t
      <4>1. W!Wrapped(x - slide + size) = x - slide + size
        BY <1>6, <2>2
      <4>2. ~(x < slide)
        BY <1>5, <2>2
      <4>3. QED  BY <3>1, <4>1, <4>2 DEF Stops
    <3>3. i * slide \in Nat /\ i * slide <= (n - 1) * slide
      BY <2>1, MultipleMonotone
    <3>4. QED  BY <1>5, <2>1, <3>1, <3>2, <3>3
  <2>5. Reaching(size, slide, t, n) =
          Reaching(size, slide, t, n - 1) \cup {w \in {W!Window(x, x + size)} : t < x + size}
    BY <1>3, <1>4, <1>10, ReachingNext
  <2>6. QED  BY <1>5, <1>7, <1>8, <2>3, <2>4, <2>5
<1>11. QED  BY <1>9, <1>10

(* The windows that contain t, of every start. *)
Containing(size, slide, t) ==
  {w \in {W!Window(n * slide, n * slide + size) : n \in 0..MaxTs} : W!InWindow(w, t)}

LEMMA ContainingReached ==
  ASSUME EventTimeAssumption, NEW size \in Nat, NEW slide \in Nat \ {0}, NEW t \in 0..MaxTs,
         NEW n, n = t \div slide
  PROVE  Containing(size, slide, t) = Reaching(size, slide, t, n)
<1>1. n \in Nat /\ n * slide \in 0..t /\ t < n * slide + slide /\ n <= t
  BY LastStart
<1>2. n <= MaxTs
  BY <1>1 DEF EventTimeAssumption
<1>3. \A i \in Nat : i * slide \in Nat
  OBVIOUS
<1>4. \A i \in Nat : W!InWindow(W!Window(i * slide, i * slide + size), t)
                      <=> i * slide <= t /\ t < i * slide + size
  BY DEF W!InWindow, W!Window
<1>5. ASSUME NEW i \in Nat
      PROVE  i * slide <= t <=> i <= n
  <2>1. CASE i <= n
    BY <1>1, <2>1, MultipleMonotone
  <2>2. CASE n + 1 <= i
    <3>1. n + 1 \in Nat
      BY <1>1
    <3>2. i * slide \in Nat /\ (n + 1) * slide <= i * slide
      BY <2>2, <3>1, MultipleMonotone
    <3>3. (n + 1) * slide = n * slide + slide
      BY <1>1
    <3>4. QED  BY <1>1, <2>2, <3>2, <3>3
  <2>3. QED  BY <1>1, <2>1, <2>2
<1>6. \A i \in 0..MaxTs : i \in Nat
  OBVIOUS
<1>7. \A i \in 0..n : i \in 0..MaxTs /\ i \in Nat /\ i <= n
  BY <1>1, <1>2 DEF EventTimeAssumption
<1>8. \A i \in Nat : i <= n => i \in 0..n
  BY <1>1
<1>9. ASSUME NEW w \in Containing(size, slide, t)
      PROVE  w \in Reaching(size, slide, t, n)
  <2>1. PICK i \in 0..MaxTs : w = W!Window(i * slide, i * slide + size)
    BY <1>9 DEF Containing
  <2>2. i \in Nat /\ W!InWindow(w, t)
    BY <1>9 DEF Containing
  <2>3. i \in 0..n /\ t < i * slide + size
    BY <1>4, <1>5, <1>8, <2>1, <2>2
  <2>4. QED  BY <2>1, <2>3 DEF Reaching
<1>10. ASSUME NEW w \in Reaching(size, slide, t, n)
       PROVE  w \in Containing(size, slide, t)
  <2>1. PICK i \in 0..n : w = W!Window(i * slide, i * slide + size) /\ t < i * slide + size
    BY <1>10 DEF Reaching
  <2>2. i \in 0..MaxTs /\ W!InWindow(w, t)
    BY <1>4, <1>5, <1>7, <2>1
  <2>3. QED  BY <2>1, <2>2 DEF Containing
<1>11. QED  BY <1>9, <1>10

(* The assigner gives a time the windows that contain it. *)
LEMMA AssignsExactly ==
  ASSUME EventTimeAssumption, operator \in Operators, Windowed, NEW t \in 0..MaxTs,
         t + operator.assigner.size <= MaxTs
  PROVE  W!AssignWindows(t) = WindowsOf(t)
<1>1. PICK a : a = operator.assigner
  OBVIOUS
<1>2. PICK size : size = a.size
  OBVIOUS
<1>3. Assigner(a) /\ size \in Nat /\ t \in Nat /\ t + size <= MaxTs
  BY <1>1, <1>2, AssignerIs DEF Assigner
<1>4. PICK slide : slide = IF a.kind = "tumbling" THEN size ELSE a.slide
  OBVIOUS
<1>5. slide \in Nat \ {0}
  BY <1>2, <1>3, <1>4 DEF Assigner
<1>6. PICK n : n = t \div slide
  OBVIOUS
<1>7. n \in Nat /\ n * slide \in 0..t /\ t < n * slide + slide
  BY <1>3, <1>5, <1>6, LastStart
<1>8. WindowsOf(t) = Reaching(size, slide, t, n)
  <2>1. WindowsOf(t) = Containing(size, slide, t)
    BY <1>1, <1>2, <1>4 DEF WindowsOf, Containing
  <2>2. QED  BY <1>3, <1>5, <1>6, <2>1, ContainingReached
<1>9. CASE a.kind = "tumbling"
  <2>1. PICK x : x = n * slide
    OBVIOUS
  <2>2. x \in 0..t /\ t < x + size /\ slide = size
    BY <1>4, <1>7, <1>9, <2>1
  <2>3. W!Wrapped(x + size) = x + size
    <3>1. x + size \in Nat /\ x + size <= MaxTs
      BY <1>3, <2>2 DEF EventTimeAssumption
    <3>2. QED  BY <3>1, WrapsNot
  <2>4. W!AssignWindows(t) = {W!Window(x, x + size)}
    BY <1>1, <1>2, <1>6, <1>9, <2>1, <2>2, <2>3 DEF W!AssignWindows, W!TumblingWindow
  <2>5. ASSUME NEW i \in 0..n, t < i * slide + size
        PROVE  i = n
    <3>1. SUFFICES ASSUME i <= n - 1 PROVE FALSE
      BY <1>7
    <3>2. PICK d \in Nat : n = d + 1
      BY <1>7, <3>1
    <3>3. i \in Nat /\ i <= d
      BY <3>1, <3>2
    <3>4. i * slide \in Nat /\ d * slide \in Nat /\ i * slide <= d * slide
      BY <1>5, <3>3, MultipleMonotone
    <3>5. n * slide = d * slide + slide
      BY <1>5, <3>2
    <3>6. QED  BY <1>3, <2>1, <2>2, <2>5, <3>4, <3>5
  <2>6. n \in 0..n
    BY <1>7
  <2>7. Reaching(size, slide, t, n) = {W!Window(x, x + size)}
    <3>1. {j \in 0..n : t < j * slide + size} = {n}
      BY <2>1, <2>2, <2>5, <2>6
    <3>2. QED  BY <2>1, <3>1 DEF Reaching
  <2>8. QED  BY <1>8, <2>4, <2>7
<1>10. CASE a.kind # "tumbling"
  <2>1. PICK f : Walked(f, size, slide, t, t) /\ W!SlidingWindow(size, slide, t) = f[n * slide]
    BY <1>3, <1>5, <1>6, WalkPick
  <2>2. f[n * slide] = Reaching(size, slide, t, n)
    BY <1>3, <1>5, <1>7, <2>1, WalkExact
  <2>3. W!AssignWindows(t) = W!SlidingWindow(size, slide, t)
    BY <1>1, <1>2, <1>4, <1>10 DEF W!AssignWindows
  <2>4. QED  BY <1>8, <2>1, <2>2, <2>3
<1>11. QED  BY <1>9, <1>10

-----------------------------------------------------------------------------
(* Records in their order of arrival. *)

Numbered(S) ==
  /\ IsFiniteSet(S)
  /\ \A r \in S : r.id \in Nat
  /\ \A r, s \in S : r.id = s.id => r = s

Earlier(S) == [s \in S |-> {r \in S : r.id < s.id}]

LEMMA ArrangedIs ==
  ASSUME NEW S, Numbered(S)
  PROVE  InSequence(S, Earlier(S), Arranged(S))
<1>1. PICK B : B = Earlier(S)
  OBVIOUS
<1>2. Ranks(S, B)
  <2>1. B \in [S -> SUBSET S]
    BY <1>1 DEF Earlier
  <2>2. \A r, s \in S : r \in B[s] <=> r.id < s.id
    BY <1>1 DEF Earlier
  <2>3. \A r \in S : r.id \in Nat
    BY DEF Numbered
  <2>4. \A s \in S : s \notin B[s]
    BY <2>2, <2>3
  <2>5. \A r, s \in S : r \in B[s] => B[r] \subseteq B[s]
    BY <2>1, <2>2, <2>3
  <2>6. \A r, s \in S : r # s => r \in B[s] \/ s \in B[r]
    BY <2>2, <2>3 DEF Numbered
  <2>7. QED  BY <2>1, <2>4, <2>5, <2>6 DEF Ranks
<1>3. Arranged(S) = Sequenced(S, B)
  BY <1>1, Zenon DEF Arranged, Earlier
<1>4. QED  BY <1>1, <1>2, <1>3, SequencedHolds DEF Numbered

LEMMA ArrangedHolds ==
  ASSUME NEW S, Numbered(S), NEW q, q = Arranged(S)
  PROVE  /\ ToSet(q) = S
         /\ q = <<>> <=> S = {}
<1>1. InSequence(S, Earlier(S), q)
  BY ArrangedIs
<1>2. PICK n : n = Cardinality(S)
  OBVIOUS
<1>3. /\ n \in Nat /\ DOMAIN q = 1..n /\ q = [k \in 1..n |-> q[k]]
      /\ \A k \in 1..n : q[k] \in S
      /\ \A s \in S : \E k \in 1..n : q[k] = s
  BY <1>1, <1>2 DEF InSequence
<1>4. ToSet(q) = S
  BY <1>3 DEF ToSet
<1>5. q \in Seq(S) /\ Len(q) = n
  BY <1>3
<1>6. q = <<>> <=> n = 0
  BY <1>5
<1>7. n = 0 <=> S = {}
  <2>1. IsFiniteSet(S)
    BY DEF Numbered
  <2>2. QED  BY <1>2, <2>1, FS_EmptySet
<1>8. QED  BY <1>4, <1>6, <1>7

(* The latest record comes last. *)
LEMMA ArrangedAppend ==
  ASSUME NEW S, Numbered(S), NEW r, r.id \in Nat, \A s \in S : s.id < r.id
  PROVE  Numbered(S \cup {r}) /\ Arranged(S \cup {r}) = Append(Arranged(S), r)
<1>1. PICK T : T = S \cup {r}
  OBVIOUS
<1>2. r \notin S /\ IsFiniteSet(S) /\ \A s \in S : s.id \in Nat
  BY DEF Numbered
<1>3. IsFiniteSet(T) /\ Cardinality(T) = Cardinality(S) + 1
  BY <1>1, <1>2, FS_AddElement
<1>4. Numbered(T)
  <2>1. \A s \in T : s.id \in Nat
    BY <1>1, <1>2
  <2>2. \A s \in S : s.id # r.id
    BY <1>2
  <2>3. \A s, u \in T : s.id = u.id => s = u
    BY <1>1, <2>2 DEF Numbered
  <2>4. QED  BY <1>3, <2>1, <2>3 DEF Numbered
<1>5. PICK n, B, C, p, q : /\ n = Cardinality(S) /\ B = Earlier(S) /\ C = Earlier(T)
                           /\ p = Arranged(S) /\ q = Arranged(T)
  OBVIOUS
<1>6. InSequence(S, B, p) /\ InSequence(T, C, q)
  BY <1>4, <1>5, ArrangedIs
<1>7. /\ n \in Nat /\ DOMAIN p = 1..n /\ p = [k \in 1..n |-> p[k]]
      /\ \A k \in 1..n : p[k] \in S /\ Cardinality(B[p[k]]) = k - 1
      /\ \A s \in S : \E k \in 1..n : p[k] = s
  BY <1>5, <1>6 DEF InSequence
<1>8. /\ DOMAIN q = 1..(n + 1) /\ q = [k \in 1..(n + 1) |-> q[k]]
      /\ \A k \in 1..(n + 1) : q[k] \in T /\ Cardinality(C[q[k]]) = k - 1
  BY <1>3, <1>5, <1>6 DEF InSequence
<1>9. C[r] = S /\ \A s \in S : C[s] = B[s]
  <2>1. \A s \in S : ~(r.id < s.id)
    BY <1>2
  <2>2. ~(r.id < r.id)
    OBVIOUS
  <2>3. C[r] = {s \in T : s.id < r.id} /\ \A s \in S : C[s] = {u \in T : u.id < s.id}
    BY <1>1, <1>5 DEF Earlier
  <2>4. \A s \in S : B[s] = {u \in S : u.id < s.id}
    BY <1>5 DEF Earlier
  <2>5. C[r] = S
    BY <1>1, <2>2, <2>3
  <2>6. ASSUME NEW s \in S
        PROVE  C[s] = B[s]
    <3>1. ~(r.id < s.id)
      BY <2>1
    <3>2. {u \in T : u.id < s.id} = {u \in S : u.id < s.id}
      BY <1>1, <3>1
    <3>3. C[s] = {u \in T : u.id < s.id}
      BY <2>3
    <3>4. B[s] = {u \in S : u.id < s.id}
      BY <2>4
    <3>5. QED  BY <3>2, <3>3, <3>4
  <2>7. QED  BY <2>5, <2>6
<1>10. ASSUME NEW k \in 1..n
       PROVE  q[k] = p[k]
  <2>1. k \in 1..(n + 1) /\ k - 1 # n
    BY <1>7
  <2>2. q[k] \in T /\ Cardinality(C[q[k]]) = k - 1
    BY <1>8, <2>1
  <2>3. q[k] # r
    BY <1>5, <1>9, <2>1, <2>2
  <2>4. q[k] \in S
    BY <1>1, <2>2, <2>3
  <2>5. PICK j \in 1..n : p[j] = q[k]
    BY <1>7, <2>4
  <2>6. j - 1 = k - 1
    BY <1>7, <1>9, <2>2, <2>4, <2>5
  <2>7. QED  BY <1>7, <2>5, <2>6
<1>11. q[n + 1] = r
  <2>1. n + 1 \in 1..(n + 1)
    BY <1>7
  <2>2. q[n + 1] \in T /\ Cardinality(C[q[n + 1]]) = n
    BY <1>7, <1>8, <2>1
  <2>3. SUFFICES ASSUME q[n + 1] \in S PROVE FALSE
    BY <1>1, <2>2
  <2>4. PICK j \in 1..n : p[j] = q[n + 1]
    BY <1>7, <2>3
  <2>5. j - 1 = n
    BY <1>7, <1>9, <2>2, <2>3, <2>4
  <2>6. QED  BY <1>7, <2>5
<1>12. q = Append(p, r)
  <2>1. p \in Seq(S \cup {r}) /\ Len(p) = n
    BY <1>7
  <2>2. PICK a : a = Append(p, r)
    OBVIOUS
  <2>3. /\ a \in Seq(S \cup {r}) /\ Len(a) = n + 1 /\ a[n + 1] = r
        /\ \A k \in 1..n : a[k] = p[k]
    BY <1>7, <2>1, <2>2
  <2>4. DOMAIN a = 1..(n + 1) /\ a = [k \in 1..(n + 1) |-> a[k]]
    BY <2>3
  <2>5. \A k \in 1..(n + 1) : k \in 1..n \/ k = n + 1
    BY <1>7
  <2>6. \A k \in 1..(n + 1) : a[k] = q[k]
    BY <1>10, <1>11, <2>3, <2>5
  <2>7. QED  BY <1>8, <2>2, <2>4, <2>6
<1>13. QED  BY <1>1, <1>4, <1>5, <1>12

-----------------------------------------------------------------------------
(* The windows: what their panes hold. *)

(* No watermark before position p closes w over r. *)
Unclosed(r, w, p) == \A m \in (r.id + 1)..(p - 1) : IsMark(m) => input[m].ts < w.end

(* The records of a key in the window w that none closes. *)
Pile(p, k, w, side) ==
  {r \in ArrivedBefore(p) : /\ KeyOf(r) = k /\ r.side = side
                            /\ w \in W!AssignWindows(r.ts) /\ Unclosed(r, w, p)}

Pending(k, w, side) == Pile(Next1, k, w, side)

PaneAt(k, w) == [key |-> k, window |-> w]

PanesHold ==
  /\ IsFiniteSet(DOMAIN panes)
  /\ \A p \in DOMAIN panes : \E k, w : p = PaneAt(k, w)
  /\ \A k, w : PaneAt(k, w) \in DOMAIN panes <=> Pending(k, w, "left") \cup Pending(k, w, "right") # {}
  /\ \A k, w : W!Pane(PaneAt(k, w)) = [left  |-> Arranged(Pending(k, w, "left")),
                                       right |-> Arranged(Pending(k, w, "right"))]

(* A window aggregate has one input. *)
OneSided == operator.kind = "window" => \A p \in Positions : IsRecord(p) => input[p].side = "left"

LEMMA ArrivedBeforeIs ==
  ASSUME Paired
  PROVE  ArrivedBefore(Next1) = Arrived
<1>1. 1..(Next1 - 1) = Positions
  BY DEF Paired, Listed, Positions, Next1
<1>2. QED  BY <1>1 DEF ArrivedBefore, Arrived

LEMMA PendingNext ==
  ASSUME EventTimeAssumption, Paired, Given, Given', Receiving, NEW n, NEW e, Extends(n, e)
  PROVE  \A k, w, side : Pending(k, w, side)' =
           {r \in Pending(k, w, side) : IsMark(n)' => e.ts < w.end}
           \cup {r \in Arrivals(n)' : KeyOf(r) = k /\ r.side = side /\ w \in W!AssignWindows(r.ts)}
<1>1. ASSUME NEW r \in Arrived, NEW w
      PROVE  Unclosed(r, w, Next1)' <=> Unclosed(r, w, Next1) /\ (IsMark(n)' => e.ts < w.end)
  <2>1. r.id \in Positions
    BY ArrivedIs
  <2>2. /\ \A m \in (r.id + 1)..(Next1 - 1) : m \in Positions /\ m \in (r.id + 1)..(Next1' - 1)
        /\ \A m \in (r.id + 1)..(Next1' - 1) : m \in (r.id + 1)..(Next1 - 1) \/ m = n
        /\ n \in (r.id + 1)..(Next1' - 1)
    BY <2>1 DEF Extends
  <2>3. /\ \A m \in Positions : input'[m] = input[m] /\ (IsMark(m)' <=> IsMark(m))
        /\ input'[n] = e /\ operator' = operator
    BY DEF Extends
  <2>4. QED  BY <2>2, <2>3 DEF Unclosed
<1>2. ASSUME NEW r \in Arrivals(n)', NEW w
      PROVE  Unclosed(r, w, Next1)'
  <2>1. r.id = n
    BY NewArrival
  <2>2. (r.id + 1)..(Next1' - 1) = {}
    BY <2>1 DEF Extends
  <2>3. QED  BY <2>2 DEF Unclosed
<1>3. Arrived' = Arrived \cup Arrivals(n)'
  BY DEF Extends
<1>4. ArrivedBefore(Next1) = Arrived /\ ArrivedBefore(Next1)' = Arrived'
  <2>1. 1..(Next1' - 1) = Positions'
    BY DEF Extends
  <2>2. ArrivedBefore(Next1)' = Arrived'
    BY <2>1 DEF ArrivedBefore, Arrived
  <2>3. QED  BY <2>2, ArrivedBeforeIs
<1>5. \A t : W!AssignWindows(t)' = W!AssignWindows(t)
  BY DEF Extends, W!AssignWindows
<1>6. \A k, w, side : Pending(k, w, side) =
        {r \in Arrived : KeyOf(r) = k /\ r.side = side /\ w \in W!AssignWindows(r.ts)
                         /\ Unclosed(r, w, Next1)}
  BY <1>4 DEF Pending, Pile
<1>7. \A k, w, side : Pending(k, w, side)' =
        {r \in Arrived \cup Arrivals(n)' : KeyOf(r) = k /\ r.side = side /\ w \in W!AssignWindows(r.ts)
                         /\ Unclosed(r, w, Next1)'}
  BY <1>3, <1>4, <1>5 DEF Pending, Pile
<1>8. QED  BY <1>1, <1>2, <1>6, <1>7

(* A pile is made of arrived records. *)
LEMMA PendingIs ==
  ASSUME EventTimeAssumption, Paired, Given, Receiving, NEW k, NEW w, NEW side
  PROVE  /\ Numbered(Pending(k, w, side))
         /\ \A r \in Pending(k, w, side) :
              /\ r \in Arrived /\ r \in Recs /\ r.id \in Nat /\ r.id < Next1
              /\ KeyOf(r) = k /\ r.side = side /\ w \in W!AssignWindows(r.ts)
<1>1. ArrivedBefore(Next1) = Arrived
  BY ArrivedBeforeIs
<1>2. Pending(k, w, side) \in SUBSET Arrived
  BY <1>1 DEF Pending, Pile
<1>3. IsFiniteSet(Pending(k, w, side))
  BY <1>2, ArrivedFinite
<1>4. \A r \in Arrived : r \in Recs /\ r.id \in Positions /\ \A s \in Arrived : s.id = r.id => s = r
  BY ArrivedIs
<1>5. \A p \in Positions : p \in Nat /\ p < Next1
  BY DEF Paired, Listed, Positions, Next1
<1>6. Numbered(Pending(k, w, side))
  BY <1>2, <1>3, <1>4, <1>5 DEF Numbered
<1>7. ASSUME NEW r \in Pending(k, w, side)
      PROVE  /\ r \in Arrived /\ r \in Recs /\ r.id \in Nat /\ r.id < Next1
             /\ KeyOf(r) = k /\ r.side = side /\ w \in W!AssignWindows(r.ts)
  <2>1. KeyOf(r) = k /\ r.side = side /\ w \in W!AssignWindows(r.ts)
    BY DEF Pending, Pile
  <2>2. QED  BY <1>2, <1>4, <1>5, <2>1
<1>8. QED  BY <1>6, <1>7

(* A window something pends in ends at a time. *)
LEMMA PendingEnds ==
  ASSUME EventTimeAssumption, Paired, Given, Windowed, NEW k, NEW w, NEW side,
         NEW r \in Pending(k, w, side)
  PROVE  w.end \in Nat
<1>1. r \in Recs /\ w \in W!AssignWindows(r.ts)
  BY PendingIs DEF Receiving
<1>2. r.ts \in Nat
  BY <1>1 DEF Recs
<1>3. operator \in Operators
  BY DEF Given
<1>4. QED  BY <1>1, <1>2, <1>3, AssignedIs

(* What a windowed operator does on a record. *)
RecordTaken(n) ==
  \/ Arrivals(n)' = {} /\ panes' = panes
  \/ \E s \in Arrivals(n)' : W!ProcessRecord(s)

LEMMA WindowRecordIs ==
  ASSUME EventTimeAssumption, Paired, Given, Given', Windowed, NEW side \in Sides, NEW k \in Keys,
         NEW t \in Times, FeedRecord(Record(side, k, t, Next1)), NEW n, n = Len(input')
  PROVE  \E e : /\ Longer(input, e, input') /\ Longer(out, <<>>, out') /\ operator' = operator
                /\ IsRecord(n)' /\ e.side = side
                /\ RecordTaken(n)
<1>1. PICK e : e = Record(side, k, t, Next1)
  OBVIOUS
<1>2. FeedRecord(e) /\ input' = Append(input, e) /\ operator' = operator
  BY <1>1 DEF FeedRecord, Fed
<1>3. Longer(input, e, input')
  BY <1>2, AppendLonger DEF Paired
<1>4. IsRecord(n)' /\ Arrivals(n)' = Stateless(e)
  <2>1. input'[n] = e /\ e.kind = "record"
    BY <1>1, <1>3 DEF Longer, Record
  <2>2. \A r : Stateless(r)' = Stateless(r)
    BY <1>2 DEF Stateless
  <2>3. ~Processing'
    BY <1>2 DEF Windowed, Processing
  <2>4. QED  BY <2>1, <2>2, <2>3 DEF Arrivals, IsRecord
<1>5. \/ Stateless(e) = {} /\ out' = Append(out, <<>>) /\ UNCHANGED <<panes, buffers, service>>
      \/ \E s \in Stateless(e) : W!ProcessRecord(s)
  BY <1>2 DEF FeedRecord, Joining, Windowed
<1>6. out' = Append(out, <<>>)
  BY <1>5 DEF W!ProcessRecord
<1>7. Longer(out, <<>>, out')
  BY <1>6, AppendLonger DEF Paired
<1>8. RecordTaken(n)
  BY <1>4, <1>5 DEF RecordTaken
<1>9. e.side = side
  BY <1>1 DEF Record
<1>10. QED  BY <1>2, <1>3, <1>4, <1>7, <1>8, <1>9

LEMMA PanesRecord ==
  ASSUME EventTimeAssumption, Paired, Given, Given', Windowed, OneSided, PanesHold,
         NEW n, NEW e, Extends(n, e), IsRecord(n)', operator.kind = "window" => e.side = "left",
         NEW s \in Arrivals(n)', W!ProcessRecord(s)
  PROVE  PanesHold'
<1>1. PICK key, side, Q : key = KeyOf(s) /\ side = s.side /\ Q = W!PanesOf(s)
  OBVIOUS
<1>2. /\ e \in Recs /\ PassedOn(e, s) /\ s \in Recs /\ s.id = n /\ Arrivals(n)' = {s}
      /\ side \in {"left", "right"}
  <2>1. e \in Recs /\ PassedOn(e, s) /\ s.id = n /\ \A u \in Arrivals(n)' : u = s
    BY NewArrival DEF Receiving
  <2>2. s \in Recs
    BY <2>1 DEF PassedOn
  <2>3. QED  BY <1>1, <2>1, <2>2 DEF Recs
<1>3. s.ts \in Nat /\ operator \in Operators
  BY <1>2 DEF Recs, Given
<1>4. panes' = W!Added(s)
  <2>1. CASE operator.kind = "window"
    <3>1. s.side = "left"
      BY <1>2, <2>1 DEF PassedOn
    <3>2. [s EXCEPT !.side = "left"] = s
      BY <1>2, <3>1 DEF Recs
    <3>3. QED  BY <2>1, <3>2 DEF W!ProcessRecord, W!WindowRecord, W!JoinRecord, W!CogroupRecord
  <2>2. CASE operator.kind # "window"
    BY <2>2 DEF W!ProcessRecord, W!WindowRecord, W!JoinRecord, W!CogroupRecord
  <2>3. QED  BY <2>1, <2>2
<1>5. \A k, w : PaneAt(k, w) \in Q <=> k = key /\ w \in W!AssignWindows(s.ts)
  <2>1. Q = {PaneAt(key, w) : w \in W!AssignWindows(s.ts)}
    BY <1>1 DEF W!PanesOf, PaneAt, W!KeyOf, KeyOf
  <2>2. \A k, w, j, v : PaneAt(k, w) = PaneAt(j, v) => k = j /\ w = v
    BY DEF PaneAt
  <2>3. QED  BY <2>1, <2>2
<1>6. \A p \in Q : \E w : p = PaneAt(key, w)
  BY <1>1 DEF W!PanesOf, PaneAt, W!KeyOf, KeyOf
<1>7. IsFiniteSet(Q)
  <2>1. PICK S : S = W!AssignWindows(s.ts)
    OBVIOUS
  <2>2. IsFiniteSet(S)
    BY <1>3, <2>1, AssignedIs
  <2>3. PICK f : f = [w \in S |-> PaneAt(key, w)]
    OBVIOUS
  <2>4. DOMAIN f = S /\ Q = {f[w] : w \in S}
    BY <1>1, <2>1, <2>3 DEF W!PanesOf, PaneAt, W!KeyOf, KeyOf
  <2>5. QED  BY <2>2, <2>4, FiniteImage
<1>8. /\ DOMAIN panes' = DOMAIN panes \cup Q
      /\ \A p \in Q : panes'[p] = [W!Pane(p) EXCEPT ![side] = Append(@, s)]
      /\ \A p \in DOMAIN panes \ Q : panes'[p] = panes[p]
  BY <1>1, <1>4 DEF W!Added
<1>9. /\ \A p \in Q : W!Pane(p)' = [W!Pane(p) EXCEPT ![side] = Append(@, s)]
      /\ \A p : p \notin Q => W!Pane(p)' = W!Pane(p)
  BY <1>8 DEF W!Pane
<1>10. \A k, w, d : Pending(k, w, d)' =
         Pending(k, w, d) \cup (IF PaneAt(k, w) \in Q /\ d = side THEN {s} ELSE {})
  <2>1. ~IsMark(n)'
    BY DEF IsMark, IsRecord
  <2>2. \A k, w, d : Pending(k, w, d)' =
           {r \in Pending(k, w, d) : IsMark(n)' => e.ts < w.end}
           \cup {r \in Arrivals(n)' : KeyOf(r) = k /\ r.side = d /\ w \in W!AssignWindows(r.ts)}
    BY PendingNext DEF Receiving
  <2>3. \A k, w, d : {r \in Arrivals(n)' : KeyOf(r) = k /\ r.side = d /\ w \in W!AssignWindows(r.ts)}
                       = IF PaneAt(k, w) \in Q /\ d = side THEN {s} ELSE {}
    BY <1>1, <1>2, <1>5
  <2>4. QED  BY <2>1, <2>2, <2>3
<1>11. \A k, w, d : /\ Numbered(Pending(k, w, d))
                    /\ \A r \in Pending(k, w, d) : r.id < s.id
  <2>1. Next1 = n
    BY DEF Extends
  <2>2. QED  BY <1>2, <2>1, PendingIs DEF Receiving
<1>12. \A k, w : W!Pane(PaneAt(k, w)) = [left  |-> Arranged(Pending(k, w, "left")),
                                         right |-> Arranged(Pending(k, w, "right"))]
  BY DEF PanesHold
<1>13. ASSUME NEW k, NEW w
       PROVE  W!Pane(PaneAt(k, w))' = [left  |-> Arranged(Pending(k, w, "left")),
                                       right |-> Arranged(Pending(k, w, "right"))]'
  <2>1. \A S : Arranged(S)' = Arranged(S)
    BY DEF Arranged
  <2>2. CASE PaneAt(k, w) \notin Q
    <3>1. \A d : Pending(k, w, d)' = Pending(k, w, d)
      BY <1>10, <2>2
    <3>2. W!Pane(PaneAt(k, w))' = W!Pane(PaneAt(k, w))
      BY <1>9, <2>2
    <3>3. QED  BY <1>12, <2>1, <3>1, <3>2
  <2>3. CASE PaneAt(k, w) \in Q
    <3>1. PICK S, T : S = Pending(k, w, side) /\ T = Pending(k, w, side)'
      OBVIOUS
    <3>2. T = S \cup {s}
      BY <1>10, <2>3, <3>1
    <3>3. Numbered(S) /\ s.id \in Nat /\ \A r \in S : r.id < s.id
      BY <1>2, <1>11, <3>1 DEF Recs
    <3>4. Arranged(T) = Append(Arranged(S), s)
      BY <3>2, <3>3, ArrangedAppend
    <3>5. PICK b, c : b = W!Pane(PaneAt(k, w)) /\ c = W!Pane(PaneAt(k, w))'
      OBVIOUS
    <3>6. b = [d \in {"left", "right"} |-> Arranged(Pending(k, w, d))]
      BY <1>12, <3>5
    <3>7. c = [b EXCEPT ![side] = Append(b[side], s)]
      BY <1>9, <2>3, <3>5
    <3>8. c = [d \in {"left", "right"} |-> IF d = side THEN Append(b[side], s) ELSE b[d]]
      BY <1>2, <3>6, <3>7
    <3>9. b[side] = Arranged(S)
      BY <1>2, <3>1, <3>6
    <3>10. \A d : d # side => Pending(k, w, d)' = Pending(k, w, d)
      BY <1>10
    <3>11. c = [d \in {"left", "right"} |-> Arranged(Pending(k, w, d)')]
      <4>1. ASSUME NEW d \in {"left", "right"}
            PROVE  c[d] = Arranged(Pending(k, w, d)')
        <5>1. CASE d = side
          BY <3>1, <3>4, <3>8, <3>9, <5>1
        <5>2. CASE d # side
          <6>1. c[d] = b[d] /\ b[d] = Arranged(Pending(k, w, d))
            BY <3>6, <3>8, <5>2
          <6>2. QED  BY <3>10, <5>2, <6>1
        <5>3. QED  BY <5>1, <5>2
      <4>2. c = [d \in {"left", "right"} |-> c[d]]
        BY <3>8
      <4>3. QED  BY <4>1, <4>2
    <3>12. c = [left |-> Arranged(Pending(k, w, "left")'), right |-> Arranged(Pending(k, w, "right")')]
      BY <3>11
    <3>13. QED  BY <2>1, <3>5, <3>12
  <2>4. QED  BY <2>2, <2>3
<1>14. ASSUME NEW k, NEW w
       PROVE  PaneAt(k, w) \in DOMAIN panes'
                <=> Pending(k, w, "left")' \cup Pending(k, w, "right")' # {}
  <2>1. PaneAt(k, w) \in DOMAIN panes <=> Pending(k, w, "left") \cup Pending(k, w, "right") # {}
    BY DEF PanesHold
  <2>2. PaneAt(k, w) \in DOMAIN panes' <=> PaneAt(k, w) \in DOMAIN panes \/ PaneAt(k, w) \in Q
    BY <1>8
  <2>3. CASE PaneAt(k, w) \in Q
    <3>1. s \in Pending(k, w, side)'
      BY <1>10, <2>3
    <3>2. QED  BY <1>2, <2>2, <2>3, <3>1
  <2>4. CASE PaneAt(k, w) \notin Q
    <3>1. \A d : Pending(k, w, d)' = Pending(k, w, d)
      BY <1>10, <2>4
    <3>2. QED  BY <2>1, <2>2, <2>4, <3>1
  <2>5. QED  BY <2>3, <2>4
<1>15. IsFiniteSet(DOMAIN panes')
  <2>1. IsFiniteSet(DOMAIN panes)
    BY DEF PanesHold
  <2>2. IsFiniteSet(DOMAIN panes \cup Q)
    BY <1>7, <2>1, FS_Union
  <2>3. QED  BY <1>8, <2>2
<1>16. \A p \in DOMAIN panes' : \E k, w : p = PaneAt(k, w)
  <2>1. \A p \in DOMAIN panes : \E k, w : p = PaneAt(k, w)
    BY DEF PanesHold
  <2>2. QED  BY <1>6, <1>8, <2>1
<1>17. QED  BY <1>13, <1>14, <1>15, <1>16 DEF PanesHold, PaneAt

(* Nothing new for the panes. *)
LEMMA PanesRest ==
  ASSUME PanesHold, panes' = panes, \A k, w, side : Pending(k, w, side)' = Pending(k, w, side)
  PROVE  PanesHold'
<1>1. \A p : W!Pane(p)' = W!Pane(p)
  BY DEF W!Pane
<1>2. \A S : Arranged(S)' = Arranged(S)
  BY DEF Arranged
<1>3. \A k, w : W!Pane(PaneAt(k, w)) = [left  |-> Arranged(Pending(k, w, "left")),
                                        right |-> Arranged(Pending(k, w, "right"))]
  BY DEF PanesHold
<1>4. \A k, w : W!Pane(PaneAt(k, w))' = [left  |-> Arranged(Pending(k, w, "left")),
                                         right |-> Arranged(Pending(k, w, "right"))]'
  BY <1>1, <1>2, <1>3
<1>5. \A k, w : PaneAt(k, w) \in DOMAIN panes <=> Pending(k, w, "left") \cup Pending(k, w, "right") # {}
  BY DEF PanesHold
<1>6. \A k, w : PaneAt(k, w) \in DOMAIN panes' <=> Pending(k, w, "left")' \cup Pending(k, w, "right")' # {}
  BY <1>5
<1>7. IsFiniteSet(DOMAIN panes') /\ \A p \in DOMAIN panes' : \E k, w : p = PaneAt(k, w)
  BY DEF PanesHold
<1>8. QED  BY <1>4, <1>6, <1>7 DEF PanesHold, PaneAt

(* What is emitted on a watermark. *)
Results(t) ==
  CASE operator.kind = "window" -> [p \in W!ToFire(t) |-> W!WindowResults(p)]
    [] operator.kind = "join" -> [p \in W!ToFire(t) |-> W!JoinResults(p)]
    [] operator.kind = "cogroup" -> [p \in W!ToFire(t) |-> W!CogroupResults(p)]

LEMMA WindowMarkIs ==
  ASSUME Paired, Windowed, NEW t \in Marks, NEW rearm, FeedWatermark(t, rearm), NEW n, n = Len(input')
  PROVE  \E e : /\ Longer(input, e, input') /\ Longer(out, W!Emission(t, Results(t)), out')
                /\ operator' = operator /\ e.ts = t /\ e.kind = "watermark"
                /\ W!Fire(t, Results(t))
<1>1. PICK e : e = [kind |-> "watermark", ts |-> t, rearm |-> rearm]
  OBVIOUS
<1>2. input' = Append(input, e) /\ operator' = operator
  BY <1>1 DEF FeedWatermark, Fed
<1>3. Longer(input, e, input')
  BY <1>2, AppendLonger DEF Paired
<1>4. W!ProcessWatermark(t)
  BY DEF FeedWatermark, Windowed, Joining, Processing
<1>5. W!Fire(t, Results(t))
  <2>1. CASE W!WindowWatermark(t)
    <3>1. Results(t) = [p \in W!ToFire(t) |-> W!WindowResults(p)]
      BY <2>1 DEF W!WindowWatermark, Results
    <3>2. QED  BY <2>1, <3>1 DEF W!WindowWatermark
  <2>2. CASE W!JoinWatermark(t)
    <3>1. Results(t) = [p \in W!ToFire(t) |-> W!JoinResults(p)]
      BY <2>2 DEF W!JoinWatermark, Results
    <3>2. QED  BY <2>2, <3>1 DEF W!JoinWatermark
  <2>3. CASE W!CogroupWatermark(t)
    <3>1. Results(t) = [p \in W!ToFire(t) |-> W!CogroupResults(p)]
      BY <2>3 DEF W!CogroupWatermark, Results
    <3>2. QED  BY <2>3, <3>1 DEF W!CogroupWatermark
  <2>4. QED  BY <1>4, <2>1, <2>2, <2>3 DEF W!ProcessWatermark
<1>6. Longer(out, W!Emission(t, Results(t)), out')
  <2>1. out' = Append(out, W!Emission(t, Results(t)))
    BY <1>5 DEF W!Fire
  <2>2. QED  BY <2>1, AppendLonger DEF Paired
<1>7. QED  BY <1>1, <1>2, <1>3, <1>5, <1>6

LEMMA Triggers ==
  ASSUME NEW t
  PROVE  /\ W!ToFire(t) = {p \in DOMAIN panes : t >= p.window.end}
         /\ W!ToPurge(t) = {p \in DOMAIN panes : t >= p.window.end}
BY DEF W!ToFire, W!ToPurge, W!OnTrigger, W!OnEventTime

LEMMA PanesWatermark ==
  ASSUME EventTimeAssumption, Paired, Given, Given', Windowed, PanesHold,
         NEW n, NEW e, Extends(n, e), IsMark(n)', NEW t \in Nat, e.ts = t,
         NEW results, W!Fire(t, results)
  PROVE  PanesHold'
<1>1. panes' = [p \in DOMAIN panes \ W!ToPurge(t) |-> panes[p]]
  BY DEF W!Fire
<1>2. Arrivals(n)' = {}
  BY DEF Arrivals, IsMark, IsRecord
<1>3. \A k, w, d : Pending(k, w, d)' = {r \in Pending(k, w, d) : t < w.end}
  <2>1. \A k, w, d : Pending(k, w, d)' =
           {r \in Pending(k, w, d) : IsMark(n)' => e.ts < w.end}
           \cup {r \in Arrivals(n)' : KeyOf(r) = k /\ r.side = d /\ w \in W!AssignWindows(r.ts)}
    BY PendingNext DEF Receiving
  <2>2. QED  BY <1>2, <2>1
<1>4. \A k, w : PaneAt(k, w) \in DOMAIN panes <=> Pending(k, w, "left") \cup Pending(k, w, "right") # {}
  BY DEF PanesHold
<1>5. \A k, w : W!Pane(PaneAt(k, w)) = [left  |-> Arranged(Pending(k, w, "left")),
                                        right |-> Arranged(Pending(k, w, "right"))]
  BY DEF PanesHold
<1>6. \A S : Arranged(S)' = Arranged(S)
  BY DEF Arranged
<1>7. DOMAIN panes' \subseteq DOMAIN panes
  BY <1>1
<1>8. IsFiniteSet(DOMAIN panes') /\ \A p \in DOMAIN panes' : \E k, w : p = PaneAt(k, w)
  <2>1. IsFiniteSet(DOMAIN panes) /\ \A p \in DOMAIN panes : \E k, w : p = PaneAt(k, w)
    BY DEF PanesHold
  <2>2. DOMAIN panes' \in SUBSET DOMAIN panes
    BY <1>7
  <2>3. IsFiniteSet(DOMAIN panes')
    BY <2>1, <2>2, FS_Subset
  <2>4. QED  BY <2>1, <2>2, <2>3
<1>9. Arranged({}) = <<>>
  <2>1. Numbered({})
    BY FS_EmptySet DEF Numbered
  <2>2. QED  BY <2>1, ArrangedHolds
<1>10. ASSUME NEW k, NEW w
       PROVE  /\ W!Pane(PaneAt(k, w))' = [left  |-> Arranged(Pending(k, w, "left")),
                                          right |-> Arranged(Pending(k, w, "right"))]'
              /\ PaneAt(k, w) \in DOMAIN panes'
                   <=> Pending(k, w, "left")' \cup Pending(k, w, "right")' # {}
  <2>1. PaneAt(k, w).window = w
    BY DEF PaneAt
  <2>2. CASE PaneAt(k, w) \notin DOMAIN panes
    <3>1. PaneAt(k, w) \notin DOMAIN panes'
      BY <1>7, <2>2
    <3>2. W!Pane(PaneAt(k, w))' = W!Pane(PaneAt(k, w))
      BY <2>2, <3>1 DEF W!Pane
    <3>3. /\ Pending(k, w, "left") = {} /\ Pending(k, w, "right") = {}
          /\ Pending(k, w, "left")' = {} /\ Pending(k, w, "right")' = {}
      BY <1>3, <1>4, <2>2
    <3>4. QED  BY <1>5, <1>6, <3>1, <3>2, <3>3
  <2>3. CASE PaneAt(k, w) \in DOMAIN panes
    <3>1. w.end \in Nat
      <4>1. PICK d, r : r \in Pending(k, w, d)
        BY <1>4, <2>3
      <4>2. QED  BY <4>1, PendingEnds
    <3>2. CASE t < w.end
      <4>1. ~(t >= w.end)
        BY <3>1, <3>2
      <4>2. PaneAt(k, w) \in DOMAIN panes' /\ panes'[PaneAt(k, w)] = panes[PaneAt(k, w)]
        BY <1>1, <2>1, <2>3, <4>1, Triggers
      <4>3. W!Pane(PaneAt(k, w))' = W!Pane(PaneAt(k, w))
        BY <2>3, <4>2 DEF W!Pane
      <4>4. \A d : Pending(k, w, d)' = Pending(k, w, d)
        BY <1>3, <3>2
      <4>5. QED  BY <1>4, <1>5, <1>6, <2>3, <4>2, <4>3, <4>4
    <3>3. CASE t >= w.end
      <4>1. PaneAt(k, w) \notin DOMAIN panes'
        BY <1>1, <2>1, <2>3, <3>3, Triggers
      <4>2. W!Pane(PaneAt(k, w))' = [left |-> <<>>, right |-> <<>>]
        BY <4>1 DEF W!Pane
      <4>3. ~(t < w.end)
        BY <3>1, <3>3
      <4>4. \A d : Pending(k, w, d)' = {}
        BY <1>3, <4>3
      <4>5. Arranged(Pending(k, w, "left")') = <<>> /\ Arranged(Pending(k, w, "right")') = <<>>
        BY <1>9, <4>4
      <4>6. W!Pane(PaneAt(k, w))' = [left  |-> Arranged(Pending(k, w, "left")'),
                                     right |-> Arranged(Pending(k, w, "right")')]
        BY <4>2, <4>5
      <4>7. Pending(k, w, "left")' \cup Pending(k, w, "right")' = {}
        BY <4>4
      <4>8. QED  BY <1>6, <4>1, <4>6, <4>7
    <3>4. t < w.end \/ t >= w.end
      BY <3>1
    <3>5. QED  BY <3>2, <3>3, <3>4
  <2>4. QED  BY <2>2, <2>3
<1>11. \A k, w : W!Pane(PaneAt(k, w))' = [left  |-> Arranged(Pending(k, w, "left")),
                                          right |-> Arranged(Pending(k, w, "right"))]'
  BY <1>10
<1>12. \A k, w : PaneAt(k, w) \in DOMAIN panes'
                   <=> Pending(k, w, "left")' \cup Pending(k, w, "right")' # {}
  BY <1>10
<1>13. QED  BY <1>8, <1>11, <1>12 DEF PanesHold, PaneAt

PanesInv == Windowed => OneSided /\ PanesHold

LEMMA PanesStart ==
  ASSUME OperatorInit
  PROVE  OneSided /\ PanesHold
<1>1. Positions = {} /\ input = <<>> /\ panes = <<>>
  BY DEF OperatorInit, Positions
<1>2. Next1 = 1 /\ ArrivedBefore(Next1) = {}
  <2>1. Next1 = 1
    BY <1>1 DEF Next1
  <2>2. 1..(Next1 - 1) = {}
    BY <2>1
  <2>3. QED  BY <2>1, <2>2 DEF ArrivedBefore
<1>3. \A k, w, side : Pending(k, w, side) = {}
  BY <1>2 DEF Pending, Pile
<1>4. DOMAIN panes = {} /\ IsFiniteSet(DOMAIN panes)
  <2>1. DOMAIN panes = {}
    BY <1>1
  <2>2. IsFiniteSet({})
    BY FS_EmptySet
  <2>3. QED  BY <2>1, <2>2
<1>5. Arranged({}) = <<>>
  <2>1. Numbered({})
    BY FS_EmptySet DEF Numbered
  <2>2. QED  BY <2>1, ArrangedHolds
<1>6. \A p : W!Pane(p) = [left |-> <<>>, right |-> <<>>]
  BY <1>4 DEF W!Pane
<1>7. PanesHold
  BY <1>3, <1>4, <1>5, <1>6 DEF PanesHold
<1>8. OneSided
  BY <1>1 DEF OneSided
<1>9. QED  BY <1>7, <1>8

LEMMA OneSidedNext ==
  ASSUME OneSided, NEW n, NEW e, Extends(n, e),
         e.kind = "record" /\ operator.kind = "window" => e.side = "left"
  PROVE  OneSided'
<1>1. /\ Positions' = Positions \cup {n} /\ input'[n] = e /\ operator' = operator
      /\ \A p \in Positions : input'[p] = input[p]
  BY DEF Extends
<1>2. QED  BY <1>1 DEF OneSided, IsRecord

(* The panes do not change, and nothing arrives. *)
LEMMA PanesIdle ==
  ASSUME EventTimeAssumption, Paired, Given, Given', Windowed, PanesHold,
         NEW n, NEW e, Extends(n, e), ~IsMark(n)', Arrivals(n)' = {}, panes' = panes
  PROVE  PanesHold'
<1>1. \A k, w, d : Pending(k, w, d)' =
         {r \in Pending(k, w, d) : IsMark(n)' => e.ts < w.end}
         \cup {r \in Arrivals(n)' : KeyOf(r) = k /\ r.side = d /\ w \in W!AssignWindows(r.ts)}
  BY PendingNext DEF Receiving
<1>2. \A k, w, d : Pending(k, w, d)' = Pending(k, w, d)
  BY <1>1
<1>3. QED  BY <1>2, PanesRest

THEOREM PanesAlways == OperatorSpec => []PanesInv
<1>1. OperatorInit => PanesInv
  BY PanesStart DEF PanesInv
<1>2. EventTimeAssumption /\ Paired /\ Given /\ Given' /\ PanesInv /\ [OperatorNext]_operatorVars => PanesInv'
  <2> SUFFICES ASSUME EventTimeAssumption, Paired, Given, Given', PanesInv,
                      [OperatorNext]_operatorVars, Windowed'
               PROVE  OneSided' /\ PanesHold'
    BY DEF PanesInv
  <2>1. CASE UNCHANGED operatorVars
    <3>1. UNCHANGED <<operator, panes, input>>
      BY <2>1 DEF operatorVars
    <3>2. OneSided /\ PanesHold
      BY <3>1 DEF PanesInv, Windowed
    <3>3. \A p : Arrivals(p)' = Arrivals(p) /\ (IsMark(p)' <=> IsMark(p)) /\ (IsRecord(p)' <=> IsRecord(p))
      BY <3>1 DEF Arrivals, IsRecord, IsMark, Stateless, Processing
    <3>4. \A k, w, side : Pending(k, w, side)' = Pending(k, w, side)
      <4>1. ArrivedBefore(Next1)' = ArrivedBefore(Next1) /\ Next1' = Next1
        BY <3>1, <3>3 DEF ArrivedBefore, Next1
      <4>2. \A r, w : Unclosed(r, w, Next1)' <=> Unclosed(r, w, Next1)
        BY <3>1, <3>3, <4>1 DEF Unclosed
      <4>3. \A t : W!AssignWindows(t)' = W!AssignWindows(t)
        BY <3>1 DEF W!AssignWindows
      <4>4. QED  BY <4>1, <4>2, <4>3 DEF Pending, Pile
    <3>5. PanesHold'
      BY <3>1, <3>2, <3>4, PanesRest
    <3>6. OneSided'
      BY <3>1, <3>2, <3>3 DEF OneSided, Positions
    <3>7. QED  BY <3>5, <3>6
  <2>2. CASE OperatorNext
    <3>1. operator' = operator
      BY <2>2, StepFeeds DEF Feeds
    <3>2. Windowed /\ Receiving /\ OneSided /\ PanesHold /\ JoinSteps
      BY <2>2, <3>1, ReceivingSteps DEF PanesInv, Windowed, Receiving
    <3>3. PICK n : n = Len(input')
      OBVIOUS
    <3>4. ASSUME NEW side \in Sides, NEW k \in Keys, NEW t \in Times,
                 FeedRecord(Record(side, k, t, Next1))
          PROVE  OneSided' /\ PanesHold'
      <4>1. PICK e : /\ Longer(input, e, input') /\ Longer(out, <<>>, out') /\ operator' = operator
                     /\ IsRecord(n)' /\ e.side = side
                     /\ RecordTaken(n)
        BY <3>2, <3>3, <3>4, WindowRecordIs
      <4>2. Extends(n, e)
        BY <3>3, <4>1, FeedExtends
      <4>3. operator.kind = "window" => e.side = "left"
        BY <4>1 DEF Sides
      <4>4. OneSided'
        BY <3>2, <4>2, <4>3, OneSidedNext
      <4>5. CASE Arrivals(n)' = {} /\ panes' = panes
        <5>1. ~IsMark(n)'
          BY <4>1 DEF IsMark, IsRecord
        <5>2. QED  BY <3>2, <4>2, <4>4, <4>5, <5>1, PanesIdle
      <4>6. ASSUME NEW s \in Arrivals(n)', W!ProcessRecord(s)
            PROVE  PanesHold'
        BY <3>2, <4>1, <4>2, <4>3, <4>6, PanesRecord
      <4>7. QED  BY <4>1, <4>4, <4>5, <4>6 DEF RecordTaken
    <3>5. ASSUME NEW t \in Marks, NEW rearm, FeedWatermark(t, rearm)
          PROVE  OneSided' /\ PanesHold'
      <4>1. PICK e : /\ Longer(input, e, input') /\ Longer(out, W!Emission(t, Results(t)), out')
                     /\ operator' = operator /\ e.ts = t /\ e.kind = "watermark"
                     /\ W!Fire(t, Results(t))
        BY <3>2, <3>3, <3>5, WindowMarkIs
      <4>2. Extends(n, e)
        BY <3>3, <4>1, FeedExtends
      <4>3. OneSided'
        BY <3>2, <4>1, <4>2, OneSidedNext
      <4>4. IsMark(n)' /\ t \in Nat
        BY <4>1, <4>2 DEF IsMark, Extends, EventTimeAssumption
      <4>5. QED  BY <3>2, <4>1, <4>2, <4>3, <4>4, PanesWatermark
    <3>6. CASE FeedBarrier
      <4>1. PICK e : e = Barrier
        OBVIOUS
      <4>2. input' = Append(input, e) /\ panes' = panes
        BY <3>6, <4>1 DEF FeedBarrier, Fed
      <4>3. Longer(input, e, input')
        BY <4>2, AppendLonger DEF Paired
      <4>4. Extends(n, e)
        BY <3>1, <3>3, <4>3, FeedExtends
      <4>5. e.kind = "barrier" /\ input'[n] = e
        BY <4>1, <4>4 DEF Barrier, Extends
      <4>6. ~IsMark(n)' /\ Arrivals(n)' = {}
        BY <4>5 DEF IsMark, IsRecord, Arrivals
      <4>7. OneSided'
        BY <3>2, <4>4, <4>5, OneSidedNext
      <4>8. QED  BY <3>2, <4>2, <4>4, <4>6, <4>7, PanesIdle
    <3>7. QED  BY <3>2, <3>4, <3>5, <3>6 DEF JoinSteps
  <2>3. QED  BY <2>1, <2>2
<1>3. EventTimeAssumption
  BY EventTimeAssumption
<1>4. QED  BY <1>1, <1>2, <1>3, PairedAlways, GivenAlways, PTL DEF OperatorSpec

-----------------------------------------------------------------------------
(* The windows: what a watermark makes them emit. *)

(* q is the elements of S, each once. *)
Enumerates(q, S) ==
  /\ Cardinality(S) \in Nat
  /\ q \in [1..Cardinality(S) -> S]
  /\ \A i, j \in 1..Cardinality(S) : q[i] = q[j] => i = j
  /\ \A s \in S : \E i \in 1..Cardinality(S) : q[i] = s

LEMMA SetToSeqIs ==
  ASSUME NEW S, IsFiniteSet(S)
  PROVE  Enumerates(W!SetToSeq(S), S)
<1>1. PICK n : n = Cardinality(S)
  OBVIOUS
<1>2. n \in Nat /\ ExistsBijection(1..n, S)
  BY <1>1, FS_CardinalityType
<1>3. PICK f : f \in Bijection(1..n, S)
  BY <1>2 DEF ExistsBijection
<1>4. f \in [1..n -> S] /\ W!IsInjective(f)
  BY <1>3 DEF Bijection, Injection, IsInjective, W!IsInjective
<1>5. W!Cardinality(S) = n
  <2>1. \A T : W!Cardinality(T) = Cardinality(T)
    BY Zenon DEF W!Cardinality, Cardinality
  <2>2. QED  BY <1>1, <2>1
<1>6. PICK q : q = W!SetToSeq(S)
  OBVIOUS
<1>7. q = CHOOSE g \in [1..n -> S] : W!IsInjective(g)
  BY <1>5, <1>6 DEF W!SetToSeq
<1>8. q \in [1..n -> S] /\ W!IsInjective(q)
  BY <1>4, <1>7
<1>9. \A i, j \in 1..n : q[i] = q[j] => i = j
  BY <1>8 DEF W!IsInjective
<1>10. \A s \in S : \E i \in 1..n : q[i] = s
  <2>1. q \in Injection(1..n, S)
    BY <1>8, <1>9 DEF Injection, IsInjective
  <2>2. Cardinality(1..n) = n
    <3>1. 1 \in Int /\ n \in Int
      BY <1>2
    <3>2. Cardinality(1..n) = IF 1 > n THEN 0 ELSE n - 1 + 1
      BY <3>1, FS_Interval
    <3>3. QED  BY <1>2, <3>2
  <2>3. Cardinality(1..n) = Cardinality(S) <=> q \in Surjection(1..n, S)
    BY <2>1, FS_Injection
  <2>4. QED  BY <1>1, <2>2, <2>3 DEF Surjection
<1>11. QED  BY <1>1, <1>2, <1>6, <1>8, <1>9, <1>10 DEF Enumerates

(* The results of q, then the watermark. *)
Announced(q, t) == [i \in DOMAIN q |-> q[i].result] \o <<Watermark(t)>>

LEMMA EmissionLists ==
  ASSUME NEW F, IsFiniteSet(F), \A c \in F : c.result.kind = "result", NEW t, NEW q, Enumerates(q, F),
         NEW o, o = Announced(q, t)
  PROVE  /\ Lists(o, F, t)
         /\ \A e \in ToSet(o) : e.kind = "result" => \E c \in F : e = c.result
<1>1. PICK n, mark, R, a, b : /\ n = Cardinality(F) /\ mark = Watermark(t)
                              /\ R = {c.result : c \in F} \cup {mark}
                              /\ a = [i \in DOMAIN q |-> q[i].result] /\ b = <<mark>>
  OBVIOUS
<1>2. /\ n \in Nat /\ q \in [1..n -> F]
      /\ \A i, j \in 1..n : q[i] = q[j] => i = j
      /\ \A c \in F : \E i \in 1..n : q[i] = c
  BY <1>1 DEF Enumerates
<1>3. a = [i \in 1..n |-> q[i].result]
  BY <1>1, <1>2
<1>4. \A i \in 1..n : q[i] \in F /\ q[i].result \in R /\ a[i] = q[i].result
  BY <1>1, <1>2, <1>3
<1>5. a \in Seq(R) /\ Len(a) = n /\ b \in Seq(R) /\ Len(b) = 1 /\ b[1] = mark
  <2>1. a \in [1..n -> R]
    BY <1>3, <1>4
  <2>2. mark \in R
    BY <1>1
  <2>3. b \in Seq(R) /\ Len(b) = 1 /\ b[1] = mark
    BY <1>1, <2>2
  <2>4. QED  BY <1>2, <2>1, <2>3
<1>6. /\ o \in Seq(R) /\ Len(o) = n + 1 /\ DOMAIN o = 1..(n + 1)
      /\ o[n + 1] = mark /\ \A i \in 1..n : o[i] = a[i]
  <2>1. o = a \o b
    BY <1>1 DEF Announced
  <2>2. o \in Seq(R) /\ Len(o) = n + 1
    <3>1. \A s, u \in Seq(R) : s \o u \in Seq(R) /\ Len(s \o u) = Len(s) + Len(u)
      OBVIOUS
    <3>2. QED  BY <1>5, <2>1, <3>1
  <2>3. DOMAIN o = 1..(n + 1)
    BY <1>2, <2>2
  <2>4. o[n + 1] = mark
    <3>1. \A s, u \in Seq(R) : \A j \in 1..Len(u) : (s \o u)[Len(s) + j] = u[j]
      OBVIOUS
    <3>2. 1 \in 1..Len(b) /\ (a \o b)[Len(a) + 1] = b[1]
      BY <1>5, <3>1
    <3>3. QED  BY <1>5, <2>1, <3>2
  <2>5. \A i \in 1..n : o[i] = a[i]
    BY <1>2, <1>5, <2>1
  <2>6. QED  BY <2>2, <2>3, <2>4, <2>5
<1>7. mark.kind = "watermark"
  BY <1>1 DEF Watermark
<1>8. \A i \in 1..(n + 1) : i \in 1..n \/ i = n + 1
  BY <1>2
<1>9. ASSUME NEW e \in {c.result : c \in F}
      PROVE  Cardinality({i \in DOMAIN o : o[i] = e}) = Cardinality({c \in F : c.result = e})
  <2>1. PICK I, C : I = {i \in 1..n : q[i].result = e} /\ C = {c \in F : c.result = e}
    OBVIOUS
  <2>2. e # mark
    BY <1>7
  <2>3. {i \in DOMAIN o : o[i] = e} = I
    <3>1. \A i \in 1..n : i \in 1..(n + 1) /\ o[i] = q[i].result
      BY <1>2, <1>4, <1>6
    <3>2. o[n + 1] # e
      BY <1>6, <2>2
    <3>3. QED  BY <1>6, <1>8, <2>1, <3>1, <3>2
  <2>4. IsFiniteSet(I)
    <3>1. 1 \in Int /\ n \in Int
      BY <1>2
    <3>2. IsFiniteSet(1..n)
      BY <3>1, FS_Interval
    <3>3. I \in SUBSET (1..n)
      BY <2>1
    <3>4. QED  BY <3>2, <3>3, FS_Subset
  <2>5. PICK g : g = [i \in I |-> q[i]]
    OBVIOUS
  <2>6. g \in [I -> C] /\ \A i \in I : i \in 1..n /\ g[i] = q[i]
    BY <1>4, <2>1, <2>5
  <2>7. \A i, j \in I : g[i] = g[j] => i = j
    BY <1>2, <2>6
  <2>8. \A c \in C : \E i \in I : g[i] = c
    <3>1. ASSUME NEW c \in C
          PROVE  \E i \in I : g[i] = c
      <4>1. PICK i \in 1..n : q[i] = c
        BY <1>2, <2>1
      <4>2. i \in I
        BY <2>1, <4>1
      <4>3. QED  BY <2>6, <4>1, <4>2
    <3>2. QED  BY <3>1
  <2>9. g \in Bijection(I, C)
    BY <2>6, <2>7, <2>8 DEF Bijection, Injection, Surjection, IsInjective
  <2>10. Cardinality(C) = Cardinality(I)
    BY <2>4, <2>9, FS_Bijection DEF ExistsBijection
  <2>11. QED  BY <2>1, <2>3, <2>10
<1>10. Lists(o, F, t)
  BY <1>1, <1>6, <1>9 DEF Lists
<1>11. ASSUME NEW e \in ToSet(o), e.kind = "result"
       PROVE  \E c \in F : e = c.result
  <2>1. PICK i \in 1..(n + 1) : e = o[i]
    BY <1>6 DEF ToSet
  <2>2. i \in 1..n
    BY <1>6, <1>7, <1>8, <1>11, <2>1
  <2>3. QED  BY <1>4, <1>6, <2>1, <2>2
<1>12. QED  BY <1>10, <1>11

Ids(s) == [n \in DOMAIN s |-> s[n].id]

(* What is made of the records of a pane, stamped so. *)
Stamped(k, stamp, l, r) ==
  CASE operator.kind = "window" -> {Result(k, stamp, Ids(l))}
    [] operator.kind = "join" ->
         {Result(k, Later(a.ts, b.ts), <<a.id, b.id>>) : a \in ToSet(l), b \in ToSet(r)}
    [] operator.kind = "cogroup" -> {Result(k, stamp, <<Ids(l), Ids(r)>>)}

LEMMA ResultsAre ==
  ASSUME Windowed, PanesHold, NEW t, NEW k, NEW w, PaneAt(k, w) \in W!ToFire(t)
  PROVE  Results(t)[PaneAt(k, w)] = Stamped(k, W!Wrapped(w.end - 1), Arranged(Pending(k, w, "left")),
                                           Arranged(Pending(k, w, "right")))
<1>1. PICK p, l, r : /\ p = PaneAt(k, w) /\ l = Arranged(Pending(k, w, "left"))
                     /\ r = Arranged(Pending(k, w, "right"))
  OBVIOUS
<1>2. p \in W!ToFire(t) /\ p \in DOMAIN panes /\ p.key = k /\ p.window = w
  BY <1>1, Triggers DEF PaneAt
<1>3. panes[p].left = l /\ panes[p].right = r
  <2>1. W!Pane(p) = panes[p]
    BY <1>2 DEF W!Pane
  <2>2. W!Pane(p) = [left |-> l, right |-> r]
    BY <1>1 DEF PanesHold
  <2>3. QED  BY <2>1, <2>2
<1>4. W!Values(l) = Ids(l) /\ W!Values(r) = Ids(r) /\ W!ToSet(l) = ToSet(l) /\ W!ToSet(r) = ToSet(r)
  BY DEF W!Values, Ids, W!ToSet, ToSet
<1>5. \A a, b, c : W!Result(a, b, c) = Result(a, b, c) /\ W!Later(a, b) = Later(a, b)
  BY DEF W!Result, Result, W!Later, Later
<1>6. CASE operator.kind = "window"
  <2>1. Results(t)[p] = W!WindowResults(p)
    BY <1>2, <1>6 DEF Results
  <2>2. QED  BY <1>1, <1>2, <1>3, <1>4, <1>5, <1>6, <2>1 DEF W!WindowResults, Stamped
<1>7. CASE operator.kind = "join"
  <2>1. Results(t)[p] = W!JoinResults(p)
    BY <1>2, <1>7 DEF Results
  <2>2. QED  BY <1>1, <1>2, <1>3, <1>4, <1>5, <1>7, <2>1 DEF W!JoinResults, Stamped
<1>8. CASE operator.kind = "cogroup"
  <2>1. Results(t)[p] = W!CogroupResults(p)
    BY <1>2, <1>8 DEF Results
  <2>2. QED  BY <1>1, <1>2, <1>3, <1>4, <1>5, <1>8, <2>1 DEF W!CogroupResults, Stamped
<1>9. QED  BY <1>6, <1>7, <1>8 DEF Windowed

LEMMA StampedIs ==
  ASSUME Windowed, NEW k, NEW stamp, NEW l, NEW r, IsFiniteSet(ToSet(l)), IsFiniteSet(ToSet(r))
  PROVE  /\ IsFiniteSet(Stamped(k, stamp, l, r))
         /\ \A e \in Stamped(k, stamp, l, r) :
              /\ e.kind = "result" /\ e.key = k
              /\ \A id \in IdsOf(e) : \E x \in ToSet(l) \cup ToSet(r) : x.id = id
<1>1. \A s : \A id \in ToSet(Ids(s)) : \E x \in ToSet(s) : x.id = id
  BY DEF Ids, ToSet
<1>2. \A a, b, c : Result(a, b, c).kind = "result" /\ Result(a, b, c).key = a /\ Result(a, b, c).of = c
  BY DEF Result
<1>3. CASE operator.kind = "window"
  <2>1. PICK u : u = Result(k, stamp, Ids(l))
    OBVIOUS
  <2>2. Stamped(k, stamp, l, r) = {u}
    BY <1>3, <2>1 DEF Stamped
  <2>3. IsFiniteSet({u})
    BY FS_Singleton
  <2>4. u.kind = "result" /\ u.key = k /\ IdsOf(u) = ToSet(Ids(l))
    BY <1>2, <1>3, <2>1 DEF IdsOf
  <2>5. QED  BY <1>1, <2>2, <2>3, <2>4
<1>4. CASE operator.kind = "cogroup"
  <2>1. PICK u : u = Result(k, stamp, <<Ids(l), Ids(r)>>)
    OBVIOUS
  <2>2. Stamped(k, stamp, l, r) = {u}
    BY <1>4, <2>1 DEF Stamped
  <2>3. IsFiniteSet({u})
    BY FS_Singleton
  <2>4. u.kind = "result" /\ u.key = k /\ u.of[1] = Ids(l) /\ u.of[2] = Ids(r)
    BY <1>2, <2>1
  <2>5. IdsOf(u) = ToSet(Ids(l)) \cup ToSet(Ids(r))
    BY <1>4, <2>4 DEF IdsOf
  <2>6. QED  BY <1>1, <2>2, <2>3, <2>4, <2>5
<1>5. CASE operator.kind = "join"
  <2>1. PICK D : D = ToSet(l) \X ToSet(r)
    OBVIOUS
  <2>2. IsFiniteSet(D)
    BY <2>1, FS_Product
  <2>3. PICK f : f = [d \in D |-> Result(k, Later(d[1].ts, d[2].ts), <<d[1].id, d[2].id>>)]
    OBVIOUS
  <2>4. Stamped(k, stamp, l, r) =
          {Result(k, Later(a.ts, b.ts), <<a.id, b.id>>) : a \in ToSet(l), b \in ToSet(r)}
    BY <1>5 DEF Stamped
  <2>5. DOMAIN f = D
    BY <2>3
  <2>6. Stamped(k, stamp, l, r) = {f[d] : d \in D}
    <3>1. ASSUME NEW a \in ToSet(l), NEW b \in ToSet(r)
          PROVE  <<a, b>> \in D /\ f[<<a, b>>] = Result(k, Later(a.ts, b.ts), <<a.id, b.id>>)
      BY <2>1, <2>3
    <3>2. ASSUME NEW c \in Stamped(k, stamp, l, r)
          PROVE  c \in {f[d] : d \in D}
      <4>1. PICK x \in ToSet(l), y \in ToSet(r) :
              c = Result(k, Later(x.ts, y.ts), <<x.id, y.id>>)
        BY <2>4
      <4>2. <<x, y>> \in D /\ c = f[<<x, y>>]
        BY <3>1, <4>1
      <4>3. QED  BY <4>2
    <3>3. ASSUME NEW d \in D
          PROVE  f[d] \in Stamped(k, stamp, l, r)
      <4>1. PICK x \in ToSet(l), y \in ToSet(r) : d = <<x, y>>
        BY <2>1
      <4>2. f[d] = Result(k, Later(x.ts, y.ts), <<x.id, y.id>>)
        BY <3>1, <4>1
      <4>3. QED  BY <2>4, <4>2
    <3>4. QED  BY <3>2, <3>3
  <2>7. IsFiniteSet({f[d] : d \in D})
    BY <2>2, <2>5, FiniteImage
  <2>8. ASSUME NEW e \in Stamped(k, stamp, l, r)
        PROVE  /\ e.kind = "result" /\ e.key = k
               /\ \A id \in IdsOf(e) : \E x \in ToSet(l) \cup ToSet(r) : x.id = id
    <3>1. PICK a \in ToSet(l), b \in ToSet(r) :
            e = Result(k, Later(a.ts, b.ts), <<a.id, b.id>>)
      BY <2>4
    <3>2. e.kind = "result" /\ e.key = k /\ e.of = <<a.id, b.id>>
      BY <1>2, <3>1
    <3>3. IdsOf(e) = ToSet(e.of)
      BY <1>5 DEF IdsOf
    <3>4. ToSet(<<a.id, b.id>>) = {a.id, b.id}
      <4>1. PICK s : s = <<a.id, b.id>>
        OBVIOUS
      <4>2. DOMAIN s = {1, 2} /\ s[1] = a.id /\ s[2] = b.id
        BY <4>1
      <4>3. QED  BY <4>1, <4>2 DEF ToSet
    <3>5. QED  BY <3>2, <3>3, <3>4
  <2>9. QED  BY <2>6, <2>7, <2>8
<1>6. QED  BY <1>3, <1>4, <1>5 DEF Windowed

(* What is made of the records that pend in a window. *)
Made(k, w) ==
  Stamped(k, W!Wrapped(w.end - 1), Arranged(Pending(k, w, "left")), Arranged(Pending(k, w, "right")))

LEMMA FiredIs ==
  ASSUME EventTimeAssumption, Paired, Given, Windowed, PanesHold, NEW t
  PROVE  /\ IsFiniteSet(W!Fired(t, Results(t)))
         /\ \A k, w : PaneAt(k, w) \in W!ToFire(t) =>
              \A e \in Made(k, w) : [pane |-> PaneAt(k, w), result |-> e] \in W!Fired(t, Results(t))
         /\ \A c \in W!Fired(t, Results(t)) :
              \E k, w : /\ PaneAt(k, w) \in W!ToFire(t)
                        /\ \E e \in Made(k, w) : c = [pane |-> PaneAt(k, w), result |-> e]
<1>1. PICK fires, F, R : fires = W!ToFire(t) /\ F = W!Fired(t, Results(t)) /\ R = Results(t)
  OBVIOUS
<1>2. fires \in SUBSET (DOMAIN panes) /\ \A p \in fires : \E k, w : p = PaneAt(k, w)
  <2>1. fires \subseteq DOMAIN panes
    BY <1>1, Triggers
  <2>2. QED  BY <2>1 DEF PanesHold
<1>3. \A k, w : PaneAt(k, w) \in fires => R[PaneAt(k, w)] = Made(k, w)
  BY <1>1, ResultsAre DEF Made
<1>4. F = UNION {{[pane |-> p, result |-> e] : e \in R[p]} : p \in fires}
  BY <1>1 DEF W!Fired
<1>5. ASSUME NEW p \in fires
      PROVE  IsFiniteSet({[pane |-> p, result |-> e] : e \in R[p]})
  <2>1. PICK k, w : p = PaneAt(k, w)
    BY <1>2
  <2>2. PICK S : S = R[p]
    OBVIOUS
  <2>3. S = Made(k, w)
    BY <1>3, <2>1, <2>2
  <2>4. \A d : /\ ToSet(Arranged(Pending(k, w, d))) = Pending(k, w, d)
               /\ IsFiniteSet(Pending(k, w, d))
    <3>1. \A d : Numbered(Pending(k, w, d))
      BY PendingIs DEF Receiving
    <3>2. \A d : ToSet(Arranged(Pending(k, w, d))) = Pending(k, w, d)
      BY <3>1, ArrangedHolds
    <3>3. QED  BY <3>1, <3>2 DEF Numbered
  <2>5. IsFiniteSet(S)
    BY <2>3, <2>4, StampedIs DEF Made
  <2>6. PICK f : f = [e \in S |-> [pane |-> p, result |-> e]]
    OBVIOUS
  <2>7. DOMAIN f = S /\ {[pane |-> p, result |-> e] : e \in R[p]} = {f[e] : e \in S}
    BY <2>2, <2>6
  <2>8. QED  BY <2>5, <2>7, FiniteImage
<1>6. IsFiniteSet(F)
  <2>1. IsFiniteSet(fires)
    BY <1>2, FS_Subset DEF PanesHold
  <2>2. PICK g : g = [p \in fires |-> {[pane |-> p, result |-> e] : e \in R[p]}]
    OBVIOUS
  <2>3. DOMAIN g = fires /\ \A p \in fires : IsFiniteSet(g[p])
    BY <1>5, <2>2
  <2>4. PICK G : G = {g[p] : p \in fires}
    OBVIOUS
  <2>5. IsFiniteSet(G) /\ \A T \in G : IsFiniteSet(T)
    BY <2>1, <2>3, <2>4, FiniteImage
  <2>6. IsFiniteSet(UNION G)
    BY <2>5, FS_UNION
  <2>7. F = UNION G
    BY <1>4, <2>2, <2>4
  <2>8. QED  BY <2>6, <2>7
<1>7. \A k, w : PaneAt(k, w) \in fires =>
        \A e \in Made(k, w) : [pane |-> PaneAt(k, w), result |-> e] \in F
  BY <1>3, <1>4
<1>8. ASSUME NEW c \in F
      PROVE  \E k, w : /\ PaneAt(k, w) \in fires
                       /\ \E e \in Made(k, w) : c = [pane |-> PaneAt(k, w), result |-> e]
  <2>1. PICK p \in fires : c \in {[pane |-> p, result |-> e] : e \in R[p]}
    BY <1>4
  <2>2. PICK k, w : p = PaneAt(k, w)
    BY <1>2
  <2>3. R[p] = Made(k, w)
    BY <1>3, <2>2
  <2>4. QED  BY <2>1, <2>2, <2>3
<1>9. QED  BY <1>1, <1>6, <1>7, <1>8

(* What is due at a watermark that extends the input, of the records not   *)
(* closed before.                                                          *)
LEMMA ClosedIs ==
  ASSUME EventTimeAssumption, Paired, Given, Windowed, InTime, NEW n, NEW e, Extends(n, e)
  PROVE  /\ ArrivedBefore(n)' = Arrived
         /\ \A t : WindowsOf(t)' = WindowsOf(t)
         /\ \A r \in Arrived : W!AssignWindows(r.ts) = WindowsOf(r.ts)
         /\ \A k, w, side : ClosedBy(n, k, w, side)' = Pending(k, w, side)
<1>1. 1..(n - 1) = Positions /\ n = Next1 /\ \A p \in Positions : Arrivals(p)' = Arrivals(p)
  BY DEF Extends
<1>2. ArrivedBefore(n)' = Arrived
  <2>1. ArrivedBefore(n)' = UNION {Arrivals(q)' : q \in 1..(n - 1)}
    BY DEF ArrivedBefore
  <2>2. ArrivedBefore(n)' = UNION {Arrivals(q)' : q \in Positions}
    BY <1>1, <2>1
  <2>3. \A q \in Positions : Arrivals(q)' = Arrivals(q)
    BY <1>1
  <2>4. QED  BY <2>2, <2>3 DEF Arrived
<1>3. \A t : WindowsOf(t)' = WindowsOf(t)
  BY DEF Extends, WindowsOf, W!Window, W!InWindow
<1>4. ASSUME NEW r \in Arrived
      PROVE  W!AssignWindows(r.ts) = WindowsOf(r.ts)
  <2>1. r.id \in Positions /\ PassedOn(input[r.id], r) /\ r \in Recs /\ r \in Arrivals(r.id)
    BY ArrivedIs DEF Receiving
  <2>2. IsRecord(r.id)
    BY <2>1 DEF Arrivals
  <2>3. r.ts = input[r.id].ts /\ r.ts \in 0..MaxTs
    BY <2>1 DEF PassedOn, Recs
  <2>4. r.ts + operator.assigner.size <= MaxTs
    BY <2>1, <2>2, <2>3 DEF InTime
  <2>5. operator \in Operators
    BY DEF Given
  <2>6. QED  BY <2>3, <2>4, <2>5, AssignsExactly
<1>5. ASSUME NEW k, NEW w, NEW side
      PROVE  ClosedBy(n, k, w, side)' = Pending(k, w, side)
  <2>1. ASSUME NEW r \in Arrived
        PROVE  (\A m \in (r.id + 1)..(n - 1) : IsMark(m)' => input'[m].ts < w.end)
                 <=> Unclosed(r, w, Next1)
    <3>1. r.id \in Positions
      BY ArrivedIs DEF Receiving
    <3>2. \A m \in (r.id + 1)..(n - 1) : m \in Positions
      BY <1>1, <3>1 DEF Extends
    <3>3. \A m \in Positions : input'[m] = input[m] /\ (IsMark(m)' <=> IsMark(m))
      BY DEF Extends
    <3>4. QED  BY <1>1, <3>2, <3>3 DEF Unclosed
  <2>2. ClosedBy(n, k, w, side)' =
          {r \in Arrived : /\ KeyOf(r) = k /\ r.side = side /\ w \in WindowsOf(r.ts)
                           /\ \A m \in (r.id + 1)..(n - 1) : IsMark(m)' => input'[m].ts < w.end}
    BY <1>2, <1>3 DEF ClosedBy
  <2>3. ArrivedBefore(Next1) = Arrived
    BY ArrivedBeforeIs
  <2>4. Pending(k, w, side) =
          {r \in Arrived : /\ KeyOf(r) = k /\ r.side = side /\ w \in W!AssignWindows(r.ts)
                           /\ Unclosed(r, w, Next1)}
    BY <2>3 DEF Pending, Pile
  <2>5. QED  BY <1>4, <2>1, <2>2, <2>4
<1>6. QED  BY <1>2, <1>3, <1>4, <1>5

(* A window of the assigner that does not end past the last time is        *)
(* stamped with its last time.                                             *)
LEMMA StampIs ==
  ASSUME EventTimeAssumption, operator \in Operators, Windowed, NEW t \in 0..MaxTs,
         t + operator.assigner.size <= MaxTs, NEW w \in WindowsOf(t)
  PROVE  W!Wrapped(w.end - 1) = w.end - 1
<1>1. PICK a, size, slide : /\ a = operator.assigner /\ size = a.size
                            /\ slide = IF a.kind = "tumbling" THEN size ELSE a.slide
  OBVIOUS
<1>2. size \in Nat /\ slide \in Nat /\ MaxTs \in Nat /\ t + size <= MaxTs
  BY <1>1, AssignerIs DEF Assigner, EventTimeAssumption
<1>3. PICK n \in 0..MaxTs : w = W!Window(n * slide, n * slide + size) /\ W!InWindow(w, t)
  BY <1>1 DEF WindowsOf
<1>4. PICK x : x = n * slide
  OBVIOUS
<1>5. x \in Nat
  BY <1>2, <1>3, <1>4
<1>6. w.end = x + size /\ x <= t /\ t < x + size
  BY <1>3, <1>4 DEF W!Window, W!InWindow
<1>7. w.end - 1 \in Nat /\ w.end - 1 <= MaxTs
  BY <1>2, <1>5, <1>6
<1>8. QED  BY <1>7, WrapsNot

(* What the definition asks of a window is what the operator makes of its  *)
(* pane.                                                                   *)
LEMMA MadeIs ==
  ASSUME EventTimeAssumption, Paired, Given, Windowed, PanesHold, InTime, NEW n, NEW e, Extends(n, e),
         NEW k, NEW w,
         NEW l, l = Arranged(Pending(k, w, "left")), NEW r, r = Arranged(Pending(k, w, "right"))
  PROVE  WindowResults(k, w, l, r)' = IF PaneAt(k, w) \in DOMAIN panes THEN Made(k, w) ELSE {}
<1>1. \A d : Numbered(Pending(k, w, d))
  BY PendingIs DEF Receiving
<1>2. (l = <<>> <=> Pending(k, w, "left") = {}) /\ (r = <<>> <=> Pending(k, w, "right") = {})
  BY <1>1, ArrangedHolds
<1>3. PaneAt(k, w) \in DOMAIN panes <=> Pending(k, w, "left") \cup Pending(k, w, "right") # {}
  BY DEF PanesHold
<1>4. operator' = operator
  BY DEF Extends
<1>5. CASE PaneAt(k, w) \notin DOMAIN panes
  <2>1. l = <<>> /\ r = <<>>
    BY <1>2, <1>3, <1>5
  <2>2. QED  BY <1>5, <2>1 DEF WindowResults
<1>6. CASE PaneAt(k, w) \in DOMAIN panes
  <2>1. ~(l = <<>> /\ r = <<>>)
    BY <1>2, <1>3, <1>6
  <2>2. W!Wrapped(w.end - 1) = w.end - 1
    <3>1. PICK d, s : s \in Pending(k, w, d)
      BY <1>3, <1>6
    <3>2. s \in Arrived /\ w \in W!AssignWindows(s.ts)
      BY <3>1, PendingIs DEF Receiving
    <3>3. w \in WindowsOf(s.ts)
      BY <3>2, ClosedIs
    <3>4. s.id \in Positions /\ PassedOn(input[s.id], s) /\ s \in Recs /\ s \in Arrivals(s.id)
      BY <3>2, ArrivedIs DEF Receiving
    <3>5. IsRecord(s.id)
      BY <3>4 DEF Arrivals
    <3>6. s.ts = input[s.id].ts /\ s.ts \in 0..MaxTs
      BY <3>4 DEF PassedOn, Recs
    <3>7. s.ts + operator.assigner.size <= MaxTs
      BY <3>4, <3>5, <3>6 DEF InTime
    <3>8. operator \in Operators
      BY DEF Given
    <3>9. QED  BY <3>3, <3>6, <3>7, <3>8, StampIs
  <2>3. Made(k, w) = Stamped(k, w.end - 1, l, r)
    BY <2>2 DEF Made
  <2>4. WindowResults(k, w, l, r)' = Stamped(k, w.end - 1, l, r)
    BY <1>4, <2>1 DEF WindowResults, Stamped, Ids, Windowed
  <2>5. QED  BY <1>6, <2>3, <2>4
<1>7. QED  BY <1>5, <1>6

LEMMA ShareIs ==
  ASSUME EventTimeAssumption, Paired, Given, Windowed, PanesHold, InTime, NEW n, NEW e, Extends(n, e),
         NEW k, NEW w
  PROVE  Share(n, k, w)' = IF PaneAt(k, w) \in DOMAIN panes
                           THEN {[pane |-> PaneAt(k, w), result |-> u] : u \in Made(k, w)} ELSE {}
<1>1. PICK l, r, m : /\ l = Arranged(Pending(k, w, "left")) /\ r = Arranged(Pending(k, w, "right"))
                     /\ m = WindowResults(k, w, l, r)'
  OBVIOUS
<1>2. m = IF PaneAt(k, w) \in DOMAIN panes THEN Made(k, w) ELSE {}
  BY <1>1, MadeIs
<1>3. \A d : ClosedBy(n, k, w, d)' = Pending(k, w, d)
  BY ClosedIs
<1>4. PICK x, y : x = Arranged(ClosedBy(n, k, w, "left"))' /\ y = Arranged(ClosedBy(n, k, w, "right"))'
  OBVIOUS
<1>5. m = WindowResults(k, w, Arranged(ClosedBy(n, k, w, "left")), Arranged(ClosedBy(n, k, w, "right")))'
  <2>1. x = l
    <3>1. PICK S : S = ClosedBy(n, k, w, "left")'
      OBVIOUS
    <3>2. x = Arranged(S)
      BY <1>4, <3>1 DEF Arranged
    <3>3. QED  BY <1>1, <1>3, <3>1, <3>2
  <2>2. y = r
    <3>1. PICK S : S = ClosedBy(n, k, w, "right")'
      OBVIOUS
    <3>2. y = Arranged(S)
      BY <1>4, <3>1 DEF Arranged
    <3>3. QED  BY <1>1, <1>3, <3>1, <3>2
  <2>3. WindowResults(k, w, Arranged(ClosedBy(n, k, w, "left")), Arranged(ClosedBy(n, k, w, "right")))'
          = WindowResults(k, w, x, y)'
    BY <1>4 DEF WindowResults
  <2>4. QED  BY <1>1, <2>1, <2>2, <2>3
<1>6. Share(n, k, w)' = {[pane |-> PaneAt(k, w), result |-> u] : u \in m}
  BY <1>5 DEF Share, PaneAt
<1>7. QED  BY <1>2, <1>6

(* What fires on a watermark is what the definition closes at it. *)
LEMMA ClosingsAre ==
  ASSUME EventTimeAssumption, Paired, Given, Windowed, PanesHold, InTime, NEW n, NEW e, Extends(n, e),
         NEW t \in Nat, e.ts = t
  PROVE  Closings(n)' = W!Fired(t, Results(t))
<1>1. PICK F, C, keys, windows :
        /\ F = W!Fired(t, Results(t)) /\ C = Closings(n)' /\ keys = {KeyOf(r) : r \in Arrived}
        /\ windows = {w \in UNION {WindowsOf(r.ts) : r \in Arrived} : w.end <= t}
  OBVIOUS
<1>2. /\ \A k, w : PaneAt(k, w) \in W!ToFire(t) =>
              \A u \in Made(k, w) : [pane |-> PaneAt(k, w), result |-> u] \in F
      /\ \A c \in F : \E k, w : /\ PaneAt(k, w) \in W!ToFire(t)
                                /\ \E u \in Made(k, w) : c = [pane |-> PaneAt(k, w), result |-> u]
  BY <1>1, FiredIs
<1>3. /\ ArrivedBefore(n)' = Arrived
      /\ \A x : WindowsOf(x)' = WindowsOf(x)
      /\ \A r \in Arrived : W!AssignWindows(r.ts) = WindowsOf(r.ts)
  BY ClosedIs
<1>4. C = UNION {Share(n, k, w)' : k \in keys, w \in windows}
  <2>1. PICK A, B : /\ A = {KeyOf(r) : r \in ArrivedBefore(n)}'
                    /\ B = {w \in UNION {WindowsOf(r.ts) : r \in ArrivedBefore(n)} : w.end <= input[n].ts}'
    OBVIOUS
  <2>2. Closings(n)' = UNION {Share(n, k, w)' : k \in A, w \in B}
    BY <2>1 DEF Closings
  <2>3. input'[n].ts = t
    BY DEF Extends
  <2>4. A = keys /\ B = windows
    BY <1>1, <1>3, <2>1, <2>3
  <2>5. QED  BY <1>1, <2>2, <2>4
<1>5. \A k, w : Share(n, k, w)' = IF PaneAt(k, w) \in DOMAIN panes
                THEN {[pane |-> PaneAt(k, w), result |-> u] : u \in Made(k, w)} ELSE {}
  BY ShareIs
<1>6. \A k, w : PaneAt(k, w) \in W!ToFire(t) <=> PaneAt(k, w) \in DOMAIN panes /\ t >= w.end
  BY Triggers DEF PaneAt
<1>7. ASSUME NEW k, NEW w, PaneAt(k, w) \in DOMAIN panes
      PROVE  k \in keys /\ w \in UNION {WindowsOf(r.ts) : r \in Arrived} /\ w.end \in Nat
  <2>1. PICK d, s : s \in Pending(k, w, d)
    BY <1>7 DEF PanesHold
  <2>2. s \in Arrived /\ w \in W!AssignWindows(s.ts) /\ KeyOf(s) = k
    BY <2>1, PendingIs DEF Receiving
  <2>3. w.end \in Nat
    BY <2>1, PendingEnds
  <2>4. QED  BY <1>1, <1>3, <2>2, <2>3
<1>8. ASSUME NEW c \in C
      PROVE  c \in F
  <2>1. PICK k \in keys, w \in windows : c \in Share(n, k, w)'
    BY <1>4
  <2>2. PaneAt(k, w) \in DOMAIN panes
    BY <1>5, <2>1
  <2>3. PICK u \in Made(k, w) : c = [pane |-> PaneAt(k, w), result |-> u]
    BY <1>5, <2>1, <2>2
  <2>4. PaneAt(k, w) \in W!ToFire(t)
    BY <1>1, <1>6, <1>7, <2>1, <2>2
  <2>5. QED  BY <1>2, <2>3, <2>4
<1>9. ASSUME NEW c \in F
      PROVE  c \in C
  <2>1. PICK k, w : /\ PaneAt(k, w) \in W!ToFire(t)
                    /\ \E u \in Made(k, w) : c = [pane |-> PaneAt(k, w), result |-> u]
    BY <1>2
  <2>2. PaneAt(k, w) \in DOMAIN panes /\ t >= w.end
    BY <1>6, <2>1
  <2>3. k \in keys /\ w \in windows
    BY <1>1, <1>7, <2>2
  <2>4. c \in Share(n, k, w)'
    BY <1>5, <2>1, <2>2
  <2>5. QED  BY <1>4, <2>3, <2>4
<1>10. C = F
  BY <1>8, <1>9
<1>11. QED  BY <1>1, <1>10

LEMMA MadeOf ==
  ASSUME EventTimeAssumption, Paired, Given, Windowed, NEW k, NEW w, NEW u \in Made(k, w)
  PROVE  /\ u.kind = "result" /\ u.key = k
         /\ \A id \in IdsOf(u) : \E r \in Arrived : r.id = id /\ KeyOf(r) = k
<1>1. PICK l, r, stamp : /\ l = Arranged(Pending(k, w, "left")) /\ r = Arranged(Pending(k, w, "right"))
                         /\ stamp = W!Wrapped(w.end - 1)
  OBVIOUS
<1>2. \A d : Numbered(Pending(k, w, d))
  BY PendingIs DEF Receiving
<1>3. ToSet(l) = Pending(k, w, "left") /\ ToSet(r) = Pending(k, w, "right")
  BY <1>1, <1>2, ArrangedHolds
<1>4. IsFiniteSet(ToSet(l)) /\ IsFiniteSet(ToSet(r))
  BY <1>2, <1>3 DEF Numbered
<1>5. u \in Stamped(k, stamp, l, r)
  BY <1>1 DEF Made
<1>6. u.kind = "result" /\ u.key = k /\ \A id \in IdsOf(u) : \E x \in ToSet(l) \cup ToSet(r) : x.id = id
  BY <1>4, <1>5, StampedIs
<1>7. \A d : \A x \in Pending(k, w, d) : x \in Arrived /\ KeyOf(x) = k
  BY PendingIs DEF Receiving
<1>8. QED  BY <1>3, <1>6, <1>7

(* What a watermark makes a windowed operator emit. *)
LEMMA MarkEmits ==
  ASSUME EventTimeAssumption, Paired, Given, Windowed, PanesHold, NEW n, NEW e, Extends(n, e),
         NEW t \in Nat, e.ts = t, NEW o, o = W!Emission(t, Results(t))
  PROVE  /\ InTime => Lists(o, Closings(n)', t)
         /\ \A u \in ToSet(o) : u.kind = "result" =>
              \A id \in IdsOf(u) : \E r \in Arrived : r.id = id /\ KeyOf(r) = u.key
<1>1. PICK F, q : F = W!Fired(t, Results(t)) /\ q = W!SetToSeq(F)
  OBVIOUS
<1>2. /\ IsFiniteSet(F)
      /\ \A c \in F : \E k, w : \E u \in Made(k, w) : c = [pane |-> PaneAt(k, w), result |-> u]
  BY <1>1, FiredIs
<1>3. ASSUME NEW c \in F
      PROVE  /\ c.result.kind = "result"
             /\ \A id \in IdsOf(c.result) : \E r \in Arrived : r.id = id /\ KeyOf(r) = c.result.key
  <2>1. PICK k, w : \E u \in Made(k, w) : c = [pane |-> PaneAt(k, w), result |-> u]
    BY <1>2
  <2>2. PICK u \in Made(k, w) : c.result = u
    BY <2>1
  <2>3. /\ u.kind = "result" /\ u.key = k
        /\ \A id \in IdsOf(u) : \E r \in Arrived : r.id = id /\ KeyOf(r) = k
    BY MadeOf
  <2>4. QED  BY <2>2, <2>3
<1>4. Enumerates(q, F)
  BY <1>1, <1>2, SetToSeqIs
<1>5. o = Announced(q, t)
  <2>1. W!Watermark(t) = Watermark(t)
    BY DEF W!Watermark, Watermark
  <2>2. QED  BY <1>1, <2>1 DEF W!Emission, Announced
<1>6. /\ Lists(o, F, t)
      /\ \A u \in ToSet(o) : u.kind = "result" => \E c \in F : u = c.result
  <2>1. IsFiniteSet(F)
    BY <1>2
  <2>2. \A c \in F : c.result.kind = "result"
    BY <1>3
  <2>3. QED  BY <1>4, <1>5, <2>1, <2>2, EmissionLists
<1>7. InTime => Closings(n)' = F
  BY <1>1, ClosingsAre
<1>8. QED  BY <1>3, <1>6, <1>7

(* What was fed stays as it was. *)
Keeps ==
  /\ operator' = operator
  /\ \A q \in Positions : /\ input'[q] = input[q] /\ Arrivals(q)' = Arrivals(q)
                          /\ (IsMark(q)' <=> IsMark(q)) /\ (IsRecord(q)' <=> IsRecord(q))

(* The positions before are judged as before. *)
LEMMA ClosingsStay ==
  ASSUME EventTimeAssumption, Paired, Given, Windowed, Keeps, NEW p \in Positions
  PROVE  Closings(p)' = Closings(p)
<1>0. Len(input) \in Nat /\ Positions = 1..Len(input)
  BY DEF Paired, Listed, Positions
<1>1. /\ \A q \in Positions : /\ q \in Nat /\ input'[q] = input[q] /\ Arrivals(q)' = Arrivals(q)
                              /\ (IsMark(q)' <=> IsMark(q))
      /\ \A q \in 1..(p - 1) : q \in Positions
      /\ operator' = operator /\ p \in Nat
  BY <1>0 DEF Keeps
<1>2. ArrivedBefore(p)' = ArrivedBefore(p)
  BY <1>1 DEF ArrivedBefore
<1>3. \A t : WindowsOf(t)' = WindowsOf(t)
  BY <1>1 DEF WindowsOf, W!Window, W!InWindow
<1>4. ASSUME NEW k, NEW w, NEW side
      PROVE  ClosedBy(p, k, w, side)' = ClosedBy(p, k, w, side)
  <2>1. ASSUME NEW r \in ArrivedBefore(p)
        PROVE  (\A m \in (r.id + 1)..(p - 1) : IsMark(m)' => input'[m].ts < w.end)
                 <=> (\A m \in (r.id + 1)..(p - 1) : IsMark(m) => input[m].ts < w.end)
    <3>1. r \in Arrived
      BY <1>1 DEF ArrivedBefore, Arrived
    <3>2. r.id \in Positions
      BY <3>1, ArrivedIs DEF Receiving
    <3>3. \A m \in (r.id + 1)..(p - 1) : m \in 1..(p - 1)
      BY <1>0, <1>1, <3>2
    <3>4. QED  BY <1>1, <3>3
  <2>2. QED  BY <1>2, <1>3, <2>1 DEF ClosedBy
<1>5. \A k, w : Share(p, k, w)' = Share(p, k, w)
  <2> SUFFICES ASSUME NEW k, NEW w PROVE Share(p, k, w)' = Share(p, k, w)
    OBVIOUS
  <2>1. PICK x, y : /\ x = Arranged(ClosedBy(p, k, w, "left"))' /\ y = Arranged(ClosedBy(p, k, w, "right"))'
    OBVIOUS
  <2>2. x = Arranged(ClosedBy(p, k, w, "left"))
    <3>1. PICK S : S = ClosedBy(p, k, w, "left")'
      OBVIOUS
    <3>2. x = Arranged(S)
      BY <2>1, <3>1 DEF Arranged
    <3>3. QED  BY <1>4, <3>1, <3>2
  <2>3. y = Arranged(ClosedBy(p, k, w, "right"))
    <3>1. PICK S : S = ClosedBy(p, k, w, "right")'
      OBVIOUS
    <3>2. y = Arranged(S)
      BY <2>1, <3>1 DEF Arranged
    <3>3. QED  BY <1>4, <3>1, <3>2
  <2>4. PICK m : m = WindowResults(k, w, x, y)
    OBVIOUS
  <2>5. Share(p, k, w) = {[pane |-> [key |-> k, window |-> w], result |-> u] : u \in m}
    BY <2>2, <2>3, <2>4 DEF Share
  <2>6. m = WindowResults(k, w, Arranged(ClosedBy(p, k, w, "left")), Arranged(ClosedBy(p, k, w, "right")))'
    <3>1. WindowResults(k, w, x, y)' = m
      BY <1>1, <2>4 DEF WindowResults
    <3>2. WindowResults(k, w, Arranged(ClosedBy(p, k, w, "left")), Arranged(ClosedBy(p, k, w, "right")))'
            = WindowResults(k, w, x, y)'
      BY <2>1 DEF WindowResults
    <3>3. QED  BY <3>1, <3>2
  <2>7. Share(p, k, w)' = {[pane |-> [key |-> k, window |-> w], result |-> u] : u \in m}
    BY <2>6 DEF Share
  <2>8. QED  BY <2>5, <2>7
<1>6. PICK A, B, A1, B1 :
        /\ A = {KeyOf(r) : r \in ArrivedBefore(p)}
        /\ B = {w \in UNION {WindowsOf(r.ts) : r \in ArrivedBefore(p)} : w.end <= input[p].ts}
        /\ A1 = {KeyOf(r) : r \in ArrivedBefore(p)}'
        /\ B1 = {w \in UNION {WindowsOf(r.ts) : r \in ArrivedBefore(p)} : w.end <= input[p].ts}'
  OBVIOUS
<1>7. A1 = A /\ B1 = B
  BY <1>1, <1>2, <1>3, <1>6
<1>8. Closings(p) = UNION {Share(p, k, w) : k \in A, w \in B}
  BY <1>6 DEF Closings
<1>9. Closings(p)' = UNION {Share(p, k, w)' : k \in A1, w \in B1}
  BY <1>6 DEF Closings
<1>10. QED  BY <1>5, <1>7, <1>8, <1>9

(* A result carries the key its records arrived with. *)
KeyedBy(u) == \A id \in IdsOf(u) : \E r \in Arrived : r.id = id /\ KeyOf(r) = u.key
KeyedSo == \A p \in Positions : \A u \in ResultsOf(p) : KeyedBy(u)

(* What is emitted at n. *)
EmitsExactly(n, o) ==
  IF IsMark(n) THEN InTime => Lists(o, Closings(n), input[n].ts)
  ELSE \A u \in ToSet(o) : u.kind # "result"

LEMMA ExtendsKeeps ==
  ASSUME NEW n, NEW e, Extends(n, e)
  PROVE  Keeps
BY DEF Extends, Keeps, IsRecord

LEMMA EmittedNext ==
  ASSUME EventTimeAssumption, Paired, Given, Windowed, WindowsExact, KeyedSo, NEW n, NEW e,
         Extends(n, e), NEW o, Longer(out, o, out'), n = Len(out'), Len(out) = Len(input),
         EmitsExactly(n, o)', \A u \in ToSet(o) : u.kind = "result" => KeyedBy(u)
  PROVE  WindowsExact' /\ KeyedSo'
<1>1. Keeps /\ Positions' = Positions \cup {n} /\ operator' = operator /\ Arrived \subseteq Arrived'
  BY ExtendsKeeps DEF Extends
<1>2. out'[n] = o /\ \A p \in Positions : out'[p] = out[p]
  BY DEF Longer, Extends
<1>3. \A p \in Positions : ResultsOf(p)' = ResultsOf(p)
  BY <1>2 DEF ResultsOf, Emitted
<1>4. ResultsOf(n)' = {u \in ToSet(o) : u.kind = "result"}
  BY <1>2 DEF ResultsOf, Emitted
<1>5. InTime' => InTime
  BY <1>1 DEF InTime, Keeps
<1>6. ASSUME NEW p \in Positions
      PROVE  (IF IsMark(p) THEN InTime => Lists(out[p], Closings(p), input[p].ts)
              ELSE ResultsOf(p) = {})'
  <2>1. IF IsMark(p) THEN InTime => Lists(out[p], Closings(p), input[p].ts) ELSE ResultsOf(p) = {}
    BY DEF WindowsExact
  <2>2. (IsMark(p)' <=> IsMark(p)) /\ input'[p] = input[p] /\ Closings(p)' = Closings(p)
    BY <1>1, ClosingsStay DEF Keeps
  <2>3. Lists(out[p], Closings(p), input[p].ts)' <=> Lists(out[p], Closings(p), input[p].ts)
    <3>1. PICK a, b, c : a = out[p] /\ b = Closings(p) /\ c = input[p].ts
      OBVIOUS
    <3>2. out'[p] = a /\ Closings(p)' = b /\ input'[p].ts = c
      BY <1>2, <2>2, <3>1
    <3>3. Lists(out[p], Closings(p), input[p].ts)' <=> Lists(a, b, c)
      BY <3>2 DEF Lists
    <3>4. QED  BY <3>1, <3>3
  <2>4. QED  BY <1>3, <1>5, <2>1, <2>2, <2>3
<1>7. (IF IsMark(n) THEN InTime => Lists(out[n], Closings(n), input[n].ts) ELSE ResultsOf(n) = {})'
  <2>1. Lists(out[n], Closings(n), input[n].ts)' <=> Lists(o, Closings(n), input[n].ts)'
    BY <1>2 DEF Lists
  <2>2. QED  BY <1>4, <2>1 DEF EmitsExactly
<1>8. WindowsExact'
  BY <1>1, <1>6, <1>7 DEF WindowsExact
<1>9. \A u : IdsOf(u)' = IdsOf(u)
  BY <1>1 DEF IdsOf
<1>10. \A u : KeyedBy(u) => KeyedBy(u)'
  BY <1>1, <1>9 DEF KeyedBy
<1>11. KeyedSo'
  BY <1>1, <1>3, <1>4, <1>10 DEF KeyedSo
<1>12. QED  BY <1>8, <1>11

LEMMA EmittedStays ==
  ASSUME EventTimeAssumption, Paired, Given, Windowed, WindowsExact, KeyedSo,
         UNCHANGED <<operator, input, out>>
  PROVE  WindowsExact' /\ KeyedSo'
<1>1. Positions' = Positions
  BY DEF Positions
<1>2. Keeps
  BY DEF Keeps, Arrivals, IsRecord, IsMark, Stateless, Processing
<1>3. \A p : ResultsOf(p)' = ResultsOf(p)
  BY DEF ResultsOf, Emitted
<1>4. InTime' => InTime
  BY <1>1, <1>2 DEF InTime, Keeps
<1>5. ASSUME NEW p \in Positions
      PROVE  (IF IsMark(p) THEN InTime => Lists(out[p], Closings(p), input[p].ts)
              ELSE ResultsOf(p) = {})'
  <2>1. IF IsMark(p) THEN InTime => Lists(out[p], Closings(p), input[p].ts) ELSE ResultsOf(p) = {}
    BY DEF WindowsExact
  <2>2. (IsMark(p)' <=> IsMark(p)) /\ Closings(p)' = Closings(p)
    BY <1>2, ClosingsStay DEF Keeps
  <2>3. Lists(out[p], Closings(p), input[p].ts)' <=> Lists(out[p], Closings(p), input[p].ts)
    BY <2>2 DEF Lists
  <2>4. QED  BY <1>3, <1>4, <2>1, <2>2, <2>3
<1>6. WindowsExact'
  BY <1>1, <1>5 DEF WindowsExact
<1>7. Arrived' = Arrived
  BY <1>1, <1>2 DEF Arrived, Keeps
<1>8. \A u : KeyedBy(u) => KeyedBy(u)'
  BY <1>7 DEF KeyedBy, IdsOf
<1>9. KeyedSo'
  BY <1>1, <1>3, <1>8 DEF KeyedSo
<1>10. QED  BY <1>6, <1>9

EmittedInv == Windowed => WindowsExact /\ KeyedSo

THEOREM EmittedAlways == OperatorSpec => []EmittedInv
<1>1. OperatorInit => EmittedInv
  BY DEF OperatorInit, EmittedInv, WindowsExact, KeyedSo, Positions
<1>2. EventTimeAssumption /\ Paired /\ Paired' /\ Given /\ Given' /\ PanesInv /\ EmittedInv
        /\ [OperatorNext]_operatorVars => EmittedInv'
  <2> SUFFICES ASSUME EventTimeAssumption, Paired, Paired', Given, Given', PanesInv, EmittedInv,
                      [OperatorNext]_operatorVars, Windowed'
               PROVE  WindowsExact' /\ KeyedSo'
    BY DEF EmittedInv
  <2>1. CASE UNCHANGED operatorVars
    <3>1. UNCHANGED <<operator, input, out>>
      BY <2>1 DEF operatorVars
    <3>2. Windowed /\ WindowsExact /\ KeyedSo
      BY <3>1 DEF EmittedInv, Windowed
    <3>3. QED  BY <3>1, <3>2, EmittedStays
  <2>2. CASE OperatorNext
    <3>1. operator' = operator
      BY <2>2, StepFeeds DEF Feeds
    <3>2. Windowed /\ Receiving /\ PanesHold /\ WindowsExact /\ KeyedSo /\ JoinSteps
      BY <2>2, <3>1, ReceivingSteps DEF PanesInv, EmittedInv, Windowed, Receiving
    <3>3. PICK n : n = Len(input')
      OBVIOUS
    <3>4. n = Len(out') /\ Len(out) = Len(input)
      BY <3>3 DEF Paired
    <3>5. ASSUME NEW e, NEW o, Longer(input, e, input'), Longer(out, o, out'),
                 ~IsMark(n)', \A u \in ToSet(o) : u.kind # "result"
          PROVE  WindowsExact' /\ KeyedSo'
      <4>1. Extends(n, e)
        BY <3>1, <3>3, <3>5, FeedExtends
      <4>2. EmitsExactly(n, o)'
        BY <3>5 DEF EmitsExactly
      <4>3. QED  BY <3>2, <3>4, <3>5, <4>1, <4>2, EmittedNext
    <3>6. ASSUME NEW side \in Sides, NEW k \in Keys, NEW t \in Times,
                 FeedRecord(Record(side, k, t, Next1))
          PROVE  WindowsExact' /\ KeyedSo'
      <4>1. PICK e : /\ Longer(input, e, input') /\ Longer(out, <<>>, out') /\ IsRecord(n)'
        BY <3>2, <3>3, <3>6, WindowRecordIs
      <4>2. ~IsMark(n)'
        BY <4>1 DEF IsMark, IsRecord
      <4>3. \A u \in ToSet(<<>>) : u.kind # "result"
        BY DEF ToSet
      <4>4. QED  BY <3>5, <4>1, <4>2, <4>3
    <3>7. ASSUME NEW t \in Marks, NEW rearm, FeedWatermark(t, rearm)
          PROVE  WindowsExact' /\ KeyedSo'
      <4>1. PICK e : /\ Longer(input, e, input') /\ Longer(out, W!Emission(t, Results(t)), out')
                     /\ operator' = operator /\ e.ts = t /\ e.kind = "watermark"
                     /\ W!Fire(t, Results(t))
        BY <3>2, <3>3, <3>7, WindowMarkIs
      <4>2. Extends(n, e)
        BY <3>3, <4>1, FeedExtends
      <4>3. t \in Nat /\ IsMark(n)' /\ input'[n].ts = t
        BY <4>1, <4>2 DEF IsMark, Extends, EventTimeAssumption
      <4>4. PICK o : o = W!Emission(t, Results(t))
        OBVIOUS
      <4>5. InTime => Lists(o, Closings(n)', t)
        BY <3>2, <4>1, <4>2, <4>3, <4>4, MarkEmits
      <4>6. \A u \in ToSet(o) : u.kind = "result" => KeyedBy(u)
        BY <3>2, <4>1, <4>2, <4>3, <4>4, MarkEmits DEF KeyedBy
      <4>7. InTime' => InTime
        BY <4>2, ExtendsKeeps DEF InTime, Keeps, Extends
      <4>8. Lists(o, Closings(n), input[n].ts)' <=> Lists(o, Closings(n)', t)
        <5>1. PICK b : b = Closings(n)'
          OBVIOUS
        <5>2. Lists(o, Closings(n), input[n].ts)' <=> Lists(o, b, t)
          BY <4>3, <5>1 DEF Lists
        <5>3. QED  BY <5>1, <5>2
      <4>9. EmitsExactly(n, o)'
        BY <4>3, <4>5, <4>7, <4>8 DEF EmitsExactly
      <4>10. QED  BY <3>2, <3>4, <4>1, <4>2, <4>4, <4>6, <4>9, EmittedNext
    <3>8. CASE FeedBarrier
      <4>1. PICK e, o : e = Barrier /\ o = <<Barrier>>
        OBVIOUS
      <4>2. input' = Append(input, e) /\ out' = Append(out, o)
        BY <3>8, <4>1 DEF FeedBarrier, Fed
      <4>3. Longer(input, e, input') /\ Longer(out, o, out')
        BY <4>2, AppendLonger DEF Paired
      <4>4. e.kind = "barrier" /\ input'[n] = e
        BY <3>3, <4>1, <4>3 DEF Barrier, Longer
      <4>5. ~IsMark(n)'
        BY <4>4 DEF IsMark
      <4>6. \A u \in ToSet(o) : u.kind # "result"
        BY <4>1 DEF ToSet, Barrier
      <4>7. QED  BY <3>5, <4>3, <4>5, <4>6
    <3>9. QED  BY <3>2, <3>6, <3>7, <3>8 DEF JoinSteps
  <2>3. QED  BY <2>1, <2>2
<1>3. EventTimeAssumption
  BY EventTimeAssumption
<1>4. QED  BY <1>1, <1>2, <1>3, PairedAlways, GivenAlways, PanesAlways, PTL DEF OperatorSpec

(* Each watermark makes a windowed operator emit exactly the results of    *)
(* the windows it closes, each of exactly the records that arrived in it   *)
(* since it was last closed.                                               *)
THEOREM WindowsCorrect == OperatorSpec => []WindowsExact
<1>1. EmittedInv => WindowsExact
  BY DEF EmittedInv, WindowsExact
<1>2. QED  BY <1>1, EmittedAlways, PTL

(* Behind a map or a filter a result carries the key that every record it  *)
(* was made of had when it entered the task.                               *)
THEOREM KeyCorrect == OperatorSpec => []KeyKept
<1>1. EventTimeAssumption /\ Given /\ EmittedInv /\ JoinedInv => KeyKept
  <2> SUFFICES ASSUME EventTimeAssumption, Given, EmittedInv, JoinedInv,
                      operator.stateless \in {"map", "filter"}, NEW p \in Positions,
                      NEW u \in ResultsOf(p), NEW id \in IdsOf(u)
               PROVE  u.key = KeyOf(input[id])
    BY DEF KeyKept
  <2>1. operator \in Operators /\ Receiving
    BY DEF Given, EventTimeAssumption, Receiving, Windowed, Joining
  <2>2. KeyedBy(u)
    <3>1. CASE Windowed
      BY <3>1 DEF EmittedInv, KeyedSo
    <3>2. CASE Joining
      <4>1. PICK x \in Arrivals(p), y \in Arrived : Shows(u, x, y)
        BY <3>2 DEF JoinedInv, JoinedSo
      <4>2. x \in Arrived
        BY DEF Arrived
      <4>3. u.key = KeyOf(x) /\ u.key = KeyOf(y) /\ u.of = Couple(x, y)
        BY <4>1 DEF Shows
      <4>4. IdsOf(u) = ToSet(u.of)
        BY <3>2 DEF IdsOf, Joining
      <4>5. \A i, j : ToSet(<<i, j>>) = {i, j}
        BY DEF ToSet
      <4>6. IdsOf(u) = {x.id, y.id}
        BY <4>3, <4>4, <4>5 DEF Couple
      <4>7. QED  BY <4>1, <4>2, <4>3, <4>6 DEF KeyedBy
    <3>3. QED  BY <2>1, <3>1, <3>2 DEF Receiving
  <2>3. PICK r \in Arrived : r.id = id /\ KeyOf(r) = u.key
    BY <2>2 DEF KeyedBy
  <2>4. r = input[id]
    BY <2>1, <2>3, ArrivedIs DEF PassedOn
  <2>5. QED  BY <2>3, <2>4
<1>2. EventTimeAssumption
  BY EventTimeAssumption
<1>3. QED  BY <1>1, <1>2, GivenAlways, EmittedAlways, JoinedAlways, PTL

-----------------------------------------------------------------------------
(* The timer service and the types. *)

(* The timers of a set in ascending order, each once. *)
TimerSet == (0..MaxTs) \X Nat

LEMMA AscendingIs ==
  ASSUME EventTimeAssumption, NEW S \in SUBSET TimerSet, IsFiniteSet(S), NEW q, q = P!Ascending(S)
  PROVE  /\ DOMAIN q = 1..Cardinality(S) /\ Cardinality(S) \in Nat /\ q \in Seq(S)
         /\ \A k \in DOMAIN q : q[k] \in S
         /\ \A f \in S : \E k \in DOMAIN q : q[k] = f
         /\ \A j, k \in DOMAIN q : j < k => P!Sooner(q[j], q[k])
<1>1. PICK B : B = [f \in S |-> {g \in S : P!Sooner(g, f)}]
  OBVIOUS
<1>2. q = Sequenced(S, B)
  <2>1. q = P!Sequenced(S, B)
    BY <1>1, Zenon DEF P!Ascending
  <2>2. PICK F : F = [i \in 1..Cardinality(S) |-> CHOOSE s \in S : Cardinality(B[s]) = i - 1]
    OBVIOUS
  <2>3. F = Sequenced(S, B)
    BY <2>2, Zenon DEF Sequenced
  <2>4. F = P!Sequenced(S, B)
    <3>1. \A T : P!Cardinality(T) = Cardinality(T)
      BY Zenon DEF P!Cardinality, Cardinality
    <3>2. QED  BY <2>2, <3>1 DEF P!Sequenced
  <2>5. QED  BY <2>1, <2>3, <2>4
<1>3. \A f \in S : f[1] \in Nat /\ f[2] \in Nat /\ f = <<f[1], f[2]>>
  BY DEF TimerSet, EventTimeAssumption
<1>4. \A f, g \in S : g \in B[f] <=> g[1] < f[1] \/ (g[1] = f[1] /\ g[2] < f[2])
  BY <1>1 DEF P!Sooner
<1>5. Ranks(S, B)
  <2>1. B \in [S -> SUBSET S]
    BY <1>1
  <2>2. \A s \in S : s \notin B[s]
    BY <1>3, <1>4
  <2>3. ASSUME NEW r \in S, NEW s \in S, r \in B[s], NEW x \in B[r]
        PROVE  x \in B[s]
    <3>1. x \in S
      BY <2>1, <2>3
    <3>2. /\ r[1] \in Nat /\ r[2] \in Nat /\ s[1] \in Nat /\ s[2] \in Nat /\ x[1] \in Nat /\ x[2] \in Nat
          /\ r[1] < s[1] \/ (r[1] = s[1] /\ r[2] < s[2])
          /\ x[1] < r[1] \/ (x[1] = r[1] /\ x[2] < r[2])
      BY <1>3, <1>4, <2>3, <3>1
    <3>3. x[1] < s[1] \/ (x[1] = s[1] /\ x[2] < s[2])
      BY <3>2
    <3>4. QED  BY <1>4, <3>1, <3>3
  <2>4. ASSUME NEW r \in S, NEW s \in S, r # s
        PROVE  r \in B[s] \/ s \in B[r]
    <3>1. r[1] # s[1] \/ r[2] # s[2]
      BY <1>3, <2>4
    <3>2. QED  BY <1>3, <1>4, <3>1
  <2>5. QED  BY <2>1, <2>2, <2>3, <2>4 DEF Ranks
<1>6. InSequence(S, B, q)
  BY <1>2, <1>5, SequencedHolds
<1>7. /\ Cardinality(S) \in Nat /\ DOMAIN q = 1..Cardinality(S)
      /\ \A k \in DOMAIN q : q[k] \in S /\ Cardinality(B[q[k]]) = k - 1
      /\ \A j, k \in DOMAIN q : q[j] = q[k] => j = k
      /\ \A s \in S : \E k \in DOMAIN q : q[k] = s
  BY <1>6 DEF InSequence
<1>8. ASSUME NEW j \in DOMAIN q, NEW k \in DOMAIN q, j < k
      PROVE  P!Sooner(q[j], q[k])
  <2>1. PICK f, g : f = q[j] /\ g = q[k]
    OBVIOUS
  <2>2. /\ f \in S /\ g \in S /\ f # g /\ j \in Nat /\ k \in Nat
        /\ Cardinality(B[f]) = j - 1 /\ Cardinality(B[g]) = k - 1
    BY <1>7, <1>8, <2>1
  <2>3. f \in B[g] \/ g \in B[f]
    BY <1>5, <2>2 DEF Ranks
  <2>4. ASSUME g \in B[f] PROVE FALSE
    <3>1. B[g] \subseteq B[f] /\ B[f] \subseteq S
      BY <1>5, <2>2, <2>4 DEF Ranks
    <3>2. IsFiniteSet(B[f])
      BY <3>1, FS_Subset
    <3>3. Cardinality(B[g]) <= Cardinality(B[f])
      BY <3>1, <3>2, FS_Subset
    <3>4. QED  BY <1>8, <2>2, <3>3
  <2>5. f \in B[g]
    BY <2>3, <2>4
  <2>6. P!Sooner(f, g)
    BY <1>1, <2>2, <2>5
  <2>7. QED  BY <2>1, <2>6
<1>9. q \in Seq(S)
  <2>1. PICK n : n = Cardinality(S)
    OBVIOUS
  <2>2. n \in Nat /\ q = [k \in 1..n |-> q[k]] /\ \A k \in 1..n : q[k] \in S
    BY <1>6, <1>7, <2>1 DEF InSequence
  <2>3. QED  BY <2>2
<1>10. QED  BY <1>7, <1>8, <1>9

(* The timer service, and the watermarks of the tracker, hold timers and   *)
(* times that exist; the other kinds of operator hold nothing.             *)
ServiceOk ==
  /\ DOMAIN timers = {"event", "processing"}
  /\ timers.event \in SUBSET TimerSet /\ timers.processing \in SUBSET TimerSet
  /\ IsFiniteSet(timers.event)
  /\ currentKey \in Nat /\ currentWatermark \in 0..MaxTs

TrackerOk == inputWatermarks \in [1..2 -> 0..MaxTs] /\ trackerWatermark \in 0..MaxTs

Idle == (~Windowed => panes = <<>>) /\ (~Joining => buffers = <<>>)

(* What a watermark made of the timers: their calls, then itself. *)
Orderly(o) ==
  /\ Len(o) \in Nat /\ o[Len(o)].kind = "watermark"
  /\ \A i \in 1..(Len(o) - 1) : o[i].kind = "timer"
  /\ \A i, j \in 1..(Len(o) - 1) : i < j => P!Sooner(<<o[i].ts, o[i].key>>, <<o[j].ts, o[j].key>>)

(* The calls of on_timer at each watermark. *)
TimersInOrder == Processing => \A p \in Positions : IsMark(p) => Orderly(out[p])

ServiceInv == ServiceOk /\ TrackerOk /\ Idle /\ TimersInOrder

LEMMA FollowedBy ==
  ASSUME NEW R, NEW s \in Seq(R), NEW u \in Seq(R), Len(u) = 1, NEW z, z = s \o u
  PROVE  /\ Len(z) = Len(s) + Len(u)
         /\ \A k \in 1..Len(s) : z[k] = s[k]
         /\ z[Len(s) + 1] = u[1]
<1>1. Len(z) = Len(s) + Len(u)
  <2>1. \A a, b \in Seq(R) : Len(a \o b) = Len(a) + Len(b)
    OBVIOUS
  <2>2. QED  BY <2>1, Zenon
<1>2. \A k \in 1..Len(s) : z[k] = s[k]
  OBVIOUS
<1>3. z[Len(s) + 1] = u[1]
  <2>1. \A a, b \in Seq(R) : \A j \in 1..Len(b) : (a \o b)[Len(a) + j] = b[j]
    OBVIOUS
  <2>2. 1 \in 1..Len(u)
    OBVIOUS
  <2>3. (s \o u)[Len(s) + 1] = u[1]
    BY <2>1, <2>2, Zenon
  <2>4. QED  BY <2>3
<1>4. QED  BY <1>1, <1>2, <1>3

(* A sequence and one element more. *)
LEMMA ThenOne ==
  ASSUME NEW m \in Nat, NEW c, c = [k \in 1..m |-> c[k]], NEW w, NEW o, o = c \o <<w>>
  PROVE  /\ Len(o) = m + 1 /\ o[m + 1] = w
         /\ \A k \in 1..m : o[k] = c[k]
<1>1. PICK R, u : R = {c[k] : k \in 1..m} \cup {w} /\ u = <<w>>
  OBVIOUS
<1>2. c \in Seq(R) /\ Len(c) = m
  BY <1>1
<1>3. u \in Seq(R) /\ Len(u) = 1 /\ u[1] = w
  BY <1>1
<1>4. o = c \o u
  BY <1>1
<1>5. Len(o) = Len(c) + Len(u)
  BY <1>2, <1>3, <1>4, FollowedBy
<1>6. \A k \in 1..Len(c) : o[k] = c[k]
  BY <1>2, <1>3, <1>4, FollowedBy
<1>7. o[Len(c) + 1] = u[1]
  BY <1>2, <1>3, <1>4, FollowedBy
<1>8. QED  BY <1>2, <1>3, <1>5, <1>6, <1>7

(* The timers of one watermark. *)
LEMMA ServedInOrder ==
  ASSUME EventTimeAssumption, NEW S \in SUBSET TimerSet, IsFiniteSet(S), NEW t,
         NEW o, o = Served(S, t)
  PROVE  Orderly(o)
<1>1. PICK q, m : q = P!Ascending(S) /\ m = Cardinality(S)
  OBVIOUS
<1>2. /\ DOMAIN q = 1..m /\ m \in Nat
      /\ \A k \in DOMAIN q : q[k] \in S
      /\ \A j, k \in DOMAIN q : j < k => P!Sooner(q[j], q[k])
  BY <1>1, AscendingIs
<1>3. PICK c : c = [k \in 1..m |-> P!OnTimer(q[k])]
  OBVIOUS
<1>4. PICK w : w = Watermark(t)
  OBVIOUS
<1>5. o = c \o <<w>>
  BY <1>1, <1>2, <1>3, <1>4 DEF Served
<1>6. /\ Len(o) = m + 1 /\ o[m + 1] = w
      /\ \A k \in 1..m : o[k] = c[k]
  BY <1>2, <1>3, <1>5, ThenOne
<1>7. w.kind = "watermark"
  BY <1>4 DEF Watermark
<1>8. \A k \in 1..m : o[k] = [kind |-> "timer", ts |-> q[k][1], key |-> q[k][2]]
  BY <1>3, <1>6 DEF P!OnTimer
<1>9. \A k \in 1..m : o[k].kind = "timer" /\ o[k].ts = q[k][1] /\ o[k].key = q[k][2]
  <2>1. ASSUME NEW k \in 1..m
        PROVE  o[k].kind = "timer" /\ o[k].ts = q[k][1] /\ o[k].key = q[k][2]
    <3>1. PICK x, y, z : x = q[k][1] /\ y = q[k][2] /\ z = o[k]
      OBVIOUS
    <3>2. z = [kind |-> "timer", ts |-> x, key |-> y]
      BY <1>8, <3>1
    <3>3. z.kind = "timer" /\ z.ts = x /\ z.key = y
      BY <3>2
    <3>4. QED  BY <3>1, <3>3
  <2>2. QED  BY <2>1
<1>10. \A k \in 1..m : <<o[k].ts, o[k].key>> = q[k]
  <2>1. TAKE k \in 1..m
  <2>2. q[k] \in TimerSet
    BY <1>2
  <2>3. q[k] = <<q[k][1], q[k][2]>>
    BY <2>2 DEF TimerSet
  <2>4. QED  BY <1>9, <2>3
<1>11. 1..(Len(o) - 1) = 1..m /\ Len(o) \in Nat
  BY <1>2, <1>6
<1>12. o[Len(o)].kind = "watermark"
  BY <1>6, <1>7
<1>13. \A i, j \in 1..m : i < j => P!Sooner(<<o[i].ts, o[i].key>>, <<o[j].ts, o[j].key>>)
  BY <1>2, <1>10
<1>14. QED  BY <1>9, <1>11, <1>12, <1>13 DEF Orderly

LEMMA OrderNext ==
  ASSUME Paired, Paired', TimersInOrder, NEW e, Longer(input, e, input'), NEW o, Longer(out, o, out'),
         operator' = operator, NEW n, n = Len(input'), Processing /\ IsMark(n)' => Orderly(o)
  PROVE  TimersInOrder'
<1>1. Extends(n, e)
  BY FeedExtends
<1>2. /\ Positions' = Positions \cup {n} /\ (Processing' <=> Processing)
      /\ \A p \in Positions : (IsMark(p)' <=> IsMark(p)) /\ p \in 1..Len(out)
      /\ n = Len(out')
  BY <1>1 DEF Extends, Processing, Paired
<1>3. (\A p \in Positions : out'[p] = out[p]) /\ out'[n] = o
  BY <1>2 DEF Longer
<1>4. SUFFICES ASSUME Processing, NEW p \in Positions \cup {n}, IsMark(p)' PROVE Orderly(out'[p])
  <2>1. \A p : Orderly(out[p])' <=> Orderly(out'[p])
    BY DEF Orderly, P!Sooner
  <2>2. QED  BY <1>2, <1>4, <2>1 DEF TimersInOrder
<1>5. CASE p \in Positions
  BY <1>2, <1>3, <1>4, <1>5 DEF TimersInOrder
<1>6. CASE p = n
  BY <1>3, <1>4, <1>6
<1>7. QED  BY <1>4, <1>5, <1>6

LEMMA CallServes ==
  ASSUME EventTimeAssumption, Processing, ServiceOk, NEW side \in Sides, NEW k \in Keys, NEW c \in Calls,
         FeedCall(Caller(side, k, Next1, c))
  PROVE  ServiceOk'
<1>1. PICK r : r = Caller(side, k, Next1, c)
  OBVIOUS
<1>2. r.key = k /\ r.call = c
  BY <1>1, CallIs
<1>3. /\ currentKey' = P!KeyOf(r) /\ currentWatermark' = currentWatermark
      /\ timers' = P!Call(timers, c, P!KeyOf(r))
  BY <1>1, <1>2 DEF FeedCall, P!ProcessRecord, P!ProcessElement, P!KeyedElement, P!CoElement, P!UserCall
<1>4. PICK key : key = P!KeyOf(r)
  OBVIOUS
<1>5. key \in Nat
  BY <1>2, <1>4 DEF P!KeyOf, EventTimeAssumption
<1>6. PICK f : f = P!Timer(c.time, key)
  OBVIOUS
<1>7. f \in TimerSet
  BY <1>5, <1>6 DEF P!Timer, TimerSet, EventTimeAssumption, Calls
<1>8. /\ DOMAIN timers' = {"event", "processing"}
      /\ timers'.event = timers.event \/ timers'.event = timers.event \cup {f}
         \/ timers'.event = timers.event \ {f}
      /\ timers'.processing = timers.processing \/ timers'.processing = timers.processing \cup {f}
         \/ timers'.processing = timers.processing \ {f}
  <2>1. DOMAIN timers = {"event", "processing"}
    BY DEF ServiceOk
  <2>2. CASE c.op = "register"
    BY <1>3, <1>4, <1>6, <2>1, <2>2 DEF P!Call, P!RegisterEventTime
  <2>3. CASE c.op = "delete"
    BY <1>3, <1>4, <1>6, <2>1, <2>3 DEF P!Call, P!DeleteEventTime
  <2>4. CASE c.op = "register_processing"
    BY <1>3, <1>4, <1>6, <2>1, <2>4 DEF P!Call, P!RegisterProcessingTime
  <2>5. CASE c.op = "delete_processing"
    BY <1>3, <1>4, <1>6, <2>1, <2>5 DEF P!Call, P!DeleteProcessingTime
  <2>6. QED  BY <2>2, <2>3, <2>4, <2>5 DEF Calls
<1>9. IsFiniteSet(timers'.event)
  <2>1. IsFiniteSet(timers.event)
    BY DEF ServiceOk
  <2>2. IsFiniteSet(timers.event \cup {f})
    BY <2>1, FS_AddElement
  <2>3. IsFiniteSet(timers.event \ {f})
    BY <2>1, FS_RemoveElement
  <2>4. QED  BY <1>8, <2>1, <2>2, <2>3
<1>10. timers'.event \in SUBSET TimerSet /\ timers'.processing \in SUBSET TimerSet
  BY <1>7, <1>8 DEF ServiceOk
<1>11. currentKey' \in Nat /\ currentWatermark' \in 0..MaxTs
  BY <1>3, <1>4, <1>5 DEF ServiceOk
<1>12. QED  BY <1>8, <1>9, <1>10, <1>11 DEF ServiceOk

LEMMA TimersServe ==
  ASSUME EventTimeAssumption, Processing, ServiceOk, NEW t \in Marks, NEW rearm \in SUBSET timers.event,
         FeedWatermark(t, rearm)
  PROVE  /\ ServiceOk'
         /\ \E o : out' = Append(out, o) /\ Orderly(o)
<1>1. P!OnTimers(t, rearm)
  BY DEF FeedWatermark, Processing, Windowed, Joining, P!ProcessWatermark,
         P!ProcessTimers, P!KeyedTimers, P!CoTimers
<1>2. PICK fired : fired = P!FireEventTimeUpTo(t)
  OBVIOUS
<1>3. fired \in SUBSET timers.event /\ fired \in SUBSET TimerSet
  BY <1>2 DEF P!FireEventTimeUpTo, ServiceOk
<1>4. IsFiniteSet(fired)
  BY <1>3, FS_Subset DEF ServiceOk
<1>5. PICK again : again = {<<P!Plus(f[1], 1), f[2]>> : f \in rearm}
  OBVIOUS
<1>6. PICK q : q = P!Ascending(fired)
  OBVIOUS
<1>7. /\ timers' = [timers EXCEPT !.event = (timers.event \ fired) \cup again]
      /\ rearm \subseteq fired /\ currentWatermark' = t
      /\ currentKey' = IF q = <<>> THEN currentKey ELSE P!Last(q)[2]
  <2>1. {P!Timer(P!Plus(f[1], 1), P!TimerKey(f)) : f \in rearm} = again
    BY <1>5 DEF P!Timer, P!TimerKey
  <2>2. timers' = [timers EXCEPT !.event = (timers.event \ fired) \cup again]
    BY <1>1, <1>2, <2>1 DEF P!OnTimers
  <2>3. QED  BY <1>1, <1>2, <1>6, <2>2 DEF P!OnTimers, P!TimerKey
<1>8. again \in SUBSET TimerSet
  <2>1. \A f \in rearm : P!Plus(f[1], 1) \in 0..MaxTs /\ f[2] \in Nat
    <3>1. \A f \in rearm : f[1] \in 0..MaxTs /\ f[2] \in Nat
      BY <1>3, <1>7 DEF TimerSet
    <3>2. QED  BY <3>1 DEF P!Plus, EventTimeAssumption
  <2>2. QED  BY <1>5, <2>1 DEF TimerSet
<1>9. IsFiniteSet(again)
  <2>1. PICK F : F = [f \in rearm |-> <<P!Plus(f[1], 1), f[2]>>]
    OBVIOUS
  <2>2. IsFiniteSet(rearm)
    BY <1>4, <1>7, FS_Subset
  <2>3. DOMAIN F = rearm /\ again = {F[x] : x \in rearm}
    BY <1>5, <2>1
  <2>4. QED  BY <2>2, <2>3, FiniteImage
<1>10. DOMAIN timers' = {"event", "processing"}
       /\ timers'.event = (timers.event \ fired) \cup again /\ timers'.processing = timers.processing
  BY <1>7 DEF ServiceOk
<1>11. IsFiniteSet(timers'.event)
  <2>1. IsFiniteSet(timers.event \ fired)
    BY FS_Difference DEF ServiceOk
  <2>2. IsFiniteSet((timers.event \ fired) \cup again)
    BY <1>9, <2>1, FS_Union
  <2>3. QED  BY <1>10, <2>2
<1>12. currentKey' \in Nat
  <2>1. CASE q = <<>>
    BY <1>7, <2>1 DEF ServiceOk
  <2>2. CASE q # <<>>
    <3>1. PICK m : m = Cardinality(fired)
      OBVIOUS
    <3>2. DOMAIN q = 1..m /\ m \in Nat /\ \A k \in DOMAIN q : q[k] \in fired
      BY <1>3, <1>4, <1>6, <3>1, AscendingIs
    <3>3. q \in Seq(fired)
      BY <1>3, <1>4, <1>6, AscendingIs
    <3>4. Len(q) \in DOMAIN q
      BY <2>2, <3>3
    <3>5. P!Last(q) \in fired
      BY <3>2, <3>4 DEF P!Last
    <3>6. P!Last(q)[2] \in Nat
      BY <1>3, <3>5 DEF TimerSet
    <3>7. QED  BY <1>7, <2>2, <3>6
  <2>3. QED  BY <2>1, <2>2
<1>13. currentWatermark' \in 0..MaxTs
  BY <1>7 DEF EventTimeAssumption
<1>14. timers'.event \in SUBSET TimerSet /\ timers'.processing \in SUBSET TimerSet
  BY <1>8, <1>10 DEF ServiceOk
<1>15. ServiceOk'
  BY <1>10, <1>11, <1>12, <1>13, <1>14 DEF ServiceOk
<1>16. PICK o : o = Served(fired, t)
  OBVIOUS
<1>17. out' = Append(out, o)
  BY <1>1, <1>2, <1>16 DEF P!OnTimers, Served, P!Watermark, Watermark
<1>18. Orderly(o)
  BY <1>3, <1>4, <1>16, ServedInOrder
<1>19. QED  BY <1>15, <1>17, <1>18

LEMMA TrackerServes ==
  ASSUME EventTimeAssumption, TrackerOk, NEW i \in 1..2, NEW t \in Marks, Tracker!Update(i, t)
  PROVE  TrackerOk'
<1>1. inputWatermarks' = [inputWatermarks EXCEPT ![i] = t] /\ t \in 0..MaxTs /\ MaxTs \in Nat
  BY DEF Tracker!Update, EventTimeAssumption
<1>2. inputWatermarks' \in [1..2 -> 0..MaxTs]
  BY <1>1 DEF TrackerOk
<1>3. PICK least : least = Tracker!Least
  OBVIOUS
<1>4. least \in 0..MaxTs
  <2>1. PICK k \in 1..2 : \A j \in 1..2 : inputWatermarks'[k] <= inputWatermarks'[j]
    BY <1>1, <1>2
  <2>2. PICK S : S = {inputWatermarks'[j] : j \in 1..2}
    OBVIOUS
  <2>3. PICK x : x = inputWatermarks'[k]
    OBVIOUS
  <2>4. S \in SUBSET Int /\ x \in S /\ \A y \in S : x <= y
    BY <1>1, <1>2, <2>1, <2>2, <2>3
  <2>5. Min(S) = x
    BY <2>4, MinIs
  <2>6. Tracker!Least = Min(S)
    <3>1. DOMAIN inputWatermarks = 1..2
      BY DEF TrackerOk
    <3>2. {inputWatermarks'[j] : j \in DOMAIN inputWatermarks} = S
      BY <2>2, <3>1
    <3>3. Tracker!Least = Tracker!Min(S)
      BY <3>2 DEF Tracker!Least
    <3>4. QED  BY <3>3 DEF Tracker!Min, Min
  <2>7. QED  BY <1>2, <1>3, <2>3, <2>5, <2>6
<1>5. trackerWatermark' = IF least < trackerWatermark THEN trackerWatermark ELSE least
  BY <1>3 DEF Tracker!Update, Tracker!Later
<1>6. QED  BY <1>2, <1>4, <1>5 DEF TrackerOk

(* A step that leaves the service alone. *)
LEMMA ServiceRests ==
  ASSUME ServiceOk, UNCHANGED service
  PROVE  ServiceOk'
BY DEF ServiceOk, service

LEMMA TrackerRests ==
  ASSUME TrackerOk, UNCHANGED tracker
  PROVE  TrackerOk'
BY DEF TrackerOk, tracker

LEMMA IdleRests ==
  ASSUME Idle, operator' = operator, ~Windowed => panes' = panes, ~Joining => buffers' = buffers
  PROVE  Idle'
BY DEF Idle, Windowed, Joining

(* What a step appends. *)
LEMMA Appended ==
  ASSUME Paired, NEW e, NEW o, input' = Append(input, e), out' = Append(out, o)
  PROVE  Longer(input, e, input') /\ Longer(out, o, out')
BY AppendLonger DEF Paired

LEMMA StepServes ==
  ASSUME EventTimeAssumption, Paired, Paired', ServiceInv, OperatorNext
  PROVE  ServiceInv'
<1>1. operator' = operator /\ ServiceOk /\ TrackerOk /\ Idle /\ TimersInOrder
  BY StepFeeds DEF Feeds, ServiceInv
<1>2. PICK n : n = Len(input')
  OBVIOUS
<1>3. ASSUME NEW e, NEW o, Longer(input, e, input'), Longer(out, o, out'),
             Processing => e.kind # "watermark" \/ Orderly(o)
      PROVE  TimersInOrder'
  <2>1. input'[n] = e
    BY <1>2, <1>3 DEF Longer
  <2>2. IsMark(n)' => e.kind = "watermark"
    BY <2>1 DEF IsMark
  <2>3. QED  BY <1>1, <1>2, <1>3, <2>2, OrderNext
<1>4. ASSUME NEW side \in Sides, NEW k \in Keys, NEW t \in Times, FeedRecord(Record(side, k, t, Next1))
      PROVE  ServiceInv'
  <2>1. /\ Windowed \/ Joining
        /\ UNCHANGED tracker /\ UNCHANGED service
        /\ ~Windowed => panes' = panes
        /\ ~Joining => buffers' = buffers
    BY <1>4 DEF FeedRecord
  <2>2. ~Processing
    BY <2>1 DEF Windowed, Joining, Processing
  <2>3. PICK e, o : Feeds(e, o)
    BY StepFeeds
  <2>4. TimersInOrder'
    BY <1>3, <2>2, <2>3 DEF Feeds
  <2>5. QED  BY <1>1, <2>1, <2>4, ServiceRests, TrackerRests, IdleRests DEF ServiceInv
<1>5. ASSUME NEW side \in Sides, NEW k \in Keys, NEW c \in Calls, FeedCall(Caller(side, k, Next1, c))
      PROVE  ServiceInv'
  <2>1. PICK r : r = Caller(side, k, Next1, c)
    OBVIOUS
  <2>2. r.kind = "record"
    BY <2>1, CallIs
  <2>3. Processing /\ UNCHANGED <<panes, buffers, tracker>> /\ input' = Append(input, r)
    BY <1>5, <2>1 DEF FeedCall, Fed
  <2>4. PICK o : out' = Append(out, o)
    BY <1>5 DEF FeedCall, P!ProcessRecord, P!ProcessElement, P!KeyedElement, P!CoElement, P!UserCall
  <2>5. TimersInOrder'
    BY <1>3, <2>2, <2>3, <2>4, Appended
  <2>6. ServiceOk'
    BY <1>1, <1>5, <2>3, CallServes
  <2>7. QED  BY <1>1, <2>3, <2>5, <2>6, TrackerRests, IdleRests DEF ServiceInv
<1>6. ASSUME NEW t \in Marks, NEW rearm \in SUBSET timers.event, FeedWatermark(t, rearm)
      PROVE  ServiceInv'
  <2>1. UNCHANGED tracker
    BY <1>6 DEF FeedWatermark
  <2>2. CASE Processing
    <3>1. UNCHANGED <<panes, buffers>>
      BY <1>6, <2>2 DEF FeedWatermark, Processing, Windowed, Joining
    <3>2. ServiceOk'
      BY <1>1, <1>6, <2>2, TimersServe
    <3>3. PICK o : out' = Append(out, o) /\ Orderly(o)
      BY <1>1, <1>6, <2>2, TimersServe
    <3>4. PICK e : input' = Append(input, e)
      BY <1>6 DEF FeedWatermark, Fed
    <3>5. TimersInOrder'
      BY <1>3, <3>3, <3>4, Appended
    <3>6. QED  BY <1>1, <2>1, <3>1, <3>2, <3>5, TrackerRests, IdleRests DEF ServiceInv
  <2>3. CASE ~Processing
    <3>1. /\ UNCHANGED service
          /\ ~Windowed => panes' = panes
          /\ ~Joining => buffers' = buffers
      BY <1>6, <2>3 DEF FeedWatermark
    <3>2. PICK e, o : Feeds(e, o)
      BY StepFeeds
    <3>3. TimersInOrder'
      BY <1>3, <2>3, <3>2 DEF Feeds
    <3>4. QED  BY <1>1, <2>1, <3>1, <3>3, ServiceRests, TrackerRests, IdleRests DEF ServiceInv
  <2>4. QED  BY <2>2, <2>3
<1>7. CASE FeedBarrier
  <2>1. PICK e, o : e = Barrier /\ o = <<Barrier>>
    OBVIOUS
  <2>2. input' = Append(input, e) /\ out' = Append(out, o) /\ UNCHANGED <<panes, buffers, service, tracker>>
    BY <1>7, <2>1 DEF FeedBarrier, Fed
  <2>3. e.kind # "watermark"
    BY <2>1 DEF Barrier
  <2>4. TimersInOrder'
    BY <1>3, <2>2, <2>3, Appended
  <2>5. QED  BY <1>1, <2>2, <2>4, ServiceRests, TrackerRests, IdleRests DEF ServiceInv
<1>8. ASSUME NEW i \in 1..2, NEW t \in Marks, FeedTracker(i, t)
      PROVE  ServiceInv'
  <2>1. Tracking /\ Tracker!Update(i, t) /\ UNCHANGED <<panes, buffers, service>>
    BY <1>8 DEF FeedTracker
  <2>2. ~Processing
    BY <2>1 DEF Tracking, Processing
  <2>3. PICK e, o : Feeds(e, o)
    BY StepFeeds
  <2>4. TimersInOrder'
    BY <1>3, <2>2, <2>3 DEF Feeds
  <2>5. TrackerOk'
    BY <1>1, <2>1, TrackerServes
  <2>6. QED  BY <1>1, <2>1, <2>4, <2>5, ServiceRests, IdleRests DEF ServiceInv
<1>9. QED  BY <1>4, <1>5, <1>6, <1>7, <1>8 DEF OperatorNext

THEOREM ServiceAlways == OperatorSpec => []ServiceInv
<1>1. EventTimeAssumption /\ OperatorInit => ServiceInv
  <2> SUFFICES ASSUME EventTimeAssumption, OperatorInit PROVE ServiceInv
    OBVIOUS
  <2>1. Positions = {} /\ 0 \in 0..MaxTs /\ 0 \in Nat
    BY DEF OperatorInit, Positions, EventTimeAssumption
  <2>2. ServiceOk
    BY <2>1, FS_EmptySet DEF OperatorInit, ServiceOk
  <2>3. TrackerOk
    BY <2>1 DEF OperatorInit, TrackerOk
  <2>4. QED  BY <2>1, <2>2, <2>3 DEF OperatorInit, ServiceInv, Idle, TimersInOrder
<1>2. EventTimeAssumption /\ Paired /\ Paired' /\ ServiceInv /\ [OperatorNext]_operatorVars => ServiceInv'
  <2> SUFFICES ASSUME EventTimeAssumption, Paired, Paired', ServiceInv, [OperatorNext]_operatorVars
               PROVE  ServiceInv'
    OBVIOUS
  <2>1. CASE UNCHANGED operatorVars
    <3>1. UNCHANGED <<operator, panes, buffers, service, tracker, input, out>>
      BY <2>1 DEF operatorVars
    <3>2. TimersInOrder'
      BY <3>1 DEF ServiceInv, TimersInOrder, Processing, Positions, IsMark, Orderly, P!Sooner
    <3>3. QED  BY <3>1, <3>2, ServiceRests, TrackerRests, IdleRests DEF ServiceInv
  <2>2. CASE OperatorNext
    BY <2>2, StepServes
  <2>3. QED  BY <2>1, <2>2
<1>3. EventTimeAssumption
  BY EventTimeAssumption
<1>4. QED  BY <1>1, <1>2, <1>3, PairedAlways, PTL DEF OperatorSpec

(* The timers of one watermark are called in ascending order of their time *)
(* and then their key, before the watermark is passed on (timer.rs).       *)
THEOREM TimersOrdered == OperatorSpec => []TimersInOrder
<1>1. ServiceInv => TimersInOrder
  BY DEF ServiceInv
<1>2. QED  BY <1>1, ServiceAlways, PTL

(* Whatever the operator and its input, what it keeps is made of records   *)
(* it was given, and no timestamp leaves the u64.                          *)
THEOREM OperatorTypeCorrect == OperatorSpec => []OperatorTypeOK
<1>1. EventTimeAssumption /\ Paired /\ Given /\ ServiceInv /\ PanesInv /\ BuffersInv => OperatorTypeOK
  <2> SUFFICES ASSUME EventTimeAssumption, Paired, Given, ServiceInv, PanesInv, BuffersInv
               PROVE  OperatorTypeOK
    OBVIOUS
  <2>1. operator \in Operators /\ Len(out) = Len(input)
    BY DEF Given, Paired
  <2>2. ASSUME NEW q \in DOMAIN panes, NEW side \in {"left", "right"}
        PROVE  ToSet(panes[q][side]) \subseteq Arrived
    <3>1. CASE Windowed
      <4>1. PICK k, w : q = PaneAt(k, w)
        BY <3>1 DEF PanesInv, PanesHold
      <4>2. panes[q] = [left |-> Arranged(Pending(k, w, "left")), right |-> Arranged(Pending(k, w, "right"))]
        BY <3>1, <4>1 DEF PanesInv, PanesHold, W!Pane
      <4>3. panes[q][side] = Arranged(Pending(k, w, side))
        BY <4>2
      <4>4. /\ Numbered(Pending(k, w, side))
            /\ \A r \in Pending(k, w, side) : r \in Arrived
        BY <3>1, PendingIs DEF Receiving
      <4>5. PICK S, s : S = Pending(k, w, side) /\ s = panes[q][side]
        OBVIOUS
      <4>6. ToSet(s) = S
        BY <4>3, <4>4, <4>5, ArrangedHolds
      <4>7. QED  BY <4>4, <4>5, <4>6
    <3>2. CASE ~Windowed
      BY <3>2 DEF ServiceInv, Idle
    <3>3. QED  BY <3>1, <3>2
  <2>3. ASSUME NEW k \in DOMAIN buffers
        PROVE  buffers[k].left \cup buffers[k].right \subseteq Arrived
    <3>1. CASE Joining
      <4>1. buffers[k] = [left |-> Held(k, "left"), right |-> Held(k, "right")]
        BY <3>1 DEF BuffersInv, BuffersHold, J!Buffers
      <4>2. QED  BY <4>1 DEF Held
    <3>2. CASE ~Joining
      BY <3>2 DEF ServiceInv, Idle
    <3>3. QED  BY <3>1, <3>2
  <2>4. /\ timers.event \cup timers.processing \subseteq (0..MaxTs) \X Nat
        /\ currentKey \in Nat
        /\ {currentWatermark, trackerWatermark} \subseteq 0..MaxTs
        /\ inputWatermarks \in [1..2 -> 0..MaxTs]
    BY DEF ServiceInv, ServiceOk, TrackerOk, TimerSet
  <2>5. QED  BY <2>1, <2>2, <2>3, <2>4 DEF OperatorTypeOK, Arrived
<1>2. EventTimeAssumption
  BY EventTimeAssumption
<1>3. QED  BY <1>1, <1>2, PairedAlways, GivenAlways, ServiceAlways, PanesAlways, BuffersAlways, PTL
=============================================================================
