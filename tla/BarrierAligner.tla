--------------------------- MODULE BarrierAligner ---------------------------
(***************************************************************************)
(* The Chandy-Lamport barrier aligner of a multi-input operator            *)
(* (crates/flume-runtime/src/checkpoint/aligner.rs).                       *)
(*                                                                         *)
(* Senders put records, watermarks and barriers on the inputs and drop     *)
(* their ends while the operator calls next().  Every try_recv is a step,  *)
(* so the senders interleave with the three passes of recv_any.  Records   *)
(* and watermarks are treated alike by the aligner: both are "data".       *)
(***************************************************************************)
EXTENDS Naturals, Sequences, FiniteSets, Filters

CONSTANTS
  MaxInputs,     (* bound: the operator has 1..MaxInputs inputs             *)
  MaxElems,      (* bound: MaxElems[n] elements sent on each of n inputs    *)
  MaxBarriers,   (* bound: checkpoints triggered                            *)
  Overlap        (* TRUE: a checkpoint may be triggered before the previous
                    barrier was aligned, as the coordinator does after a
                    timeout                                                 *)

ASSUME AlignerAssumption ==
  /\ MaxInputs \in Nat \ {0}
  /\ MaxElems \in [1..MaxInputs -> Nat]
  /\ MaxBarriers \in Nat
  /\ Overlap \in BOOLEAN

VARIABLES
  n,            (* the number of inputs, fixed at construction              *)
  sent,         (* history: what each sender sent                           *)
  taken,        (* how many of them were received by the aligner            *)
  open,         (* the sender was not dropped                               *)
  received,     (* barrier_received                                         *)
  buffers,      (* blocked_buffers                                          *)
  pending,      (* pending_barrier, or NoBarrier                            *)
  drainIndex,   (* drain_index                                              *)
  pc,           (* "idle" between calls of next, "single", "pass1" to
                   "pass3" of recv_any, "none" when next returned None      *)
  scan,         (* the input examined in the current pass                   *)
  anyOpen,      (* any_open of the third pass                               *)
  out           (* history: what next returned                              *)

senders == <<sent, open>>
align == <<received, buffers, pending, drainIndex>>
vars == <<n, senders, taken, align, pc, scan, anyOpen, out>>

Inputs == 1..n
NoBarrier == [kind |-> "none", val |-> 0]
Data(k) == [kind |-> "data", val |-> k]
Barrier(id) == [kind |-> "barrier", val |-> id]

Init ==
  /\ n \in 1..MaxInputs
  /\ sent = [i \in Inputs |-> <<>>]
  /\ taken = [i \in Inputs |-> 0]
  /\ open = [i \in Inputs |-> TRUE]
  /\ received = [i \in Inputs |-> FALSE]
  /\ buffers = [i \in Inputs |-> <<>>]
  /\ pending = NoBarrier
  /\ drainIndex = 1
  /\ pc = "idle"
  /\ scan = 1
  /\ anyOpen = FALSE
  /\ out = <<>>

-----------------------------------------------------------------------------
(* The senders. *)

BarriersIn(s) == Cardinality({k \in DOMAIN s : s[k].kind = "barrier"})
AlignedCount == Cardinality({k \in DOMAIN out : out[k].from = 0})

CanSend(i) == open[i] /\ Len(sent[i]) < MaxElems[n]

(* A data element is told by its place on its input. *)
SendData(i) ==
  /\ CanSend(i)
  /\ sent' = [sent EXCEPT ![i] = Append(@, Data(Len(@) + 1))]
  /\ UNCHANGED <<n, open, taken, align, pc, scan, anyOpen, out>>

(* Barriers carry the ids 1, 2, ... on every input.  A coordinator that    *)
(* waits for its checkpoint sends the next id only once the last one was   *)
(* aligned.                                                                 *)
SendBarrier(i) ==
  /\ CanSend(i)
  /\ BarriersIn(sent[i]) < MaxBarriers
  /\ Overlap \/ BarriersIn(sent[i]) = AlignedCount
  /\ sent' = [sent EXCEPT ![i] = Append(@, Barrier(BarriersIn(@) + 1))]
  /\ UNCHANGED <<n, open, taken, align, pc, scan, anyOpen, out>>

CloseInput(i) ==
  /\ open[i]
  /\ open' = [open EXCEPT ![i] = FALSE]
  /\ UNCHANGED <<n, sent, taken, align, pc, scan, anyOpen, out>>

-----------------------------------------------------------------------------
(* The aligner. *)

Buffered == {i \in drainIndex..n : buffers[i] # <<>>}
Emit(from, e) == out' = Append(out, [from |-> from, elem |-> e])

(* next(): what was buffered during the last alignment goes first. *)
Drain ==
  /\ pc = "idle"
  /\ Buffered # {}
  /\ \E i \in Buffered :
       /\ \A j \in Buffered : i <= j
       /\ Emit(i, Head(buffers[i]))
       /\ buffers' = [buffers EXCEPT ![i] = Tail(@)]
       /\ drainIndex' = i
  /\ UNCHANGED <<n, senders, taken, received, pending, pc, scan, anyOpen>>

(* Nothing is buffered: drain_index ends past the last input, and next     *)
(* polls.                                                                   *)
Poll ==
  /\ pc = "idle"
  /\ Buffered = {}
  /\ drainIndex' = n + 1
  /\ pc' = IF n = 1 THEN "single" ELSE "pass1"
  /\ scan' = 1
  /\ UNCHANGED <<n, senders, taken, received, buffers, pending, anyOpen, out>>

Available(i) == taken[i] < Len(sent[i])
Element(i) == sent[i][taken[i] + 1]
Take(i) == taken' = [taken EXCEPT ![i] = @ + 1]

(* next_single: a barrier of the only input is aligned at once. *)
NextSingle ==
  /\ pc = "single"
  /\ \/ /\ Available(1)
        /\ Take(1)
        /\ Emit(IF Element(1).kind = "barrier" THEN 0 ELSE 1, Element(1))
        /\ pc' = "idle"
     \/ /\ ~Available(1)
        /\ ~open[1]
        /\ pc' = "none"
        /\ UNCHANGED <<taken, out>>
  /\ UNCHANGED <<n, senders, align, scan, anyOpen>>

Restart == pc' = "pass1" /\ scan' = 1

(* Mutant: the buffers are not drained after the alignment. *)
Aligned_NoDrain(b) ==
  /\ Emit(0, b)
  /\ pending' = NoBarrier
  /\ received' = [i \in Inputs |-> FALSE]
  /\ pc' = "idle"
  /\ UNCHANGED <<buffers, drainIndex, scan>>

(* The last input delivered the barrier: emit it, unblock, drain next. *)
Aligned(b) ==
  /\ Emit(0, b)
  /\ pending' = NoBarrier
  /\ received' = [i \in Inputs |-> FALSE]
  /\ drainIndex' = 1
  /\ pc' = "idle"
  /\ UNCHANGED <<buffers, scan>>

(* Mutant: only the input that starts an alignment is marked. *)
HandleBarrier_FirstOnly(i, b) ==
  \/ /\ \A j \in Inputs \ {i} : received[j]
     /\ Aligned(pending)
  \/ /\ \E j \in Inputs \ {i} : ~received[j]
     /\ received' = [received EXCEPT ![i] = (pending = NoBarrier)]
     /\ pending' = IF pending = NoBarrier THEN b ELSE pending
     /\ Restart
     /\ UNCHANGED <<buffers, drainIndex, out>>

(* next_multi, for a barrier received on input i. *)
HandleBarrier(i, b) ==
  LET first == IF pending = NoBarrier THEN b ELSE pending IN
  \/ /\ \A j \in Inputs \ {i} : received[j]
     /\ Aligned(first)
  \/ /\ \E j \in Inputs \ {i} : ~received[j]
     /\ received' = [received EXCEPT ![i] = TRUE]
     /\ pending' = first
     /\ Restart
     /\ UNCHANGED <<buffers, drainIndex, out>>

(* Mutant: a blocked input's record is handed on at once. *)
HandleData_NoBuffer(i, e) ==
  /\ Emit(i, e)
  /\ pc' = "idle"
  /\ UNCHANGED <<align, scan>>

(* next_multi, for any other element received on input i. *)
HandleData(i, e) ==
  \/ /\ received[i]
     /\ buffers' = [buffers EXCEPT ![i] = Append(@, e)]
     /\ Restart
     /\ UNCHANGED <<received, pending, drainIndex, out>>
  \/ /\ ~received[i]
     /\ Emit(i, e)
     /\ pc' = "idle"
     /\ UNCHANGED <<align, scan>>

Handle(i, e) ==
  \/ e.kind = "barrier" /\ HandleBarrier(i, e)
  \/ e.kind # "barrier" /\ HandleData(i, e)

(* Which inputs a pass looks at: unblocked, blocked, all. *)
InPass(i) ==
  \/ pc = "pass1" /\ ~received[i]
  \/ pc = "pass2" /\ received[i]
  \/ pc = "pass3"

TryRecv ==
  /\ pc \in {"pass1", "pass2", "pass3"}
  /\ scan \in Inputs
  /\ InPass(scan)
  /\ Available(scan)
  /\ Take(scan)
  /\ Handle(scan, Element(scan))
  /\ UNCHANGED <<n, senders, anyOpen>>

(* Empty, disconnected, or not looked at in this pass. *)
Skip ==
  /\ pc \in {"pass1", "pass2", "pass3"}
  /\ scan \in Inputs
  /\ ~(InPass(scan) /\ Available(scan))
  /\ scan' = scan + 1
  /\ anyOpen' = (pc = "pass3" /\ (anyOpen \/ open[scan]))
  /\ UNCHANGED <<n, senders, taken, align, pc, out>>

EndPass ==
  /\ scan > n
  /\ pc' = CASE pc = "pass1" -> "pass2"
             [] pc = "pass2" -> "pass3"
             [] pc = "pass3" -> IF anyOpen THEN "pass1" ELSE "none"
  /\ pc \in {"pass1", "pass2", "pass3"}
  /\ scan' = 1
  /\ anyOpen' = FALSE
  /\ UNCHANGED <<n, senders, taken, align, out>>

-----------------------------------------------------------------------------
Aligner == Drain \/ Poll \/ NextSingle \/ TryRecv \/ Skip \/ EndPass

Next ==
  \/ \E i \in Inputs : SendData(i)
  \/ \E i \in Inputs : SendBarrier(i)
  \/ \E i \in Inputs : CloseInput(i)
  \/ Aligner

Spec == Init /\ [][Next]_vars

(* The operator task keeps calling next and is scheduled; the senders owe  *)
(* nothing.                                                                 *)
FairSpec == Spec /\ WF_vars(Aligner)

-----------------------------------------------------------------------------
Data_Type == {Data(k) : k \in 1..MaxElems[n]}
Element_Type == Data_Type \cup {Barrier(b) : b \in 1..MaxBarriers}

(* Type correctness. *)
TypeOK ==
  /\ n \in 1..MaxInputs
  /\ sent \in [Inputs -> Seq(Element_Type)]
  /\ taken \in [Inputs -> 0..MaxElems[n]]
  /\ open \in [Inputs -> BOOLEAN]
  /\ received \in [Inputs -> BOOLEAN]
  /\ buffers \in [Inputs -> Seq(Element_Type)]
  /\ pending \in Element_Type \cup {NoBarrier}
  /\ drainIndex \in 1..(n + 1)
  /\ pc \in {"idle", "single", "pass1", "pass2", "pass3", "none"}
  /\ scan \in 1..(n + 1)
  /\ anyOpen \in BOOLEAN
  /\ out \in Seq([from : 0..n, elem : Element_Type])

(* How many elements of input i took effect outside the aligner. *)
HandedOn(i) ==
  taken[i] - Len(buffers[i]) - (IF received[i] THEN 1 ELSE 0)

Aligned_Streams == INSTANCE AlignedStreams
                     WITH pos <- [i \in Inputs |-> HandedOn(i)]

(* When checkpoints do not overlap the aligner keeps the order of every    *)
(* input, hands each element on once, and emits a barrier only at a        *)
(* consistent cut (doc of BarrierAligner, aligner.rs lines 23-28).          *)
ImplementsAlignedStreams == Aligned_Streams!Spec

DataOf(s) == Keep(s, Data_Type)

(* What next returned from input i among its first k results. *)
Returned(i, k) ==
  LET mine == Keep(SubSeq(out, 1, k), [from : {i}, elem : Element_Type]) IN
  [m \in DOMAIN mine |-> mine[m].elem]

(* What input i carried before its barrier b. *)
BeforeBarrier(i, b) ==
  LET k == CHOOSE m \in DOMAIN sent[i] : sent[i][m] = b IN
  DataOf(SubSeq(sent[i], 1, k))

(* A barrier is emitted once every input delivered it, and the state       *)
(* snapshotted there covers exactly the elements before it on each input   *)
(* (doc of BarrierAligner and the comment of                               *)
(* test_multi_input_barrier_ordering).                                      *)
ConsistentCut ==
  \A k \in DOMAIN out : out[k].from = 0 =>
    \A i \in Inputs :
      /\ \E m \in DOMAIN sent[i] : sent[i][m] = out[k].elem
      /\ Returned(i, k) = BeforeBarrier(i, out[k].elem)

(* next() returned None after everything was handed on: the buffered       *)
(* records of blocked inputs are drained (aligner.rs line 28).              *)
NoLossAtEnd ==
  pc = "none" => \A i \in Inputs : Returned(i, Len(out)) = DataOf(sent[i])

(* The same, when no alignment was under way: nothing is left in a channel *)
(* or a buffer, whatever the order in which the inputs ended.               *)
NoLossWhenUnblocked ==
  pc = "none" /\ pending = NoBarrier =>
    \A i \in Inputs : Returned(i, Len(out)) = DataOf(sent[i])

(* A barrier sent on every input is eventually emitted, and the inputs it  *)
(* blocked are released.                                                    *)
AlignmentCompletes ==
  \A b \in 1..MaxBarriers :
    (\A i \in Inputs : BarriersIn(sent[i]) >= b) ~> (AlignedCount >= b)
=============================================================================
