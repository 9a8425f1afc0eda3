------------------------------- MODULE Merge -------------------------------
(***************************************************************************)
(* The merger of two connected streams                                     *)
(* (crates/flume-runtime/src/merge.rs, two_input_merge): it tags the       *)
(* records of its inputs, forwards the minimum of their watermarks, aligns *)
(* their checkpoint barriers and ends when both inputs ended.              *)
(*                                                                         *)
(* Each recv and each send of the loop is a step; sends wait while the     *)
(* bounded output channel is full and fail once its receiver is dropped.   *)
(***************************************************************************)
EXTENDS Integers, Sequences, FiniteSets, Filters

CONSTANTS
  MaxTime,      (* bound: event times are 1..MaxTime; 0 is EventTimestamp::MIN *)
  MaxElems,     (* bound: MaxElems[i] elements sent on input i              *)
  MaxBarriers,  (* bound: barriers sent on one input                        *)
  OutCapacity   (* the capacity of the output channel                       *)

ASSUME MergeAssumption ==
  /\ MaxTime \in Nat
  /\ MaxElems \in [{1, 2} -> Nat]
  /\ MaxBarriers \in Nat
  /\ OutCapacity \in Nat \ {0}

VARIABLES
  sent,         (* history: what each sender sent                           *)
  taken,        (* how many of them the merger received                     *)
  open,         (* the sender was not dropped                               *)
  inputOpen,    (* input1_open, input2_open                                 *)
  watermark,    (* watermark1, watermark2                                   *)
  lastWatermark,(* last_forwarded_watermark                                 *)
  pending,      (* pending_barrier_from_1, pending_barrier_from_2: an id, or 0 *)
  buffer,       (* buffer1, buffer2                                         *)
  toSend,       (* the sends the current iteration still has to make        *)
  out,          (* history: what was sent on the output, as [from, elem]    *)
  consumed,     (* how many of them downstream received                     *)
  downstream,   (* the receiver of the output exists                        *)
  result        (* "running", "ok" or "err"                                 *)

senders == <<sent, open>>
outside == <<out, consumed, downstream>>
local == <<watermark, lastWatermark, pending, buffer>>
vars == <<senders, taken, inputOpen, local, toSend, outside, result>>

Inputs == {1, 2}
Other(i) == 3 - i
MinOf(a, b) == IF a < b THEN a ELSE b

Rec(t) == [kind |-> "record", val |-> t]
Wm(t) == [kind |-> "watermark", val |-> t]
Bar(id) == [kind |-> "barrier", val |-> id]
Tagged(i, e) == [from |-> i, elem |-> e]

Init ==
  /\ sent = [i \in Inputs |-> <<>>]
  /\ taken = [i \in Inputs |-> 0]
  /\ open = [i \in Inputs |-> TRUE]
  /\ inputOpen = [i \in Inputs |-> TRUE]
  /\ watermark = [i \in Inputs |-> 0]
  /\ lastWatermark = 0
  /\ pending = [i \in Inputs |-> 0]
  /\ buffer = [i \in Inputs |-> <<>>]
  /\ toSend = <<>>
  /\ out = <<>>
  /\ consumed = 0
  /\ downstream = TRUE
  /\ result = "running"

-----------------------------------------------------------------------------
(* The senders: event time never runs behind a watermark of the same input *)
(* (the contract of a Watermark, record.rs), and barrier ids count up.     *)

WatermarkOf(s) ==
  LET marks == {s[k].val : k \in {m \in DOMAIN s : s[m].kind = "watermark"}} IN
  CHOOSE t \in marks \cup {0} : \A u \in marks : u <= t

BarriersIn(s) == Cardinality({k \in DOMAIN s : s[k].kind = "barrier"})

SendElem(i, e) ==
  /\ open[i]
  /\ Len(sent[i]) < MaxElems[i]
  /\ e.kind \in {"record", "watermark"} => e.val > WatermarkOf(sent[i])
  /\ e.kind = "barrier" => e.val = BarriersIn(sent[i]) + 1
  /\ sent' = [sent EXCEPT ![i] = Append(@, e)]
  /\ UNCHANGED <<open, taken, inputOpen, local, toSend, outside, result>>

Elems == {Rec(t) : t \in 1..MaxTime} \cup {Wm(t) : t \in 1..MaxTime}
         \cup {Bar(b) : b \in 1..MaxBarriers}

CloseInput(i) ==
  /\ open[i]
  /\ open' = [open EXCEPT ![i] = FALSE]
  /\ UNCHANGED <<sent, taken, inputOpen, local, toSend, outside, result>>

(* Downstream receives, or drops its receiver. *)
Consume ==
  /\ downstream
  /\ consumed < Len(out)
  /\ consumed' = consumed + 1
  /\ UNCHANGED <<senders, taken, inputOpen, local, toSend, out, downstream, result>>

DropDownstream ==
  /\ downstream
  /\ downstream' = FALSE
  /\ UNCHANGED <<senders, taken, inputOpen, local, toSend, out, consumed, result>>

-----------------------------------------------------------------------------
(* The merger. *)

Ready == result = "running" /\ toSend = <<>>
Available(i) == taken[i] < Len(sent[i])
Element(i) == sent[i][taken[i] + 1]

(* The input a barrier is awaited from, if one is. *)
Waiting(i) == pending[Other(i)] # 0 /\ pending[i] = 0

(* While a barrier is awaited only that input is read; otherwise any open  *)
(* one (the select! picks among the ready inputs).                         *)
Reads(i) ==
  \/ Waiting(i)
  \/ ~Waiting(i) /\ ~Waiting(Other(i)) /\ inputOpen[i]

AtLoopHead == Ready /\ (inputOpen[1] \/ inputOpen[2])

(* A record of an input whose barrier is pending is buffered. *)
HandleRecord(i, e) ==
  /\ \/ /\ pending[i] # 0
        /\ buffer' = [buffer EXCEPT ![i] = Append(@, Tagged(i, e))]
        /\ UNCHANGED toSend
     \/ /\ pending[i] = 0
        /\ toSend' = <<Tagged(i, e)>>
        /\ UNCHANGED buffer
  /\ UNCHANGED <<watermark, lastWatermark, pending>>

(* Mutant: the watermark of one input is forwarded alone. *)
HandleWatermark_NoMin(i, e) ==
  /\ watermark' = [watermark EXCEPT ![i] = e.val]
  /\ \/ /\ e.val > lastWatermark
        /\ lastWatermark' = e.val
        /\ toSend' = <<Tagged(0, Wm(e.val))>>
     \/ /\ e.val <= lastWatermark
        /\ UNCHANGED <<lastWatermark, toSend>>
  /\ UNCHANGED <<pending, buffer>>

HandleWatermark(i, e) ==
  LET least == MinOf(e.val, watermark[Other(i)]) IN
  /\ watermark' = [watermark EXCEPT ![i] = e.val]
  /\ \/ /\ least > lastWatermark
        /\ lastWatermark' = least
        /\ toSend' = <<Tagged(0, Wm(least))>>
     \/ /\ least <= lastWatermark
        /\ UNCHANGED <<lastWatermark, toSend>>
  /\ UNCHANGED <<pending, buffer>>

(* A barrier is kept until the other input's arrives; then input 1's       *)
(* barrier is forwarded, and the buffers after it (try_flush_barriers).    *)
HandleBarrier(i, e) ==
  /\ \/ /\ Waiting(i)
        /\ toSend' = <<Tagged(0, Bar(IF i = 1 THEN e.val ELSE pending[1]))>>
                       \o buffer[1] \o buffer[2]
        /\ pending' = [j \in Inputs |-> 0]
        /\ buffer' = [j \in Inputs |-> <<>>]
     \/ /\ ~Waiting(i)
        /\ pending' = [pending EXCEPT ![i] = e.val]
        /\ UNCHANGED <<toSend, buffer>>
  /\ UNCHANGED <<watermark, lastWatermark>>

Receive(i) ==
  /\ AtLoopHead
  /\ Reads(i)
  /\ Available(i)
  /\ taken' = [taken EXCEPT ![i] = @ + 1]
  /\ \/ Element(i).kind = "record" /\ HandleRecord(i, Element(i))
     \/ Element(i).kind = "watermark" /\ HandleWatermark(i, Element(i))
     \/ Element(i).kind = "barrier" /\ HandleBarrier(i, Element(i))
  /\ UNCHANGED <<senders, inputOpen, outside, result>>

(* Mutant: the barrier that waits for a closed input is kept waiting. *)
FlushOnClose_Keep(i) == UNCHANGED <<pending, buffer, toSend>>

(* Mutant: the barrier that waits for a closed input is discarded. *)
FlushOnClose_Discard(i) ==
  /\ pending' = [pending EXCEPT ![Other(i)] = 0]
  /\ UNCHANGED <<buffer, toSend>>

(* An input that closes while its barrier is awaited lets the other input's *)
(* barrier and buffer go.                                                    *)
FlushOnClose(i) ==
  \/ /\ Waiting(i)
     /\ toSend' = <<Tagged(0, Bar(pending[Other(i)]))>> \o buffer[Other(i)]
     /\ pending' = [pending EXCEPT ![Other(i)] = 0]
     /\ buffer' = [buffer EXCEPT ![Other(i)] = <<>>]
  \/ ~Waiting(i) /\ UNCHANGED <<pending, buffer, toSend>>

ReceiveClosed(i) ==
  /\ AtLoopHead
  /\ Reads(i)
  /\ ~Available(i)
  /\ ~open[i]
  /\ inputOpen' = [inputOpen EXCEPT ![i] = FALSE]
  /\ FlushOnClose(i)
  /\ UNCHANGED <<senders, taken, watermark, lastWatermark, outside, result>>

(* One send().await: it waits for room in the output channel. *)
SendOut ==
  /\ toSend # <<>>
  /\ result = "running"
  /\ downstream
  /\ Len(out) - consumed < OutCapacity
  /\ out' = Append(out, Head(toSend))
  /\ toSend' = Tail(toSend)
  /\ UNCHANGED <<senders, taken, inputOpen, local, consumed, downstream, result>>

(* The receiver is gone: the error leaves the loop at once. *)
SendFails ==
  /\ toSend # <<>>
  /\ result = "running"
  /\ ~downstream
  /\ result' = "err"
  /\ UNCHANGED <<senders, taken, inputOpen, local, toSend, outside>>

(* Mutant: the loop ends with the first input that ends. *)
Finish_Either ==
  /\ Ready
  /\ ~inputOpen[1] \/ ~inputOpen[2]
  /\ result' = "ok"
  /\ UNCHANGED <<senders, taken, inputOpen, local, toSend, outside>>

Finish ==
  /\ Ready
  /\ ~inputOpen[1] /\ ~inputOpen[2]
  /\ result' = "ok"
  /\ UNCHANGED <<senders, taken, inputOpen, local, toSend, outside>>

-----------------------------------------------------------------------------
Merger ==
  \/ \E i \in Inputs : Receive(i) \/ ReceiveClosed(i)
  \/ SendOut \/ SendFails \/ Finish

Next ==
  \/ \E i \in Inputs : \E e \in Elems : SendElem(i, e)
  \/ \E i \in Inputs : CloseInput(i)
  \/ Consume
  \/ DropDownstream
  \/ Merger

Spec == Init /\ [][Next]_vars

(* The merger and the operator downstream of it are scheduled tasks. *)
FairSpec == Spec /\ WF_vars(Merger) /\ WF_vars(Consume)

-----------------------------------------------------------------------------
(* Type correctness. *)
TypeOK ==
  /\ sent \in [Inputs -> Seq(Elems)]
  /\ taken \in [Inputs -> Nat]
  /\ \A i \in Inputs : taken[i] <= Len(sent[i]) /\ Len(sent[i]) <= MaxElems[i]
  /\ open \in [Inputs -> BOOLEAN]
  /\ inputOpen \in [Inputs -> BOOLEAN]
  /\ watermark \in [Inputs -> 0..MaxTime]
  /\ lastWatermark \in 0..MaxTime
  /\ pending \in [Inputs -> 0..MaxBarriers]
  /\ buffer \in [Inputs -> Seq([from : Inputs, elem : Elems])]
  /\ toSend \in Seq([from : 0..2, elem : Elems])
  /\ out \in Seq([from : 0..2, elem : Elems])
  /\ consumed \in 0..Len(out)
  /\ downstream \in BOOLEAN
  /\ result \in {"running", "ok", "err"}

(* Records and barriers, without the watermarks, as AlignedStreams sees    *)
(* them; what is about to be sent was decided already.                      *)
NotWatermark == {e \in Elems : e.kind # "watermark"}
Cut(s) == Keep(s, NotWatermark)
Stream(i) == Cut(sent[i])
Pos(i) ==
  Len(Cut(SubSeq(sent[i], 1, taken[i])))
    - (IF pending[i] # 0 THEN 1 ELSE 0) - Len(buffer[i])
Decided == Keep(out \o toSend, [from : 0..2, elem : NotWatermark])

Streams ==
  INSTANCE AlignedStreams
    WITH sent <- [i \in Inputs |-> Stream(i)],
         pos <- [i \in Inputs |-> Pos(i)],
         out <- Decided

(* Records keep the order of their input and pass once; a barrier is       *)
(* forwarded where it cuts both inputs, or the one that did not end (doc    *)
(* of two_input_merge, merge.rs lines 15-21).                               *)
ImplementsAlignedStreams == Streams!Spec

(* Event time downstream: no record follows a watermark that already       *)
(* passed it, and watermarks increase, however the inputs interleave and   *)
(* whichever barrier is awaited (merge.rs lines 16-17).                     *)
OutputInEventTime ==
  \A k \in DOMAIN out : \A m \in 1..(k - 1) :
    out[m].elem.kind = "watermark" /\ out[k].elem.kind \in {"record", "watermark"}
      => out[k].elem.val > out[m].elem.val

(* Ok is returned only after everything both inputs carried was forwarded, *)
(* including a barrier only one input had (merge.rs line 21).               *)
NoLossAtEnd ==
  result = "ok" =>
    \A i \in Inputs :
      /\ taken[i] = Len(sent[i])
      /\ pending[i] = 0
      /\ buffer[i] = <<>>

(* Once both inputs ended the merger returns: a barrier awaited from an    *)
(* input that ended never hangs it.                                         *)
MergeEnds == (~open[1] /\ ~open[2]) ~> (result # "running")

=============================================================================
