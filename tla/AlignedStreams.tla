--------------------------- MODULE AlignedStreams ---------------------------
(***************************************************************************)
(* What an operator with several inputs promises about checkpoint          *)
(* barriers: it hands on the elements of each input in order, each one     *)
(* once, and a barrier only where it cuts every input at that barrier, so  *)
(* that the state snapshotted at the barrier reflects exactly the elements *)
(* before it.  An input that ended takes no part in the cut.               *)
(*                                                                         *)
(* Implemented by BarrierAligner (any number of inputs) and by Merge (two  *)
(* inputs).                                                                *)
(***************************************************************************)
EXTENDS Naturals, Sequences

VARIABLES
  sent,   (* sent[i]: what was sent on input i so far                       *)
  open,   (* open[i]: the sender of input i was not dropped                 *)
  pos,    (* pos[i]: how many elements of input i were handed on            *)
  out     (* the elements handed on, as [from, elem]; a barrier is from 0   *)

vars == <<sent, open, pos, out>>

InputSet == DOMAIN sent

Init ==
  /\ \A i \in InputSet : sent[i] = <<>> /\ open[i] /\ pos[i] = 0
  /\ out = <<>>

(* The senders: each appends to its input or drops its end. *)
Environment ==
  /\ DOMAIN sent' = InputSet
  /\ DOMAIN open' = InputSet
  /\ \A i \in InputSet :
       /\ \/ sent'[i] = sent[i]
          \/ open[i] /\ SubSeq(sent'[i], 1, Len(sent[i])) = sent[i]
       /\ open'[i] => open[i]
  /\ UNCHANGED <<pos, out>>

HasNext(i) == pos[i] < Len(sent[i])
NextElem(i) == sent[i][pos[i] + 1]
Exhausted(i) == ~open[i] /\ ~HasNext(i)

Deliver(i) ==
  /\ HasNext(i)
  /\ NextElem(i).kind # "barrier"
  /\ out' = Append(out, [from |-> i, elem |-> NextElem(i)])
  /\ pos' = [pos EXCEPT ![i] = @ + 1]
  /\ UNCHANGED <<sent, open>>

(* Every input that did not end is at the barrier b. *)
AtBarrier(b) ==
  {i \in InputSet : HasNext(i) /\ NextElem(i) = b}

Align(b) ==
  /\ b.kind = "barrier"
  /\ AtBarrier(b) # {}
  /\ \A i \in InputSet \ AtBarrier(b) : Exhausted(i)
  /\ out' = Append(out, [from |-> 0, elem |-> b])
  /\ pos' = [i \in InputSet |-> IF i \in AtBarrier(b) THEN pos[i] + 1 ELSE pos[i]]
  /\ UNCHANGED <<sent, open>>

Next ==
  \/ Environment
  \/ \E i \in InputSet : Deliver(i)
  \/ \E i \in InputSet : HasNext(i) /\ Align(NextElem(i))

Spec == Init /\ [][Next]_vars
=============================================================================
