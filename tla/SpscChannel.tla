---------------------------- MODULE SpscChannel ----------------------------
(***************************************************************************)
(* What the single-producer single-consumer ring buffer promises: a        *)
(* bounded FIFO queue.  Elements leave in the order they entered, each one *)
(* once, and the receiver is told that the channel ended only when the     *)
(* producer is gone and nothing is left to receive.                        *)
(*                                                                         *)
(* The interleaving of atomic loads and stores that implements it is in    *)
(* RingBuffer.tla, which is shown to implement this specification.         *)
(***************************************************************************)
EXTENDS Naturals, Sequences

CONSTANTS Values,     (* the elements that can be sent *)
          Capacity    (* the number of slots           *)

VARIABLES queue,      (* accepted and not yet received                      *)
          received,   (* everything received so far, in order               *)
          closed,     (* the producer end was dropped                       *)
          ended,      (* some recv returned None                            *)
          abandoned   (* the consumer end was dropped                       *)

vars == <<queue, received, closed, ended, abandoned>>

Init ==
  /\ queue = <<>>
  /\ received = <<>>
  /\ closed = FALSE
  /\ ended = FALSE
  /\ abandoned = FALSE

Send(v) ==
  /\ ~closed
  /\ Len(queue) < Capacity
  /\ queue' = Append(queue, v)
  /\ UNCHANGED <<received, closed, ended, abandoned>>

Receive ==
  /\ ~abandoned
  /\ queue # <<>>
  /\ received' = Append(received, Head(queue))
  /\ queue' = Tail(queue)
  /\ UNCHANGED <<closed, ended, abandoned>>

Close ==
  /\ ~closed
  /\ closed' = TRUE
  /\ UNCHANGED <<queue, received, ended, abandoned>>

End ==
  /\ ~abandoned
  /\ closed
  /\ queue = <<>>
  /\ ended' = TRUE
  /\ UNCHANGED <<queue, received, closed, abandoned>>

Abandon ==
  /\ ~abandoned
  /\ abandoned' = TRUE
  /\ UNCHANGED <<queue, received, closed, ended>>

(* Both ends are gone: what nobody received is dropped. *)
Discard ==
  /\ closed
  /\ abandoned
  /\ queue' = <<>>
  /\ UNCHANGED <<received, closed, ended, abandoned>>

Next ==
  \/ \E v \in Values : Send(v)
  \/ Receive
  \/ Close
  \/ End
  \/ Abandon
  \/ Discard

Spec == Init /\ [][Next]_vars
=============================================================================
