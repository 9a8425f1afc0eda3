----------------------------- MODULE RingBuffer -----------------------------
(***************************************************************************)
(* The lock-free single-producer single-consumer ring buffer that carries  *)
(* elements between two operator tasks                                     *)
(* (crates/flume-runtime/src/ring_buffer.rs).                              *)
(*                                                                         *)
(* The producer runs try_send and its Drop, the consumer runs try_recv,    *)
(* recv and its Drop.  Every access to a shared location (write_seq,       *)
(* read_seq, a slot, closed, the Notify) is a step of its own, so the two  *)
(* ends interleave between any two of them.  Each end also keeps a cached  *)
(* copy of the other end's sequence, which may be stale.                   *)
(*                                                                         *)
(* A slot is Uninit until the producer writes it, and Uninit again once    *)
(* its value was moved out (assume_init_read) or dropped.                  *)
(***************************************************************************)
EXTENDS Naturals, Sequences

CONSTANTS
  Values,     (* the elements that can be sent                              *)
  Uninit,     (* a slot that holds no live element                          *)
  Capacity,   (* the number of slots: mask + 1 in the code                  *)
  SpinLimit,  (* SPIN_LIMIT, the polls of recv before it parks              *)
  MaxSends    (* bound: the number of elements the producer sends           *)

ASSUME RingAssumption ==
  /\ Capacity \in Nat /\ Capacity >= 2
  /\ SpinLimit \in Nat \ {0}
  /\ MaxSends \in Nat
  /\ Uninit \notin Values

VARIABLES
  slots,        (* inner.buffer                                             *)
  writeSeq,     (* inner.write_seq                                          *)
  readSeq,      (* inner.read_seq                                           *)
  closed,       (* inner.closed                                             *)
  notify,       (* the Notify: "none", "waiting" (a waiter is queued) or
                   "permit" (a notification is stored)                      *)
  prodPc,       (* where the producer is                                    *)
  cachedRead,   (* producer.cached_read_seq                                 *)
  offered,      (* the value of the try_send in progress                    *)
  consPc,       (* where the consumer is                                    *)
  stage,        (* the place in recv that called try_recv                   *)
  spins,        (* polls made in the current spin loop                      *)
  cachedWrite,  (* consumer.cached_write_seq                                *)
  held,         (* the value moved out of its slot, not yet returned        *)
  sent,         (* history: the elements accepted, in order                 *)
  received,     (* history: the elements returned to the caller, in order   *)
  ended         (* history: some recv returned None                         *)

ring == <<slots, writeSeq, readSeq, closed>>
prodVars == <<prodPc, cachedRead, offered, sent>>
consVars == <<consPc, stage, spins, cachedWrite, held, received, ended>>
vars == <<ring, notify, prodVars, consVars>>

Slot(seq) == seq % Capacity
LastSlot == Capacity - 1

Init ==
  /\ slots = [i \in 0..LastSlot |-> Uninit]
  /\ writeSeq = 0
  /\ readSeq = 0
  /\ closed = FALSE
  /\ notify = "none"
  /\ prodPc = "idle"
  /\ cachedRead = 0
  /\ offered = Uninit
  /\ consPc = "idle"
  /\ stage = "fast"
  /\ spins = 0
  /\ cachedWrite = 0
  /\ held = Uninit
  /\ sent = <<>>
  /\ received = <<>>
  /\ ended = FALSE

(* Mutant: a notification with nobody waiting is dropped. *)
NotifyOne_NoPermit == notify' = IF notify = "waiting" THEN "none" ELSE notify

(* tokio's Notify::notify_one: wake the queued waiter, or store one permit. *)
NotifyOne == notify' = IF notify = "waiting" THEN "none" ELSE "permit"

-----------------------------------------------------------------------------
(* The producer: try_send. *)

(* Mutant: room is computed one too large. *)
HasRoom_OffByOne(read) == writeSeq - read <= Capacity

HasRoom(read) == writeSeq - read <= LastSlot

(* Looks for room through the cached read sequence. *)
SendBegin(v) ==
  /\ prodPc = "idle"
  /\ writeSeq < MaxSends
  /\ offered' = v
  /\ prodPc' = IF HasRoom(cachedRead) THEN "write" ELSE "reload"
  /\ UNCHANGED <<ring, notify, cachedRead, sent, consVars>>

(* The cached value says full: load read_seq, and give up with Full when   *)
(* there is still no room.                                                  *)
SendReload ==
  /\ prodPc = "reload"
  /\ cachedRead' = readSeq
  /\ prodPc' = IF HasRoom(readSeq) THEN "write" ELSE "idle"
  /\ offered' = IF HasRoom(readSeq) THEN offered ELSE Uninit
  /\ UNCHANGED <<ring, notify, sent, consVars>>

SendWrite ==
  /\ prodPc = "write"
  /\ slots' = [slots EXCEPT ![Slot(writeSeq)] = offered]
  /\ prodPc' = "publish"
  /\ UNCHANGED <<writeSeq, readSeq, closed, notify, cachedRead, offered, sent,
                 consVars>>

(* The consumer is notified only if the cached read sequence equals the    *)
(* sequence just written.                                                   *)
SendPublish ==
  /\ prodPc = "publish"
  /\ writeSeq' = writeSeq + 1
  /\ sent' = Append(sent, offered)
  /\ offered' = Uninit
  /\ prodPc' = IF writeSeq = cachedRead THEN "notify" ELSE "idle"
  /\ UNCHANGED <<slots, readSeq, closed, notify, cachedRead, consVars>>

SendNotify ==
  /\ prodPc = "notify"
  /\ NotifyOne
  /\ prodPc' = "idle"
  /\ UNCHANGED <<ring, cachedRead, offered, sent, consVars>>

(* Dropping the producer: mark the channel closed, then notify. *)
ProducerClose ==
  /\ prodPc = "idle"
  /\ closed' = TRUE
  /\ prodPc' = "closing"
  /\ UNCHANGED <<slots, writeSeq, readSeq, notify, cachedRead, offered, sent,
                 consVars>>

(* Mutant: the drop of the producer only sets closed. *)
ProducerNotify_Silent ==
  /\ prodPc = "closing"
  /\ prodPc' = "gone"
  /\ UNCHANGED <<ring, notify, cachedRead, offered, sent, consVars>>

ProducerNotify ==
  /\ prodPc = "closing"
  /\ NotifyOne
  /\ prodPc' = "gone"
  /\ UNCHANGED <<ring, cachedRead, offered, sent, consVars>>

-----------------------------------------------------------------------------
(* The consumer: try_recv on its own, and inside recv. *)

(* A caller polls with try_recv, or awaits recv (whose fast path polls). *)
Begin(s) ==
  /\ consPc = "idle"
  /\ consPc' = "check"
  /\ stage' = s
  /\ UNCHANGED <<ring, notify, prodVars, spins, cachedWrite, held, received, ended>>

TryRecvBegin == Begin("try")
RecvBegin == Begin("fast")

(* try_recv sees an element, through the cached write sequence or a fresh  *)
(* load of write_seq.                                                       *)
CheckFound ==
  /\ consPc = "check"
  /\ \/ /\ readSeq < cachedWrite
        /\ UNCHANGED cachedWrite
     \/ /\ readSeq >= cachedWrite
        /\ readSeq < writeSeq
        /\ cachedWrite' = writeSeq
  /\ consPc' = "read"
  /\ UNCHANGED <<ring, notify, prodVars, stage, spins, held, received, ended>>

(* Where recv goes on when try_recv returned None. *)
AfterNone ==
  \/ /\ stage = "try"
     /\ consPc' = "idle"
     /\ UNCHANGED <<stage, spins, ended>>
  \/ /\ stage = "fast"
     /\ stage' = "spin"
     /\ spins' = 0
     /\ UNCHANGED <<consPc, ended>>
  \/ /\ stage = "spin"
     /\ spins' = spins + 1
     /\ consPc' = IF spins + 1 < SpinLimit THEN "check" ELSE "closed?"
     /\ UNCHANGED <<stage, ended>>
  \/ /\ stage = "woken"
     /\ consPc' = "closed?"
     /\ UNCHANGED <<stage, spins, ended>>
  \/ /\ stage = "drain"
     /\ consPc' = "idle"
     /\ ended' = TRUE
     /\ UNCHANGED <<stage, spins>>

CheckEmpty ==
  /\ consPc = "check"
  /\ readSeq >= cachedWrite
  /\ readSeq >= writeSeq
  /\ cachedWrite' = writeSeq
  /\ AfterNone
  /\ UNCHANGED <<ring, notify, prodVars, held, received>>

(* Moves the value out of its slot. *)
ReadSlot ==
  /\ consPc = "read"
  /\ held' = slots[Slot(readSeq)]
  /\ slots' = [slots EXCEPT ![Slot(readSeq)] = Uninit]
  /\ consPc' = "advance"
  /\ UNCHANGED <<writeSeq, readSeq, closed, notify, prodVars, stage, spins,
                 cachedWrite, received, ended>>

(* Frees the slot for the producer and returns the value. *)
Advance ==
  /\ consPc = "advance"
  /\ readSeq' = readSeq + 1
  /\ received' = Append(received, held)
  /\ held' = Uninit
  /\ consPc' = "idle"
  /\ UNCHANGED <<slots, writeSeq, closed, notify, prodVars, stage, spins,
                 cachedWrite, ended>>

(* Mutant: recv returns None as soon as it sees closed. *)
SawClosed_NoDrain ==
  closed /\ consPc' = "idle" /\ ended' = TRUE /\ UNCHANGED <<stage, spins>>

(* A last try_recv decides between an element and None. *)
SawClosed ==
  closed /\ stage' = "drain" /\ consPc' = "check" /\ UNCHANGED <<spins, ended>>

(* recv parks after spinning, and spins again after a wakeup. *)
SawOpen ==
  /\ ~closed
  /\ stage' = "spin"
  /\ consPc' = IF stage = "spin" THEN "park" ELSE "check"
  /\ spins' = IF stage = "spin" THEN spins ELSE 0
  /\ UNCHANGED ended

(* The two loads of closed in recv: before parking and after a wakeup. *)
CheckClosed ==
  /\ consPc = "closed?"
  /\ SawClosed \/ SawOpen
  /\ UNCHANGED <<ring, notify, prodVars, cachedWrite, held, received>>

(* notified().await: consume a stored permit, or queue as the waiter. *)
Park ==
  /\ consPc = "park"
  /\ \/ /\ notify = "permit"
        /\ notify' = "none"
        /\ consPc' = "check"
        /\ stage' = "woken"
     \/ /\ notify # "permit"
        /\ notify' = "waiting"
        /\ consPc' = "parked"
        /\ UNCHANGED stage
  /\ UNCHANGED <<ring, prodVars, spins, cachedWrite, held, received, ended>>

Wake ==
  /\ consPc = "parked"
  /\ notify # "waiting"
  /\ consPc' = "check"
  /\ stage' = "woken"
  /\ UNCHANGED <<ring, notify, prodVars, spins,
                 cachedWrite, held, received, ended>>

(* A select! drops the future of recv at its await point.  A notification  *)
(* that already reached the waiter is handed back to the Notify.            *)
CancelRecv ==
  /\ consPc = "parked"
  /\ notify' = IF notify = "waiting" THEN "none" ELSE "permit"
  /\ consPc' = "idle"
  /\ UNCHANGED <<ring, prodVars, stage, spins,
                 cachedWrite, held, received, ended>>

(* The consumer end is dropped: the producer is not told. *)
ConsumerDrop ==
  /\ consPc = "idle"
  /\ consPc' = "gone"
  /\ UNCHANGED <<ring, notify, prodVars, stage,
                 spins, cachedWrite, held, received, ended>>

(* Mutant: the first unread element is skipped. *)
LiveSlots_SkipsFirst == {Slot(seq) : seq \in (readSeq + 1)..(writeSeq - 1)}

(* Dropping the last Arc of the inner state drops the elements nobody      *)
(* received.                                                                *)
LiveSlots == {Slot(seq) : seq \in readSeq..(writeSeq - 1)}

InnerDrop ==
  /\ prodPc = "gone"
  /\ consPc = "gone"
  /\ consPc' = "freed"
  /\ slots' = [i \in 0..LastSlot |-> IF i \in LiveSlots THEN Uninit
                                                        ELSE slots[i]]
  /\ UNCHANGED <<writeSeq, readSeq, closed, notify, prodVars, stage, spins,
                 cachedWrite, held, received, ended>>

-----------------------------------------------------------------------------
Producing ==
  \/ SendReload \/ SendWrite \/ SendPublish \/ SendNotify \/ ProducerNotify

Consuming ==
  \/ CheckFound \/ CheckEmpty \/ ReadSlot \/ Advance
  \/ CheckClosed \/ Park \/ Wake

Next ==
  \/ \E v \in Values : SendBegin(v)
  \/ ProducerClose
  \/ Producing
  \/ TryRecvBegin
  \/ RecvBegin
  \/ Consuming
  \/ CancelRecv
  \/ ConsumerDrop
  \/ InnerDrop

Spec == Init /\ [][Next]_vars

(***************************************************************************)
(* A call that began goes on until it returns or parks; the consuming task *)
(* keeps coming back to recv (the operator loop awaits it once per turn,   *)
(* even if it polls in between).                                           *)
(* Nothing obliges the producer to send or to be dropped, nor a select! to *)
(* cancel a recv.                                                           *)
(***************************************************************************)
FairSpec ==
  /\ Spec
  /\ WF_vars(Producing)
  /\ WF_vars(Consuming)
  /\ SF_vars(RecvBegin)

-----------------------------------------------------------------------------
(* Type correctness. *)
TypeOK ==
  /\ slots \in [0..LastSlot -> Values \cup {Uninit}]
  /\ writeSeq \in Nat
  /\ readSeq \in Nat
  /\ closed \in BOOLEAN
  /\ notify \in {"none", "waiting", "permit"}
  /\ prodPc \in {"idle", "reload", "write", "publish", "notify",
                 "closing", "gone"}
  /\ cachedRead \in Nat
  /\ offered \in Values \cup {Uninit}
  /\ consPc \in {"idle", "check", "read", "advance", "closed?", "park",
                 "parked", "gone", "freed"}
  /\ stage \in {"try", "fast", "spin", "woken", "drain"}
  /\ spins \in 0..SpinLimit
  /\ cachedWrite \in Nat
  /\ held \in Values \cup {Uninit}
  /\ sent \in Seq(Values)
  /\ received \in Seq(Values)
  /\ ended \in BOOLEAN

(* The "Safety" comments of try_send and try_recv: the producer writes     *)
(* only a slot whose value was moved out, the consumer reads only a slot   *)
(* that was written, they never access the same slot together, and what    *)
(* the Drop of the inner state drops is initialised.                        *)
SlotDiscipline ==
  /\ prodPc = "write" => slots[Slot(writeSeq)] = Uninit
  /\ consPc = "read" => slots[Slot(readSeq)] # Uninit
  /\ prodPc = "write" /\ consPc = "read" => Slot(writeSeq) # Slot(readSeq)
  /\ consPc # "freed" /\ consPc # "advance" =>
       \A i \in LiveSlots : slots[i] # Uninit

(* The sequences whose slot holds a live element: published and unread,    *)
(* without the one being moved out, with the one about to be published.    *)
LiveSeqs ==
  IF consPc = "freed" THEN {}
  ELSE ((readSeq..(writeSeq - 1)) \ (IF consPc = "advance" THEN {readSeq}
                                                           ELSE {}))
       \cup (IF prodPc = "publish" THEN {writeSeq} ELSE {})

(* Every slot that holds an element belongs to exactly the live sequences: *)
(* nothing is overwritten, leaked after both ends are dropped, or dropped  *)
(* twice by RingBufferInner's Drop.                                         *)
SlotsExact ==
  \A i \in 0..LastSlot :
    slots[i] # Uninit <=> \E seq \in LiveSeqs : Slot(seq) = i

(* A recv that returned None was right: the producer is gone and every     *)
(* element it sent was returned before (the doc of recv, ring_buffer.rs    *)
(* lines 156-157).  A later try_recv cannot find a straggler.               *)
EndOnlyWhenDrained == ended => closed /\ received = sent

(***************************************************************************)
(* The inductive invariant behind the three properties above.              *)
(***************************************************************************)

(* A cached sequence may be stale, but only on the safe side. *)
WindowInv ==
  /\ cachedRead <= readSeq
  /\ readSeq <= cachedWrite
  /\ cachedWrite <= writeSeq
  /\ writeSeq <= cachedRead + Capacity
  /\ prodPc \in {"write", "publish"} => writeSeq < cachedRead + Capacity
  /\ consPc \in {"read", "advance"} => readSeq < cachedWrite

(* What was returned is what was sent, in order. *)
HistoryInv ==
  /\ Len(sent) = writeSeq
  /\ Len(received) = readSeq
  /\ \A k \in 1..readSeq : received[k] = sent[k]

(* What each live sequence's slot, or the consumer's hand, contains. *)
ContentInv ==
  /\ prodPc \in {"reload", "write", "publish"} => offered \in Values
  /\ prodPc = "publish" => slots[Slot(writeSeq)] = offered
  /\ consPc = "advance" => held = sent[readSeq + 1]
  /\ consPc # "freed" =>
       \A seq \in readSeq..(writeSeq - 1) :
         (seq = readSeq /\ consPc = "advance") \/ slots[Slot(seq)] = sent[seq + 1]

(* A slot outside the live sequences is empty. *)
VacancyInv ==
  \A i \in 0..LastSlot :
    slots[i] # Uninit => \E seq \in LiveSeqs : Slot(seq) = i

(* How far recv and the drops have come. *)
RecvInv ==
  /\ consPc = "check" /\ stage = "spin" => spins < SpinLimit
  /\ closed <=> prodPc \in {"closing", "gone"}
  /\ consPc = "freed" => prodPc = "gone"
  /\ consPc \in {"check", "read", "advance"} /\ stage = "drain" => closed
  /\ ended => closed /\ readSeq = writeSeq

IInv ==
  /\ TypeOK
  /\ WindowInv
  /\ HistoryInv
  /\ ContentInv
  /\ VacancyInv
  /\ RecvInv

(* The queue the two ends represent, read from the slots themselves.       *)
QueueView ==
  IF consPc = "freed" THEN <<>>
  ELSE [k \in 1..(writeSeq - readSeq) |->
          IF k = 1 /\ consPc = "advance" THEN held
          ELSE slots[Slot(readSeq + k - 1)]]

ConsumerGone == consPc \in {"gone", "freed"}

Channel == INSTANCE SpscChannel
             WITH queue <- QueueView,
                  abandoned <- ConsumerGone

(* The interleaved loads and stores implement a bounded FIFO queue: order  *)
(* is kept, and no element is duplicated, overwritten, lost or invented    *)
(* between try_send and recv.                                               *)
ImplementsChannel == Channel!Spec

(* A parked recv whose producer is idle has nothing to receive: the        *)
(* comment of try_send says that it notifies when the buffer goes from     *)
(* empty to non-empty (ring_buffer.rs line 118).                            *)
NoLostWakeup ==
  consPc = "parked" /\ notify = "waiting" /\ prodPc = "idle" =>
    readSeq = writeSeq

(* A send that did notify is never missed, whatever recv was doing: its    *)
(* element is eventually received.                                          *)
NotifiedIsReceived ==
  \A n \in 1..MaxSends :
    (prodPc = "notify" /\ writeSeq = n) ~> (readSeq >= n \/ ConsumerGone)

(* After the producer is dropped recv drains the buffer and returns None:  *)
(* no interleaving of the close with the parking consumer hangs it.        *)
CloseIsSeen == closed ~> (ended \/ ConsumerGone)
=============================================================================
