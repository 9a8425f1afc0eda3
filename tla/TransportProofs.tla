-------------------------- MODULE TransportProofs --------------------------
(* Theorems about what carries elements between two tasks: within a        *)
(* TaskManager the ring buffer, for every capacity, element and bound, and *)
(* between TaskManagers the network exchange, for every number of          *)
(* channels, connections and credits and for every size of their queues.   *)
EXTENDS RingBuffer, NetworkExchange, FilterLemmas, SequenceTheorems, TLAPS

-----------------------------------------------------------------------------
(* The ring buffer. *)

(* Euclidean division by the capacity. *)
LEMMA SlotEuclid ==
  ASSUME NEW a \in Nat
  PROVE  /\ Slot(a) \in 0..LastSlot
         /\ \E p \in Nat : a = Capacity * p + Slot(a)
<1>1. Slot(a) \in 0..LastSlot
  BY RingAssumption DEF Slot, LastSlot
<1>2. /\ a \div Capacity \in Nat
      /\ a = Capacity * (a \div Capacity) + Slot(a)
  BY RingAssumption DEF Slot
<1> QED BY <1>1, <1>2

(* A multiple of the capacity strictly between 0 and the capacity does not *)
(* exist.                                                                   *)
LEMMA NoSmallMultiple ==
  ASSUME NEW p \in Nat, NEW q \in Nat, NEW d \in Nat,
         Capacity * q = Capacity * p + d, d < Capacity
  PROVE  d = 0
<1>1. CASE q <= p
  <2>1. PICK k \in Nat : p = q + k
    BY <1>1
  <2>2. Capacity * p = Capacity * q + Capacity * k
    BY <2>1, RingAssumption
  <2>3. Capacity * k >= 0
    BY RingAssumption
  <2> QED BY <2>2, <2>3, RingAssumption
<1>2. CASE q >= p + 1
  <2>1. PICK k \in Nat : q = p + 1 + k
    BY <1>2
  <2>2. Capacity * q = Capacity * p + Capacity + Capacity * k
    BY <2>1, RingAssumption
  <2>3. Capacity * k >= 0
    BY RingAssumption
  <2> QED BY <2>2, <2>3, RingAssumption
<1> QED BY <1>1, <1>2

LEMMA SlotInjective ==
  ASSUME NEW a \in Nat, NEW b \in Nat, a < b, b < a + Capacity
  PROVE  Slot(a) # Slot(b)
<1>1. SUFFICES ASSUME Slot(a) = Slot(b) PROVE FALSE
  OBVIOUS
<1>2. PICK p \in Nat : a = Capacity * p + Slot(a)
  BY SlotEuclid
<1>3. PICK q \in Nat : b = Capacity * q + Slot(b)
  BY SlotEuclid
<1>4. /\ Slot(a) \in Nat
      /\ Capacity * p \in Nat
      /\ Capacity * q \in Nat
  BY SlotEuclid, RingAssumption DEF LastSlot
<1>5. /\ Capacity * q = Capacity * p + (b - a)
      /\ b - a \in Nat
      /\ b - a < Capacity
      /\ b - a # 0
  BY <1>1, <1>2, <1>3, <1>4, RingAssumption
<1> QED BY <1>5, NoSmallMultiple

(* Looking for room through the cached read sequence (ring_buffer.rs 101)  *)
(* may start a write only where a slot is free.                             *)
LEMMA SendBeginKeeps ==
  ASSUME IInv, NEW v \in Values, SendBegin(v)
  PROVE  IInv'
<1> USE RingAssumption DEF IInv, SendBegin, HasRoom, ring, consVars
<1>1. TypeOK'
  BY DEF TypeOK
<1>2. WindowInv'
  BY DEF WindowInv, TypeOK, LastSlot
<1>3. HistoryInv'
  BY DEF HistoryInv
<1>4. ContentInv'
  BY DEF ContentInv
<1>5. VacancyInv'
  BY DEF VacancyInv, LiveSeqs
<1>6. RecvInv'
  BY DEF RecvInv
<1> QED BY <1>1, <1>2, <1>3, <1>4, <1>5, <1>6 DEF IInv

(* Reloading read_seq (102-107) narrows the window by a value that is only *)
(* ever too small.                                                          *)
LEMMA SendReloadKeeps ==
  ASSUME IInv, SendReload
  PROVE  IInv'
<1> USE RingAssumption DEF IInv, SendReload, HasRoom, ring, consVars
<1>1. TypeOK'
  BY DEF TypeOK
<1>2. WindowInv'
  BY DEF WindowInv, TypeOK, LastSlot
<1>3. HistoryInv'
  BY DEF HistoryInv
<1>4. ContentInv'
  BY DEF ContentInv
<1>5. VacancyInv'
  BY DEF VacancyInv, LiveSeqs
<1>6. RecvInv'
  BY DEF RecvInv
<1> QED BY <1>1, <1>2, <1>3, <1>4, <1>5, <1>6 DEF IInv

(* Writing the free slot (109-113) disturbs no live sequence's slot.       *)
LEMMA SendWriteKeeps ==
  ASSUME IInv, SendWrite
  PROVE  IInv'
<1> USE RingAssumption DEF IInv, SendWrite, ring, consVars
<1>a. /\ writeSeq \in Nat /\ readSeq \in Nat /\ cachedRead \in Nat
      /\ writeSeq < readSeq + Capacity
      /\ readSeq <= writeSeq
      /\ DOMAIN slots = 0..LastSlot
      /\ consPc # "freed"
  BY DEF TypeOK, WindowInv, RecvInv
<1>b. Slot(writeSeq) \in 0..LastSlot
  BY <1>a, SlotEuclid
<1>1. TypeOK'
  BY DEF TypeOK
<1>2. WindowInv'
  BY DEF WindowInv, TypeOK, LastSlot
<1>3. HistoryInv'
  BY DEF HistoryInv
<1>4. ContentInv'
  <2>1. ASSUME NEW seq \in readSeq..(writeSeq - 1)
        PROVE  slots'[Slot(seq)] = slots[Slot(seq)]
    <3>1. /\ seq \in Nat
          /\ seq < writeSeq
          /\ writeSeq < seq + Capacity
      BY <1>a, <1>b, <2>1
    <3>2. Slot(seq) # Slot(writeSeq)
      BY <1>a, <1>b, <3>1, SlotInjective
    <3> QED BY <1>a, <1>b, <3>1, <3>2, SlotEuclid
  <2>2. slots'[Slot(writeSeq)] = offered
    BY <1>a, <1>b
  <2> QED BY <2>1, <2>2 DEF ContentInv
<1>5. VacancyInv'
  <2> SUFFICES ASSUME NEW i \in 0..LastSlot, slots'[i] # Uninit
               PROVE  \E seq \in LiveSeqs' : Slot(seq) = i
    BY DEF VacancyInv
  <2>1. CASE i = Slot(writeSeq)
    BY <2>1, <1>a, <1>b DEF LiveSeqs
  <2>2. CASE i # Slot(writeSeq)
    BY <2>2, <1>a, <1>b DEF VacancyInv, LiveSeqs
  <2> QED BY <2>1, <2>2
<1>6. RecvInv'
  BY DEF RecvInv
<1> QED BY <1>1, <1>2, <1>3, <1>4, <1>5, <1>6 DEF IInv

(* Publishing (115-116) makes the slot just written live.                  *)
LEMMA SendPublishKeeps ==
  ASSUME IInv, SendPublish
  PROVE  IInv'
<1> USE RingAssumption DEF IInv, SendPublish, ring, consVars
<1>0. /\ writeSeq \in Nat /\ readSeq \in Nat /\ readSeq <= writeSeq
      /\ offered \in Values
      /\ sent \in Seq(Values)
      /\ Len(sent) = writeSeq
      /\ consPc # "freed"
  BY DEF TypeOK, WindowInv, ContentInv, HistoryInv, RecvInv
<1>a. /\ sent' \in Seq(Values)
      /\ Len(sent') = writeSeq + 1
      /\ sent'[writeSeq + 1] = offered
      /\ \A k \in 1..writeSeq : sent'[k] = sent[k]
  BY <1>0
<1>1. TypeOK'
  BY <1>a DEF TypeOK
<1>2. WindowInv'
  BY DEF WindowInv, TypeOK, LastSlot
<1>3. HistoryInv'
  BY <1>0, <1>a DEF HistoryInv
<1>4. ContentInv'
  <2>1. ASSUME NEW seq \in readSeq..writeSeq
        PROVE  \/ seq = readSeq /\ consPc = "advance"
               \/ slots[Slot(seq)] = sent'[seq + 1]
    <3>1. CASE seq = writeSeq
      BY <3>1, <1>a DEF ContentInv
    <3>2. CASE seq # writeSeq
      <4>1. seq \in readSeq..(writeSeq - 1) /\ seq + 1 \in 1..writeSeq
        BY <3>2, <1>0
      <4> QED BY <4>1, <1>0, <1>a DEF ContentInv
    <3> QED BY <3>1, <3>2
  <2>2. consPc = "advance" => held = sent'[readSeq + 1]
    <3>1. consPc = "advance" => readSeq + 1 \in 1..writeSeq
      BY <1>0 DEF WindowInv, TypeOK
    <3> QED BY <3>1, <1>a DEF ContentInv
  <2>3. readSeq'..(writeSeq' - 1) = readSeq..writeSeq
    BY <1>0
  <2> QED BY <2>1, <2>2, <2>3 DEF ContentInv
<1>5. VacancyInv'
  <2>1. LiveSeqs \subseteq LiveSeqs'
    BY <1>0 DEF LiveSeqs, WindowInv, TypeOK
  <2> QED BY <2>1 DEF VacancyInv
<1>6. RecvInv'
  BY DEF RecvInv
<1> QED BY <1>1, <1>2, <1>3, <1>4, <1>5, <1>6 DEF IInv

(* Notifying (118-124) touches only the Notify.                            *)
LEMMA SendNotifyKeeps ==
  ASSUME IInv, SendNotify
  PROVE  IInv'
<1> USE RingAssumption DEF IInv, SendNotify, ring, consVars, NotifyOne
<1>1. TypeOK'
  BY DEF TypeOK
<1>2. WindowInv'
  BY DEF WindowInv, TypeOK, LastSlot
<1>3. HistoryInv'
  BY DEF HistoryInv
<1>4. ContentInv'
  BY DEF ContentInv
<1>5. VacancyInv'
  BY DEF VacancyInv, LiveSeqs
<1>6. RecvInv'
  BY DEF RecvInv
<1> QED BY <1>1, <1>2, <1>3, <1>4, <1>5, <1>6 DEF IInv

(* Dropping the producer sets closed first (127-129).                      *)
LEMMA ProducerCloseKeeps ==
  ASSUME IInv, ProducerClose
  PROVE  IInv'
<1> USE RingAssumption DEF IInv, ProducerClose, ring, consVars
<1>1. TypeOK'
  BY DEF TypeOK
<1>2. WindowInv'
  BY DEF WindowInv, TypeOK, LastSlot
<1>3. HistoryInv'
  BY DEF HistoryInv
<1>4. ContentInv'
  BY DEF ContentInv
<1>5. VacancyInv'
  BY DEF VacancyInv, LiveSeqs
<1>6. RecvInv'
  BY DEF RecvInv
<1> QED BY <1>1, <1>2, <1>3, <1>4, <1>5, <1>6 DEF IInv

(* Dropping the producer notifies last (130-132).                          *)
LEMMA ProducerNotifyKeeps ==
  ASSUME IInv, ProducerNotify
  PROVE  IInv'
<1> USE RingAssumption DEF IInv, ProducerNotify, ring, consVars, NotifyOne
<1>1. TypeOK'
  BY DEF TypeOK
<1>2. WindowInv'
  BY DEF WindowInv, TypeOK, LastSlot
<1>3. HistoryInv'
  BY DEF HistoryInv
<1>4. ContentInv'
  BY DEF ContentInv
<1>5. VacancyInv'
  BY DEF VacancyInv, LiveSeqs
<1>6. RecvInv'
  BY DEF RecvInv
<1> QED BY <1>1, <1>2, <1>3, <1>4, <1>5, <1>6 DEF IInv

(* Calling try_recv (136-137) changes only where the consumer is.          *)
LEMMA TryRecvBeginKeeps ==
  ASSUME IInv, TryRecvBegin
  PROVE  IInv'
<1> USE RingAssumption DEF IInv, TryRecvBegin, Begin, ring, prodVars
<1>1. TypeOK'
  BY DEF TypeOK
<1>2. WindowInv'
  BY DEF WindowInv, TypeOK, LastSlot
<1>3. HistoryInv'
  BY DEF HistoryInv
<1>4. ContentInv'
  BY DEF ContentInv
<1>5. VacancyInv'
  BY DEF VacancyInv, LiveSeqs
<1>6. RecvInv'
  BY DEF RecvInv
<1> QED BY <1>1, <1>2, <1>3, <1>4, <1>5, <1>6 DEF IInv

(* Calling recv (158-162) changes only where the consumer is.              *)
LEMMA RecvBeginKeeps ==
  ASSUME IInv, RecvBegin
  PROVE  IInv'
<1> USE RingAssumption DEF IInv, RecvBegin, Begin, ring, prodVars
<1>1. TypeOK'
  BY DEF TypeOK
<1>2. WindowInv'
  BY DEF WindowInv, TypeOK, LastSlot
<1>3. HistoryInv'
  BY DEF HistoryInv
<1>4. ContentInv'
  BY DEF ContentInv
<1>5. VacancyInv'
  BY DEF VacancyInv, LiveSeqs
<1>6. RecvInv'
  BY DEF RecvInv
<1> QED BY <1>1, <1>2, <1>3, <1>4, <1>5, <1>6 DEF IInv

(* An element found through either sequence (139-144) is published.        *)
LEMMA CheckFoundKeeps ==
  ASSUME IInv, CheckFound
  PROVE  IInv'
<1> USE RingAssumption DEF IInv, CheckFound, ring, prodVars
<1>1. TypeOK'
  BY DEF TypeOK
<1>2. WindowInv'
  BY DEF WindowInv, TypeOK, LastSlot
<1>3. HistoryInv'
  BY DEF HistoryInv
<1>4. ContentInv'
  BY DEF ContentInv
<1>5. VacancyInv'
  BY DEF VacancyInv, LiveSeqs
<1>6. RecvInv'
  BY DEF RecvInv
<1> QED BY <1>1, <1>2, <1>3, <1>4, <1>5, <1>6 DEF IInv

(* Finding nothing (139-144) ends a drain only when nothing is unread.     *)
LEMMA CheckEmptyKeeps ==
  ASSUME IInv, CheckEmpty
  PROVE  IInv'
<1> USE RingAssumption DEF IInv, CheckEmpty, ring, prodVars, AfterNone
<1>1. TypeOK'
  <2>1. spins' \in 0..SpinLimit
    BY DEF TypeOK, RecvInv
  <2> QED BY <2>1 DEF TypeOK
<1>2. WindowInv'
  BY DEF WindowInv, TypeOK, LastSlot
<1>3. HistoryInv'
  BY DEF HistoryInv
<1>4. ContentInv'
  BY DEF ContentInv
<1>5. VacancyInv'
  BY DEF VacancyInv, LiveSeqs
<1>6. RecvInv'
  <2>1. readSeq = writeSeq
    BY DEF WindowInv, TypeOK
  <2>2. stage = "spin" => spins + 1 < SpinLimit \/ consPc' = "closed?"
    OBVIOUS
  <2> QED BY <2>1, <2>2 DEF RecvInv, TypeOK
<1> QED BY <1>1, <1>2, <1>3, <1>4, <1>5, <1>6 DEF IInv

(* Moving a value out of its slot (146-148) empties that slot alone.       *)
LEMMA ReadSlotKeeps ==
  ASSUME IInv, ReadSlot
  PROVE  IInv'
<1> USE RingAssumption DEF IInv, ReadSlot, ring, prodVars
<1>0. /\ writeSeq \in Nat /\ readSeq \in Nat
      /\ readSeq < writeSeq
      /\ writeSeq <= readSeq + Capacity
      /\ prodPc = "publish" => writeSeq < readSeq + Capacity
      /\ slots \in [0..LastSlot -> Values \cup {Uninit}]
  BY DEF TypeOK, WindowInv
<1>a. Slot(readSeq) \in 0..LastSlot
  BY <1>0, SlotEuclid
<1>1. TypeOK'
  BY <1>0, <1>a DEF TypeOK
<1>2. WindowInv'
  BY DEF WindowInv, TypeOK, LastSlot
<1>3. HistoryInv'
  BY DEF HistoryInv
<1>4. ContentInv'
  <2>1. ASSUME NEW seq \in Nat, readSeq < seq, seq < readSeq + Capacity
        PROVE  slots'[Slot(seq)] = slots[Slot(seq)]
    <3>1. Slot(readSeq) # Slot(seq)
      BY <1>0, <1>a, <2>1, SlotInjective
    <3> QED BY <1>0, <1>a, <2>1, <3>1, SlotEuclid
  <2>2. held' = sent[readSeq + 1]
    BY <1>0, <1>a DEF ContentInv
  <2>3. ASSUME NEW seq \in readSeq..(writeSeq - 1), seq # readSeq
        PROVE  slots'[Slot(seq)] = sent[seq + 1]
    BY <1>0, <1>a, <2>1, <2>3 DEF ContentInv
  <2>4. prodPc = "publish" => slots'[Slot(writeSeq)] = offered
    BY <1>0, <1>a, <2>1 DEF ContentInv
  <2> QED BY <2>2, <2>3, <2>4 DEF ContentInv
<1>5. VacancyInv'
  <2> SUFFICES ASSUME NEW i \in 0..LastSlot, slots'[i] # Uninit
               PROVE  \E seq \in LiveSeqs' : Slot(seq) = i
    BY DEF VacancyInv
  <2>1. i # Slot(readSeq) /\ slots[i] # Uninit
    BY <1>0, <1>a
  <2>2. PICK seq \in LiveSeqs : Slot(seq) = i
    BY <2>1 DEF VacancyInv
  <2>3. seq \in LiveSeqs'
    BY <2>1, <2>2 DEF LiveSeqs
  <2> QED BY <2>2, <2>3
<1>6. RecvInv'
  BY DEF RecvInv
<1> QED BY <1>1, <1>2, <1>3, <1>4, <1>5, <1>6 DEF IInv

(* Advancing read_seq (150-154) returns the next element that was sent.    *)
LEMMA AdvanceKeeps ==
  ASSUME IInv, Advance
  PROVE  IInv'
<1> USE RingAssumption DEF IInv, Advance, ring, prodVars
<1>0. /\ writeSeq \in Nat /\ readSeq \in Nat
      /\ readSeq < writeSeq
      /\ sent \in Seq(Values) /\ Len(sent) = writeSeq
      /\ received \in Seq(Values) /\ Len(received) = readSeq
      /\ held = sent[readSeq + 1]
      /\ held \in Values
  <2>1. /\ writeSeq \in Nat /\ readSeq \in Nat
        /\ readSeq < writeSeq
        /\ sent \in Seq(Values) /\ Len(sent) = writeSeq
        /\ received \in Seq(Values) /\ Len(received) = readSeq
        /\ held = sent[readSeq + 1]
    BY DEF TypeOK, WindowInv, HistoryInv, ContentInv
  <2>2. readSeq + 1 \in 1..Len(sent)
    BY <2>1
  <2> QED BY <2>1, <2>2, ElementOfSeq
<1>a. /\ received' \in Seq(Values)
      /\ Len(received') = readSeq + 1
      /\ received'[readSeq + 1] = held
      /\ \A k \in 1..readSeq : received'[k] = received[k]
  BY <1>0
<1>1. TypeOK'
  BY <1>0, <1>a DEF TypeOK
<1>2. WindowInv'
  BY DEF WindowInv, TypeOK, LastSlot
<1>3. HistoryInv'
  BY <1>0, <1>a DEF HistoryInv
<1>4. ContentInv'
  BY <1>0 DEF ContentInv
<1>5. VacancyInv'
  <2>1. LiveSeqs \subseteq LiveSeqs'
    BY <1>0 DEF LiveSeqs
  <2> QED BY <2>1 DEF VacancyInv
<1>6. RecvInv'
  BY <1>0 DEF RecvInv
<1> QED BY <1>1, <1>2, <1>3, <1>4, <1>5, <1>6 DEF IInv

(* Loading closed (175-193): a drain starts only once closed is set.       *)
LEMMA CheckClosedKeeps ==
  ASSUME IInv, CheckClosed
  PROVE  IInv'
<1> USE RingAssumption DEF IInv, CheckClosed, SawClosed, SawOpen, ring, prodVars
<1>1. TypeOK'
  BY DEF TypeOK
<1>2. WindowInv'
  BY DEF WindowInv, TypeOK, LastSlot
<1>3. HistoryInv'
  BY DEF HistoryInv
<1>4. ContentInv'
  BY DEF ContentInv
<1>5. VacancyInv'
  BY DEF VacancyInv, LiveSeqs
<1>6. RecvInv'
  BY DEF RecvInv
<1> QED BY <1>1, <1>2, <1>3, <1>4, <1>5, <1>6 DEF IInv

(* Awaiting the notification (181-182).                                    *)
LEMMA ParkKeeps ==
  ASSUME IInv, Park
  PROVE  IInv'
<1> USE RingAssumption DEF IInv, Park, ring, prodVars
<1>1. TypeOK'
  BY DEF TypeOK
<1>2. WindowInv'
  BY DEF WindowInv, TypeOK, LastSlot
<1>3. HistoryInv'
  BY DEF HistoryInv
<1>4. ContentInv'
  BY DEF ContentInv
<1>5. VacancyInv'
  BY DEF VacancyInv, LiveSeqs
<1>6. RecvInv'
  BY DEF RecvInv
<1> QED BY <1>1, <1>2, <1>3, <1>4, <1>5, <1>6 DEF IInv

(* Resuming after a notification (182-187).                                *)
LEMMA WakeKeeps ==
  ASSUME IInv, Wake
  PROVE  IInv'
<1> USE RingAssumption DEF IInv, Wake, ring, prodVars
<1>1. TypeOK'
  BY DEF TypeOK
<1>2. WindowInv'
  BY DEF WindowInv, TypeOK, LastSlot
<1>3. HistoryInv'
  BY DEF HistoryInv
<1>4. ContentInv'
  BY DEF ContentInv
<1>5. VacancyInv'
  BY DEF VacancyInv, LiveSeqs
<1>6. RecvInv'
  BY DEF RecvInv
<1> QED BY <1>1, <1>2, <1>3, <1>4, <1>5, <1>6 DEF IInv

(* A select! dropping the future of recv (task.rs 79-88) loses no element. *)
LEMMA CancelRecvKeeps ==
  ASSUME IInv, CancelRecv
  PROVE  IInv'
<1> USE RingAssumption DEF IInv, CancelRecv, ring, prodVars
<1>1. TypeOK'
  BY DEF TypeOK
<1>2. WindowInv'
  BY DEF WindowInv, TypeOK, LastSlot
<1>3. HistoryInv'
  BY DEF HistoryInv
<1>4. ContentInv'
  BY DEF ContentInv
<1>5. VacancyInv'
  BY DEF VacancyInv, LiveSeqs
<1>6. RecvInv'
  BY DEF RecvInv
<1> QED BY <1>1, <1>2, <1>3, <1>4, <1>5, <1>6 DEF IInv

(* Dropping the consumer (54-58) changes no slot.                          *)
LEMMA ConsumerDropKeeps ==
  ASSUME IInv, ConsumerDrop
  PROVE  IInv'
<1> USE RingAssumption DEF IInv, ConsumerDrop, ring, prodVars
<1>1. TypeOK'
  BY DEF TypeOK
<1>2. WindowInv'
  BY DEF WindowInv, TypeOK, LastSlot
<1>3. HistoryInv'
  BY DEF HistoryInv
<1>4. ContentInv'
  BY DEF ContentInv
<1>5. VacancyInv'
  BY DEF VacancyInv, LiveSeqs
<1>6. RecvInv'
  BY DEF RecvInv
<1> QED BY <1>1, <1>2, <1>3, <1>4, <1>5, <1>6 DEF IInv

(* Dropping the inner state (30-43) empties exactly the live slots.        *)
LEMMA InnerDropKeeps ==
  ASSUME IInv, InnerDrop
  PROVE  IInv'
<1> USE RingAssumption DEF IInv, InnerDrop, ring, prodVars
<1>1. TypeOK'
  BY DEF TypeOK
<1>2. WindowInv'
  BY DEF WindowInv, TypeOK, LastSlot
<1>3. HistoryInv'
  BY DEF HistoryInv
<1>4. ContentInv'
  BY DEF ContentInv
<1>5. VacancyInv'
  <2> SUFFICES ASSUME NEW i \in 0..LastSlot
               PROVE  slots'[i] = Uninit
    BY DEF VacancyInv
  <2>1. CASE slots[i] = Uninit
    BY <2>1
  <2>2. CASE slots[i] # Uninit
    <3>1. PICK seq \in LiveSeqs : Slot(seq) = i
      BY <2>2 DEF VacancyInv
    <3>2. i \in LiveSlots
      BY <3>1 DEF LiveSeqs, LiveSlots
    <3> QED BY <3>2
  <2> QED BY <2>1, <2>2
<1>6. RecvInv'
  BY DEF RecvInv
<1> QED BY <1>1, <1>2, <1>3, <1>4, <1>5, <1>6 DEF IInv

(* Every step of either end keeps the inductive invariant. *)
LEMMA StepKeeps == IInv /\ [Next]_vars => IInv'
<1> SUFFICES ASSUME IInv, [Next]_vars PROVE IInv'
  OBVIOUS
<1>1. ASSUME NEW v \in Values, SendBegin(v) PROVE IInv'
  BY <1>1, SendBeginKeeps
<1>2. CASE ProducerClose
  BY <1>2, ProducerCloseKeeps
<1>3. CASE Producing
  BY <1>3, SendReloadKeeps, SendWriteKeeps, SendPublishKeeps, SendNotifyKeeps,
     ProducerNotifyKeeps DEF Producing
<1>4. CASE TryRecvBegin
  BY <1>4, TryRecvBeginKeeps
<1>5. CASE RecvBegin
  BY <1>5, RecvBeginKeeps
<1>6. CASE Consuming
  BY <1>6, CheckFoundKeeps, CheckEmptyKeeps, ReadSlotKeeps, AdvanceKeeps,
     CheckClosedKeeps, ParkKeeps, WakeKeeps DEF Consuming
<1>7. CASE CancelRecv
  BY <1>7, CancelRecvKeeps
<1>8. CASE ConsumerDrop
  BY <1>8, ConsumerDropKeeps
<1>9. CASE InnerDrop
  BY <1>9, InnerDropKeeps
<1>10. CASE UNCHANGED vars
  BY <1>10 DEF vars, ring, prodVars, consVars, IInv, TypeOK, WindowInv, HistoryInv,
     ContentInv, VacancyInv, LiveSeqs, RecvInv
<1> QED
  BY <1>1, <1>2, <1>3, <1>4, <1>5, <1>6, <1>7, <1>8, <1>9, <1>10 DEF Next

(* A new ring buffer (66-93) satisfies the invariant.                      *)
LEMMA InitKeeps == Init => IInv
<1> SUFFICES ASSUME Init PROVE IInv
  OBVIOUS
<1> USE RingAssumption DEF Init
<1>1. TypeOK
  BY DEF TypeOK, LastSlot
<1>2. WindowInv /\ HistoryInv /\ ContentInv
  BY DEF WindowInv, HistoryInv, ContentInv
<1>3. VacancyInv /\ RecvInv
  BY DEF VacancyInv, LiveSeqs, RecvInv
<1> QED BY <1>1, <1>2, <1>3 DEF IInv

(* The state of a ring buffer of any capacity always satisfies IInv. *)
THEOREM Invariance == Spec => []IInv
<1>1. Init => IInv
  BY InitKeeps
<1>2. IInv /\ [Next]_vars => IInv'
  BY StepKeeps
<1> QED BY <1>1, <1>2, PTL DEF Spec

(* Type correctness. *)
THEOREM TypeCorrect == Spec => []TypeOK
<1>1. IInv => TypeOK
  BY DEF IInv
<1> QED BY <1>1, Invariance, PTL

(* The "Safety" comments of try_send, try_recv and Drop hold: the unsafe   *)
(* accesses never touch a slot in the wrong state nor meet in one slot.    *)
THEOREM SlotSafety == Spec => []SlotDiscipline
<1>1. IInv => SlotDiscipline
  <2> SUFFICES ASSUME IInv PROVE SlotDiscipline
    OBVIOUS
  <2> USE RingAssumption DEF IInv
  <2>1. /\ writeSeq \in Nat /\ readSeq \in Nat
        /\ readSeq <= writeSeq
        /\ prodPc = "write" => writeSeq < readSeq + Capacity
        /\ consPc = "read" => readSeq < writeSeq
        /\ Len(sent) = writeSeq /\ sent \in Seq(Values)
    BY DEF TypeOK, WindowInv, HistoryInv
  <2>2. ASSUME NEW seq \in readSeq..(writeSeq - 1),
               consPc # "freed", consPc # "advance"
        PROVE  slots[Slot(seq)] # Uninit
    <3>1. seq + 1 \in 1..Len(sent)
      BY <2>1
    <3>2. sent[seq + 1] \in Values
      BY <2>1, <3>1, ElementOfSeq
    <3> QED BY <2>2, <3>2 DEF ContentInv
  <2>3. consPc = "read" => slots[Slot(readSeq)] # Uninit
    BY <2>1, <2>2
  <2>4. ASSUME prodPc = "write", slots[Slot(writeSeq)] # Uninit PROVE FALSE
    <3>1. Slot(writeSeq) \in 0..LastSlot
      BY <2>1, SlotEuclid
    <3>2. PICK seq \in LiveSeqs : Slot(seq) = Slot(writeSeq)
      BY <2>4, <3>1 DEF VacancyInv
    <3>3. seq \in Nat /\ seq < writeSeq /\ writeSeq < seq + Capacity
      BY <2>1, <2>4, <3>2 DEF LiveSeqs
    <3> QED BY <2>1, <3>2, <3>3, SlotInjective
  <2>5. ASSUME prodPc = "write", consPc = "read"
        PROVE  Slot(writeSeq) # Slot(readSeq)
    BY <2>1, <2>5, SlotInjective
  <2>6. ASSUME consPc # "freed", consPc # "advance", NEW i \in LiveSlots
        PROVE  slots[i] # Uninit
    BY <2>2, <2>6 DEF LiveSlots
  <2> QED BY <2>3, <2>4, <2>5, <2>6 DEF SlotDiscipline
<1> QED BY <1>1, Invariance, PTL

(* The slots that hold an element are those of the live sequences: none is *)
(* lost by overwriting, leaked, or dropped twice.                           *)
THEOREM SlotAccounting == Spec => []SlotsExact
<1>1. IInv => SlotsExact
  <2> SUFFICES ASSUME IInv PROVE SlotsExact
    OBVIOUS
  <2> USE RingAssumption DEF IInv
  <2>1. /\ writeSeq \in Nat /\ readSeq \in Nat
        /\ Len(sent) = writeSeq /\ sent \in Seq(Values)
    BY DEF TypeOK, HistoryInv
  <2>2. ASSUME NEW seq \in LiveSeqs PROVE slots[Slot(seq)] # Uninit
    <3>1. CASE seq = writeSeq
      BY <3>1, <2>1, <2>2 DEF LiveSeqs, ContentInv
    <3>2. CASE seq # writeSeq
      <4>1. /\ seq \in readSeq..(writeSeq - 1)
            /\ ~(seq = readSeq /\ consPc = "advance")
            /\ consPc # "freed"
        BY <2>2, <3>2 DEF LiveSeqs
      <4>2. seq + 1 \in 1..Len(sent)
        BY <2>1, <4>1
      <4>3. sent[seq + 1] \in Values
        BY <2>1, <4>2, ElementOfSeq
      <4> QED BY <4>1, <4>3 DEF ContentInv
    <3> QED BY <3>1, <3>2
  <2> QED BY <2>2 DEF SlotsExact, VacancyInv
<1> QED BY <1>1, Invariance, PTL

(* recv returns None only after the producer is gone and every element it  *)
(* sent was returned.                                                       *)
THEOREM DrainedAtEnd == Spec => []EndOnlyWhenDrained
<1>1. IInv => EndOnlyWhenDrained
  <2> SUFFICES ASSUME IInv, ended PROVE closed /\ received = sent
    BY DEF EndOnlyWhenDrained
  <2>1. /\ closed /\ readSeq = writeSeq
        /\ sent \in Seq(Values) /\ received \in Seq(Values)
        /\ Len(sent) = writeSeq /\ Len(received) = readSeq
        /\ \A k \in 1..readSeq : received[k] = sent[k]
    BY DEF IInv, RecvInv, HistoryInv, TypeOK
  <2>2. Len(received) = Len(sent) /\ \A k \in 1..Len(received) : received[k] = sent[k]
    BY <2>1
  <2> QED BY <2>1, <2>2, SeqEqual
<1> QED BY <1>1, Invariance, PTL

-----------------------------------------------------------------------------
(* The ring buffer implements the FIFO channel. *)

(* What was sent and not received yet, told by the histories. *)
Unread == [k \in 1..(writeSeq - readSeq) |-> sent[readSeq + k]]

(* The slots hold, in order, exactly what was sent and not received yet. *)
ViewOK ==
  /\ QueueView = Unread
  /\ Unread \in Seq(Values)
  /\ Len(Unread) = writeSeq - readSeq
  /\ Len(Unread) <= Capacity

(* The slots from read_seq to write_seq hold the unread elements, in order.*)
LEMMA ViewIsUnread == IInv /\ consPc # "freed" => ViewOK
<1> SUFFICES ASSUME IInv, consPc # "freed" PROVE ViewOK
  OBVIOUS
<1>1. /\ writeSeq \in Nat /\ readSeq \in Nat /\ readSeq <= writeSeq
      /\ writeSeq <= readSeq + Capacity
      /\ sent \in Seq(Values) /\ Len(sent) = writeSeq
  BY RingAssumption DEF IInv, TypeOK, WindowInv, HistoryInv
<1>2. ASSUME NEW k \in 1..(writeSeq - readSeq)
      PROVE  (IF k = 1 /\ consPc = "advance" THEN held
              ELSE slots[Slot(readSeq + k - 1)]) = sent[readSeq + k]
  <2>1. CASE k = 1 /\ consPc = "advance"
    BY <2>1, <1>1 DEF IInv, ContentInv
  <2>2. CASE ~(k = 1 /\ consPc = "advance")
    <3> DEFINE seq == readSeq + k - 1
    <3>1. /\ seq \in readSeq..(writeSeq - 1)
          /\ ~(seq = readSeq /\ consPc = "advance")
          /\ seq + 1 = readSeq + k
      BY <1>1, <2>2
    <3>2. slots[Slot(seq)] = sent[seq + 1]
      BY <3>1 DEF IInv, ContentInv
    <3> QED BY <2>2, <3>1, <3>2
  <2> QED BY <2>1, <2>2
<1>3. QueueView = Unread
  BY <1>2 DEF QueueView, Unread
<1>4. ASSUME NEW k \in 1..(writeSeq - readSeq)
      PROVE  sent[readSeq + k] \in Values
  BY <1>1, ElementOfSeq
<1>5. /\ Unread \in Seq(Values)
      /\ Len(Unread) = writeSeq - readSeq
  BY <1>1, <1>4 DEF Unread
<1> QED BY <1>1, <1>3, <1>5, RingAssumption DEF ViewOK

(* The same in the next state. *)
LEMMA ViewIsUnreadNext == (IInv /\ consPc # "freed")' => ViewOK'
BY ViewIsUnread, PTL

(* Publishing a slot is the abstract send. *)
LEMMA PublishIsSend ==
  ASSUME IInv, IInv', SendPublish
  PROVE  Channel!Send(offered) /\ offered \in Values
<1>1. /\ consPc # "freed" /\ consPc' # "freed" /\ ~closed
      /\ UNCHANGED <<received, closed, ended, consPc, readSeq>>
      /\ writeSeq' = writeSeq + 1 /\ sent' = Append(sent, offered)
      /\ offered \in Values
  BY DEF SendPublish, ring, consVars, IInv, RecvInv, ContentInv
<1>2. /\ writeSeq \in Nat /\ readSeq \in Nat /\ readSeq <= writeSeq
      /\ writeSeq < readSeq + Capacity
      /\ sent \in Seq(Values) /\ Len(sent) = writeSeq
  BY RingAssumption DEF IInv, TypeOK, WindowInv, HistoryInv, SendPublish
<1>3. Unread' = Append(Unread, offered)
  <2>1. /\ Unread' \in Seq(Values) /\ Append(Unread, offered) \in Seq(Values)
        /\ Len(Unread') = writeSeq + 1 - readSeq
        /\ Len(Append(Unread, offered)) = writeSeq + 1 - readSeq
    BY <1>1, <1>2, ViewIsUnread, ViewIsUnreadNext DEF ViewOK
  <2>2. ASSUME NEW k \in 1..(writeSeq + 1 - readSeq)
        PROVE  Unread'[k] = Append(Unread, offered)[k]
    BY <1>1, <1>2, <2>1 DEF Unread
  <2> QED BY <2>1, <2>2, SeqEqual
<1>4. Len(QueueView) < Capacity
  BY <1>1, <1>2, ViewIsUnread, RingAssumption DEF ViewOK
<1>5. QueueView' = Append(QueueView, offered)
  BY <1>1, <1>3, ViewIsUnread, ViewIsUnreadNext DEF ViewOK
<1> QED BY <1>1, <1>4, <1>5 DEF Channel!Send, ConsumerGone

(* Advancing the read sequence is the abstract receive. *)
LEMMA AdvanceIsReceive ==
  ASSUME IInv, IInv', Advance
  PROVE  Channel!Receive
<1>1. /\ consPc = "advance" /\ consPc' = "idle"
      /\ UNCHANGED <<closed, ended, writeSeq, sent>>
      /\ readSeq' = readSeq + 1 /\ received' = Append(received, held)
      /\ held = sent[readSeq + 1]
  BY DEF Advance, ring, prodVars, IInv, ContentInv
<1>2. /\ writeSeq \in Nat /\ readSeq \in Nat /\ readSeq < writeSeq
  BY <1>1 DEF IInv, TypeOK, WindowInv
<1>3. ViewOK /\ ViewOK'
  BY <1>1, ViewIsUnread, ViewIsUnreadNext
<1>4. Unread # <<>> /\ Head(Unread) = held
  <2>1. Len(Unread) >= 1 /\ Unread \in Seq(Values)
    BY <1>2, <1>3 DEF ViewOK
  <2>2. Head(Unread) = Unread[1] /\ Unread # <<>>
    BY <2>1
  <2>3. Unread[1] = sent[readSeq + 1]
    BY <1>2 DEF Unread
  <2> QED BY <1>1, <2>2, <2>3
<1>5. Unread' = Tail(Unread)
  <2>1. /\ Unread' \in Seq(Values) /\ Tail(Unread) \in Seq(Values)
        /\ Len(Unread') = writeSeq - (readSeq + 1)
        /\ Len(Tail(Unread)) = writeSeq - (readSeq + 1)
    BY <1>1, <1>2, <1>3, <1>4 DEF ViewOK
  <2>2. ASSUME NEW k \in 1..(writeSeq - (readSeq + 1))
        PROVE  Unread'[k] = Tail(Unread)[k]
    <3>1. Tail(Unread)[k] = Unread[k + 1]
      BY <1>2, <1>3, <1>4, <2>1, HeadTailProperties DEF ViewOK
    <3>2. Unread[k + 1] = sent[readSeq + (k + 1)]
      <4>1. k + 1 \in 1..(writeSeq - readSeq)
        BY <1>2
      <4> QED BY <4>1 DEF Unread
    <3>3. Unread'[k] = sent[(readSeq + 1) + k]
      BY <1>1 DEF Unread
    <3>4. readSeq + (k + 1) = (readSeq + 1) + k
      BY <1>2
    <3> QED BY <3>1, <3>2, <3>3, <3>4
  <2> QED BY <1>2, <2>1, <2>2, SeqEqual
<1> QED BY <1>1, <1>3, <1>4, <1>5 DEF Channel!Receive, ConsumerGone, ViewOK

(* The steps that leave the represented queue and the histories alone. *)
LEMMA SilentStep ==
  ASSUME IInv, IInv', UNCHANGED <<writeSeq, readSeq, sent>>,
         consPc # "freed", consPc' # "freed"
  PROVE  QueueView' = QueueView
<1>1. ViewOK /\ ViewOK'
  BY ViewIsUnread, ViewIsUnreadNext
<1>2. Unread' = Unread
  BY DEF Unread
<1> QED BY <1>1, <1>2 DEF ViewOK

(* A None from try_recv ends the channel, or changes nothing abstract. *)
LEMMA CheckEmptyStep ==
  ASSUME IInv, IInv', CheckEmpty
  PROVE  Channel!End \/ UNCHANGED Channel!vars
<1> USE DEF CheckEmpty, AfterNone, ring, prodVars
<1>1. /\ consPc = "check" /\ consPc' \in {"idle", "check", "closed?"}
      /\ UNCHANGED <<writeSeq, readSeq, sent, received, closed>>
      /\ ConsumerGone = FALSE /\ ConsumerGone' = FALSE
  BY DEF ConsumerGone
<1>2. QueueView' = QueueView
  BY <1>1, SilentStep
<1>3. CASE stage = "drain"
  <2>1. closed /\ ended'
    BY <1>3 DEF IInv, RecvInv
  <2>2. readSeq = writeSeq /\ writeSeq \in Nat
    BY DEF IInv, WindowInv, TypeOK
  <2>3. ViewOK
    BY <1>1, ViewIsUnread
  <2>4. QueueView = <<>>
    BY <2>2, <2>3 DEF ViewOK
  <2>5. ended' = TRUE
    BY <1>3
  <2> QED BY <1>1, <1>2, <2>1, <2>4, <2>5 DEF Channel!End
<1>4. CASE stage # "drain"
  BY <1>1, <1>2, <1>4 DEF Channel!vars
<1> QED BY <1>3, <1>4

(* Every step of either end is a step of the channel, or invisible. *)
LEMMA StepImplements == IInv /\ IInv' /\ [Next]_vars => [Channel!Next]_Channel!vars
<1> SUFFICES ASSUME IInv, IInv', [Next]_vars
             PROVE  [Channel!Next]_Channel!vars
  OBVIOUS
<1>0. /\ prodPc # "gone" => consPc # "freed"
      /\ closed <=> prodPc \in {"closing", "gone"}
  BY DEF IInv, RecvInv
<1>1. ASSUME NEW v \in Values, SendBegin(v) PROVE UNCHANGED Channel!vars
  BY <1>1, SilentStep, <1>0 DEF SendBegin, HasRoom, ring, consVars, Channel!vars, ConsumerGone
<1>2. CASE ProducerClose
  BY <1>2, SilentStep, <1>0
     DEF ProducerClose, ring, consVars, Channel!Next, Channel!Close, ConsumerGone
<1>3. CASE SendReload \/ SendWrite \/ SendNotify \/ ProducerNotify
  BY <1>3, SilentStep, <1>0 DEF SendReload, SendWrite, SendNotify,
     ProducerNotify, ring, consVars, Channel!vars, ConsumerGone
<1>4. CASE SendPublish
  BY <1>4, PublishIsSend DEF Channel!Next
<1>5. CASE TryRecvBegin \/ RecvBegin \/ CheckFound \/ ReadSlot
             \/ CheckClosed \/ Park \/ Wake \/ CancelRecv
  BY <1>5, SilentStep DEF TryRecvBegin, RecvBegin, CheckFound, ReadSlot,
     CheckClosed, SawClosed, SawOpen, Begin, Park, Wake, CancelRecv, ring, prodVars, Channel!vars, ConsumerGone
<1>6. CASE CheckEmpty
  BY <1>6, CheckEmptyStep DEF Channel!Next
<1>7. CASE Advance
  BY <1>7, AdvanceIsReceive DEF Channel!Next
<1>8. CASE ConsumerDrop
  BY <1>8, SilentStep
     DEF ConsumerDrop, ring, prodVars, Channel!Next, Channel!Abandon, ConsumerGone
<1>9. CASE InnerDrop
  <2>1. /\ closed /\ ConsumerGone = TRUE /\ ConsumerGone' = TRUE
        /\ UNCHANGED <<received, closed, ended>>
    BY <1>9, <1>0 DEF InnerDrop, ring, prodVars, ConsumerGone
  <2>2. QueueView' = <<>>
    BY <1>9 DEF InnerDrop, QueueView
  <2> QED BY <2>1, <2>2 DEF Channel!Next, Channel!Discard
<1>10. CASE UNCHANGED vars
  BY <1>10 DEF vars, ring, prodVars, consVars, Channel!vars, QueueView, ConsumerGone
<1> QED
  BY <1>1, <1>2, <1>3, <1>4, <1>5, <1>6, <1>7, <1>8, <1>9, <1>10
     DEF Next, Producing, Consuming

(* Refinement: a ring buffer of any capacity is a bounded FIFO channel. *)
THEOREM Refinement == Spec => ImplementsChannel
<1>1. Init => Channel!Init
  BY DEF Init, Channel!Init, QueueView, ConsumerGone
<1>2. IInv /\ IInv' /\ [Next]_vars => [Channel!Next]_Channel!vars
  BY StepImplements
<1> QED BY <1>1, <1>2, Invariance, PTL DEF Spec, Channel!Spec, ImplementsChannel

-----------------------------------------------------------------------------
(* The network exchange: what the operators of its invariant do. *)

LEMMA AllElemsOf ==
  /\ AllElems({}) = {}
  /\ \A b : AllElems({b}) = Elems(b)
  /\ \A S, T : AllElems(S \cup T) = AllElems(S) \cup AllElems(T)
  /\ \A S, T : S \subseteq T => AllElems(S) \subseteq AllElems(T)
BY DEF AllElems

LEMMA AllElemsAdd ==
  ASSUME NEW S, NEW b
  PROVE  AllElems(S \cup {b}) = AllElems(S) \cup Elems(b)
BY DEF AllElems

LEMMA OfChannelEmpty ==
  ASSUME NEW c
  PROVE  OfChannel(c, <<>>) = {}
BY DEF OfChannel, ToSet

LEMMA ToSetPut ==
  ASSUME NEW T, NEW q \in Seq(T), NEW b \in T
  PROVE  ToSet(Append(q, b)) = ToSet(q) \cup {b}
<1> DEFINE p == Append(q, b)
<1>1. /\ DOMAIN q = 1..Len(q) /\ Len(q) \in Nat /\ DOMAIN p = 1..(Len(q) + 1)
      /\ p[Len(q) + 1] = b
      /\ \A k \in DOMAIN q : k \in DOMAIN p /\ p[k] = q[k]
      /\ \A k \in DOMAIN p : k \in DOMAIN q \/ k = Len(q) + 1
      /\ Len(q) + 1 \in DOMAIN p
  OBVIOUS
<1> HIDE DEF p
<1>2. ToSet(p) = ToSet(q) \cup {b}
  BY <1>1 DEF ToSet
<1>3. QED  BY <1>2 DEF p

(* A queue's batches of one channel, after a batch is put or taken. *)
LEMMA OfChannelPut ==
  ASSUME NEW c, NEW q \in Seq(Batch), NEW b \in Batch
  PROVE  OfChannel(c, Append(q, b)) = OfChannel(c, q) \cup (IF b.channel = c THEN {b} ELSE {})
BY ToSetPut DEF OfChannel

LEMMA ToSetTake ==
  ASSUME NEW T, NEW q \in Seq(T), q # <<>>
  PROVE  ToSet(q) = {Head(q)} \cup ToSet(Tail(q))
<1>1. /\ Len(q) \in Nat /\ Len(q) # 0 /\ Head(q) = q[1] /\ DOMAIN q = 1..Len(q)
      /\ DOMAIN Tail(q) = 1..(Len(q) - 1)
      /\ \A k \in 1..(Len(q) - 1) : Tail(q)[k] = q[k + 1]
  OBVIOUS
<1>2. ASSUME NEW k \in 1..Len(q)
      PROVE  q[k] \in {Head(q)} \cup ToSet(Tail(q))
  <2>1. CASE k = 1
    BY <1>1, <2>1
  <2>2. CASE k # 1
    <3>1. k - 1 \in 1..(Len(q) - 1) /\ q[k] = Tail(q)[k - 1]
      BY <1>1, <1>2, <2>2
    <3>2. QED  BY <1>1, <3>1 DEF ToSet
  <2>3. QED  BY <2>1, <2>2
<1>3. ASSUME NEW k \in 1..(Len(q) - 1)
      PROVE  Tail(q)[k] \in ToSet(q)
  <2>1. k + 1 \in DOMAIN q /\ Tail(q)[k] = q[k + 1]
    BY <1>1, <1>3
  <2>2. QED  BY <2>1 DEF ToSet
<1>4. Head(q) \in ToSet(q)
  <2>1. 1 \in DOMAIN q
    BY <1>1
  <2>2. QED  BY <1>1, <2>1 DEF ToSet
<1>5. \A x \in ToSet(q) : x \in {Head(q)} \cup ToSet(Tail(q))
  BY <1>1, <1>2 DEF ToSet
<1>6. \A x \in ToSet(Tail(q)) : x \in ToSet(q)
  BY <1>1, <1>3 DEF ToSet
<1>7. QED  BY <1>4, <1>5, <1>6

LEMMA OfChannelTake ==
  ASSUME NEW c, NEW q \in Seq(Batch), q # <<>>
  PROVE  OfChannel(c, q) = OfChannel(c, Tail(q)) \cup
                           (IF Head(q).channel = c THEN {Head(q)} ELSE {})
BY ToSetTake DEF OfChannel

(* A queue stays in order when its channel puts the first of the rest.     *)
LEMMA OutwardPut ==
  ASSUME NEW c, NEW past, NEW handled, NEW q \in Seq(Batch), NEW rest,
         NEW b \in Batch, b.channel = c, Elems(b) \subseteq rest,
         NEW left, left \subseteq rest, Before(Elems(b), left),
         Outward(c, past, handled, q, rest)
  PROVE  Outward(c, past, handled, Append(q, b), left)
<1> DEFINE p == Append(q, b)
<1>1. /\ DOMAIN q = 1..Len(q) /\ Len(q) \in Nat /\ DOMAIN p = 1..(Len(q) + 1)
      /\ p[Len(q) + 1] = b
      /\ \A k \in DOMAIN q : p[k] = q[k]
      /\ \A k \in DOMAIN p : k \in DOMAIN q \/ k = Len(q) + 1
      /\ \A k, m \in DOMAIN p : k < m => k \in DOMAIN q
  OBVIOUS
<1> HIDE DEF p
<1>2. /\ Before(past, handled) /\ Before(past \cup handled, rest)
      /\ \A k \in DOMAIN q : q[k].channel = c =>
           Before(past \cup handled, Elems(q[k])) /\ Before(Elems(q[k]), rest)
      /\ \A k, m \in DOMAIN q :
           k < m /\ q[k].channel = c /\ q[m].channel = c => Before(Elems(q[k]), Elems(q[m]))
  BY DEF Outward
<1>3. \A S : Before(S, rest) => Before(S, left) /\ Before(S, Elems(b))
  BY DEF Before
<1>4. ASSUME NEW k \in DOMAIN p, p[k].channel = c
      PROVE  Before(past \cup handled, Elems(p[k])) /\ Before(Elems(p[k]), left)
  BY <1>1, <1>2, <1>3, <1>4
<1>5. ASSUME NEW k \in DOMAIN p, NEW m \in DOMAIN p, k < m, p[k].channel = c, p[m].channel = c
      PROVE  Before(Elems(p[k]), Elems(p[m]))
  <2>1. k \in DOMAIN q /\ p[k] = q[k]
    BY <1>1, <1>5
  <2>2. QED  BY <1>1, <1>2, <1>3, <1>5, <2>1
<1>6. Before(past \cup handled, left)
  BY <1>2, <1>3
<1>7. Outward(c, past, handled, p, left)
  BY <1>2, <1>4, <1>5, <1>6 DEF Outward
<1>8. QED  BY <1>7 DEF p

(* The other channels of a connection are not concerned. *)
LEMMA OutwardOther ==
  ASSUME NEW c, NEW past, NEW handled, NEW q \in Seq(Batch), NEW rest,
         NEW b \in Batch, b.channel # c,
         Outward(c, past, handled, q, rest)
  PROVE  Outward(c, past, handled, Append(q, b), rest)
<1> DEFINE p == Append(q, b)
<1>1. /\ DOMAIN q = 1..Len(q) /\ Len(q) \in Nat /\ DOMAIN p = 1..(Len(q) + 1)
      /\ \A k \in DOMAIN p : p[k].channel = c => k \in DOMAIN q /\ p[k] = q[k]
  OBVIOUS
<1> HIDE DEF p
<1>2. Outward(c, past, handled, p, rest)
  BY <1>1 DEF Outward
<1>3. QED  BY <1>2 DEF p

(* A handler takes the head of its queue. *)
LEMMA OutwardTake ==
  ASSUME NEW c, NEW past, NEW q \in Seq(Batch), q # <<>>, NEW rest,
         Outward(c, past, {}, q, rest)
  PROVE  Outward(c, past, IF Head(q).channel = c THEN Elems(Head(q)) ELSE {}, Tail(q), rest)
<1> DEFINE p == Tail(q)
<1> DEFINE b == Head(q)
<1>1. /\ DOMAIN q = 1..Len(q) /\ Len(q) \in Nat /\ DOMAIN p = 1..(Len(q) - 1) /\ 1 \in DOMAIN q
      /\ b = q[1]
      /\ \A k \in DOMAIN p : p[k] = q[k + 1] /\ k + 1 \in DOMAIN q /\ 1 < k + 1
      /\ \A k, m \in DOMAIN p : k < m => k + 1 < m + 1
  OBVIOUS
<1> HIDE DEF p, b
<1>2. /\ Before(past \cup {}, rest)
      /\ \A k \in DOMAIN q : q[k].channel = c =>
           Before(past \cup {}, Elems(q[k])) /\ Before(Elems(q[k]), rest)
      /\ \A k, m \in DOMAIN q :
           k < m /\ q[k].channel = c /\ q[m].channel = c => Before(Elems(q[k]), Elems(q[m]))
  BY DEF Outward
<1>3. past \cup {} = past
  OBVIOUS
<1>4. \A S, T, U : Before(S, U) /\ Before(T, U) => Before(S \cup T, U)
  BY DEF Before
<1>5. ASSUME NEW k \in DOMAIN p, NEW m \in DOMAIN p, k < m, p[k].channel = c, p[m].channel = c
      PROVE  Before(Elems(p[k]), Elems(p[m]))
  BY <1>1, <1>2, <1>5
<1>6. CASE b.channel = c
  <2>1. Before(past, Elems(b)) /\ Before(Elems(b), rest)
    BY <1>1, <1>2, <1>3, <1>6
  <2>2. \A k \in DOMAIN p : p[k].channel = c =>
          Before(past \cup Elems(b), Elems(p[k])) /\ Before(Elems(p[k]), rest)
    BY <1>1, <1>2, <1>3, <1>4, <1>6
  <2>3. Outward(c, past, Elems(b), p, rest)
    BY <1>2, <1>3, <1>4, <1>5, <2>1, <2>2 DEF Outward
  <2>4. QED  BY <1>6, <2>3 DEF p, b
<1>7. CASE b.channel # c
  <2>1. Before(past, {})
    BY DEF Before
  <2>2. Outward(c, past, {}, p, rest)
    BY <1>1, <1>2, <1>5, <2>1 DEF Outward
  <2>3. QED  BY <1>7, <2>2 DEF p, b
<1>8. QED  BY <1>6, <1>7

(* What the handler routed is behind it. *)
LEMMA OutwardSettle ==
  ASSUME NEW c, NEW past, NEW handled, NEW q \in Seq(Batch), NEW rest,
         NEW now, now \subseteq past \cup handled,
         Outward(c, past, handled, q, rest)
  PROVE  Outward(c, now, {}, q, rest)
<1>1. \A U : Before(past \cup handled, U) => Before(now \cup {}, U)
  BY DEF Before
<1>2. Before(now, {})
  BY DEF Before
<1>3. QED  BY <1>1, <1>2 DEF Outward

(* Less behind, the same ahead. *)
LEMMA OutwardPast ==
  ASSUME NEW c, NEW past, NEW handled, NEW q \in Seq(Batch), NEW rest,
         NEW now, now \subseteq past,
         Outward(c, past, handled, q, rest)
  PROVE  Outward(c, now, handled, q, rest)
<1>1. \A U : Before(past \cup handled, U) => Before(now \cup handled, U)
  BY DEF Before
<1>2. Before(past, handled) => Before(now, handled)
  BY DEF Before
<1>3. QED  BY <1>1, <1>2 DEF Outward

(* A stream that breaks has all of its queue behind it. *)
LEMMA OutwardBreak ==
  ASSUME NEW c, NEW past, NEW q \in Seq(Batch), NEW rest,
         NEW now, now \subseteq past \cup AllElems(OfChannel(c, q)),
         Outward(c, past, {}, q, rest)
  PROVE  Outward(c, now, {}, <<>>, rest)
<1>1. Before(past \cup {}, rest)
  BY DEF Outward
<1>2. \A b \in OfChannel(c, q) : Before(Elems(b), rest)
  BY DEF OfChannel, ToSet, Outward
<1>3. Before(now \cup {}, rest) /\ Before(now, {})
  BY <1>1, <1>2 DEF Before, AllElems
<1>4. DOMAIN <<>> = {}
  OBVIOUS
<1>5. QED  BY <1>3, <1>4 DEF Outward

(* The rest grows by an element that comes after all. *)
LEMMA OutwardRest ==
  ASSUME NEW c, NEW past, NEW handled, NEW q \in Seq(Batch), NEW rest, NEW more, NEW e,
         more \subseteq rest \cup {e},
         Before(past \cup handled \cup AllElems(OfChannel(c, q)), {e}),
         Outward(c, past, handled, q, rest)
  PROVE  Outward(c, past, handled, q, more)
<1>1. \A S : Before(S, rest) /\ Before(S, {e}) => Before(S, more)
  BY DEF Before
<1>2. Before(past \cup handled, {e})
  BY DEF Before
<1>3. ASSUME NEW k \in DOMAIN q, q[k].channel = c
      PROVE  Before(Elems(q[k]), {e})
  <2>1. q[k] \in OfChannel(c, q)
    BY <1>3 DEF OfChannel, ToSet
  <2>2. Elems(q[k]) \subseteq AllElems(OfChannel(c, q))
    BY <2>1 DEF AllElems
  <2>3. QED  BY <2>2 DEF Before
<1>4. QED  BY <1>1, <1>2, <1>3 DEF Outward

(* The subscriber's channel stays in order when it gets a later batch, and *)
(* when its first batch is received.                                       *)
LEMMA InwardPut ==
  ASSUME NEW a \in Seq(Nat), NEW q \in Seq(Batch), NEW b \in Batch,
         Before(ToSet(a) \cup AllElems(ToSet(q)), Elems(b)), Inward(a, q)
  PROVE  Inward(a, Append(q, b))
<1> DEFINE p == Append(q, b)
<1>1. /\ DOMAIN q = 1..Len(q) /\ Len(q) \in Nat /\ DOMAIN p = 1..(Len(q) + 1)
      /\ p[Len(q) + 1] = b
      /\ \A k \in DOMAIN q : p[k] = q[k]
      /\ \A k \in DOMAIN p : k \in DOMAIN q \/ k = Len(q) + 1
      /\ \A k, m \in DOMAIN p : k < m => k \in DOMAIN q
  OBVIOUS
<1> HIDE DEF p
<1>2. Before(ToSet(a), Elems(b))
  BY DEF Before
<1>3. ASSUME NEW k \in DOMAIN q
      PROVE  Before(Elems(q[k]), Elems(b))
  <2>1. Elems(q[k]) \subseteq AllElems(ToSet(q))
    BY <1>3 DEF AllElems, ToSet
  <2>2. QED  BY <2>1 DEF Before
<1>4. \A k \in DOMAIN p : Before(ToSet(a), Elems(p[k]))
  BY <1>1, <1>2 DEF Inward
<1>5. ASSUME NEW k \in DOMAIN p, NEW m \in DOMAIN p, k < m
      PROVE  Before(Elems(p[k]), Elems(p[m]))
  <2>1. k \in DOMAIN q /\ p[k] = q[k]
    BY <1>1, <1>5
  <2>2. CASE m \in DOMAIN q
    BY <1>1, <1>5, <2>1, <2>2 DEF Inward
  <2>3. CASE m = Len(q) + 1
    BY <1>1, <1>3, <2>1, <2>3
  <2>4. QED  BY <1>1, <2>2, <2>3
<1>6. Inward(a, p)
  BY <1>4, <1>5 DEF Inward
<1>7. QED  BY <1>6 DEF p

LEMMA ToSetConcat ==
  ASSUME NEW a \in Seq(Nat), NEW b \in Seq(Nat)
  PROVE  ToSet(a \o b) = ToSet(a) \cup ToSet(b)
<1> DEFINE s == a \o b
<1>1. /\ DOMAIN s = 1..(Len(a) + Len(b)) /\ DOMAIN a = 1..Len(a) /\ DOMAIN b = 1..Len(b)
      /\ Len(a) \in Nat /\ Len(b) \in Nat
      /\ \A k \in DOMAIN a : k \in DOMAIN s /\ s[k] = a[k]
      /\ \A k \in DOMAIN b : k + Len(a) \in DOMAIN s /\ s[k + Len(a)] = b[k]
  OBVIOUS
<1>2. \A k \in DOMAIN s : k \in DOMAIN a \/ (k - Len(a) \in DOMAIN b /\ s[k] = b[k - Len(a)])
  BY <1>1
<1> HIDE DEF s
<1>3. \A x \in ToSet(s) : x \in ToSet(a) \cup ToSet(b)
  BY <1>1, <1>2 DEF ToSet
<1>4. \A x \in ToSet(a) \cup ToSet(b) : x \in ToSet(s)
  BY <1>1 DEF ToSet
<1>5. ToSet(s) = ToSet(a) \cup ToSet(b)
  BY <1>3, <1>4
<1>6. QED  BY <1>5 DEF s

LEMMA IncreasingConcat ==
  ASSUME NEW a \in Seq(Nat), NEW b \in Seq(Nat), Increasing(a), Increasing(b),
         Before(ToSet(a), ToSet(b))
  PROVE  Increasing(a \o b)
<1> DEFINE s == a \o b
<1>1. /\ DOMAIN s = 1..(Len(a) + Len(b)) /\ DOMAIN a = 1..Len(a) /\ DOMAIN b = 1..Len(b)
      /\ Len(a) \in Nat /\ Len(b) \in Nat
      /\ \A k \in DOMAIN a : s[k] = a[k]
  OBVIOUS
<1>2. \A k \in DOMAIN s : k \in DOMAIN a \/ (k > Len(a) /\ k - Len(a) \in DOMAIN b /\ s[k] = b[k - Len(a)])
  BY <1>1
<1>3. \A k, m \in DOMAIN s : k < m =>
        /\ m \in DOMAIN a => k \in DOMAIN a
        /\ k - Len(a) < m - Len(a)
  BY <1>1
<1> HIDE DEF s
<1>4. \A k \in DOMAIN a, m \in DOMAIN b : a[k] < b[m]
  BY DEF Before, ToSet
<1>5. ASSUME NEW k \in DOMAIN s, NEW m \in DOMAIN s, k < m
      PROVE  s[k] < s[m]
  <2>1. CASE m \in DOMAIN a
    <3>1. k \in DOMAIN a /\ s[k] = a[k] /\ s[m] = a[m]
      BY <1>1, <1>3, <1>5, <2>1
    <3>2. QED  BY <1>5, <2>1, <3>1 DEF Increasing
  <2>2. CASE k \in DOMAIN a /\ m \notin DOMAIN a
    <3>1. m - Len(a) \in DOMAIN b /\ s[m] = b[m - Len(a)] /\ s[k] = a[k]
      BY <1>1, <1>2, <2>2
    <3>2. QED  BY <1>4, <2>2, <3>1
  <2>3. CASE k \notin DOMAIN a
    <3>1. m \notin DOMAIN a
      BY <1>3, <1>5, <2>3
    <3>2. /\ k - Len(a) \in DOMAIN b /\ s[k] = b[k - Len(a)]
          /\ m - Len(a) \in DOMAIN b /\ s[m] = b[m - Len(a)]
      BY <1>2, <2>3, <3>1
    <3>3. k - Len(a) < m - Len(a)
      BY <1>3, <1>5
    <3>4. QED  BY <3>2, <3>3 DEF Increasing
  <2>4. QED  BY <2>1, <2>2, <2>3
<1>6. Increasing(s)
  BY <1>5 DEF Increasing
<1>7. QED  BY <1>6 DEF s

LEMMA InwardTake ==
  ASSUME NEW a \in Seq(Nat), NEW q \in Seq(Batch), q # <<>>, Inward(a, q),
         Increasing(Head(q).elems)
  PROVE  Inward(a, Tail(q)) /\ Inward(a \o Head(q).elems, Tail(q))
<1> DEFINE p == Tail(q)
<1> DEFINE b == Head(q)
<1>1. /\ DOMAIN q = 1..Len(q) /\ Len(q) \in Nat /\ DOMAIN p = 1..(Len(q) - 1) /\ 1 \in DOMAIN q
      /\ b = q[1] /\ b \in Batch
      /\ \A k \in DOMAIN p : p[k] = q[k + 1] /\ k + 1 \in DOMAIN q /\ 1 < k + 1
      /\ \A k, m \in DOMAIN p : k < m => k + 1 < m + 1
  OBVIOUS
<1> HIDE DEF p, b
<1>2. /\ Increasing(a)
      /\ \A k \in DOMAIN q : Before(ToSet(a), Elems(q[k]))
      /\ \A k, m \in DOMAIN q : k < m => Before(Elems(q[k]), Elems(q[m]))
  BY DEF Inward
<1>3. \A k \in DOMAIN p : Before(ToSet(a), Elems(p[k])) /\ Before(Elems(b), Elems(p[k]))
  BY <1>1, <1>2
<1>4. \A k, m \in DOMAIN p : k < m => Before(Elems(p[k]), Elems(p[m]))
  BY <1>1, <1>2
<1>5. Inward(a, p)
  BY <1>2, <1>3, <1>4 DEF Inward
<1>6. b.elems \in Seq(Nat)
  BY <1>1 DEF Batch
<1>7. Before(ToSet(a), ToSet(b.elems))
  BY <1>1, <1>2 DEF Elems
<1>8. Increasing(a \o b.elems)
  BY <1>2, <1>6, <1>7, IncreasingConcat DEF b
<1>9. ToSet(a \o b.elems) = ToSet(a) \cup Elems(b)
  BY <1>6, ToSetConcat DEF Elems
<1>10. \A k \in DOMAIN p : Before(ToSet(a \o b.elems), Elems(p[k]))
  BY <1>3, <1>9 DEF Before
<1>11. Inward(a \o b.elems, p)
  BY <1>4, <1>8, <1>10 DEF Inward
<1>12. QED  BY <1>5, <1>11 DEF p, b

LEMMA IncreasingAppend ==
  ASSUME NEW s \in Seq(Nat), NEW e \in Nat, Increasing(s), Before(ToSet(s), {e})
  PROVE  Increasing(Append(s, e)) /\ ToSet(Append(s, e)) = ToSet(s) \cup {e}
<1> DEFINE t == Append(s, e)
<1>1. /\ DOMAIN s = 1..Len(s) /\ Len(s) \in Nat /\ DOMAIN t = 1..(Len(s) + 1)
      /\ t[Len(s) + 1] = e
      /\ \A k \in DOMAIN s : t[k] = s[k]
      /\ \A k \in DOMAIN t : k \in DOMAIN s \/ k = Len(s) + 1
      /\ \A k, m \in DOMAIN t : k < m => k \in DOMAIN s
      /\ Len(s) + 1 \in DOMAIN t
  OBVIOUS
<1> HIDE DEF t
<1>2. \A k \in DOMAIN s : s[k] < e
  BY DEF Before, ToSet
<1>3. Increasing(t)
  BY <1>1, <1>2 DEF Increasing
<1>4. ToSet(t) = ToSet(s) \cup {e}
  BY <1>1 DEF ToSet
<1>5. QED  BY <1>3, <1>4 DEF t

(* What was collected stays as it was. *)
LEMMA FitsMore ==
  ASSUME NEW kinds \in Seq(Kinds), NEW kind \in Kinds, NEW b, Fits(b, kinds)
  PROVE  Fits(b, Append(kinds, kind))
<1> DEFINE more == Append(kinds, kind)
<1>1. \A e \in DOMAIN kinds : e \in DOMAIN more /\ more[e] = kinds[e]
  OBVIOUS
<1> HIDE DEF more
<1>2. Fits(b, more)
  BY <1>1 DEF Fits
<1>3. QED  BY <1>2 DEF more

-----------------------------------------------------------------------------
CreditsFor(c, x) == IF x.channel = c THEN x.credits ELSE 0

LEMMA CreditsOfTyped ==
  ASSUME NEW c, NEW g \in Seq(CreditGrants)
  PROVE  /\ CreditsOf(c, g) \in Seq(Nat)
         /\ Len(CreditsOf(c, g)) = Len(g)
         /\ \A k \in 1..Len(g) : CreditsOf(c, g)[k] = CreditsFor(c, g[k])
<1>1. /\ Len(g) \in Nat /\ DOMAIN g = 1..Len(g)
      /\ \A k \in 1..Len(g) : g[k].credits \in Nat
  <2>1. Len(g) \in Nat /\ DOMAIN g = 1..Len(g) /\ \A k \in 1..Len(g) : g[k] \in CreditGrants
    OBVIOUS
  <2>2. \A x \in CreditGrants : x.credits \in Nat
    BY DEF CreditGrants
  <2>3. QED  BY <2>1, <2>2
<1> DEFINE w == [k \in 1..Len(g) |-> IF g[k].channel = c THEN g[k].credits ELSE 0]
<1>2. CreditsOf(c, g) = w
  BY <1>1 DEF CreditsOf
<1>3. \A k \in 1..Len(g) : w[k] = CreditsFor(c, g[k]) /\ w[k] \in Nat
  BY <1>1 DEF CreditsFor
<1>4. w \in [1..Len(g) -> Nat]
  BY <1>3
<1>5. w \in Seq(Nat) /\ Len(w) = Len(g)
  BY <1>1, <1>4
<1>6. QED  BY <1>2, <1>3, <1>5

(* Credits are on their way once they are granted, until they are handed   *)
(* to the collector.                                                       *)
LEMMA CreditsPut ==
  ASSUME NEW c, NEW g \in Seq(CreditGrants), NEW x \in CreditGrants
  PROVE  Total(CreditsOf(c, Append(g, x))) = Total(CreditsOf(c, g)) + CreditsFor(c, x)
<1> DEFINE p == Append(g, x)
<1> DEFINE w == CreditsOf(c, g)
<1>1. /\ p \in Seq(CreditGrants) /\ Len(g) \in Nat /\ Len(p) = Len(g) + 1 /\ p[Len(g) + 1] = x
      /\ \A k \in 1..Len(g) : p[k] = g[k]
      /\ \A k \in 1..Len(p) : k \in 1..Len(g) \/ k = Len(g) + 1
      /\ \A k \in 1..Len(g) : k \in 1..Len(p)
  OBVIOUS
<1> HIDE DEF p
<1>2. CreditsFor(c, x) \in Nat
  BY DEF CreditsFor, CreditGrants
<1>3. w \in Seq(Nat) /\ Len(w) = Len(g) /\ \A k \in 1..Len(g) : w[k] = CreditsFor(c, g[k])
  BY CreditsOfTyped
<1>4. /\ CreditsOf(c, p) \in Seq(Nat) /\ Len(CreditsOf(c, p)) = Len(p)
      /\ \A k \in 1..Len(p) : CreditsOf(c, p)[k] = CreditsFor(c, p[k])
  BY <1>1, CreditsOfTyped
<1> HIDE DEF w
<1>5. CreditsOf(c, p) = Append(w, CreditsFor(c, x))
  BY <1>1, <1>2, <1>3, <1>4
<1>6. Total(CreditsOf(c, p)) = Total(w) + CreditsFor(c, x)
  BY <1>2, <1>3, <1>5, TotalAppend
<1>7. QED  BY <1>6 DEF p, w

LEMMA CreditsTake ==
  ASSUME NEW c, NEW g \in Seq(CreditGrants), g # <<>>
  PROVE  /\ Total(CreditsOf(c, g)) = CreditsFor(c, Head(g)) + Total(CreditsOf(c, Tail(g)))
         /\ Total(CreditsOf(c, Tail(g))) \in Nat
         /\ CreditsFor(c, Head(g)) \in Nat
<1> DEFINE p == Tail(g)
<1> DEFINE w == CreditsOf(c, g)
<1>1. /\ p \in Seq(CreditGrants) /\ Len(g) \in Nat /\ Len(p) = Len(g) - 1 /\ Len(p) \in Nat
      /\ Head(g) = g[1] /\ Head(g) \in CreditGrants
      /\ 1 \in 1..Len(g)
      /\ \A k \in 1..Len(p) : p[k] = g[k + 1] /\ k + 1 \in 1..Len(g)
  OBVIOUS
<1> HIDE DEF p
<1>2. CreditsFor(c, Head(g)) \in Nat
  BY <1>1 DEF CreditsFor, CreditGrants
<1>3. w \in Seq(Nat) /\ Len(w) = Len(g) /\ \A k \in 1..Len(g) : w[k] = CreditsFor(c, g[k])
  BY CreditsOfTyped
<1>4. /\ CreditsOf(c, p) \in Seq(Nat) /\ Len(CreditsOf(c, p)) = Len(p)
      /\ \A k \in 1..Len(p) : CreditsOf(c, p)[k] = CreditsFor(c, p[k])
  BY <1>1, CreditsOfTyped
<1> HIDE DEF w
<1>5. w # <<>> /\ Head(w) = CreditsFor(c, Head(g))
  BY <1>1, <1>3
<1>6. /\ Tail(w) \in Seq(Nat) /\ Len(Tail(w)) = Len(p)
      /\ \A k \in 1..Len(p) : Tail(w)[k] = w[k + 1]
  BY <1>1, <1>3, <1>5
<1>7. \A k \in 1..Len(p) : Tail(w)[k] = CreditsOf(c, p)[k]
  BY <1>1, <1>3, <1>4, <1>6
<1>8. Tail(w) = CreditsOf(c, p)
  BY <1>4, <1>6, <1>7, SeqEqual
<1>9. Total(w) = Head(w) + Total(Tail(w))
  BY <1>3, <1>5, TotalTail
<1>10. Total(CreditsOf(c, p)) \in Nat
  BY <1>4, TotalType
<1>11. QED  BY <1>2, <1>5, <1>8, <1>9, <1>10 DEF p, w

-----------------------------------------------------------------------------
(* Where the elements are. *)
cargo == <<collected, buffer, failed, outbound, handler, inbox, arrived, dropped>>

SamePlaces(c) ==
  /\ Handled(c)' = Handled(c)
  /\ Unrouted(c)' = Unrouted(c)
  /\ Routed(c)' = Routed(c)
  /\ Past(c)' = Past(c)
  /\ Known(c)' = Known(c)
  /\ Spent(c)' = Spent(c)
  /\ Barriers(c)' = Barriers(c)

LEMMA SameCargo ==
  ASSUME UNCHANGED cargo, NEW c \in Channels
  PROVE  SamePlaces(c)
<1>1. Handled(c)' = Handled(c)
  BY DEF cargo, Handled
<1>2. InFlight(c)' = InFlight(c)
  BY <1>1 DEF cargo, InFlight
<1>3. Unrouted(c)' = Unrouted(c)
  BY <1>2 DEF cargo, Unrouted
<1>4. Routed(c)' = Routed(c)
  BY DEF cargo, Routed
<1>5. Past(c)' = Past(c)
  BY <1>4 DEF cargo, Past
<1>6. Known(c)' = Known(c)
  BY <1>3, <1>4 DEF cargo, Known
<1>7. Spent(c)' = Spent(c)
  BY <1>3 DEF Spent
<1>8. Barriers(c)' = Barriers(c)
  BY <1>4 DEF cargo, Barriers
<1>9. QED  BY <1>1, <1>3, <1>4, <1>5, <1>6, <1>7, <1>8 DEF SamePlaces

Placed == BatchInv /\ BufferInv /\ ArrivalInv /\ OrderInv /\ GapInv /\ FiniteInv

LEMMA CargoKeeps ==
  ASSUME ExchangeInv, UNCHANGED cargo
  PROVE  Placed'
<1>1. BatchInv'
  BY DEF ExchangeInv, BatchInv, cargo
<1>2. BufferInv'
  BY DEF ExchangeInv, BufferInv, cargo
<1>3. ArrivalInv'
  BY DEF ExchangeInv, ArrivalInv, cargo
<1>4. OrderInv'
  <2>1. ASSUME NEW c \in Channels
        PROVE  Outward(c, Past(c), AllElems(Handled(c)), outbound[ConnOf[c]], ToSet(buffer[c]))'
    <3>1. Past(c)' = Past(c) /\ Handled(c)' = Handled(c)
      BY SameCargo DEF SamePlaces
    <3>2. Outward(c, Past(c), AllElems(Handled(c)), outbound[ConnOf[c]], ToSet(buffer[c]))
      BY DEF ExchangeInv, OrderInv
    <3>3. QED  BY <3>1, <3>2 DEF cargo
  <2>2. QED  BY <2>1 DEF OrderInv
<1>5. GapInv'
  BY SameCargo DEF ExchangeInv, GapInv, cargo, SamePlaces
<1>6. FiniteInv'
  BY SameCargo DEF ExchangeInv, FiniteInv, SamePlaces
<1>7. QED  BY <1>1, <1>2, <1>3, <1>4, <1>5, <1>6 DEF Placed

(* Credits that are made and earned together stay balanced, on a stream    *)
(* that did not break in the step.                                         *)
Settled(c) ==
  /\ Ledger(c) <= Entitled(c)
  /\ link[ConnOf[c]] # "broken" => Ledger(c) = Entitled(c)

SameLink == \A n \in Connections : link'[n] = "broken" <=> link[n] = "broken"

LEMMA CreditSame ==
  ASSUME ExchangeInv, UNCHANGED <<cargo, credits, granting, grants, seen>>, SameLink
  PROVE  GrantInv' /\ CreditConservation'
<1>1. GrantInv'
  BY DEF ExchangeInv, GrantInv, Homeward
<1>2. ASSUME NEW c \in Channels
      PROVE  Ledger(c)' = Ledger(c) /\ Entitled(c)' = Entitled(c)
  <2>1. Spent(c)' = Spent(c) /\ Barriers(c)' = Barriers(c)
    BY SameCargo DEF SamePlaces
  <2>2. Granted(c)' = Granted(c)
    BY DEF Granted, Carried
  <2>3. Owed(c)' = Owed(c)
    BY DEF Owed, cargo
  <2>4. QED  BY <2>1, <2>2, <2>3 DEF Ledger, Entitled
<1>3. \A c \in Channels : link'[ConnOf[c]] = "broken" <=> link[ConnOf[c]] = "broken"
  BY ExchangeAssumption DEF SameLink
<1>4. CreditConservation'
  BY <1>2, <1>3 DEF ExchangeInv, CreditConservation, cargo
<1>5. QED  BY <1>1, <1>4

LEMMA OpenExchangeKeeps ==
  ASSUME ExchangeInv, NEW n \in Connections, OpenExchange(n)
  PROVE  ExchangeInv'
<1>1. UNCHANGED <<cargo, credits, granting, grants, seen>>
  BY DEF OpenExchange, cargo, sender, router, receiver, returning
<1>2. ExchangeTypeOK'
  BY DEF OpenExchange, sender, router, receiver, returning, ExchangeInv, ExchangeTypeOK
<1>3. SameLink
  BY DEF OpenExchange, SameLink, ExchangeInv, ExchangeTypeOK
<1>4. QED  BY <1>1, <1>2, <1>3, CargoKeeps, CreditSame DEF ExchangeInv, Placed

LEMMA SubscribeKeeps ==
  ASSUME ExchangeInv, NEW c \in Channels, Subscribe(c) \/ Unsubscribe(c)
  PROVE  ExchangeInv'
<1>1. UNCHANGED <<cargo, credits, granting, grants, seen, link>>
  BY DEF Subscribe, Unsubscribe, cargo, sender, stream, returning, receiver
<1>2. ExchangeTypeOK'
  BY DEF Subscribe, Unsubscribe, sender, stream, returning, receiver, ExchangeInv, ExchangeTypeOK
<1>3. SameLink
  BY <1>1 DEF SameLink
<1>4. QED  BY <1>1, <1>2, <1>3, CargoKeeps, CreditSame DEF ExchangeInv, Placed

(* Only collected elements are anywhere, so the ledger counts finite sets. *)
LEMMA RoutedCollected ==
  ASSUME ExchangeInv, NEW c \in Channels
  PROVE  /\ Routed(c) \subseteq DOMAIN collected[c]
         /\ AllElems(Unrouted(c)) \subseteq DOMAIN collected[c]
         /\ ToSet(buffer[c]) \subseteq DOMAIN collected[c]
         /\ Known(c) \subseteq DOMAIN collected[c]
         /\ \A b \in Unrouted(c) : b.channel = c /\ Fits(b, collected[c]) /\ b \in Batch
<1>1. \A b : Fits(b, collected[c]) => Elems(b) \subseteq DOMAIN collected[c]
  BY DEF Fits
<1>2. ConnOf[c] \in Connections
  BY ExchangeAssumption
<1>3. ASSUME NEW b \in Unrouted(c)
      PROVE  b.channel = c /\ Fits(b, collected[c]) /\ b \in Batch
  <2>1. CASE b \in Handled(c)
    <3>1. handler[ConnOf[c]] # Idle /\ b = handler[ConnOf[c]].batch /\ b.channel = c
      BY <2>1 DEF Handled, Idle
    <3>2. Fits(b, collected[c])
      BY <1>2, <3>1 DEF ExchangeInv, BatchInv
    <3>3. handler[ConnOf[c]] \in Handling
      BY <1>2, <3>1 DEF ExchangeInv, ExchangeTypeOK
    <3>4. QED  BY <3>1, <3>2, <3>3 DEF Handling
  <2>2. CASE b \in OfChannel(c, outbound[ConnOf[c]])
    <3>1. b.channel = c /\ \E k \in DOMAIN outbound[ConnOf[c]] : b = outbound[ConnOf[c]][k]
      BY <2>2 DEF OfChannel, ToSet
    <3>2. outbound[ConnOf[c]] \in Seq(Batch)
      BY <1>2 DEF ExchangeInv, ExchangeTypeOK
    <3>3. b \in Batch
      BY <3>1, <3>2
    <3>4. QED  BY <1>2, <3>1, <3>3 DEF ExchangeInv, BatchInv
  <2>3. CASE b \in dropped[c]
    BY <2>3 DEF ExchangeInv, BatchInv, ExchangeTypeOK
  <2>4. QED  BY <1>3, <2>1, <2>2, <2>3 DEF Unrouted, InFlight
<1>4. AllElems(Unrouted(c)) \subseteq DOMAIN collected[c]
  BY <1>1, <1>3 DEF AllElems
<1>5. AllElems(ToSet(inbox[c])) \subseteq DOMAIN collected[c]
  BY <1>1 DEF AllElems, ToSet, ExchangeInv, BatchInv
<1>6. ToSet(arrived[c]) \subseteq DOMAIN collected[c]
  BY DEF ExchangeInv, ArrivalInv
<1>7. ToSet(buffer[c]) \subseteq DOMAIN collected[c]
  BY DEF ExchangeInv, BufferInv
<1>8. QED  BY <1>3, <1>4, <1>5, <1>6, <1>7 DEF Routed, Known

LEMMA SpentFinite ==
  ASSUME ExchangeInv, NEW c \in Channels
  PROVE  IsFiniteSet(Spent(c)) /\ IsFiniteSet(Barriers(c))
<1>1. IsFiniteSet(Spent(c))
  <2>1. IsFiniteSet(Unrouted(c)) /\ Spent(c) \in SUBSET Unrouted(c)
    BY DEF ExchangeInv, FiniteInv, Spent
  <2>2. QED  BY <2>1, FS_Subset
<1>2. IsFiniteSet(Barriers(c))
  <2>1. Len(collected[c]) \in Nat /\ DOMAIN collected[c] = 1..Len(collected[c])
    BY DEF ExchangeInv, ExchangeTypeOK
  <2>2. Barriers(c) \in SUBSET (1..Len(collected[c]))
    BY <2>1, RoutedCollected DEF Barriers
  <2>3. IsFiniteSet(1..Len(collected[c]))
    BY <2>1, FS_Interval
  <2>4. QED  BY <2>2, <2>3, FS_Subset
<1>3. QED  BY <1>1, <1>2

(* A step of the stream that leaves every batch in flight. *)
LEMMA FlightSame ==
  ASSUME NEW c \in Channels, InFlight(c)' = InFlight(c),
         UNCHANGED <<collected, buffer, inbox, arrived, dropped>>
  PROVE  /\ Unrouted(c)' = Unrouted(c) /\ Routed(c)' = Routed(c) /\ Past(c)' = Past(c)
         /\ Known(c)' = Known(c) /\ Spent(c)' = Spent(c) /\ Barriers(c)' = Barriers(c)
<1>1. Unrouted(c)' = Unrouted(c)
  BY DEF Unrouted
<1>2. Routed(c)' = Routed(c)
  BY DEF Routed
<1>3. Past(c)' = Past(c)
  BY <1>2 DEF Past
<1>4. Known(c)' = Known(c)
  BY <1>1, <1>2 DEF Known
<1>5. Spent(c)' = Spent(c)
  BY <1>1 DEF Spent
<1>6. Barriers(c)' = Barriers(c)
  BY <1>2 DEF Barriers
<1>7. QED  BY <1>1, <1>2, <1>3, <1>4, <1>5, <1>6

LEMMA FlightKeeps ==
  ASSUME ExchangeInv, \A c \in Channels : InFlight(c)' = InFlight(c),
         UNCHANGED <<collected, buffer, failed, inbox, arrived, dropped>>
  PROVE  BufferInv' /\ ArrivalInv' /\ GapInv' /\ FiniteInv'
<1>1. BufferInv'
  BY DEF ExchangeInv, BufferInv
<1>2. ArrivalInv'
  BY DEF ExchangeInv, ArrivalInv
<1>3. GapInv'
  BY FlightSame DEF ExchangeInv, GapInv
<1>4. FiniteInv'
  BY FlightSame DEF ExchangeInv, FiniteInv
<1>5. QED  BY <1>1, <1>2, <1>3, <1>4

LEMMA CarriedType ==
  ASSUME NEW ways \in [Connections -> Seq(CreditGrants)], NEW c \in Channels
  PROVE  Carried(c, ways) \in Nat
<1>1. ways[ConnOf[c]] \in Seq(CreditGrants)
  BY ExchangeAssumption
<1>2. QED  BY <1>1, CreditsOfTyped, TotalType DEF Carried

Puts(ways, n, x, more) ==
  /\ more \in [Connections -> Seq(CreditGrants)]
  /\ Homeward(more)
  /\ Len(more[n]) = Len(ways[n]) + 1
  /\ \A m \in Connections : m # n => more[m] = ways[m]
  /\ \A c \in Channels : Carried(c, more) = Carried(c, ways) + CreditsFor(c, x)

(* A grant that is put on a way back is carried there. *)
LEMMA CarriedPut ==
  ASSUME NEW ways \in [Connections -> Seq(CreditGrants)], Homeward(ways), NEW n \in Connections,
         NEW x \in CreditGrants, ConnOf[x.channel] = n,
         NEW more, more = [ways EXCEPT ![n] = Append(ways[n], x)]
  PROVE  Puts(ways, n, x, more)
<1>1. PICK g : g = ways[n]
  OBVIOUS
<1>2. g \in Seq(CreditGrants)
  BY <1>1
<1>3. PICK p : p = Append(g, x)
  OBVIOUS
<1>4. /\ p \in Seq(CreditGrants) /\ Len(p) = Len(g) + 1
      /\ DOMAIN p = 1..(Len(g) + 1) /\ DOMAIN g = 1..Len(g) /\ Len(g) \in Nat
      /\ \A k \in DOMAIN p : (k \in DOMAIN g /\ p[k] = g[k]) \/ p[k] = x
  BY <1>2, <1>3
<1>5. more = [ways EXCEPT ![n] = p]
  BY <1>1, <1>3
<1>6. more \in [Connections -> Seq(CreditGrants)] /\ more[n] = p
      /\ \A m \in Connections : m # n => more[m] = ways[m]
  BY <1>4, <1>5
<1>7. Homeward(more)
  <2>1. ASSUME NEW m \in Connections, NEW k \in DOMAIN more[m]
        PROVE  ConnOf[more[m][k].channel] = m
    <3>1. CASE m = n
      BY <1>1, <1>4, <1>6, <2>1, <3>1 DEF Homeward
    <3>2. CASE m # n
      BY <1>6, <2>1, <3>2 DEF Homeward
    <3>3. QED  BY <3>1, <3>2
  <2>2. QED  BY <2>1 DEF Homeward
<1>8. ASSUME NEW c \in Channels
      PROVE  Carried(c, more) = Carried(c, ways) + CreditsFor(c, x)
  <2>1. CASE ConnOf[c] = n
    <3>1. Total(CreditsOf(c, p)) = Total(CreditsOf(c, g)) + CreditsFor(c, x)
      BY <1>2, <1>3, CreditsPut
    <3>2. QED  BY <1>1, <1>6, <2>1, <3>1 DEF Carried
  <2>2. CASE ConnOf[c] # n
    <3>1. Carried(c, more) = Carried(c, ways)
      BY <1>6, <2>2, ExchangeAssumption DEF Carried
    <3>2. CreditsFor(c, x) = 0
      BY <2>2 DEF CreditsFor
    <3>3. QED  BY <3>1, <3>2, CarriedType
  <2>3. QED  BY <2>1, <2>2
<1>9. QED  BY <1>1, <1>4, <1>6, <1>7, <1>8 DEF Puts

Takes(ways, n, x, rest) ==
  /\ rest \in [Connections -> Seq(CreditGrants)]
  /\ Homeward(rest)
  /\ x \in CreditGrants /\ x.channel \in Channels /\ x.credits \in Nat
  /\ ConnOf[x.channel] = n
  /\ Len(rest[n]) < Len(ways[n])
  /\ \A m \in Connections : m # n => rest[m] = ways[m]
  /\ \A c \in Channels : Carried(c, ways) = CreditsFor(c, x) + Carried(c, rest)

(* A grant that is taken from a way back is carried there no more. *)
LEMMA CarriedTake ==
  ASSUME NEW ways \in [Connections -> Seq(CreditGrants)], Homeward(ways), NEW n \in Connections,
         ways[n] # <<>>, NEW x, x = Head(ways[n]),
         NEW rest, rest = [ways EXCEPT ![n] = Tail(ways[n])]
  PROVE  Takes(ways, n, x, rest)
<1>1. PICK g : g = ways[n]
  OBVIOUS
<1>2. g \in Seq(CreditGrants) /\ g # <<>> /\ x = Head(g)
  BY <1>1
<1>3. PICK p : p = Tail(g)
  OBVIOUS
<1>4. /\ p \in Seq(CreditGrants) /\ Len(p) = Len(g) - 1 /\ Len(g) \in Nat
      /\ x = g[1] /\ 1 \in DOMAIN g /\ x \in CreditGrants
      /\ \A k \in DOMAIN p : p[k] = g[k + 1] /\ k + 1 \in DOMAIN g
  BY <1>2, <1>3
<1>5. rest = [ways EXCEPT ![n] = p]
  BY <1>1, <1>3
<1>6. rest \in [Connections -> Seq(CreditGrants)] /\ rest[n] = p
      /\ \A m \in Connections : m # n => rest[m] = ways[m]
  BY <1>4, <1>5
<1>7. x.channel \in Channels /\ x.credits \in Nat
  BY <1>4 DEF CreditGrants
<1>8. ConnOf[x.channel] = n
  BY <1>1, <1>4 DEF Homeward
<1>9. Homeward(rest)
  <2>1. ASSUME NEW m \in Connections, NEW k \in DOMAIN rest[m]
        PROVE  ConnOf[rest[m][k].channel] = m
    <3>1. CASE m = n
      BY <1>1, <1>4, <1>6, <2>1, <3>1 DEF Homeward
    <3>2. CASE m # n
      BY <1>6, <2>1, <3>2 DEF Homeward
    <3>3. QED  BY <3>1, <3>2
  <2>2. QED  BY <2>1 DEF Homeward
<1>10. ASSUME NEW c \in Channels
       PROVE  Carried(c, ways) = CreditsFor(c, x) + Carried(c, rest)
  <2>1. CASE ConnOf[c] = n
    <3>1. Total(CreditsOf(c, g)) = CreditsFor(c, x) + Total(CreditsOf(c, p))
      BY <1>2, <1>3, CreditsTake
    <3>2. QED  BY <1>1, <1>6, <2>1, <3>1 DEF Carried
  <2>2. CASE ConnOf[c] # n
    <3>1. Carried(c, rest) = Carried(c, ways)
      BY <1>6, <2>2, ExchangeAssumption DEF Carried
    <3>2. CreditsFor(c, x) = 0
      BY <1>8, <2>2 DEF CreditsFor
    <3>3. QED  BY <3>1, <3>2, CarriedType
  <2>3. QED  BY <2>1, <2>2
<1>11. Len(rest[n]) < Len(ways[n])
  BY <1>1, <1>4, <1>6
<1>12. QED  BY <1>4, <1>6, <1>7, <1>8, <1>9, <1>10, <1>11 DEF Takes

LEMMA LedgerType ==
  ASSUME ExchangeInv, NEW c \in Channels
  PROVE  /\ credits[c] \in Nat /\ Granted(c) \in Nat /\ Owed(c) \in Nat
         /\ Carried(c, granting) \in Nat /\ Carried(c, grants) \in Nat
         /\ Cardinality(Spent(c)) \in Nat /\ Cardinality(Barriers(c)) \in Nat
         /\ Ledger(c) \in Nat /\ Entitled(c) \in Nat
<1>1. credits[c] \in Nat
  BY DEF ExchangeInv, ExchangeTypeOK
<1>2. Carried(c, granting) \in Nat /\ Carried(c, grants) \in Nat
  BY CarriedType DEF ExchangeInv, ExchangeTypeOK
<1>3. Granted(c) \in Nat
  BY <1>2 DEF Granted
<1>4. Owed(c) \in Nat
  BY ExchangeAssumption DEF Owed
<1>5. Cardinality(Spent(c)) \in Nat /\ Cardinality(Barriers(c)) \in Nat
  BY SpentFinite, FS_CardinalityType
<1>6. Ledger(c) \in Nat
  BY <1>1, <1>3, <1>4, <1>5 DEF Ledger
<1>7. Entitled(c) \in Nat
  BY <1>5, ExchangeAssumption DEF Entitled
<1>8. QED  BY <1>1, <1>2, <1>3, <1>4, <1>5, <1>6, <1>7

(* A grant the forwarder hands on is still on its way. *)
LEMMA ForwardGrantKeeps ==
  ASSUME ExchangeInv, NEW n \in Connections, ForwardGrant(n)
  PROVE  ExchangeInv'
<1>1. UNCHANGED cargo /\ UNCHANGED <<credits, link, seen, lock, subscribed>>
  BY DEF ForwardGrant, cargo, sender, stream, router, receiver
<1>2. PICK x : x = Head(granting[n])
  OBVIOUS
<1>3. /\ granting[n] # <<>> /\ Len(grants[n]) < GrantRoom
      /\ grants' = [grants EXCEPT ![n] = Append(grants[n], x)]
      /\ granting' = [granting EXCEPT ![n] = Tail(granting[n])]
  BY <1>2 DEF ForwardGrant
<1>4. ExchangeTypeOK
  BY DEF ExchangeInv
<1>5. /\ granting \in [Connections -> Seq(CreditGrants)] /\ Homeward(granting)
      /\ grants \in [Connections -> Seq(CreditGrants)] /\ Homeward(grants)
      /\ \A m \in Connections : Len(granting[m]) <= StreamRoom /\ Len(grants[m]) <= GrantRoom
  BY <1>4 DEF ExchangeTypeOK, ExchangeInv, GrantInv
<1>6. /\ granting' \in [Connections -> Seq(CreditGrants)]
      /\ Homeward(granting')
      /\ x \in CreditGrants /\ ConnOf[x.channel] = n
      /\ x.channel \in Channels /\ x.credits \in Nat
      /\ Len(granting'[n]) < Len(granting[n])
      /\ \A m \in Connections : m # n => granting'[m] = granting[m]
      /\ \A c \in Channels : Carried(c, granting) = CreditsFor(c, x) + Carried(c, granting')
  <2>1. Takes(granting, n, x, granting')
    BY <1>2, <1>3, <1>5, CarriedTake
  <2>2. QED  BY <2>1 DEF Takes
<1>7. /\ grants' \in [Connections -> Seq(CreditGrants)]
      /\ Homeward(grants')
      /\ Len(grants'[n]) = Len(grants[n]) + 1
      /\ \A m \in Connections : m # n => grants'[m] = grants[m]
      /\ \A c \in Channels : Carried(c, grants') = Carried(c, grants) + CreditsFor(c, x)
  <2>1. Puts(grants, n, x, grants')
    BY <1>3, <1>5, <1>6, CarriedPut
  <2>2. QED  BY <2>1 DEF Puts
<1>8. \A m \in Connections : Len(granting'[m]) <= StreamRoom /\ Len(grants'[m]) <= GrantRoom
  <2>1. Len(granting'[n]) \in Nat /\ Len(granting[n]) \in Nat /\ Len(grants[n]) \in Nat
    BY <1>5, <1>6
  <2>2. QED  BY <1>3, <1>5, <1>6, <1>7, <2>1, ExchangeAssumption
<1>9. ExchangeTypeOK'
  BY <1>1, <1>4, <1>6, <1>7, <1>8 DEF ExchangeTypeOK, cargo
<1>10. GrantInv'
  BY <1>6, <1>7 DEF GrantInv
<1>11. ASSUME NEW c \in Channels
       PROVE  Ledger(c)' = Ledger(c) /\ Entitled(c)' = Entitled(c)
  <2>1. Spent(c)' = Spent(c) /\ Barriers(c)' = Barriers(c)
    BY <1>1, SameCargo DEF SamePlaces
  <2>2. Carried(c, granting') \in Nat /\ Carried(c, grants) \in Nat /\ CreditsFor(c, x) \in Nat
    BY <1>5, <1>6, CarriedType DEF CreditsFor
  <2>3. Granted(c)' = Granted(c)
    BY <1>6, <1>7, <2>2 DEF Granted
  <2>4. Owed(c)' = Owed(c)
    BY <1>1 DEF Owed, cargo
  <2>5. QED  BY <1>1, <2>1, <2>3, <2>4 DEF Ledger, Entitled
<1>12. CreditConservation'
  BY <1>1, <1>11 DEF ExchangeInv, CreditConservation, cargo
<1>13. QED  BY <1>1, <1>9, <1>10, <1>12, CargoKeeps DEF ExchangeInv, Placed

(* A grant that reaches the collector is no longer on its way.             *)
LEMMA GrantCreditsKeeps ==
  ASSUME ExchangeInv, NEW n \in Connections, GrantCredits(n)
  PROVE  ExchangeInv'
<1>1. UNCHANGED cargo /\ UNCHANGED <<granting, link, seen, lock, subscribed>>
  BY DEF GrantCredits, cargo, stream, router, receiver
<1>2. PICK x : x = Head(grants[n])
  OBVIOUS
<1>3. /\ grants[n] # <<>>
      /\ credits' = [credits EXCEPT ![x.channel] = credits[x.channel] + x.credits]
      /\ grants' = [grants EXCEPT ![n] = Tail(grants[n])]
  BY <1>2 DEF GrantCredits
<1>4. ExchangeTypeOK
  BY DEF ExchangeInv
<1>5. /\ grants \in [Connections -> Seq(CreditGrants)] /\ Homeward(grants)
      /\ credits \in [Channels -> Nat]
      /\ \A m \in Connections : Len(grants[m]) <= GrantRoom
  BY <1>4 DEF ExchangeTypeOK, ExchangeInv, GrantInv
<1>6. /\ grants' \in [Connections -> Seq(CreditGrants)]
      /\ Homeward(grants')
      /\ x.channel \in Channels /\ x.credits \in Nat
      /\ Len(grants'[n]) < Len(grants[n])
      /\ \A m \in Connections : m # n => grants'[m] = grants[m]
      /\ \A c \in Channels : Carried(c, grants) = CreditsFor(c, x) + Carried(c, grants')
  <2>1. Takes(grants, n, x, grants')
    BY <1>2, <1>3, <1>5, CarriedTake
  <2>2. QED  BY <2>1 DEF Takes
<1>7. credits' \in [Channels -> Nat]
  BY <1>3, <1>5, <1>6
<1>8. \A m \in Connections : Len(grants'[m]) <= GrantRoom
  <2>1. Len(grants'[n]) \in Nat /\ Len(grants[n]) \in Nat /\ GrantRoom \in Nat
    BY <1>5, <1>6, ExchangeAssumption
  <2>2. Len(grants'[n]) <= GrantRoom
    <3>1. Len(grants'[n]) < Len(grants[n]) /\ Len(grants[n]) <= GrantRoom
      BY <1>5, <1>6
    <3>2. QED  BY <2>1, <3>1
  <2>3. QED  BY <1>5, <1>6, <2>2
<1>9. ExchangeTypeOK'
  BY <1>1, <1>4, <1>6, <1>7, <1>8 DEF ExchangeTypeOK, cargo
<1>10. GrantInv'
  BY <1>1, <1>6 DEF GrantInv, ExchangeInv
<1>11. ASSUME NEW c \in Channels
       PROVE  Ledger(c)' = Ledger(c) /\ Entitled(c)' = Entitled(c)
  <2>1. Spent(c)' = Spent(c) /\ Barriers(c)' = Barriers(c)
    BY <1>1, SameCargo DEF SamePlaces
  <2>2. credits'[c] = credits[c] + CreditsFor(c, x)
    <3>1. CASE x.channel = c
      BY <1>3, <1>5, <3>1 DEF CreditsFor
    <3>2. CASE x.channel # c
      BY <1>3, <1>5, <3>2 DEF CreditsFor
    <3>3. QED  BY <3>1, <3>2
  <2>3. /\ Carried(c, grants') \in Nat /\ Carried(c, granting) \in Nat
        /\ CreditsFor(c, x) \in Nat /\ credits[c] \in Nat
    BY <1>4, <1>5, <1>6, CarriedType DEF CreditsFor, ExchangeTypeOK
  <2>4. Granted(c) = Granted(c)' + CreditsFor(c, x) /\ Granted(c)' \in Nat
    BY <1>1, <1>6, <2>3 DEF Granted
  <2>5. Owed(c)' = Owed(c) /\ Owed(c) \in Nat
    BY <1>1, ExchangeAssumption DEF Owed, cargo
  <2>6. credits'[c] + (Granted(c)' + Owed(c)) = credits[c] + (Granted(c) + Owed(c))
    BY <2>2, <2>3, <2>4, <2>5
  <2>7. Ledger(c)' = Ledger(c)
    BY <2>1, <2>5, <2>6 DEF Ledger
  <2>8. QED  BY <1>1, <2>1, <2>7 DEF Entitled
<1>12. CreditConservation'
  BY <1>1, <1>11 DEF ExchangeInv, CreditConservation, cargo
<1>13. QED  BY <1>1, <1>9, <1>10, <1>12, CargoKeeps DEF ExchangeInv, Placed

(* The stream that breaks loses credits, and nothing but credits. *)
LEMMA BreakKeeps ==
  ASSUME ExchangeInv, NEW n \in Connections, Break(n)
  PROVE  ExchangeInv'
<1>1. UNCHANGED cargo /\ UNCHANGED <<credits, grants, seen, lock, subscribed>>
  BY DEF Break, cargo, sender, router, receiver
<1>2. /\ link' = [link EXCEPT ![n] = "broken"]
      /\ granting' = [granting EXCEPT ![n] = <<>>]
  BY DEF Break
<1>3. ExchangeTypeOK
  BY DEF ExchangeInv
<1>4. /\ granting \in [Connections -> Seq(CreditGrants)] /\ Homeward(granting)
      /\ link \in [Connections -> {"new", "open", "broken"}]
      /\ \A m \in Connections : Len(granting[m]) <= StreamRoom
  BY <1>3 DEF ExchangeTypeOK, ExchangeInv, GrantInv
<1>5. <<>> \in Seq(CreditGrants) /\ DOMAIN <<>> = {} /\ Len(<<>>) = 0
  OBVIOUS
<1>6. granting' \in [Connections -> Seq(CreditGrants)]
      /\ link' \in [Connections -> {"new", "open", "broken"}]
  BY <1>2, <1>4, <1>5
<1>7. /\ granting'[n] = <<>> /\ link'[n] = "broken"
      /\ \A m \in Connections : m # n => granting'[m] = granting[m] /\ link'[m] = link[m]
  BY <1>2, <1>4
<1>8. Homeward(granting')
  BY <1>4, <1>5, <1>7 DEF Homeward
<1>9. \A m \in Connections : Len(granting'[m]) <= StreamRoom
  BY <1>4, <1>5, <1>7, ExchangeAssumption
<1>10. ExchangeTypeOK'
  BY <1>1, <1>3, <1>6, <1>9 DEF ExchangeTypeOK, cargo
<1>11. GrantInv'
  BY <1>1, <1>8 DEF GrantInv, ExchangeInv
<1>12. ASSUME NEW c \in Channels, ~failed[c]
       PROVE  Settled(c)'
  <2>1. Spent(c)' = Spent(c) /\ Barriers(c)' = Barriers(c) /\ Owed(c)' = Owed(c)
    BY <1>1, SameCargo DEF SamePlaces, Owed, cargo
  <2>2. Entitled(c)' = Entitled(c)
    BY <1>1, <2>1 DEF Entitled
  <2>3. Settled(c) /\ ConnOf[c] \in Connections
    BY <1>12, ExchangeAssumption DEF ExchangeInv, CreditConservation, Settled
  <2>4. CASE ConnOf[c] = n
    <3>1. Carried(c, granting') = 0
      <4>1. CreditsOf(c, <<>>) = <<>>
        BY <1>5 DEF CreditsOf
      <4>2. <<>> \in Seq(Nat) /\ Len(<<>>) = 0
        OBVIOUS
      <4>3. Total(<<>>) = 0
        BY <4>2, TotalEmpty
      <4>4. QED  BY <1>7, <2>4, <4>1, <4>3 DEF Carried
    <3>2. /\ credits[c] \in Nat /\ Owed(c) \in Nat /\ Cardinality(Spent(c)) \in Nat
          /\ Carried(c, granting) \in Nat /\ Carried(c, grants) \in Nat
          /\ Entitled(c) \in Nat
      BY LedgerType
    <3>3. Granted(c)' = Carried(c, grants) /\ Granted(c) = Carried(c, granting) + Carried(c, grants)
      BY <1>1, <3>1, <3>2 DEF Granted
    <3>4. credits[c] + (Carried(c, granting) + Carried(c, grants) + Owed(c)) + Cardinality(Spent(c))
          <= Entitled(c)
      BY <2>3, <3>3 DEF Settled, Ledger
    <3>5. credits[c] + (Carried(c, grants) + Owed(c)) + Cardinality(Spent(c)) <= Entitled(c)
      BY <3>2, <3>4
    <3>6. Ledger(c)' = credits[c] + (Carried(c, grants) + Owed(c)) + Cardinality(Spent(c))
      BY <1>1, <2>1, <3>3 DEF Ledger
    <3>7. QED  BY <1>7, <2>2, <2>4, <3>5, <3>6 DEF Settled
  <2>5. CASE ConnOf[c] # n
    <3>1. Granted(c)' = Granted(c)
      BY <1>1, <1>7, <2>3, <2>5 DEF Granted, Carried
    <3>2. Ledger(c)' = Ledger(c)
      BY <1>1, <2>1, <3>1 DEF Ledger
    <3>3. link'[ConnOf[c]] = link[ConnOf[c]]
      BY <1>7, <2>3, <2>5
    <3>4. QED  BY <2>2, <2>3, <3>2, <3>3 DEF Settled
  <2>6. QED  BY <2>4, <2>5
<1>13. CreditConservation'
  BY <1>1, <1>12 DEF CreditConservation, Settled, cargo
<1>14. QED  BY <1>1, <1>10, <1>11, <1>13, CargoKeeps DEF ExchangeInv, Placed

(* The handler takes the first batch of its stream: the batch stays before *)
(* what is queued, and its channel gets the initial credits once.          *)
LEMMA NextBatchKeeps ==
  ASSUME ExchangeInv, NEW n \in Connections, NextBatch(n)
  PROVE  ExchangeInv'
<1>1. /\ UNCHANGED <<collected, buffer, failed, inbox, arrived, dropped, credits, link, lock>>
      /\ UNCHANGED <<subscribed, granting, grants>>
  BY DEF NextBatch, sender, router, receiver, returning
<1>2. PICK q : q = outbound[n]
  OBVIOUS
<1>3. PICK b : b = Head(q)
  OBVIOUS
<1>4. PICK h : h = [at |-> IF b.channel \in seen[n] THEN "route" ELSE "first", batch |-> b]
  OBVIOUS
<1>5. /\ q # <<>> /\ handler[n] = Idle
      /\ handler' = [handler EXCEPT ![n] = h]
      /\ outbound' = [outbound EXCEPT ![n] = Tail(q)]
      /\ seen' = [seen EXCEPT ![n] = seen[n] \cup {b.channel}]
  BY <1>2, <1>3, <1>4 DEF NextBatch
<1>6. ExchangeTypeOK
  BY DEF ExchangeInv
<1>7. /\ q \in Seq(Batch) /\ Len(q) <= OutBuffer
      /\ outbound \in [Connections -> Seq(Batch)]
      /\ handler \in [Connections -> {Idle} \cup Handling]
      /\ seen \in [Connections -> SUBSET Channels]
  BY <1>2, <1>6 DEF ExchangeTypeOK
<1>8. /\ b \in Batch /\ Tail(q) \in Seq(Batch) /\ Len(Tail(q)) <= Len(q)
      /\ b = q[1] /\ 1 \in DOMAIN q
  BY <1>3, <1>5, <1>7
<1>9. b.channel \in Channels
  BY <1>8 DEF Batch
<1>10. /\ h \in Handling /\ h # Idle /\ h.batch = b /\ h.at \in {"first", "route"}
       /\ h.at = "first" <=> b.channel \notin seen[n]
  BY <1>4, <1>8 DEF Idle, Handling
<1>11. ConnOf[b.channel] = n /\ Fits(b, collected[b.channel])
  BY <1>2, <1>8 DEF ExchangeInv, BatchInv
<1>12. /\ handler'[n] = h /\ outbound'[n] = Tail(q)
       /\ \A m \in Connections : m # n => handler'[m] = handler[m] /\ outbound'[m] = outbound[m]
  BY <1>5, <1>7
<1>13. GrantInv'
  BY <1>1 DEF ExchangeInv, GrantInv, Homeward
<1>14. \A c \in Channels : Granted(c)' = Granted(c)
  BY <1>1 DEF Granted, Carried
<1>15. ASSUME NEW c \in Channels
       PROVE  Owed(c)' = Owed(c) + (IF c = b.channel /\ c \notin seen[n] THEN InitialCredits ELSE 0)
  <2>1. CASE ConnOf[c] = n
    <3>1. Owed(c) = 0
      BY <1>5, <2>1 DEF Owed, Idle
    <3>2. Owed(c)' = IF c = b.channel /\ c \notin seen[n] THEN InitialCredits ELSE 0
      BY <1>10, <1>12, <2>1 DEF Owed
    <3>3. QED  BY <3>1, <3>2, ExchangeAssumption
  <2>2. CASE ConnOf[c] # n
    <3>1. Owed(c)' = Owed(c) /\ Owed(c) \in Nat
      BY <1>12, <2>2, LedgerType, ExchangeAssumption DEF Owed
    <3>2. QED  BY <1>11, <2>2, <3>1
  <2>3. QED  BY <2>1, <2>2
<1>16. ASSUME NEW c \in Channels
       PROVE  /\ ConnOf[c] = n => /\ Handled(c) = {}
                                  /\ Handled(c)' = IF b.channel = c THEN {b} ELSE {}
              /\ ConnOf[c] # n => Handled(c)' = Handled(c) /\ b.channel # c
              /\ InFlight(c)' = InFlight(c)
  <2>1. CASE ConnOf[c] = n
    <3>1. Handled(c) = {}
      BY <1>5, <2>1 DEF Handled, Idle
    <3>2. Handled(c)' = IF b.channel = c THEN {b} ELSE {}
      BY <1>10, <1>12, <2>1 DEF Handled
    <3>3. OfChannel(c, q) = OfChannel(c, Tail(q)) \cup (IF b.channel = c THEN {b} ELSE {})
      BY <1>3, <1>5, <1>7, OfChannelTake
    <3>4. InFlight(c) = {} \cup OfChannel(c, q)
      BY <1>2, <2>1, <3>1 DEF InFlight
    <3>5. InFlight(c)' = (IF b.channel = c THEN {b} ELSE {}) \cup OfChannel(c, Tail(q))
      BY <1>12, <2>1, <3>2 DEF InFlight
    <3>6. QED  BY <2>1, <3>1, <3>2, <3>3, <3>4, <3>5
  <2>2. CASE ConnOf[c] # n
    <3>1. ConnOf[c] \in Connections
      BY ExchangeAssumption
    <3>2. Handled(c)' = Handled(c)
      BY <1>12, <2>2, <3>1 DEF Handled
    <3>3. InFlight(c)' = InFlight(c)
      BY <1>12, <2>2, <3>1, <3>2 DEF InFlight
    <3>4. QED  BY <1>11, <2>2, <3>2, <3>3
  <2>3. QED  BY <2>1, <2>2
<1>17. ExchangeTypeOK'
  <2>1. outbound' \in [Connections -> Seq(Batch)]
    BY <1>5, <1>7, <1>8
  <2>2. \A m \in Connections : Len(outbound'[m]) <= OutBuffer
    <3>1. Len(Tail(q)) <= OutBuffer
      BY <1>5, <1>7, ExchangeAssumption
    <3>2. QED  BY <1>6, <1>12, <3>1 DEF ExchangeTypeOK
  <2>3. handler' \in [Connections -> {Idle} \cup Handling]
    BY <1>5, <1>7, <1>10
  <2>4. seen' \in [Connections -> SUBSET Channels]
    BY <1>5, <1>7, <1>9
  <2>5. QED  BY <1>1, <1>6, <2>1, <2>2, <2>3, <2>4 DEF ExchangeTypeOK
<1>18. BatchInv'
  <2>1. ASSUME NEW m \in Connections, NEW k \in DOMAIN outbound'[m]
        PROVE  /\ ConnOf[outbound'[m][k].channel] = m
               /\ Fits(outbound'[m][k], collected[outbound'[m][k].channel])
    <3>1. CASE m = n
      <4>1. outbound'[m] = Tail(q) /\ Tail(q)[k] = q[k + 1] /\ k + 1 \in DOMAIN q
        BY <1>5, <1>7, <1>12, <2>1, <3>1
      <4>2. QED  BY <1>2, <3>1, <4>1 DEF ExchangeInv, BatchInv
    <3>2. CASE m # n
      BY <1>12, <2>1, <3>2 DEF ExchangeInv, BatchInv
    <3>3. QED  BY <3>1, <3>2
  <2>2. ASSUME NEW m \in Connections, handler'[m] # Idle
        PROVE  /\ ConnOf[handler'[m].batch.channel] = m
               /\ Fits(handler'[m].batch, collected[handler'[m].batch.channel])
    <3>1. CASE m = n
      BY <1>10, <1>11, <1>12, <3>1
    <3>2. CASE m # n
      BY <1>12, <2>2, <3>2 DEF ExchangeInv, BatchInv
    <3>3. QED  BY <3>1, <3>2
  <2>3. QED  BY <1>1, <2>1, <2>2 DEF ExchangeInv, BatchInv
<1>19. OrderInv'
  <2>1. ASSUME NEW c \in Channels
        PROVE  Outward(c, Past(c), AllElems(Handled(c)), outbound[ConnOf[c]], ToSet(buffer[c]))'
    <3>1. Outward(c, Past(c), AllElems(Handled(c)), outbound[ConnOf[c]], ToSet(buffer[c]))
      BY DEF ExchangeInv, OrderInv
    <3>2. Past(c)' = Past(c)
      BY <1>1, <1>16, FlightSame
    <3>3. CASE ConnOf[c] = n
      <4>1. Outward(c, Past(c), {}, q, ToSet(buffer[c]))
        BY <1>2, <1>16, <3>1, <3>3, AllElemsOf
      <4>2. Outward(c, Past(c), IF Head(q).channel = c THEN Elems(Head(q)) ELSE {},
                    Tail(q), ToSet(buffer[c]))
        BY <1>5, <1>7, <4>1, OutwardTake
      <4>3. AllElems(Handled(c)') = IF Head(q).channel = c THEN Elems(Head(q)) ELSE {}
        BY <1>3, <1>16, <3>3, AllElemsOf
      <4>4. QED  BY <1>1, <1>12, <3>2, <3>3, <4>2, <4>3
    <3>4. CASE ConnOf[c] # n
      <4>1. ConnOf[c] \in Connections
        BY ExchangeAssumption
      <4>2. outbound'[ConnOf[c]] = outbound[ConnOf[c]] /\ Handled(c)' = Handled(c)
        BY <1>12, <1>16, <3>4, <4>1
      <4>3. QED  BY <1>1, <3>1, <3>2, <4>2
    <3>5. QED  BY <3>3, <3>4
  <2>2. QED  BY <2>1 DEF OrderInv
<1>20. ASSUME NEW c \in Channels, ~failed[c]
       PROVE  Settled(c)'
  <2>1. Spent(c)' = Spent(c) /\ Barriers(c)' = Barriers(c)
    BY <1>1, <1>16, FlightSame
  <2>2. Settled(c)
    BY <1>20 DEF ExchangeInv, CreditConservation, Settled
  <2>3. PICK k : k = IF c = b.channel /\ c \notin seen[n] THEN InitialCredits ELSE 0
    OBVIOUS
  <2>4. k \in Nat
    BY <2>3, ExchangeAssumption
  <2>5. /\ credits[c] \in Nat /\ Granted(c) \in Nat /\ Owed(c) \in Nat
        /\ Cardinality(Spent(c)) \in Nat /\ Cardinality(Barriers(c)) \in Nat
        /\ Ledger(c) \in Nat /\ Entitled(c) \in Nat
    BY LedgerType
  <2>6. Ledger(c)' = Ledger(c) + k
    <3>1. Owed(c)' = Owed(c) + k
      BY <1>15, <2>3
    <3>2. Ledger(c)' = credits[c] + (Granted(c) + (Owed(c) + k)) + Cardinality(Spent(c))
      BY <1>1, <1>14, <2>1, <3>1 DEF Ledger
    <3>3. QED  BY <2>4, <2>5, <3>2 DEF Ledger
  <2>7. Entitled(c)' = Entitled(c) + k
    <3>1. CASE c = b.channel /\ c \notin seen[n]
      <4>1. c \notin seen[ConnOf[c]] /\ c \in seen'[ConnOf[c]]
        BY <1>5, <1>7, <1>11, <3>1
      <4>2. QED  BY <2>1, <2>3, <2>4, <2>5, <3>1, <4>1 DEF Entitled
    <3>2. CASE ~(c = b.channel /\ c \notin seen[n])
      <4>1. c \in seen'[ConnOf[c]] <=> c \in seen[ConnOf[c]]
        <5>1. CASE ConnOf[c] = n
          BY <1>5, <1>7, <3>2, <5>1
        <5>2. CASE ConnOf[c] # n
          BY <1>5, <1>7, <5>2, ExchangeAssumption
        <5>3. QED  BY <5>1, <5>2
      <4>2. Entitled(c)' = Entitled(c)
        BY <2>1, <4>1 DEF Entitled
      <4>3. QED  BY <2>3, <2>5, <3>2, <4>2
    <3>3. QED  BY <3>1, <3>2
  <2>8. QED  BY <1>1, <2>2, <2>4, <2>5, <2>6, <2>7 DEF Settled
<1>21. BufferInv' /\ ArrivalInv' /\ GapInv' /\ FiniteInv'
  BY <1>1, <1>16, FlightKeeps
<1>22. CreditConservation'
  BY <1>1, <1>20 DEF CreditConservation, Settled
<1>23. QED  BY <1>13, <1>17, <1>18, <1>19, <1>21, <1>22 DEF ExchangeInv

(* A step that moves no credit and no batch out of the channels.           *)
LEMMA LedgerSame ==
  ASSUME ExchangeInv, UNCHANGED <<credits, granting, grants, seen, failed, link>>,
         \A c \in Channels :
           Unrouted(c)' = Unrouted(c) /\ Barriers(c)' = Barriers(c) /\ Owed(c)' = Owed(c)
  PROVE  GrantInv' /\ FiniteInv' /\ CreditConservation'
<1>1. GrantInv'
  BY DEF ExchangeInv, GrantInv, Homeward
<1>2. FiniteInv'
  BY DEF ExchangeInv, FiniteInv
<1>3. \A c \in Channels : Granted(c)' = Granted(c) /\ Spent(c)' = Spent(c)
  BY DEF Granted, Carried, Spent
<1>4. \A c \in Channels : Ledger(c)' = Ledger(c) /\ Entitled(c)' = Entitled(c)
  BY <1>3 DEF Ledger, Entitled
<1>5. CreditConservation'
  BY <1>4 DEF ExchangeInv, CreditConservation
<1>6. QED  BY <1>1, <1>2, <1>5

(* A batch the handler holds. *)
LEMMA HeldBatch ==
  ASSUME ExchangeInv, NEW n \in Connections, handler[n].at # "next",
         NEW b, b = handler[n].batch
  PROVE  /\ handler[n] \in Handling
         /\ handler[n] # Idle
         /\ b \in Batch /\ b.channel \in Channels /\ ConnOf[b.channel] = n
         /\ Fits(b, collected[b.channel])
         /\ handler[n].at # "credit" => \A c \in Channels :
              ConnOf[c] = n => Handled(c) = IF b.channel = c THEN {b} ELSE {}
<1>1. handler[n] # Idle
  BY DEF Idle
<1>2. handler[n] \in Handling
  BY <1>1 DEF ExchangeInv, ExchangeTypeOK
<1>3. b \in Batch /\ handler[n].at \in {"first", "route", "send", "credit"}
  BY <1>2 DEF Handling
<1>4. b.channel \in Channels
  BY <1>3 DEF Batch
<1>5. ConnOf[b.channel] = n /\ Fits(b, collected[b.channel])
  BY <1>1 DEF ExchangeInv, BatchInv
<1>6. handler[n].at # "credit" => \A c \in Channels :
        ConnOf[c] = n => Handled(c) = IF b.channel = c THEN {b} ELSE {}
  BY <1>3 DEF Handled
<1>7. QED  BY <1>1, <1>2, <1>3, <1>4, <1>5, <1>6

(* A step of the handler that leaves its batch in flight, or comes after   *)
(* its delivery.                                                           *)
Moved(n, h) ==
  /\ handler' = [handler EXCEPT ![n] = h]
  /\ \/ /\ handler[n].at \in {"first", "route", "send"}
        /\ h \in Handling /\ h.at \in {"route", "send"} /\ h.batch = handler[n].batch
     \/ handler[n].at = "credit" /\ h = Idle

HandlerMoves(n, h) ==
  /\ handler' \in [Connections -> {Idle} \cup Handling]
  /\ handler'[n] = h
  /\ \A m \in Connections : m # n => handler'[m] = handler[m]
  /\ \A c \in Channels : Handled(c)' = Handled(c) /\ InFlight(c)' = InFlight(c)
  /\ BatchInv' /\ OrderInv' /\ BufferInv' /\ ArrivalInv' /\ GapInv' /\ FiniteInv'

LEMMA StepInside ==
  ASSUME ExchangeInv, NEW n \in Connections, NEW h, Moved(n, h),
         UNCHANGED <<collected, buffer, failed, outbound, inbox, arrived, dropped>>
  PROVE  HandlerMoves(n, h)
<1>1. handler \in [Connections -> {Idle} \cup Handling]
  BY DEF ExchangeInv, ExchangeTypeOK
<1>2. /\ handler' \in [Connections -> {Idle} \cup Handling]
      /\ handler'[n] = h
      /\ \A m \in Connections : m # n => handler'[m] = handler[m]
  BY <1>1 DEF Moved
<1>3. \/ h = Idle
      \/ handler[n] # Idle /\ h.batch = handler[n].batch
  BY DEF Moved, Idle
<1>4. ASSUME NEW c \in Channels
      PROVE  Handled(c)' = Handled(c) /\ InFlight(c)' = InFlight(c)
  <2>1. Handled(c)' = Handled(c)
    <3>1. CASE ConnOf[c] = n
      BY <1>2, <3>1 DEF Handled, Moved, Idle
    <3>2. CASE ConnOf[c] # n
      BY <1>2, <3>2, ExchangeAssumption DEF Handled
    <3>3. QED  BY <3>1, <3>2
  <2>2. QED  BY <2>1 DEF InFlight
<1>5. BatchInv'
  <2>1. ASSUME NEW m \in Connections, handler'[m] # Idle
        PROVE  handler[m] # Idle /\ handler'[m].batch = handler[m].batch
    BY <1>2, <1>3, <2>1
  <2>2. QED  BY <2>1 DEF ExchangeInv, BatchInv
<1>6. OrderInv'
  <2>1. ASSUME NEW c \in Channels
        PROVE  Outward(c, Past(c), AllElems(Handled(c)), outbound[ConnOf[c]], ToSet(buffer[c]))'
    <3>1. Outward(c, Past(c), AllElems(Handled(c)), outbound[ConnOf[c]], ToSet(buffer[c]))
      BY DEF ExchangeInv, OrderInv
    <3>2. Past(c)' = Past(c) /\ Handled(c)' = Handled(c)
      BY <1>4, FlightSame
    <3>3. QED  BY <3>1, <3>2
  <2>2. QED  BY <2>1 DEF OrderInv
<1>7. BufferInv' /\ ArrivalInv' /\ GapInv' /\ FiniteInv'
  BY <1>4, FlightKeeps
<1>8. QED  BY <1>2, <1>4, <1>5, <1>6, <1>7 DEF HandlerMoves

(* The handler that has its batch's subscriber takes the lock. *)
LEMMA RouteLocks ==
  ASSUME ExchangeInv, NEW n \in Connections, handler[n].at = "route", lock' = n,
         handler' = [handler EXCEPT ![n].at = "send"],
         UNCHANGED <<sender, outbound, link, seen, returning, subscribed, dropped, receiver>>
  PROVE  ExchangeInv'
<1>1. /\ UNCHANGED <<collected, buffer, failed, inbox, arrived, dropped, credits>>
      /\ UNCHANGED <<granting, grants, seen, outbound, link, subscribed>>
  BY DEF sender, receiver, returning
<1>2. PICK h : h = [handler[n] EXCEPT !.at = "send"]
  OBVIOUS
<1>3. handler' = [handler EXCEPT ![n] = h]
  BY <1>2
<1>4. h \in Handling /\ h.batch = handler[n].batch /\ h.at = "send"
  <2>1. handler[n].at # "next"
    OBVIOUS
  <2>2. handler[n] \in Handling
    BY <2>1, HeldBatch
  <2>3. QED  BY <1>2, <2>2 DEF Handling
<1>5. Moved(n, h)
  BY <1>3, <1>4 DEF Moved
<1>6. HandlerMoves(n, h)
  BY <1>1, <1>5, StepInside
<1>7. ASSUME NEW c \in Channels
      PROVE  Owed(c)' = Owed(c)
  <2>1. CASE ConnOf[c] = n
    BY <1>4, <1>6, <2>1 DEF Owed, HandlerMoves
  <2>2. CASE ConnOf[c] # n
    <3>1. handler'[ConnOf[c]] = handler[ConnOf[c]]
      BY <1>6, <2>2, ExchangeAssumption DEF HandlerMoves
    <3>2. QED  BY <3>1 DEF Owed
  <2>3. QED  BY <2>1, <2>2
<1>8. ExchangeTypeOK'
  BY <1>1, <1>6 DEF ExchangeInv, ExchangeTypeOK, HandlerMoves
<1>9. \A c \in Channels : Unrouted(c)' = Unrouted(c) /\ Barriers(c)' = Barriers(c)
  BY <1>1, <1>6, FlightSame DEF HandlerMoves
<1>10. GrantInv' /\ CreditConservation'
  BY <1>1, <1>7, <1>9, LedgerSame
<1>11. QED  BY <1>6, <1>8, <1>10 DEF HandlerMoves, ExchangeInv

(* The credits a handler grants are on their way, and owed no more; on a   *)
(* broken stream they are lost.                                            *)
LEMMA GrantStep ==
  ASSUME ExchangeInv, NEW n \in Connections, NEW amount \in Nat, SendGrant(n, amount),
         NEW h, Moved(n, h),
         \/ handler[n].at = "first" /\ amount = InitialCredits /\ h.at = "route"
         \/ handler[n].at = "credit" /\ amount = 1 /\ h = Idle,
         UNCHANGED <<sender, outbound, link, seen, grants, router, receiver>>
  PROVE  ExchangeInv'
<1>1. /\ UNCHANGED <<collected, buffer, failed, inbox, arrived, dropped, credits>>
      /\ UNCHANGED <<grants, seen, outbound, link, lock, subscribed>>
  BY DEF sender, receiver, router
<1>2. HandlerMoves(n, h)
  BY <1>1, StepInside
<1>3. PICK b : b = handler[n].batch
  OBVIOUS
<1>4. b.channel \in Channels /\ ConnOf[b.channel] = n
  <2>1. handler[n].at # "next"
    OBVIOUS
  <2>2. QED  BY <1>3, <2>1, HeldBatch
<1>5. PICK x : x = [channel |-> b.channel, credits |-> amount]
  OBVIOUS
<1>6. x \in CreditGrants /\ x.channel = b.channel /\ x.credits = amount
  BY <1>4, <1>5 DEF CreditGrants
<1>7. ExchangeTypeOK
  BY DEF ExchangeInv
<1>8. /\ granting \in [Connections -> Seq(CreditGrants)] /\ Homeward(granting)
      /\ \A m \in Connections : Len(granting[m]) <= StreamRoom
  BY <1>7 DEF ExchangeTypeOK, ExchangeInv, GrantInv
<1>9. ASSUME NEW c \in Channels
      PROVE  /\ Owed(c) = Owed(c)' + CreditsFor(c, x) /\ Owed(c)' \in Nat
             /\ CreditsFor(c, x) \in Nat
             /\ ConnOf[c] # n => CreditsFor(c, x) = 0
  <2>1. CASE ConnOf[c] = n
    <3>1. handler'[ConnOf[c]].at \in {"route", "next"}
      BY <1>2, <2>1 DEF HandlerMoves, Idle
    <3>2. Owed(c)' = 0
      BY <3>1 DEF Owed
    <3>3. Owed(c) = CreditsFor(c, x)
      BY <1>3, <1>6, <2>1 DEF Owed, CreditsFor
    <3>4. QED  BY <1>6, <2>1, <3>2, <3>3 DEF CreditsFor
  <2>2. CASE ConnOf[c] # n
    <3>1. handler'[ConnOf[c]] = handler[ConnOf[c]]
      BY <1>2, <2>2, ExchangeAssumption DEF HandlerMoves
    <3>2. Owed(c)' = Owed(c) /\ Owed(c) \in Nat
      BY <3>1, LedgerType DEF Owed
    <3>3. CreditsFor(c, x) = 0
      BY <1>4, <1>6, <2>2 DEF CreditsFor
    <3>4. QED  BY <3>2, <3>3
  <2>3. QED  BY <2>1, <2>2
<1>10. ASSUME NEW c \in Channels
       PROVE  /\ Spent(c)' = Spent(c) /\ Entitled(c)' = Entitled(c)
              /\ Ledger(c) = credits[c] + (Carried(c, granting) + Carried(c, grants)
                                           + Owed(c)' + CreditsFor(c, x)) + Cardinality(Spent(c))
              /\ Ledger(c)' = credits[c] + (Carried(c, granting') + Carried(c, grants) + Owed(c)')
                              + Cardinality(Spent(c))
  <2>1. Spent(c)' = Spent(c) /\ Barriers(c)' = Barriers(c)
    BY <1>1, <1>2, FlightSame DEF HandlerMoves
  <2>2. Ledger(c)' = credits[c] + (Carried(c, granting') + Carried(c, grants) + Owed(c)')
                     + Cardinality(Spent(c))
    BY <1>1, <2>1 DEF Ledger, Granted
  <2>3. /\ Carried(c, granting) \in Nat /\ Carried(c, grants) \in Nat
        /\ Owed(c) = Owed(c)' + CreditsFor(c, x) /\ Owed(c)' \in Nat
        /\ CreditsFor(c, x) \in Nat
    BY <1>9, LedgerType
  <2>4. Carried(c, granting) + Carried(c, grants) + Owed(c)
        = Carried(c, granting) + Carried(c, grants) + Owed(c)' + CreditsFor(c, x)
    BY <2>3
  <2>5. QED  BY <1>1, <2>1, <2>2, <2>4 DEF Ledger, Granted, Entitled
<1>11. CASE /\ Len(granting[n]) < StreamRoom
            /\ granting' = [granting EXCEPT ![n] = Append(granting[n], x)]
  <2>1. /\ granting' \in [Connections -> Seq(CreditGrants)]
        /\ Homeward(granting')
        /\ Len(granting'[n]) = Len(granting[n]) + 1
        /\ \A m \in Connections : m # n => granting'[m] = granting[m]
        /\ \A c \in Channels : Carried(c, granting') = Carried(c, granting) + CreditsFor(c, x)
    <3>1. Puts(granting, n, x, granting')
      BY <1>4, <1>6, <1>8, <1>11, CarriedPut
    <3>2. QED  BY <3>1 DEF Puts
  <2>2. \A m \in Connections : Len(granting'[m]) <= StreamRoom
    <3>1. Len(granting[n]) \in Nat
      BY <1>8
    <3>2. QED  BY <1>8, <1>11, <2>1, <3>1, ExchangeAssumption
  <2>3. ExchangeTypeOK'
    BY <1>1, <1>2, <1>7, <2>1, <2>2 DEF ExchangeTypeOK, HandlerMoves
  <2>4. GrantInv'
    BY <1>1, <2>1 DEF GrantInv, ExchangeInv
  <2>5. ASSUME NEW c \in Channels
        PROVE  Ledger(c)' = Ledger(c)
    <3>1. /\ Carried(c, granting) \in Nat /\ Carried(c, grants) \in Nat
          /\ Owed(c)' \in Nat /\ CreditsFor(c, x) \in Nat
      BY <1>9, LedgerType
    <3>2. Carried(c, granting') + Carried(c, grants) + Owed(c)'
          = Carried(c, granting) + Carried(c, grants) + Owed(c)' + CreditsFor(c, x)
      BY <2>1, <3>1
    <3>3. QED  BY <1>10, <3>2
  <2>6. CreditConservation'
    BY <1>1, <1>10, <2>5 DEF ExchangeInv, CreditConservation
  <2>7. QED  BY <1>2, <2>3, <2>4, <2>6 DEF HandlerMoves, ExchangeInv
<1>12. CASE link[n] = "broken" /\ UNCHANGED granting
  <2>1. ExchangeTypeOK'
    BY <1>1, <1>2, <1>7, <1>12 DEF ExchangeTypeOK, HandlerMoves
  <2>2. GrantInv'
    BY <1>1, <1>12 DEF GrantInv, ExchangeInv, Homeward
  <2>3. ASSUME NEW c \in Channels, ~failed[c]
        PROVE  Settled(c)'
    <3>1. Settled(c) /\ Entitled(c)' = Entitled(c)
      BY <1>10, <2>3 DEF ExchangeInv, CreditConservation, Settled
    <3>2. /\ Carried(c, granting) \in Nat /\ Carried(c, grants) \in Nat
          /\ credits[c] \in Nat /\ Cardinality(Spent(c)) \in Nat
          /\ Entitled(c) \in Nat /\ Owed(c)' \in Nat /\ CreditsFor(c, x) \in Nat
      BY <1>9, LedgerType
    <3>3. PICK k : k = CreditsFor(c, x)
      OBVIOUS
    <3>4. PICK o : o = Owed(c)'
      OBVIOUS
    <3>5. Ledger(c) = credits[c] + (Carried(c, granting) + Carried(c, grants) + o + k)
                      + Cardinality(Spent(c))
      BY <1>10, <3>3, <3>4
    <3>6. Ledger(c)' = credits[c] + (Carried(c, granting) + Carried(c, grants) + o)
                       + Cardinality(Spent(c))
      <4>1. Carried(c, granting') = Carried(c, granting)
        BY <1>12
      <4>2. QED  BY <1>10, <3>4, <4>1
    <3>7. Ledger(c)' + k = Ledger(c) /\ Ledger(c)' \in Nat /\ k \in Nat /\ Ledger(c) \in Nat
      BY <3>2, <3>3, <3>4, <3>5, <3>6
    <3>8. CASE ConnOf[c] = n
      BY <1>1, <1>12, <3>1, <3>2, <3>7, <3>8 DEF Settled
    <3>9. CASE ConnOf[c] # n
      <4>1. k = 0
        BY <1>9, <3>3, <3>9
      <4>2. Ledger(c)' = Ledger(c)
        BY <3>7, <4>1
      <4>3. QED  BY <1>1, <3>1, <4>2 DEF Settled
    <3>10. QED  BY <3>8, <3>9
  <2>4. CreditConservation'
    BY <1>1, <2>3 DEF CreditConservation, Settled
  <2>5. QED  BY <1>2, <2>1, <2>2, <2>4 DEF HandlerMoves, ExchangeInv
<1>13. QED  BY <1>3, <1>5, <1>11, <1>12 DEF SendGrant

(* The first batch of a channel earns it the initial credits. *)
LEMMA InitialGrantKeeps ==
  ASSUME ExchangeInv, NEW n \in Connections, InitialGrant(n)
  PROVE  ExchangeInv'
<1>1. PICK h : h = [handler[n] EXCEPT !.at = "route"]
  OBVIOUS
<1>2. handler[n].at = "first" /\ handler' = [handler EXCEPT ![n] = h]
  BY <1>1 DEF InitialGrant
<1>3. handler[n].at # "next"
  BY <1>2
<1>4. handler[n] \in Handling
  BY <1>3, HeldBatch
<1>5. h \in Handling /\ h.at = "route" /\ h.batch = handler[n].batch
  BY <1>1, <1>4 DEF Handling
<1>6. Moved(n, h)
  BY <1>2, <1>5 DEF Moved
<1>7. InitialCredits \in Nat
  BY ExchangeAssumption
<1>8. QED  BY <1>2, <1>5, <1>6, <1>7, GrantStep DEF InitialGrant

(* A delivered batch earns one credit. *)
LEMMA CreditGrantKeeps ==
  ASSUME ExchangeInv, NEW n \in Connections, CreditGrant(n)
  PROVE  ExchangeInv'
<1>1. Moved(n, Idle)
  BY DEF CreditGrant, Moved
<1>2. handler[n].at = "credit" /\ SendGrant(n, 1) /\ 1 \in Nat
  BY DEF CreditGrant
<1>3. QED  BY <1>1, <1>2, GrantStep DEF CreditGrant

Finished(n, b) ==
  /\ handler' \in [Connections -> {Idle} \cup Handling]
  /\ \A m \in Connections :
       handler'[m] # Idle => handler[m] # Idle /\ handler'[m].batch = handler[m].batch
  /\ \A m \in Connections : m # n => handler'[m] = handler[m]
  /\ \A c \in Channels :
       ConnOf[c] = n => /\ Handled(c)' = {}
                        /\ InFlight(c)' = OfChannel(c, outbound[n])
                        /\ InFlight(c) = InFlight(c)' \cup (IF b.channel = c THEN {b} ELSE {})
  /\ \A c \in Channels :
       ConnOf[c] # n => /\ b.channel # c
                        /\ Handled(c)' = Handled(c)
                        /\ InFlight(c)' = InFlight(c)
  /\ OrderInv'

(* What holds of a handler that is done with its batch b, whatever it did  *)
(* with it: the batch is behind the stream.                                *)
LEMMA HandlerDone ==
  ASSUME ExchangeInv, NEW n \in Connections, handler[n].at \in {"route", "send"},
         NEW b, b = handler[n].batch,
         NEW h, h = Idle \/ (h \in Handling /\ h.at = "credit" /\ h.batch = b),
         handler' = [handler EXCEPT ![n] = h],
         UNCHANGED <<collected, buffer, outbound>>,
         \A c \in Channels : Past(c)' = Past(c) \cup (IF b.channel = c THEN Elems(b) ELSE {})
  PROVE  Finished(n, b)
<1>1. /\ handler[n] # Idle
      /\ b \in Batch /\ b.channel \in Channels /\ ConnOf[b.channel] = n
      /\ \A c \in Channels : ConnOf[c] = n => Handled(c) = IF b.channel = c THEN {b} ELSE {}
  <2>1. handler[n].at # "next" /\ handler[n].at # "credit"
    OBVIOUS
  <2>2. QED  BY <2>1, HeldBatch
<1>2. handler \in [Connections -> {Idle} \cup Handling]
  BY DEF ExchangeInv, ExchangeTypeOK
<1>3. handler' \in [Connections -> {Idle} \cup Handling]
  BY <1>2
<1>4. handler'[n] = h /\ \A m \in Connections : m # n => handler'[m] = handler[m]
  BY <1>2
<1>8. \A m \in Connections :
         handler'[m] # Idle => handler[m] # Idle /\ handler'[m].batch = handler[m].batch
  BY <1>1, <1>4
<1>5. ASSUME NEW c \in Channels, ConnOf[c] = n
      PROVE  /\ Handled(c)' = {}
             /\ InFlight(c)' = OfChannel(c, outbound[n])
             /\ InFlight(c) = InFlight(c)' \cup (IF b.channel = c THEN {b} ELSE {})
  <2>1. Handled(c)' = {}
    BY <1>4, <1>5 DEF Handled, Idle
  <2>2. InFlight(c)' = {} \cup OfChannel(c, outbound[n])
    BY <1>5, <2>1 DEF InFlight
  <2>3. InFlight(c) = (IF b.channel = c THEN {b} ELSE {}) \cup OfChannel(c, outbound[n])
    BY <1>1, <1>5 DEF InFlight
  <2>4. QED  BY <2>1, <2>2, <2>3
<1>6. ASSUME NEW c \in Channels, ConnOf[c] # n
      PROVE  b.channel # c /\ Handled(c)' = Handled(c) /\ InFlight(c)' = InFlight(c)
  <2>1. ConnOf[c] \in Connections
    BY ExchangeAssumption
  <2>2. Handled(c)' = Handled(c)
    BY <1>4, <1>6, <2>1 DEF Handled
  <2>3. InFlight(c)' = InFlight(c)
    BY <2>2 DEF InFlight
  <2>4. QED  BY <1>1, <1>6, <2>2, <2>3
<1>7. OrderInv'
  <2>1. ASSUME NEW c \in Channels
        PROVE  Outward(c, Past(c), AllElems(Handled(c)), outbound[ConnOf[c]], ToSet(buffer[c]))'
    <3>1. Outward(c, Past(c), AllElems(Handled(c)), outbound[ConnOf[c]], ToSet(buffer[c]))
      BY DEF ExchangeInv, OrderInv
    <3>2. outbound[ConnOf[c]] \in Seq(Batch)
      BY ExchangeAssumption DEF ExchangeInv, ExchangeTypeOK
    <3>3. CASE ConnOf[c] = n
      <4>1. AllElems(Handled(c)) = IF b.channel = c THEN Elems(b) ELSE {}
        BY <1>1, <3>3, AllElemsOf
      <4>2. Past(c)' \subseteq Past(c) \cup AllElems(Handled(c))
        BY <4>1
      <4>3. Outward(c, Past(c)', {}, outbound[ConnOf[c]], ToSet(buffer[c]))
        BY <3>1, <3>2, <4>2, OutwardSettle
      <4>4. AllElems(Handled(c)') = {}
        BY <1>5, <3>3, AllElemsOf
      <4>5. QED  BY <4>3, <4>4
    <3>4. CASE ConnOf[c] # n
      <4>1. Past(c)' = Past(c) /\ Handled(c)' = Handled(c)
        BY <1>6, <3>4
      <4>2. QED  BY <3>1, <4>1
    <3>5. QED  BY <3>3, <3>4
  <2>2. QED  BY <2>1 DEF OrderInv
<1>9. QED  BY <1>3, <1>4, <1>8, <1>5, <1>6, <1>7 DEF Finished

(* A batch without a subscriber is dropped. *)
LEMMA RouteDrops ==
  ASSUME ExchangeInv, NEW n \in Connections, handler[n].at = "route", NEW b, b = handler[n].batch,
         handler' = [handler EXCEPT ![n] = Idle],
         dropped' = [dropped EXCEPT ![b.channel] = dropped[b.channel] \cup {b}],
         UNCHANGED <<sender, outbound, link, seen, returning, lock, subscribed, receiver>>
  PROVE  ExchangeInv'
<1>1. UNCHANGED <<collected, buffer, failed, inbox, arrived, credits, granting, grants, seen,
                  outbound, link, lock, subscribed>>
  BY DEF sender, receiver, returning
<1>2. /\ b \in Batch /\ b.channel \in Channels /\ ConnOf[b.channel] = n
      /\ Fits(b, collected[b.channel])
  BY HeldBatch
<1>3. dropped \in [Channels -> SUBSET Batch]
  BY DEF ExchangeInv, ExchangeTypeOK
<1>4. \A c \in Channels : dropped'[c] = dropped[c] \cup (IF b.channel = c THEN {b} ELSE {})
  BY <1>2, <1>3
<1>5. \A c \in Channels : Routed(c)' = Routed(c)
  BY <1>1 DEF Routed
<1>6. \A c \in Channels : Past(c)' = Past(c) \cup (IF b.channel = c THEN Elems(b) ELSE {})
  <2>1. ASSUME NEW c \in Channels
        PROVE  Past(c)' = Past(c) \cup (IF b.channel = c THEN Elems(b) ELSE {})
    <3>1. Past(c)' = Routed(c) \cup AllElems(dropped'[c])
      BY <1>5 DEF Past
    <3>2. AllElems(dropped'[c]) = AllElems(dropped[c]) \cup (IF b.channel = c THEN Elems(b) ELSE {})
      <4>1. CASE b.channel = c
        <5>1. dropped'[c] = dropped[c] \cup {b}
          BY <1>4, <4>1
        <5>2. AllElems(dropped[c] \cup {b}) = AllElems(dropped[c]) \cup Elems(b)
          BY AllElemsAdd
        <5>3. QED  BY <4>1, <5>1, <5>2
      <4>2. CASE b.channel # c
        <5>1. dropped'[c] = dropped[c]
          BY <1>4, <4>2
        <5>2. QED  BY <4>2, <5>1
      <4>3. QED  BY <4>1, <4>2
    <3>3. QED  BY <3>1, <3>2 DEF Past
  <2>2. QED  BY <2>1
<1>7. /\ handler' \in [Connections -> {Idle} \cup Handling]
      /\ \A m \in Connections :
           handler'[m] # Idle => handler[m] # Idle /\ handler'[m].batch = handler[m].batch
      /\ \A m \in Connections : m # n => handler'[m] = handler[m]
      /\ \A c \in Channels :
           ConnOf[c] = n => /\ Handled(c)' = {}
                            /\ InFlight(c)' = OfChannel(c, outbound[n])
                            /\ InFlight(c) = InFlight(c)' \cup (IF b.channel = c THEN {b} ELSE {})
      /\ \A c \in Channels :
           ConnOf[c] # n => /\ b.channel # c
                            /\ Handled(c)' = Handled(c)
                            /\ InFlight(c)' = InFlight(c)
      /\ OrderInv'
  <2>1. handler[n].at \in {"route", "send"}
    OBVIOUS
  <2>2. Finished(n, b)
    BY <1>1, <1>6, <2>1, HandlerDone
  <2>3. QED  BY <2>2 DEF Finished
<1>8. \A c \in Channels : Unrouted(c)' = Unrouted(c)
  <2>1. ASSUME NEW c \in Channels
        PROVE  Unrouted(c)' = Unrouted(c)
    <3>1. CASE ConnOf[c] = n
      <4>1. InFlight(c) = InFlight(c)' \cup (IF b.channel = c THEN {b} ELSE {})
        BY <1>7, <3>1
      <4>2. QED  BY <1>4, <4>1 DEF Unrouted
    <3>2. CASE ConnOf[c] # n
      <4>1. InFlight(c)' = InFlight(c) /\ b.channel # c
        BY <1>7, <3>2
      <4>2. QED  BY <1>4, <4>1 DEF Unrouted
    <3>3. QED  BY <3>1, <3>2
  <2>2. QED  BY <2>1
<1>9. \A c \in Channels : Barriers(c)' = Barriers(c) /\ Known(c)' = Known(c)
  BY <1>1, <1>5, <1>8 DEF Barriers, Known
<1>10. ExchangeTypeOK'
  <2>1. dropped' \in [Channels -> SUBSET Batch]
    BY <1>2, <1>3
  <2>2. QED  BY <1>1, <1>7, <2>1 DEF ExchangeInv, ExchangeTypeOK
<1>11. BatchInv'
  BY <1>1, <1>2, <1>4, <1>7 DEF ExchangeInv, BatchInv
<1>12. BufferInv' /\ ArrivalInv'
  BY <1>1 DEF ExchangeInv, BufferInv, ArrivalInv
<1>13. GapInv'
  BY <1>1, <1>9 DEF ExchangeInv, GapInv
<1>14. GrantInv' /\ FiniteInv' /\ CreditConservation'
  <2>1. ASSUME NEW c \in Channels
        PROVE  Owed(c)' = Owed(c)
    <3>1. CASE ConnOf[c] = n
      <4>1. handler'[n] = Idle
        BY DEF ExchangeInv, ExchangeTypeOK
      <4>2. QED  BY <3>1, <4>1 DEF Owed, Idle
    <3>2. CASE ConnOf[c] # n
      BY <1>7, <3>2, ExchangeAssumption DEF Owed
    <3>3. QED  BY <3>1, <3>2
  <2>2. QED  BY <1>1, <1>8, <1>9, <2>1, LedgerSame
<1>15. QED  BY <1>7, <1>10, <1>11, <1>12, <1>13, <1>14 DEF ExchangeInv

LEMMA RouteKeeps ==
  ASSUME ExchangeInv, NEW n \in Connections, Route(n)
  PROVE  ExchangeInv'
<1>1. PICK b : b = handler[n].batch
  OBVIOUS
<1>2. CASE lock' = n /\ handler' = [handler EXCEPT ![n].at = "send"] /\ UNCHANGED dropped
  BY <1>2, RouteLocks DEF Route
<1>3. CASE /\ handler' = [handler EXCEPT ![n] = Idle] /\ UNCHANGED lock
           /\ dropped' = [dropped EXCEPT ![b.channel] = dropped[b.channel] \cup {b}]
  BY <1>1, <1>3, RouteDrops DEF Route
<1>4. QED  BY <1>1, <1>2, <1>3 DEF Route

(* What a batch's delivery does to its channel's ledger. *)
LEMMA DeliveredBatch ==
  ASSUME ExchangeInv, NEW c \in Channels, NEW b \in Batch, b.channel = c, Fits(b, collected[c]),
         Before(Past(c), Elems(b)),
         Routed(c)' = Routed(c) \cup Elems(b), Unrouted(c)' = Unrouted(c) \ {b},
         b \in Unrouted(c), collected' = collected
  PROVE  /\ b.kind # "barrier" => /\ Cardinality(Spent(c)') + 1 = Cardinality(Spent(c))
                                  /\ Barriers(c)' = Barriers(c)
         /\ b.kind = "barrier" => /\ Spent(c)' = Spent(c)
                                  /\ Cardinality(Barriers(c)') = Cardinality(Barriers(c)) + 1
<1>1. IsFiniteSet(Spent(c)) /\ IsFiniteSet(Barriers(c))
  BY SpentFinite
<1>2. CASE b.kind # "barrier"
  <2>1. Spent(c)' = Spent(c) \ {b} /\ b \in Spent(c)
    BY <1>2 DEF Spent
  <2>2. Cardinality(Spent(c) \ {b}) = Cardinality(Spent(c)) - 1 /\ Cardinality(Spent(c)) \in Nat
    BY <1>1, <2>1, FS_RemoveElement, FS_CardinalityType
  <2>3. \A e \in Elems(b) : collected[c][e] # "barrier"
    BY <1>2 DEF Fits
  <2>4. Barriers(c)' = Barriers(c)
    BY <2>3 DEF Barriers
  <2>5. QED  BY <1>2, <2>1, <2>2, <2>4
<1>3. CASE b.kind = "barrier"
  <2>1. Spent(c)' = Spent(c)
    BY <1>3 DEF Spent
  <2>2. PICK e : Elems(b) = {e}
    <3>1. b.elems \in Seq(Nat) /\ Len(b.elems) = 1
      BY <1>3 DEF Batch, Fits
    <3>2. DOMAIN b.elems = {1}
      BY <3>1
    <3>3. QED  BY <3>2 DEF Elems, ToSet
  <2>3. e \in DOMAIN collected[c] /\ collected[c][e] = "barrier"
    BY <1>3, <2>2 DEF Fits
  <2>4. e \notin Routed(c)
    <3>1. e \in Nat
      BY <2>3 DEF ExchangeInv, ExchangeTypeOK
    <3>2. QED  BY <2>2, <3>1 DEF Before, Past
  <2>5. Barriers(c)' = Barriers(c) \cup {e} /\ e \notin Barriers(c)
    BY <2>2, <2>3, <2>4 DEF Barriers
  <2>6. Cardinality(Barriers(c) \cup {e}) = Cardinality(Barriers(c)) + 1
    BY <1>1, <2>5, FS_AddElement
  <2>7. QED  BY <1>3, <2>1, <2>5, <2>6
<1>4. QED  BY <1>2, <1>3

(* A batch the subscriber's channel has room for is delivered: it comes    *)
(* after all that was routed to the channel, and earns a credit.           *)
LEMMA RouteSendKeeps ==
  ASSUME ExchangeInv, NEW n \in Connections, RouteSend(n)
  PROVE  ExchangeInv'
<1>1. UNCHANGED <<collected, buffer, failed, arrived, dropped, credits, seen, granting, grants,
                  outbound, link, subscribed>>
  BY DEF RouteSend, sender, returning
<1>2. PICK b : b = handler[n].batch
  OBVIOUS
<1>3. PICK h : h = [handler[n] EXCEPT !.at = "credit"]
  OBVIOUS
<1>4. /\ handler[n].at = "send"
      /\ Len(inbox[b.channel]) < InCapacity
      /\ inbox' = [inbox EXCEPT ![b.channel] = Append(inbox[b.channel], b)]
      /\ handler' = [handler EXCEPT ![n] = h]
      /\ lock' = None
  BY <1>2, <1>3 DEF RouteSend
<1>5. handler[n].at # "next" /\ handler[n].at # "credit" /\ handler[n].at \in {"route", "send"}
  BY <1>4
<1>6. /\ b \in Batch /\ b.channel \in Channels /\ ConnOf[b.channel] = n
      /\ Fits(b, collected[b.channel])
      /\ \A c \in Channels : ConnOf[c] = n => Handled(c) = IF b.channel = c THEN {b} ELSE {}
  BY <1>2, <1>5, HeldBatch
<1>7. ExchangeTypeOK
  BY DEF ExchangeInv
<1>8. inbox \in [Channels -> Seq(Batch)] /\ arrived \in [Channels -> Seq(Nat)]
  BY <1>7 DEF ExchangeTypeOK
<1>9. PICK d : d = b.channel
  OBVIOUS
<1>10. PICK q : q = inbox[d]
  OBVIOUS
<1>11. /\ d \in Channels /\ ConnOf[d] = n /\ q \in Seq(Batch) /\ inbox'[d] = Append(q, b)
       /\ \A c \in Channels : c # d => inbox'[c] = inbox[c]
       /\ Len(q) < InCapacity
  BY <1>4, <1>6, <1>8, <1>9, <1>10
<1>12. h \in Handling /\ h.at = "credit" /\ h.batch = b
  <2>1. handler[n] \in Handling
    BY <1>2, <1>5, HeldBatch
  <2>2. QED  BY <1>2, <1>3, <2>1 DEF Handling
<1>13. ASSUME NEW c \in Channels
       PROVE  Owed(c)' = Owed(c) + (IF c = d THEN 1 ELSE 0)
  <2>1. CASE ConnOf[c] = n
    <3>1. Owed(c) = 0
      BY <1>4, <2>1 DEF Owed
    <3>2. handler'[n] = h
      BY <1>4, <1>7 DEF ExchangeTypeOK
    <3>3. Owed(c)' = IF b.channel = c THEN 1 ELSE 0
      BY <1>12, <2>1, <3>2 DEF Owed
    <3>4. QED  BY <1>9, <3>1, <3>3
  <2>2. CASE ConnOf[c] # n
    <3>1. c # d
      BY <1>11, <2>2
    <3>2. handler'[ConnOf[c]] = handler[ConnOf[c]]
      BY <1>4, <1>7, <2>2, ExchangeAssumption DEF ExchangeTypeOK
    <3>3. Owed(c)' = Owed(c) /\ Owed(c) \in Nat
      BY <3>2, LedgerType DEF Owed
    <3>4. QED  BY <3>1, <3>3
  <2>3. QED  BY <2>1, <2>2
<1>14. Routed(d)' = Routed(d) \cup Elems(b)
  <2>1. ToSet(Append(q, b)) = ToSet(q) \cup {b}
    BY <1>6, <1>11, ToSetPut
  <2>2. AllElems(ToSet(Append(q, b))) = AllElems(ToSet(q)) \cup Elems(b)
    BY <2>1, AllElemsAdd
  <2>3. Routed(d)' = ToSet(arrived[d]) \cup AllElems(ToSet(Append(q, b)))
    BY <1>1, <1>11 DEF Routed
  <2>4. QED  BY <1>10, <2>2, <2>3 DEF Routed
<1>15. \A c \in Channels : c # d => Routed(c)' = Routed(c)
  BY <1>1, <1>11 DEF Routed
<1>16. \A c \in Channels : Past(c)' = Past(c) \cup (IF b.channel = c THEN Elems(b) ELSE {})
  BY <1>1, <1>9, <1>14, <1>15 DEF Past
<1>17. Finished(n, b)
  BY <1>1, <1>2, <1>4, <1>5, <1>12, <1>16, HandlerDone
<1>18. /\ Before(Past(d), Elems(b))
       /\ \A k \in DOMAIN outbound[n] :
            outbound[n][k].channel = d => Before(Elems(b), Elems(outbound[n][k]))
  <2>1. Outward(d, Past(d), AllElems(Handled(d)), outbound[n], ToSet(buffer[d]))
    BY <1>11 DEF ExchangeInv, OrderInv
  <2>2. AllElems(Handled(d)) = Elems(b)
    BY <1>6, <1>9, <1>11, AllElemsOf
  <2>3. Outward(d, Past(d), Elems(b), outbound[n], ToSet(buffer[d]))
    BY <2>1, <2>2
  <2>4. \A S : Before(Past(d) \cup Elems(b), S) => Before(Elems(b), S)
    BY DEF Before
  <2>5. QED  BY <2>3, <2>4 DEF Outward
<1>19. \E e \in Elems(b) : e \in Nat
  <2>1. b.elems \in Seq(Nat) /\ b.elems # <<>>
    BY <1>6 DEF Batch, Fits
  <2>2. 1 \in DOMAIN b.elems /\ b.elems[1] \in Nat
    BY <2>1
  <2>3. QED  BY <2>2 DEF Elems, ToSet
<1>20. b \notin OfChannel(d, outbound[n])
  BY <1>18, <1>19 DEF OfChannel, ToSet, Before
<1>21. b \notin dropped[d]
  <2>1. ASSUME b \in dropped[d] PROVE FALSE
    <3>1. Elems(b) \subseteq Past(d)
      BY <2>1 DEF Past, AllElems
    <3>2. QED  BY <1>18, <1>19, <3>1 DEF Before
  <2>2. QED  BY <2>1
<1>22. Unrouted(d)' = Unrouted(d) \ {b} /\ b \in Unrouted(d)
  <2>1. InFlight(d)' = OfChannel(d, outbound[n]) /\ InFlight(d) = InFlight(d)' \cup {b}
    BY <1>9, <1>11, <1>17 DEF Finished
  <2>2. QED  BY <1>1, <1>20, <1>21, <2>1 DEF Unrouted
<1>23. \A c \in Channels : c # d => Unrouted(c)' = Unrouted(c)
  <2>1. ASSUME NEW c \in Channels, c # d
        PROVE  Unrouted(c)' = Unrouted(c)
    <3>1. InFlight(c)' = InFlight(c)
      BY <1>9, <1>17, <2>1 DEF Finished
    <3>2. QED  BY <1>1, <3>1 DEF Unrouted
  <2>2. QED  BY <2>1
<1>24. \A c \in Channels : Known(c)' = Known(c)
  <2>1. ASSUME NEW c \in Channels
        PROVE  Known(c)' = Known(c)
    <3>1. CASE c = d
      <4>1. Unrouted(d) = Unrouted(d)' \cup {b}
        BY <1>22
      <4>2. AllElems(Unrouted(d)) = AllElems(Unrouted(d)') \cup Elems(b)
        BY <4>1, AllElemsAdd
      <4>3. QED  BY <1>1, <1>14, <3>1, <4>2 DEF Known
    <3>2. CASE c # d
      BY <1>1, <1>15, <1>23, <3>2 DEF Known
    <3>3. QED  BY <3>1, <3>2
  <2>2. QED  BY <2>1
<1>25. ExchangeTypeOK'
  <2>1. inbox' \in [Channels -> Seq(Batch)]
    BY <1>4, <1>6, <1>8
  <2>2. \A c \in Channels : Len(inbox'[c]) <= InCapacity
    <3>1. Len(Append(q, b)) <= InCapacity
      BY <1>6, <1>11, ExchangeAssumption
    <3>2. QED  BY <1>7, <1>11, <3>1 DEF ExchangeTypeOK
  <2>3. handler' \in [Connections -> {Idle} \cup Handling]
    BY <1>17 DEF Finished
  <2>4. QED  BY <1>1, <1>4, <1>7, <2>1, <2>2, <2>3 DEF ExchangeTypeOK
<1>26. BatchInv'
  <2>1. ASSUME NEW c \in Channels, NEW k \in DOMAIN inbox'[c]
        PROVE  inbox'[c][k].channel = c /\ Fits(inbox'[c][k], collected[c])
    <3>1. CASE c = d
      <4>1. (k \in DOMAIN q /\ inbox'[c][k] = q[k]) \/ inbox'[c][k] = b
        BY <1>6, <1>11, <2>1, <3>1
      <4>2. QED  BY <1>6, <1>9, <1>10, <3>1, <4>1 DEF ExchangeInv, BatchInv
    <3>2. CASE c # d
      BY <1>11, <2>1, <3>2 DEF ExchangeInv, BatchInv
    <3>3. QED  BY <3>1, <3>2
  <2>2. QED  BY <1>1, <1>17, <2>1 DEF ExchangeInv, BatchInv, Finished
<1>27. BufferInv'
  BY <1>1 DEF ExchangeInv, BufferInv
<1>28. ArrivalInv'
  <2>1. ASSUME NEW c \in Channels
        PROVE  Inward(arrived[c], inbox'[c])
    <3>1. Inward(arrived[c], inbox[c])
      BY DEF ExchangeInv, ArrivalInv
    <3>2. CASE c = d
      <4>1. ToSet(arrived[d]) \cup AllElems(ToSet(q)) \subseteq Past(d)
        BY <1>10 DEF Past, Routed
      <4>2. Before(ToSet(arrived[d]) \cup AllElems(ToSet(q)), Elems(b))
        BY <1>18, <4>1 DEF Before
      <4>3. arrived[d] \in Seq(Nat) /\ Inward(arrived[d], q)
        BY <1>8, <1>10, <1>11, <3>1, <3>2
      <4>4. Inward(arrived[d], Append(q, b))
        BY <1>6, <1>11, <4>2, <4>3, InwardPut
      <4>5. QED  BY <1>11, <3>2, <4>4
    <3>3. CASE c # d
      BY <1>11, <3>1, <3>3
    <3>4. QED  BY <3>2, <3>3
  <2>2. QED  BY <1>1, <2>1 DEF ExchangeInv, ArrivalInv
<1>29. GapInv'
  BY <1>1, <1>24 DEF ExchangeInv, GapInv
<1>30. FiniteInv'
  <2>1. ASSUME NEW c \in Channels
        PROVE  IsFiniteSet(Unrouted(c)')
    <3>1. IsFiniteSet(Unrouted(c)) /\ Unrouted(c)' \in SUBSET Unrouted(c)
      BY <1>22, <1>23 DEF ExchangeInv, FiniteInv
    <3>2. QED  BY <3>1, FS_Subset
  <2>2. QED  BY <2>1 DEF FiniteInv
<1>31. CreditConservation'
  <2>1. ASSUME NEW c \in Channels, ~failed[c]
        PROVE  Settled(c)'
    <3>1. Settled(c)
      BY <2>1 DEF ExchangeInv, CreditConservation, Settled
    <3>2. Granted(c)' = Granted(c)
      BY <1>1 DEF Granted, Carried
    <3>3. /\ credits[c] \in Nat /\ Granted(c) \in Nat /\ Owed(c) \in Nat
          /\ Cardinality(Spent(c)) \in Nat /\ Cardinality(Barriers(c)) \in Nat
      BY LedgerType
    <3>4. CASE c = d
      <4>1. Owed(c)' = Owed(c) + 1
        BY <1>13, <3>4
      <4>2. /\ b.kind # "barrier" => /\ Cardinality(Spent(c)') + 1 = Cardinality(Spent(c))
                                     /\ Barriers(c)' = Barriers(c)
            /\ b.kind = "barrier" => /\ Spent(c)' = Spent(c)
                                     /\ Cardinality(Barriers(c)') = Cardinality(Barriers(c)) + 1
        BY <1>1, <1>6, <1>9, <1>14, <1>18, <1>22, <3>4, DeliveredBatch
      <4>3. Cardinality(Spent(c)') \in Nat
        <5>1. IsFiniteSet(Spent(c))
          BY SpentFinite
        <5>2. Spent(c)' \in SUBSET Spent(c)
          BY <1>22, <3>4 DEF Spent
        <5>3. IsFiniteSet(Spent(c)')
          BY <5>1, <5>2, FS_Subset
        <5>4. QED  BY <5>3, FS_CardinalityType
      <4>4. PICK i : i = IF c \in seen[ConnOf[c]] THEN InitialCredits ELSE 0
        OBVIOUS
      <4>5. i \in Nat
        BY <4>4, ExchangeAssumption
      <4>6. /\ Entitled(c) = i + Cardinality(Barriers(c))
            /\ Entitled(c)' = i + Cardinality(Barriers(c)')
        BY <1>1, <4>4 DEF Entitled
      <4>7. /\ Ledger(c) = credits[c] + (Granted(c) + Owed(c)) + Cardinality(Spent(c))
            /\ Ledger(c)' = credits[c] + (Granted(c) + (Owed(c) + 1)) + Cardinality(Spent(c)')
        BY <1>1, <3>2, <4>1 DEF Ledger
      <4>8. CASE b.kind # "barrier"
        <5>1. Barriers(c)' = Barriers(c) /\ Cardinality(Spent(c)') + 1 = Cardinality(Spent(c))
          BY <4>2, <4>8
        <5>2. Entitled(c)' = Entitled(c)
          BY <4>6, <5>1
        <5>3. Ledger(c)' = Ledger(c)
          BY <3>3, <4>3, <4>7, <5>1
        <5>4. QED  BY <1>1, <3>1, <5>2, <5>3 DEF Settled
      <4>9. CASE b.kind = "barrier"
        <5>1. /\ Ledger(c)' = Ledger(c) + 1 /\ Entitled(c)' = Entitled(c) + 1
              /\ Ledger(c) \in Nat /\ Entitled(c) \in Nat
          BY <3>3, <4>2, <4>5, <4>6, <4>7, <4>9
        <5>2. QED  BY <1>1, <3>1, <5>1 DEF Settled
      <4>10. QED  BY <4>8, <4>9
    <3>5. CASE c # d
      <4>1. Owed(c)' = Owed(c)
        BY <1>13, <3>3, <3>5
      <4>2. Spent(c)' = Spent(c) /\ Barriers(c)' = Barriers(c)
        BY <1>1, <1>15, <1>23, <3>5 DEF Spent, Barriers
      <4>3. Ledger(c)' = Ledger(c) /\ Entitled(c)' = Entitled(c)
        BY <1>1, <3>2, <4>1, <4>2 DEF Ledger, Entitled
      <4>4. QED  BY <1>1, <3>1, <4>3 DEF Settled
    <3>6. QED  BY <3>4, <3>5
  <2>2. QED  BY <1>1, <2>1 DEF CreditConservation, Settled
<1>32. OrderInv'
  BY <1>17 DEF Finished
<1>33. GrantInv'
  BY <1>1 DEF ExchangeInv, GrantInv, Homeward
<1>34. QED  BY <1>25, <1>26, <1>27, <1>28, <1>29, <1>30, <1>31, <1>32, <1>33 DEF ExchangeInv

(* What a broken stream loses is behind it. *)
LEMMA LoseKeeps ==
  ASSUME ExchangeInv, NEW n \in Connections, Lose(n)
  PROVE  ExchangeInv'
<1>1. UNCHANGED <<collected, buffer, failed, inbox, arrived, credits, granting, grants, seen,
                  link, handler, lock, subscribed>>
  BY DEF Lose, sender, receiver, returning
<1>2. PICK q : q = outbound[n]
  OBVIOUS
<1>3. /\ handler[n] = Idle
      /\ dropped' = [c \in Channels |-> dropped[c] \cup OfChannel(c, q)]
      /\ outbound' = [outbound EXCEPT ![n] = <<>>]
  BY <1>2 DEF Lose
<1>4. ExchangeTypeOK
  BY DEF ExchangeInv
<1>5. /\ q \in Seq(Batch) /\ outbound \in [Connections -> Seq(Batch)]
      /\ dropped \in [Channels -> SUBSET Batch]
  BY <1>2, <1>4 DEF ExchangeTypeOK
<1>6. outbound'[n] = <<>> /\ \A m \in Connections : m # n => outbound'[m] = outbound[m]
  BY <1>3, <1>5
<1>7. \A c \in Channels : dropped'[c] = dropped[c] \cup OfChannel(c, q)
  BY <1>3
<1>8. \A c \in Channels : OfChannel(c, q) \in SUBSET Batch
  BY <1>5 DEF OfChannel, ToSet
<1>9. ASSUME NEW c \in Channels, NEW b \in OfChannel(c, q)
      PROVE  b.channel = c /\ ConnOf[c] = n /\ Fits(b, collected[c])
  <2>1. b.channel = c /\ \E k \in DOMAIN q : b = q[k]
    BY <1>9 DEF OfChannel, ToSet
  <2>2. QED  BY <1>2, <2>1 DEF ExchangeInv, BatchInv
<1>10. ASSUME NEW c \in Channels
       PROVE  Handled(c)' = Handled(c) /\ Unrouted(c)' = Unrouted(c)
  <2>1. Handled(c)' = Handled(c)
    BY <1>1 DEF Handled
  <2>2. CASE ConnOf[c] = n
    <3>1. InFlight(c)' = Handled(c) \cup {}
      BY <1>6, <2>1, <2>2, OfChannelEmpty DEF InFlight
    <3>2. InFlight(c) = Handled(c) \cup OfChannel(c, q)
      BY <1>2, <2>2 DEF InFlight
    <3>3. QED  BY <1>7, <2>1, <3>1, <3>2 DEF Unrouted
  <2>3. CASE ConnOf[c] # n
    <3>1. InFlight(c)' = InFlight(c)
      BY <1>6, <2>1, <2>3, ExchangeAssumption DEF InFlight
    <3>2. OfChannel(c, q) = {}
      BY <1>9, <2>3
    <3>3. QED  BY <1>7, <2>1, <3>1, <3>2 DEF Unrouted
  <2>4. QED  BY <2>2, <2>3
<1>11. \A c \in Channels : Routed(c)' = Routed(c)
  BY <1>1 DEF Routed
<1>12. \A c \in Channels : Barriers(c)' = Barriers(c) /\ Known(c)' = Known(c)
  BY <1>1, <1>10, <1>11 DEF Barriers, Known
<1>13. \A c \in Channels : Past(c)' = Past(c) \cup AllElems(OfChannel(c, q))
  <2>1. ASSUME NEW c \in Channels
        PROVE  Past(c)' = Past(c) \cup AllElems(OfChannel(c, q))
    <3>1. AllElems(dropped'[c]) = AllElems(dropped[c]) \cup AllElems(OfChannel(c, q))
      BY <1>7, AllElemsOf
    <3>2. Past(c)' = Routed(c) \cup AllElems(dropped'[c])
      BY <1>11 DEF Past
    <3>3. QED  BY <3>1, <3>2 DEF Past
  <2>2. QED  BY <2>1
<1>14. ExchangeTypeOK'
  <2>1. outbound' \in [Connections -> Seq(Batch)]
    BY <1>3, <1>5
  <2>2. \A m \in Connections : Len(outbound'[m]) <= OutBuffer
    <3>1. Len(<<>>) = 0 /\ 0 <= OutBuffer
      BY ExchangeAssumption
    <3>2. QED  BY <1>4, <1>6, <3>1 DEF ExchangeTypeOK
  <2>3. dropped' \in [Channels -> SUBSET Batch]
    BY <1>3, <1>5, <1>8
  <2>4. QED  BY <1>1, <1>4, <2>1, <2>2, <2>3 DEF ExchangeTypeOK
<1>15. BatchInv'
  <2>1. ASSUME NEW m \in Connections, NEW k \in DOMAIN outbound'[m]
        PROVE  /\ ConnOf[outbound'[m][k].channel] = m
               /\ Fits(outbound'[m][k], collected[outbound'[m][k].channel])
    <3>1. m # n /\ outbound'[m] = outbound[m]
      BY <1>6, <2>1
    <3>2. QED  BY <2>1, <3>1 DEF ExchangeInv, BatchInv
  <2>2. QED  BY <1>1, <1>7, <1>9, <2>1 DEF ExchangeInv, BatchInv
<1>16. BufferInv' /\ ArrivalInv'
  BY <1>1 DEF ExchangeInv, BufferInv, ArrivalInv
<1>17. GapInv'
  BY <1>1, <1>12 DEF ExchangeInv, GapInv
<1>18. GrantInv' /\ FiniteInv' /\ CreditConservation'
  <2>1. \A c \in Channels : Owed(c)' = Owed(c)
    BY <1>1 DEF Owed
  <2>2. QED  BY <1>1, <1>10, <1>12, <2>1, LedgerSame
<1>19. OrderInv'
  <2>1. ASSUME NEW c \in Channels
        PROVE  Outward(c, Past(c), AllElems(Handled(c)), outbound[ConnOf[c]], ToSet(buffer[c]))'
    <3>1. Outward(c, Past(c), AllElems(Handled(c)), outbound[ConnOf[c]], ToSet(buffer[c]))
      BY DEF ExchangeInv, OrderInv
    <3>2. CASE ConnOf[c] = n
      <4>1. AllElems(Handled(c)) = {} /\ AllElems(Handled(c)') = {}
        <5>1. Handled(c) = {}
          BY <1>3, <3>2 DEF Handled, Idle
        <5>2. QED  BY <1>10, <5>1, AllElemsOf
      <4>2. Outward(c, Past(c), {}, q, ToSet(buffer[c]))
        BY <1>2, <3>1, <3>2, <4>1
      <4>3. Outward(c, Past(c)', {}, <<>>, ToSet(buffer[c]))
        BY <1>5, <1>13, <4>2, OutwardBreak
      <4>4. QED  BY <1>1, <1>6, <3>2, <4>1, <4>3
    <3>3. CASE ConnOf[c] # n
      <4>1. OfChannel(c, q) = {}
        BY <1>9, <3>3
      <4>2. Past(c)' = Past(c)
        BY <1>13, <4>1, AllElemsOf
      <4>3. outbound'[ConnOf[c]] = outbound[ConnOf[c]]
        BY <1>6, <3>3, ExchangeAssumption
      <4>4. QED  BY <1>1, <1>10, <3>1, <4>2, <4>3
    <3>4. QED  BY <3>2, <3>3
  <2>2. QED  BY <2>1 DEF OrderInv
<1>20. QED  BY <1>14, <1>15, <1>16, <1>17, <1>18, <1>19 DEF ExchangeInv

(* A received batch moves from the channel to what arrived, but for a      *)
(* watermark, which is lost.                                               *)
LEMMA RecvKeeps ==
  ASSUME ExchangeInv, NEW d \in Channels, Recv(d)
  PROVE  ExchangeInv'
<1>1. UNCHANGED <<collected, buffer, failed, dropped, credits, granting, grants, seen,
                  outbound, link, handler, lock, subscribed>>
  BY DEF Recv, sender, stream, returning, router
<1>2. PICK q : q = inbox[d]
  OBVIOUS
<1>3. PICK a : a = arrived[d]
  OBVIOUS
<1>4. PICK b : b = Head(q)
  OBVIOUS
<1>5. PICK got : got = a \o (IF b.kind = "watermark" THEN <<>> ELSE b.elems)
  OBVIOUS
<1>6. /\ q # <<>>
      /\ inbox' = [inbox EXCEPT ![d] = Tail(q)]
      /\ arrived' = [arrived EXCEPT ![d] = got]
  BY <1>2, <1>3, <1>4, <1>5 DEF Recv
<1>7. ExchangeTypeOK
  BY DEF ExchangeInv
<1>8. /\ inbox \in [Channels -> Seq(Batch)] /\ arrived \in [Channels -> Seq(Nat)]
      /\ q \in Seq(Batch) /\ a \in Seq(Nat) /\ Len(q) <= InCapacity
  BY <1>2, <1>3, <1>7 DEF ExchangeTypeOK
<1>9. /\ b \in Batch /\ Tail(q) \in Seq(Batch) /\ Len(Tail(q)) <= Len(q)
      /\ b = q[1] /\ 1 \in DOMAIN q
  BY <1>4, <1>6, <1>8
<1>10. b.elems \in Seq(Nat)
  BY <1>9 DEF Batch
<1>11. b.channel = d /\ Fits(b, collected[d])
  BY <1>2, <1>9 DEF ExchangeInv, BatchInv
<1>12. /\ b.kind = "watermark" => got = a
       /\ b.kind # "watermark" => got = a \o b.elems
  BY <1>5, <1>8
<1>13. got \in Seq(Nat)
  <2>1. a \in Seq(Nat) /\ a \o b.elems \in Seq(Nat)
    BY <1>8, <1>10
  <2>2. QED  BY <1>12, <2>1
<1>14. /\ inbox'[d] = Tail(q) /\ arrived'[d] = got
       /\ \A c \in Channels : c # d => inbox'[c] = inbox[c] /\ arrived'[c] = arrived[c]
  BY <1>6, <1>8
<1>15. ToSet(got) = ToSet(a) \cup (IF b.kind = "watermark" THEN {} ELSE Elems(b))
  BY <1>8, <1>10, <1>12, ToSetConcat DEF Elems
<1>16. AllElems(ToSet(q)) = AllElems(ToSet(Tail(q))) \cup Elems(b)
  <2>1. ToSet(q) = ToSet(Tail(q)) \cup {b}
    BY <1>4, <1>6, <1>8, ToSetTake
  <2>2. QED  BY <2>1, AllElemsAdd
<1>17. /\ Routed(d)' \subseteq Routed(d)
       /\ Routed(d) \subseteq Routed(d)' \cup (IF b.kind = "watermark" THEN Elems(b) ELSE {})
  <2>1. Routed(d) = ToSet(a) \cup AllElems(ToSet(q))
    BY <1>2, <1>3 DEF Routed
  <2>2. Routed(d)' = ToSet(got) \cup AllElems(ToSet(Tail(q)))
    BY <1>14 DEF Routed
  <2>3. QED  BY <1>15, <1>16, <2>1, <2>2
<1>18. b.kind = "watermark" => \A e \in Elems(b) : collected[d][e] = "watermark"
  BY <1>11 DEF Fits
<1>19. \A c \in Channels : c # d => Routed(c)' = Routed(c)
  BY <1>14 DEF Routed
<1>20. \A c \in Channels : Handled(c)' = Handled(c) /\ InFlight(c)' = InFlight(c)
  BY <1>1 DEF Handled, InFlight
<1>21. \A c \in Channels : Unrouted(c)' = Unrouted(c)
  BY <1>1, <1>20 DEF Unrouted
<1>22. \A c \in Channels : Barriers(c)' = Barriers(c)
  <2>1. Barriers(d)' = Barriers(d)
    BY <1>1, <1>17, <1>18 DEF Barriers
  <2>2. QED  BY <1>1, <1>19, <2>1 DEF Barriers
<1>23. ExchangeTypeOK'
  <2>1. inbox' \in [Channels -> Seq(Batch)] /\ arrived' \in [Channels -> Seq(Nat)]
    BY <1>6, <1>8, <1>9, <1>13
  <2>2. \A c \in Channels : Len(inbox'[c]) <= InCapacity
    <3>1. Len(Tail(q)) <= InCapacity
      BY <1>6, <1>8, ExchangeAssumption
    <3>2. QED  BY <1>7, <1>14, <3>1 DEF ExchangeTypeOK
  <2>3. QED  BY <1>1, <1>7, <2>1, <2>2 DEF ExchangeTypeOK
<1>24. BatchInv'
  <2>1. ASSUME NEW c \in Channels, NEW k \in DOMAIN inbox'[c]
        PROVE  inbox'[c][k].channel = c /\ Fits(inbox'[c][k], collected[c])
    <3>1. CASE c = d
      <4>1. inbox'[c][k] = q[k + 1] /\ k + 1 \in DOMAIN q
        BY <1>6, <1>8, <1>14, <2>1, <3>1
      <4>2. QED  BY <1>2, <3>1, <4>1 DEF ExchangeInv, BatchInv
    <3>2. CASE c # d
      BY <1>14, <2>1, <3>2 DEF ExchangeInv, BatchInv
    <3>3. QED  BY <3>1, <3>2
  <2>2. QED  BY <1>1, <2>1 DEF ExchangeInv, BatchInv
<1>25. BufferInv'
  BY <1>1 DEF ExchangeInv, BufferInv
<1>26. ArrivalInv'
  <2>1. Inward(got, Tail(q))
    <3>1. Inward(a, q)
      BY <1>2, <1>3 DEF ExchangeInv, ArrivalInv
    <3>2. Increasing(Head(q).elems)
      BY <1>4, <1>11 DEF Fits
    <3>3. Inward(a, Tail(q)) /\ Inward(a \o Head(q).elems, Tail(q))
      BY <1>6, <1>8, <3>1, <3>2, InwardTake
    <3>4. QED  BY <1>4, <1>12, <3>3
  <2>2. \A e \in ToSet(got) : e \in DOMAIN collected[d]
    BY <1>3, <1>11, <1>15 DEF ExchangeInv, ArrivalInv, Fits
  <2>3. ASSUME NEW c \in Channels
        PROVE  /\ \A e \in ToSet(arrived'[c]) : e \in DOMAIN collected[c]
               /\ Inward(arrived'[c], inbox'[c])
    <3>1. CASE c = d
      BY <1>14, <2>1, <2>2, <3>1
    <3>2. CASE c # d
      BY <1>14, <3>2 DEF ExchangeInv, ArrivalInv
    <3>3. QED  BY <3>1, <3>2
  <2>4. QED  BY <1>1, <2>3 DEF ArrivalInv
<1>27. OrderInv'
  <2>1. ASSUME NEW c \in Channels
        PROVE  Outward(c, Past(c), AllElems(Handled(c)), outbound[ConnOf[c]], ToSet(buffer[c]))'
    <3>1. Outward(c, Past(c), AllElems(Handled(c)), outbound[ConnOf[c]], ToSet(buffer[c]))
      BY DEF ExchangeInv, OrderInv
    <3>2. Past(c)' \subseteq Past(c)
      BY <1>1, <1>17, <1>19 DEF Past
    <3>3. outbound[ConnOf[c]] \in Seq(Batch)
      BY <1>7, ExchangeAssumption DEF ExchangeTypeOK
    <3>4. Outward(c, Past(c)', AllElems(Handled(c)), outbound[ConnOf[c]], ToSet(buffer[c]))
      BY <3>1, <3>2, <3>3, OutwardPast
    <3>5. QED  BY <1>1, <1>20, <3>4
  <2>2. QED  BY <2>1 DEF OrderInv
<1>28. GapInv'
  <2>1. ASSUME NEW c \in Channels, NEW e \in DOMAIN collected[c], collected[c][e] # "watermark"
        PROVE  e \in Known(c)' \/ (failed[c] /\ Before(Known(c)', {e}))
    <3>1. Known(c)' \subseteq Known(c)
      BY <1>1, <1>17, <1>19, <1>21 DEF Known
    <3>2. CASE e \in Known(c)
      <4>1. e \in Routed(c) => e \in Routed(c)'
        BY <1>17, <1>18, <1>19, <2>1
      <4>2. QED  BY <1>1, <1>21, <3>2, <4>1 DEF Known
    <3>3. CASE failed[c] /\ Before(Known(c), {e})
      BY <3>1, <3>3 DEF Before
    <3>4. QED  BY <2>1, <3>2, <3>3 DEF ExchangeInv, GapInv
  <2>2. QED  BY <1>1, <2>1 DEF GapInv
<1>29. GrantInv' /\ FiniteInv' /\ CreditConservation'
  <2>1. \A c \in Channels : Owed(c)' = Owed(c)
    BY <1>1 DEF Owed
  <2>2. QED  BY <1>1, <1>21, <1>22, <2>1, LedgerSame
<1>30. QED  BY <1>23, <1>24, <1>25, <1>26, <1>27, <1>28, <1>29 DEF ExchangeInv

-----------------------------------------------------------------------------
(* A call of the collector, step by step: rest is what it has not sent.    *)
Collecting == [buffer : Seq(Nat), credits : Nat, failed : BOOLEAN, queue : Seq(Batch)]

Sent(c, s) == Handled(c) \cup OfChannel(c, s.queue) \cup dropped[c]

Charged(c, s) == {b \in Sent(c, s) : b.kind # "barrier"}

(* What c's collector may have, with what its call has sent. *)
Balance(c, s) == s.credits + (Granted(c) + Owed(c)) + Cardinality(Charged(c, s))

QueueFits(c, kinds, q) ==
  \A k \in DOMAIN q :
    /\ ConnOf[q[k].channel] = ConnOf[c]
    /\ Fits(q[k], IF q[k].channel = c THEN kinds ELSE collected[q[k].channel])

Neighbours(c, q) ==
  \A d \in Channels \ {c} : ConnOf[d] = ConnOf[c] =>
    /\ Outward(d, Past(d), AllElems(Handled(d)), q, ToSet(buffer[d]))
    /\ OfChannel(d, q) = OfChannel(d, outbound[ConnOf[c]])

Ready(c, kinds, s, rest) ==
  /\ s \in Collecting
  /\ Len(s.queue) <= OutBuffer
  /\ QueueFits(c, kinds, s.queue)
  /\ Neighbours(c, s.queue)
  /\ Outward(c, Past(c), AllElems(Handled(c)), s.queue, rest)
  /\ Routed(c) \cup AllElems(Sent(c, s)) \cup rest = Known(c) \cup {Len(kinds)}
  /\ IsFiniteSet(Sent(c, s))
  /\ ~s.failed => Balance(c, s) = Ledger(c)

(* A call may fail with its elements sent or not, never with the credits   *)
(* of a working collector.                                                 *)
LEMMA ReadyFails ==
  ASSUME NEW c, NEW kinds, NEW s, NEW rest, Ready(c, kinds, s, rest),
         NEW t \in Collecting, t.failed, t.queue = s.queue
  PROVE  Ready(c, kinds, t, rest)
BY DEF Ready, Sent

LEMMA ReadySame ==
  ASSUME NEW c, NEW kinds, NEW s, NEW rest, Ready(c, kinds, s, rest),
         NEW t \in Collecting, t.queue = s.queue, t.credits = s.credits, t.failed = s.failed
  PROVE  Ready(c, kinds, t, rest)
BY DEF Ready, Sent, Charged, Balance

(* A batch the collector sends follows all that its channel sent. *)
LEMMA ReadySend ==
  ASSUME ExchangeInv, NEW c \in Channels, NEW kinds, NEW s, NEW rest, Ready(c, kinds, s, rest),
         rest \subseteq Nat,
         NEW b \in Batch, b.channel = c, Fits(b, kinds),
         NEW left, rest = Elems(b) \cup left, Before(Elems(b), left),
         NEW t \in Collecting, t.queue = Append(s.queue, b), Len(s.queue) < OutBuffer,
         t.failed = s.failed, t.credits = s.credits - (IF b.kind = "barrier" THEN 0 ELSE 1)
  PROVE  Ready(c, kinds, t, left)
<1>1. PICK q : q = s.queue
  OBVIOUS
<1>2. q \in Seq(Batch) /\ t.queue = Append(q, b) /\ Len(q) \in Nat
  BY <1>1 DEF Ready, Collecting
<1>3. /\ DOMAIN q = 1..Len(q) /\ DOMAIN Append(q, b) = 1..(Len(q) + 1)
      /\ Append(q, b)[Len(q) + 1] = b
      /\ \A k \in DOMAIN Append(q, b) : (k \in DOMAIN q /\ Append(q, b)[k] = q[k])
                                        \/ Append(q, b)[k] = b
      /\ Len(Append(q, b)) = Len(q) + 1
  BY <1>2
<1>4. Len(t.queue) <= OutBuffer
  BY <1>1, <1>2, <1>3, ExchangeAssumption
<1>5. QueueFits(c, kinds, t.queue)
  <2>1. QueueFits(c, kinds, q)
    BY <1>1 DEF Ready
  <2>2. ASSUME NEW k \in DOMAIN Append(q, b)
        PROVE  /\ ConnOf[Append(q, b)[k].channel] = ConnOf[c]
               /\ Fits(Append(q, b)[k], IF Append(q, b)[k].channel = c THEN kinds
                                        ELSE collected[Append(q, b)[k].channel])
    <3>1. CASE Append(q, b)[k] = b
      BY <3>1
    <3>2. CASE k \in DOMAIN q /\ Append(q, b)[k] = q[k]
      BY <2>1, <3>2 DEF QueueFits
    <3>3. QED  BY <1>3, <3>1, <3>2
  <2>3. QueueFits(c, kinds, Append(q, b))
    BY <2>2 DEF QueueFits
  <2>4. QED  BY <1>2, <2>3
<1>6. Neighbours(c, t.queue)
  <2>1. ASSUME NEW d \in Channels \ {c}, ConnOf[d] = ConnOf[c]
        PROVE  /\ Outward(d, Past(d), AllElems(Handled(d)), Append(q, b), ToSet(buffer[d]))
               /\ OfChannel(d, Append(q, b)) = OfChannel(d, outbound[ConnOf[c]])
    <3>1. /\ Outward(d, Past(d), AllElems(Handled(d)), q, ToSet(buffer[d]))
          /\ OfChannel(d, q) = OfChannel(d, outbound[ConnOf[c]])
      BY <1>1, <2>1 DEF Ready, Neighbours
    <3>2. b.channel # d
      OBVIOUS
    <3>3. Outward(d, Past(d), AllElems(Handled(d)), Append(q, b), ToSet(buffer[d]))
      BY <1>2, <3>1, <3>2, OutwardOther
    <3>4. OfChannel(d, Append(q, b)) = OfChannel(d, q) \cup {}
      BY <1>2, <3>2, OfChannelPut
    <3>5. QED  BY <3>1, <3>3, <3>4
  <2>2. Neighbours(c, Append(q, b))
    BY <2>1 DEF Neighbours
  <2>3. QED  BY <1>2, <2>2
<1>7. Outward(c, Past(c), AllElems(Handled(c)), t.queue, left)
  <2>1. Outward(c, Past(c), AllElems(Handled(c)), q, rest)
    BY <1>1 DEF Ready
  <2>2. Elems(b) \subseteq rest /\ left \subseteq rest
    OBVIOUS
  <2>3. Outward(c, Past(c), AllElems(Handled(c)), Append(q, b), left)
    BY <1>2, <2>1, <2>2, OutwardPut
  <2>4. QED  BY <1>2, <2>3
<1>8. Sent(c, t) = Sent(c, s) \cup {b}
  <2>1. OfChannel(c, Append(q, b)) = OfChannel(c, q) \cup {b}
    BY <1>2, OfChannelPut
  <2>2. QED  BY <1>1, <1>2, <2>1 DEF Sent
<1>9. AllElems(Sent(c, t)) = AllElems(Sent(c, s)) \cup Elems(b)
  BY <1>8, AllElemsAdd
<1>10. Routed(c) \cup AllElems(Sent(c, t)) \cup left = Known(c) \cup {Len(kinds)}
  <2>1. Routed(c) \cup AllElems(Sent(c, s)) \cup rest = Known(c) \cup {Len(kinds)}
    BY DEF Ready
  <2>2. QED  BY <1>9, <2>1
<1>11. IsFiniteSet(Sent(c, t))
  BY <1>8, FS_AddElement DEF Ready
<1>12. b \notin Sent(c, s)
  <2>1. PICK x \in Elems(b) : x \in Nat
    <3>1. b.elems \in Seq(Nat) /\ b.elems # <<>>
      BY DEF Batch, Fits
    <3>2. 1 \in DOMAIN b.elems /\ b.elems[1] \in Nat
      BY <3>1
    <3>3. QED  BY <3>2 DEF Elems, ToSet
  <2>2. ~(x < x) /\ x \in rest
    BY <2>1
  <2>3. Outward(c, Past(c), AllElems(Handled(c)), q, rest)
    BY <1>1 DEF Ready
  <2>4. b \notin dropped[c] /\ b \notin Handled(c)
    <3>1. Before(Past(c) \cup AllElems(Handled(c)), rest)
      BY <2>3 DEF Outward
    <3>2. x \notin Past(c) /\ x \notin AllElems(Handled(c))
      BY <2>2, <3>1 DEF Before
    <3>3. QED  BY <3>2 DEF Past, AllElems
  <2>5. b \notin OfChannel(c, q)
    <3>1. \A k \in DOMAIN q : q[k].channel = c => Before(Elems(q[k]), rest)
      BY <2>3 DEF Outward
    <3>2. QED  BY <2>2, <3>1 DEF OfChannel, ToSet, Before
  <2>6. QED  BY <1>1, <2>4, <2>5 DEF Sent
<1>13. ~t.failed => Balance(c, t) = Ledger(c)
  <2>1. SUFFICES ASSUME ~t.failed
                 PROVE  Balance(c, t) = Ledger(c)
    OBVIOUS
  <2>2. Balance(c, s) = Ledger(c)
    BY <2>1 DEF Ready
  <2>3. IsFiniteSet(Charged(c, s))
    <3>1. IsFiniteSet(Sent(c, s)) /\ Charged(c, s) \in SUBSET Sent(c, s)
      BY DEF Ready, Charged
    <3>2. QED  BY <3>1, FS_Subset
  <2>4. Cardinality(Charged(c, s)) \in Nat
    BY <2>3, FS_CardinalityType
  <2>5. s.credits \in Nat /\ Granted(c) \in Nat /\ Owed(c) \in Nat
    BY LedgerType DEF Ready, Collecting
  <2>6. CASE b.kind = "barrier"
    <3>1. Charged(c, t) = Charged(c, s)
      BY <1>8, <2>6 DEF Charged
    <3>2. t.credits = s.credits
      BY <2>5, <2>6
    <3>3. QED  BY <2>2, <3>1, <3>2 DEF Balance
  <2>7. CASE b.kind # "barrier"
    <3>1. Charged(c, t) = Charged(c, s) \cup {b} /\ b \notin Charged(c, s)
      BY <1>8, <1>12, <2>7 DEF Charged
    <3>2. Cardinality(Charged(c, s) \cup {b}) = Cardinality(Charged(c, s)) + 1
      BY <2>3, <3>1, FS_AddElement
    <3>3. t.credits = s.credits - 1
      BY <2>7
    <3>4. PICK k : k = Cardinality(Charged(c, s))
      OBVIOUS
    <3>5. /\ Balance(c, t) = t.credits + (Granted(c) + Owed(c)) + (k + 1)
          /\ Balance(c, s) = s.credits + (Granted(c) + Owed(c)) + k
      BY <3>1, <3>2, <3>4 DEF Balance
    <3>6. Balance(c, t) = Balance(c, s)
      <4>1. PICK g : g = Granted(c) + Owed(c)
        OBVIOUS
      <4>2. PICK m : m = s.credits
        OBVIOUS
      <4>3. g \in Nat /\ m \in Nat /\ k \in Nat
        BY <2>4, <2>5, <3>4, <4>1, <4>2
      <4>4. Balance(c, t) = (m - 1) + g + (k + 1) /\ Balance(c, s) = m + g + k
        BY <3>3, <3>5, <4>1, <4>2
      <4>5. QED  BY <4>3, <4>4
    <3>7. QED  BY <2>2, <3>6
  <2>8. QED  BY <2>6, <2>7
<1>14. QED  BY <1>4, <1>5, <1>6, <1>7, <1>10, <1>11, <1>13 DEF Ready

(* What a send makes of the collector. *)
LEMMA TrySendIs ==
  ASSUME NEW s \in Collecting, NEW b \in Batch, NEW t, t = TrySend(s, b)
  PROVE  /\ t \in Collecting
         /\ t.buffer = s.buffer /\ t.credits = s.credits
         /\ \/ t.queue = Append(s.queue, b) /\ t.failed = s.failed /\ Len(s.queue) < OutBuffer
            \/ t.queue = s.queue /\ t.failed
<1>1. Append(s.queue, b) \in Seq(Batch)
  BY DEF Collecting
<1>2. CASE link[ConnOf[b.channel]] = "open" /\ Len(s.queue) < OutBuffer
  <2>1. t = [s EXCEPT !.queue = Append(s.queue, b)]
    BY <1>2 DEF TrySend
  <2>2. QED  BY <1>1, <1>2, <2>1 DEF Collecting
<1>3. CASE ~(link[ConnOf[b.channel]] = "open" /\ Len(s.queue) < OutBuffer)
  <2>1. t = [s EXCEPT !.failed = TRUE]
    BY <1>3 DEF TrySend
  <2>2. QED  BY <2>1 DEF Collecting
<1>4. QED  BY <1>2, <1>3

Records(r, kinds) == Increasing(r) /\ \A e \in ToSet(r) : e \in DOMAIN kinds /\ kinds[e] = "record"

(* A flush sends the buffer, or fails with the buffer kept or lost. *)
Flushed(c, kinds, s, t, rest, more) ==
  \/ ~t.failed /\ t.buffer = <<>> /\ Ready(c, kinds, t, more)
  \/ t.failed /\ t.buffer \in {s.buffer, <<>>} /\ Ready(c, kinds, t, rest)

LEMMA FlushReady ==
  ASSUME ExchangeInv, NEW c \in Channels, NEW kinds, NEW s, NEW rest, Ready(c, kinds, s, rest),
         ~s.failed, rest \subseteq Nat, NEW more, rest = ToSet(s.buffer) \cup more,
         Before(ToSet(s.buffer), more), Records(s.buffer, kinds),
         NEW t, t = Flush(c, s)
  PROVE  Flushed(c, kinds, s, t, rest, more)
<1>1. /\ s \in Collecting /\ s.buffer \in Seq(Nat) /\ s.credits \in Nat /\ s.queue \in Seq(Batch)
  BY DEF Ready, Collecting
<1>2. CASE s.buffer = <<>>
  <2>1. t = s /\ rest = {} \cup more
    BY <1>2 DEF Flush, ToSet
  <2>2. Ready(c, kinds, t, more)
    BY <2>1
  <2>3. QED  BY <1>2, <2>1, <2>2 DEF Flushed
<1>3. CASE s.buffer # <<>> /\ s.credits = 0
  <2>1. t = [s EXCEPT !.failed = TRUE]
    BY <1>3 DEF Flush
  <2>2. t \in Collecting /\ t.failed /\ t.queue = s.queue /\ t.buffer = s.buffer
    BY <1>1, <2>1 DEF Collecting
  <2>3. Ready(c, kinds, t, rest)
    BY <2>2, ReadyFails
  <2>4. QED  BY <2>2, <2>3 DEF Flushed
<1>4. CASE s.buffer # <<>> /\ s.credits # 0
  <2>1. PICK b : b = DataBatch(c, "data", s.buffer)
    OBVIOUS
  <2>2. b \in Batch /\ b.channel = c /\ b.kind = "data" /\ b.elems = s.buffer
    BY <1>1, <2>1 DEF Batch, DataBatch
  <2>3. PICK v : v = [s EXCEPT !.buffer = <<>>, !.credits = s.credits - 1]
    OBVIOUS
  <2>4. /\ v \in Collecting /\ v.buffer = <<>> /\ v.credits = s.credits - 1
        /\ v.queue = s.queue /\ v.failed = s.failed
    <3>1. <<>> \in Seq(Nat) /\ s.credits - 1 \in Nat
      BY <1>1, <1>4
    <3>2. QED  BY <1>1, <2>3, <3>1 DEF Collecting
  <2>5. t = TrySend(v, b)
    BY <1>4, <2>1, <2>3 DEF Flush
  <2>6. /\ t \in Collecting
        /\ t.buffer = v.buffer /\ t.credits = v.credits
        /\ \/ t.queue = Append(v.queue, b) /\ t.failed = v.failed /\ Len(v.queue) < OutBuffer
           \/ t.queue = v.queue /\ t.failed
    BY <2>2, <2>4, <2>5, TrySendIs
  <2>7. CASE t.queue = Append(v.queue, b) /\ t.failed = v.failed /\ Len(v.queue) < OutBuffer
    <3>1. Fits(b, kinds)
      BY <1>4, <2>2 DEF Records, Fits, Elems
    <3>2. Elems(b) = ToSet(s.buffer)
      BY <2>2 DEF Elems
    <3>3. rest = Elems(b) \cup more /\ Before(Elems(b), more)
      BY <3>2
    <3>4. t.credits = s.credits - (IF b.kind = "barrier" THEN 0 ELSE 1)
      BY <2>2, <2>4, <2>6
    <3>5. t.queue = Append(s.queue, b) /\ Len(s.queue) < OutBuffer /\ t.failed = s.failed
      BY <2>4, <2>7
    <3>6. Ready(c, kinds, t, more)
      BY <2>2, <2>6, <3>1, <3>3, <3>4, <3>5, ReadySend
    <3>7. QED  BY <2>4, <2>6, <3>5, <3>6 DEF Flushed
  <2>8. CASE t.queue = v.queue /\ t.failed
    <3>1. Ready(c, kinds, t, rest)
      BY <2>4, <2>6, <2>8, ReadyFails
    <3>2. QED  BY <2>4, <2>6, <2>8, <3>1 DEF Flushed
  <2>9. QED  BY <2>6, <2>7, <2>8
<1>5. QED  BY <1>2, <1>3, <1>4

(* What a call leaves: all that it has not sent is in the buffer, or the   *)
(* collector failed and lost what came last.                               *)
Ends(c, kinds, buf, s) ==
  \E rest : /\ Ready(c, kinds, s, rest)
            /\ \/ ToSet(s.buffer) = rest /\ Records(s.buffer, kinds)
               \/ s.failed /\ s.buffer = <<>>
               \/ s.failed /\ s.buffer = buf /\ rest = ToSet(buf) \cup {Len(kinds)}

LEMMA CollectRecordEnds ==
  ASSUME ExchangeInv, NEW c \in Channels, NEW kinds, NEW s, NEW e \in Nat, e = Len(kinds),
         NEW rest, rest = ToSet(s.buffer) \cup {e}, rest \subseteq Nat,
         Ready(c, kinds, s, rest), ~s.failed,
         Before(ToSet(s.buffer), {e}), Records(s.buffer, kinds),
         e \in DOMAIN kinds, kinds[e] = "record",
         NEW t, t = CollectRecord(c, s, e)
  PROVE  Ends(c, kinds, s.buffer, t)
<1>1. s \in Collecting /\ s.buffer \in Seq(Nat)
  BY DEF Ready, Collecting
<1>2. PICK v : v = [s EXCEPT !.buffer = Append(s.buffer, e)]
  OBVIOUS
<1>3. /\ v \in Collecting /\ v.buffer = Append(s.buffer, e) /\ v.credits = s.credits
      /\ v.queue = s.queue /\ v.failed = s.failed
  <2>1. Append(s.buffer, e) \in Seq(Nat)
    BY <1>1
  <2>2. QED  BY <1>1, <1>2, <2>1 DEF Collecting
<1>4. Increasing(v.buffer) /\ ToSet(v.buffer) = rest
  BY <1>1, <1>3, IncreasingAppend DEF Records
<1>5. Records(v.buffer, kinds)
  BY <1>4 DEF Records
<1>6. Ready(c, kinds, v, rest)
  BY <1>3, ReadySame
<1>7. CASE t = v
  BY <1>4, <1>5, <1>6, <1>7 DEF Ends
<1>8. CASE t = Flush(c, v)
  <2>1. rest = ToSet(v.buffer) \cup {} /\ Before(ToSet(v.buffer), {})
    BY <1>4 DEF Before
  <2>2. Flushed(c, kinds, v, t, rest, {})
    BY <1>3, <1>5, <1>6, <1>8, <2>1, FlushReady
  <2>3. CASE ~t.failed /\ t.buffer = <<>> /\ Ready(c, kinds, t, {})
    <3>1. ToSet(t.buffer) = {} /\ Increasing(t.buffer)
      BY <2>3 DEF ToSet, Increasing
    <3>2. QED  BY <2>3, <3>1 DEF Ends, Records
  <2>4. CASE t.failed /\ t.buffer \in {v.buffer, <<>>} /\ Ready(c, kinds, t, rest)
    BY <1>4, <1>5, <2>4 DEF Ends
  <2>5. QED  BY <2>2, <2>3, <2>4 DEF Flushed
<1>9. QED  BY <1>2, <1>7, <1>8 DEF CollectRecord

(* A watermark or a barrier goes out after what was buffered.              *)
LEMMA ControlEnds ==
  ASSUME ExchangeInv, NEW c \in Channels, NEW kinds, NEW s, NEW e \in Nat, e = Len(kinds),
         NEW rest, rest = ToSet(s.buffer) \cup {e}, rest \subseteq Nat,
         Ready(c, kinds, s, rest), ~s.failed,
         Before(ToSet(s.buffer), {e}), Records(s.buffer, kinds),
         NEW kind \in {"watermark", "barrier"}, e \in DOMAIN kinds, kinds[e] = kind,
         NEW t, t = IF kind = "watermark" THEN CollectWatermark(c, s, e) ELSE CollectBarrier(c, s, e)
  PROVE  Ends(c, kinds, s.buffer, t)
<1>1. PICK v : v = Flush(c, s)
  OBVIOUS
<1>2. Flushed(c, kinds, s, v, rest, {e})
  BY <1>1, FlushReady
<1>3. CASE v.failed
  <2>1. t = v
    BY <1>1, <1>3 DEF CollectWatermark, CollectBarrier
  <2>2. v.buffer \in {s.buffer, <<>>} /\ Ready(c, kinds, v, rest)
    BY <1>2, <1>3 DEF Flushed
  <2>3. QED  BY <1>3, <2>1, <2>2 DEF Ends
<1>4. CASE ~v.failed
  <2>1. v.buffer = <<>> /\ Ready(c, kinds, v, {e}) /\ v \in Collecting /\ v.credits \in Nat
    BY <1>2, <1>4 DEF Flushed, Ready, Collecting
  <2>2. PICK b : b = DataBatch(c, kind, <<e>>)
    OBVIOUS
  <2>3. /\ b \in Batch /\ b.channel = c /\ b.kind = kind /\ b.elems = <<e>>
    BY <2>2 DEF Batch, DataBatch
  <2>4. Elems(b) = {e}
    BY <2>3 DEF Elems, ToSet
  <2>5. Fits(b, kinds)
    BY <2>3, <2>4 DEF Fits, Increasing
  <2>6. ASSUME NEW w \in Collecting, w.queue = v.queue, w.buffer = v.buffer, w.failed = v.failed,
               w.credits = v.credits - (IF kind = "barrier" THEN 0 ELSE 1),
               t = TrySend(w, b)
        PROVE  Ends(c, kinds, s.buffer, t)
    <3>1. /\ t \in Collecting
          /\ t.buffer = w.buffer /\ t.credits = w.credits
          /\ \/ t.queue = Append(w.queue, b) /\ t.failed = w.failed /\ Len(w.queue) < OutBuffer
             \/ t.queue = w.queue /\ t.failed
      BY <2>3, <2>6, TrySendIs
    <3>2. CASE t.queue = Append(w.queue, b) /\ t.failed = w.failed /\ Len(w.queue) < OutBuffer
      <4>1. {e} = Elems(b) \cup {} /\ Before(Elems(b), {}) /\ {e} \subseteq Nat
        BY <2>4 DEF Before
      <4>2. t.credits = v.credits - (IF b.kind = "barrier" THEN 0 ELSE 1)
        BY <2>3, <2>6, <3>1
      <4>3. t.queue = Append(v.queue, b) /\ Len(v.queue) < OutBuffer /\ t.failed = v.failed
        BY <2>6, <3>2
      <4>4. Ready(c, kinds, t, {})
        BY <2>1, <2>3, <2>5, <3>1, <4>1, <4>2, <4>3, ReadySend
      <4>5. ToSet(t.buffer) = {} /\ Records(t.buffer, kinds)
        BY <2>1, <2>6, <3>1 DEF ToSet, Records, Increasing
      <4>6. QED  BY <4>4, <4>5 DEF Ends
    <3>3. CASE t.queue = w.queue /\ t.failed
      <4>1. Ready(c, kinds, t, {e})
        BY <2>1, <2>6, <3>1, <3>3, ReadyFails
      <4>2. QED  BY <2>1, <2>6, <3>1, <3>3, <4>1 DEF Ends
    <3>4. QED  BY <3>1, <3>2, <3>3
  <2>7. CASE kind = "barrier"
    <3>1. t = TrySend(v, b)
      BY <1>1, <1>4, <2>2, <2>7 DEF CollectBarrier
    <3>2. v.credits = v.credits - (IF kind = "barrier" THEN 0 ELSE 1)
      BY <2>1, <2>7
    <3>3. QED  BY <2>1, <2>6, <3>1, <3>2
  <2>8. CASE kind = "watermark" /\ v.credits > 0
    <3>1. PICK w : w = [v EXCEPT !.credits = v.credits - 1]
      OBVIOUS
    <3>2. t = TrySend(w, b)
      BY <1>1, <1>4, <2>2, <2>8, <3>1 DEF CollectWatermark
    <3>3. /\ w \in Collecting /\ w.queue = v.queue /\ w.buffer = v.buffer /\ w.failed = v.failed
          /\ w.credits = v.credits - 1
      <4>1. v.credits - 1 \in Nat
        BY <2>1, <2>8
      <4>2. QED  BY <2>1, <3>1, <4>1 DEF Collecting
    <3>4. w.credits = v.credits - (IF kind = "barrier" THEN 0 ELSE 1)
      BY <2>8, <3>3
    <3>5. QED  BY <2>6, <3>2, <3>3, <3>4
  <2>9. CASE kind = "watermark" /\ ~(v.credits > 0)
    <3>1. t = [v EXCEPT !.failed = TRUE]
      BY <1>1, <1>4, <2>9 DEF CollectWatermark
    <3>2. t \in Collecting /\ t.failed /\ t.queue = v.queue /\ t.buffer = v.buffer
      BY <2>1, <3>1 DEF Collecting
    <3>3. Ready(c, kinds, t, {e})
      BY <2>1, <3>2, ReadyFails
    <3>4. QED  BY <2>1, <3>2, <3>3 DEF Ends
  <2>10. QED  BY <2>7, <2>8, <2>9
<1>5. QED  BY <1>3, <1>4

Starts(c, kind, kinds, s, rest, e) ==
  /\ Ready(c, kinds, s, rest)
  /\ e \in Nat /\ e = Len(kinds) /\ rest \subseteq Nat /\ ~s.failed
  /\ Before(ToSet(s.buffer), {e}) /\ Records(s.buffer, kinds)
  /\ e \in DOMAIN kinds /\ kinds[e] = kind

(* A call starts with the buffer and the new element not sent.             *)
LEMMA ReadyStart ==
  ASSUME ExchangeInv, NEW c \in Channels, ~failed[c], NEW kind \in Kinds,
         NEW kinds, kinds = Append(collected[c], kind),
         NEW e, e = Len(collected[c]) + 1,
         NEW s, s = Collector(c), NEW rest, rest = ToSet(s.buffer) \cup {e}
  PROVE  Starts(c, kind, kinds, s, rest, e)
<1>1. PICK q : q = outbound[ConnOf[c]]
  OBVIOUS
<1>2. ConnOf[c] \in Connections
  BY ExchangeAssumption
<1>3. collected[c] \in Seq(Kinds) /\ buffer[c] \in Seq(Nat) /\ credits[c] \in Nat
      /\ q \in Seq(Batch) /\ Len(q) <= OutBuffer
  BY <1>1, <1>2 DEF ExchangeInv, ExchangeTypeOK
<1>4. /\ s.buffer = buffer[c] /\ s.credits = credits[c] /\ s.failed = FALSE /\ s.queue = q
      /\ s \in Collecting
  BY <1>1, <1>3 DEF Collector, Collecting
<1>5. /\ Len(kinds) = e /\ e \in Nat /\ e \in DOMAIN kinds /\ kinds[e] = kind
      /\ \A x \in DOMAIN collected[c] : x \in DOMAIN kinds /\ kinds[x] = collected[c][x] /\ x < e
                                        /\ x \in Nat
  BY <1>3
<1>6. \A S : S \subseteq DOMAIN collected[c] => Before(S, {e}) /\ S \subseteq Nat
  BY <1>5 DEF Before
<1>7. /\ Routed(c) \subseteq DOMAIN collected[c]
      /\ AllElems(Unrouted(c)) \subseteq DOMAIN collected[c]
      /\ ToSet(buffer[c]) \subseteq DOMAIN collected[c]
  BY RoutedCollected
<1>8. Sent(c, s) = Unrouted(c)
  BY <1>1, <1>4 DEF Sent, Unrouted, InFlight
<1>9. Records(s.buffer, kinds)
  BY <1>4, <1>5 DEF ExchangeInv, BufferInv, Records
<1>10. QueueFits(c, kinds, q)
  <2>1. ASSUME NEW k \in DOMAIN q
        PROVE  /\ ConnOf[q[k].channel] = ConnOf[c]
               /\ Fits(q[k], IF q[k].channel = c THEN kinds ELSE collected[q[k].channel])
    <3>1. ConnOf[q[k].channel] = ConnOf[c] /\ Fits(q[k], collected[q[k].channel])
      BY <1>1, <1>2, <2>1 DEF ExchangeInv, BatchInv
    <3>2. q[k].channel = c => Fits(q[k], kinds)
      BY <1>3, <3>1, FitsMore
    <3>3. QED  BY <3>1, <3>2
  <2>2. QED  BY <2>1 DEF QueueFits
<1>11. Neighbours(c, q)
  BY <1>1 DEF Neighbours, ExchangeInv, OrderInv
<1>12. Outward(c, Past(c), AllElems(Handled(c)), q, rest)
  <2>1. Outward(c, Past(c), AllElems(Handled(c)), q, ToSet(buffer[c]))
    BY <1>1 DEF ExchangeInv, OrderInv
  <2>2. Past(c) \cup AllElems(Handled(c)) \cup AllElems(OfChannel(c, q))
        \subseteq Routed(c) \cup AllElems(Unrouted(c))
    BY <1>1, AllElemsOf DEF Past, Unrouted, InFlight
  <2>3. Before(Past(c) \cup AllElems(Handled(c)) \cup AllElems(OfChannel(c, q)), {e})
    BY <1>6, <1>7, <2>2
  <2>4. PICK past : past = Past(c)
    OBVIOUS
  <2>5. PICK handled : handled = AllElems(Handled(c))
    OBVIOUS
  <2>6. PICK b : b = ToSet(buffer[c])
    OBVIOUS
  <2>7. PICK more : more = rest
    OBVIOUS
  <2>8. Outward(c, past, handled, q, b) /\ q \in Seq(Batch)
    BY <1>3, <2>1, <2>4, <2>5, <2>6
  <2>9. more \subseteq b \cup {e}
    BY <1>4, <2>6, <2>7
  <2>10. Before(past \cup handled \cup AllElems(OfChannel(c, q)), {e})
    BY <2>3, <2>4, <2>5
  <2>11. Outward(c, past, handled, q, more)
    BY <2>8, <2>9, <2>10, OutwardRest
  <2>12. QED  BY <2>4, <2>5, <2>7, <2>11
<1>13. Routed(c) \cup AllElems(Sent(c, s)) \cup rest = Known(c) \cup {Len(kinds)}
  BY <1>4, <1>5, <1>8 DEF Known
<1>14. IsFiniteSet(Sent(c, s))
  BY <1>8 DEF ExchangeInv, FiniteInv
<1>15. Balance(c, s) = Ledger(c)
  <2>1. Charged(c, s) = Spent(c)
    BY <1>8 DEF Charged, Spent
  <2>2. QED  BY <1>4, <2>1 DEF Balance, Ledger
<1>16. Ready(c, kinds, s, rest)
  BY <1>3, <1>4, <1>10, <1>11, <1>12, <1>13, <1>14, <1>15 DEF Ready
<1>17. rest \subseteq Nat /\ Before(ToSet(s.buffer), {e})
  BY <1>4, <1>5, <1>6, <1>7
<1>18. ~s.failed
  BY <1>4
<1>19. e \in Nat /\ e = Len(kinds) /\ e \in DOMAIN kinds /\ kinds[e] = kind
  BY <1>5
<1>20. QED  BY <1>9, <1>16, <1>17, <1>18, <1>19 DEF Starts

(* Less to come, the same before. *)
LEMMA OutwardShrink ==
  ASSUME NEW c, NEW past, NEW handled, NEW q, NEW rest, NEW left, left \subseteq rest,
         Outward(c, past, handled, q, rest)
  PROVE  Outward(c, past, handled, q, left)
<1>1. \A S : Before(S, rest) => Before(S, left)
  BY DEF Before
<1>2. QED  BY <1>1 DEF Outward

(* What a collector left, as the state of its channel. *)
Collected(c, kinds, s) ==
  /\ collected' = [collected EXCEPT ![c] = kinds]
  /\ buffer' = [buffer EXCEPT ![c] = s.buffer]
  /\ credits' = [credits EXCEPT ![c] = s.credits]
  /\ failed' = [failed EXCEPT ![c] = s.failed]
  /\ outbound' = [outbound EXCEPT ![ConnOf[c]] = s.queue]
  /\ UNCHANGED <<link, handler, seen, granting, grants>>
  /\ UNCHANGED <<lock, subscribed, dropped, inbox, arrived>>

LEMMA CollectEnds ==
  ASSUME ExchangeInv, NEW c \in Channels, NEW kind \in Kinds, Collect(c, kind)
  PROVE  \E s : /\ Ends(c, Append(collected[c], kind), buffer[c], s)
                /\ Collected(c, Append(collected[c], kind), s)
<1>1. PICK kinds : kinds = Append(collected[c], kind)
  OBVIOUS
<1>2. PICK e : e = Len(collected[c]) + 1
  OBVIOUS
<1>3. PICK s : s = Collector(c)
  OBVIOUS
<1>4. PICK rest : rest = ToSet(s.buffer) \cup {e}
  OBVIOUS
<1>5. ~failed[c]
  BY DEF Collect
<1>6. /\ Ready(c, kinds, s, rest)
      /\ e \in Nat /\ e = Len(kinds) /\ rest \subseteq Nat /\ ~s.failed
      /\ Before(ToSet(s.buffer), {e}) /\ Records(s.buffer, kinds)
      /\ e \in DOMAIN kinds /\ kinds[e] = kind
  <2>1. Starts(c, kind, kinds, s, rest, e)
    BY <1>1, <1>2, <1>3, <1>4, <1>5, ReadyStart
  <2>2. QED  BY <2>1 DEF Starts
<1>7. s.buffer = buffer[c]
  BY <1>3 DEF Collector
<1>8. CASE kind = "record"
  <2>1. PICK t : t = CollectRecord(c, s, e)
    OBVIOUS
  <2>2. Ends(c, kinds, s.buffer, t)
    BY <1>4, <1>6, <1>8, <2>1, CollectRecordEnds
  <2>3. Collected(c, kinds, t)
    BY <1>1, <1>2, <1>3, <1>8, <2>1 DEF Collect, Collected, returning, router, receiver
  <2>4. QED  BY <1>1, <1>7, <2>2, <2>3
<1>9. CASE kind \in {"watermark", "barrier"}
  <2>1. PICK t : t = IF kind = "watermark" THEN CollectWatermark(c, s, e) ELSE CollectBarrier(c, s, e)
    OBVIOUS
  <2>2. Ends(c, kinds, s.buffer, t)
    BY <1>4, <1>6, <1>9, <2>1, ControlEnds
  <2>3. Collected(c, kinds, t)
    <3>1. CASE kind = "watermark"
      BY <1>1, <1>2, <1>3, <2>1, <3>1 DEF Collect, Collected, returning, router, receiver
    <3>2. CASE kind = "barrier"
      BY <1>1, <1>2, <1>3, <2>1, <3>2 DEF Collect, Collected, returning, router, receiver
    <3>3. QED  BY <1>9, <3>1, <3>2
  <2>4. QED  BY <1>1, <1>7, <2>2, <2>3
<1>10. QED  BY <1>8, <1>9 DEF Kinds

(* A call of the collector keeps the invariant: what it sent follows what  *)
(* its channel sent before, what it did not send is in the buffer or was   *)
(* its last.                                                               *)
LEMMA CollectKeeps ==
  ASSUME ExchangeInv, NEW c \in Channels, NEW kind \in Kinds, Collect(c, kind)
  PROVE  ExchangeInv'
<1>1. PICK kinds : kinds = Append(collected[c], kind)
  OBVIOUS
<1>2. PICK s : Ends(c, kinds, buffer[c], s) /\ Collected(c, kinds, s)
  BY <1>1, CollectEnds
<1>3. PICK buf : buf = buffer[c]
  OBVIOUS
<1>4. PICK rest : /\ Ready(c, kinds, s, rest)
                  /\ \/ ToSet(s.buffer) = rest /\ Records(s.buffer, kinds)
                     \/ s.failed /\ s.buffer = <<>>
                     \/ s.failed /\ s.buffer = buf /\ rest = ToSet(buf) \cup {Len(kinds)}
  BY <1>2, <1>3 DEF Ends
<1>5. /\ collected' = [collected EXCEPT ![c] = kinds]
      /\ buffer' = [buffer EXCEPT ![c] = s.buffer]
      /\ credits' = [credits EXCEPT ![c] = s.credits]
      /\ failed' = [failed EXCEPT ![c] = s.failed]
      /\ outbound' = [outbound EXCEPT ![ConnOf[c]] = s.queue]
      /\ UNCHANGED <<link, handler, seen, granting, grants>>
      /\ UNCHANGED <<lock, subscribed, dropped, inbox, arrived>>
  BY <1>2 DEF Collected
<1>6. ExchangeTypeOK
  BY DEF ExchangeInv
<1>7. /\ s.buffer \in Seq(Nat) /\ s.credits \in Nat /\ s.failed \in BOOLEAN
      /\ s.queue \in Seq(Batch) /\ Len(s.queue) <= OutBuffer
  BY <1>4 DEF Ready, Collecting
<1>8. /\ collected \in [Channels -> Seq(Kinds)] /\ buffer \in [Channels -> Seq(Nat)]
      /\ credits \in [Channels -> Nat] /\ failed \in [Channels -> BOOLEAN]
      /\ outbound \in [Connections -> Seq(Batch)] /\ ConnOf[c] \in Connections
      /\ collected[c] \in Seq(Kinds)
  BY <1>6, ExchangeAssumption DEF ExchangeTypeOK
<1>9. /\ kinds \in Seq(Kinds) /\ Len(kinds) \in Nat
      /\ \A e \in DOMAIN collected[c] :
           e \in DOMAIN kinds /\ kinds[e] = collected[c][e] /\ e < Len(kinds)
      /\ \A e \in DOMAIN kinds : e \in DOMAIN collected[c] \/ e = Len(kinds)
  BY <1>1, <1>8
<1>10. /\ collected'[c] = kinds /\ buffer'[c] = s.buffer /\ credits'[c] = s.credits
       /\ failed'[c] = s.failed /\ outbound'[ConnOf[c]] = s.queue
  BY <1>5, <1>8
<1>11. \A d \in Channels \ {c} : /\ collected'[d] = collected[d] /\ buffer'[d] = buffer[d]
                                 /\ credits'[d] = credits[d] /\ failed'[d] = failed[d]
  BY <1>5, <1>8
<1>12. \A n \in Connections : n # ConnOf[c] => outbound'[n] = outbound[n]
  BY <1>5, <1>8
<1>13. \A b : Fits(b, collected[c]) => Fits(b, kinds)
  BY <1>1, <1>8, FitsMore
<1>14. \A b, d : d \in Channels /\ Fits(b, collected[d]) => Fits(b, collected'[d])
  BY <1>10, <1>11, <1>13
<1>15. Neighbours(c, s.queue) /\ QueueFits(c, kinds, s.queue)
  BY <1>4 DEF Ready
<1>16. Outward(c, Past(c), AllElems(Handled(c)), s.queue, rest)
  BY <1>4 DEF Ready
<1>17. \A d \in Channels :
         Handled(d)' = Handled(d) /\ Routed(d)' = Routed(d) /\ Past(d)' = Past(d)
  BY <1>5 DEF Handled, Routed, Past
<1>18. \A d \in Channels \ {c} : InFlight(d)' = InFlight(d) /\ Unrouted(d)' = Unrouted(d)
  <2>1. ASSUME NEW d \in Channels \ {c}
        PROVE  OfChannel(d, outbound'[ConnOf[d]]) = OfChannel(d, outbound[ConnOf[d]])
    <3>1. CASE ConnOf[d] = ConnOf[c]
      BY <1>10, <1>15, <3>1 DEF Neighbours
    <3>2. CASE ConnOf[d] # ConnOf[c]
      BY <1>12, <3>2, ExchangeAssumption
    <3>3. QED  BY <3>1, <3>2
  <2>2. QED  BY <1>5, <1>17, <2>1 DEF InFlight, Unrouted
<1>19. Unrouted(c)' = Sent(c, s)
  BY <1>5, <1>10, <1>17 DEF Sent, Unrouted, InFlight
<1>20. \A d \in Channels \ {c} : Known(d)' = Known(d)
  BY <1>11, <1>17, <1>18 DEF Known
<1>21. Known(c)' = Routed(c) \cup AllElems(Sent(c, s)) \cup ToSet(s.buffer)
  BY <1>10, <1>17, <1>19 DEF Known
<1>22. Routed(c) \cup AllElems(Sent(c, s)) \cup rest = Known(c) \cup {Len(kinds)}
  BY <1>4 DEF Ready
<1>23. ToSet(s.buffer) \subseteq rest
  BY <1>4 DEF ToSet
<1>24. ToSet(buf) \subseteq DOMAIN collected[c] /\ Increasing(buf)
       /\ \A e \in ToSet(buf) : collected[c][e] = "record"
  BY <1>3 DEF ExchangeInv, BufferInv
<1>25. Records(s.buffer, kinds)
  <2>1. Records(buf, kinds)
    BY <1>9, <1>24 DEF Records
  <2>2. Records(<<>>, kinds)
    BY DEF Records, Increasing, ToSet
  <2>3. QED  BY <1>4, <2>1, <2>2
<1>26. ExchangeTypeOK'
  <2>1. /\ collected' \in [Channels -> Seq(Kinds)] /\ buffer' \in [Channels -> Seq(Nat)]
        /\ credits' \in [Channels -> Nat] /\ failed' \in [Channels -> BOOLEAN]
        /\ outbound' \in [Connections -> Seq(Batch)]
    BY <1>5, <1>7, <1>8, <1>9
  <2>2. \A n \in Connections : Len(outbound'[n]) <= OutBuffer
    BY <1>6, <1>7, <1>10, <1>12 DEF ExchangeTypeOK
  <2>3. QED  BY <1>5, <1>6, <2>1, <2>2 DEF ExchangeTypeOK
<1>27. BatchInv'
  <2>1. ASSUME NEW n \in Connections, NEW k \in DOMAIN outbound'[n]
        PROVE  /\ ConnOf[outbound'[n][k].channel] = n
               /\ Fits(outbound'[n][k], collected'[outbound'[n][k].channel])
    <3>1. outbound'[n][k].channel \in Channels
      <4>1. outbound'[n] \in Seq(Batch)
        BY <1>26 DEF ExchangeTypeOK
      <4>2. outbound'[n][k] \in Batch
        BY <2>1, <4>1
      <4>3. QED  BY <4>2 DEF Batch
    <3>2. CASE n = ConnOf[c]
      BY <1>10, <1>11, <1>15, <2>1, <3>1, <3>2 DEF QueueFits
    <3>3. CASE n # ConnOf[c]
      BY <1>12, <1>14, <2>1, <3>1, <3>3 DEF ExchangeInv, BatchInv
    <3>4. QED  BY <3>2, <3>3
  <2>2. ASSUME NEW n \in Connections, handler'[n] # Idle
        PROVE  /\ ConnOf[handler'[n].batch.channel] = n
               /\ Fits(handler'[n].batch, collected'[handler'[n].batch.channel])
    <3>1. handler'[n] = handler[n]
      BY <1>5
    <3>2. handler[n].batch.channel \in Channels
      <4>1. handler[n] \in Handling
        BY <1>6, <2>2, <3>1 DEF ExchangeTypeOK
      <4>2. QED  BY <4>1 DEF Handling, Batch
    <3>3. QED  BY <1>14, <2>2, <3>1, <3>2 DEF ExchangeInv, BatchInv
  <2>3. ASSUME NEW d \in Channels
        PROVE  /\ \A k \in DOMAIN inbox'[d] :
                    inbox'[d][k].channel = d /\ Fits(inbox'[d][k], collected'[d])
               /\ \A b \in dropped'[d] : b.channel = d /\ Fits(b, collected'[d])
    BY <1>5, <1>14 DEF ExchangeInv, BatchInv
  <2>4. QED  BY <2>1, <2>2, <2>3 DEF BatchInv
<1>28. BufferInv'
  BY <1>10, <1>11, <1>25 DEF ExchangeInv, BufferInv, Records
<1>29. ArrivalInv'
  <2>1. ASSUME NEW d \in Channels
        PROVE  /\ \A e \in ToSet(arrived'[d]) : e \in DOMAIN collected'[d]
               /\ Inward(arrived'[d], inbox'[d])
    <3>1. /\ \A e \in ToSet(arrived[d]) : e \in DOMAIN collected[d]
          /\ Inward(arrived[d], inbox[d])
      BY DEF ExchangeInv, ArrivalInv
    <3>2. QED  BY <1>5, <1>9, <1>10, <1>11, <3>1
  <2>2. QED  BY <2>1 DEF ArrivalInv
<1>30. OrderInv'
  <2>1. ASSUME NEW d \in Channels
        PROVE  Outward(d, Past(d), AllElems(Handled(d)), outbound[ConnOf[d]], ToSet(buffer[d]))'
    <3>1. CASE d = c
      <4>1. PICK past, handled, left :
              past = Past(c) /\ handled = AllElems(Handled(c)) /\ left = ToSet(s.buffer)
        OBVIOUS
      <4>2. Outward(c, past, handled, s.queue, left)
        BY <1>16, <1>23, <4>1, OutwardShrink
      <4>3. QED  BY <1>10, <1>17, <3>1, <4>1, <4>2
    <3>2. CASE d # c /\ ConnOf[d] = ConnOf[c]
      BY <1>10, <1>11, <1>15, <1>17, <3>2 DEF Neighbours
    <3>3. CASE d # c /\ ConnOf[d] # ConnOf[c]
      <4>1. Outward(d, Past(d), AllElems(Handled(d)), outbound[ConnOf[d]], ToSet(buffer[d]))
        BY DEF ExchangeInv, OrderInv
      <4>2. outbound'[ConnOf[d]] = outbound[ConnOf[d]] /\ buffer'[d] = buffer[d]
        BY <1>11, <1>12, <3>3, ExchangeAssumption
      <4>3. QED  BY <1>17, <4>1, <4>2
    <3>4. QED  BY <3>1, <3>2, <3>3
  <2>2. QED  BY <2>1 DEF OrderInv
<1>31. GapInv'
  <2>1. Before(Routed(c) \cup AllElems(Sent(c, s)), rest)
    <3>1. Before(Past(c) \cup AllElems(Handled(c)), rest)
      BY <1>16 DEF Outward
    <3>2. \A b \in OfChannel(c, s.queue) : Before(Elems(b), rest)
      BY <1>16 DEF OfChannel, ToSet, Outward
    <3>3. Before(AllElems(OfChannel(c, s.queue)), rest)
      BY <3>2 DEF Before, AllElems
    <3>4. AllElems(Sent(c, s))
          = AllElems(Handled(c)) \cup AllElems(OfChannel(c, s.queue)) \cup AllElems(dropped[c])
      BY DEF Sent, AllElems
    <3>5. QED  BY <3>1, <3>3, <3>4 DEF Before, Past
  <2>2. ASSUME NEW e \in DOMAIN kinds, kinds[e] # "watermark", e \notin Known(c)'
        PROVE  s.failed /\ Before(Known(c)', {e})
    <3>1. e \in Known(c) \cup {Len(kinds)}
      <4>1. ~failed[c]
        BY DEF Collect
      <4>2. CASE e \in DOMAIN collected[c]
        BY <1>9, <2>2, <4>1, <4>2 DEF ExchangeInv, GapInv
      <4>3. CASE e = Len(kinds)
        BY <4>3
      <4>4. QED  BY <1>9, <4>2, <4>3
    <3>2. e \in rest /\ e \notin ToSet(s.buffer)
      BY <1>21, <1>22, <2>2, <3>1
    <3>3. Before(Routed(c) \cup AllElems(Sent(c, s)), {e})
      BY <2>1, <3>2 DEF Before
    <3>4. s.failed /\ Before(ToSet(s.buffer), {e})
      <4>1. CASE s.failed /\ s.buffer = <<>>
        BY <4>1 DEF Before, ToSet
      <4>2. CASE s.failed /\ s.buffer = buf /\ rest = ToSet(buf) \cup {Len(kinds)}
        <5>1. e = Len(kinds)
          BY <3>2, <4>2
        <5>2. QED  BY <1>9, <1>24, <4>2, <5>1 DEF Before
      <4>3. QED  BY <1>4, <3>2, <4>1, <4>2
    <3>5. QED  BY <1>21, <3>3, <3>4 DEF Before
  <2>3. ASSUME NEW d \in Channels, NEW e \in DOMAIN collected'[d]
        PROVE  \/ collected'[d][e] = "watermark"
               \/ e \in Known(d)'
               \/ failed'[d] /\ Before(Known(d)', {e})
    <3>1. CASE d = c
      BY <1>10, <2>2, <2>3, <3>1
    <3>2. CASE d # c
      <4>1. /\ e \in DOMAIN collected[d] /\ collected'[d] = collected[d]
            /\ failed'[d] = failed[d] /\ Known(d)' = Known(d)
        BY <1>11, <1>20, <2>3, <3>2
      <4>2. \/ collected[d][e] = "watermark"
            \/ e \in Known(d)
            \/ failed[d] /\ Before(Known(d), {e})
        BY <4>1 DEF ExchangeInv, GapInv
      <4>3. QED  BY <4>1, <4>2
    <3>3. QED  BY <3>1, <3>2
  <2>4. QED  BY <2>3 DEF GapInv
<1>32. GrantInv'
  BY <1>5 DEF ExchangeInv, GrantInv, Homeward
<1>33. FiniteInv'
  <2>1. IsFiniteSet(Sent(c, s))
    BY <1>4 DEF Ready
  <2>2. QED  BY <1>18, <1>19, <2>1 DEF ExchangeInv, FiniteInv
<1>34. CreditConservation'
  <2>1. \A d \in Channels : Granted(d)' = Granted(d) /\ Owed(d)' = Owed(d)
    BY <1>5 DEF Granted, Carried, Owed
  <2>2. \A d \in Channels : Barriers(d)' = Barriers(d)
    <3>1. Barriers(c)' = Barriers(c)
      BY <1>9, <1>10, <1>17, RoutedCollected DEF Barriers
    <3>2. \A d \in Channels \ {c} : Barriers(d)' = Barriers(d)
      BY <1>11, <1>17 DEF Barriers
    <3>3. QED  BY <3>1, <3>2
  <2>3. ~s.failed => Balance(c, s) = Ledger(c)
    BY <1>4 DEF Ready
  <2>4. Spent(c)' = Charged(c, s)
    BY <1>19 DEF Spent, Charged
  <2>5. \A d \in Channels \ {c} : Spent(d)' = Spent(d)
    BY <1>18 DEF Spent
  <2>6. \A d \in Channels : Entitled(d)' = Entitled(d)
    BY <1>5, <2>2 DEF Entitled
  <2>7. Ledger(c)' = Balance(c, s)
    BY <1>10, <2>1, <2>4 DEF Ledger, Balance
  <2>8. \A d \in Channels \ {c} : Ledger(d)' = Ledger(d)
    BY <1>11, <2>1, <2>5 DEF Ledger
  <2>9. ASSUME NEW d \in Channels, ~failed'[d]
        PROVE  ~failed[d] /\ Ledger(d)' = Ledger(d)
    <3>1. CASE d = c
      <4>1. ~failed[c]
        BY DEF Collect
      <4>2. QED  BY <1>10, <2>3, <2>7, <2>9, <3>1, <4>1
    <3>2. CASE d # c
      BY <1>11, <2>8, <2>9, <3>2
    <3>3. QED  BY <3>1, <3>2
  <2>10. QED  BY <1>5, <2>6, <2>9 DEF ExchangeInv, CreditConservation
<1>35. QED
  BY <1>26, <1>27, <1>28, <1>29, <1>30, <1>31, <1>32, <1>33, <1>34 DEF ExchangeInv

LEMMA ExchangeStarts ==
  ASSUME ExchangeInit
  PROVE  ExchangeInv
<1>1. /\ \A n \in Connections : /\ outbound[n] = <<>> /\ handler[n] = Idle
                                /\ granting[n] = <<>> /\ grants[n] = <<>>
                                /\ seen[n] = {} /\ link[n] = "new"
      /\ \A c \in Channels : /\ collected[c] = <<>> /\ buffer[c] = <<>> /\ credits[c] = 0
                             /\ failed[c] = FALSE /\ inbox[c] = <<>> /\ arrived[c] = <<>>
                             /\ dropped[c] = {} /\ ConnOf[c] \in Connections
      /\ lock = None /\ subscribed = {}
  BY ExchangeAssumption DEF ExchangeInit
<1>2. ToSet(<<>>) = {} /\ DOMAIN <<>> = {} /\ Len(<<>>) = 0 /\ Increasing(<<>>)
  BY DEF ToSet, Increasing
<1>3. \A c \in Channels : Handled(c) = {} /\ OfChannel(c, outbound[ConnOf[c]]) = {}
  BY <1>1, OfChannelEmpty DEF Handled, Idle
<1>4. \A c \in Channels : Unrouted(c) = {} /\ Spent(c) = {}
  BY <1>1, <1>3 DEF Unrouted, InFlight, Spent
<1>5. \A c \in Channels : Routed(c) = {} /\ Past(c) = {} /\ Barriers(c) = {}
  BY <1>1, <1>2, AllElemsOf DEF Routed, Past, Barriers
<1>6. ExchangeTypeOK
  <2>1. \A T : <<>> \in Seq(T)
    OBVIOUS
  <2>2. 0 <= OutBuffer /\ 0 <= InCapacity /\ 0 <= StreamRoom /\ 0 <= GrantRoom
    BY ExchangeAssumption
  <2>3. /\ collected \in [Channels -> Seq(Kinds)] /\ buffer \in [Channels -> Seq(Nat)]
        /\ credits \in [Channels -> Nat] /\ failed \in [Channels -> BOOLEAN]
        /\ outbound \in [Connections -> Seq(Batch)]
    BY <2>1 DEF ExchangeInit
  <2>4. /\ link \in [Connections -> {"new", "open", "broken"}]
        /\ handler \in [Connections -> {Idle} \cup Handling]
        /\ seen \in [Connections -> SUBSET Channels]
        /\ granting \in [Connections -> Seq(CreditGrants)]
        /\ grants \in [Connections -> Seq(CreditGrants)]
    BY <2>1 DEF ExchangeInit
  <2>5. /\ inbox \in [Channels -> Seq(Batch)] /\ arrived \in [Channels -> Seq(Nat)]
        /\ dropped \in [Channels -> SUBSET Batch]
    BY <2>1 DEF ExchangeInit
  <2>6. \A n \in Connections : /\ Len(outbound[n]) <= OutBuffer
                               /\ Len(granting[n]) <= StreamRoom /\ Len(grants[n]) <= GrantRoom
    BY <1>1, <1>2, <2>2
  <2>7. \A c \in Channels : Len(inbox[c]) <= InCapacity
    BY <1>1, <1>2, <2>2
  <2>8. QED  BY <1>1, <2>3, <2>4, <2>5, <2>6, <2>7 DEF ExchangeTypeOK
<1>7. BatchInv
  BY <1>1, <1>2 DEF BatchInv
<1>8. BufferInv
  BY <1>1, <1>2 DEF BufferInv
<1>9. ArrivalInv
  BY <1>1, <1>2 DEF ArrivalInv, Inward
<1>10. OrderInv
  <2>1. ASSUME NEW c \in Channels
        PROVE  Outward(c, Past(c), AllElems(Handled(c)), outbound[ConnOf[c]], ToSet(buffer[c]))
    <3>1. Outward(c, {}, {}, <<>>, {})
      BY <1>2 DEF Outward, Before
    <3>2. AllElems(Handled(c)) = {}
      BY <1>3, AllElemsOf
    <3>3. QED  BY <1>1, <1>2, <1>5, <3>1, <3>2
  <2>2. QED  BY <2>1 DEF OrderInv
<1>11. GapInv
  BY <1>1, <1>2 DEF GapInv
<1>12. GrantInv
  BY <1>1, <1>2 DEF GrantInv, Homeward
<1>13. FiniteInv
  BY <1>4, FS_EmptySet DEF FiniteInv
<1>14. CreditConservation
  <2>1. ASSUME NEW c \in Channels
        PROVE  Ledger(c) = 0 /\ Entitled(c) = 0
    <3>1. Granted(c) = 0
      <4>1. CreditsOf(c, <<>>) = <<>>
        BY <1>2 DEF CreditsOf
      <4>2. granting[ConnOf[c]] = <<>> /\ grants[ConnOf[c]] = <<>>
        BY <1>1
      <4>3. <<>> \in Seq(Nat) /\ Len(<<>>) = 0
        OBVIOUS
      <4>4. Total(<<>>) = 0
        BY <4>3, TotalEmpty
      <4>5. QED  BY <4>1, <4>2, <4>4 DEF Granted, Carried
    <3>2. Owed(c) = 0
      BY <1>1 DEF Owed, Idle
    <3>3. Cardinality({}) = 0
      BY FS_EmptySet
    <3>4. Spent(c) = {} /\ Barriers(c) = {} /\ credits[c] = 0 /\ c \notin seen[ConnOf[c]]
      BY <1>1, <1>4, <1>5
    <3>5. QED  BY <3>1, <3>2, <3>3, <3>4 DEF Ledger, Entitled
  <2>2. QED  BY <2>1 DEF CreditConservation
<1>15. QED
  BY <1>6, <1>7, <1>8, <1>9, <1>10, <1>11, <1>12, <1>13, <1>14 DEF ExchangeInv

LEMMA ExchangeKeeps ==
  ASSUME ExchangeInv, [ExchangeNext]_exchangeVars
  PROVE  ExchangeInv'
<1>1. CASE UNCHANGED exchangeVars
  <2>1. UNCHANGED <<cargo, credits, granting, grants, seen, link, lock, subscribed>>
    BY <1>1 DEF exchangeVars, sender, stream, returning, router, receiver, cargo
  <2>2. ExchangeTypeOK'
    BY <2>1 DEF ExchangeInv, ExchangeTypeOK, cargo
  <2>3. UNCHANGED cargo /\ UNCHANGED <<cargo, credits, granting, grants, seen>> /\ SameLink
    BY <2>1 DEF SameLink
  <2>4. QED  BY <2>2, <2>3, CargoKeeps, CreditSame DEF ExchangeInv, Placed
<1>2. ASSUME NEW n \in Connections, NextBatch(n)
      PROVE  ExchangeInv'
  BY <1>2, NextBatchKeeps
<1>3. ASSUME NEW n \in Connections, Route(n)
      PROVE  ExchangeInv'
  BY <1>3, RouteKeeps
<1>4. ASSUME NEW n \in Connections, RouteSend(n)
      PROVE  ExchangeInv'
  BY <1>4, RouteSendKeeps
<1>5. ASSUME NEW c \in Channels, Recv(c)
      PROVE  ExchangeInv'
  BY <1>5, RecvKeeps
<1>6. ASSUME NEW n \in Connections, OpenExchange(n)
      PROVE  ExchangeInv'
  BY <1>6, OpenExchangeKeeps
<1>7. ASSUME NEW n \in Connections, Break(n)
      PROVE  ExchangeInv'
  BY <1>7, BreakKeeps
<1>8. ASSUME NEW n \in Connections, GrantCredits(n)
      PROVE  ExchangeInv'
  BY <1>8, GrantCreditsKeeps
<1>9. ASSUME NEW c \in Channels, Subscribe(c) \/ Unsubscribe(c)
      PROVE  ExchangeInv'
  BY <1>9, SubscribeKeeps
<1>10. ASSUME NEW c \in Channels, NEW kind \in Kinds, Collect(c, kind)
       PROVE  ExchangeInv'
  BY <1>10, CollectKeeps
<1>11. ASSUME NEW n \in Connections, InitialGrant(n)
       PROVE  ExchangeInv'
  BY <1>11, InitialGrantKeeps
<1>12. ASSUME NEW n \in Connections, CreditGrant(n)
       PROVE  ExchangeInv'
  BY <1>12, CreditGrantKeeps
<1>13. ASSUME NEW n \in Connections, ForwardGrant(n)
       PROVE  ExchangeInv'
  BY <1>13, ForwardGrantKeeps
<1>14. ASSUME NEW n \in Connections, Lose(n)
       PROVE  ExchangeInv'
  BY <1>14, LoseKeeps
<1>15. QED
  BY <1>1, <1>2, <1>3, <1>4, <1>5, <1>6, <1>7, <1>8, <1>9, <1>10, <1>11, <1>12, <1>13, <1>14
     DEF ExchangeNext, Deliver, Handle

(* The invariant keeps what arrived in order and without gaps: a collected *)
(* element that did not arrive, and was neither lost nor dropped, is still *)
(* on its way, so it comes after every one that arrived.                   *)
LEMMA ArrivedInOrder ==
  ASSUME ExchangeInv
  PROVE  InOrderNoGaps
<1>1. SUFFICES ASSUME NEW c \in Channels
               PROVE  /\ Increasing(arrived[c])
                      /\ arrived[c] # <<>> => \A e \in 1..Last(arrived[c]) :
                           collected[c][e] # "watermark" =>
                             e \in ToSet(arrived[c]) \cup AllElems(dropped[c])
  BY DEF InOrderNoGaps
<1>2. Increasing(arrived[c])
  BY DEF ExchangeInv, ArrivalInv, Inward
<1>3. ASSUME arrived[c] # <<>>, NEW e \in 1..Last(arrived[c]), collected[c][e] # "watermark"
      PROVE  e \in ToSet(arrived[c]) \cup AllElems(dropped[c])
  <2>1. PICK a : a = arrived[c]
    OBVIOUS
  <2>2. PICK last : last = a[Len(a)]
    OBVIOUS
  <2>3. a \in Seq(Nat) /\ collected[c] \in Seq(Kinds)
    BY <2>1 DEF ExchangeInv, ExchangeTypeOK
  <2>4. Len(a) \in DOMAIN a
    BY <1>3, <2>1, <2>3
  <2>5. last \in ToSet(a) /\ e \in 1..last /\ last \in Nat
    BY <1>3, <2>1, <2>2, <2>3, <2>4 DEF ToSet, Last
  <2>6. last \in DOMAIN collected[c] /\ last \in Routed(c) /\ last \in Known(c) /\ last \in Past(c)
    BY <2>1, <2>5 DEF ExchangeInv, ArrivalInv, Routed, Known, Past
  <2>7. e \in DOMAIN collected[c] /\ e <= last /\ e \in Nat
    BY <2>3, <2>5, <2>6
  <2>8. ~Before(Known(c), {e})
    BY <2>5, <2>6, <2>7 DEF Before
  <2>9. e \in Known(c)
    BY <1>3, <2>7, <2>8 DEF ExchangeInv, GapInv
  <2>10. \A S : Before(Past(c), S) \/ Before({last}, S) => e \notin S
    BY <2>5, <2>6, <2>7 DEF Before
  <2>11. Outward(c, Past(c), AllElems(Handled(c)), outbound[ConnOf[c]], ToSet(buffer[c]))
    BY DEF ExchangeInv, OrderInv
  <2>12. \A S, T : Before(S \cup T, {}) /\ (\A U : Before(S \cup T, U) => Before(S, U))
    BY DEF Before
  <2>13. e \notin AllElems(Handled(c)) /\ e \notin ToSet(buffer[c])
    BY <2>10, <2>11, <2>12 DEF Outward
  <2>14. e \notin AllElems(OfChannel(c, outbound[ConnOf[c]]))
    <3>1. ASSUME NEW b \in OfChannel(c, outbound[ConnOf[c]])
          PROVE  e \notin Elems(b)
      <4>1. PICK k \in DOMAIN outbound[ConnOf[c]] : b = outbound[ConnOf[c]][k] /\ b.channel = c
        BY <3>1 DEF OfChannel, ToSet
      <4>2. Before(Past(c) \cup AllElems(Handled(c)), Elems(b))
        BY <2>11, <4>1 DEF Outward
      <4>3. QED  BY <2>10, <2>12, <4>2
    <3>2. QED  BY <3>1 DEF AllElems
  <2>15. e \notin AllElems(ToSet(inbox[c]))
    <3>1. \A k \in DOMAIN inbox[c] : Before(ToSet(a), Elems(inbox[c][k]))
      BY <2>1 DEF ExchangeInv, ArrivalInv, Inward
    <3>2. \A k \in DOMAIN inbox[c] : e \notin Elems(inbox[c][k])
      BY <2>5, <2>7, <3>1 DEF Before
    <3>3. QED  BY <3>2 DEF AllElems, ToSet
  <2>16. e \in ToSet(a) \cup AllElems(dropped[c])
    BY <2>1, <2>9, <2>13, <2>14, <2>15 DEF Known, Routed, Unrouted, InFlight, AllElems
  <2>17. QED  BY <2>1, <2>16
<1>4. QED  BY <1>2, <1>3

(* The exchange's inductive invariant holds in every reachable state.      *)
THEOREM ExchangeInvariance == ExchangeSpec => []ExchangeInv
<1>1. ExchangeInit => ExchangeInv
  BY ExchangeStarts
<1>2. ExchangeInv /\ [ExchangeNext]_exchangeVars => ExchangeInv'
  BY ExchangeKeeps
<1>3. QED  BY <1>1, <1>2, PTL DEF ExchangeSpec

(* Type correctness: no queue of the exchange passes its capacity, neither *)
(* of batches nor of grants, and credits never go below zero.              *)
THEOREM ExchangeTypeCorrect == ExchangeSpec => []ExchangeTypeOK
<1>1. ExchangeInv => ExchangeTypeOK
  BY DEF ExchangeInv
<1>2. QED  BY <1>1, ExchangeInvariance, PTL

(* What NetworkInput::recv returned is in the order collected, and nothing *)
(* is missing before it but what was dropped.                              *)
THEOREM ArrivesInOrder == ExchangeSpec => []InOrderNoGaps
<1>1. ExchangeInv => InOrderNoGaps
  BY ArrivedInOrder
<1>2. QED  BY <1>1, ExchangeInvariance, PTL

(* No credit is made between flush, router and grant but the initial ones  *)
(* and one for each delivered barrier, and none is lost but on a stream    *)
(* that broke.                                                             *)
THEOREM CreditsConserved == ExchangeSpec => []CreditConservation
<1>1. ExchangeInv => CreditConservation
  BY DEF ExchangeInv
<1>2. QED  BY <1>1, ExchangeInvariance, PTL
=============================================================================
