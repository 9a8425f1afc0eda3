---------------------------- MODULE MergeProofs ----------------------------
(***************************************************************************)
(* Proofs about Merge for any inputs, event times, barriers and output     *)
(* capacity: the merged stream is in event time, and Ok is returned only   *)
(* after everything was forwarded.                                         *)
(***************************************************************************)
EXTENDS Merge, FilterLemmas, SequenceTheorems, FiniteSetTheorems

IsWm(e) == e.kind = "watermark"
IsTimed(e) == e.kind \in {"record", "watermark"}

(* The barriers and the ends of the inputs.  At most one barrier is         *)
(* awaited, and while it is, its own input is not read: nothing ever has to *)
(* be buffered.                                                             *)
Alignment ==
  /\ pending[1] = 0 \/ pending[2] = 0
  /\ \A i \in Inputs : buffer[i] = <<>>
  /\ \A i \in Inputs : pending[i] # 0 => inputOpen[1] \/ inputOpen[2]
  /\ \A i \in Inputs : ~inputOpen[i] => ~open[i] /\ taken[i] = Len(sent[i])
  /\ result = "ok" => ~inputOpen[1] /\ ~inputOpen[2]

(* The event time of an input: what it still has to deliver is ahead of    *)
(* the last watermark received on it, and that of the merged watermark.     *)
InputsInEventTime ==
  \A i \in Inputs :
    /\ \A m \in DOMAIN sent[i] : \A k \in 1..(m - 1) :
         IsWm(sent[i][k]) /\ IsTimed(sent[i][m]) => sent[i][m].val > sent[i][k].val
    /\ \/ watermark[i] = 0
       \/ \E k \in 1..taken[i] : IsWm(sent[i][k]) /\ sent[i][k].val = watermark[i]
    /\ \A k \in DOMAIN sent[i] :
         k > taken[i] /\ IsTimed(sent[i][k]) => sent[i][k].val > watermark[i]
    /\ lastWatermark <= watermark[i]

(* The element under way downstream fits behind what was sent. *)
NextInEventTime ==
  /\ Len(toSend) <= 1
  /\ \A m \in DOMAIN out : IsWm(out[m].elem) => out[m].elem.val <= lastWatermark
  /\ toSend # <<>> =>
       /\ IsWm(toSend[1].elem) => toSend[1].elem.val <= lastWatermark
       /\ \A m \in DOMAIN out :
            IsWm(out[m].elem) /\ IsTimed(toSend[1].elem)
              => toSend[1].elem.val > out[m].elem.val

(* The barriers an input delivered and that went downstream. *)
Passed(i) ==
  BarriersIn(SubSeq(sent[i], 1, taken[i])) - (IF pending[i] # 0 THEN 1 ELSE 0)

(* The barriers are numbered, the one that is pending is the last element  *)
(* taken off its input, and inputs that are both open passed equally many. *)
BarriersMatch ==
  /\ \A i \in Inputs :
       /\ \A k \in DOMAIN sent[i] :
            sent[i][k].kind = "barrier" => sent[i][k].val = BarriersIn(SubSeq(sent[i], 1, k))
       /\ pending[i] # 0 =>
            /\ inputOpen[i] /\ taken[i] > 0
            /\ sent[i][taken[i]] = Bar(pending[i])
  /\ inputOpen[1] /\ inputOpen[2] => Passed(1) = Passed(2)

(* The inductive invariant. *)
IInv ==
  /\ TypeOK
  /\ Alignment
  /\ InputsInEventTime
  /\ NextInEventTime
  /\ OutputInEventTime
  /\ BarriersMatch

-----------------------------------------------------------------------------
(* Lemmas about the elements and the watermark of an input. *)

LEMMA ElemsTyped ==
  ASSUME NEW e \in Elems
  PROVE  /\ e.kind \in {"record", "watermark", "barrier"}
         /\ e.val \in Nat /\ e.val >= 1
         /\ IsTimed(e) => e.val <= MaxTime
         /\ e.kind = "barrier" => e.val <= MaxBarriers
BY MergeAssumption DEF Elems, Rec, Wm, Bar, IsTimed

(* WatermarkOf is the highest watermark sent on an input. *)
LEMMA WatermarkIsHighest ==
  ASSUME NEW s \in Seq(Elems)
  PROVE  /\ WatermarkOf(s) \in Nat
         /\ \A k \in DOMAIN s : IsWm(s[k]) => s[k].val <= WatermarkOf(s)
<1> DEFINE marks == {s[k].val : k \in {m \in DOMAIN s : s[m].kind = "watermark"}}
<1> DEFINE Top(t, n) == \A k \in 1..n : IsWm(s[k]) => s[k].val <= t
<1> DEFINE Bad == {n \in 0..Len(s) : ~ \E t \in marks \cup {0} : Top(t, n)}
<1>1. /\ Len(s) \in Nat /\ DOMAIN s = 1..Len(s)
      /\ \A k \in 1..Len(s) : s[k] \in Elems /\ s[k].val \in Nat
  BY ElemsTyped
<1>2. marks \cup {0} \subseteq Nat
  BY <1>1
<1>3. \A k \in 1..Len(s) : IsWm(s[k]) => s[k].val \in marks \cup {0}
  BY <1>1 DEF IsWm
<1>4. \A u \in marks : \E k \in 1..Len(s) : IsWm(s[k]) /\ u = s[k].val
  BY <1>1 DEF IsWm
<1> HIDE DEF marks
<1>5. Bad = {}
  <2>1. SUFFICES ASSUME Bad # {} PROVE FALSE
    OBVIOUS
  <2>2. Bad \in SUBSET Nat
    BY <1>1
  <2>3. PICK n \in Bad : \A y \in Bad : n <= y
    BY <2>1, <2>2, LeastElement
  <2>4. n \in 0..Len(s) /\ \A t \in marks \cup {0} : ~Top(t, n)
    OBVIOUS
  <2>5. n # 0
    BY <2>4
  <2>6. n - 1 \in 0..Len(s) /\ n - 1 \notin Bad
    <3>1. n \in Nat /\ n - 1 \in 0..Len(s) /\ ~(n <= n - 1)
      BY <1>1, <2>4, <2>5
    <3> HIDE DEF Bad
    <3>2. QED  BY <2>3, <3>1
  <2>7. PICK t \in marks \cup {0} : Top(t, n - 1)
    BY <2>6
  <2>8. /\ n \in 1..Len(s) /\ t \in Nat /\ s[n].val \in Nat
        /\ \A k \in 1..n : k \in 1..(n - 1) \/ k = n
    BY <1>1, <1>2, <2>4, <2>5
  <2>9. CASE IsWm(s[n]) /\ s[n].val > t
    <3>1. \A k \in 1..(n - 1) : s[k].val \in Nat
      BY <1>1, <2>8
    <3>2. Top(s[n].val, n)
      BY <2>7, <2>8, <2>9, <3>1
    <3>3. s[n].val \in marks \cup {0}
      BY <1>3, <2>8, <2>9
    <3>4. QED  BY <2>4, <3>2, <3>3
  <2>10. CASE ~(IsWm(s[n]) /\ s[n].val > t)
    <3>1. Top(t, n)
      BY <2>7, <2>8, <2>10
    <3>2. QED  BY <2>4, <3>1
  <2>11. QED  BY <2>9, <2>10
<1>6. PICK t \in marks \cup {0} : Top(t, Len(s))
  <2>1. Len(s) \in 0..Len(s) /\ Len(s) \notin Bad
    <3>1. Len(s) \in 0..Len(s)
      BY <1>1
    <3> HIDE DEF Bad
    <3>2. QED  BY <1>5, <3>1
  <2>2. QED  BY <2>1
<1>7. \A u \in marks : u <= t
  BY <1>4, <1>6
<1>8. WatermarkOf(s) = CHOOSE x \in marks \cup {0} : \A u \in marks : u <= x
  BY DEF WatermarkOf, marks
<1>9. WatermarkOf(s) \in marks \cup {0} /\ \A u \in marks : u <= WatermarkOf(s)
  BY <1>7, <1>8
<1>10. QED
  <2>1. ASSUME NEW k \in DOMAIN s, IsWm(s[k]) PROVE s[k].val <= WatermarkOf(s)
    <3>1. s[k].val \in marks \/ s[k].val = 0
      BY <1>1, <1>3, <2>1
    <3>2. QED  BY <1>2, <1>9, <3>1
  <2>2. QED  BY <1>2, <1>9, <2>1

-----------------------------------------------------------------------------
(* The merger, one step. *)

(* What a receive does, whichever element it receives: a record is never   *)
(* buffered, and a barrier that completes an alignment goes alone.          *)
LEMMA ReceiveFacts ==
  ASSUME TypeOK, Alignment, NEW i \in Inputs, Receive(i)
  PROVE  /\ taken[i] + 1 \in DOMAIN sent[i]
         /\ Element(i) \in Elems
         /\ toSend = <<>> /\ pending[i] = 0
         /\ UNCHANGED <<sent, open, buffer>>
         /\ \/ /\ Element(i).kind = "record"
               /\ toSend' = <<Tagged(i, Element(i))>>
               /\ UNCHANGED <<watermark, lastWatermark, pending>>
            \/ /\ Element(i).kind = "watermark"
               /\ HandleWatermark(i, Element(i))
            \/ /\ Element(i).kind = "barrier"
               /\ Waiting(i)
               /\ \E b \in 1..MaxBarriers :
                    /\ toSend' = <<Tagged(0, Bar(b))>>
                    /\ b = IF i = 1 THEN Element(i).val ELSE pending[1]
               /\ pending' = [j \in Inputs |-> 0]
               /\ UNCHANGED <<watermark, lastWatermark>>
            \/ /\ Element(i).kind = "barrier"
               /\ ~Waiting(i)
               /\ pending' = [pending EXCEPT ![i] = Element(i).val]
               /\ UNCHANGED <<watermark, lastWatermark, toSend>>
<1>1. taken[i] + 1 \in DOMAIN sent[i] /\ Element(i) \in Elems
  <2>1. taken[i] \in Nat /\ sent[i] \in Seq(Elems) /\ taken[i] < Len(sent[i])
    BY DEF Receive, Available, TypeOK
  <2>2. QED  BY <2>1 DEF Element
<1>2. /\ toSend = <<>> /\ pending[i] = 0
      /\ UNCHANGED <<sent, open>>
      /\ Other(i) \in Inputs /\ Other(i) # i
  BY DEF Receive, AtLoopHead, Ready, senders, Reads, Waiting, Other, Inputs, Alignment
<1>3. CASE Element(i).kind = "record" /\ HandleRecord(i, Element(i))
  BY <1>1, <1>2, <1>3 DEF HandleRecord
<1>4. CASE Element(i).kind = "watermark" /\ HandleWatermark(i, Element(i))
  BY <1>1, <1>2, <1>4 DEF HandleWatermark
<1>5. CASE Element(i).kind = "barrier" /\ HandleBarrier(i, Element(i)) /\ Waiting(i)
  <2> DEFINE b == IF i = 1 THEN Element(i).val ELSE pending[1]
  <2>1. b \in 1..MaxBarriers
    <3>1. Element(i).val \in 1..MaxBarriers
      BY <1>1, <1>5, ElemsTyped, MergeAssumption
    <3>2. CASE i = 1
      BY <3>1, <3>2
    <3>3. CASE i = 2
      <4>1. pending[1] # 0 /\ pending[1] \in 0..MaxBarriers
        BY <1>5, <3>3 DEF Waiting, Other, TypeOK, Inputs
      <4>2. QED  BY <3>3, <4>1, MergeAssumption
    <3>4. QED  BY <3>2, <3>3 DEF Inputs
  <2>2. /\ toSend' = <<Tagged(0, Bar(b))>> \o buffer[1] \o buffer[2]
        /\ pending' = [j \in Inputs |-> 0]
        /\ buffer' = [j \in Inputs |-> <<>>]
        /\ UNCHANGED <<watermark, lastWatermark>>
    BY <1>5 DEF HandleBarrier
  <2>3. buffer = [j \in Inputs |-> <<>>] /\ buffer[1] = <<>> /\ buffer[2] = <<>>
    BY DEF TypeOK, Alignment, Inputs
  <2> DEFINE one == <<Tagged(0, Bar(b))>>
  <2>4. one \in Seq({Tagged(0, Bar(b))})
    OBVIOUS
  <2> HIDE DEF one
  <2>5. toSend' = one
    <3>1. one \o <<>> = one
      BY <2>4
    <3>2. QED  BY <2>2, <2>3, <3>1 DEF one
  <2>6. \E x \in 1..MaxBarriers :
          toSend' = <<Tagged(0, Bar(x))>> /\ x = IF i = 1 THEN Element(i).val ELSE pending[1]
    BY <2>1, <2>5 DEF one
  <2>7. QED  BY <1>1, <1>2, <1>5, <2>2, <2>3, <2>6
<1>6. CASE Element(i).kind = "barrier" /\ HandleBarrier(i, Element(i)) /\ ~Waiting(i)
  BY <1>1, <1>2, <1>6 DEF HandleBarrier
<1>7. QED  BY <1>3, <1>4, <1>5, <1>6 DEF Receive

(* What the end of an input does to a barrier that waits for it. *)
LEMMA ReceiveClosedFacts ==
  ASSUME TypeOK, Alignment, NEW i \in Inputs, ReceiveClosed(i)
  PROVE  /\ taken[i] = Len(sent[i]) /\ ~open[i]
         /\ toSend = <<>> /\ pending[i] = 0
         /\ UNCHANGED <<sent, open, taken, buffer, watermark, lastWatermark>>
         /\ inputOpen' = [inputOpen EXCEPT ![i] = FALSE]
         /\ pending' = [j \in Inputs |-> 0]
         /\ \/ ~Waiting(i) /\ toSend' = <<>>
            \/ /\ Waiting(i)
               /\ \E b \in 1..MaxBarriers :
                    toSend' = <<Tagged(0, Bar(b))>> /\ b = pending[Other(i)]
<1>1. /\ toSend = <<>> /\ pending[i] = 0 /\ ~open[i]
      /\ UNCHANGED <<sent, open, taken, watermark, lastWatermark>>
      /\ inputOpen' = [inputOpen EXCEPT ![i] = FALSE]
      /\ Other(i) \in Inputs /\ Other(i) # i
  BY DEF ReceiveClosed, AtLoopHead, Ready, senders, Reads, Waiting, Other, Inputs, Alignment
<1>2. taken[i] = Len(sent[i])
  <2>1. taken[i] \in Nat /\ Len(sent[i]) \in Nat /\ taken[i] <= Len(sent[i])
    BY DEF TypeOK
  <2>2. QED  BY <2>1 DEF ReceiveClosed, Available
<1>3. /\ \A j \in Inputs : j = i \/ j = Other(i)
      /\ DOMAIN pending = Inputs /\ DOMAIN buffer = Inputs
      /\ \A j \in Inputs : buffer[j] = <<>>
  BY DEF Other, Inputs, TypeOK, Alignment
<1>4. CASE Waiting(i)
  <2> DEFINE b == pending[Other(i)]
  <2>1. b \in 1..MaxBarriers
    <3>1. b # 0 /\ b \in 0..MaxBarriers
      BY <1>1, <1>4 DEF Waiting, TypeOK
    <3>2. QED  BY <3>1, MergeAssumption
  <2>2. /\ toSend' = <<Tagged(0, Bar(b))>> \o <<>>
        /\ pending' = [pending EXCEPT ![Other(i)] = 0]
        /\ buffer' = [buffer EXCEPT ![Other(i)] = <<>>]
    BY <1>1, <1>3, <1>4 DEF ReceiveClosed, FlushOnClose
  <2>3. pending' = [j \in Inputs |-> 0] /\ buffer' = buffer
    BY <1>1, <1>3, <2>2 DEF TypeOK
  <2> DEFINE one == <<Tagged(0, Bar(b))>>
  <2>4. one \in Seq({Tagged(0, Bar(b))})
    OBVIOUS
  <2> HIDE DEF one
  <2>5. toSend' = one
    BY <2>2, <2>4 DEF one
  <2>6. \E x \in 1..MaxBarriers : toSend' = <<Tagged(0, Bar(x))>> /\ x = pending[Other(i)]
    BY <2>1, <2>5 DEF one
  <2>7. QED  BY <1>1, <1>2, <1>4, <2>3, <2>6
<1>5. CASE ~Waiting(i)
  <2>1. UNCHANGED <<pending, buffer, toSend>>
    BY <1>5 DEF ReceiveClosed, FlushOnClose
  <2>2. pending[Other(i)] = 0
    BY <1>1, <1>5 DEF Waiting
  <2>3. pending' = [j \in Inputs |-> 0]
    BY <1>1, <1>3, <2>1, <2>2 DEF TypeOK
  <2>4. QED  BY <1>1, <1>2, <1>5, <2>1, <2>3
<1>6. QED  BY <1>4, <1>5

-----------------------------------------------------------------------------
(* Type correctness, one step. *)

LEMMA TypeStep ==
  ASSUME TypeOK, Alignment, [Next]_vars
  PROVE  TypeOK'
<1> DEFINE Downstream == [from : 0..2, elem : Elems]
<1> USE DEF senders, outside, local
<1>a. /\ MaxTime \in Nat /\ MaxBarriers \in Nat
      /\ \A i \in Inputs : MaxElems[i] \in Nat
  BY MergeAssumption DEF Inputs
<1>b. /\ \A i \in 0..2 : \A e \in Elems : Tagged(i, e) \in Downstream
      /\ \A b \in 1..MaxBarriers : Bar(b) \in Elems
      /\ \A t \in 1..MaxTime : Wm(t) \in Elems
  BY DEF Tagged, Elems
<1>c. toSend \in Seq(Downstream) /\ out \in Seq(Downstream)
  BY DEF TypeOK
<1> HIDE DEF Downstream
<1>d. \A x \in Downstream : <<x>> \in Seq(Downstream)
  OBVIOUS
<1>1. ASSUME NEW i \in Inputs, NEW e \in Elems, SendElem(i, e)
      PROVE  TypeOK'
  <2>1. sent[i] \in Seq(Elems) /\ Len(sent[i]) < MaxElems[i]
    BY <1>1 DEF SendElem, TypeOK
  <2>2. /\ Append(sent[i], e) \in Seq(Elems)
        /\ Len(Append(sent[i], e)) = Len(sent[i]) + 1
    BY <2>1
  <2>3. sent' = [sent EXCEPT ![i] = Append(sent[i], e)] /\ sent' \in [Inputs -> Seq(Elems)]
    BY <1>1, <2>2 DEF SendElem, TypeOK
  <2>4. \A j \in Inputs : taken'[j] <= Len(sent'[j]) /\ Len(sent'[j]) <= MaxElems[j]
    <3>1. TAKE j \in Inputs
    <3>2. CASE j = i
      <4>1. sent'[j] = Append(sent[i], e) /\ taken'[j] = taken[i]
        BY <1>1, <2>3, <3>2 DEF SendElem, TypeOK
      <4>2. taken[i] \in Nat /\ Len(sent[i]) \in Nat /\ taken[i] <= Len(sent[i])
        BY <2>1 DEF TypeOK
      <4>3. QED  BY <1>a, <2>1, <2>2, <3>2, <4>1, <4>2
    <3>3. CASE j # i
      BY <1>1, <2>3, <3>3 DEF SendElem, TypeOK
    <3>4. QED  BY <3>2, <3>3
  <2>5. QED  BY <1>1, <2>3, <2>4 DEF SendElem, TypeOK
<1>2. ASSUME NEW i \in Inputs, CloseInput(i)
      PROVE  TypeOK'
  BY <1>2 DEF CloseInput, TypeOK
<1>3. CASE Consume
  <2>1. consumed' \in 0..Len(out')
    <3>1. consumed \in Nat /\ Len(out) \in Nat /\ consumed < Len(out)
      BY <1>3, <1>c DEF Consume, TypeOK
    <3>2. QED  BY <1>3, <3>1 DEF Consume
  <2>2. QED  BY <1>3, <2>1 DEF Consume, TypeOK
<1>4. CASE DropDownstream
  BY <1>4 DEF DropDownstream, TypeOK
<1>5. ASSUME NEW i \in Inputs, Receive(i)
      PROVE  TypeOK'
  <2> DEFINE e == Element(i)
  <2>1. /\ taken[i] + 1 \in DOMAIN sent[i] /\ e \in Elems
        /\ UNCHANGED <<sent, open, buffer>>
    BY <1>5, ReceiveFacts
  <2>2. taken' \in [Inputs -> Nat] /\ \A j \in Inputs : taken'[j] <= Len(sent'[j])
    <3>1. taken' = [taken EXCEPT ![i] = taken[i] + 1]
      BY <1>5 DEF Receive
    <3>2. taken[i] + 1 <= Len(sent[i]) /\ taken[i] \in Nat
      BY <2>1 DEF TypeOK
    <3>3. QED  BY <2>1, <3>1, <3>2 DEF TypeOK
  <2>3. /\ watermark' \in [Inputs -> 0..MaxTime] /\ lastWatermark' \in 0..MaxTime
        /\ pending' \in [Inputs -> 0..MaxBarriers] /\ toSend' \in Seq(Downstream)
    <3>1. CASE /\ e.kind = "record" /\ toSend' = <<Tagged(i, e)>>
               /\ UNCHANGED <<watermark, lastWatermark, pending>>
      <4>1. Tagged(i, e) \in Downstream
        BY <1>b, <2>1 DEF Inputs
      <4>2. QED  BY <1>d, <3>1, <4>1 DEF TypeOK
    <3>2. CASE e.kind = "watermark" /\ HandleWatermark(i, e)
      <4>1. /\ e.val \in 1..MaxTime /\ Other(i) \in Inputs
        BY <2>1, <3>2, <1>a, ElemsTyped DEF IsTimed, Other, Inputs
      <4> DEFINE least == MinOf(e.val, watermark[Other(i)])
      <4>2. least \in 0..MaxTime
        BY <4>1, <1>a DEF MinOf, TypeOK
      <4>3. /\ watermark' = [watermark EXCEPT ![i] = e.val]
            /\ \/ /\ least > lastWatermark
                  /\ lastWatermark' = least
                  /\ toSend' = <<Tagged(0, Wm(least))>>
               \/ UNCHANGED <<lastWatermark, toSend>>
            /\ pending' = pending
        BY <3>2 DEF HandleWatermark
      <4> HIDE DEF least
      <4>4. watermark' \in [Inputs -> 0..MaxTime]
        BY <4>1, <4>3, <1>a DEF TypeOK
      <4>5. CASE least > lastWatermark /\ toSend' = <<Tagged(0, Wm(least))>>
        <5>1. least \in 1..MaxTime
          BY <1>a, <4>2, <4>5 DEF TypeOK
        <5>2. Tagged(0, Wm(least)) \in Downstream
          BY <1>b, <5>1
        <5>3. lastWatermark' \in 0..MaxTime
          BY <4>2, <4>3 DEF TypeOK
        <5>4. QED  BY <1>d, <4>3, <4>4, <4>5, <5>2, <5>3 DEF TypeOK
      <4>6. CASE UNCHANGED <<lastWatermark, toSend>>
        BY <1>c, <4>3, <4>4, <4>6 DEF TypeOK
      <4>7. QED  BY <4>3, <4>5, <4>6
    <3>3. CASE /\ \E b \in 1..MaxBarriers : toSend' = <<Tagged(0, Bar(b))>>
               /\ pending' = [j \in Inputs |-> 0]
               /\ UNCHANGED <<watermark, lastWatermark>>
      <4>1. PICK b \in 1..MaxBarriers : toSend' = <<Tagged(0, Bar(b))>>
        BY <3>3
      <4>2. Tagged(0, Bar(b)) \in Downstream
        BY <1>b
      <4>3. pending' \in [Inputs -> 0..MaxBarriers]
        BY <1>a, <3>3
      <4>4. QED  BY <1>d, <3>3, <4>1, <4>2, <4>3 DEF TypeOK
    <3>4. CASE /\ e.kind = "barrier" /\ pending' = [pending EXCEPT ![i] = e.val]
               /\ UNCHANGED <<watermark, lastWatermark, toSend>>
      <4>1. e.val \in 0..MaxBarriers
        BY <1>a, <2>1, <3>4, ElemsTyped
      <4>2. QED  BY <1>c, <3>4, <4>1 DEF TypeOK
    <3>5. QED  BY <1>5, <3>1, <3>2, <3>3, <3>4, ReceiveFacts
  <2>4. QED
    <3> USE DEF Downstream
    <3>1. QED  BY <1>5, <2>1, <2>2, <2>3 DEF Receive, TypeOK
<1>6. ASSUME NEW i \in Inputs, ReceiveClosed(i)
      PROVE  TypeOK'
  <2>1. /\ UNCHANGED <<sent, open, taken, buffer, watermark, lastWatermark>>
        /\ inputOpen' = [inputOpen EXCEPT ![i] = FALSE]
        /\ pending' = [j \in Inputs |-> 0]
        /\ \/ toSend' = <<>>
           \/ \E b \in 1..MaxBarriers : toSend' = <<Tagged(0, Bar(b))>>
    BY <1>6, ReceiveClosedFacts
  <2>2. toSend' \in Seq(Downstream)
    <3>1. CASE toSend' = <<>>
      BY <3>1
    <3>2. CASE \E b \in 1..MaxBarriers : toSend' = <<Tagged(0, Bar(b))>>
      <4>1. PICK b \in 1..MaxBarriers : toSend' = <<Tagged(0, Bar(b))>>
        BY <3>2
      <4>2. Tagged(0, Bar(b)) \in Downstream
        BY <1>b
      <4>3. QED  BY <1>d, <4>1, <4>2
    <3>3. QED  BY <2>1, <3>1, <3>2
  <2>3. pending' \in [Inputs -> 0..MaxBarriers]
    BY <1>a, <2>1
  <2>4. inputOpen' \in [Inputs -> BOOLEAN]
    BY <2>1 DEF TypeOK
  <2>5. UNCHANGED <<out, consumed, downstream, result>>
    BY <1>6 DEF ReceiveClosed
  <2>6. QED  BY <2>1, <2>2, <2>3, <2>4, <2>5 DEF TypeOK, Downstream
<1>7. CASE SendOut
  <2>1. /\ Head(toSend) \in Downstream /\ Tail(toSend) \in Seq(Downstream)
    BY <1>7, <1>c DEF SendOut
  <2>2. /\ Append(out, Head(toSend)) \in Seq(Downstream)
        /\ Len(Append(out, Head(toSend))) = Len(out) + 1
    BY <1>c, <2>1
  <2>3. consumed \in 0..Len(out) /\ Len(out) \in Nat
    BY <1>c DEF TypeOK
  <2>4. out' \in Seq(Downstream) /\ toSend' \in Seq(Downstream) /\ consumed' \in 0..Len(out')
    BY <1>7, <2>1, <2>2, <2>3 DEF SendOut
  <2>5. QED  BY <1>7, <2>4 DEF SendOut, TypeOK, Downstream
<1>8. CASE SendFails \/ Finish
  BY <1>8 DEF SendFails, Finish, TypeOK
<1>9. CASE UNCHANGED vars
  BY <1>9 DEF vars, TypeOK
<1>10. QED
  BY <1>1, <1>2, <1>3, <1>4, <1>5, <1>6, <1>7, <1>8, <1>9 DEF Next, Merger

-----------------------------------------------------------------------------
(* Barriers and the ends of the inputs, one step. *)

LEMMA AlignmentStep ==
  ASSUME TypeOK, TypeOK', Alignment, [Next]_vars
  PROVE  Alignment'
<1> USE DEF senders, outside, local
<1>1. ASSUME NEW i \in Inputs, NEW e \in Elems, SendElem(i, e)
      PROVE  Alignment'
  <2>1. /\ UNCHANGED <<open, taken, inputOpen, pending, buffer, result>> /\ open[i]
        /\ \A j \in Inputs : j # i => sent'[j] = sent[j]
    BY <1>1 DEF SendElem, TypeOK
  <2>2. \A j \in Inputs : ~inputOpen[j] => j # i
    BY <2>1 DEF Alignment
  <2>3. QED  BY <2>1, <2>2 DEF Alignment
<1>2. ASSUME NEW i \in Inputs, CloseInput(i)
      PROVE  Alignment'
  BY <1>2 DEF CloseInput, TypeOK, Alignment
<1>3. CASE Consume \/ DropDownstream \/ SendOut \/ SendFails
  BY <1>3 DEF Consume, DropDownstream, SendOut, SendFails, Alignment
<1>4. ASSUME NEW i \in Inputs, Receive(i)
      PROVE  Alignment'
  <2>1. /\ UNCHANGED <<sent, open, buffer, inputOpen, result>>
        /\ taken' = [taken EXCEPT ![i] = taken[i] + 1]
        /\ inputOpen[1] \/ inputOpen[2]
        /\ result = "running"
    <3>1. UNCHANGED <<sent, open, buffer>>
      BY <1>4, ReceiveFacts
    <3>2. QED  BY <1>4, <3>1 DEF Receive, AtLoopHead, Ready
  <2>2. inputOpen[i]
    <3>1. taken[i] < Len(sent[i]) /\ taken[i] \in Nat /\ Len(sent[i]) \in Nat
      BY <1>4 DEF Receive, Available, TypeOK
    <3>2. taken[i] # Len(sent[i])
      BY <3>1
    <3>3. QED  BY <3>2 DEF Alignment
  <2>3. pending'[1] = 0 \/ pending'[2] = 0
    <3>1. CASE pending' = [j \in Inputs |-> 0]
      BY <3>1 DEF Inputs
    <3>2. CASE pending' = pending
      BY <3>2 DEF Alignment
    <3>3. CASE ~Waiting(i) /\ pending' = [pending EXCEPT ![i] = Element(i).val]
      <4>1. pending[i] = 0
        BY <1>4, ReceiveFacts
      <4>2. Other(i) \in Inputs /\ Other(i) # i /\ pending[Other(i)] = 0
        BY <3>3, <4>1 DEF Waiting, Other, Inputs
      <4>3. pending'[Other(i)] = 0
        BY <3>3, <4>2 DEF TypeOK
      <4>4. QED  BY <4>2, <4>3 DEF Inputs
    <3>4. pending' = [j \in Inputs |-> 0] \/ pending' = pending
          \/ (~Waiting(i) /\ pending' = [pending EXCEPT ![i] = Element(i).val])
      BY <1>4, ReceiveFacts DEF HandleWatermark
    <3>5. QED  BY <3>1, <3>2, <3>3, <3>4
  <2>4. \A j \in Inputs : ~inputOpen'[j] => ~open'[j] /\ taken'[j] = Len(sent'[j])
    BY <2>1, <2>2 DEF TypeOK, Alignment
  <2>5. QED  BY <2>1, <2>3, <2>4 DEF Alignment
<1>5. ASSUME NEW i \in Inputs, ReceiveClosed(i)
      PROVE  Alignment'
  <2>1. /\ UNCHANGED <<sent, open, taken, buffer, result>>
        /\ inputOpen' = [inputOpen EXCEPT ![i] = FALSE]
        /\ pending' = [j \in Inputs |-> 0]
        /\ taken[i] = Len(sent[i]) /\ ~open[i]
        /\ result = "running"
    BY <1>5, ReceiveClosedFacts DEF ReceiveClosed, AtLoopHead, Ready
  <2>2. pending'[1] = 0 /\ pending'[2] = 0
    BY <2>1 DEF Inputs
  <2>3. QED  BY <2>1, <2>2 DEF Alignment, TypeOK, Inputs
<1>6. CASE Finish
  BY <1>6 DEF Finish, Alignment
<1>7. CASE UNCHANGED vars
  BY <1>7 DEF vars, Alignment
<1>8. QED
  BY <1>1, <1>2, <1>3, <1>4, <1>5, <1>6, <1>7 DEF Next, Merger

-----------------------------------------------------------------------------
(* Event time on the inputs, one step. *)

(* The event time of one input, and the merged watermark against it. *)
InputInEventTime(i) ==
  /\ \A m \in DOMAIN sent[i] : \A k \in 1..(m - 1) :
       IsWm(sent[i][k]) /\ IsTimed(sent[i][m]) => sent[i][m].val > sent[i][k].val
  /\ \/ watermark[i] = 0
     \/ \E k \in 1..taken[i] : IsWm(sent[i][k]) /\ sent[i][k].val = watermark[i]
  /\ \A k \in DOMAIN sent[i] :
       k > taken[i] /\ IsTimed(sent[i][k]) => sent[i][k].val > watermark[i]

(* A step that sends on no input and takes no watermark. *)
LEMMA InputsKept ==
  ASSUME TypeOK, TypeOK', InputsInEventTime,
         UNCHANGED <<sent, watermark, lastWatermark>>,
         \A i \in Inputs : taken'[i] >= taken[i]
  PROVE  InputsInEventTime'
<1>1. SUFFICES ASSUME NEW i \in Inputs
               PROVE  /\ InputInEventTime(i)'
                      /\ lastWatermark' <= watermark'[i]
  BY DEF InputsInEventTime, InputInEventTime
<1>2. /\ taken[i] \in Nat /\ taken'[i] \in Nat /\ taken'[i] >= taken[i]
      /\ sent[i] \in Seq(Elems)
  BY DEF TypeOK
<1>3. InputInEventTime(i) /\ lastWatermark <= watermark[i]
  BY DEF InputsInEventTime, InputInEventTime
<1>4. \/ watermark'[i] = 0
      \/ \E k \in 1..taken'[i] : IsWm(sent'[i][k]) /\ sent'[i][k].val = watermark'[i]
  <2>1. 1..taken[i] \subseteq 1..taken'[i]
    BY <1>2
  <2>2. QED  BY <1>3, <2>1 DEF InputInEventTime
<1>5. \A k \in DOMAIN sent'[i] :
        k > taken'[i] /\ IsTimed(sent'[i][k]) => sent'[i][k].val > watermark'[i]
  BY <1>2, <1>3 DEF InputInEventTime
<1>6. QED  BY <1>3, <1>4, <1>5 DEF InputInEventTime

LEMMA InputsStep ==
  ASSUME TypeOK, TypeOK', Alignment, InputsInEventTime, [Next]_vars
  PROVE  InputsInEventTime'
<1> USE DEF senders, outside, local
<1>a. \A j \in Inputs : taken[j] \in Nat /\ taken[j] >= taken[j]
  <2>1. \A j \in Inputs : taken[j] \in Nat
    BY DEF TypeOK
  <2>2. QED  BY <2>1
<1>1. ASSUME NEW i \in Inputs, NEW e \in Elems, SendElem(i, e)
      PROVE  InputsInEventTime'
  <2>1. /\ UNCHANGED <<taken, watermark, lastWatermark>>
        /\ \A j \in Inputs : j # i => sent'[j] = sent[j]
        /\ sent'[i] = Append(sent[i], e)
        /\ IsTimed(e) => e.val > WatermarkOf(sent[i])
    BY <1>1 DEF SendElem, TypeOK, IsTimed
  <2>2. /\ sent[i] \in Seq(Elems) /\ Len(sent[i]) \in Nat
        /\ DOMAIN sent[i] = 1..Len(sent[i])
        /\ taken[i] \in Nat /\ taken[i] <= Len(sent[i])
        /\ watermark[i] \in Nat /\ e.val \in Nat /\ e.val >= 1
    <3>1. sent[i] \in Seq(Elems) /\ taken[i] \in Nat /\ taken[i] <= Len(sent[i])
      BY DEF TypeOK
    <3>2. watermark[i] \in Nat
      BY MergeAssumption DEF TypeOK
    <3>3. e.val \in Nat /\ e.val >= 1
      BY ElemsTyped
    <3>4. QED  BY <3>1, <3>2, <3>3
  <2>3. /\ DOMAIN sent'[i] = 1..(Len(sent[i]) + 1)
        /\ \A k \in 1..Len(sent[i]) : sent'[i][k] = sent[i][k]
        /\ sent'[i][Len(sent[i]) + 1] = e
    BY <2>1, <2>2
  <2>4. InputInEventTime(i) /\ lastWatermark <= watermark[i]
    BY DEF InputsInEventTime, InputInEventTime
  <2>5. /\ WatermarkOf(sent[i]) \in Nat
        /\ \A k \in DOMAIN sent[i] : IsWm(sent[i][k]) => sent[i][k].val <= WatermarkOf(sent[i])
        /\ \A k \in DOMAIN sent[i] : sent[i][k].val \in Nat
    BY <2>2, WatermarkIsHighest, ElemsTyped
  <2>6. \A m \in DOMAIN sent'[i] : \A k \in 1..(m - 1) :
          IsWm(sent'[i][k]) /\ IsTimed(sent'[i][m]) => sent'[i][m].val > sent'[i][k].val
    <3>1. SUFFICES ASSUME NEW m \in DOMAIN sent'[i], NEW k \in 1..(m - 1),
                          IsWm(sent'[i][k]), IsTimed(sent'[i][m])
                   PROVE  sent'[i][m].val > sent'[i][k].val
      OBVIOUS
    <3>2. k \in 1..Len(sent[i]) /\ sent'[i][k] = sent[i][k]
      BY <2>2, <2>3
    <3>3. CASE m = Len(sent[i]) + 1
      <4>1. /\ sent'[i][m] = e /\ e.val > WatermarkOf(sent[i])
            /\ sent[i][k].val <= WatermarkOf(sent[i]) /\ sent[i][k].val \in Nat
        BY <2>1, <2>2, <2>3, <2>5, <3>1, <3>2, <3>3
      <4>2. QED  BY <2>2, <2>5, <3>2, <4>1
    <3>4. CASE m # Len(sent[i]) + 1
      <4>1. m \in DOMAIN sent[i] /\ sent'[i][m] = sent[i][m]
        BY <2>2, <2>3, <3>4
      <4>2. QED  BY <2>4, <3>1, <3>2, <4>1 DEF InputInEventTime
    <3>5. QED  BY <3>3, <3>4
  <2>7. \/ watermark'[i] = 0
        \/ \E k \in 1..taken'[i] : IsWm(sent'[i][k]) /\ sent'[i][k].val = watermark'[i]
    <3>1. \A k \in 1..taken[i] : sent'[i][k] = sent[i][k]
      BY <2>2, <2>3
    <3>2. QED  BY <2>1, <2>4, <3>1 DEF InputInEventTime
  <2>8. \A k \in DOMAIN sent'[i] :
          k > taken'[i] /\ IsTimed(sent'[i][k]) => sent'[i][k].val > watermark'[i]
    <3>1. IsTimed(e) => e.val > watermark[i]
      <4>1. CASE watermark[i] = 0
        BY <2>2, <4>1
      <4>2. CASE \E k \in 1..taken[i] : IsWm(sent[i][k]) /\ sent[i][k].val = watermark[i]
        <5>1. watermark[i] <= WatermarkOf(sent[i])
          BY <2>2, <2>5, <4>2
        <5>2. QED  BY <2>1, <2>2, <2>5, <5>1
      <4>3. QED  BY <2>4, <4>1, <4>2 DEF InputInEventTime
    <3>2. TAKE k \in DOMAIN sent'[i]
    <3>3. CASE k = Len(sent[i]) + 1
      BY <2>1, <2>3, <3>1, <3>3
    <3>4. CASE k # Len(sent[i]) + 1
      <4>1. k \in DOMAIN sent[i] /\ sent'[i][k] = sent[i][k]
        BY <2>2, <2>3, <3>4
      <4>2. QED  BY <2>1, <2>4, <4>1 DEF InputInEventTime
    <3>5. QED  BY <3>3, <3>4
  <2>9. InputInEventTime(i)'
    BY <2>6, <2>7, <2>8 DEF InputInEventTime
  <2>10. ASSUME NEW j \in Inputs PROVE InputInEventTime(j)' /\ lastWatermark' <= watermark'[j]
    <3>1. CASE j = i
      BY <2>1, <2>4, <2>9, <3>1
    <3>2. CASE j # i
      BY <2>1, <3>2 DEF InputsInEventTime, InputInEventTime
    <3>3. QED  BY <3>1, <3>2
  <2>11. QED  BY <2>10 DEF InputsInEventTime, InputInEventTime
<1>2. ASSUME NEW i \in Inputs, CloseInput(i)
      PROVE  InputsInEventTime'
  BY <1>a, <1>2, InputsKept DEF CloseInput
<1>3. CASE Consume \/ DropDownstream \/ SendOut \/ SendFails \/ Finish
  BY <1>a, <1>3, InputsKept DEF Consume, DropDownstream, SendOut, SendFails, Finish
<1>4. ASSUME NEW i \in Inputs, Receive(i)
      PROVE  InputsInEventTime'
  <2>1. /\ taken' = [taken EXCEPT ![i] = taken[i] + 1] /\ sent' = sent
        /\ taken[i] + 1 \in DOMAIN sent[i] /\ Element(i) \in Elems
    BY <1>4, ReceiveFacts DEF Receive
  <2>2. CASE UNCHANGED <<watermark, lastWatermark>>
    <3>1. \A j \in Inputs : taken'[j] >= taken[j]
      <4>1. TAKE j \in Inputs
      <4>2. taken[j] \in Nat /\ DOMAIN taken = Inputs
        BY DEF TypeOK
      <4>3. taken'[j] = IF j = i THEN taken[j] + 1 ELSE taken[j]
        BY <2>1, <4>2
      <4>4. QED  BY <4>2, <4>3
    <3>2. QED  BY <2>1, <2>2, <3>1, InputsKept
  <2>3. CASE Element(i).kind = "watermark" /\ HandleWatermark(i, Element(i))
    <3> DEFINE e == sent[i][taken[i] + 1]
    <3> DEFINE least == MinOf(e.val, watermark[Other(i)])
    <3>1. /\ watermark' = [watermark EXCEPT ![i] = e.val]
          /\ \/ least > lastWatermark /\ lastWatermark' = least
             \/ lastWatermark' = lastWatermark
          /\ IsWm(e)
      BY <2>3 DEF HandleWatermark, Element, IsWm
    <3>2. /\ Other(i) \in Inputs /\ Other(i) # i
          /\ \A j \in Inputs : j = i \/ j = Other(i)
      BY DEF Other, Inputs
    <3>3. /\ e.val \in Nat /\ lastWatermark \in Nat
          /\ \A j \in Inputs : watermark[j] \in Nat
          /\ taken[i] \in Nat /\ sent[i] \in Seq(Elems) /\ DOMAIN sent[i] = 1..Len(sent[i])
      BY <2>1, ElemsTyped, MergeAssumption DEF TypeOK, Element
    <3>4. \A j \in Inputs : InputInEventTime(j) /\ lastWatermark <= watermark[j]
      BY DEF InputsInEventTime, InputInEventTime
    <3>5. e.val > watermark[i]
      BY <2>1, <3>1, <3>3, <3>4 DEF InputInEventTime, IsWm, IsTimed
    <3>6. /\ least \in Nat /\ least <= e.val /\ least <= watermark[Other(i)]
      BY <3>2, <3>3 DEF MinOf
    <3> HIDE DEF e, least
    <3>7. /\ watermark'[i] = e.val /\ watermark'[Other(i)] = watermark[Other(i)]
      BY <3>1, <3>2 DEF TypeOK
    <3>8. \A j \in Inputs : lastWatermark' <= watermark'[j]
      BY <3>1, <3>2, <3>3, <3>4, <3>5, <3>6, <3>7
    <3>9. InputInEventTime(i)'
      <4>1. \A m \in DOMAIN sent'[i] : \A k \in 1..(m - 1) :
              IsWm(sent'[i][k]) /\ IsTimed(sent'[i][m]) => sent'[i][m].val > sent'[i][k].val
        BY <2>1, <3>4 DEF InputInEventTime
      <4>2. taken'[i] = taken[i] + 1 /\ taken[i] + 1 \in 1..taken'[i]
        BY <2>1, <3>3 DEF TypeOK
      <4>3. \E k \in 1..taken'[i] : IsWm(sent'[i][k]) /\ sent'[i][k].val = watermark'[i]
        BY <2>1, <3>1, <3>7, <4>2 DEF e
      <4>4. ASSUME NEW k \in DOMAIN sent'[i], k > taken'[i], IsTimed(sent'[i][k])
            PROVE  sent'[i][k].val > watermark'[i]
        <5>1. k \in DOMAIN sent[i] /\ taken[i] + 1 \in 1..(k - 1)
          BY <2>1, <3>3, <4>2, <4>4
        <5>2. IsWm(sent[i][taken[i] + 1])
          BY <3>1 DEF e
        <5>3. sent[i][k].val > sent[i][taken[i] + 1].val
          BY <2>1, <3>4, <4>4, <5>1, <5>2 DEF InputInEventTime
        <5>4. QED  BY <2>1, <3>7, <5>3 DEF e
      <4>5. QED  BY <4>1, <4>3, <4>4 DEF InputInEventTime
    <3>10. InputInEventTime(Other(i))'
      <4>1. taken'[Other(i)] = taken[Other(i)]
        BY <2>1, <3>2 DEF TypeOK
      <4>2. QED  BY <2>1, <3>2, <3>4, <3>7, <4>1 DEF InputInEventTime
    <3>11. \A j \in Inputs : InputInEventTime(j)'
      BY <3>2, <3>9, <3>10
    <3>12. QED  BY <3>8, <3>11 DEF InputsInEventTime, InputInEventTime
  <2>4. QED  BY <1>4, <2>2, <2>3, ReceiveFacts
<1>5. ASSUME NEW i \in Inputs, ReceiveClosed(i)
      PROVE  InputsInEventTime'
  <2>1. UNCHANGED <<sent, taken, watermark, lastWatermark>>
    BY <1>5, ReceiveClosedFacts
  <2>2. \A j \in Inputs : taken'[j] >= taken[j]
    BY <1>a, <2>1
  <2>3. QED  BY <2>1, <2>2, InputsKept
<1>6. CASE UNCHANGED vars
  BY <1>a, <1>6, InputsKept DEF vars
<1>7. QED
  BY <1>1, <1>2, <1>3, <1>4, <1>5, <1>6 DEF Next, Merger

-----------------------------------------------------------------------------
(* Event time on the output, one step. *)

LEMMA SeqElement ==
  ASSUME NEW S, NEW s \in Seq(S)
  PROVE  /\ \A k \in DOMAIN s : s[k] \in S
         /\ s # <<>> => s[1] \in S /\ Head(s) = s[1] /\ Len(s) \in Nat /\ Len(s) >= 1
OBVIOUS

LEMMA OutputTyped ==
  ASSUME TypeOK
  PROVE  /\ \A m \in DOMAIN out : out[m].elem.val \in Nat
         /\ toSend # <<>> => /\ toSend[1].elem.val \in Nat
                            /\ Head(toSend) = toSend[1]
                            /\ Len(toSend) \in Nat /\ Len(toSend) >= 1
<1>1. /\ out \in Seq([from : 0..2, elem : Elems])
      /\ toSend \in Seq([from : 0..2, elem : Elems])
  BY DEF TypeOK
<1>2. /\ \A m \in DOMAIN out : out[m] \in [from : 0..2, elem : Elems]
      /\ toSend # <<>> => /\ toSend[1] \in [from : 0..2, elem : Elems]
                         /\ Head(toSend) = toSend[1]
                         /\ Len(toSend) \in Nat /\ Len(toSend) >= 1
  BY <1>1, SeqElement
<1>3. \A x \in [from : 0..2, elem : Elems] : x.elem.val \in Nat
  BY ElemsTyped
<1>4. QED  BY <1>2, <1>3

(* Nothing reaches the output or stands before it. *)
LEMMA OutputKept ==
  ASSUME TypeOK, TypeOK', NextInEventTime, OutputInEventTime,
         out' = out, lastWatermark' >= lastWatermark,
         toSend' = toSend \/ toSend' = <<>>
  PROVE  NextInEventTime' /\ OutputInEventTime'
<1>1. /\ lastWatermark \in Nat /\ lastWatermark' \in Nat
      /\ \A m \in DOMAIN out : out[m].elem.val \in Nat
      /\ toSend # <<>> => toSend[1].elem.val \in Nat
  <2>1. lastWatermark \in Nat /\ lastWatermark' \in Nat
    BY MergeAssumption DEF TypeOK
  <2>2. QED  BY <2>1, OutputTyped
<1>2. \A m \in DOMAIN out' : IsWm(out'[m].elem) => out'[m].elem.val <= lastWatermark'
  BY <1>1 DEF NextInEventTime
<1>3. CASE toSend' = <<>>
  BY <1>2, <1>3 DEF NextInEventTime, OutputInEventTime
<1>4. CASE toSend' = toSend
  BY <1>1, <1>2, <1>4 DEF NextInEventTime, OutputInEventTime
<1>5. QED  BY <1>3, <1>4

(* One element, ahead of the merged watermark, goes next. *)
LEMMA OneToSend ==
  ASSUME TypeOK, TypeOK', NextInEventTime, OutputInEventTime, out' = out,
         lastWatermark' >= lastWatermark, NEW x, toSend' = <<x>>,
         IsTimed(x.elem) => x.elem.val > lastWatermark,
         IsWm(x.elem) => x.elem.val <= lastWatermark'
  PROVE  NextInEventTime' /\ OutputInEventTime'
<1>1. /\ lastWatermark \in Nat /\ lastWatermark' \in Nat
      /\ \A m \in DOMAIN out : out[m].elem.val \in Nat
      /\ x.elem.val \in Nat
  <2>1. lastWatermark \in Nat /\ lastWatermark' \in Nat
    BY MergeAssumption DEF TypeOK
  <2>2. \A m \in DOMAIN out : out[m].elem.val \in Nat
    BY OutputTyped
  <2>3. x \in [from : 0..2, elem : Elems]
    <3>1. toSend' \in Seq([from : 0..2, elem : Elems])
      BY DEF TypeOK
    <3>2. toSend'[1] = x /\ 1 \in DOMAIN toSend'
      OBVIOUS
    <3>3. QED  BY <3>1, <3>2
  <2>4. QED  BY <2>1, <2>2, <2>3, ElemsTyped
<1>2. toSend'[1] = x /\ Len(toSend') = 1
  OBVIOUS
<1>3. \A m \in DOMAIN out' : IsWm(out'[m].elem) => out'[m].elem.val <= lastWatermark'
  BY <1>1 DEF NextInEventTime
<1>4. \A m \in DOMAIN out : IsWm(out[m].elem) /\ IsTimed(x.elem) => x.elem.val > out[m].elem.val
  BY <1>1 DEF NextInEventTime
<1>5. QED  BY <1>2, <1>3, <1>4 DEF NextInEventTime, OutputInEventTime

LEMMA OutputStep ==
  ASSUME TypeOK, TypeOK', Alignment, InputsInEventTime,
         NextInEventTime, OutputInEventTime, [Next]_vars
  PROVE  NextInEventTime' /\ OutputInEventTime'
<1> USE DEF senders, outside, local
<1>a. lastWatermark \in Nat /\ lastWatermark >= lastWatermark
  <2>1. lastWatermark \in Nat
    BY MergeAssumption DEF TypeOK
  <2>2. QED  BY <2>1
<1>1. ASSUME NEW i \in Inputs, CloseInput(i) \/ \E e \in Elems : SendElem(i, e)
      PROVE  NextInEventTime' /\ OutputInEventTime'
  BY <1>a, <1>1, OutputKept DEF SendElem, CloseInput
<1>2. CASE Consume \/ DropDownstream \/ SendFails \/ Finish
  BY <1>a, <1>2, OutputKept DEF Consume, DropDownstream, SendFails, Finish
<1>3. ASSUME NEW i \in Inputs, Receive(i)
      PROVE  NextInEventTime' /\ OutputInEventTime'
  <2> DEFINE e == Element(i)
  <2>1. /\ out' = out /\ e \in Elems /\ taken[i] + 1 \in DOMAIN sent[i]
        /\ taken[i] \in Nat /\ e.val \in Nat
    BY <1>3, ReceiveFacts, ElemsTyped DEF Receive, TypeOK
  <2>2. CASE e.kind = "record" /\ toSend' = <<Tagged(i, e)>> /\ lastWatermark' = lastWatermark
    <3>1. e.val > watermark[i] /\ lastWatermark <= watermark[i] /\ watermark[i] \in Nat
      <4>1. taken[i] + 1 > taken[i]
        BY <2>1
      <4>2. watermark[i] \in Nat
        BY MergeAssumption DEF TypeOK
      <4>3. QED  BY <2>1, <2>2, <4>1, <4>2 DEF InputsInEventTime, Element, IsTimed
    <3>2. e.val > lastWatermark
      BY <1>a, <2>1, <3>1
    <3>3. Tagged(i, e).elem = e
      BY DEF Tagged
    <3>4. ~IsWm(e)
      BY <2>2 DEF IsWm
    <3>5. QED  BY <1>a, <2>1, <2>2, <3>2, <3>3, <3>4, OneToSend
  <2>3. CASE e.kind = "watermark" /\ HandleWatermark(i, e)
    <3> DEFINE least == MinOf(e.val, watermark[Other(i)])
    <3>1. \/ /\ least > lastWatermark /\ lastWatermark' = least
             /\ toSend' = <<Tagged(0, Wm(least))>>
          \/ lastWatermark' = lastWatermark /\ toSend' = toSend
      BY <2>3 DEF HandleWatermark
    <3>2. least \in Nat
      <4>1. Other(i) \in Inputs
        BY DEF Other, Inputs
      <4>2. watermark[Other(i)] \in Nat
        BY <4>1, MergeAssumption DEF TypeOK
      <4>3. QED  BY <2>1, <4>2 DEF MinOf
    <3> HIDE DEF least
    <3>3. Tagged(0, Wm(least)).elem.val = least
      BY DEF Tagged, Wm
    <3>4. CASE /\ least > lastWatermark /\ lastWatermark' = least
               /\ toSend' = <<Tagged(0, Wm(least))>>
      <4>1. lastWatermark' >= lastWatermark /\ least <= lastWatermark'
        BY <1>a, <3>2, <3>4
      <4>2. QED  BY <2>1, <3>3, <3>4, <4>1, OneToSend
    <3>5. CASE lastWatermark' = lastWatermark /\ toSend' = toSend
      BY <1>a, <2>1, <3>5, OutputKept
    <3>6. QED  BY <3>1, <3>4, <3>5
  <2>4. CASE /\ \E b \in 1..MaxBarriers : toSend' = <<Tagged(0, Bar(b))>>
             /\ lastWatermark' = lastWatermark
    <3>1. PICK b \in 1..MaxBarriers : toSend' = <<Tagged(0, Bar(b))>>
      BY <2>4
    <3>2. ~IsTimed(Tagged(0, Bar(b)).elem) /\ ~IsWm(Tagged(0, Bar(b)).elem)
      BY DEF Tagged, Bar, IsTimed, IsWm
    <3>3. QED  BY <1>a, <2>1, <2>4, <3>1, <3>2, OneToSend
  <2>5. CASE toSend' = toSend /\ lastWatermark' = lastWatermark
    BY <1>a, <2>1, <2>5, OutputKept
  <2>6. QED  BY <1>3, <2>2, <2>3, <2>4, <2>5, ReceiveFacts
<1>4. ASSUME NEW i \in Inputs, ReceiveClosed(i)
      PROVE  NextInEventTime' /\ OutputInEventTime'
  <2>1. out' = out /\ lastWatermark' = lastWatermark
    BY <1>4 DEF ReceiveClosed
  <2>2. CASE toSend' = <<>>
    BY <1>a, <2>1, <2>2, OutputKept
  <2>3. CASE \E b \in 1..MaxBarriers : toSend' = <<Tagged(0, Bar(b))>>
    <3>1. PICK b \in 1..MaxBarriers : toSend' = <<Tagged(0, Bar(b))>>
      BY <2>3
    <3>2. ~IsTimed(Tagged(0, Bar(b)).elem) /\ ~IsWm(Tagged(0, Bar(b)).elem)
      BY DEF Tagged, Bar, IsTimed, IsWm
    <3>3. QED  BY <1>a, <2>1, <3>1, <3>2, OneToSend
  <2>4. QED  BY <1>4, <2>2, <2>3, ReceiveClosedFacts
<1>5. CASE SendOut
  <2> DEFINE x == toSend[1]
  <2> DEFINE l == Len(out)
  <2>1. /\ out \in Seq([from : 0..2, elem : Elems])
        /\ toSend \in Seq([from : 0..2, elem : Elems]) /\ toSend # <<>>
    BY <1>5 DEF SendOut, TypeOK
  <2>2. Head(toSend) = x /\ x \in [from : 0..2, elem : Elems] /\ Len(toSend) = 1
    <3>1. /\ Head(toSend) = x /\ x \in [from : 0..2, elem : Elems]
          /\ Len(toSend) \in Nat /\ Len(toSend) >= 1
      BY <2>1, SeqElement
    <3>2. Len(toSend) <= 1
      BY DEF NextInEventTime
    <3>3. Len(toSend) = 1
      <4>1. Len(toSend) \in Nat /\ Len(toSend) >= 1
        BY <3>1
      <4>2. \A z \in Nat : z >= 1 /\ z <= 1 => z = 1
        OBVIOUS
      <4>3. QED  BY <3>2, <4>1, <4>2, Zenon
    <3>4. QED  BY <3>1, <3>3
  <2>3. toSend' = <<>>
    BY <1>5, <2>1, <2>2 DEF SendOut
  <2>4. out' = Append(out, x) /\ lastWatermark' = lastWatermark
    BY <1>5, <2>2 DEF SendOut
  <2> HIDE DEF x
  <2>5. /\ l \in Nat /\ DOMAIN out = 1..l /\ DOMAIN out' = 1..(l + 1)
        /\ out'[l + 1] = x /\ \A m \in 1..l : out'[m] = out[m]
    BY <2>1, <2>2, <2>4
  <2> HIDE DEF l
  <2>6. /\ IsWm(x.elem) => x.elem.val <= lastWatermark
        /\ \A m \in 1..l : IsWm(out[m].elem) /\ IsTimed(x.elem) => x.elem.val > out[m].elem.val
        /\ \A m \in 1..l : IsWm(out[m].elem) => out[m].elem.val <= lastWatermark
    BY <2>1, <2>5 DEF NextInEventTime, x
  <2>7. NextInEventTime'
    <3>1. ASSUME NEW m \in DOMAIN out', IsWm(out'[m].elem)
          PROVE  out'[m].elem.val <= lastWatermark'
      <4>1. m \in 1..l \/ m = l + 1
        BY <2>5
      <4>2. QED  BY <2>4, <2>5, <2>6, <3>1, <4>1
    <3>2. Len(toSend') <= 1
      BY <2>3
    <3>3. QED  BY <2>3, <3>1, <3>2 DEF NextInEventTime
  <2>8. OutputInEventTime'
    <3>1. SUFFICES ASSUME NEW k \in 1..(l + 1), NEW m \in 1..(k - 1),
                          IsWm(out'[m].elem), IsTimed(out'[k].elem)
                   PROVE  out'[k].elem.val > out'[m].elem.val
      BY <2>5 DEF OutputInEventTime, IsWm, IsTimed
    <3>2. m \in 1..l /\ out'[m] = out[m]
      BY <2>5
    <3>3. CASE k = l + 1
      BY <2>5, <2>6, <3>1, <3>2, <3>3
    <3>4. CASE k # l + 1
      <4>1. k \in 1..l /\ out'[k] = out[k]
        BY <2>5, <3>4
      <4>2. QED  BY <2>5, <3>1, <3>2, <4>1 DEF OutputInEventTime, IsWm, IsTimed
    <3>5. QED  BY <3>3, <3>4
  <2>9. QED  BY <2>7, <2>8
<1>6. CASE UNCHANGED vars
  BY <1>a, <1>6, OutputKept DEF vars
<1>7. QED
  BY <1>1, <1>2, <1>3, <1>4, <1>5, <1>6 DEF Next, Merger

-----------------------------------------------------------------------------
(* The barriers of the inputs, one step. *)

LEMMA BarriersCounted ==
  ASSUME NEW S, NEW s \in Seq(S), NEW e \in S
  PROVE  /\ BarriersIn(s) \in Nat
         /\ BarriersIn(Append(s, e)) =
              IF e.kind = "barrier" THEN BarriersIn(s) + 1 ELSE BarriersIn(s)
<1> DEFINE B(t) == {k \in DOMAIN t : t[k].kind = "barrier"}
<1>1. /\ Len(s) \in Nat /\ DOMAIN s = 1..Len(s)
      /\ DOMAIN Append(s, e) = 1..(Len(s) + 1)
      /\ Append(s, e)[Len(s) + 1] = e
      /\ \A k \in 1..Len(s) : Append(s, e)[k] = s[k]
  OBVIOUS
<1>2. IsFiniteSet(B(s)) /\ Cardinality(B(s)) \in Nat
  <2>1. IsFiniteSet(1..Len(s))
    BY <1>1, FS_Interval
  <2>2. B(s) \subseteq 1..Len(s)
    BY <1>1
  <2>3. QED  BY <2>1, <2>2, FS_Subset, FS_CardinalityType
<1>3. CASE e.kind = "barrier"
  <2>1. B(Append(s, e)) = B(s) \cup {Len(s) + 1} /\ Len(s) + 1 \notin B(s)
    BY <1>1, <1>3
  <2>2. Cardinality(B(s) \cup {Len(s) + 1}) = Cardinality(B(s)) + 1
    BY <1>2, <2>1, FS_AddElement
  <2>3. QED  BY <1>2, <1>3, <2>1, <2>2 DEF BarriersIn
<1>4. CASE e.kind # "barrier"
  <2>1. B(Append(s, e)) = B(s)
    BY <1>1, <1>4
  <2>2. QED  BY <1>2, <1>4, <2>1 DEF BarriersIn
<1>5. QED  BY <1>3, <1>4

LEMMA PrefixGrows ==
  ASSUME NEW T, NEW s \in Seq(T), NEW k \in Nat, k < Len(s)
  PROVE  /\ SubSeq(s, 1, k) \in Seq(T) /\ s[k + 1] \in T
         /\ SubSeq(s, 1, k + 1) = Append(SubSeq(s, 1, k), s[k + 1])
OBVIOUS

(* Appending leaves the prefixes as they are. *)
LEMMA PrefixKept ==
  ASSUME NEW T, NEW s \in Seq(T), NEW e \in T, NEW k \in Nat, k <= Len(s)
  PROVE  SubSeq(Append(s, e), 1, k) = SubSeq(s, 1, k)
OBVIOUS

(* What an input delivered, before and after one more element. *)
LEMMA TakenGrows ==
  ASSUME TypeOK, NEW i \in Inputs, taken[i] < Len(sent[i])
  PROVE  LET h == SubSeq(sent[i], 1, taken[i])
             g == SubSeq(sent[i], 1, taken[i] + 1)
             e == sent[i][taken[i] + 1]
         IN /\ e \in Elems /\ taken[i] \in Nat
            /\ BarriersIn(h) \in Nat
            /\ BarriersIn(g) = IF e.kind = "barrier" THEN BarriersIn(h) + 1 ELSE BarriersIn(h)
            /\ Len(Cut(h)) \in Nat
            /\ Len(Cut(g)) = IF IsWm(e) THEN Len(Cut(h)) ELSE Len(Cut(h)) + 1
            /\ ~IsWm(e) => /\ Len(Cut(h)) < Len(Cut(sent[i]))
                           /\ Cut(sent[i])[Len(Cut(h)) + 1] = e
<1> DEFINE h == SubSeq(sent[i], 1, taken[i])
<1> DEFINE g == SubSeq(sent[i], 1, taken[i] + 1)
<1> DEFINE e == sent[i][taken[i] + 1]
<1>1. taken[i] \in Nat /\ sent[i] \in Seq(Elems)
  BY DEF TypeOK
<1>2. h \in Seq(Elems) /\ e \in Elems /\ g = Append(h, e)
  BY <1>1, PrefixGrows
<1>3. IsWm(e) <=> e \notin NotWatermark
  BY <1>2 DEF IsWm, NotWatermark
<1>4. e \in NotWatermark => /\ Len(Cut(h)) < Len(Cut(sent[i]))
                            /\ Cut(sent[i])[Len(Cut(h)) + 1] = e
  BY <1>1, KeepNext DEF Cut
<1> HIDE DEF h, g, e
<1>5. /\ BarriersIn(h) \in Nat
      /\ BarriersIn(g) = IF e.kind = "barrier" THEN BarriersIn(h) + 1 ELSE BarriersIn(h)
  BY <1>2, BarriersCounted
<1>6. Cut(h) \in Seq(Elems)
  <2>1. Cut(h) \in Seq(Elems \cap NotWatermark)
    BY <1>2, KeepTyped DEF Cut
  <2>2. QED  BY <2>1
<1>7. Cut(g) = IF IsWm(e) THEN Cut(h) ELSE Append(Cut(h), e)
  BY <1>2, <1>3, KeepAppend DEF Cut
<1>8. Len(Cut(h)) \in Nat /\ Len(Append(Cut(h), e)) = Len(Cut(h)) + 1
  BY <1>2, <1>6
<1>9. QED  BY <1>1, <1>2, <1>3, <1>4, <1>5, <1>7, <1>8 DEF h, g, e

LEMMA BarrierIs ==
  ASSUME NEW e \in Elems, e.kind = "barrier"
  PROVE  e = Bar(e.val) /\ e.val \in Nat /\ e.val # 0
BY ElemsTyped DEF Elems, Rec, Wm, Bar

LEMMA OpenWhileAvailable ==
  ASSUME TypeOK, Alignment, NEW i \in Inputs, taken[i] < Len(sent[i])
  PROVE  inputOpen[i]
<1>1. taken[i] \in Nat /\ Len(sent[i]) \in Nat /\ taken[i] # Len(sent[i])
  BY DEF TypeOK
<1>2. QED  BY <1>1 DEF Alignment

LEMMA BothInputs ==
  ASSUME NEW i \in Inputs
  PROVE  Other(i) \in Inputs /\ Other(i) # i /\ \A j \in Inputs : j = i \/ j = Other(i)
BY DEF Other, Inputs

(* A barrier read while the other input's is pending has the same id. *)
LEMMA SameId ==
  ASSUME TypeOK, Alignment, BarriersMatch, NEW i \in Inputs, Receive(i),
         Element(i).kind = "barrier", Waiting(i)
  PROVE  /\ Element(i) = Bar(pending[Other(i)])
         /\ inputOpen[i] /\ inputOpen[Other(i)]
<1> DEFINE j == Other(i)
<1>1. j \in Inputs /\ j # i /\ pending[j] # 0 /\ pending[i] = 0
  BY BothInputs DEF Waiting
<1>2. taken[i] < Len(sent[i]) /\ Element(i) = sent[i][taken[i] + 1]
  BY DEF Receive, Available, Element
<1>3. inputOpen[i] /\ inputOpen[j]
  BY <1>1, <1>2, OpenWhileAvailable DEF BarriersMatch
<1>4. Passed(i) = Passed(j)
  BY <1>1, <1>3 DEF BarriersMatch, Inputs
<1>5. /\ taken[j] \in Nat /\ taken[j] > 0 /\ taken[j] <= Len(sent[j]) /\ Len(sent[j]) \in Nat
      /\ sent[j] \in Seq(Elems) /\ DOMAIN sent[j] = 1..Len(sent[j])
      /\ sent[j][taken[j]] = Bar(pending[j])
  BY <1>1 DEF TypeOK, BarriersMatch
<1>6. pending[j] = BarriersIn(SubSeq(sent[j], 1, taken[j]))
  <2>1. taken[j] \in DOMAIN sent[j] /\ Bar(pending[j]).kind = "barrier" /\ Bar(pending[j]).val = pending[j]
    BY <1>5 DEF Bar
  <2>2. QED  BY <1>1, <1>5, <2>1 DEF BarriersMatch
<1>7. /\ taken[i] + 1 \in DOMAIN sent[i] /\ Element(i) \in Elems
  BY ReceiveFacts
<1>8. Element(i).val = BarriersIn(SubSeq(sent[i], 1, taken[i] + 1))
  BY <1>2, <1>7 DEF BarriersMatch
<1>9. /\ BarriersIn(SubSeq(sent[i], 1, taken[i] + 1)) = BarriersIn(SubSeq(sent[i], 1, taken[i])) + 1
      /\ BarriersIn(SubSeq(sent[i], 1, taken[i])) \in Nat
  BY <1>2, TakenGrows
<1>10. /\ Passed(i) = BarriersIn(SubSeq(sent[i], 1, taken[i])) - 0
       /\ Passed(j) = pending[j] - 1
  BY <1>1, <1>6 DEF Passed
<1>11. pending[j] \in Nat
  BY <1>1, MergeAssumption DEF TypeOK
<1>12. Element(i).val = pending[j]
  <2>1. \A a, b \in Nat : a - 0 = b - 1 => a + 1 = b
    OBVIOUS
  <2>2. BarriersIn(SubSeq(sent[i], 1, taken[i])) - 0 = pending[j] - 1
    BY <1>4, <1>10
  <2>3. BarriersIn(SubSeq(sent[i], 1, taken[i])) + 1 = pending[j]
    <3> HIDE DEF j
    <3>1. QED  BY <1>9, <1>11, <2>1, <2>2, Zenon
  <2>4. QED  BY <1>8, <1>9, <2>3
<1>13. QED  BY <1>3, <1>7, <1>12, BarrierIs

(* A step that takes nothing and sends nothing on the inputs. *)
LEMMA BarriersKept ==
  ASSUME BarriersMatch, UNCHANGED <<sent, taken, pending, inputOpen>>
  PROVE  BarriersMatch'
<1>1. sent' = sent /\ taken' = taken /\ pending' = pending /\ inputOpen' = inputOpen
  OBVIOUS
<1>2. Passed(1)' = Passed(1) /\ Passed(2)' = Passed(2)
  BY <1>1 DEF Passed, BarriersIn
<1>3. \A i \in Inputs : \A k \in DOMAIN sent[i] :
        BarriersIn(SubSeq(sent[i], 1, k))' = BarriersIn(SubSeq(sent[i], 1, k))
  BY <1>1 DEF BarriersIn
<1>4. ASSUME NEW i \in Inputs
      PROVE  /\ \A k \in DOMAIN sent'[i] : sent'[i][k].kind = "barrier" =>
                  sent'[i][k].val = BarriersIn(SubSeq(sent[i], 1, k))'
             /\ pending'[i] # 0 => /\ inputOpen'[i] /\ taken'[i] > 0
                                  /\ sent'[i][taken'[i]] = Bar(pending'[i])
  BY <1>1, <1>3, Zenon DEF BarriersMatch
<1>5. inputOpen'[1] /\ inputOpen'[2] => Passed(1)' = Passed(2)'
  BY <1>1, <1>2 DEF BarriersMatch
<1>6. QED  BY <1>4, <1>5 DEF BarriersMatch, Bar

LEMMA NumberedKept ==
  ASSUME BarriersMatch, sent' = sent
  PROVE  \A i \in Inputs : \A k \in DOMAIN sent'[i] :
           sent'[i][k].kind = "barrier" => sent'[i][k].val = BarriersIn(SubSeq(sent[i], 1, k))'
<1>1. \A i \in Inputs : \A k \in DOMAIN sent[i] :
        BarriersIn(SubSeq(sent[i], 1, k))' = BarriersIn(SubSeq(sent[i], 1, k))
  BY DEF BarriersIn
<1>2. \A i \in Inputs : \A k \in DOMAIN sent[i] :
        sent[i][k].kind = "barrier" => sent[i][k].val = BarriersIn(SubSeq(sent[i], 1, k))
  BY DEF BarriersMatch
<1>3. QED  BY <1>1, <1>2, Zenon

LEMMA BarriersStep ==
  ASSUME TypeOK, TypeOK', Alignment, BarriersMatch, [Next]_vars
  PROVE  BarriersMatch'
<1> USE DEF senders, outside, local
<1> DEFINE Numbered(s) ==
      \A k \in DOMAIN s : s[k].kind = "barrier" => s[k].val = BarriersIn(SubSeq(s, 1, k))
<1>1. ASSUME NEW i \in Inputs, NEW e \in Elems, SendElem(i, e)
      PROVE  BarriersMatch'
  <2>1. /\ UNCHANGED <<taken, inputOpen, pending>>
        /\ \A j \in Inputs : j # i => sent'[j] = sent[j]
        /\ sent'[i] = Append(sent[i], e)
        /\ e.kind = "barrier" => e.val = BarriersIn(sent[i]) + 1
    BY <1>1 DEF SendElem, TypeOK
  <2>2. /\ sent[i] \in Seq(Elems) /\ Len(sent[i]) \in Nat
        /\ DOMAIN sent[i] = 1..Len(sent[i])
        /\ taken[i] \in Nat /\ taken[i] <= Len(sent[i])
    BY DEF TypeOK
  <2>3. /\ DOMAIN sent'[i] = 1..(Len(sent[i]) + 1)
        /\ \A k \in 1..Len(sent[i]) : sent'[i][k] = sent[i][k]
        /\ sent'[i][Len(sent[i]) + 1] = e
        /\ SubSeq(sent'[i], 1, Len(sent[i]) + 1) = sent'[i]
    BY <2>1, <2>2
  <2>4. \A k \in Nat : k <= Len(sent[i]) => SubSeq(sent'[i], 1, k) = SubSeq(sent[i], 1, k)
    BY <2>1, <2>2, PrefixKept
  <2>5. BarriersIn(sent'[i]) = IF e.kind = "barrier" THEN BarriersIn(sent[i]) + 1
                               ELSE BarriersIn(sent[i])
    BY <2>1, <2>2, BarriersCounted
  <2>6. Numbered(sent'[i])
    <3>1. Numbered(sent[i])
      BY DEF BarriersMatch
    <3>2. TAKE k \in DOMAIN sent'[i]
    <3>3. CASE k = Len(sent[i]) + 1
      BY <2>1, <2>3, <2>5, <3>3
    <3>4. CASE k # Len(sent[i]) + 1
      <4>1. k \in DOMAIN sent[i] /\ sent'[i][k] = sent[i][k] /\ k \in Nat /\ k <= Len(sent[i])
        BY <2>2, <2>3, <3>4
      <4>2. SubSeq(sent'[i], 1, k) = SubSeq(sent[i], 1, k)
        BY <2>4, <4>1
      <4>3. QED  BY <3>1, <4>1, <4>2
    <3>5. QED  BY <3>3, <3>4
  <2>7. \A j \in Inputs : /\ SubSeq(sent'[j], 1, taken[j]) = SubSeq(sent[j], 1, taken[j])
                          /\ taken[j] > 0 => sent'[j][taken[j]] = sent[j][taken[j]]
    <3>1. TAKE j \in Inputs
    <3>2. CASE j = i
      <4>1. taken[i] > 0 => taken[i] \in 1..Len(sent[i])
        BY <2>2
      <4>2. SubSeq(sent'[i], 1, taken[i]) = SubSeq(sent[i], 1, taken[i])
        BY <2>2, <2>4
      <4>3. taken[i] > 0 => sent'[i][taken[i]] = sent[i][taken[i]]
        BY <2>3, <4>1
      <4>4. QED  BY <3>2, <4>2, <4>3
    <3>3. CASE j # i
      BY <2>1, <3>3
    <3>4. QED  BY <3>2, <3>3
  <2>7a. \A j \in Inputs : Numbered(sent'[j])
    <3>1. TAKE j \in Inputs
    <3>2. CASE j = i
      BY <2>6, <3>2, Zenon
    <3>3. CASE j # i
      BY <2>1, <3>3 DEF BarriersMatch
    <3>4. QED  BY <3>2, <3>3
  <2>8. \A j \in Inputs : Passed(j)' = Passed(j)
    BY <2>1, <2>7 DEF Passed, BarriersIn
  <2>9. 1 \in Inputs /\ 2 \in Inputs
    BY DEF Inputs
  <2>10. \A j \in Inputs : Numbered(sent[j])'
    BY <2>7a DEF BarriersIn
  <2>11. QED  BY <2>1, <2>7, <2>8, <2>9, <2>10 DEF BarriersMatch, Bar
<1>2. CASE \/ \E i \in Inputs : CloseInput(i)
           \/ Consume \/ DropDownstream \/ SendOut \/ SendFails \/ Finish \/ UNCHANGED vars
  BY <1>2, BarriersKept DEF CloseInput, Consume, DropDownstream, SendOut, SendFails, Finish, vars
<1>3. ASSUME NEW i \in Inputs, Receive(i)
      PROVE  BarriersMatch'
  <2> DEFINE j == Other(i)
  <2> DEFINE e == Element(i)
  <2>1. /\ j \in Inputs /\ j # i /\ \A k \in Inputs : k = i \/ k = j
        /\ taken' = [taken EXCEPT ![i] = taken[i] + 1] /\ inputOpen' = inputOpen
        /\ sent' = sent /\ pending[i] = 0 /\ taken[i] < Len(sent[i])
        /\ e = sent[i][taken[i] + 1]
    BY <1>3, BothInputs, ReceiveFacts DEF Receive, Available, Element
  <2>2. taken'[i] = taken[i] + 1 /\ taken'[j] = taken[j]
    BY <2>1 DEF TypeOK
  <2>3. /\ e \in Elems /\ taken[i] \in Nat
        /\ BarriersIn(SubSeq(sent[i], 1, taken[i])) \in Nat
        /\ BarriersIn(SubSeq(sent[i], 1, taken[i] + 1)) =
             IF e.kind = "barrier" THEN BarriersIn(SubSeq(sent[i], 1, taken[i])) + 1
             ELSE BarriersIn(SubSeq(sent[i], 1, taken[i]))
    BY <2>1, TakenGrows
  <2>4. inputOpen[i]
    BY <2>1, OpenWhileAvailable
  <2> DEFINE was == BarriersIn(SubSeq(sent[i], 1, taken[i]))
  <2> DEFINE is == BarriersIn(SubSeq(sent[i], 1, taken[i] + 1))
  <2>5. /\ Passed(i) = was - 0
        /\ Passed(i)' = is - (IF pending'[i] # 0 THEN 1 ELSE 0)
    BY <2>1, <2>2 DEF Passed, BarriersIn
  <2>6. \A k \in Inputs : Numbered(sent[k])'
    BY <2>1, NumberedKept DEF BarriersMatch
  <2>7. BarriersIn(SubSeq(sent[j], 1, taken[j])) \in Nat
    <3>1. sent[j] \in Seq(Elems) /\ taken[j] \in 0..Len(sent[j])
      BY <2>1 DEF TypeOK
    <3>2. SubSeq(sent[j], 1, taken[j]) \in Seq(Elems \cup {e}) /\ e \in Elems \cup {e}
      BY <3>1
    <3>3. QED  BY <3>2, BarriersCounted
  <2> HIDE DEF was, is, e, j
  <2>8. CASE e.kind # "barrier" /\ pending' = pending
    <3>1. Passed(i)' = Passed(i)
      BY <2>1, <2>3, <2>5, <2>8 DEF was, is
    <3>2. Passed(j)' = Passed(j)
      BY <2>1, <2>2, <2>8 DEF Passed, BarriersIn
    <3>3. \A k \in Inputs : pending'[k] # 0 =>
            inputOpen[k] /\ taken'[k] > 0 /\ sent[k][taken'[k]] = Bar(pending'[k])
      BY <2>1, <2>2, <2>8 DEF BarriersMatch
    <3>4. inputOpen[1] /\ inputOpen[2] => Passed(1)' = Passed(2)'
      BY <2>1, <3>1, <3>2 DEF BarriersMatch, Inputs
    <3>5. QED  BY <2>1, <2>6, <3>3, <3>4 DEF BarriersMatch, Bar
  <2>9. CASE e.kind = "barrier" /\ Waiting(i) /\ pending' = [k \in Inputs |-> 0]
    <3>1. pending'[i] = 0 /\ pending'[j] = 0 /\ pending[j] # 0 /\ inputOpen[j]
      BY <1>3, <2>1, <2>9, SameId DEF Waiting, j, e
    <3>2. Passed(i)' = was + 1
      BY <2>3, <2>5, <2>9, <3>1 DEF was, is
    <3>3. Passed(j)' = Passed(j) + 1
      <4>1. Passed(j)' = BarriersIn(SubSeq(sent[j], 1, taken[j])) - 0
        BY <2>1, <2>2, <3>1 DEF Passed, BarriersIn
      <4>2. Passed(j) = BarriersIn(SubSeq(sent[j], 1, taken[j])) - 1
        BY <3>1 DEF Passed
      <4>3. QED  BY <2>7, <4>1, <4>2
    <3>4. Passed(i) = Passed(j) /\ Passed(i) = was
      <4>1. Passed(i) = Passed(j)
        BY <2>1, <2>4, <3>1 DEF BarriersMatch, Inputs
      <4>2. QED  BY <2>3, <2>5, <4>1 DEF was
    <3>5. Passed(1)' = Passed(2)'
      BY <2>1, <3>2, <3>3, <3>4 DEF Inputs
    <3>6. \A k \in Inputs : pending'[k] = 0
      BY <2>9
    <3>7. QED  BY <2>1, <2>6, <3>5, <3>6 DEF BarriersMatch
  <2>10. CASE e.kind = "barrier" /\ ~Waiting(i) /\ pending' = [pending EXCEPT ![i] = e.val]
    <3>1. pending'[i] = e.val /\ pending'[j] = pending[j] /\ e = Bar(e.val) /\ e.val # 0
      BY <2>1, <2>3, <2>10, BarrierIs DEF TypeOK
    <3>2. Passed(i)' = Passed(i)
      BY <2>3, <2>5, <2>10, <3>1 DEF was, is
    <3>3. Passed(j)' = Passed(j)
      BY <2>1, <2>2, <3>1 DEF Passed, BarriersIn
    <3>4. \A k \in Inputs : pending'[k] # 0 =>
            inputOpen[k] /\ taken'[k] > 0 /\ sent[k][taken'[k]] = Bar(pending'[k])
      <4>1. inputOpen[i] /\ taken'[i] > 0 /\ sent[i][taken'[i]] = Bar(pending'[i])
        BY <2>1, <2>2, <2>3, <2>4, <3>1
      <4>2. QED  BY <2>1, <2>2, <3>1, <4>1 DEF BarriersMatch
    <3>5. inputOpen[1] /\ inputOpen[2] => Passed(1)' = Passed(2)'
      BY <2>1, <3>2, <3>3 DEF BarriersMatch, Inputs
    <3>6. QED  BY <2>1, <2>6, <3>4, <3>5 DEF BarriersMatch, Bar
  <2>11. QED
    <3>1. \/ e.kind # "barrier" /\ pending' = pending
          \/ e.kind = "barrier" /\ Waiting(i) /\ pending' = [k \in Inputs |-> 0]
          \/ e.kind = "barrier" /\ ~Waiting(i) /\ pending' = [pending EXCEPT ![i] = e.val]
      BY <1>3, ReceiveFacts DEF e, HandleWatermark
    <3>2. QED  BY <2>8, <2>9, <2>10, <3>1
<1>4. ASSUME NEW i \in Inputs, ReceiveClosed(i)
      PROVE  BarriersMatch'
  <2>1. /\ UNCHANGED <<sent, taken>> /\ inputOpen' = [inputOpen EXCEPT ![i] = FALSE]
        /\ pending' = [k \in Inputs |-> 0]
    BY <1>4, ReceiveClosedFacts
  <2>2. ~(inputOpen'[1] /\ inputOpen'[2])
    BY <2>1 DEF Inputs, TypeOK
  <2>3. \A k \in Inputs : Numbered(sent[k])'
    BY <2>1, NumberedKept DEF BarriersMatch
  <2>4. \A k \in Inputs : pending'[k] = 0
    BY <2>1
  <2>5. QED  BY <2>2, <2>3, <2>4 DEF BarriersMatch
<1>5. QED
  BY <1>1, <1>2, <1>3, <1>4 DEF Next, Merger

-----------------------------------------------------------------------------
(* The merger implements AlignedStreams. *)

(* What a step does to the streams: nothing, hand on the next record of an *)
(* input, or forward a barrier that cuts the inputs J.                      *)
SameStreams == open' = open /\ \A i \in Inputs : Stream(i)' = Stream(i)

Stays ==
  /\ SameStreams
  /\ Decided' = Decided
  /\ \A i \in Inputs : Pos(i)' = Pos(i)

Delivers(i) ==
  /\ SameStreams
  /\ Pos(i) < Len(Stream(i))
  /\ Stream(i)[Pos(i) + 1].kind # "barrier"
  /\ Decided' = Append(Decided, [from |-> i, elem |-> Stream(i)[Pos(i) + 1]])
  /\ Pos(i)' = Pos(i) + 1
  /\ \A j \in Inputs \ {i} : Pos(j)' = Pos(j)

Aligns(b, J) ==
  /\ SameStreams
  /\ J # {} /\ b.kind = "barrier"
  /\ \A i \in J : /\ Pos(i) < Len(Stream(i)) /\ Stream(i)[Pos(i) + 1] = b
                  /\ Pos(i)' = Pos(i) + 1
  /\ \A i \in Inputs \ J : /\ ~open[i] /\ ~(Pos(i) < Len(Stream(i)))
                           /\ Pos(i)' = Pos(i)
  /\ Decided' = Append(Decided, [from |-> 0, elem |-> b])

LEMMA StepsMap ==
  /\ Stays => UNCHANGED Streams!vars
  /\ \A i \in Inputs : Delivers(i) => Streams!Next
  /\ \A b, J : J \in SUBSET Inputs /\ Aligns(b, J) => Streams!Next
<1> DEFINE P == [i \in Inputs |-> Pos(i)]
<1>1. Streams!InputSet = Inputs
  BY DEF Streams!InputSet
<1>2. ASSUME Stays PROVE UNCHANGED Streams!vars
  BY <1>2 DEF Stays, SameStreams, Streams!vars
<1>3. ASSUME NEW i \in Inputs, Delivers(i) PROVE Streams!Next
  <2>1. P' = [P EXCEPT ![i] = @ + 1]
    BY <1>3 DEF Delivers
  <2>2. [j \in Inputs |-> Stream(j)]' = [j \in Inputs |-> Stream(j)]
    BY <1>3 DEF Delivers, SameStreams
  <2>3. Streams!Deliver(i)
    BY <1>3, <2>1, <2>2 DEF Delivers, SameStreams, Streams!Deliver, Streams!HasNext, Streams!NextElem
  <2>4. QED  BY <1>1, <2>3 DEF Streams!Next
<1>4. ASSUME NEW b, NEW J \in SUBSET Inputs, Aligns(b, J) PROVE Streams!Next
  <2>1. /\ \A i \in J : Streams!HasNext(i) /\ Streams!NextElem(i) = b
        /\ \A i \in Inputs \ J : Streams!Exhausted(i) /\ ~Streams!HasNext(i)
    BY <1>4 DEF Aligns, Streams!HasNext, Streams!NextElem, Streams!Exhausted
  <2>2. Streams!AtBarrier(b) = J
    BY <1>1, <2>1 DEF Streams!AtBarrier
  <2>3. P' = [i \in Inputs |-> IF i \in J THEN P[i] + 1 ELSE P[i]]
    BY <1>4 DEF Aligns
  <2>4. [j \in Inputs |-> Stream(j)]' = [j \in Inputs |-> Stream(j)]
    BY <1>4 DEF Aligns, SameStreams
  <2>5. Streams!Align(b)
    BY <1>1, <1>4, <2>1, <2>2, <2>3, <2>4 DEF Aligns, SameStreams, Streams!Align
  <2>6. PICK i \in J : TRUE
    BY <1>4 DEF Aligns
  <2>7. QED  BY <1>1, <2>1, <2>5, <2>6 DEF Streams!Next
<1>5. QED  BY <1>2, <1>3, <1>4

LEMMA CutTyped ==
  ASSUME NEW s \in Seq(Elems)
  PROVE  Cut(s) \in Seq(Elems) /\ Len(Cut(s)) \in Nat
<1>1. Cut(s) \in Seq(Elems \cap NotWatermark)
  BY KeepTyped DEF Cut
<1>2. QED  BY <1>1

LEMMA PosTyped ==
  ASSUME TypeOK, Alignment, NEW i \in Inputs
  PROVE  LET h == Len(Cut(SubSeq(sent[i], 1, taken[i]))) IN
         /\ h \in Nat
         /\ pending[i] = 0 => Pos(i) = h
         /\ pending[i] # 0 => Pos(i) = h - 1
<1>1. sent[i] \in Seq(Elems) /\ taken[i] \in 0..Len(sent[i])
  BY DEF TypeOK
<1>2. SubSeq(sent[i], 1, taken[i]) \in Seq(Elems)
  BY <1>1, PrefixOfSeq
<1>3. Len(Cut(SubSeq(sent[i], 1, taken[i]))) \in Nat
  BY <1>2, CutTyped
<1>4. buffer[i] = <<>> /\ Len(<<>>) = 0
  BY DEF Alignment
<1>5. QED  BY <1>3, <1>4 DEF Pos

(* The element that is received is next in the stream of its input. *)
LEMMA ReceivedNext ==
  ASSUME TypeOK, Alignment, NEW i \in Inputs, taken[i] < Len(sent[i]), pending[i] = 0,
         ~IsWm(Element(i))
  PROVE  Pos(i) < Len(Stream(i)) /\ Stream(i)[Pos(i) + 1] = Element(i)
BY TakenGrows, PosTyped DEF Stream, Element

(* A barrier that is pending is next in the stream of its input. *)
LEMMA PendingNext ==
  ASSUME TypeOK, Alignment, BarriersMatch, NEW i \in Inputs, pending[i] # 0
  PROVE  Pos(i) < Len(Stream(i)) /\ Stream(i)[Pos(i) + 1] = Bar(pending[i])
<1> DEFINE k == taken[i] - 1
<1> DEFINE h == SubSeq(sent[i], 1, k)
<1>1. /\ sent[i] \in Seq(Elems) /\ taken[i] \in Nat /\ taken[i] > 0
      /\ taken[i] <= Len(sent[i]) /\ sent[i][taken[i]] = Bar(pending[i])
  BY DEF TypeOK, BarriersMatch
<1>2. k \in Nat /\ k < Len(sent[i]) /\ k + 1 = taken[i]
  BY <1>1
<1>3. Bar(pending[i]) \in NotWatermark /\ Bar(pending[i]) \in Elems
  <2>1. pending[i] \in 1..MaxBarriers
    BY MergeAssumption DEF TypeOK
  <2>2. QED  BY <2>1 DEF NotWatermark, Elems, Bar
<1>4. h \in Seq(Elems) /\ SubSeq(sent[i], 1, taken[i]) = Append(h, Bar(pending[i]))
  BY <1>1, <1>2, PrefixGrows
<1>5. Len(Cut(h)) < Len(Stream(i)) /\ Stream(i)[Len(Cut(h)) + 1] = Bar(pending[i])
  BY <1>1, <1>2, <1>3, KeepNext DEF Cut, Stream
<1> HIDE DEF h, k
<1>6. Cut(SubSeq(sent[i], 1, taken[i])) = Append(Cut(h), Bar(pending[i]))
  <2> DEFINE c == Bar(pending[i])
  <2>1. c \in NotWatermark /\ c \in Elems /\ SubSeq(sent[i], 1, taken[i]) = Append(h, c)
    BY <1>3, <1>4
  <2> HIDE DEF c
  <2>2. Cut(Append(h, c)) = Append(Cut(h), c)
    BY <1>4, <2>1, KeepAppend DEF Cut
  <2>3. QED  BY <2>1, <2>2 DEF c
<1>7. Cut(h) \in Seq(Elems) /\ Len(Cut(h)) \in Nat
  BY <1>4, CutTyped
<1>8. Len(Cut(SubSeq(sent[i], 1, taken[i]))) = Len(Cut(h)) + 1
  BY <1>3, <1>6, <1>7
<1>9. Pos(i) = Len(Cut(h))
  BY <1>7, <1>8, PosTyped
<1>10. QED  BY <1>5, <1>9

(* An input that delivered everything has no next element. *)
LEMMA NothingNext ==
  ASSUME TypeOK, Alignment, NEW i \in Inputs, taken[i] = Len(sent[i]), pending[i] = 0
  PROVE  ~(Pos(i) < Len(Stream(i)))
<1>1. sent[i] \in Seq(Elems)
  BY DEF TypeOK
<1>2. SubSeq(sent[i], 1, Len(sent[i])) = sent[i]
  BY <1>1
<1>3. Pos(i) = Len(Stream(i)) /\ Len(Stream(i)) \in Nat
  BY <1>2, PosTyped DEF Stream
<1>4. QED  BY <1>3

LEMMA InSeq ==
  ASSUME NEW T, NEW x, <<x>> \in Seq(T)
  PROVE  x \in T
<1>1. 1 \in DOMAIN <<x>> /\ <<x>>[1] = x
  OBVIOUS
<1>2. QED  BY <1>1

LEMMA MovesOver ==
  ASSUME NEW T, NEW s \in Seq(T), NEW t \in Seq(T), t # <<>>
  PROVE  Append(s, Head(t)) \o Tail(t) = s \o t
<1>1. /\ Len(s) \in Nat /\ Len(t) \in Nat /\ Len(t) >= 1 /\ Head(t) = t[1] /\ Head(t) \in T
      /\ Tail(t) \in Seq(T) /\ Len(Tail(t)) = Len(t) - 1
      /\ \A k \in 1..(Len(t) - 1) : Tail(t)[k] = t[k + 1]
  OBVIOUS
<1>2. Append(s, Head(t)) \in Seq(T) /\ Len(Append(s, Head(t))) = Len(s) + 1
  BY <1>1
<1>3. Append(s, Head(t)) \o Tail(t) \in Seq(T) /\ s \o t \in Seq(T)
  BY <1>1, <1>2
<1>4. Len(Append(s, Head(t)) \o Tail(t)) = Len(s \o t)
  BY <1>1, <1>2
<1>5. \A k \in 1..Len(s \o t) : (Append(s, Head(t)) \o Tail(t))[k] = (s \o t)[k]
  BY <1>1, <1>2
<1>6. QED  BY <1>3, <1>4, <1>5, SeqEqual

(* What is decided, when one send is put up and when it is made. *)
LEMMA DecidedGrows ==
  ASSUME TypeOK, TypeOK', toSend = <<>>, out' = out, NEW x, toSend' = <<x>>
  PROVE  Decided' = IF IsWm(x.elem) THEN Decided ELSE Append(Decided, x)
<1> DEFINE T == [from : 0..2, elem : Elems]
<1> DEFINE S == [from : 0..2, elem : NotWatermark]
<1>1. out \in Seq(T) /\ x \in T
  <2>1. <<x>> \in Seq(T)
    BY DEF TypeOK
  <2>2. QED  BY <2>1, InSeq DEF TypeOK
<1>2. x \in S <=> ~IsWm(x.elem)
  BY <1>1 DEF NotWatermark, IsWm
<1> HIDE DEF T
<1>3. out \o toSend = out /\ out' \o toSend' = Append(out, x)
  BY <1>1
<1>4. Decided = Keep(out, S)
  BY <1>3 DEF Decided
<1>5. Decided' = Keep(Append(out, x), S)
  BY <1>3 DEF Decided, NotWatermark, Elems, Rec, Wm, Bar
<1> HIDE DEF S
<1>6. Keep(Append(out, x), S) = IF x \in S THEN Append(Keep(out, S), x) ELSE Keep(out, S)
  BY <1>1, KeepAppend
<1>7. QED  BY <1>2, <1>4, <1>5, <1>6

(* The merger's own steps. *)
LEMMA StreamKept ==
  ASSUME sent' = sent, open' = open
  PROVE  SameStreams
BY DEF SameStreams, Stream, Cut, NotWatermark, Elems, Rec, Wm, Bar

LEMMA PosKept ==
  ASSUME NEW i \in Inputs, sent' = sent, taken'[i] = taken[i], pending'[i] = pending[i],
         buffer' = buffer
  PROVE  Pos(i)' = Pos(i)
BY DEF Pos, Cut, NotWatermark, Elems, Rec, Wm, Bar

(* What the primed position is made of. *)
LEMMA PosNext ==
  ASSUME TypeOK, Alignment, Alignment', NEW i \in Inputs, sent' = sent, pending'[i] = 0
  PROVE  Pos(i)' = Len(Cut(SubSeq(sent[i], 1, taken'[i]))) - 0 - 0
<1>1. buffer'[i] = <<>> /\ Len(<<>>) = 0
  BY DEF Alignment
<1>2. QED  BY <1>1 DEF Pos, Cut, NotWatermark, Elems, Rec, Wm, Bar

LEMMA ReceiveMaps ==
  ASSUME TypeOK, TypeOK', Alignment, Alignment', BarriersMatch, NEW i \in Inputs, Receive(i)
  PROVE  \/ Stays
         \/ Delivers(i)
         \/ \E b : Aligns(b, Inputs)
<1> DEFINE e == Element(i)
<1> DEFINE j == Other(i)
<1> DEFINE h == SubSeq(sent[i], 1, taken[i])
<1> DEFINE g == SubSeq(sent[i], 1, taken[i] + 1)
<1>1. /\ j \in Inputs /\ j # i /\ (\A k \in Inputs : k = i \/ k = j)
      /\ taken' = [taken EXCEPT ![i] = taken[i] + 1] /\ out' = out
      /\ sent' = sent /\ open' = open /\ buffer' = buffer
      /\ toSend = <<>> /\ pending[i] = 0 /\ taken[i] < Len(sent[i]) /\ e \in Elems
  BY BothInputs, ReceiveFacts DEF Receive, Available, outside
<1>2. taken'[i] = taken[i] + 1 /\ taken'[j] = taken[j]
  BY <1>1 DEF TypeOK
<1>3. /\ Len(Cut(h)) \in Nat /\ Pos(i) = Len(Cut(h))
      /\ Len(Cut(g)) = IF IsWm(e) THEN Len(Cut(h)) ELSE Len(Cut(h)) + 1
  BY <1>1, TakenGrows, PosTyped DEF Element
<1>4. pending'[i] = 0 => Pos(i)' = Len(Cut(g))
  <2>1. ASSUME pending'[i] = 0 PROVE Pos(i)' = Len(Cut(g)) - 0 - 0
    BY <1>1, <1>2, <2>1, PosNext
  <2>2. Len(Cut(g)) \in Nat
    BY <1>3
  <2> HIDE DEF g
  <2>3. QED  BY <2>1, <2>2
<1>5. SameStreams
  BY <1>1, StreamKept
<1>6. pending'[j] = pending[j] => Pos(j)' = Pos(j)
  BY <1>1, <1>2, PosKept
<1>7. ~IsWm(e) => Pos(i) < Len(Stream(i)) /\ Stream(i)[Pos(i) + 1] = e
  BY <1>1, ReceivedNext
<1> HIDE DEF e, j, h, g
<1>8. CASE e.kind = "record" /\ toSend' = <<Tagged(i, e)>> /\ pending' = pending
  <2>1. ~IsWm(e) /\ e.kind # "barrier"
    BY <1>8 DEF IsWm
  <2>2. Decided' = Append(Decided, Tagged(i, e))
    <3> DEFINE x == Tagged(i, e)
    <3>1. x.elem = e /\ toSend' = <<x>>
      BY <1>8 DEF Tagged
    <3> HIDE DEF x
    <3>2. QED  BY <1>1, <2>1, <3>1, DecidedGrows DEF x
  <2>3. Pos(i)' = Pos(i) + 1 /\ Pos(j)' = Pos(j)
    BY <1>1, <1>3, <1>4, <1>6, <1>8, <2>1
  <2>4. QED  BY <1>1, <1>5, <1>7, <2>1, <2>2, <2>3 DEF Delivers, Tagged
<1>9. CASE e.kind = "watermark" /\ HandleWatermark(i, e)
  <2>1. pending' = pending /\ (toSend' = toSend \/ \E t : toSend' = <<Tagged(0, Wm(t))>>)
    BY <1>9 DEF HandleWatermark
  <2>2. Decided' = Decided
    <3>1. CASE toSend' = toSend
      BY <1>1, <3>1 DEF Decided, NotWatermark, Elems, Rec, Wm, Bar
    <3>2. ASSUME NEW t, toSend' = <<Tagged(0, Wm(t))>> PROVE Decided' = Decided
      <4> DEFINE x == Tagged(0, Wm(t))
      <4>1. IsWm(x.elem) /\ toSend' = <<x>>
        BY <3>2 DEF Tagged, Wm, IsWm
      <4> HIDE DEF x
      <4>2. QED  BY <1>1, <4>1, DecidedGrows
    <3>3. QED  BY <2>1, <3>1, <3>2
  <2>3. Pos(i)' = Pos(i) /\ Pos(j)' = Pos(j)
    BY <1>1, <1>3, <1>4, <1>6, <1>9, <2>1 DEF IsWm
  <2>4. QED  BY <1>1, <1>5, <2>2, <2>3 DEF Stays
<1>10. ASSUME e.kind = "barrier", Waiting(i), pending' = [k \in Inputs |-> 0],
              NEW b \in 1..MaxBarriers, toSend' = <<Tagged(0, Bar(b))>>,
              b = IF i = 1 THEN e.val ELSE pending[1]
       PROVE  Aligns(Bar(b), Inputs)
  <2>1. pending[j] # 0 /\ e = Bar(pending[j]) /\ e.val = pending[j]
    BY <1>10, SameId DEF Waiting, e, j, Bar
  <2>2. Bar(b) = e
    <3>1. i = 2 => j = 1
      BY DEF j, Other
    <3>2. b = pending[j]
      BY <1>10, <2>1, <3>1 DEF Inputs
    <3>3. QED  BY <2>1, <3>2
  <2>3. Bar(b).kind = "barrier" /\ ~IsWm(e)
    BY <1>10 DEF Bar, IsWm
  <2>4. /\ Pos(i) < Len(Stream(i)) /\ Stream(i)[Pos(i) + 1] = Bar(b)
        /\ Pos(i)' = Pos(i) + 1
    BY <1>3, <1>4, <1>7, <1>10, <2>2, <2>3
  <2>5. /\ Pos(j) < Len(Stream(j)) /\ Stream(j)[Pos(j) + 1] = Bar(b)
    BY <1>1, <2>1, <2>2, PendingNext
  <2>6. Pos(j)' = Pos(j) + 1
    <3>1. LET q == Len(Cut(SubSeq(sent[j], 1, taken[j]))) IN
          q \in Nat /\ Pos(j) = q - 1
      BY <1>1, <2>1, PosTyped
    <3>2. Pos(j)' = Len(Cut(SubSeq(sent[j], 1, taken[j]))) - 0 - 0
      <4>1. pending'[j] = 0
        BY <1>1, <1>10
      <4>2. QED  BY <1>1, <1>2, <4>1, PosNext
    <3>3. QED  BY <3>1, <3>2
  <2>7. Decided' = Append(Decided, [from |-> 0, elem |-> Bar(b)])
    <3> DEFINE x == Tagged(0, Bar(b))
    <3>1. ~IsWm(x.elem) /\ toSend' = <<x>> /\ x = [from |-> 0, elem |-> Bar(b)]
      BY <1>10 DEF Tagged, Bar, IsWm
    <3> HIDE DEF x
    <3>2. QED  BY <1>1, <3>1, DecidedGrows
  <2> DEFINE c == Bar(b)
  <2> HIDE DEF c
  <2>8. \A k \in Inputs : /\ Pos(k) < Len(Stream(k)) /\ Stream(k)[Pos(k) + 1] = c
                          /\ Pos(k)' = Pos(k) + 1
    BY <1>1, <2>4, <2>5, <2>6 DEF c
  <2>9. Aligns(c, Inputs)
    BY <1>1, <1>5, <2>3, <2>7, <2>8 DEF Aligns, c
  <2>10. QED  BY <2>9 DEF c
<1>11. CASE e.kind = "barrier" /\ ~Waiting(i) /\ pending' = [pending EXCEPT ![i] = e.val]
            /\ toSend' = toSend
  <2>1. pending'[j] = pending[j] /\ pending'[i] # 0
    BY <1>1, <1>11, BarrierIs DEF TypeOK
  <2>2. Decided' = Decided
    BY <1>1, <1>11 DEF Decided, NotWatermark, Elems, Rec, Wm, Bar
  <2>3. Pos(i)' = Pos(i)
    <3>1. Pos(i)' = Len(Cut(g)) - 1 - 0
      <4>1. buffer'[i] = <<>> /\ Len(<<>>) = 0
        BY DEF Alignment
      <4>2. QED  BY <1>1, <1>2, <2>1, <4>1 DEF Pos, Cut, NotWatermark, Elems, Rec, Wm, Bar, g
    <3>2. QED  BY <1>3, <1>11, <3>1 DEF IsWm
  <2>4. QED  BY <1>1, <1>5, <1>6, <2>1, <2>2, <2>3 DEF Stays
<1>12. QED
  BY <1>8, <1>9, <1>10, <1>11, ReceiveFacts DEF e

LEMMA ClosedMaps ==
  ASSUME TypeOK, TypeOK', Alignment, Alignment', BarriersMatch, NEW i \in Inputs,
         ReceiveClosed(i)
  PROVE  Stays \/ \E b : Aligns(b, {Other(i)})
<1> DEFINE j == Other(i)
<1>1. /\ j \in Inputs /\ j # i /\ (\A k \in Inputs : k = i \/ k = j)
      /\ taken' = taken /\ out' = out /\ taken[i] = Len(sent[i]) /\ ~open[i]
      /\ sent' = sent /\ open' = open /\ buffer' = buffer
      /\ toSend = <<>> /\ pending[i] = 0 /\ pending' = [k \in Inputs |-> 0]
  BY BothInputs, ReceiveClosedFacts DEF ReceiveClosed, outside
<1>2. SameStreams
  BY <1>1, StreamKept
<1>3. Pos(i)' = Pos(i)
  BY <1>1, PosKept
<1>4. CASE ~Waiting(i) /\ toSend' = <<>>
  <2>1. pending[j] = 0
    BY <1>1, <1>4 DEF Waiting
  <2>2. Pos(j)' = Pos(j)
    BY <1>1, <2>1, PosKept
  <2>3. Decided' = Decided
    BY <1>1, <1>4 DEF Decided, NotWatermark, Elems, Rec, Wm, Bar
  <2>4. QED  BY <1>1, <1>2, <1>3, <2>2, <2>3 DEF Stays
<1>5. ASSUME Waiting(i), toSend' = <<Tagged(0, Bar(pending[j]))>>
      PROVE  Aligns(Bar(pending[j]), {j})
  <2> DEFINE b == Bar(pending[j])
  <2>1. pending[j] # 0
    BY <1>5 DEF Waiting
  <2>2. Pos(j) < Len(Stream(j)) /\ Stream(j)[Pos(j) + 1] = b /\ b.kind = "barrier"
    BY <1>1, <2>1, PendingNext DEF Bar
  <2>3. Pos(j)' = Pos(j) + 1
    <3>1. LET q == Len(Cut(SubSeq(sent[j], 1, taken[j]))) IN
          q \in Nat /\ Pos(j) = q - 1
      BY <1>1, <2>1, PosTyped
    <3>2. Pos(j)' = Len(Cut(SubSeq(sent[j], 1, taken[j]))) - 0 - 0
      <4>1. pending'[j] = 0 /\ taken'[j] = taken[j]
        BY <1>1
      <4>2. QED  BY <1>1, <4>1, PosNext
    <3>3. QED  BY <3>1, <3>2
  <2>4. Decided' = Append(Decided, [from |-> 0, elem |-> b])
    <3> DEFINE x == Tagged(0, b)
    <3>1. ~IsWm(x.elem) /\ toSend' = <<x>> /\ x = [from |-> 0, elem |-> b]
      BY <1>5 DEF Tagged, Bar, IsWm
    <3> HIDE DEF x
    <3>2. QED  BY <1>1, <3>1, DecidedGrows
  <2>5. ~(Pos(i) < Len(Stream(i)))
    BY <1>1, NothingNext
  <2>6. \A k \in Inputs \ {j} : k = i
    BY <1>1
  <2> HIDE DEF b
  <2>7. Aligns(b, {j})
    BY <1>1, <1>2, <1>3, <2>2, <2>3, <2>4, <2>5, <2>6 DEF Aligns
  <2>8. QED  BY <2>7 DEF b
<1>6. QED
  BY <1>4, <1>5, ReceiveClosedFacts

LEMMA SendMaps ==
  ASSUME TypeOK, TypeOK', Alignment, NEW i \in Inputs, NEW e \in Elems, SendElem(i, e)
  PROVE  Streams!Environment
<1>1. /\ open' = open /\ open[i] /\ taken' = taken /\ pending' = pending /\ buffer' = buffer
      /\ out' = out /\ toSend' = toSend
      /\ sent'[i] = Append(sent[i], e) /\ \A j \in Inputs : j # i => sent'[j] = sent[j]
  BY DEF SendElem, TypeOK, local, outside
<1>2. \A j \in Inputs : /\ sent[j] \in Seq(Elems) /\ taken[j] \in Nat /\ taken[j] <= Len(sent[j])
  BY DEF TypeOK
<1>3. \A j \in Inputs : SubSeq(sent'[j], 1, taken[j]) = SubSeq(sent[j], 1, taken[j])
  <2>1. TAKE j \in Inputs
  <2>2. CASE j = i
    BY <1>1, <1>2, <2>2, PrefixKept
  <2>3. CASE j # i
    BY <1>1, <2>3
  <2>4. QED  BY <2>2, <2>3
<1>4. \A j \in Inputs : Pos(j)' = Pos(j)
  BY <1>1, <1>3 DEF Pos, Cut, NotWatermark, Elems, Rec, Wm, Bar
<1>5. \A j \in Inputs : j # i => Stream(j)' = Stream(j)
  BY <1>1 DEF Stream, Cut, NotWatermark, Elems, Rec, Wm, Bar
<1>6. SubSeq(Stream(i)', 1, Len(Stream(i))) = Stream(i)
  <2>1. Stream(i)' = Cut(Append(sent[i], e))
    BY <1>1 DEF Stream, Cut, NotWatermark, Elems, Rec, Wm, Bar
  <2>2. Stream(i)' = Stream(i) \/ Stream(i)' = Append(Stream(i), e)
    BY <1>2, <2>1, KeepAppend DEF Stream, Cut
  <2>3. Stream(i) \in Seq(Elems)
    BY <1>2, CutTyped DEF Stream
  <2>4. QED  BY <2>2, <2>3
<1>7. Decided' = Decided
  BY <1>1 DEF Decided, NotWatermark, Elems, Rec, Wm, Bar
<1>8. open \in [Inputs -> BOOLEAN]
  BY DEF TypeOK
<1>9. UNCHANGED [j \in Inputs |-> Pos(j)]
  BY <1>4
<1>10. QED
  BY <1>1, <1>5, <1>6, <1>7, <1>8, <1>9 DEF Streams!Environment, Streams!InputSet

LEMMA RefinementStep ==
  ASSUME TypeOK, TypeOK', Alignment, Alignment', NextInEventTime, BarriersMatch, [Next]_vars
  PROVE  [Streams!Next]_(Streams!vars)
<1> USE DEF senders, outside, local
<1>1. ASSUME NEW i \in Inputs, NEW e \in Elems, SendElem(i, e)
      PROVE  Streams!Next
  BY <1>1, SendMaps DEF Streams!Next
<1>2. ASSUME NEW i \in Inputs, CloseInput(i)
      PROVE  Streams!Next
  <2>1. /\ open' = [open EXCEPT ![i] = FALSE] /\ sent' = sent /\ taken' = taken
        /\ pending' = pending /\ buffer' = buffer /\ out' = out /\ toSend' = toSend
    BY <1>2 DEF CloseInput
  <2>2. Decided' = Decided /\ \A j \in Inputs : Stream(j)' = Stream(j) /\ Pos(j)' = Pos(j)
    BY <2>1 DEF Decided, Stream, Pos, Cut, NotWatermark, Elems, Rec, Wm, Bar
  <2>3. \A j \in Inputs : open'[j] => open[j]
    BY <2>1 DEF TypeOK
  <2>4. DOMAIN open' = Inputs
    BY DEF TypeOK
  <2>5. UNCHANGED [j \in Inputs |-> Pos(j)]
    BY <2>2
  <2>6. Streams!Environment
    BY <2>2, <2>3, <2>4, <2>5 DEF Streams!Environment, Streams!InputSet
  <2>7. QED  BY <2>6 DEF Streams!Next
<1>3. ASSUME NEW i \in Inputs, Receive(i)
      PROVE  [Streams!Next]_(Streams!vars)
  BY <1>3, ReceiveMaps, StepsMap
<1>4. ASSUME NEW i \in Inputs, ReceiveClosed(i)
      PROVE  [Streams!Next]_(Streams!vars)
  <2>1. {Other(i)} \in SUBSET Inputs
    BY BothInputs
  <2>2. QED  BY <1>4, <2>1, ClosedMaps, StepsMap
<1>5. CASE Consume \/ DropDownstream \/ SendFails \/ Finish \/ UNCHANGED vars
  <2>1. /\ sent' = sent /\ taken' = taken /\ open' = open /\ pending' = pending
        /\ buffer' = buffer /\ out' = out /\ toSend' = toSend
    BY <1>5 DEF Consume, DropDownstream, SendFails, Finish, vars
  <2>2. Stays
    BY <2>1 DEF Stays, SameStreams, Decided, Stream, Pos, Cut, NotWatermark, Elems, Rec, Wm, Bar
  <2>3. QED  BY <2>2, StepsMap
<1>6. CASE SendOut
  <2> DEFINE T == [from : 0..2, elem : Elems]
  <2>1. /\ sent' = sent /\ taken' = taken /\ open' = open /\ pending' = pending
        /\ buffer' = buffer /\ out' = Append(out, Head(toSend)) /\ toSend' = Tail(toSend)
        /\ toSend # <<>>
    BY <1>6 DEF SendOut
  <2>2. out \in Seq(T) /\ toSend \in Seq(T) /\ Len(toSend) <= 1
    BY DEF TypeOK, NextInEventTime
  <2> HIDE DEF T
  <2>3. out' \o toSend' = out \o toSend
    <3>1. Append(out, Head(toSend)) \o Tail(toSend) = out \o toSend
      BY <2>1, <2>2, MovesOver
    <3>2. QED  BY <2>1, <3>1
  <2>4. Decided' = Decided
    BY <2>3 DEF Decided, NotWatermark, Elems, Rec, Wm, Bar
  <2>5. Stays
    BY <2>1, <2>4 DEF Stays, SameStreams, Stream, Pos, Cut, NotWatermark, Elems, Rec, Wm, Bar
  <2>6. QED  BY <2>5, StepsMap
<1>7. QED
  BY <1>1, <1>2, <1>3, <1>4, <1>5, <1>6 DEF Next, Merger

LEMMA InitMaps == Init => Streams!Init
<1> SUFFICES ASSUME Init PROVE Streams!Init
  OBVIOUS
<1>1. Cut(<<>>) = <<>> /\ Len(<<>>) = 0
  BY KeepEmpty DEF Cut
<1>2. SubSeq(<<>>, 1, 0) = <<>>
  OBVIOUS
<1>3. \A i \in Inputs : Stream(i) = <<>> /\ Pos(i) = 0
  <2>1. TAKE i \in Inputs
  <2>2. sent[i] = <<>> /\ taken[i] = 0 /\ pending[i] = 0 /\ buffer[i] = <<>>
    BY DEF Init
  <2>3. Stream(i) = <<>>
    BY <1>1, <2>2 DEF Stream
  <2>4. Cut(SubSeq(sent[i], 1, taken[i])) = <<>>
    BY <1>1, <1>2, <2>2, Zenon
  <2>5. Pos(i) = 0 - 0 - 0
    BY <1>1, <2>2, <2>4 DEF Pos
  <2>6. QED  BY <2>3, <2>5
<1>4. Decided = <<>>
  <2>1. <<>> \o <<>> = <<>>
    OBVIOUS
  <2>2. QED  BY <2>1, KeepEmpty DEF Init, Decided
<1>5. QED  BY <1>3, <1>4 DEF Init, Streams!Init, Streams!InputSet

-----------------------------------------------------------------------------
(* The initial state and the theorems. *)

LEMMA InitIInv == Init => IInv
<1> SUFFICES ASSUME Init PROVE IInv
  OBVIOUS
<1>a. MaxTime \in Nat /\ MaxBarriers \in Nat /\ \A i \in Inputs : MaxElems[i] \in Nat
  BY MergeAssumption DEF Inputs
<1>1. TypeOK
  <2>1. /\ sent \in [Inputs -> Seq(Elems)]
        /\ \A i \in Inputs : sent[i] = <<>> /\ taken[i] = 0
        /\ buffer \in [Inputs -> Seq([from : Inputs, elem : Elems])]
        /\ toSend \in Seq([from : 0..2, elem : Elems])
        /\ out \in Seq([from : 0..2, elem : Elems])
    BY DEF Init
  <2>2. /\ watermark \in [Inputs -> 0..MaxTime] /\ lastWatermark \in 0..MaxTime
        /\ pending \in [Inputs -> 0..MaxBarriers]
        /\ taken \in [Inputs -> Nat] /\ consumed \in 0..Len(out)
    BY <1>a DEF Init
  <2>3. \A i \in Inputs : taken[i] <= Len(sent[i]) /\ Len(sent[i]) <= MaxElems[i]
    BY <1>a, <2>1
  <2>4. QED  BY <2>1, <2>2, <2>3 DEF Init, TypeOK
<1>2. Alignment
  BY DEF Init, Alignment, Inputs
<1>3. InputsInEventTime
  BY DEF Init, InputsInEventTime
<1>4. NextInEventTime /\ OutputInEventTime
  BY DEF Init, NextInEventTime, OutputInEventTime
<1>5. BarriersMatch
  <2>1. \A i \in Inputs : /\ sent[i] = <<>> /\ taken[i] = 0 /\ pending[i] = 0
                          /\ DOMAIN <<>> = {}
    BY DEF Init
  <2>2. Passed(1) = Passed(2)
    BY <2>1 DEF Passed, Inputs
  <2>3. QED  BY <2>1, <2>2 DEF BarriersMatch
<1>6. QED  BY <1>1, <1>2, <1>3, <1>4, <1>5 DEF IInv

(* The inductive invariant holds in every reachable state. *)
THEOREM Invariance == Spec => []IInv
<1>1. IInv /\ [Next]_vars => IInv'
  <2> SUFFICES ASSUME IInv, [Next]_vars PROVE IInv'
    OBVIOUS
  <2>1. /\ TypeOK /\ Alignment /\ InputsInEventTime /\ NextInEventTime
        /\ OutputInEventTime /\ BarriersMatch
    BY DEF IInv
  <2>2. TypeOK'
    BY <2>1, TypeStep
  <2>3. Alignment'
    BY <2>1, <2>2, AlignmentStep
  <2>4. InputsInEventTime'
    BY <2>1, <2>2, InputsStep
  <2>5. NextInEventTime' /\ OutputInEventTime'
    BY <2>1, <2>2, OutputStep
  <2>6. BarriersMatch'
    BY <2>1, <2>2, BarriersStep
  <2>7. QED  BY <2>2, <2>3, <2>4, <2>5, <2>6 DEF IInv
<1>2. QED  BY InitIInv, <1>1, PTL DEF Spec

(* Every state the merger reaches is well typed. *)
THEOREM TypeCorrect == Spec => []TypeOK
<1>1. IInv => TypeOK
  BY DEF IInv
<1>2. QED  BY <1>1, Invariance, PTL

(* The merger keeps the order of the records of each input, passes each on *)
(* once, and forwards a barrier only where it cuts both inputs, or the one *)
(* that did not end (doc of two_input_merge, merge.rs lines 15-21).         *)
THEOREM Refinement == Spec => ImplementsAlignedStreams
<1>1. IInv /\ IInv' /\ [Next]_vars => [Streams!Next]_(Streams!vars)
  BY RefinementStep DEF IInv
<1>2. QED  BY InitMaps, Invariance, <1>1, PTL DEF Spec, ImplementsAlignedStreams, Streams!Spec

(* Downstream of the merger no record follows a watermark that passed it   *)
(* and watermarks increase, however the inputs interleave (merge.rs lines   *)
(* 16-17).                                                                  *)
THEOREM EventTimeKept == Spec => []OutputInEventTime
<1>1. IInv => OutputInEventTime
  BY DEF IInv
<1>2. QED  BY <1>1, Invariance, PTL

(* two_input_merge returns Ok only after it forwarded all that both inputs *)
(* carried, a barrier of one input too (merge.rs line 21).                  *)
THEOREM NothingLost == Spec => []NoLossAtEnd
<1>1. IInv => NoLossAtEnd
  BY DEF IInv, Alignment, NoLossAtEnd, TypeOK, Inputs
<1>2. QED  BY <1>1, Invariance, PTL
=============================================================================
