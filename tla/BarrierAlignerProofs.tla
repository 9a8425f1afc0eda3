------------------------ MODULE BarrierAlignerProofs ------------------------
(***************************************************************************)
(* Proofs about BarrierAligner for any number of inputs, elements and      *)
(* checkpoints: when checkpoints do not overlap it implements              *)
(* AlignedStreams, and next() returns None only after everything was       *)
(* handed on.                                                               *)
(***************************************************************************)
EXTENDS BarrierAligner, FilterLemmas, FiniteSetTheorems

Passes == {"pass1", "pass2", "pass3"}
IsBarrier(e) == e.kind = "barrier"

(* No more is taken off an input than was sent on it. *)
Bounded ==
  \A i \in Inputs : taken[i] <= Len(sent[i]) /\ Len(sent[i]) <= MaxElems[n]

(* Where the elements taken off an input are: handed on, waiting as the     *)
(* pending barrier, or buffered behind it in the order of the input.        *)
Buffering ==
  \A i \in Inputs :
    /\ Len(buffers[i]) <= taken[i]
    /\ \A m \in 1..Len(buffers[i]) :
         /\ buffers[i][m] = sent[i][taken[i] - Len(buffers[i]) + m]
         /\ ~IsBarrier(buffers[i][m])
    /\ received[i] =>
         /\ Len(buffers[i]) < taken[i]
         /\ sent[i][taken[i] - Len(buffers[i])] = pending
         /\ pending # NoBarrier

(* The buffers are drained from the first input on before next polls.      *)
Draining ==
  /\ pc # "idle" => drainIndex = n + 1
  /\ \A i \in Inputs : received[i] => drainIndex = n + 1
  /\ \A i \in Inputs : ~received[i] /\ i < drainIndex => buffers[i] = <<>>
  /\ pc = "single" => n = 1
  /\ pc \in Passes => n > 1

(* An input is known to be over only when it is closed and read to its end. *)
Ended(i) == ~open[i] /\ taken[i] = Len(sent[i])
Ending ==
  /\ pc = "pass3" /\ ~anyOpen => \A i \in Inputs : i < scan => Ended(i)
  /\ pc = "none" => \A i \in Inputs : Ended(i)

(* What is ahead on an input: data, and at most one barrier, the next one. *)
Ahead(i) == {k \in DOMAIN sent[i] : k > HandedOn(i)}
NoneAhead(i) ==
  /\ BarriersIn(sent[i]) = AlignedCount
  /\ \A k \in Ahead(i) : ~IsBarrier(sent[i][k])
OneAhead(i) ==
  /\ BarriersIn(sent[i]) = AlignedCount + 1
  /\ \E p \in Ahead(i) :
       /\ sent[i][p] = Barrier(AlignedCount + 1)
       /\ \A k \in Ahead(i) \ {p} : ~IsBarrier(sent[i][k])
OneBarrier ==
  /\ pending # NoBarrier => n > 1 /\ pending = Barrier(AlignedCount + 1)
  /\ \A i \in Inputs : NoneAhead(i) \/ OneAhead(i)

(* next returned of every input the data of what it handed on, in order. *)
InOrder ==
  \A i \in Inputs : Returned(i, Len(out)) = DataOf(SubSeq(sent[i], 1, HandedOn(i)))

(* The inductive invariant, for checkpoints that do not overlap. *)
IInv ==
  /\ TypeOK
  /\ Bounded
  /\ Buffering
  /\ Draining
  /\ Ending
  /\ OneBarrier
  /\ InOrder

-----------------------------------------------------------------------------
(* Lemmas about the elements, the counts and the positions. *)

LEMMA ElementTyped ==
  ASSUME n \in 1..MaxInputs
  PROVE  /\ \A e \in Element_Type : e.kind \in {"data", "barrier"} /\ e # NoBarrier
         /\ \A e \in Element_Type : IsBarrier(e) => e = Barrier(e.val)
BY DEF Element_Type, Data_Type, Data, Barrier, NoBarrier, IsBarrier

(* One more barrier on an input counts as one more. *)
LEMMA BarriersCounted ==
  ASSUME NEW S, NEW s \in Seq(S), NEW e \in S
  PROVE  /\ BarriersIn(s) \in Nat
         /\ BarriersIn(Append(s, e)) =
              IF IsBarrier(e) THEN BarriersIn(s) + 1 ELSE BarriersIn(s)
<1> DEFINE B(t) == {k \in DOMAIN t : t[k].kind = "barrier"}
<1>1. /\ Len(s) \in Nat /\ DOMAIN s = 1..Len(s)
      /\ DOMAIN Append(s, e) = 1..(Len(s) + 1)
      /\ Append(s, e)[Len(s) + 1] = e
      /\ \A k \in 1..Len(s) : Append(s, e)[k] = s[k]
  OBVIOUS
<1>2. IsFiniteSet(B(s)) /\ Cardinality(B(s)) \in Nat
  <2>1. IsFiniteSet(1..Len(s))
    BY <1>1, FS_Interval
  <2>2. B(s) \subseteq 1..Len(s)
    BY <1>1
  <2>3. QED  BY <2>1, <2>2, FS_Subset, FS_CardinalityType
<1>3. Len(s) + 1 \notin B(s)
  BY <1>1
<1>4. CASE IsBarrier(e)
  <2>1. B(Append(s, e)) = B(s) \cup {Len(s) + 1}
    BY <1>1, <1>4 DEF IsBarrier
  <2>2. Cardinality(B(s) \cup {Len(s) + 1}) = Cardinality(B(s)) + 1
    BY <1>2, <1>3, FS_AddElement
  <2>3. QED  BY <1>2, <1>4, <2>1, <2>2 DEF BarriersIn
<1>5. CASE ~IsBarrier(e)
  <2>1. B(Append(s, e)) = B(s)
    BY <1>1, <1>5 DEF IsBarrier
  <2>2. QED  BY <1>2, <1>5, <2>1 DEF BarriersIn
<1>6. QED  BY <1>4, <1>5

(* One more barrier handed on counts as one more. *)
LEMMA AlignedCounted ==
  ASSUME NEW S, out \in Seq(S), NEW r \in S, out' = Append(out, r)
  PROVE  /\ AlignedCount \in Nat
         /\ AlignedCount' = IF r.from = 0 THEN AlignedCount + 1 ELSE AlignedCount
<1> DEFINE C(t) == {k \in DOMAIN t : t[k].from = 0}
<1>1. /\ Len(out) \in Nat /\ DOMAIN out = 1..Len(out)
      /\ DOMAIN out' = 1..(Len(out) + 1)
      /\ out'[Len(out) + 1] = r
      /\ \A k \in 1..Len(out) : out'[k] = out[k]
  OBVIOUS
<1>2. IsFiniteSet(C(out)) /\ Cardinality(C(out)) \in Nat
  <2>1. IsFiniteSet(1..Len(out))
    BY <1>1, FS_Interval
  <2>2. C(out) \subseteq 1..Len(out)
    BY <1>1
  <2>3. QED  BY <2>1, <2>2, FS_Subset, FS_CardinalityType
<1>3. Len(out) + 1 \notin C(out)
  BY <1>1
<1>4. CASE r.from = 0
  <2>1. C(out') = C(out) \cup {Len(out) + 1}
    BY <1>1, <1>4
  <2>2. Cardinality(C(out) \cup {Len(out) + 1}) = Cardinality(C(out)) + 1
    BY <1>2, <1>3, FS_AddElement
  <2>3. QED  BY <1>2, <1>4, <2>1, <2>2 DEF AlignedCount
<1>5. CASE r.from # 0
  <2>1. C(out') = C(out)
    BY <1>1, <1>5
  <2>2. QED  BY <1>2, <1>5, <2>1 DEF AlignedCount
<1>6. QED  BY <1>4, <1>5

LEMMA CountTyped ==
  ASSUME NEW S, out \in Seq(S)
  PROVE  AlignedCount \in Nat
<1>1. Len(out) \in Nat /\ DOMAIN out = 1..Len(out)
  OBVIOUS
<1>2. IsFiniteSet(1..Len(out))
  BY <1>1, FS_Interval
<1>3. {k \in DOMAIN out : out[k].from = 0} \subseteq 1..Len(out)
  BY <1>1
<1>4. QED  BY <1>2, <1>3, FS_Subset, FS_CardinalityType DEF AlignedCount

(* The typed facts the steps start from. *)
LEMMA Typed ==
  ASSUME TypeOK
  PROVE  /\ n \in Nat /\ n >= 1 /\ MaxElems[n] \in Nat
         /\ AlignedCount \in Nat
         /\ \A i \in Inputs :
              /\ i \in Nat /\ i >= 1 /\ i <= n
              /\ sent[i] \in Seq(Element_Type) /\ Len(sent[i]) \in Nat
              /\ DOMAIN sent[i] = 1..Len(sent[i])
              /\ taken[i] \in Nat
              /\ buffers[i] \in Seq(Element_Type) /\ Len(buffers[i]) \in Nat
              /\ DOMAIN buffers[i] = 1..Len(buffers[i])
              /\ received[i] \in BOOLEAN /\ open[i] \in BOOLEAN
<1>1. n \in Nat /\ n >= 1 /\ MaxElems[n] \in Nat
  BY AlignerAssumption DEF TypeOK
<1>2. AlignedCount \in Nat
  BY CountTyped DEF TypeOK
<1>3. \A i \in Inputs : i \in Nat /\ i >= 1 /\ i <= n
  BY <1>1 DEF Inputs
<1> HIDE DEF Inputs
<1>4. ASSUME NEW i \in Inputs
      PROVE  /\ sent[i] \in Seq(Element_Type) /\ taken[i] \in Nat
             /\ buffers[i] \in Seq(Element_Type)
             /\ received[i] \in BOOLEAN /\ open[i] \in BOOLEAN
  BY <1>1 DEF TypeOK
<1>5. QED  BY <1>1, <1>2, <1>3, <1>4

(* What was handed on is a prefix of what was taken. *)
LEMMA Position ==
  ASSUME TypeOK, Bounded, Buffering, NEW i \in Inputs
  PROVE  /\ HandedOn(i) \in Nat /\ HandedOn(i) <= taken[i]
         /\ HandedOn(i) <= Len(sent[i])
         /\ received[i] => /\ HandedOn(i) = taken[i] - Len(buffers[i]) - 1
                           /\ HandedOn(i) < Len(sent[i])
                           /\ sent[i][HandedOn(i) + 1] = pending
         /\ ~received[i] => HandedOn(i) = taken[i] - Len(buffers[i])
<1>1. /\ taken[i] \in Nat /\ Len(sent[i]) \in Nat /\ Len(buffers[i]) \in Nat
      /\ received[i] \in BOOLEAN
  BY Typed
<1>2. /\ taken[i] <= Len(sent[i]) /\ Len(buffers[i]) <= taken[i]
      /\ received[i] => /\ Len(buffers[i]) < taken[i]
                        /\ sent[i][taken[i] - Len(buffers[i])] = pending
  BY DEF Bounded, Buffering
<1>3. CASE received[i]
  <2>1. HandedOn(i) = taken[i] - Len(buffers[i]) - 1
    BY <1>1, <1>3 DEF HandedOn
  <2>2. HandedOn(i) + 1 = taken[i] - Len(buffers[i])
    BY <1>1, <2>1
  <2>3. QED  BY <1>1, <1>2, <1>3, <2>1, <2>2
<1>4. CASE ~received[i]
  BY <1>1, <1>2, <1>4 DEF HandedOn
<1>5. QED  BY <1>3, <1>4

-----------------------------------------------------------------------------
(* What a step of the aligner does to the streams: nothing, hand on the    *)
(* next datum of one input, or cut every input at the next barrier.        *)

Stays ==
  /\ UNCHANGED <<n, sent, open, out>>
  /\ \A i \in Inputs : HandedOn(i)' = HandedOn(i)

Delivers(i) ==
  LET e == sent[i][HandedOn(i) + 1] IN
  /\ HandedOn(i) < Len(sent[i])
  /\ ~IsBarrier(e)
  /\ out' = Append(out, [from |-> i, elem |-> e])
  /\ HandedOn(i)' = HandedOn(i) + 1
  /\ \A j \in Inputs \ {i} : HandedOn(j)' = HandedOn(j)
  /\ UNCHANGED <<n, sent, open, pending>>

Cuts ==
  LET b == Barrier(AlignedCount + 1) IN
  /\ \A i \in Inputs :
       /\ HandedOn(i) < Len(sent[i])
       /\ sent[i][HandedOn(i) + 1] = b
       /\ HandedOn(i)' = HandedOn(i) + 1
  /\ out' = Append(out, [from |-> 0, elem |-> b])
  /\ pending' = NoBarrier
  /\ UNCHANGED <<n, sent, open>>

(* A barrier that is ahead is the next one, and the only one. *)
LEMMA TheBarrierAhead ==
  ASSUME TypeOK, Bounded, Buffering, OneBarrier, NEW i \in Inputs, NEW k \in Ahead(i),
         IsBarrier(sent[i][k])
  PROVE  /\ BarriersIn(sent[i]) = AlignedCount + 1
         /\ sent[i][k] = Barrier(AlignedCount + 1)
         /\ \A m \in Ahead(i) \ {k} : ~IsBarrier(sent[i][m])
BY DEF OneBarrier, NoneAhead, OneAhead

LEMMA StaysKeeps ==
  ASSUME TypeOK, Bounded, Buffering, OneBarrier, Stays,
         \/ pending' = pending
         \/ pending' = Barrier(AlignedCount + 1) /\ n > 1
  PROVE  OneBarrier'
<1>1. AlignedCount' = AlignedCount /\ Inputs' = Inputs
  BY DEF Stays, AlignedCount, Inputs
<1>2. \A i \in Inputs : /\ BarriersIn(sent[i])' = BarriersIn(sent[i])
                        /\ Ahead(i)' = Ahead(i) /\ sent'[i] = sent[i]
  BY DEF Stays, BarriersIn, Ahead
<1>3. \A i \in Inputs : (NoneAhead(i) \/ OneAhead(i))'
  BY <1>1, <1>2 DEF OneBarrier, NoneAhead, OneAhead
<1>4. (pending # NoBarrier => n > 1 /\ pending = Barrier(AlignedCount + 1))'
  BY <1>1 DEF OneBarrier, Stays, Barrier, NoBarrier
<1>5. QED  BY <1>1, <1>3, <1>4 DEF OneBarrier

LEMMA DeliversKeeps ==
  ASSUME TypeOK, Bounded, Buffering, OneBarrier, NEW i \in Inputs, Delivers(i)
  PROVE  OneBarrier'
<1>1. AlignedCount' = AlignedCount /\ Inputs' = Inputs
  <2>1. i # 0
    BY Typed
  <2>2. sent[i][HandedOn(i) + 1] \in Element_Type
    BY Typed, Position DEF Delivers
  <2>3. [from |-> i, elem |-> sent[i][HandedOn(i) + 1]] \in [from : 0..n, elem : Element_Type]
    BY <2>2, Typed
  <2>4. out \in Seq([from : 0..n, elem : Element_Type])
    BY DEF TypeOK
  <2>5. AlignedCount' = AlignedCount
    <3> DEFINE r == [from |-> i, elem |-> sent[i][HandedOn(i) + 1]]
    <3>1. out' = Append(out, r) /\ r.from = i
      BY DEF Delivers
    <3>2. r \in [from : 0..n, elem : Element_Type]
      BY <2>3
    <3> HIDE DEF r
    <3>3. QED  BY <2>1, <2>4, <3>1, <3>2, AlignedCounted
  <2>6. QED  BY <2>5 DEF Delivers, Inputs
<1>2. \A j \in Inputs : sent'[j] = sent[j] /\ BarriersIn(sent[j])' = BarriersIn(sent[j])
  BY DEF Delivers, BarriersIn
<1>3. \A j \in Inputs \ {i} : Ahead(j)' = Ahead(j)
  BY DEF Delivers, Ahead
<1>4. /\ HandedOn(i) + 1 \in Ahead(i) /\ ~IsBarrier(sent[i][HandedOn(i) + 1])
      /\ Ahead(i)' = Ahead(i) \ {HandedOn(i) + 1}
  BY Typed, Position DEF Delivers, Ahead
<1>5. ASSUME NEW j \in Inputs
      PROVE  (NoneAhead(j) \/ OneAhead(j))'
  <2>1. CASE j # i
    BY <1>1, <1>2, <1>3, <2>1 DEF OneBarrier, NoneAhead, OneAhead
  <2>2. CASE j = i /\ NoneAhead(i)
    BY <1>1, <1>2, <1>4, <2>2 DEF NoneAhead
  <2>3. CASE j = i /\ OneAhead(i)
    <3>1. PICK p \in Ahead(i) :
             /\ sent[i][p] = Barrier(AlignedCount + 1)
             /\ \A k \in Ahead(i) \ {p} : ~IsBarrier(sent[i][k])
      BY <2>3 DEF OneAhead
    <3>2. p \in Ahead(i)'
      BY <1>4, <3>1 DEF IsBarrier, Barrier
    <3>3. QED  BY <1>1, <1>2, <1>4, <2>3, <3>1, <3>2 DEF OneAhead
  <2>4. QED  BY <2>1, <2>2, <2>3 DEF OneBarrier
<1>6. QED  BY <1>1, <1>5 DEF OneBarrier, Delivers

LEMMA CutsKeeps ==
  ASSUME TypeOK, Bounded, Buffering, OneBarrier, Cuts
  PROVE  OneBarrier'
<1>1. AlignedCount' = AlignedCount + 1 /\ Inputs' = Inputs
  <2>1. 1 \in Inputs
    BY Typed DEF Inputs
  <2>2. Barrier(AlignedCount + 1) \in Element_Type
    BY <2>1, Typed, Position DEF Cuts
  <2>3. [from |-> 0, elem |-> Barrier(AlignedCount + 1)] \in [from : 0..n, elem : Element_Type]
    BY <2>2, Typed
  <2>4. out \in Seq([from : 0..n, elem : Element_Type])
    BY DEF TypeOK
  <2>5. AlignedCount' = AlignedCount + 1
    <3> DEFINE r == [from |-> 0, elem |-> Barrier(AlignedCount + 1)]
    <3>1. out' = Append(out, r) /\ r.from = 0
      BY DEF Cuts
    <3>2. r \in [from : 0..n, elem : Element_Type]
      BY <2>3
    <3> HIDE DEF r
    <3>3. QED  BY <2>4, <3>1, <3>2, AlignedCounted
  <2>6. QED  BY <2>5 DEF Cuts, Inputs
<1>2. ASSUME NEW j \in Inputs
      PROVE  NoneAhead(j)'
  <2>1. /\ HandedOn(j) + 1 \in Ahead(j) /\ IsBarrier(sent[j][HandedOn(j) + 1])
        /\ Ahead(j)' = Ahead(j) \ {HandedOn(j) + 1}
    BY Typed, Position DEF Cuts, Ahead, IsBarrier, Barrier
  <2>2. sent'[j] = sent[j] /\ BarriersIn(sent[j])' = BarriersIn(sent[j])
    BY DEF Cuts, BarriersIn
  <2>3. QED  BY <1>1, <2>1, <2>2, TheBarrierAhead DEF NoneAhead
<1>3. QED  BY <1>1, <1>2 DEF OneBarrier, Cuts

LEMMA PrefixGrows ==
  ASSUME NEW T, NEW s \in Seq(T), NEW k \in Nat, k < Len(s)
  PROVE  /\ SubSeq(s, 1, k) \in Seq(T) /\ s[k + 1] \in T
         /\ SubSeq(s, 1, k + 1) = Append(SubSeq(s, 1, k), s[k + 1])
OBVIOUS

(* The data handed on, before and after one more element. *)
LEMMA DataGrows ==
  ASSUME TypeOK, Bounded, Buffering, NEW i \in Inputs, HandedOn(i) < Len(sent[i]),
         HandedOn(i)' = HandedOn(i) + 1, sent' = sent, n' = n
  PROVE  LET h == SubSeq(sent[i], 1, HandedOn(i))
             e == sent[i][HandedOn(i) + 1]
         IN DataOf(SubSeq(sent[i], 1, HandedOn(i)))'
              = IF IsBarrier(e) THEN DataOf(h) ELSE Append(DataOf(h), e)
<1> DEFINE h == SubSeq(sent[i], 1, HandedOn(i))
<1> DEFINE e == sent[i][HandedOn(i) + 1]
<1>1. /\ h \in Seq(Element_Type) /\ e \in Element_Type
      /\ SubSeq(sent[i], 1, HandedOn(i) + 1) = Append(h, e)
  BY PrefixGrows, Position, Typed
<1>2. DataOf(SubSeq(sent[i], 1, HandedOn(i)))' = Keep(Append(h, e), Data_Type)
  BY <1>1 DEF DataOf, Data_Type, Data
<1>3. IsBarrier(e) <=> e \notin Data_Type
  <2>1. e \in Element_Type
    BY <1>1
  <2> HIDE DEF e
  <2>2. QED  BY <2>1 DEF Element_Type, Data_Type, Data, Barrier, IsBarrier
<1>4. Keep(Append(h, e), Data_Type) =
        IF IsBarrier(e) THEN DataOf(h) ELSE Append(DataOf(h), e)
  <2> HIDE DEF h, e
  <2>1. QED  BY <1>1, <1>3, KeepAppend DEF DataOf
<1>5. QED  BY <1>2, <1>4, Zenon

(* What next returned of an input, before and after one more result. *)
LEMMA ReturnedGrows ==
  ASSUME TypeOK, NEW i \in Inputs, NEW from \in 0..n, NEW e \in Element_Type,
         out' = Append(out, [from |-> from, elem |-> e]), n' = n
  PROVE  Returned(i, Len(out))' = IF from = i THEN Append(Returned(i, Len(out)), e)
                                  ELSE Returned(i, Len(out))
<1> DEFINE R == [from : 0..n, elem : Element_Type]
<1> DEFINE Mine == [from : {i}, elem : Element_Type]
<1> DEFINE r == [from |-> from, elem |-> e]
<1>1. r \in R /\ out \in Seq(R) /\ out' = Append(out, r) /\ r.elem = e
      /\ (r \in Mine <=> from = i)
  BY DEF TypeOK
<1>2. Mine' = Mine
  BY DEF Element_Type, Data_Type, Data, Barrier
<1> DEFINE Elems(s) == [m \in DOMAIN s |-> s[m].elem]
<1>3. Returned(i, Len(out)) = Elems(Keep(SubSeq(out, 1, Len(out)), Mine))
      /\ Returned(i, Len(out))' = Elems(Keep(SubSeq(out', 1, Len(out')), Mine))
  BY <1>2 DEF Returned
<1> HIDE DEF R, r, Mine
<1>4. SubSeq(out, 1, Len(out)) = out /\ SubSeq(out', 1, Len(out')) = out'
  BY <1>1
<1>5. Keep(out', Mine) = IF from = i THEN Append(Keep(out, Mine), r) ELSE Keep(out, Mine)
  BY <1>1, KeepAppend
<1>6. Keep(out, Mine) \in Seq(R \cap Mine)
  BY <1>1, KeepTyped
<1> DEFINE k == Keep(out, Mine)
<1>7. Elems(Append(k, r)) = Append(Elems(k), e)
  <2>1. k \in Seq(R)
    BY <1>6
  <2> HIDE DEF k
  <2>2. /\ Len(k) \in Nat /\ DOMAIN k = 1..Len(k) /\ DOMAIN Append(k, r) = 1..(Len(k) + 1)
        /\ Append(k, r)[Len(k) + 1] = r
        /\ \A m \in 1..Len(k) : Append(k, r)[m] = k[m]
    BY <1>1, <2>1
  <2>3. DOMAIN Elems(k) = 1..Len(k) /\ Elems(k) \in Seq({k[m].elem : m \in 1..Len(k)} \cup {e})
    BY <2>2
  <2>4. Len(Elems(k)) = Len(k)
    BY <2>2, <2>3
  <2> DEFINE x == Elems(k)
  <2>5. \A m \in 1..Len(k) : x[m] = k[m].elem
    BY <2>2
  <2> DEFINE y == Elems(Append(k, r))
  <2>6. DOMAIN y = 1..(Len(k) + 1) /\ y[Len(k) + 1] = e
        /\ \A m \in 1..Len(k) : y[m] = x[m]
    BY <1>1, <2>2, <2>5
  <2>7. y = [m \in 1..(Len(k) + 1) |-> y[m]]
    BY <2>2
  <2> HIDE DEF x, y
  <2>8. /\ Append(x, e) = [m \in 1..(Len(k) + 1) |-> Append(x, e)[m]]
        /\ Append(x, e)[Len(k) + 1] = e
        /\ \A m \in 1..Len(k) : Append(x, e)[m] = x[m]
    BY <2>2, <2>3, <2>4 DEF x
  <2>9. \A m \in 1..(Len(k) + 1) : y[m] = Append(x, e)[m]
    BY <2>2, <2>6, <2>8
  <2>10. QED  BY <2>7, <2>8, <2>9 DEF x, y
<1> HIDE DEF Elems
<1>8. QED  BY <1>3, <1>4, <1>5, <1>7

LEMMA OrderKept ==
  ASSUME TypeOK, Bounded, Buffering, InOrder,
         Stays \/ Cuts \/ \E i \in Inputs : Delivers(i)
  PROVE  InOrder'
<1>1. CASE Stays
  BY <1>1 DEF Stays, InOrder, Inputs, Returned, DataOf, Element_Type, Data_Type, Data, Barrier
<1>2. CASE Cuts
  <2>1. Inputs' = Inputs /\ 1 \in Inputs
    BY <1>2, Typed DEF Cuts, Inputs
  <2>2. Barrier(AlignedCount + 1) \in Element_Type /\ 0 \in 0..n
    BY <1>2, <2>1, Typed, Position DEF Cuts
  <2>3. ASSUME NEW i \in Inputs
        PROVE  /\ Returned(i, Len(out))' = Returned(i, Len(out))
               /\ DataOf(SubSeq(sent[i], 1, HandedOn(i)))'
                    = DataOf(SubSeq(sent[i], 1, HandedOn(i)))
    <3>1. i # 0
      BY Typed
    <3>2. Returned(i, Len(out))' = Returned(i, Len(out))
      BY <1>2, <2>2, <3>1, ReturnedGrows DEF Cuts
    <3>3. IsBarrier(sent[i][HandedOn(i) + 1])
      BY <1>2 DEF Cuts, IsBarrier, Barrier
    <3>4. QED  BY <1>2, <3>2, <3>3, DataGrows DEF Cuts
  <2>4. QED  BY <2>1, <2>3 DEF InOrder
<1>3. ASSUME NEW i \in Inputs, Delivers(i) PROVE InOrder'
  <2> DEFINE e == sent[i][HandedOn(i) + 1]
  <2>1. Inputs' = Inputs /\ e \in Element_Type /\ i \in 0..n
    BY <1>3, Typed, Position DEF Delivers, Inputs
  <2>2. out' = Append(out, [from |-> i, elem |-> e]) /\ n' = n /\ ~IsBarrier(e)
    BY <1>3 DEF Delivers
  <2>3. DataOf(SubSeq(sent[i], 1, HandedOn(i)))'
          = Append(DataOf(SubSeq(sent[i], 1, HandedOn(i))), e)
    BY <1>3, <2>2, DataGrows DEF Delivers
  <2>4. ASSUME NEW j \in Inputs \ {i}
        PROVE  DataOf(SubSeq(sent[j], 1, HandedOn(j)))' = DataOf(SubSeq(sent[j], 1, HandedOn(j)))
    BY <1>3 DEF Delivers, DataOf, Data_Type, Data
  <2> HIDE DEF e
  <2>5. \A j \in Inputs : Returned(j, Len(out))' =
          IF j = i THEN Append(Returned(j, Len(out)), e) ELSE Returned(j, Len(out))
    BY <2>1, <2>2, ReturnedGrows
  <2>6. QED  BY <2>1, <2>3, <2>4, <2>5 DEF InOrder
<1>4. QED  BY <1>1, <1>2, <1>3

(* A cut, a delivery and a silent step as steps of AlignedStreams. *)
LEMMA StepsMap ==
  ASSUME TypeOK, Bounded, Buffering, OneBarrier
  PROVE  /\ Stays => UNCHANGED Aligned_Streams!vars
         /\ \A i \in Inputs : Delivers(i) => Aligned_Streams!Next
         /\ Cuts => Aligned_Streams!Next
<1> DEFINE P == [i \in Inputs |-> HandedOn(i)]
<1>1. DOMAIN sent = Inputs /\ Aligned_Streams!InputSet = Inputs
  BY DEF TypeOK, Aligned_Streams!InputSet
<1>2. ASSUME Stays PROVE UNCHANGED Aligned_Streams!vars
  BY <1>2 DEF Stays, Aligned_Streams!vars, Inputs
<1>3. ASSUME NEW i \in Inputs, Delivers(i) PROVE Aligned_Streams!Next
  <2>1. Inputs' = Inputs
    BY <1>3 DEF Delivers, Inputs
  <2>2. P' = [P EXCEPT ![i] = @ + 1]
    BY <1>3, <2>1 DEF Delivers
  <2>3. Aligned_Streams!Deliver(i)
    BY <1>3, <2>2 DEF Delivers, Aligned_Streams!Deliver, Aligned_Streams!HasNext,
       Aligned_Streams!NextElem, IsBarrier
  <2>4. QED  BY <1>1, <2>3 DEF Aligned_Streams!Next
<1>4. ASSUME Cuts PROVE Aligned_Streams!Next
  <2> DEFINE b == Barrier(AlignedCount + 1)
  <2>1. Inputs' = Inputs
    BY <1>4 DEF Cuts, Inputs
  <2>2. \A i \in Inputs : Aligned_Streams!HasNext(i) /\ Aligned_Streams!NextElem(i) = b
    BY <1>4 DEF Cuts, Aligned_Streams!HasNext, Aligned_Streams!NextElem
  <2>3. Aligned_Streams!AtBarrier(b) = Inputs
    BY <1>1, <2>2 DEF Aligned_Streams!AtBarrier
  <2>4. P' = [i \in Inputs |-> IF i \in Inputs THEN P[i] + 1 ELSE P[i]]
    BY <1>4, <2>1 DEF Cuts
  <2>5. 1 \in Inputs
    BY Typed DEF Inputs
  <2>6. Aligned_Streams!Align(b)
    BY <1>1, <1>4, <2>3, <2>4, <2>5 DEF Cuts, Aligned_Streams!Align, Barrier
  <2>7. QED  BY <1>1, <2>2, <2>5, <2>6 DEF Aligned_Streams!Next
<1>5. QED  BY <1>2, <1>3, <1>4

-----------------------------------------------------------------------------
(* Type correctness, with or without overlapping checkpoints. *)

LEMMA InitTyped == Init => TypeOK /\ Bounded
<1> SUFFICES ASSUME Init PROVE TypeOK /\ Bounded
  OBVIOUS
<1>1. n \in Nat /\ n >= 1 /\ MaxElems[n] \in Nat
  BY AlignerAssumption DEF Init
<1>2. TypeOK
  <2>1. /\ n \in 1..MaxInputs
        /\ open \in [Inputs -> BOOLEAN] /\ received \in [Inputs -> BOOLEAN]
        /\ taken \in [Inputs -> 0..MaxElems[n]]
    BY <1>1 DEF Init
  <2>2. <<>> \in Seq(Element_Type) /\ <<>> \in Seq([from : 0..n, elem : Element_Type])
    OBVIOUS
  <2>3. /\ sent \in [Inputs -> Seq(Element_Type)]
        /\ buffers \in [Inputs -> Seq(Element_Type)]
    BY <2>2 DEF Init
  <2>4. 1 \in 1..(n + 1)
    BY <1>1
  <2>5. QED  BY <2>1, <2>2, <2>3, <2>4 DEF Init, TypeOK
<1>3. Bounded
  BY <1>1 DEF Init, Bounded
<1>4. QED  BY <1>2, <1>3

(* The elements an action hands on are elements that were sent. *)
LEMMA AvailableTyped ==
  ASSUME TypeOK, Bounded, NEW i \in Inputs, Available(i)
  PROVE  /\ Element(i) \in Element_Type
         /\ taken[i] + 1 \in 1..Len(sent[i])
         /\ taken[i] + 1 \in 0..MaxElems[n]
BY Typed DEF Bounded, Available, Element

LEMMA EmitTyped ==
  ASSUME TypeOK, NEW from \in 0..n, NEW e \in Element_Type, Emit(from, e), n' = n
  PROVE  out' \in Seq([from : 0..n', elem : Element_Type'])
<1> DEFINE R == [from : 0..n, elem : Element_Type]
<1> DEFINE r == [from |-> from, elem |-> e]
<1>1. r \in R /\ out \in Seq(R) /\ out' = Append(out, r)
  BY DEF Emit, TypeOK
<1>2. R' = R
  BY DEF Element_Type, Data_Type, Data, Barrier
<1> HIDE DEF R, r
<1>3. out' \in Seq(R)
  BY <1>1
<1>4. QED  BY <1>2, <1>3 DEF R

LEMMA SendTyped ==
  ASSUME TypeOK, Bounded, NEW i \in Inputs, SendData(i) \/ SendBarrier(i)
  PROVE  TypeOK' /\ Bounded'
<1> DEFINE e == IF SendData(i) THEN Data(Len(sent[i]) + 1)
                ELSE Barrier(BarriersIn(sent[i]) + 1)
<1>1. /\ sent' = [sent EXCEPT ![i] = Append(@, e)] /\ n' = n
      /\ Len(sent[i]) < MaxElems[n]
      /\ UNCHANGED <<open, taken, align, pc, scan, anyOpen, out>>
  BY DEF SendData, SendBarrier, CanSend
<1>2. e \in Element_Type
  <2>1. CASE SendData(i)
    BY <1>1, <2>1, Typed DEF Element_Type, Data_Type
  <2>2. CASE ~SendData(i)
    <3>1. BarriersIn(sent[i]) < MaxBarriers
      BY <2>2 DEF SendBarrier
    <3>2. sent[i] \in Seq(Element_Type \cup {e})
      BY Typed
    <3>3. BarriersIn(sent[i]) \in Nat
      BY <3>2, BarriersCounted
    <3>4. QED  BY <2>2, <3>1, <3>3, AlignerAssumption DEF Element_Type, Data_Type
  <2>3. QED  BY <2>1, <2>2
<1>3. Inputs' = Inputs /\ Element_Type' = Element_Type
  BY <1>1 DEF Inputs, Element_Type, Data_Type, Data, Barrier
<1> HIDE DEF e
<1>4. /\ Append(sent[i], e) \in Seq(Element_Type)
      /\ Len(Append(sent[i], e)) = Len(sent[i]) + 1
  BY <1>2, Typed
<1>5. sent' \in [Inputs -> Seq(Element_Type)]
  BY <1>1, <1>4 DEF TypeOK
<1>6. TypeOK'
  BY <1>1, <1>3, <1>5 DEF TypeOK, align, NoBarrier
<1>7. Bounded'
  BY <1>1, <1>3, <1>4, Typed DEF Bounded, TypeOK
<1>8. QED  BY <1>6, <1>7

LEMMA CloseTyped ==
  ASSUME TypeOK, Bounded, NEW i \in Inputs, CloseInput(i)
  PROVE  TypeOK' /\ Bounded'
<1>1. Inputs' = Inputs /\ Element_Type' = Element_Type
  BY DEF CloseInput, Inputs, Element_Type, Data_Type, Data, Barrier
<1>2. TypeOK'
  BY <1>1 DEF CloseInput, TypeOK, align, NoBarrier
<1>3. Bounded'
  BY <1>1 DEF CloseInput, Bounded
<1>4. QED  BY <1>2, <1>3

LEMMA AlignerTyped ==
  ASSUME TypeOK, Bounded, Aligner
  PROVE  TypeOK' /\ Bounded'
<1>0. /\ n' = n /\ UNCHANGED senders
      /\ Inputs' = Inputs /\ Element_Type' = Element_Type /\ NoBarrier' = NoBarrier
  BY DEF Aligner, Drain, Poll, NextSingle, TryRecv, Skip, EndPass, Inputs, Element_Type, Data_Type,
     Data, Barrier, NoBarrier
<1>1. ASSUME Drain PROVE TypeOK' /\ Bounded'
  <2>1. PICK i \in Buffered :
          /\ Emit(i, Head(buffers[i]))
          /\ buffers' = [buffers EXCEPT ![i] = Tail(@)]
          /\ drainIndex' = i
    BY <1>1 DEF Drain
  <2>2. i \in Inputs /\ buffers[i] # <<>> /\ i \in 0..n /\ i \in 1..(n + 1)
    BY <2>1, Typed DEF Buffered, Inputs, TypeOK
  <2>3. Head(buffers[i]) \in Element_Type /\ Tail(buffers[i]) \in Seq(Element_Type)
    BY <2>2, Typed
  <2>4. out' \in Seq([from : 0..n', elem : Element_Type'])
    BY <1>0, <2>1, <2>2, <2>3, EmitTyped
  <2>5. buffers' \in [Inputs -> Seq(Element_Type)]
    BY <2>1, <2>3 DEF TypeOK
  <2>6. TypeOK'
    BY <1>0, <1>1, <2>1, <2>2, <2>4, <2>5 DEF Drain, TypeOK, senders
  <2>7. QED  BY <1>0, <1>1, <2>6 DEF Drain, senders, Bounded
<1>2. ASSUME Poll PROVE TypeOK' /\ Bounded'
  <2>1. TypeOK'
    BY <1>0, <1>2, Typed DEF Poll, TypeOK, senders
  <2>2. QED  BY <1>0, <1>2, <2>1 DEF Poll, senders, Bounded
<1>3. ASSUME NEW i \in Inputs, Available(i), Take(i)
      PROVE  taken' \in [Inputs -> 0..MaxElems[n]] /\ Bounded'
  <2>1. taken' \in [Inputs -> 0..MaxElems[n]]
    BY <1>3, AvailableTyped DEF Take, TypeOK
  <2>2. Bounded'
    BY <1>0, <1>3, AvailableTyped, Typed DEF Take, Bounded, TypeOK, senders
  <2>3. QED  BY <2>1, <2>2
<1>4. ASSUME NextSingle PROVE TypeOK' /\ Bounded'
  <2>1. CASE Available(1)
    <3>1. /\ 1 \in Inputs
          /\ Take(1) /\ Emit(IF Element(1).kind = "barrier" THEN 0 ELSE 1, Element(1))
          /\ pc' = "idle"
      BY <1>4, <2>1, Typed DEF NextSingle, Inputs
    <3>2. 0 \in 0..n /\ 1 \in 0..n
      BY Typed
    <3>3. out' \in Seq([from : 0..n', elem : Element_Type'])
      BY <1>0, <2>1, <3>1, <3>2, EmitTyped, AvailableTyped
    <3>4. TypeOK'
      BY <1>0, <1>3, <1>4, <2>1, <3>1, <3>3 DEF NextSingle, TypeOK, senders, align
    <3>5. QED  BY <1>3, <2>1, <3>1, <3>4
  <2>2. CASE ~Available(1)
    <3>1. TypeOK'
      BY <1>0, <1>4, <2>2 DEF NextSingle, TypeOK, senders, align
    <3>2. QED  BY <1>0, <1>4, <2>2, <3>1 DEF NextSingle, senders, Bounded
  <2>3. QED  BY <2>1, <2>2
<1>5. ASSUME TryRecv PROVE TypeOK' /\ Bounded'
  <2> DEFINE e == Element(scan)
  <2>1. /\ scan \in Inputs /\ Available(scan) /\ Take(scan) /\ Handle(scan, e)
        /\ UNCHANGED <<n, senders, anyOpen>>
    BY <1>5 DEF TryRecv
  <2>2. e \in Element_Type
    BY <2>1, AvailableTyped
  <2> HIDE DEF e
  <2>3. taken' \in [Inputs -> 0..MaxElems[n]] /\ Bounded'
    BY <1>3, <2>1
  <2>4. \A b \in Element_Type, from \in 0..n :
          Emit(from, b) => out' \in Seq([from : 0..n', elem : Element_Type'])
    BY <1>0, EmitTyped
  <2>5. 0 \in 0..n /\ scan \in 0..n /\ 1 \in 1..(n + 1)
    BY <2>1, Typed
  <2>6. ASSUME NEW b \in Element_Type, Aligned(b) PROVE TypeOK'
    BY <1>0, <2>1, <2>3, <2>4, <2>5, <2>6 DEF Aligned, TypeOK, senders
  <2>7. CASE HandleBarrier(scan, e)
    <3>1. ASSUME NEW b \in Element_Type, b = IF pending = NoBarrier THEN e ELSE pending,
                 received' = [received EXCEPT ![scan] = TRUE], pending' = b, Restart,
                 UNCHANGED <<buffers, drainIndex, out>>
          PROVE  TypeOK'
      BY <1>0, <2>1, <2>3, <2>5, <3>1 DEF Restart, TypeOK, senders
    <3>2. (IF pending = NoBarrier THEN e ELSE pending) \in Element_Type
      BY <2>2 DEF TypeOK
    <3>3. TypeOK'
      BY <2>6, <2>7, <3>1, <3>2 DEF HandleBarrier
    <3>4. QED  BY <2>3, <3>3
  <2>8. CASE HandleData(scan, e)
    <3>1. CASE ~received[scan]
      BY <1>0, <2>1, <2>2, <2>3, <2>4, <2>5, <2>8, <3>1
      DEF HandleData, TypeOK, senders, align
    <3>2. CASE received[scan]
      <4>1. buffers' = [buffers EXCEPT ![scan] = Append(@, e)]
        BY <2>8, <3>2 DEF HandleData
      <4>2. Append(buffers[scan], e) \in Seq(Element_Type)
        BY <2>1, <2>2, Typed
      <4>3. buffers' \in [Inputs -> Seq(Element_Type)]
        BY <4>1, <4>2 DEF TypeOK
      <4>4. QED  BY <1>0, <2>1, <2>3, <2>5, <2>8, <3>2, <4>3
                 DEF HandleData, Restart, TypeOK, senders
    <3>3. QED  BY <3>1, <3>2
  <2>9. QED  BY <2>1, <2>3, <2>7, <2>8 DEF Handle
<1>6. ASSUME Skip PROVE TypeOK' /\ Bounded'
  <2>1. scan \in Inputs /\ scan + 1 \in 1..(n + 1)
    BY <1>6, Typed DEF Skip
  <2>2. (pc = "pass3" /\ (anyOpen \/ open[scan])) \in BOOLEAN
    BY <2>1, Typed DEF TypeOK
  <2>3. TypeOK'
    BY <1>0, <1>6, <2>1, <2>2 DEF Skip, TypeOK, senders, align
  <2>4. QED  BY <1>0, <1>6, <2>3 DEF Skip, senders, Bounded
<1>7. ASSUME EndPass PROVE TypeOK' /\ Bounded'
  <2>1. 1 \in 1..(n + 1)
    BY Typed
  <2>2. pc' \in {"pass1", "pass2", "pass3", "none"}
    BY <1>7 DEF EndPass
  <2>3. TypeOK'
    BY <1>0, <1>7, <2>1, <2>2 DEF EndPass, TypeOK, senders, align
  <2>4. QED  BY <1>0, <1>7, <2>3 DEF EndPass, senders, Bounded
<1>8. QED  BY <1>1, <1>2, <1>4, <1>5, <1>6, <1>7 DEF Aligner

LEMMA StutterTyped ==
  ASSUME TypeOK, Bounded, UNCHANGED vars
  PROVE  TypeOK' /\ Bounded'
BY DEF TypeOK, Bounded, vars, senders, align, Inputs, Element_Type, Data_Type, Data, Barrier, NoBarrier

(* Type correctness of the aligner, whether or not checkpoints overlap. *)
THEOREM TypeCorrect == Spec => []TypeOK
<1>1. TypeOK /\ Bounded /\ [Next]_vars => TypeOK' /\ Bounded'
  <2>1. SUFFICES ASSUME TypeOK, Bounded, [Next]_vars PROVE TypeOK' /\ Bounded'
    OBVIOUS
  <2>2. CASE \E i \in Inputs : SendData(i)
    BY <2>1, <2>2, SendTyped
  <2>3. CASE \E i \in Inputs : SendBarrier(i)
    BY <2>1, <2>3, SendTyped
  <2>4. CASE \E i \in Inputs : CloseInput(i)
    BY <2>1, <2>4, CloseTyped
  <2>5. CASE Aligner
    BY <2>1, <2>5, AlignerTyped
  <2>6. CASE UNCHANGED vars
    BY <2>1, <2>6, StutterTyped
  <2>7. QED  BY <2>1, <2>2, <2>3, <2>4, <2>5, <2>6 DEF Next
<1>2. QED  BY InitTyped, <1>1, PTL DEF Spec

-----------------------------------------------------------------------------
(* The inductive invariant is preserved, and every step is one of          *)
(* AlignedStreams.                                                          *)

LEMMA InitInv == Init => IInv
<1> SUFFICES ASSUME Init PROVE IInv
  OBVIOUS
<1>1. TypeOK /\ Bounded
  BY InitTyped
<1>2. n \in Nat /\ n >= 1 /\ \A i \in Inputs : i \in Nat /\ i >= 1
  BY <1>1, Typed
<1>3. Buffering
  BY <1>2 DEF Init, Buffering
<1>4. Draining
  BY <1>2 DEF Init, Draining, Passes
<1>5. Ending
  BY DEF Init, Ending
<1>6. AlignedCount = 0
  <2>1. {k \in DOMAIN out : out[k].from = 0} = {}
    BY DEF Init
  <2>2. QED  BY <2>1, FS_EmptySet DEF AlignedCount
<1>7. ASSUME NEW i \in Inputs PROVE NoneAhead(i)
  <2>1. sent[i] = <<>>
    BY <1>2 DEF Init
  <2>2. {k \in DOMAIN sent[i] : sent[i][k].kind = "barrier"} = {} /\ Ahead(i) = {}
    BY <2>1 DEF Ahead
  <2>3. QED  BY <1>6, <2>2, FS_EmptySet DEF NoneAhead, BarriersIn
<1>8. OneBarrier
  BY <1>7 DEF OneBarrier, Init
<1>9. InOrder
  <2>1. SUFFICES ASSUME NEW i \in Inputs
        PROVE  Returned(i, Len(out)) = DataOf(SubSeq(sent[i], 1, HandedOn(i)))
    BY DEF InOrder
  <2>2. out = <<>> /\ sent[i] = <<>>
    BY DEF Init
  <2>3. SubSeq(out, 1, Len(out)) = <<>> /\ SubSeq(sent[i], 1, HandedOn(i)) = <<>>
    <3>1. HandedOn(i) \in Nat /\ HandedOn(i) <= Len(sent[i])
      BY <1>1, <1>3, Position
    <3>2. Len(<<>>) = 0 /\ SubSeq(<<>>, 1, 0) = <<>>
      OBVIOUS
    <3>3. QED  BY <2>2, <3>1, <3>2
  <2>4. Keep(<<>>, Data_Type) = <<>> /\ Keep(<<>>, [from : {i}, elem : Element_Type]) = <<>>
    BY KeepEmpty
  <2>5. [m \in DOMAIN <<>> |-> <<>>[m].elem] = <<>>
    OBVIOUS
  <2>6. QED  BY <2>3, <2>4, <2>5 DEF Returned, DataOf
<1>10. QED  BY <1>1, <1>3, <1>4, <1>5, <1>8, <1>9 DEF IInv

LEMMA InitMaps == Init => Aligned_Streams!Init
<1> SUFFICES ASSUME Init PROVE Aligned_Streams!Init
  OBVIOUS
<1>1. TypeOK /\ DOMAIN sent = Inputs
  BY InitTyped DEF TypeOK
<1>2. \A i \in Inputs : HandedOn(i) = 0
  <2>1. \A i \in Inputs : taken[i] = 0 /\ buffers[i] = <<>> /\ ~received[i]
    BY DEF Init
  <2>2. Len(<<>>) = 0
    OBVIOUS
  <2>3. QED  BY <2>1, <2>2 DEF HandedOn
<1>3. QED  BY <1>1, <1>2 DEF Init, Aligned_Streams!Init, Aligned_Streams!InputSet

LEMMA SendKeeps ==
  ASSUME ~Overlap, IInv, NEW i \in Inputs, SendData(i) \/ SendBarrier(i)
  PROVE  IInv' /\ Aligned_Streams!Environment
<1> DEFINE e == IF SendData(i) THEN Data(Len(sent[i]) + 1)
                ELSE Barrier(BarriersIn(sent[i]) + 1)
<1> USE DEF IInv
<1>0. TypeOK' /\ Bounded'
  BY SendTyped
<1>1. /\ sent' = [sent EXCEPT ![i] = Append(@, e)] /\ n' = n /\ open[i]
      /\ UNCHANGED <<open, taken, align, pc, scan, anyOpen, out>>
      /\ Inputs' = Inputs /\ NoBarrier' = NoBarrier
  BY DEF SendData, SendBarrier, CanSend, Inputs, NoBarrier
<1>2. /\ ~IsBarrier(e) \/ (BarriersIn(sent[i]) = AlignedCount /\ e = Barrier(AlignedCount + 1))
  <2>1. CASE SendData(i)
    BY <2>1 DEF IsBarrier, Data
  <2>2. CASE ~SendData(i)
    BY <2>2 DEF SendBarrier
  <2>3. QED  BY <2>1, <2>2
<1> HIDE DEF e
<1>3. /\ sent'[i] = Append(sent[i], e) /\ Len(sent'[i]) = Len(sent[i]) + 1
      /\ sent'[i][Len(sent[i]) + 1] = e
      /\ DOMAIN sent'[i] = 1..(Len(sent[i]) + 1)
      /\ \A k \in 1..Len(sent[i]) : sent'[i][k] = sent[i][k]
      /\ BarriersIn(sent'[i]) = IF IsBarrier(e) THEN BarriersIn(sent[i]) + 1
                                ELSE BarriersIn(sent[i])
  <2>1. sent'[i] = Append(sent[i], e) /\ sent[i] \in Seq(Element_Type \cup {e})
    BY <1>1, Typed DEF TypeOK
  <2>2. e \in Element_Type \cup {e}
    OBVIOUS
  <2>3. BarriersIn(Append(sent[i], e)) =
          IF IsBarrier(e) THEN BarriersIn(sent[i]) + 1 ELSE BarriersIn(sent[i])
    BY <2>1, <2>2, BarriersCounted
  <2>4. QED  BY <2>1, <2>3
<1>4. \A j \in Inputs \ {i} : sent'[j] = sent[j] /\ BarriersIn(sent[j])' = BarriersIn(sent[j])
  BY <1>1 DEF TypeOK, BarriersIn
<1>5. \A j \in Inputs, k \in Nat : k >= 1 /\ k <= Len(sent[j]) => sent'[j][k] = sent[j][k]
  <2>1. TAKE j \in Inputs, k \in Nat
  <2>2. CASE j = i
    BY <1>3, <2>2, Typed
  <2>3. CASE j # i
    BY <1>4, <2>3
  <2>4. QED  BY <2>2, <2>3
<1>6. Buffering'
  <2>1. SUFFICES ASSUME NEW j \in Inputs
        PROVE  /\ Len(buffers[j]) <= taken[j]
               /\ \A m \in 1..Len(buffers[j]) :
                    /\ buffers[j][m] = sent'[j][taken[j] - Len(buffers[j]) + m]
                    /\ ~IsBarrier(buffers[j][m])
               /\ received[j] =>
                    /\ Len(buffers[j]) < taken[j]
                    /\ sent'[j][taken[j] - Len(buffers[j])] = pending
                    /\ pending # NoBarrier
    <3>1. /\ taken' = taken /\ buffers' = buffers /\ received' = received
          /\ pending' = pending /\ NoBarrier' = NoBarrier /\ Inputs' = Inputs
      BY <1>1 DEF align
    <3>2. QED  BY <3>1 DEF Buffering
  <2>2. /\ taken[j] \in Nat /\ Len(buffers[j]) \in Nat /\ Len(sent[j]) \in Nat
        /\ taken[j] <= Len(sent[j])
        /\ Len(buffers[j]) <= taken[j] /\ (received[j] => Len(buffers[j]) < taken[j])
    BY Typed DEF Bounded, Buffering
  <2>3. \A m \in 1..Len(buffers[j]) :
          sent'[j][taken[j] - Len(buffers[j]) + m] = sent[j][taken[j] - Len(buffers[j]) + m]
    BY <1>5, <2>2
  <2>4. received[j] => sent'[j][taken[j] - Len(buffers[j])] = sent[j][taken[j] - Len(buffers[j])]
    BY <1>5, <2>2
  <2>5. QED  BY <2>3, <2>4 DEF Buffering
<1>7. Draining'
  BY <1>1 DEF Draining, align
<1>8. Ending'
  BY <1>1, <1>4 DEF Ending, Ended
<1>9. AlignedCount' = AlignedCount /\ \A j \in Inputs : HandedOn(j)' = HandedOn(j)
  BY <1>1 DEF AlignedCount, HandedOn, align
<1>10. \A j \in Inputs \ {i} : (NoneAhead(j) \/ OneAhead(j))'
  BY <1>4, <1>9 DEF OneBarrier, NoneAhead, OneAhead, Ahead
<1>11. (NoneAhead(i) \/ OneAhead(i))'
  <2>0. HandedOn(i) \in Nat /\ HandedOn(i) <= Len(sent[i]) /\ Len(sent[i]) \in Nat
    BY Position, Typed
  <2>1. /\ Ahead(i)' = Ahead(i) \cup {Len(sent[i]) + 1} /\ Len(sent[i]) + 1 \notin Ahead(i)
        /\ \A k \in Ahead(i) : sent'[i][k] = sent[i][k]
    BY <1>3, <1>9, <2>0, Typed DEF Ahead
  <2>2. CASE ~IsBarrier(e) /\ NoneAhead(i)
    BY <1>3, <1>9, <2>1, <2>2 DEF NoneAhead
  <2>3. CASE ~IsBarrier(e) /\ OneAhead(i)
    BY <1>3, <1>9, <2>1, <2>3 DEF OneAhead
  <2>4. CASE IsBarrier(e)
    <3>1. AlignedCount \in Nat /\ NoneAhead(i)
      BY <1>2, <2>4, Typed DEF OneBarrier, OneAhead
    <3>2. BarriersIn(sent[i])' = AlignedCount' + 1
      BY <1>2, <1>3, <1>9, <2>4 DEF BarriersIn
    <3>3. sent'[i][Len(sent[i]) + 1] = Barrier(AlignedCount + 1)
      BY <1>2, <1>3, <2>4
    <3>4. \A k \in Ahead(i)' \ {Len(sent[i]) + 1} : ~IsBarrier(sent'[i][k])
      BY <2>1, <3>1 DEF NoneAhead
    <3>5. OneAhead(i)'
      BY <1>9, <2>1, <3>2, <3>3, <3>4 DEF OneAhead, Barrier
    <3>6. QED  BY <3>5
  <2>5. QED  BY <2>2, <2>3, <2>4 DEF OneBarrier
<1>12. OneBarrier'
  BY <1>1, <1>9, <1>10, <1>11 DEF OneBarrier, align, Barrier
<1>13. Aligned_Streams!Environment
  <2>1. DOMAIN sent = Inputs /\ DOMAIN sent' = Inputs /\ DOMAIN open' = Inputs
    BY <1>0, <1>1 DEF TypeOK
  <2>2. SubSeq(sent'[i], 1, Len(sent[i])) = sent[i]
    <3>1. /\ sent[i] \in Seq(Element_Type \cup {e}) /\ e \in Element_Type \cup {e}
          /\ sent'[i] = Append(sent[i], e)
      BY <1>3, Typed
    <3>2. QED  BY <3>1
  <2>3. UNCHANGED [j \in Inputs |-> HandedOn(j)]
    BY <1>1, <1>9
  <2>4. QED  BY <1>1, <1>4, <2>1, <2>2, <2>3 DEF Aligned_Streams!Environment, Aligned_Streams!InputSet
<1>14. InOrder'
  <2>1. ASSUME NEW j \in Inputs
        PROVE  DataOf(SubSeq(sent[j], 1, HandedOn(j)))' = DataOf(SubSeq(sent[j], 1, HandedOn(j)))
    <3>1. SubSeq(sent'[j], 1, HandedOn(j)) = SubSeq(sent[j], 1, HandedOn(j))
      <4>1. /\ HandedOn(j) \in Nat /\ HandedOn(j) <= Len(sent[j])
            /\ sent[j] \in Seq(Element_Type)
        BY Position, Typed
      <4>2. CASE j = i
        <5>1. sent[i] \in Seq(Element_Type \cup {e}) /\ e \in Element_Type \cup {e}
          BY <4>1, <4>2
        <5>2. SubSeq(Append(sent[i], e), 1, HandedOn(i)) = SubSeq(sent[i], 1, HandedOn(i))
          BY <4>1, <4>2, <5>1
        <5>3. QED  BY <1>3, <4>2, <5>2
      <4>3. QED  BY <1>4, <4>2
    <3>2. QED  BY <1>1, <1>9, <3>1 DEF DataOf, Data_Type, Data
  <2>2. \A j \in Inputs : Returned(j, Len(out))' = Returned(j, Len(out))
    BY <1>1 DEF Returned, Element_Type, Data_Type, Data, Barrier
  <2>3. QED  BY <1>1, <2>1, <2>2 DEF InOrder
<1>15. QED  BY <1>0, <1>6, <1>7, <1>8, <1>12, <1>13, <1>14

LEMMA CloseKeeps ==
  ASSUME IInv, NEW i \in Inputs, CloseInput(i)
  PROVE  IInv' /\ Aligned_Streams!Environment
<1> USE DEF IInv
<1>0. TypeOK' /\ Bounded'
  BY CloseTyped
<1>1. /\ open' = [open EXCEPT ![i] = FALSE] /\ Inputs' = Inputs /\ NoBarrier' = NoBarrier
      /\ UNCHANGED <<n, sent, taken, align, pc, scan, anyOpen, out>>
  BY DEF CloseInput, Inputs, NoBarrier
<1>2. Buffering' /\ Draining'
  BY <1>1 DEF Buffering, Draining, align
<1>3. Ending'
  BY <1>1 DEF Ending, Ended, TypeOK
<1>4. \A j \in Inputs : /\ HandedOn(j)' = HandedOn(j)
                        /\ BarriersIn(sent[j])' = BarriersIn(sent[j])
  BY <1>1 DEF HandedOn, BarriersIn, align
<1>5. AlignedCount' = AlignedCount
  BY <1>1 DEF AlignedCount
<1>6. OneBarrier'
  BY <1>1, <1>4, <1>5 DEF OneBarrier, NoneAhead, OneAhead, Ahead, Barrier, align
<1>7. Aligned_Streams!Environment
  <2>1. DOMAIN sent = Inputs /\ DOMAIN sent' = Inputs /\ DOMAIN open' = Inputs
    BY <1>0, <1>1 DEF TypeOK
  <2>2. UNCHANGED [j \in Inputs |-> HandedOn(j)]
    BY <1>1, <1>4
  <2>3. QED  BY <1>1, <2>1, <2>2 DEF TypeOK, Aligned_Streams!Environment, Aligned_Streams!InputSet
<1>8. InOrder'
  BY <1>1, <1>4 DEF InOrder, Returned, DataOf, Element_Type, Data_Type, Data, Barrier
<1>9. QED  BY <1>0, <1>2, <1>3, <1>6, <1>7, <1>8

(* The order of the barriers and the abstract step, by what a step does.   *)
LEMMA StreamStep ==
  ASSUME TypeOK, Bounded, Buffering, OneBarrier, InOrder,
         \/ Stays /\ pending' = pending
         \/ Stays /\ pending' = Barrier(AlignedCount + 1) /\ n > 1
         \/ \E i \in Inputs : Delivers(i)
         \/ Cuts
  PROVE  OneBarrier' /\ InOrder' /\ [Aligned_Streams!Next]_(Aligned_Streams!vars)
BY StepsMap, StaysKeeps, DeliversKeeps, CutsKeeps, OrderKept

LEMMA TailOfSeq ==
  ASSUME NEW S, NEW s \in Seq(S), s # <<>>
  PROVE  /\ Len(s) >= 1 /\ Len(Tail(s)) = Len(s) - 1
         /\ \A m \in 1..(Len(s) - 1) : Tail(s)[m] = s[m + 1]
         /\ Head(s) = s[1]
OBVIOUS

LEMMA DrainKeeps ==
  ASSUME IInv, Drain
  PROVE  IInv' /\ [Aligned_Streams!Next]_(Aligned_Streams!vars)
<1> USE DEF IInv
<1>0. TypeOK' /\ Bounded'
  BY AlignerTyped DEF Aligner
<1>1. PICK i \in Buffered :
        /\ \A j \in Buffered : i <= j
        /\ Emit(i, Head(buffers[i]))
        /\ buffers' = [buffers EXCEPT ![i] = Tail(@)]
        /\ drainIndex' = i
  BY DEF Drain
<1>2. /\ pc = "idle" /\ pc' = "idle" /\ n' = n /\ Inputs' = Inputs
      /\ sent' = sent /\ open' = open /\ taken' = taken /\ received' = received
      /\ pending' = pending /\ NoBarrier' = NoBarrier
  BY DEF Drain, senders, Inputs, NoBarrier
<1>3. /\ i \in Inputs /\ i \in Nat /\ drainIndex <= i /\ i <= n /\ buffers[i] # <<>>
      /\ drainIndex \in Nat /\ n \in Nat
  BY <1>1, Typed DEF Buffered, Inputs, TypeOK
<1>4. \A j \in Inputs : ~received[j]
  BY <1>3 DEF Draining
<1>5. /\ taken[i] \in Nat /\ Len(buffers[i]) \in Nat /\ Len(buffers[i]) >= 1
      /\ Len(buffers[i]) <= taken[i] /\ taken[i] <= Len(sent[i]) /\ Len(sent[i]) \in Nat
      /\ buffers[i] \in Seq(Element_Type)
  BY <1>3, Typed DEF Buffering, Bounded
<1>6. /\ Len(buffers'[i]) = Len(buffers[i]) - 1
      /\ \A m \in 1..(Len(buffers[i]) - 1) : buffers'[i][m] = buffers[i][m + 1]
      /\ Head(buffers[i]) = buffers[i][1]
      /\ \A j \in Inputs \ {i} : buffers'[j] = buffers[j]
  <2>1. buffers'[i] = Tail(buffers[i]) /\ \A j \in Inputs \ {i} : buffers'[j] = buffers[j]
    BY <1>1, <1>3 DEF TypeOK
  <2>2. QED  BY <1>3, <1>5, <2>1, TailOfSeq
<1>7. /\ HandedOn(i) = taken[i] - Len(buffers[i])
      /\ HandedOn(i)' = HandedOn(i) + 1
      /\ \A j \in Inputs \ {i} : HandedOn(j)' = HandedOn(j)
  <2>1. HandedOn(i) = taken[i] - Len(buffers[i])
    BY <1>3, <1>4, Position
  <2>2. HandedOn(i)' = taken[i] - Len(buffers'[i])
    <3>1. ~received'[i] /\ taken'[i] = taken[i]
      BY <1>2, <1>3, <1>4
    <3>2. HandedOn(i)' = taken[i] - Len(buffers'[i]) - 0
      BY <3>1 DEF HandedOn
    <3>3. QED  BY <1>5, <1>6, <3>2
  <2>3. QED  BY <1>2, <1>5, <1>6, <2>1, <2>2 DEF HandedOn
<1>8. Delivers(i)
  <2>1. 1 \in 1..Len(buffers[i])
    BY <1>5
  <2>2. /\ buffers[i][1] = sent[i][taken[i] - Len(buffers[i]) + 1]
        /\ ~IsBarrier(buffers[i][1])
    BY <1>3, <2>1 DEF Buffering
  <2>3. HandedOn(i) < Len(sent[i])
    BY <1>5, <1>7
  <2>4. out' = Append(out, [from |-> i, elem |-> buffers[i][1]])
    BY <1>1, <1>6 DEF Emit
  <2>5. QED  BY <1>2, <1>7, <2>2, <2>3, <2>4 DEF Delivers
<1>9. OneBarrier' /\ InOrder' /\ [Aligned_Streams!Next]_(Aligned_Streams!vars)
  BY <1>3, <1>8, StreamStep
<1>10. Buffering'
  <2>1. ASSUME NEW j \in Inputs
        PROVE  /\ Len(buffers'[j]) <= taken[j]
               /\ \A m \in 1..Len(buffers'[j]) :
                    /\ buffers'[j][m] = sent[j][taken[j] - Len(buffers'[j]) + m]
                    /\ ~IsBarrier(buffers'[j][m])
    <3>1. CASE j # i
      BY <1>6, <3>1 DEF Buffering
    <3>2. CASE j = i
      <4>1. ASSUME NEW m \in 1..(Len(buffers[i]) - 1)
            PROVE  /\ buffers'[i][m] = sent[i][taken[i] - (Len(buffers[i]) - 1) + m]
                   /\ ~IsBarrier(buffers'[i][m])
        <5>1. m + 1 \in 1..Len(buffers[i])
          BY <1>5
        <5>2. /\ buffers[i][m + 1] = sent[i][taken[i] - Len(buffers[i]) + (m + 1)]
              /\ ~IsBarrier(buffers[i][m + 1])
          BY <1>3, <5>1 DEF Buffering
        <5>3. taken[i] - Len(buffers[i]) + (m + 1) = taken[i] - (Len(buffers[i]) - 1) + m
          BY <1>5
        <5>4. QED  BY <1>6, <5>2, <5>3
      <4>2. Len(buffers'[i]) = Len(buffers[i]) - 1 /\ Len(buffers'[i]) <= taken[i]
        BY <1>5, <1>6
      <4>3. \A m \in 1..Len(buffers'[i]) :
              /\ buffers'[i][m] = sent[i][taken[i] - Len(buffers'[i]) + m]
              /\ ~IsBarrier(buffers'[i][m])
        BY <4>1, <4>2, Zenon
      <4>4. QED  BY <3>2, <4>2, <4>3
    <3>3. QED  BY <3>1, <3>2
  <2>2. QED  BY <1>2, <1>4, <2>1 DEF Buffering
<1>11. Draining'
  <2>1. ASSUME NEW j \in Inputs, j < i PROVE buffers'[j] = <<>>
    <3>1. j \in Nat /\ j # i /\ ~(i <= j) /\ j <= n
      BY <1>3, <2>1, Typed
    <3>2. j \notin Buffered
      BY <1>1, <3>1
    <3>3. CASE j < drainIndex
      BY <1>4, <1>6, <3>1, <3>3 DEF Draining
    <3>4. CASE drainIndex <= j
      BY <1>3, <1>6, <3>1, <3>2, <3>4 DEF Buffered
    <3>5. QED  BY <1>3, <3>1, <3>3, <3>4
  <2>2. QED  BY <1>1, <1>2, <1>4, <2>1 DEF Draining, Passes
<1>12. Ending'
  BY <1>2 DEF Ending
<1>13. QED  BY <1>0, <1>9, <1>10, <1>11, <1>12

LEMMA PollKeeps ==
  ASSUME IInv, Poll
  PROVE  IInv' /\ [Aligned_Streams!Next]_(Aligned_Streams!vars)
<1> USE DEF IInv
<1>0. TypeOK' /\ Bounded'
  BY AlignerTyped DEF Aligner
<1>1. /\ n' = n /\ Inputs' = Inputs /\ NoBarrier' = NoBarrier
      /\ sent' = sent /\ open' = open /\ taken' = taken /\ received' = received
      /\ buffers' = buffers /\ pending' = pending /\ out' = out
      /\ drainIndex' = n + 1 /\ pc' = IF n = 1 THEN "single" ELSE "pass1"
  BY DEF Poll, senders, Inputs, NoBarrier
<1>2. Stays
  BY <1>1 DEF Stays, HandedOn
<1>3. OneBarrier' /\ InOrder' /\ [Aligned_Streams!Next]_(Aligned_Streams!vars)
  BY <1>1, <1>2, StreamStep
<1>4. Buffering'
  BY <1>1 DEF Buffering
<1>5. ASSUME NEW j \in Inputs, ~received[j] PROVE buffers[j] = <<>>
  <2>1. j \in Nat /\ j <= n /\ n \in Nat /\ drainIndex \in Nat
    BY Typed DEF TypeOK
  <2>2. CASE j < drainIndex
    BY <1>5, <2>2 DEF Draining
  <2>3. CASE drainIndex <= j
    BY <2>1, <2>3 DEF Poll, Buffered
  <2>4. QED  BY <2>1, <2>2, <2>3
<1>6. Draining'
  <2>1. pc' = "single" => n = 1
    BY <1>1
  <2>2. pc' \in Passes => n > 1
    BY <1>1, Typed DEF Passes
  <2>3. QED  BY <1>1, <1>5, <2>1, <2>2 DEF Draining, Passes
<1>7. Ending'
  BY <1>1 DEF Ending
<1>8. QED  BY <1>0, <1>3, <1>4, <1>6, <1>7

(* An input that is not blocked has nothing buffered when it is read. *)
LEMMA Reading ==
  ASSUME IInv, pc # "idle", NEW i \in Inputs, Available(i), ~received[i]
  PROVE  /\ buffers[i] = <<>> /\ HandedOn(i) = taken[i]
         /\ HandedOn(i) < Len(sent[i])
         /\ Element(i) = sent[i][HandedOn(i) + 1]
         /\ IsBarrier(Element(i)) => Element(i) = Barrier(AlignedCount + 1)
<1> USE DEF IInv
<1>1. i \in Nat /\ i <= n /\ n \in Nat /\ taken[i] \in Nat /\ Len(sent[i]) \in Nat
      /\ DOMAIN sent[i] = 1..Len(sent[i])
  BY Typed
<1>2. buffers[i] = <<>>
  <2>1. drainIndex = n + 1 /\ i < n + 1
    BY <1>1 DEF Draining
  <2>2. QED  BY <2>1 DEF Draining
<1>3. HandedOn(i) = taken[i]
  <2>1. HandedOn(i) = taken[i] - Len(buffers[i]) /\ Len(<<>>) = 0
    BY Position
  <2>2. QED  BY <1>1, <1>2, <2>1
<1>4. taken[i] + 1 \in Ahead(i) /\ Element(i) = sent[i][taken[i] + 1] /\ taken[i] < Len(sent[i])
  BY <1>1, <1>3 DEF Available, Ahead, Element
<1>5. QED  BY <1>2, <1>3, <1>4, TheBarrierAhead

LEMMA NextSingleKeeps ==
  ASSUME IInv, NextSingle
  PROVE  IInv' /\ [Aligned_Streams!Next]_(Aligned_Streams!vars)
<1> USE DEF IInv
<1>0. TypeOK' /\ Bounded'
  BY AlignerTyped DEF Aligner
<1>1. /\ n' = n /\ Inputs' = Inputs /\ NoBarrier' = NoBarrier
      /\ sent' = sent /\ open' = open /\ received' = received
      /\ buffers' = buffers /\ pending' = pending /\ drainIndex' = drainIndex
      /\ pc = "single"
  BY DEF NextSingle, senders, align, Inputs, NoBarrier
<1>2. /\ n = 1 /\ Inputs = {1} /\ drainIndex = n + 1
      /\ pending = NoBarrier /\ ~received[1] /\ taken[1] \in Nat
  BY <1>1, Typed DEF Draining, Inputs, OneBarrier, Buffering
<1>3. CASE Available(1)
  <2>1. /\ taken' = [taken EXCEPT ![1] = @ + 1] /\ pc' = "idle"
        /\ out' = Append(out, [from |-> IF Element(1).kind = "barrier" THEN 0 ELSE 1,
                                elem |-> Element(1)])
    BY <1>3 DEF NextSingle, Take, Emit
  <2>2. taken'[1] = taken[1] + 1
    BY <1>2, <2>1 DEF TypeOK
  <2>3. /\ buffers[1] = <<>> /\ HandedOn(1) = taken[1]
        /\ HandedOn(1) < Len(sent[1])
        /\ Element(1) = sent[1][HandedOn(1) + 1]
        /\ IsBarrier(Element(1)) => Element(1) = Barrier(AlignedCount + 1)
    BY <1>1, <1>2, <1>3, Reading
  <2>4. HandedOn(1)' = HandedOn(1) + 1
    <3>1. HandedOn(1)' = (taken[1] + 1) - Len(<<>>) - 0 /\ Len(<<>>) = 0
      BY <1>1, <1>2, <2>2, <2>3 DEF HandedOn
    <3>2. QED  BY <1>2, <2>3, <3>1
  <2>5. ASSUME IsBarrier(Element(1)) PROVE Cuts
    <3>1. out' = Append(out, [from |-> 0, elem |-> Barrier(AlignedCount + 1)])
      BY <2>1, <2>3, <2>5 DEF IsBarrier
    <3>2. QED  BY <1>1, <1>2, <2>3, <2>4, <2>5, <3>1 DEF Cuts
  <2>6. ASSUME ~IsBarrier(Element(1)) PROVE Delivers(1)
    <3>1. out' = Append(out, [from |-> 1, elem |-> Element(1)])
      BY <2>1, <2>6 DEF IsBarrier
    <3>2. QED  BY <1>1, <1>2, <2>3, <2>4, <2>6, <3>1 DEF Delivers
  <2>7. OneBarrier' /\ InOrder' /\ [Aligned_Streams!Next]_(Aligned_Streams!vars)
    BY <1>2, <2>5, <2>6, StreamStep
  <2>8. Buffering'
    <3>1. Len(<<>>) = 0 /\ \A m \in Nat : ~(m \in 1..0)
      OBVIOUS
    <3>2. /\ Len(buffers[1]) = 0 /\ 0 <= taken[1] + 1
      BY <1>2, <2>3, <3>1
    <3>3. \A m \in 1..Len(buffers[1]) : FALSE
      BY <3>2
    <3>4. QED  BY <1>1, <1>2, <2>2, <3>2, <3>3 DEF Buffering
  <2>9. Draining' /\ Ending'
    BY <1>1, <1>2, <2>1 DEF Draining, Ending, Passes
  <2>10. QED  BY <1>0, <2>7, <2>8, <2>9
<1>4. CASE ~Available(1)
  <2>1. /\ ~open[1] /\ pc' = "none" /\ taken' = taken /\ out' = out
    BY <1>4 DEF NextSingle
  <2>2. Stays
    BY <1>1, <2>1 DEF Stays, HandedOn
  <2>3. OneBarrier' /\ InOrder' /\ [Aligned_Streams!Next]_(Aligned_Streams!vars)
    BY <1>1, <2>2, StreamStep
  <2>4. Buffering' /\ Draining'
    BY <1>1, <1>2, <2>1 DEF Buffering, Draining, Passes
  <2>5. taken[1] = Len(sent[1])
    BY <1>2, <1>4, Typed DEF Available, Bounded
  <2>6. Ending'
    BY <1>1, <1>2, <2>1, <2>5 DEF Ending, Ended
  <2>7. QED  BY <1>0, <2>3, <2>4, <2>6
<1>5. QED  BY <1>3, <1>4

LEMMA TryRecvKeeps ==
  ASSUME IInv, TryRecv
  PROVE  IInv' /\ [Aligned_Streams!Next]_(Aligned_Streams!vars)
<1> USE DEF IInv
<1>a. PICK i \in Inputs : i = scan
  BY DEF TryRecv
<1> DEFINE e == Element(i)
<1>0. TypeOK' /\ Bounded'
  BY AlignerTyped DEF Aligner
<1>1. /\ n' = n /\ Inputs' = Inputs /\ NoBarrier' = NoBarrier
      /\ sent' = sent /\ open' = open /\ pc \in Passes /\ pc # "idle"
      /\ i \in Inputs /\ Available(i) /\ Handle(i, e)
      /\ taken' = [taken EXCEPT ![i] = @ + 1]
  BY <1>a DEF TryRecv, senders, Take, Inputs, NoBarrier, Passes
<1>2. n > 1 /\ drainIndex = n + 1
  BY <1>1 DEF Draining
<1>3. /\ taken[i] \in Nat /\ taken'[i] = taken[i] + 1
      /\ \A j \in Inputs \ {i} : taken'[j] = taken[j]
      /\ buffers[i] \in Seq(Element_Type) /\ Len(buffers[i]) \in Nat
      /\ Len(buffers[i]) <= taken[i]
  BY <1>1, Typed DEF TypeOK, Buffering
<1>4. /\ i \in Nat /\ HandedOn(i) \in Nat /\ HandedOn(i) <= taken[i]
      /\ taken[i] + 1 \in DOMAIN sent[i] /\ e = sent[i][taken[i] + 1]
  BY <1>1, <1>3, Typed, Position DEF Available, Element
<1>5. received[i] => ~IsBarrier(e)
  <2>1. SUFFICES ASSUME received[i], IsBarrier(e) PROVE FALSE
    OBVIOUS
  <2>2. /\ HandedOn(i) + 1 = taken[i] - Len(buffers[i])
        /\ sent[i][HandedOn(i) + 1] = pending /\ HandedOn(i) < Len(sent[i])
        /\ IsBarrier(pending)
    <3>1. pending # NoBarrier
      BY <1>1, <2>1 DEF Buffering
    <3>2. IsBarrier(pending)
      BY <3>1 DEF OneBarrier, IsBarrier, Barrier
    <3>3. QED  BY <1>1, <1>3, <2>1, <3>2, Position
  <2>3. HandedOn(i) + 1 \in Ahead(i) /\ taken[i] + 1 \in Ahead(i)
        /\ HandedOn(i) + 1 # taken[i] + 1
    BY <1>1, <1>3, <1>4, <2>2, Typed DEF Ahead
  <2>4. QED  BY <1>1, <1>4, <2>1, <2>2, <2>3, TheBarrierAhead
<1>6. ASSUME ~received[i]
      PROVE  /\ buffers[i] = <<>> /\ HandedOn(i) = taken[i]
             /\ HandedOn(i) < Len(sent[i])
             /\ e = sent[i][HandedOn(i) + 1]
             /\ IsBarrier(e) => e = Barrier(AlignedCount + 1)
  BY <1>1, <1>6, Reading
<1>7. \A m \in 1..Len(<<>>) : FALSE
  BY Typed
<1> HIDE DEF e
<1>8. CASE ~IsBarrier(e) /\ ~received[i]
  <2>1. /\ Emit(i, e) /\ pc' = "idle" /\ received' = received /\ buffers' = buffers
        /\ pending' = pending /\ drainIndex' = drainIndex
    BY <1>1, <1>8 DEF Handle, HandleData, IsBarrier, align
  <2>2. HandedOn(i)' = HandedOn(i) + 1
    <3>1. HandedOn(i)' = (taken[i] + 1) - Len(buffers[i]) - 0 /\ Len(buffers[i]) = 0
      BY <1>1, <1>3, <1>6, <1>8, <2>1 DEF HandedOn
    <3>2. QED  BY <1>3, <1>6, <1>8, <3>1
  <2>3. \A j \in Inputs \ {i} : HandedOn(j)' = HandedOn(j)
    BY <1>3, <2>1 DEF HandedOn
  <2>4. Delivers(i)
    BY <1>1, <1>6, <1>8, <2>1, <2>2, <2>3 DEF Delivers, Emit
  <2>5. OneBarrier' /\ InOrder' /\ [Aligned_Streams!Next]_(Aligned_Streams!vars)
    BY <1>1, <2>4, StreamStep
  <2>6. Buffering'
    <3>1. ASSUME NEW j \in Inputs
          PROVE  /\ Len(buffers[j]) <= taken'[j]
                 /\ \A m \in 1..Len(buffers[j]) :
                      /\ buffers[j][m] = sent[j][taken'[j] - Len(buffers[j]) + m]
                      /\ ~IsBarrier(buffers[j][m])
                 /\ received[j] => /\ Len(buffers[j]) < taken'[j]
                                   /\ sent[j][taken'[j] - Len(buffers[j])] = pending
                                   /\ pending # NoBarrier
      <4>1. CASE j = i
        BY <1>3, <1>6, <1>7, <1>8, <4>1
      <4>2. CASE j # i
        BY <1>3, <4>2 DEF Buffering
      <4>3. QED  BY <4>1, <4>2
    <3>2. QED  BY <1>1, <2>1, <3>1 DEF Buffering
  <2>7. Draining' /\ Ending'
    BY <1>1, <2>1 DEF Draining, Ending, Passes
  <2>8. QED  BY <1>0, <2>5, <2>6, <2>7
<1>9. CASE ~IsBarrier(e) /\ received[i]
  <2>1. /\ buffers' = [buffers EXCEPT ![i] = Append(@, e)]
        /\ pc' = "pass1" /\ received' = received
        /\ pending' = pending /\ drainIndex' = drainIndex /\ out' = out
    BY <1>1, <1>9 DEF Handle, HandleData, IsBarrier, Restart
  <2>2. /\ buffers'[i] = Append(buffers[i], e)
        /\ \A j \in Inputs \ {i} : buffers'[j] = buffers[j]
    BY <1>1, <2>1 DEF TypeOK
  <2>3. /\ Len(buffers'[i]) = Len(buffers[i]) + 1
        /\ buffers'[i][Len(buffers[i]) + 1] = e
        /\ \A m \in 1..Len(buffers[i]) : buffers'[i][m] = buffers[i][m]
    BY <1>3, <2>2
  <2>4. HandedOn(i)' = HandedOn(i)
    BY <1>3, <1>9, <2>1, <2>3 DEF HandedOn
  <2>5. \A j \in Inputs \ {i} : HandedOn(j)' = HandedOn(j)
    BY <1>3, <2>1, <2>2 DEF HandedOn
  <2>6. Stays
    BY <1>1, <2>1, <2>4, <2>5 DEF Stays
  <2>7. OneBarrier' /\ InOrder' /\ [Aligned_Streams!Next]_(Aligned_Streams!vars)
    BY <2>1, <2>6, StreamStep
  <2>8. ASSUME NEW j \in Inputs
        PROVE  /\ Len(buffers'[j]) <= taken'[j]
               /\ \A m \in 1..Len(buffers'[j]) :
                    /\ buffers'[j][m] = sent[j][taken'[j] - Len(buffers'[j]) + m]
                    /\ ~IsBarrier(buffers'[j][m])
               /\ received[j] => /\ Len(buffers'[j]) < taken'[j]
                                 /\ sent[j][taken'[j] - Len(buffers'[j])] = pending
                                 /\ pending # NoBarrier
    <3>1. CASE j # i
      BY <1>3, <2>2, <3>1 DEF Buffering
    <3>2. CASE j = i
      <4>1. taken'[i] - Len(buffers'[i]) = taken[i] - Len(buffers[i])
        BY <1>3, <2>3
      <4>2. ASSUME NEW m \in 1..Len(buffers'[i])
            PROVE  /\ buffers'[i][m] = sent[i][taken[i] - Len(buffers[i]) + m]
                   /\ ~IsBarrier(buffers'[i][m])
        <5>1. CASE m \in 1..Len(buffers[i])
          BY <1>1, <2>3, <5>1 DEF Buffering
        <5>2. CASE m = Len(buffers[i]) + 1
          <6>1. taken[i] - Len(buffers[i]) + m = taken[i] + 1
            BY <1>3, <5>2
          <6>2. QED  BY <1>4, <1>9, <2>3, <5>2, <6>1
        <5>3. QED  BY <1>3, <2>3, <5>1, <5>2
      <4>3. /\ Len(buffers'[i]) <= taken'[i]
            /\ received[i] => /\ Len(buffers'[i]) < taken'[i]
                              /\ sent[i][taken[i] - Len(buffers[i])] = pending
                              /\ pending # NoBarrier
        BY <1>1, <1>3, <2>3 DEF Buffering
      <4>4. QED  BY <3>2, <4>1, <4>2, <4>3
    <3>3. QED  BY <3>1, <3>2
  <2>9. Buffering'
    BY <1>1, <2>1, <2>8 DEF Buffering
  <2>10. Draining'
    <3>1. \A j \in Inputs : ~received[j] => buffers'[j] = buffers[j]
      BY <1>9, <2>2
    <3>2. QED  BY <1>1, <1>2, <2>1, <3>1 DEF Draining, Passes
  <2>11. Ending'
    BY <2>1 DEF Ending
  <2>12. QED  BY <1>0, <2>7, <2>9, <2>10, <2>11
<1>10. CASE IsBarrier(e)
  <2>1. /\ ~received[i] /\ e = Barrier(AlignedCount + 1)
        /\ buffers[i] = <<>> /\ HandedOn(i) = taken[i] /\ Len(buffers[i]) = 0
        /\ HandedOn(i) < Len(sent[i]) /\ e = sent[i][HandedOn(i) + 1]
    BY <1>3, <1>5, <1>6, <1>10
  <2> DEFINE b == IF pending = NoBarrier THEN e ELSE pending
  <2>2. HandleBarrier(i, e) /\ b = e /\ e # NoBarrier
    BY <1>1, <1>10, <2>1 DEF Handle, IsBarrier, OneBarrier, NoBarrier, Barrier
  <2> HIDE DEF b
  <2>3. CASE \A j \in Inputs \ {i} : received[j]
    <3>1. /\ out' = Append(out, [from |-> 0, elem |-> e]) /\ pending' = NoBarrier
          /\ received' = [j \in Inputs |-> FALSE] /\ drainIndex' = 1 /\ pc' = "idle"
          /\ buffers' = buffers
      BY <2>2, <2>3 DEF HandleBarrier, Aligned, Emit, b
    <3>2. ASSUME NEW j \in Inputs
          PROVE  /\ HandedOn(j) < Len(sent[j])
                 /\ sent[j][HandedOn(j) + 1] = e
                 /\ HandedOn(j)' = HandedOn(j) + 1
      <4>1. CASE j = i
        <5>1. HandedOn(i)' = (taken[i] + 1) - Len(buffers[i]) - 0
          BY <1>1, <1>3, <3>1 DEF HandedOn
        <5>2. QED  BY <1>3, <2>1, <4>1, <5>1
      <4>2. CASE j # i
        <5>1. /\ received[j] /\ taken'[j] = taken[j] /\ taken[j] \in Nat
              /\ Len(buffers[j]) \in Nat
          BY <1>3, <2>3, <4>2, Typed
        <5>2. /\ HandedOn(j) = taken[j] - Len(buffers[j]) - 1
              /\ HandedOn(j) < Len(sent[j]) /\ sent[j][HandedOn(j) + 1] = pending
          BY <5>1, Position
        <5>3. pending = e
          BY <2>1, <5>1 DEF Buffering, OneBarrier
        <5>4. HandedOn(j)' = taken[j] - Len(buffers[j]) - 0
          BY <3>1, <5>1 DEF HandedOn
        <5>5. QED  BY <5>1, <5>2, <5>3, <5>4
      <4>3. QED  BY <4>1, <4>2
    <3>3. Cuts
      BY <1>1, <2>1, <3>1, <3>2 DEF Cuts
    <3>4. OneBarrier' /\ InOrder' /\ [Aligned_Streams!Next]_(Aligned_Streams!vars)
      BY <3>3, StreamStep
    <3>5. Buffering'
      <4>1. ASSUME NEW j \in Inputs
            PROVE  /\ Len(buffers[j]) <= taken'[j]
                   /\ \A m \in 1..Len(buffers[j]) :
                        /\ buffers[j][m] = sent[j][taken'[j] - Len(buffers[j]) + m]
                        /\ ~IsBarrier(buffers[j][m])
        <5>1. CASE j = i
          BY <1>3, <1>7, <2>1, <5>1
        <5>2. CASE j # i
          BY <1>3, <5>2 DEF Buffering
        <5>3. QED  BY <5>1, <5>2
      <4>2. QED  BY <1>1, <3>1, <4>1 DEF Buffering
    <3>6. Draining'
      <4>1. \A j \in Inputs : ~(j < 1)
        BY Typed
      <4>2. QED  BY <1>1, <3>1, <4>1 DEF Draining, Passes
    <3>7. Ending'
      BY <3>1 DEF Ending
    <3>8. QED  BY <1>0, <3>4, <3>5, <3>6, <3>7
  <2>4. CASE ~ \A j \in Inputs \ {i} : received[j]
    <3>1. /\ received' = [received EXCEPT ![i] = TRUE] /\ pending' = e
          /\ pc' = "pass1" /\ buffers' = buffers /\ drainIndex' = drainIndex /\ out' = out
      BY <2>2, <2>4 DEF HandleBarrier, Restart, b
    <3>2. received'[i] /\ \A j \in Inputs \ {i} : received'[j] = received[j]
      BY <1>1, <3>1 DEF TypeOK
    <3>3. HandedOn(i)' = HandedOn(i)
      <4>1. HandedOn(i)' = (taken[i] + 1) - Len(buffers[i]) - 1
        BY <1>3, <3>1, <3>2 DEF HandedOn
      <4>2. QED  BY <1>3, <2>1, <4>1
    <3>4. \A j \in Inputs \ {i} : HandedOn(j)' = HandedOn(j)
      BY <1>3, <3>1, <3>2 DEF HandedOn
    <3>5. Stays
      BY <1>1, <3>1, <3>3, <3>4 DEF Stays
    <3>6. OneBarrier' /\ InOrder' /\ [Aligned_Streams!Next]_(Aligned_Streams!vars)
      BY <1>2, <2>1, <3>1, <3>5, StreamStep
    <3>7. ASSUME NEW j \in Inputs
          PROVE  /\ Len(buffers[j]) <= taken'[j]
                 /\ \A m \in 1..Len(buffers[j]) :
                      /\ buffers[j][m] = sent[j][taken'[j] - Len(buffers[j]) + m]
                      /\ ~IsBarrier(buffers[j][m])
                 /\ received'[j] => /\ Len(buffers[j]) < taken'[j]
                                    /\ sent[j][taken'[j] - Len(buffers[j])] = e
      <4>1. CASE j = i
        <5>1. taken'[i] - Len(buffers[i]) = taken[i] + 1
          BY <1>3, <2>1
        <5>2. QED  BY <1>3, <1>4, <1>7, <2>1, <4>1, <5>1
      <4>2. CASE j # i
        <5>1. received[j] => pending = e
          BY <2>1 DEF Buffering, OneBarrier
        <5>2. QED  BY <1>3, <3>2, <4>2, <5>1 DEF Buffering
      <4>3. QED  BY <4>1, <4>2
    <3>8. Buffering'
      BY <1>1, <2>2, <3>1, <3>7 DEF Buffering
    <3>9. Draining'
      <4>1. \A j \in Inputs : ~received'[j] => ~received[j]
        BY <2>1, <3>2
      <4>2. QED  BY <1>1, <1>2, <3>1, <4>1 DEF Draining, Passes
    <3>10. Ending'
      BY <3>1 DEF Ending
    <3>11. QED  BY <1>0, <3>6, <3>8, <3>9, <3>10
  <2>5. QED  BY <2>3, <2>4
<1>11. QED  BY <1>8, <1>9, <1>10

(* The end of the scan is reached over inputs that are all over. *)
LEMMA ScanKeeps ==
  ASSUME IInv, Skip \/ EndPass
  PROVE  IInv' /\ [Aligned_Streams!Next]_(Aligned_Streams!vars)
<1> USE DEF IInv
<1>0. TypeOK' /\ Bounded'
  BY AlignerTyped DEF Aligner
<1>1. /\ n' = n /\ Inputs' = Inputs /\ NoBarrier' = NoBarrier
      /\ sent' = sent /\ open' = open /\ taken' = taken /\ received' = received
      /\ buffers' = buffers /\ pending' = pending /\ drainIndex' = drainIndex
      /\ out' = out /\ pc \in Passes /\ scan \in Nat
  BY DEF Skip, EndPass, senders, align, Inputs, NoBarrier, Passes, TypeOK
<1>2. Stays
  BY <1>1 DEF Stays, HandedOn
<1>3. OneBarrier' /\ InOrder' /\ [Aligned_Streams!Next]_(Aligned_Streams!vars)
  BY <1>1, <1>2, StreamStep
<1>4. Buffering'
  BY <1>1 DEF Buffering
<1>5. CASE Skip
  <2>1. /\ pc' = pc /\ scan' = scan + 1 /\ scan \in Inputs
        /\ ~(InPass(scan) /\ Available(scan))
        /\ anyOpen' = (pc = "pass3" /\ (anyOpen \/ open[scan]))
    BY <1>5 DEF Skip
  <2>2. Draining'
    BY <1>1, <2>1 DEF Draining
  <2>3. ASSUME pc = "pass3", ~anyOpen', NEW i \in Inputs, i < scan + 1
        PROVE  Ended(i)
    <3>1. ~anyOpen /\ ~open[scan]
      BY <2>1, <2>3
    <3>2. CASE i < scan
      BY <2>3, <3>1, <3>2 DEF Ending
    <3>3. CASE i = scan
      <4>1. ~Available(i)
        BY <2>1, <2>3, <3>3 DEF InPass
      <4>2. QED  BY <3>1, <3>3, <4>1, Typed DEF Ended, Available, Bounded
    <3>4. QED  BY <1>1, <2>3, <3>2, <3>3, Typed
  <2>4. Ending'
    <3>1. \A i \in Inputs : Ended(i)' = Ended(i)
      BY <1>1 DEF Ended
    <3>2. pc' # "none"
      BY <1>1, <2>1 DEF Passes
    <3>3. QED  BY <1>1, <2>1, <2>3, <3>1, <3>2 DEF Ending
  <2>5. QED  BY <1>0, <1>3, <1>4, <2>2, <2>4
<1>6. CASE EndPass
  <2>1. /\ scan > n /\ scan' = 1 /\ anyOpen' = FALSE
        /\ pc' = "none" => pc = "pass3" /\ ~anyOpen
        /\ pc' \in {"pass1", "pass2", "pass3", "none"}
    BY <1>6 DEF EndPass
  <2>2. Draining'
    BY <1>1, <2>1 DEF Draining, Passes
  <2>3. \A i \in Inputs : Ended(i)' = Ended(i) /\ i < scan /\ ~(i < 1)
    BY <1>1, <2>1, Typed DEF Ended
  <2>4. pc' = "none" => \A i \in Inputs : Ended(i)
    BY <2>1, <2>3 DEF Ending
  <2>5. Ending'
    BY <1>1, <2>1, <2>3, <2>4 DEF Ending
  <2>6. QED  BY <1>0, <1>3, <1>4, <2>2, <2>5
<1>7. QED  BY <1>5, <1>6

-----------------------------------------------------------------------------
(* The theorems. *)

LEMMA NextKeeps ==
  ASSUME ~Overlap, IInv, [Next]_vars
  PROVE  IInv' /\ [Aligned_Streams!Next]_(Aligned_Streams!vars)
<1>1. ASSUME NEW i \in Inputs, SendData(i) \/ SendBarrier(i) \/ CloseInput(i)
      PROVE  IInv' /\ Aligned_Streams!Next
  BY <1>1, SendKeeps, CloseKeeps DEF Aligned_Streams!Next
<1>2. CASE Aligner
  BY <1>2, DrainKeeps, PollKeeps, NextSingleKeeps, TryRecvKeeps, ScanKeeps DEF Aligner
<1>3. CASE UNCHANGED vars
  <2>1. Inputs' = Inputs /\ NoBarrier' = NoBarrier
    BY <1>3 DEF vars, Inputs, NoBarrier
  <2>2. Stays /\ pending' = pending
    BY <1>3, <2>1 DEF vars, senders, align, Stays, HandedOn
  <2>3. OneBarrier' /\ InOrder' /\ [Aligned_Streams!Next]_(Aligned_Streams!vars)
    BY <2>2, StreamStep DEF IInv
  <2>4. TypeOK' /\ Bounded'
    BY <1>3, StutterTyped DEF IInv
  <2>5. Buffering' /\ Draining' /\ Ending'
    BY <1>3, <2>1 DEF IInv, vars, senders, align, Buffering, Draining, Ending, Ended
  <2>6. QED  BY <2>3, <2>4, <2>5 DEF IInv
<1>4. QED  BY <1>1, <1>2, <1>3 DEF Next

(* The inductive invariant holds as long as the coordinator triggers a      *)
(* checkpoint only after the last one was aligned.                          *)
THEOREM Invariance ==
  ASSUME ~Overlap
  PROVE  Spec => []IInv
<1>1. IInv /\ [Next]_vars => IInv'
  BY NextKeeps
<1>2. QED  BY InitInv, <1>1, PTL DEF Spec

(* The aligner keeps the order of every input, hands each element on once, *)
(* and emits a barrier only at a cut of all inputs.                         *)
THEOREM Refinement ==
  ASSUME ~Overlap
  PROVE  Spec => ImplementsAlignedStreams
<1>1. IInv /\ [Next]_vars => [Aligned_Streams!Next]_(Aligned_Streams!vars)
  BY NextKeeps
<1>2. QED  BY InitMaps, Invariance, <1>1, PTL DEF Spec, ImplementsAlignedStreams, Aligned_Streams!Spec

(* next returns None only after it returned, in order, every datum of every *)
(* input, unless an alignment was under way.                                *)
THEOREM NothingLost ==
  ASSUME ~Overlap
  PROVE  Spec => []NoLossWhenUnblocked
<1>1. IInv => NoLossWhenUnblocked
  <2>1. SUFFICES ASSUME IInv, pc = "none", pending = NoBarrier, NEW i \in Inputs
        PROVE  Returned(i, Len(out)) = DataOf(sent[i])
    BY DEF NoLossWhenUnblocked
  <2>2. /\ taken[i] = Len(sent[i]) /\ ~received[i] /\ taken[i] \in Nat
        /\ sent[i] \in Seq(Element_Type) /\ n \in Nat /\ i \in Nat /\ i <= n
    BY <2>1, Typed DEF IInv, Ending, Ended, Buffering
  <2>3. buffers[i] = <<>>
    <3>1. drainIndex = n + 1 /\ i < n + 1
      BY <2>1, <2>2 DEF IInv, Draining
    <3>2. QED  BY <2>1, <2>2, <3>1 DEF IInv, Draining
  <2>4. HandedOn(i) = Len(sent[i])
    <3>1. HandedOn(i) = taken[i] - Len(buffers[i]) /\ Len(<<>>) = 0
      BY <2>1, <2>2, Position DEF IInv
    <3>2. QED  BY <2>2, <2>3, <3>1
  <2>5. SubSeq(sent[i], 1, Len(sent[i])) = sent[i]
    BY <2>2
  <2>6. QED  BY <2>1, <2>4, <2>5 DEF IInv, InOrder
<1>2. QED  BY Invariance, <1>1, PTL
=============================================================================
