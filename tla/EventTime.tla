------------------------------ MODULE EventTime ------------------------------
(***************************************************************************)
(* One task of event-time processing: a stateless operator (map, filter,   *)
(* flat_map, key_by) followed by one stateful operator, fed records,       *)
(* watermarks and barriers in every order up to a bound.  Which operator   *)
(* it is is chosen at the start.                                           *)
(*                                                                         *)
(* input and out are histories, position by position, from which each      *)
(* operator is compared with what it should have computed from the whole   *)
(* input at once.                                                          *)
(***************************************************************************)
EXTENDS EventTimestamps, FiniteSets, SequencesExt, FiniteSetsExt, Filters

CONSTANTS
  Operators,  (* the operators: kind, stateless operator, window assigner, bounds *)
  Keys,       (* the keys of the records, None among them                   *)
  Times,      (* the event times of the records                             *)
  Marks,      (* the watermarks                                             *)
  TimerTimes, (* the times timers are set for                               *)
  MaxInput    (* bound: elements fed, by kind of operator                   *)

(* A size or slide that times can be divided by. *)
Assigner(a) ==
  /\ a.size \in Nat
  /\ \/ a.kind = "tumbling" /\ a.size > 0
     \/ a.kind = "sliding" /\ a.slide \in Nat \ {0}

(* Timestamps are u64, keys are bytes, and the bounds of an interval join  *)
(* and the sizes of a window assigner are durations; a size or slide of 0  *)
(* that the assigner divides by panics.  The model puts a stateless        *)
(* operator in front of the windows and joins, and of them only.           *)
ASSUME EventTimeAssumption ==
  /\ MaxTs \in Nat
  /\ Keys \subseteq Nat \cup {None}
  /\ Times \cup Marks \cup TimerTimes \subseteq 0..MaxTs
  /\ \A o \in Operators :
       /\ o.lower \in Nat /\ o.upper \in Nat /\ o.lower <= o.upper
       /\ o.kind \in {"window", "join", "cogroup", "interval_join"} =>
            o.stateless \in {"map", "filter", "key_by", "flat_map"}
       /\ o.kind \notin {"window", "join", "cogroup", "interval_join"} => o.stateless = "none"
       /\ o.kind \in {"window", "join", "cogroup"} => Assigner(o.assigner)

VARIABLES operator, panes, buffers, timers, currentKey, currentWatermark,
          inputWatermarks, trackerWatermark, input, out

service == <<timers, currentKey, currentWatermark>>
tracker == <<inputWatermarks, trackerWatermark>>
operatorVars == <<operator, panes, buffers, service, tracker, input, out>>

W == INSTANCE Windows
J == INSTANCE IntervalJoin
P == INSTANCE Timers
Tracker == INSTANCE WatermarkTracker

Windowed == operator.kind \in {"window", "join", "cogroup"}
Joining == operator.kind = "interval_join"
Processing == operator.kind \in {"process", "keyed_process", "co_process"}
Tracking == operator.kind = "tracker"

OperatorInit ==
  /\ operator \in Operators
  /\ panes = <<>>
  /\ buffers = <<>>
  /\ timers = [event |-> {}, processing |-> {}]
  /\ currentKey = 0
  /\ currentWatermark = 0
  /\ inputWatermarks = [i \in 1..2 |-> 0]
  /\ trackerWatermark = 0
  /\ input = <<>>
  /\ out = <<>>

-----------------------------------------------------------------------------
(* The elements fed: their id is their position. *)

Sides == IF operator.kind \in {"window", "process", "keyed_process"}
         THEN {"left"} ELSE {"left", "right"}

(* The calls of the timer service a process function may make. *)
Calls == [op : {"register", "delete", "register_processing", "delete_processing"},
          time : TimerTimes]

(* A record with the call it makes. *)
Caller(side, key, id, call) ==
  [kind |-> "record", side |-> side, key |-> key, ts |-> 0, id |-> id, call |-> call]

Next1 == Len(input) + 1
Fed(e) == Len(input) < MaxInput[operator.kind] /\ input' = Append(input, e)

(* The stateless operator in front: map keeps time and key, filter drops   *)
(* the record or passes it, key_by sets the key, flat_map makes a new      *)
(* record with no key (Record::new).                                       *)
Map(r) == {r}
Filter(r, passes) == IF passes THEN {r} ELSE {}
KeyBy(r, key) == {[r EXCEPT !.key = key]}
FlatMap(r) == {[r EXCEPT !.key = None]}

(* Mutant: map makes a new record, without the key. *)
Stateless_MapNew(r) ==
  CASE operator.stateless = "map" -> FlatMap(r)
    [] operator.stateless = "filter" -> Filter(r, r.id % 2 = 1)
    [] operator.stateless = "key_by" -> KeyBy(r, r.ts % 2)
    [] operator.stateless = "flat_map" -> FlatMap(r)

Stateless(r) ==
  CASE operator.stateless = "map" -> Map(r)
    [] operator.stateless = "filter" -> Filter(r, r.id % 2 = 1)
    [] operator.stateless = "key_by" -> KeyBy(r, r.ts % 2)
    [] operator.stateless = "flat_map" -> FlatMap(r)

FeedRecord(r) ==
  /\ Windowed \/ Joining
  /\ Fed(r)
  /\ \/ Stateless(r) = {} /\ out' = Append(out, <<>>) /\ UNCHANGED <<panes, buffers, service>>
     \/ \E s \in Stateless(r) :
          \/ Windowed /\ W!ProcessRecord(s) /\ UNCHANGED <<buffers, service>>
          \/ Joining /\ J!ProcessRecord(s) /\ UNCHANGED <<panes, service>>
  /\ UNCHANGED <<operator, tracker>>

FeedCall(r) ==
  /\ Processing
  /\ Fed(r)
  /\ P!ProcessRecord(r)
  /\ UNCHANGED <<operator, panes, buffers, tracker>>

(* Upstream forwards a watermark only when it advances (merge.rs,          *)
(* watermark.rs).                                                          *)
IsMark(p) == input[p].kind = "watermark"
MarkBefore(p) == Max({0} \cup {input[q].ts : q \in {n \in 1..(p - 1) : IsMark(n)}})

FeedWatermark(t, rearm) ==
  /\ ~Tracking
  /\ t > MarkBefore(Next1)
  /\ Fed([kind |-> "watermark", ts |-> t, rearm |-> rearm])
  /\ \/ Windowed /\ rearm = {} /\ W!ProcessWatermark(t) /\ UNCHANGED <<buffers, service>>
     \/ Joining /\ rearm = {} /\ J!ProcessWatermark(t) /\ UNCHANGED <<panes, service>>
     \/ Processing /\ P!ProcessWatermark(t, rearm) /\ UNCHANGED <<panes, buffers>>
  /\ UNCHANGED <<operator, tracker>>

(* A barrier is forwarded and no operator snapshots its state on it. *)
FeedBarrier ==
  /\ ~Tracking
  /\ Fed(Barrier)
  /\ out' = Append(out, <<Barrier>>)
  /\ UNCHANGED <<operator, panes, buffers, service, tracker>>

FeedTracker(i, t) ==
  /\ Tracking
  /\ Fed([kind |-> "watermark", ts |-> t, channel |-> i])
  /\ Tracker!Update(i, t)
  /\ UNCHANGED <<operator, panes, buffers, service>>

OperatorNext ==
  \/ \E side \in Sides, k \in Keys, t \in Times : FeedRecord(Record(side, k, t, Next1))
  \/ \E side \in Sides, k \in Keys, c \in Calls :
       FeedCall(Caller(side, k, Next1, c))
  \/ \E t \in Marks : \E rearm \in SUBSET timers.event : FeedWatermark(t, rearm)
  \/ FeedBarrier
  \/ \E i \in 1..2, t \in Marks : FeedTracker(i, t)

OperatorSpec == OperatorInit /\ [][OperatorNext]_operatorVars

-----------------------------------------------------------------------------
(* The reference: what the whole input amounts to. *)

Positions == DOMAIN input
IsRecord(p) == input[p].kind = "record"

(* The records the stateful operator received at position p. *)
Arrivals(p) == IF IsRecord(p) /\ ~Processing THEN Stateless(input[p]) ELSE {}

OnTime == \A p \in Positions : IsRecord(p) => input[p].ts > MarkBefore(p)

Emitted(p) == ToSet(out[p])
ResultsOf(p) == {e \in Emitted(p) : e.kind = "result"}

(* Type invariant: the state kept is made of records that arrived (no      *)
(* operator makes up or keeps an element it was not given), and timestamps *)
(* stay u64: a timer set past the end saturates.                           *)
OperatorTypeOK ==
  /\ operator \in Operators
  /\ \A q \in DOMAIN panes : \A side \in {"left", "right"} :
       ToSet(panes[q][side]) \subseteq UNION {Arrivals(p) : p \in Positions}
  /\ \A k \in DOMAIN buffers :
       buffers[k].left \cup buffers[k].right \subseteq UNION {Arrivals(p) : p \in Positions}
  /\ timers.event \cup timers.processing \subseteq (0..MaxTs) \X Nat
  /\ currentKey \in Nat
  /\ {currentWatermark, trackerWatermark} \subseteq 0..MaxTs
  /\ inputWatermarks \in [1..2 -> 0..MaxTs]
  /\ Len(out) = Len(input)

(* The windows of the assigner that contain t, by definition. *)
WindowsOf(t) ==
  LET a == operator.assigner
      slide == IF a.kind = "tumbling" THEN a.size ELSE a.slide
  IN {w \in {W!Window(n * slide, n * slide + a.size) : n \in 0..MaxTs} : W!InWindow(w, t)}

ArrivedBefore(p) == UNION {Arrivals(q) : q \in 1..(p - 1)}

(* Records in their order of arrival. *)
Arranged(S) == Sequenced(S, [s \in S |-> {r \in S : r.id < s.id}])

(* The records of key k in window w that a watermark at p is the first to  *)
(* close.                                                                  *)
ClosedBy(p, k, w, side) ==
  {r \in ArrivedBefore(p) :
     /\ KeyOf(r) = k
     /\ r.side = side
     /\ w \in WindowsOf(r.ts)
     /\ \A m \in (r.id + 1)..(p - 1) : IsMark(m) => input[m].ts < w.end}

(* What is made of the records of key k in window w, when there are any. *)
WindowResults(k, w, left, right) ==
  LET ids(s) == [n \in DOMAIN s |-> s[n].id]
  IN IF left = <<>> /\ right = <<>> THEN {}
     ELSE CASE operator.kind = "window" -> {Result(k, w.end - 1, ids(left))}
            [] operator.kind = "join" ->
                 {Result(k, Later(l.ts, r.ts), <<l.id, r.id>>) : l \in ToSet(left), r \in ToSet(right)}
            [] operator.kind = "cogroup" -> {Result(k, w.end - 1, <<ids(left), ids(right)>>)}

(* The results of one of them, when the watermark at p closes it. *)
Share(p, k, w) ==
  {[pane |-> [key |-> k, window |-> w], result |-> e] :
     e \in WindowResults(k, w, Arranged(ClosedBy(p, k, w, "left")), Arranged(ClosedBy(p, k, w, "right")))}

(* The results of every window the watermark at p closes. *)
Closings(p) ==
  LET arrived == ArrivedBefore(p)
      windows == {w \in UNION {WindowsOf(r.ts) : r \in arrived} : w.end <= input[p].ts}
  IN UNION {Share(p, k, w) : k \in {KeyOf(r) : r \in arrived}, w \in windows}

(* o is the results of the closings, each as often as they make it, then   *)
(* the watermark.                                                          *)
Lists(o, closings, t) ==
  /\ Len(o) = Cardinality(closings) + 1
  /\ o[Len(o)] = Watermark(t)
  /\ \A e \in {c.result : c \in closings} :
       Cardinality({i \in DOMAIN o : o[i] = e}) = Cardinality({c \in closings : c.result = e})

(* No window of a record ends past the end-of-stream time. *)
InTime == \A p \in Positions : IsRecord(p) => input[p].ts + operator.assigner.size <= MaxTs

(* Each watermark makes a windowed operator emit exactly the results of    *)
(* the windows it closes, each over exactly the records that arrived in    *)
(* that window since it was last closed: no record is lost, counted twice  *)
(* or given to another key's or another window's result, late records      *)
(* included (they are the result of a second closing).  (Records whose     *)
(* windows end past the end-of-stream time are set apart: the ends wrap,   *)
(* see the README.)                                                        *)
WindowsExact ==
  Windowed =>
    \A p \in Positions :
      IF IsMark(p) THEN InTime => Lists(out[p], Closings(p), input[p].ts)
      ELSE ResultsOf(p) = {}

(* record.rs: a watermark "Declares that no more records with event-time   *)
(* <= this timestamp will arrive on this channel".  A window's result is   *)
(* stamped end - 1 when the watermark end - 1 may have gone by, a window   *)
(* join's with the time of the later record.                               *)
WatermarksHold ==
  OnTime => \A p \in Positions : \A e \in ResultsOf(p) : e.ts > MarkBefore(p)

(* A result carries the key every record it was made of had when it        *)
(* entered the task, through map, filter and the stateful operators: only  *)
(* records of one key are aggregated, joined or grouped together.          *)
IdsOf(e) ==
  IF operator.kind = "cogroup" THEN ToSet(e.of[1]) \cup ToSet(e.of[2]) ELSE ToSet(e.of)
KeyKept ==
  operator.stateless \in {"map", "filter"} =>
    \A p \in Positions : \A e \in ResultsOf(p) : \A id \in IdsOf(e) :
      e.key = KeyOf(input[id])

Pairs(l, r) == {p \in Positions : \E e \in ResultsOf(p) : e.of = <<l.id, r.id>>}

(* With records on time the interval join emits each pair of records of a  *)
(* key whose times differ by lower..upper exactly once, whichever of them  *)
(* came first and whatever was evicted in between, and emits no other      *)
(* pair, late records or not.  (A right record earlier than the lower      *)
(* bound, or at the end-of-stream time, is set apart: the range it is      *)
(* looked for in saturates, see the README.)                               *)
IntervalJoinExact ==
  Joining =>
    LET arrived == UNION {Arrivals(q) : q \in Positions} IN
    \A l \in {a \in arrived : a.side = "left"}, r \in {a \in arrived : a.side = "right"} :
      LET match == /\ KeyOf(l) = KeyOf(r)
                   /\ l.ts + operator.lower <= r.ts
                   /\ r.ts <= l.ts + operator.upper
      IN (l.ts > 0 \/ r.ts >= operator.lower) /\ r.ts < MaxTs =>
           /\ Pairs(l, r) # {} => match
           /\ match /\ OnTime => Cardinality(Pairs(l, r)) = 1

(* After a watermark an interval join keeps no record that no record still *)
(* to come could match, on either side, nor an entry of a key without any. *)
JoinStateBounded ==
  Joining /\ input # <<>> /\ IsMark(Len(input)) =>
    \A k \in DOMAIN buffers :
      LET kept == buffers[k].left \cup buffers[k].right IN
      /\ kept # {}
      /\ \A r \in kept : r.ts + operator.upper >= Last(input).ts

Asked(p) ==
  CASE IsRecord(p) /\ input[p].call.op = "register" -> {<<input[p].call.time, KeyOf(input[p])>>}
    [] IsMark(p) -> {<<Plus(f[1], 1), f[2]>> : f \in input[p].rearm}
    [] OTHER -> {}

Deleted(p) ==
  IF IsRecord(p) /\ input[p].call.op = "delete"
  THEN {<<input[p].call.time, KeyOf(input[p])>>} ELSE {}

Due(p) ==
  {f \in UNION {Asked(q) : q \in 1..(p - 1)} :
     /\ f[1] <= input[p].ts
     /\ f[1] < MaxTs
     /\ \E q \in 1..(p - 1) :
          /\ f \in Asked(q)
          /\ \A m \in (q + 1)..(p - 1) :
               f \notin Deleted(m) /\ ~(IsMark(m) /\ input[m].ts >= f[1])}

(* Each timer a process function registers and does not delete fires once, *)
(* with the key it was registered under, at the first later watermark that *)
(* reaches it, the timers of one watermark in ascending order and before   *)
(* the watermark is forwarded; registering it twice changes nothing, and a *)
(* timer set from on_timer waits for the next watermark.  (A timer at the  *)
(* end-of-stream time is set apart: none ever fires, see the README.)      *)
TimersExact ==
  Processing =>
    \A p \in {n \in Positions : IsMark(n)} :
      LET calls == P!Ascending(Due(p))
      IN out[p] = [k \in DOMAIN calls |-> P!OnTimer(calls[k])] \o <<Watermark(input[p].ts)>>

MarksOf(i) == {p \in Positions : input[p].channel = i}
Promise(i) == Max({0} \cup {input[p].ts : p \in MarksOf(i)})
Advances(i) == \A p, q \in MarksOf(i) : p < q => input[p].ts <= input[q].ts

(* The tracker never emits a watermark ahead of what every channel has     *)
(* promised, even when a channel's watermark goes back, emits only         *)
(* advancing ones, and with channels that advance it holds none back.      *)
TrackerExact ==
  Tracking =>
    LET least == Min({Promise(i) : i \in 1..2})
        emitted == {p \in Positions : out[p] # <<>>}
    IN /\ trackerWatermark <= least
       /\ \A p \in emitted : Len(out[p]) = 1 /\ out[p][1].ts <= trackerWatermark
       /\ \A p, q \in emitted : p < q => out[p][1].ts < out[q][1].ts
       /\ trackerWatermark > 0 => \E p \in emitted : out[p][1].ts = trackerWatermark
       /\ (\A i \in 1..2 : Advances(i)) => trackerWatermark = least
=============================================================================
