------------------------------- MODULE Windows -------------------------------
(***************************************************************************)
(* The windowed operators (crates/flume-core/src/window.rs,                *)
(* operator/window.rs, operator/join.rs): the window aggregate, the window *)
(* join and the window cogroup.  All three keep a pane per key and window, *)
(* filled record by record, and evaluate the trigger of every pane on each *)
(* watermark.  An accumulator is the sequence of the values added to it,   *)
(* which every aggregate function is a function of.  The bounds of a window *)
(* are computed with the plain operators of u64, which wrap (in a build     *)
(* with overflow checks they panic: see the README).                        *)
(***************************************************************************)
EXTENDS EventTimestamps, FiniteSets, SequencesExt

VARIABLES
  operator,  (* which operator this is: its kind and its assigner           *)
  panes,     (* accumulators, state: the pane of each (key, window) with one *)
  out        (* history: what each element fed so far made it emit          *)

Window(start, end) == [start |-> start, end |-> end]
InWindow(w, t) == w.start <= t /\ t < w.end

(* The sum or difference of two u64, which release builds wrap. *)
Wrapped(n) == n % (MaxTs + 1)

TumblingWindow(size, t) ==
  LET start == (t \div size) * size IN {Window(start, Wrapped(start + size))}

(* Mutant: the walk stops one slide early. *)
SlidingWindow_Short(size, slide, t) ==
  LET walk[start \in 0..t] ==
        (IF t < Wrapped(start + size) THEN {Window(start, Wrapped(start + size))} ELSE {})
        \cup (IF start < slide \/ Wrapped(start - slide + size) <= t + 1
              THEN {} ELSE walk[start - slide])
  IN walk[(t \div slide) * slide]

(* From the last start that is not after t, backwards slide by slide. *)
SlidingWindow(size, slide, t) ==
  LET walk[start \in 0..t] ==
        (IF t < Wrapped(start + size) THEN {Window(start, Wrapped(start + size))} ELSE {})
        \cup (IF start < slide \/ Wrapped(start - slide + size) <= t
              THEN {} ELSE walk[start - slide])
  IN walk[(t \div slide) * slide]

AssignWindows(t) ==
  LET a == operator.assigner IN
  IF a.kind = "tumbling" THEN TumblingWindow(a.size, t)
  ELSE SlidingWindow(a.size, a.slide, t)

(* EventTimeTrigger::on_event_time; its on_element is never called. *)
OnEventTime(t, w) == IF t >= w.end THEN "FireAndPurge" ELSE "Continue"

-----------------------------------------------------------------------------
Pane(p) == IF p \in DOMAIN panes THEN panes[p] ELSE [left |-> <<>>, right |-> <<>>]

PanesOf(r) == {[key |-> KeyOf(r), window |-> w] : w \in AssignWindows(r.ts)}

Added(r) ==
  [p \in DOMAIN panes \cup PanesOf(r) |->
     IF p \in PanesOf(r) THEN [Pane(p) EXCEPT ![r.side] = Append(@, r)] ELSE panes[p]]

WindowRecord(r) == operator.kind = "window" /\ panes' = Added([r EXCEPT !.side = "left"])
JoinRecord(r) == operator.kind = "join" /\ panes' = Added(r)
CogroupRecord(r) == operator.kind = "cogroup" /\ panes' = Added(r)

(* No operator compares a record with the watermark: a late record opens   *)
(* its windows again.                                                      *)
ProcessRecord(r) ==
  /\ WindowRecord(r) \/ JoinRecord(r) \/ CogroupRecord(r)
  /\ out' = Append(out, <<>>)

Values(s) == [k \in DOMAIN s |-> s[k].id]

WindowResults(p) == {Result(p.key, Wrapped(p.window.end - 1), Values(panes[p].left))}

JoinResults(p) ==
  {Result(p.key, Later(l.ts, r.ts), <<l.id, r.id>>) :
     l \in ToSet(panes[p].left), r \in ToSet(panes[p].right)}

CogroupResults(p) ==
  {Result(p.key, Wrapped(p.window.end - 1), <<Values(panes[p].left), Values(panes[p].right)>>)}

OnTrigger(t, verdicts) == {p \in DOMAIN panes : OnEventTime(t, p.window) \in verdicts}

ToFire(t) == OnTrigger(t, {"Fire", "FireAndPurge"})
ToPurge(t) == OnTrigger(t, {"Purge", "FireAndPurge"})

(* The results of the panes that fire, pane by pane: two panes may make    *)
(* the same one.                                                           *)
Fired(t, results) ==
  UNION {{[pane |-> p, result |-> e] : e \in results[p]} : p \in ToFire(t)}

(* The panes fire in the order a HashMap yields its keys, any order. *)
Emission(t, results) ==
  LET order == SetToSeq(Fired(t, results))
  IN [i \in DOMAIN order |-> order[i].result] \o <<Watermark(t)>>

Fire(t, results) ==
  /\ out' = Append(out, Emission(t, results))
  /\ panes' = [p \in DOMAIN panes \ ToPurge(t) |-> panes[p]]

WindowWatermark(t) ==
  operator.kind = "window" /\ Fire(t, [p \in ToFire(t) |-> WindowResults(p)])
JoinWatermark(t) ==
  operator.kind = "join" /\ Fire(t, [p \in ToFire(t) |-> JoinResults(p)])
CogroupWatermark(t) ==
  operator.kind = "cogroup" /\ Fire(t, [p \in ToFire(t) |-> CogroupResults(p)])

ProcessWatermark(t) == WindowWatermark(t) \/ JoinWatermark(t) \/ CogroupWatermark(t)
=============================================================================
