------------------------------- MODULE Timers -------------------------------
(***************************************************************************)
(* Process functions with timers (crates/flume-core/src/process.rs,        *)
(* timer.rs, operator/process.rs).  The user's function is external: on a  *)
(* record it makes one call of the timer service, and each on_timer may    *)
(* register a timer one tick after the one that fired.                     *)
(***************************************************************************)
EXTENDS EventTimestamps, FiniteSets, SequencesExt, Filters

VARIABLES
  operator,         (* its kind: "process", "keyed_process" or "co_process"    *)
  timers,           (* TimerQueue: the sets of (time, key)                     *)
  currentKey,       (* TimerServiceImpl's current_key                          *)
  currentWatermark, (* TimerServiceImpl's current_watermark                    *)
  out               (* history: the calls made into the user's function        *)

Timer(t, k) == <<t, k>>

RegisterEventTime(q, t, k) == [q EXCEPT !.event = @ \cup {Timer(t, k)}]
DeleteEventTime(q, t, k) == [q EXCEPT !.event = @ \ {Timer(t, k)}]
RegisterProcessingTime(q, t, k) == [q EXCEPT !.processing = @ \cup {Timer(t, k)}]
DeleteProcessingTime(q, t, k) == [q EXCEPT !.processing = @ \ {Timer(t, k)}]

(* The timer-service call a record of the runs asks for. *)
Call(q, c, k) ==
  CASE c.op = "register" -> RegisterEventTime(q, c.time, k)
    [] c.op = "delete" -> DeleteEventTime(q, c.time, k)
    [] c.op = "register_processing" -> RegisterProcessingTime(q, c.time, k)
    [] c.op = "delete_processing" -> DeleteProcessingTime(q, c.time, k)

(* The split at (t + 1, empty key): saturated, it leaves a timer at MaxTs. *)
FireEventTimeUpTo(t) == {f \in timers.event : f[1] < Plus(t, 1)}

(* A BTreeSet of (time, key) is drained in its order. *)
Sooner(f, g) == f[1] < g[1] \/ (f[1] = g[1] /\ f[2] < g[2])
Ascending(fired) == Sequenced(fired, [f \in fired |-> {g \in fired : Sooner(g, f)}])

Element(function, key, t) ==
  [kind |-> "element", function |-> function, key |-> key, ts |-> t]

(* A call of the user's function with ctx.current_key() = key, in which it *)
(* calls the timer service, whose own key is never absent.                 *)
UserCall(r, function, key) ==
  /\ currentKey' = KeyOf(r)
  /\ timers' = Call(timers, r.call, KeyOf(r))
  /\ out' = Append(out, <<Element(function, key, r.ts)>>)
  /\ UNCHANGED currentWatermark

ProcessElement(r) == operator.kind = "process" /\ UserCall(r, 1, r.key)
KeyedElement(r) == operator.kind = "keyed_process" /\ UserCall(r, 1, KeyOf(r))

(* Either::Left goes to process_element1, Either::Right to process_element2. *)
CoElement(r) ==
  operator.kind = "co_process" /\ UserCall(r, IF r.side = "left" THEN 1 ELSE 2, r.key)

ProcessRecord(r) == ProcessElement(r) \/ KeyedElement(r) \/ CoElement(r)

OnTimer(f) == [kind |-> "timer", ts |-> f[1], key |-> f[2]]

(* Mutant: on_timer runs with the key of the last record. *)
TimerKey_Stale(f) == currentKey

(* set_current_key before each on_timer. *)
TimerKey(f) == f[2]

(* The fired timers are taken out before the first on_timer, so one that   *)
(* registers a timer at or before the watermark waits for the next one.    *)
OnTimers(t, rearm) ==
  LET fired == FireEventTimeUpTo(t)
      calls == Ascending(fired)
  IN /\ rearm \subseteq fired
     /\ timers' = [timers EXCEPT !.event =
          (@ \ fired) \cup {Timer(Plus(f[1], 1), TimerKey(f)) : f \in rearm}]
     /\ currentKey' = IF calls = <<>> THEN currentKey ELSE TimerKey(Last(calls))
     /\ currentWatermark' = t
     /\ out' = Append(out, [k \in DOMAIN calls |-> OnTimer(calls[k])] \o <<Watermark(t)>>)

ProcessTimers(t, rearm) == operator.kind = "process" /\ OnTimers(t, rearm)
KeyedTimers(t, rearm) == operator.kind = "keyed_process" /\ OnTimers(t, rearm)
CoTimers(t, rearm) == operator.kind = "co_process" /\ OnTimers(t, rearm)

ProcessWatermark(t, rearm) ==
  ProcessTimers(t, rearm) \/ KeyedTimers(t, rearm) \/ CoTimers(t, rearm)
=============================================================================
