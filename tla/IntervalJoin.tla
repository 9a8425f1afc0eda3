---------------------------- MODULE IntervalJoin ----------------------------
(***************************************************************************)
(* The interval join (crates/flume-core/src/operator/interval_join.rs):    *)
(* a left record at t matches the right records of its key at              *)
(* t + lower .. t + upper; each record is buffered, then matched at once   *)
(* with what the other side has buffered, and a watermark evicts.          *)
(***************************************************************************)
EXTENDS EventTimestamps, FiniteSets, Filters

VARIABLES
  operator,  (* its kind and its bounds lower, upper                        *)
  buffers,   (* state: the two buffers of each key that has one             *)
  out        (* history: what each element fed so far made it emit          *)

Buffers(k) == IF k \in DOMAIN buffers THEN buffers[k] ELSE [left |-> {}, right |-> {}]

(* A BTreeMap range: by time, then in arrival order. *)
Earlier(r, s) == r.ts < s.ts \/ (r.ts = s.ts /\ r.id < s.id)
Between(records, first, last) ==
  LET found == {r \in records : first <= r.ts /\ r.ts <= last}
  IN Sequenced(found, [s \in found |-> {r \in found : Earlier(r, s)}])

(* Mutant: the window of a right record is not turned around. *)
Matches_SameWindow(r) ==
  LET other == IF r.side = "left" THEN "right" ELSE "left" IN
  Between(Buffers(KeyOf(r))[other], Plus(r.ts, operator.lower), Plus(r.ts, operator.upper))

Matches(r) ==
  IF r.side = "left"
  THEN Between(Buffers(KeyOf(r)).right,
               Plus(r.ts, operator.lower), Plus(r.ts, operator.upper))
  ELSE Between(Buffers(KeyOf(r)).left,
               Minus(r.ts, operator.upper), Minus(r.ts, operator.lower))

Joined(r, other) ==
  LET pair == IF r.side = "left" THEN <<r.id, other.id>> ELSE <<other.id, r.id>>
  IN Result(KeyOf(r), Later(r.ts, other.ts), pair)

ProcessRecord(r) ==
  LET k == KeyOf(r) IN
  /\ buffers' = [j \in DOMAIN buffers \cup {k} |->
                   IF j = k THEN [Buffers(k) EXCEPT ![r.side] = @ \cup {r}] ELSE buffers[j]]
  /\ out' = Append(out, [m \in DOMAIN Matches(r) |-> Joined(r, Matches(r)[m])])

(* Mutant: only the left records are evicted. *)
ProcessWatermark_LeftOnly(t) ==
  LET live(s) == {r \in s : r.ts >= Minus(t, operator.upper)}
      kept == [k \in DOMAIN buffers |-> [buffers[k] EXCEPT !.left = live(@)]]
  IN /\ buffers' = [k \in {j \in DOMAIN kept : kept[j].left # {} \/ kept[j].right # {}} |->
                      kept[k]]
     /\ out' = Append(out, <<Watermark(t)>>)

(* Both sides lose what is older than the watermark less the upper bound,  *)
(* and a key with nothing left loses its entry.                            *)
ProcessWatermark(t) ==
  LET live(s) == {r \in s : r.ts >= Minus(t, operator.upper)}
      kept == [k \in DOMAIN buffers |->
                 [left |-> live(buffers[k].left), right |-> live(buffers[k].right)]]
  IN /\ buffers' = [k \in {j \in DOMAIN kept : kept[j].left # {} \/ kept[j].right # {}} |->
                      kept[k]]
     /\ out' = Append(out, <<Watermark(t)>>)
=============================================================================
