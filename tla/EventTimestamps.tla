--------------------------- MODULE EventTimestamps ---------------------------
(***************************************************************************)
(* Event timestamps and records (crates/flume-core/src/time.rs, record.rs, *)
(* either.rs).  A timestamp is a u64 whose sums and differences saturate;  *)
(* MaxTs stands for u64::MAX, the end-of-stream marker.                    *)
(***************************************************************************)
EXTENDS Integers, Sequences

CONSTANTS MaxTs, None

Plus(t, d) == IF t + d > MaxTs THEN MaxTs ELSE t + d
Minus(t, d) == IF t < d THEN 0 ELSE t - d
Later(t, u) == IF t < u THEN u ELSE t

(* The key bytes of a record without one are the empty bytes, here 0. *)
KeyOf(r) == IF r.key = None THEN 0 ELSE r.key

(* A record of one of the two inputs of an Either; id names its value. *)
Record(side, key, ts, id) ==
  [kind |-> "record", side |-> side, key |-> key, ts |-> ts, id |-> id]

Watermark(t) == [kind |-> "watermark", ts |-> t]
Barrier == [kind |-> "barrier"]

(* What an operator emits: a value made of other values, by their ids. *)
Result(key, ts, of) == [kind |-> "result", key |-> key, ts |-> ts, of |-> of]
=============================================================================
