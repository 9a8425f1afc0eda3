------------------------- MODULE MCNetworkExchange -------------------------
(* Bounds for model checking NetworkExchange: two channels, each on a      *)
(* connection of its own, that share the router.  A second barrier of long *)
(* comes behind the records that the first one's credits let through.      *)
EXTENDS NetworkExchange

CONSTANTS long, short

Count(s, kind) == Cardinality({k \in DOMAIN s : s[k] = kind})

MCConnOf == (long :> 1) @@ (short :> 2)
LongInputs ==
  {s \in UNION {[1..k -> Kinds] : k \in 1..4} :
     Count(s, "record") <= 2 /\ Count(s, "barrier") <= 2 /\ Count(s, "watermark") <= 1}
MCInputs == (long :> LongInputs) @@ (short :> {<<"barrier">>})
=============================================================================
