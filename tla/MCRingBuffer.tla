---------------------------- MODULE MCRingBuffer ----------------------------
(* Instances of RingBuffer for TLC. *)
EXTENDS RingBuffer, TLC

CONSTANTS v1, v2

TwoValues == {v1, v2}
OneValue == {v1}

=============================================================================
