-------------------------- MODULE MCBarrierAligner --------------------------
(* Instances of BarrierAligner for TLC: elements per input, by the number  *)
(* of inputs.                                                               *)
EXTENDS BarrierAligner, TLC

UpToThreeInputs == <<3, 3, 2>>
=============================================================================
