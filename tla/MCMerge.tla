------------------------------ MODULE MCMerge ------------------------------
(* Instances of Merge for TLC: an input of three elements and one of two. *)
EXTENDS Merge, TLC

ThreeAndTwo == <<3, 2>>
=============================================================================
