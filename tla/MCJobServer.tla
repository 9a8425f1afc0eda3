---------------------------- MODULE MCJobServer ----------------------------
(* A job of two operators: a flat_map that doubles every record, a map. *)
EXTENDS JobServer

DoubleThenMap == <<2, 1>>
=============================================================================
