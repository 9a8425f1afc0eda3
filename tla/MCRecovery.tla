----------------------------- MODULE MCRecovery -----------------------------
(* Bounds for model checking Recovery. *)
EXTENDS Recovery

Entry(id, key, op) == [id |-> id, key |-> key, op |-> op]

MCLog == << <<Entry(1, 1, "add"), Entry(2, 2, "add"), Entry(3, 2, "clear")>>,
            <<Entry(4, 3, "add")>> >>
MCLineBytes == <<2, 1, 3>>
MCCommitted == <<1, 0>>
MCPairings == {<<"file", "file">>, <<"file", "tcp">>, <<"kafka", "kafka">>, <<"kafka", "tcp">>,
               <<"tcp", "tcp">>, <<"memory", "collect">>}
MCKinds == {"value", "list", "map"}
=============================================================================
