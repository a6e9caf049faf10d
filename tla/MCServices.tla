----------------------------- MODULE MCServices -----------------------------
(* The newest account is unreadable; an older one is below the limit of the rows read. *)
EXTENDS Services

MCTable == <<"unreadable", "alice", "bob", "oldest">>
MCStart == [u \in {"unreadable", "alice", "bob", "oldest"} |-> IF u = "alice" THEN <<4, 1>> ELSE <<0, 1>>]
=============================================================================
