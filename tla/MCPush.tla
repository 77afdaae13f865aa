------------------------------- MODULE MCPush -------------------------------
(* Push with small sets; the rows follow from them. *)
EXTENDS Push

MCRows == Anns \cup Subs \cup Pairs \cup Logs
MCMixes == {{"cancel"}, {"expire"}, {"remind"}, {"unsubscribe"}, {"retry"}}
=============================================================================
