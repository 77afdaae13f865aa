--------------------------- MODULE MCProviderBank ---------------------------
(* A paper of three pages with an item each; the mapper rejects the second. *)
EXTENDS ProviderBank

MCRows == {Fetch, Circuit, Attempt} \cup StagedRows \cup PaperRows
MCMixes == {{"advance", "ensure"}, {"advance", "saturate"}, {"advance", "start"},
            {"start", "continue"}, {"start", "sync"}}
MCPageOf == [i \in Items |-> i]
=============================================================================
