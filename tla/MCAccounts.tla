----------------------------- MODULE MCAccounts -----------------------------
(* Accounts with small sets; the rows follow from them. *)
EXTENDS Accounts

MCRows == {User, Account, Sub} \cup {Device(d) : d \in Devices} \cup {Token(t) : t \in Tokens}
MCMixes == {{"register", "google", "login"}, {"login", "change"}, {"login", "revoke"},
            {"login", "forgot", "reset"}, {"login", "logout", "touch"},
            {"login", "logout", "subscribe"}, {"login", "status", "signout", "renew"},
            {"login", "change", "subscribe", "logout", "revoke", "serial"},
            (Kinds \ {"change", "subscribe", "logout", "revoke", "touch"}) \cup {"serial"}}

Alike == Permutations(Workers) \cup Permutations(Tokens) \cup Permutations(Passwords)
=============================================================================
