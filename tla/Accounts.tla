------------------------------ MODULE Accounts ------------------------------
(***************************************************************************)
(* One student's account (app/services/auth/service.py, rules.py,           *)
(* app/api/deps.py, app/api/student/auth.py, user.py and push.py, the        *)
(* student's routes of app/services/admin.py): signing up and in, devices    *)
(* and their cap, access tokens, passwords and their reset, what an          *)
(* administrator may do to the account, and the device's push subscription.  *)
(*                                                                         *)
(* The database rows of a request are those of OrmSession.  An access token *)
(* is what its claims say: a device and the second it was issued in.         *)
(* User.tier does not change here (Billing models it).                      *)
(***************************************************************************)
EXTENDS Requests, FiniteSets, Integers

CONSTANTS
    Devices,        \* 1 .. n, in the order they are registered
    Tokens,         \* reset tokens
    Passwords,
    MaxTime,        \* bound: seconds that pass
    Mixes           \* what meets, several sets of kinds of requests

User == <<"user">>
Account == <<"account">>
Sub == <<"subscription">>
Device(d) == <<"device", d>>
Token(t) == <<"token", t>>

Kinds == {"register", "login", "google", "touch", "renew", "logout", "revoke", "change",
          "forgot", "reset", "status", "signout", "subscribe"}
DEVICE_LIMIT == 2

ASSUME AccountsAssumption ==
    /\ Devices \subseteq Nat \ {0} /\ MaxTime \in Nat \ {0}
    /\ Mixes \subseteq SUBSET (Kinds \cup {"serial"})
    /\ Rows = {User, Account, Sub} \cup {Device(d) : d \in Devices}
              \cup {Token(t) : t \in Tokens}

VARIABLES
    now,        \* the second
    held,       \* access tokens given out, with the password that obtained each
    mailed,     \* reset tokens sent to the student
    spent       \* history: [Tokens -> resets committed with it]

world == <<now, mix>>
vars == <<db, tx, at, job, held, mailed, spent, now, mix>>

UserRow == [there : BOOLEAN, active : BOOLEAN, password : Passwords \cup {"none"},
            validFrom : 0 .. MaxTime, tier : {"FREEMIUM", "STANDARD"}]
DeviceRow == [there : BOOLEAN, revoked : BOOLEAN, touched : BOOLEAN]
SubRow == [there : BOOLEAN, device : Devices \cup {0}]
TokenRow == [there : BOOLEAN]
Claims == [device : Devices, issued : 1 .. MaxTime, by : Passwords \cup {"google"}]

Init ==
    /\ mix \in Mixes
    /\ \E tier \in {"FREEMIUM", "STANDARD"}, known \in BOOLEAN, p \in Passwords :
          /\ known \/ mix \cap {"register", "google"} # {}
          /\ RequestsInit([r \in Rows |->
               CASE r = User -> [there |-> known, active |-> known,
                                 password |-> IF known THEN p ELSE "none",
                                 validFrom |-> 0, tier |-> tier]
                 [] r = Sub -> [there |-> FALSE, device |-> 0]
                 [] r \in {Device(d) : d \in Devices} ->
                      [there |-> FALSE, revoked |-> FALSE, touched |-> FALSE]
                 [] OTHER -> [there |-> FALSE]])
    /\ now = 1 /\ held = {} /\ mailed = {}
    /\ spent = [t \in Tokens |-> 0]

Active(rows) == {d \in Devices : rows[Device(d)].there /\ ~rows[Device(d)].revoked}
Seen(w) == [r \in Rows |-> See(w, r)]
Quiet == UNCHANGED <<held, mailed, spent, now, mix>>

Earliest(S) == CHOOSE d \in S : \A e \in S : d <= e

-----------------------------------------------------------------------------
(* Sessions of the database, and time *)

\* Time passes where it is asked for: only a cut-off (sessions_valid_from) reads it.
Tick ==
    /\ now < MaxTime /\ mix \cap {"reset", "signout"} # {}
    /\ now' = now + 1 /\ UNCHANGED <<db, session, held, mailed, spent, mix>>

\* The answer goes out with the commit: the access token of a sign-in, a new one of a
\* completed profile.  (Passwords: whoever changed it holds the new one.)
Commit(w) ==
    /\ CommitSession(w)
    /\ held' = CASE job[w].kind \in {"login", "google", "renew"} ->
                      held \cup {[device |-> job[w].device, issued |-> job[w].issued,
                                  by |-> job[w].by]}
                 [] job[w].kind = "change" ->
                      {[c EXCEPT !.by = IF c.device = job[w].device
                                        THEN db'[User].password ELSE @] : c \in held}
                 [] OTHER -> held
    /\ spent' = IF job[w].kind = "reset" THEN [spent EXCEPT ![job[w].token] = @ + 1] ELSE spent
    /\ UNCHANGED <<mailed, world>>

Rollback(w) == RollbackSession(w) /\ Quiet

-----------------------------------------------------------------------------
(* Signing up and in *)

Register(w) ==
    /\ ~db[User].there
    /\ Begin(w, "register", <<>>, "commit")
    /\ \E p \in Passwords :
          Put(w, Only(User, [db[User] EXCEPT !.there = TRUE, !.active = TRUE, !.password = p]))
    /\ UNCHANGED db /\ Quiet

\* is_session_revoked
Revoked(user, issued) == ~user.active \/ (user.validFrom > 0 /\ issued <= user.validFrom)

\* The password is checked against the row as it is now.
Login(w) ==
    /\ db[User].there /\ db[User].active /\ db[User].password # "none"
    /\ Begin(w, "login", [by |-> db[User].password], "lock")
    /\ UNCHANGED <<db, tx>> /\ Quiet

\* GoogleSignInService: the account's user, or the email's, or a new one.
Google(w) ==
    /\ Begin(w, "google", [by |-> "google"], "lock")
    /\ IF db[User].there
       THEN ~Revoked(db[User], now) /\ Put(w, Only(Account, [there |-> TRUE]))
       ELSE Put(w, Merge(Only(User, [db[User] EXCEPT !.there = TRUE, !.active = TRUE]),
                         Only(Account, [there |-> TRUE])))
    /\ UNCHANGED db /\ Quiet

\* Mutant: the user's row is only read.
LockSkipped(w) ==
    /\ at[w] = "lock" /\ ~Flushing(w)
    /\ Goto(w, "device")
    /\ UNCHANGED <<db, tx, job>> /\ Quiet

\* RegisterDeviceService: SELECT ... FOR UPDATE of the user ...
Lock(w) ==
    /\ at[w] = "lock" /\ ~Flushing(w) /\ FreeFor(w, User)
    /\ Write(w, Only(User, See(w, User)))
    /\ Goto(w, "device")
    /\ UNCHANGED <<db, job>> /\ Quiet

\* Mutant: a known browser gets its device back.
FreshReused == {d \in Devices : ~(db[Device(d)].there /\ ~db[Device(d)].revoked)
                                /\ \A v \in Workers : Device(d) \notin Holds(v)}
Fresh == {d \in Devices : ~db[Device(d)].there /\ \A v \in Workers : Device(d) \notin Holds(v)}

\* ... the device is inserted, the token made ...
NewDevice(w) ==
    /\ at[w] = "device" /\ Fresh # {}
    /\ LET d == Earliest(Fresh)
       IN /\ Write(w, Only(Device(d), [there |-> TRUE, revoked |-> FALSE, touched |-> FALSE]))
          /\ Keep(w, Merge([device |-> d, issued |-> now], job[w]))
    /\ Goto(w, IF See(w, User).tier = "FREEMIUM" THEN "commit" ELSE "overflow")
    /\ UNCHANGED db /\ Quiet

\* Devices are revoked: assigned, then their subscriptions deleted.
SignOut(w, ids, otherwise) ==
    /\ Put(w, [r \in {Device(d) : d \in ids} |-> [See(w, r) EXCEPT !.revoked = TRUE]])
    /\ Keep(w, Merge([ids |-> ids], job[w]))
    /\ Goto(w, IF ids = {} THEN otherwise ELSE "purge")

\* ... and of the other active ones all but the newest are revoked.  A row's created_at
\* is when its transaction started, so any of several may be the newest.
Overflow(w) ==
    /\ at[w] = "overflow" /\ ~Flushing(w)
    /\ LET others == Active(Seen(w)) \ {job[w].device}
       IN \E kept \in {{d} : d \in others} \cup {S \in {{}} : others = {}} :
             SignOut(w, others \ kept, "commit")
    /\ UNCHANGED db /\ Quiet

\* delete_for_devices
Purge(w) ==
    /\ at[w] = "purge" /\ ~Flushing(w)
    /\ IF See(w, Sub).there /\ See(w, Sub).device \in job[w].ids
       THEN FreeFor(w, Sub) /\ Write(w, Only(Sub, [there |-> FALSE, device |-> 0]))
       ELSE UNCHANGED tx
    /\ Goto(w, IF job[w].kind = "reset" THEN "spend" ELSE "commit")
    /\ UNCHANGED <<db, job>> /\ Quiet
-----------------------------------------------------------------------------
(* Requests that carry an access token *)

\* optional_student lets the token in.
Accepts(claims) ==
    /\ db[User].there /\ ~Revoked(db[User], claims.issued)
    /\ db[Device(claims.device)].there /\ ~db[Device(claims.device)].revoked

Touches(w) == IF "touch" \in mix THEN BOOLEAN ELSE {FALSE}

\* The request begins, and may note that the device was seen.
Enter(w, kind, claims, values, step) ==
    /\ claims \in held /\ Accepts(claims)
    /\ Begin(w, kind, Merge(values, [device |-> claims.device, by |-> claims.by]), step)
    /\ \E due \in Touches(w) :
          Put(w, Only(Device(claims.device), [db[Device(claims.device)] EXCEPT
                                             !.touched = @ \/ due]))
    /\ UNCHANGED db /\ Quiet

Touch(w, claims) == Enter(w, "touch", claims, <<>>, "commit")
Renew(w, claims) == Enter(w, "renew", claims, [issued |-> now], "commit")

\* One other device, or all of them.
RevokeDevices(w, claims) ==
    \E targets \in {Devices} \cup {{d} : d \in Devices \ {claims.device}} :
        Enter(w, "revoke", claims, [targets |-> targets], "targets")

Logout(w, claims) == Enter(w, "logout", claims, [ids |-> {claims.device}], "leave")

\* The route's own device, loaded before.
Leave(w) ==
    /\ at[w] = "leave"
    /\ LET device == Device(job[w].device)
       IN PutLoaded(w, Only(device, db[device]),
                    Only(device, [db[device] EXCEPT !.revoked = TRUE]))
    /\ Goto(w, "purge")
    /\ UNCHANGED <<db, job>> /\ Quiet

\* The subscription of the browser's endpoint is inserted, or moved to this device.
Subscribe(w, claims) == Enter(w, "subscribe", claims, <<>>, "endpoint")

Endpoint(w) ==
    /\ at[w] = "endpoint" /\ ~Flushing(w)
    /\ Put(w, Only(Sub, [there |-> TRUE, device |-> job[w].device]))
    /\ Goto(w, "commit")
    /\ UNCHANGED <<db, job>> /\ Quiet

-----------------------------------------------------------------------------
(* Passwords *)

ChangePassword(w, claims) ==
    db[User].password # "none" /\ Enter(w, "change", claims, [targets |-> Devices], "password")

\* The current password is right; the new one is assigned, and flushed by the query
\* of the devices.
SetPassword(w) ==
    /\ at[w] = "password" /\ ~Flushing(w)
    /\ \E p \in Passwords : Put(w, Only(User, [db[User] EXCEPT !.password = p]))
    /\ Goto(w, "targets")
    /\ UNCHANGED <<db, job>> /\ Quiet

\* active_except, or by_id.  A reset has no current device.
Targets(w) ==
    /\ at[w] = "targets" /\ ~Flushing(w)
    /\ LET current == IF job[w].kind = "reset" THEN {} ELSE {job[w].device}
       IN SignOut(w, (job[w].targets \cap Active(Seen(w))) \ current,
                  IF job[w].kind = "reset" THEN "spend" ELSE "commit")
    /\ UNCHANGED db /\ Quiet

Forgot(w, t) ==
    /\ db[User].there /\ db[User].active /\ t \notin mailed
    /\ \A v \in Workers : job[v].kind = "forgot" => job[v].token # t
    /\ Begin(w, "forgot", [token |-> t], "token")
    /\ UNCHANGED <<db, tx>> /\ Quiet

Stored(w) == {t \in Tokens : See(w, Token(t)).there}
TokenRows(S, there) == [r \in {Token(t) : t \in S} |-> [there |-> there]]

\* create_token: the identifier's tokens are deleted, the new one inserted; the mail is
\* sent before the commit.
CreateToken(w) ==
    /\ at[w] = "token" /\ FreeAll(w, {Token(t) : t \in Stored(w)})
    /\ Write(w, Merge(TokenRows({job[w].token}, TRUE), TokenRows(Stored(w), FALSE)))
    /\ mailed' = mailed \cup {job[w].token}
    /\ Goto(w, "commit")
    /\ UNCHANGED <<db, job, held, spent, world>>

\* Mutant: sessions of this second are cut off by a time in the next.
ResetRoundsUp(w, t) ==
    /\ t \in mailed /\ db[Token(t)].there /\ db[User].there /\ db[User].active
    /\ Begin(w, "reset", [token |-> t, targets |-> Devices], "targets")
    /\ \E p \in Passwords \ {db[User].password} :
          Put(w, Only(User, [db[User] EXCEPT !.password = p, !.validFrom = now + 1]))
    /\ UNCHANGED db /\ Quiet

\* The token is valid and the password another; both columns are flushed by the query
\* of the devices.
ResetPassword(w, t) ==
    /\ t \in mailed /\ db[Token(t)].there /\ db[User].there /\ db[User].active
    /\ Begin(w, "reset", [token |-> t, targets |-> Devices], "targets")
    /\ \E p \in Passwords \ {db[User].password} :
          Put(w, Only(User, [db[User] EXCEPT !.password = p, !.validFrom = now]))
    /\ UNCHANGED db /\ Quiet

\* delete_by_identifier
Spend(w) ==
    /\ at[w] = "spend" /\ ~Flushing(w) /\ FreeAll(w, {Token(t) : t \in Stored(w)})
    /\ Write(w, TokenRows(Stored(w), FALSE))
    /\ Goto(w, "commit")
    /\ UNCHANGED <<db, job>> /\ Quiet

-----------------------------------------------------------------------------
(* The administrator *)

SetStatus(w) ==
    /\ db[User].there
    /\ Begin(w, "status", <<>>, "commit")
    /\ Put(w, Only(User, [db[User] EXCEPT !.active = ~@]))
    /\ UNCHANGED db /\ Quiet

ForceSignOut(w) ==
    /\ db[User].there
    /\ Begin(w, "signout", [ids |-> Devices], "purge")
    /\ Put(w, Only(User, [db[User] EXCEPT !.validFrom = now]))
    /\ UNCHANGED db /\ Quiet

-----------------------------------------------------------------------------

Next ==
    \/ Tick
    \/ \E w \in Workers :
          \/ Register(w) \/ Login(w) \/ Google(w) \/ SetStatus(w) \/ ForceSignOut(w)
          \/ \E c \in held : \/ Touch(w, c) \/ Renew(w, c) \/ RevokeDevices(w, c)
                             \/ Logout(w, c) \/ Subscribe(w, c) \/ ChangePassword(w, c)
          \/ \E t \in Tokens : Forgot(w, t) \/ ResetPassword(w, t)
          \/ Lock(w) \/ NewDevice(w) \/ Overflow(w) \/ Purge(w) \/ Leave(w) \/ Endpoint(w)
          \/ SetPassword(w) \/ Targets(w) \/ CreateToken(w) \/ Spend(w)
          \/ Commit(w) \/ Rollback(w) \/ (Flush(w) /\ Quiet)

Spec == Init /\ [][Next]_vars

-----------------------------------------------------------------------------
(* Properties *)

TypeOK ==
    /\ db[User] \in UserRow /\ db[Sub] \in SubRow /\ db[Account] \in TokenRow
    /\ \A d \in Devices : db[Device(d)] \in DeviceRow
    /\ \A t \in Tokens : db[Token(t)] \in TokenRow
    /\ held \subseteq Claims /\ mailed \subseteq Tokens /\ spent \in [Tokens -> Nat]
    /\ now \in 1 .. MaxTime

\* A paid account has two devices at most, however many sign in at once
\* (RegisterDeviceService counts under the user's row lock).
DeviceCap == db[User].tier # "FREEMIUM" => Cardinality(Active(db)) <= DEVICE_LIMIT

\* One request at a time: no device that is signed out is pushed to, ...
SubsFollowDevices == db[Sub].there => db[Sub].device \in Active(db)
\* ... only the last reset mail works, and once, ...
TokensSingle ==
    /\ Cardinality({t \in Tokens : db[Token(t)].there}) <= 1
    /\ \A t \in Tokens : spent[t] <= 1 /\ (spent[t] = 1 => ~db[Token(t)].there)
\* ... and no session outlives the password it was opened with.
SessionsCurrent ==
    \A c \in held : Accepts(c) => c.by \in {"google", db[User].password}

\* The account is safe: the cap always, the rest one request at a time.
AccountSafe ==
    /\ DeviceCap
    /\ "serial" \in mix => SubsFollowDevices /\ TokensSingle /\ SessionsCurrent

\* "Kills this device's token server-side": a device once signed out stays so, whatever
\* stale row another request writes; and when a new password commits, no device but the
\* one that changed it is signed in - not even one that is signing in at that moment.
SignOutsHold ==
    [][/\ \A d \in Devices : db[Device(d)].revoked => db'[Device(d)].revoked
       /\ db[User].there /\ db'[User].password # db[User].password =>
             Cardinality(Active(db')) <= 1
             /\ (db'[User].validFrom # db[User].validFrom => Active(db') = {})]_vars

-----------------------------------------------------------------------------
(* What the code does not guarantee once requests meet *)

\* Two resets with one token; a sign-in that checked the old password before a reset
\* committed; a subscription stored after its device was revoked; two reset mails at
\* once: SessionsCurrent, TokensSingle and SubsFollowDevices all fail without "serial".
\* And a sign-out's moment may be overwritten by an earlier one that commits later:
SignOutsMoveOn == [][db'[User].validFrom >= db[User].validFrom]_vars
=============================================================================
