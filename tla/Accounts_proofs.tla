---------------------------- MODULE Accounts_proofs ----------------------------
(***************************************************************************)
(* What TLAPS proves of Accounts, for any number of requests, devices,     *)
(* tokens, passwords and seconds.                                           *)
(***************************************************************************)
EXTENDS Accounts, FiniteSetTheorems, WellFoundedInduction, TLAPS

DeviceRows == {Device(d) : d \in Devices}

\* The rows the code can write.
Values(r) ==
    IF r = User THEN UserRow
    ELSE IF r = Sub THEN SubRow
    ELSE IF r \in DeviceRows THEN {v \in DeviceRow : v.revoked => v.there}
    ELSE TokenRow

\* The steps of a request of each kind.
StepsOf(kind) ==
    CASE kind = "none" -> {"idle"}
      [] kind \in {"login", "google"} -> {"lock", "device", "overflow", "purge", "commit"}
      [] kind = "revoke" -> {"targets", "purge", "commit"}
      [] kind = "logout" -> {"leave", "purge", "commit"}
      [] kind = "change" -> {"password", "targets", "purge", "commit"}
      [] kind = "forgot" -> {"token", "commit"}
      [] kind = "reset" -> {"targets", "purge", "spend", "commit"}
      [] kind = "signout" -> {"purge", "commit"}
      [] kind = "subscribe" -> {"endpoint", "commit"}
      [] OTHER -> {"commit"}

\* Requests that carry an access token, and those that register a device.
Carriers == {"touch", "renew", "revoke", "logout", "change", "subscribe"}
Registering(w) == job[w].kind \in {"login", "google"}
Made(w) == Registering(w) /\ at[w] \in {"overflow", "purge", "commit"}

\* What a request works with.
Carries(w) ==
    LET j == job[w]
        Has(field, S) == field \in DOMAIN j /\ j[field] \in S
    IN /\ Has("kind", Kinds \cup {"none"}) /\ at[w] \in StepsOf(j.kind)
       /\ at[w] = "idle" => tx[w] = Closed
       /\ j.kind \in {"login", "google"} \cup Carriers => Has("by", Passwords \cup {"google"})
       /\ j.kind \in Carriers \/ Made(w) => Has("device", Devices)
       /\ j.kind = "renew" \/ Made(w) => Has("issued", 1 .. MaxTime)
       /\ j.kind = "revoke" => Has("targets", SUBSET Devices)
       /\ j.kind \in {"change", "reset"} => Has("targets", {Devices})
       /\ j.kind \in {"logout", "signout"} \/ at[w] = "purge" => Has("ids", SUBSET Devices)
       /\ j.kind \in {"forgot", "reset"} => Has("token", Tokens)
       /\ j.kind = "change" => db[User].password \in Passwords

\* A session's locked rows and assigned ones.
Session(w) ==
    /\ tx[w] = [own |-> tx[w].own, dirty |-> tx[w].dirty]
    /\ Holds(w) \subseteq Rows /\ \A r \in Holds(w) : tx[w].own[r] \in Values(r)
    /\ Dirty(w) \subseteq Rows
    /\ \A r \in Dirty(w) : /\ tx[w].dirty[r].loaded \in Values(r)
                           /\ tx[w].dirty[r].assigned \in Values(r)
    /\ at[w] \in {"device", "token"} => Dirty(w) = {}

\* What a request of a kind may make of a row: nobody's tier changes, nobody and no device
\* vanishes, no device comes back.
Makes(kind, r, old, new) ==
    /\ r = User =>
          /\ new.tier = old.tier /\ (old.there => new.there)
          /\ new.there # old.there => kind \in {"register", "google"}
          /\ new.password # old.password =>
                new.password \in Passwords /\ kind \in {"register", "change", "reset"}
          /\ new.validFrom # old.validFrom => kind \in {"reset", "signout"}
    /\ r \in DeviceRows => (old.there => new.there) /\ (old.revoked => new.revoked)

Changes(w) ==
    /\ \A r \in Holds(w) : Makes(job[w].kind, r, db[r], tx[w].own[r])
    /\ \A r \in Dirty(w) :
          Makes(job[w].kind, r, tx[w].dirty[r].loaded, tx[w].dirty[r].assigned)

\* It works on devices that are stored, or with the one it has inserted.
Existing(w) ==
    /\ \A d \in Devices :
          /\ Device(d) \in Holds(w) \cup Dirty(w) =>
                db[Device(d)].there \/ (Made(w) /\ d = job[w].device)
          /\ Device(d) \in Dirty(w) =>
                /\ tx[w].dirty[Device(d)].loaded.there
                /\ tx[w].dirty[Device(d)].assigned.there
                /\ ~(Made(w) /\ d = job[w].device)
    /\ job[w].kind \in Carriers => db[Device(job[w].device)].there

\* Who signs up has not yet flushed; who registers a device has locked the user; who
\* changes the password has locked the user before the devices are listed.
Guards(w) ==
    /\ job[w].kind = "register" =>
          /\ User \notin Holds(w)
          /\ User \in Dirty(w) => /\ ~tx[w].dirty[User].loaded.there
                                  /\ tx[w].dirty[User].assigned.there
    /\ Registering(w) /\ at[w] # "lock" => User \in Holds(w) \ Dirty(w)
    /\ Made(w) => LET r == Device(job[w].device)
                  IN /\ r \in Holds(w) /\ ~db[r].there
                     /\ tx[w].own[r].there /\ ~tx[w].own[r].revoked
    /\ job[w].kind = "change" /\ at[w] \in {"purge", "commit"} => User \notin Dirty(w)
    /\ job[w].kind = "reset" => User \in Holds(w) \cup Dirty(w)
    /\ job[w].kind = "reset" /\ at[w] # "targets" => User \in Holds(w) \ Dirty(w)

\* The devices that stay signed in when w commits.
Two(S) == \E a, b : S \subseteq {a, b}
Leaves(w) ==
    /\ Registering(w) /\ at[w] \in {"purge", "commit"} /\ db[User].tier # "FREEMIUM" =>
          Two(Active(Written(w)))
    /\ job[w].kind = "change" /\ at[w] \in {"purge", "commit"} /\ User \in Holds(w) =>
          Active(Written(w)) \subseteq {job[w].device}
    /\ job[w].kind = "reset" /\ at[w] \in {"purge", "spend", "commit"} =>
          Active(Written(w)) = {}

Sound(w) ==
    Session(w) /\ Carries(w) /\ Changes(w) /\ Existing(w) /\ Guards(w) /\ Leaves(w)

\* No two transactions hold the user, or a device.
Locks ==
    \A v, w \in Workers : v # w => Holds(v) \cap Holds(w) \cap ({User} \cup DeviceRows) = {}

Typed ==
    /\ DOMAIN db = Rows /\ \A r \in Rows : db[r] \in Values(r)
    /\ DOMAIN tx = Workers /\ DOMAIN at = Workers /\ DOMAIN job = Workers
    /\ held \subseteq Claims /\ mailed \subseteq Tokens /\ spent \in [Tokens -> Nat]
    /\ now \in 1 .. MaxTime /\ mix \in Mixes

Capped == db[User].tier # "FREEMIUM" => Two(Active(db))

IInv == Typed /\ Locks /\ Capped /\ \A w \in Workers : Sound(w)

-----------------------------------------------------------------------------
(* Rows, sessions and their operators *)

\* The user, the account, the subscription, devices and tokens are rows apart.
LEMMA RowKinds ==
    /\ User \in Rows /\ Sub \in Rows /\ Account \in Rows
    /\ \A d \in Devices : Device(d) \in Rows /\ Device(d) \in DeviceRows
    /\ \A t \in Tokens : Token(t) \in Rows
    /\ User # Sub /\ User # Account /\ Sub # Account
    /\ User \notin DeviceRows /\ Sub \notin DeviceRows /\ Account \notin DeviceRows
    /\ \A t \in Tokens : Token(t) \notin {User, Sub, Account} \cup DeviceRows
    /\ \A d, e : Device(d) = Device(e) => d = e
    /\ \A t, u : Token(t) = Token(u) => t = u
    /\ \A r \in DeviceRows : \E d \in Devices : r = Device(d)
    /\ \A r \in Rows : \/ r \in {User, Sub, Account} \cup DeviceRows
                       \/ \E t \in Tokens : r = Token(t)
<1>1. User # Sub /\ User # Account /\ Sub # Account
    BY DEF User, Sub, Account
<1>2. ASSUME NEW d PROVE Device(d) \notin {User, Sub, Account}
    BY DEF User, Sub, Account, Device
<1>3. ASSUME NEW t PROVE Token(t) \notin {User, Sub, Account}
    BY DEF User, Sub, Account, Token
<1>4. ASSUME NEW d, NEW t PROVE Device(d) # Token(t)
    BY DEF Device, Token
<1>5. /\ \A d, e : Device(d) = Device(e) => d = e
      /\ \A t, u : Token(t) = Token(u) => t = u
    BY DEF Device, Token
<1>6. QED
    BY <1>1, <1>2, <1>3, <1>4, <1>5, AccountsAssumption DEF DeviceRows

LEMMA ValuesOf ==
    /\ Values(User) = UserRow /\ Values(Sub) = SubRow /\ Values(Account) = TokenRow
    /\ \A t \in Tokens : Values(Token(t)) = TokenRow
    /\ \A r \in DeviceRows : \A v :
          v \in Values(r) <=> v \in DeviceRow /\ (v.revoked => v.there)
    BY RowKinds DEF Values

LEMMA SeeIsValue ==
    ASSUME IInv, NEW w \in Workers, NEW r \in Rows
    PROVE  See(w, r) \in Values(r)
    BY DEF IInv, Typed, Sound, Session, See

\* The columns of a row written by UPDATE.
LEMMA ChangedUser ==
    ASSUME NEW now0 \in UserRow, NEW old \in UserRow, NEW new \in UserRow,
           NEW v, v = Changed(now0, old, new)
    PROVE  /\ v \in UserRow
           /\ v.there = IF new.there # old.there THEN new.there ELSE now0.there
           /\ v.active = IF new.active # old.active THEN new.active ELSE now0.active
           /\ v.password = IF new.password # old.password THEN new.password ELSE now0.password
           /\ v.validFrom = IF new.validFrom # old.validFrom THEN new.validFrom
                            ELSE now0.validFrom
           /\ v.tier = IF new.tier # old.tier THEN new.tier ELSE now0.tier
           /\ now0 = old => v = new
    BY DEF Changed, UserRow

LEMMA ChangedDevice ==
    ASSUME NEW now0 \in DeviceRow, NEW old \in DeviceRow, NEW new \in DeviceRow,
           NEW v, v = Changed(now0, old, new)
    PROVE  /\ v \in DeviceRow
           /\ v.there = IF new.there # old.there THEN new.there ELSE now0.there
           /\ v.revoked = IF new.revoked # old.revoked THEN new.revoked ELSE now0.revoked
           /\ now0 = old => v = new
    BY DEF Changed, DeviceRow

LEMMA ChangedSub ==
    ASSUME NEW now0 \in SubRow, NEW old \in SubRow, NEW new \in SubRow,
           NEW v, v = Changed(now0, old, new)
    PROVE  v \in SubRow /\ (now0 = old => v = new)
    BY DEF Changed, SubRow

LEMMA ChangedToken ==
    ASSUME NEW now0 \in TokenRow, NEW old \in TokenRow, NEW new \in TokenRow,
           NEW v, v = Changed(now0, old, new)
    PROVE  v \in TokenRow /\ (now0 = old => v = new)
    BY DEF Changed, TokenRow

LEMMA ChangedFromNow ==
    ASSUME NEW r \in Rows, NEW old \in Values(r), NEW new \in Values(r)
    PROVE  Changed(old, old, new) = new
<1>1. CASE r = User
    BY <1>1, ValuesOf, ChangedUser
<1>2. CASE r = Sub
    BY <1>2, ValuesOf, ChangedSub
<1>3. CASE r \in DeviceRows
    BY <1>3, ValuesOf, ChangedDevice
<1>4. CASE r = Account \/ \E t \in Tokens : r = Token(t)
    BY <1>4, ValuesOf, ChangedToken
<1>5. QED
    BY <1>1, <1>2, <1>3, <1>4, RowKinds

\* What w will have made of a row, from its value as stored.
LEMMA WrittenDevice ==
    ASSUME IInv, NEW w \in Workers, NEW d \in Devices, NEW v, v = Written(w)[Device(d)]
    PROVE  /\ v \in Values(Device(d))
           /\ v.there <=> (db[Device(d)].there \/ (Made(w) /\ d = job[w].device))
           /\ db[Device(d)].revoked => v.revoked
           /\ See(w, Device(d)).revoked => v.revoked
<1> DEFINE r == Device(d)
           old == tx[w].dirty[r].loaded
           new == tx[w].dirty[r].assigned
           made == Made(w) /\ d = job[w].device
<1>1. /\ Session(w) /\ Changes(w) /\ Existing(w) /\ Guards(w)
      /\ r \in Rows /\ r \in DeviceRows /\ r # User
    BY RowKinds DEF IInv, Sound
<1>2. /\ db[r] \in DeviceRow /\ (db[r].revoked => db[r].there)
      /\ See(w, r) \in DeviceRow /\ (See(w, r).revoked => See(w, r).there)
    BY <1>1, SeeIsValue, ValuesOf DEF IInv, Typed
<1>3. /\ v = IF r \in Dirty(w) THEN Changed(See(w, r), old, new) ELSE See(w, r)
    BY <1>1 DEF Written
<1>4. /\ See(w, r).there <=> db[r].there \/ made
      /\ db[r].revoked => See(w, r).revoked
    <2>1. made => /\ See(w, r).there /\ ~db[r].there /\ ~See(w, r).revoked
        BY <1>1 DEF Guards, See
    <2>2. CASE r \in Holds(w)
        <3>1. See(w, r) = tx[w].own[r]
            BY <2>2 DEF See
        <3>2. db[r].there \/ made
            BY <1>1, <2>2 DEF Existing
        <3>3. (db[r].there => See(w, r).there) /\ (db[r].revoked => See(w, r).revoked)
            BY <1>1, <2>2, <3>1 DEF Changes, Makes
        <3>4. QED
            BY <2>1, <3>2, <3>3
    <2>3. CASE r \notin Holds(w)
        <3>1. See(w, r) = db[r] /\ ~made
            BY <1>1, <2>3 DEF See, Guards
        <3>2. QED
            BY <3>1
    <2>4. QED
        BY <2>2, <2>3
<1>5. CASE r \in Dirty(w)
    <2>1. old \in DeviceRow /\ new \in DeviceRow
        BY <1>1, <1>5, ValuesOf DEF Session
    <2>2. old.there /\ new.there /\ ~made /\ (old.revoked => new.revoked)
        BY <1>1, <1>5 DEF Existing, Changes, Makes
    <2>3. /\ v \in DeviceRow
          /\ v.there = IF new.there # old.there THEN new.there ELSE See(w, r).there
          /\ v.revoked = IF new.revoked # old.revoked THEN new.revoked ELSE See(w, r).revoked
        BY <1>2, <1>3, <1>5, <2>1, ChangedDevice
    <2>4. /\ old.there \in BOOLEAN /\ new.there \in BOOLEAN /\ old.revoked \in BOOLEAN
          /\ new.revoked \in BOOLEAN /\ See(w, r).revoked \in BOOLEAN
        BY <2>1, <1>2 DEF DeviceRow
    <2>5. v.there = See(w, r).there
        BY <2>2, <2>3, <2>4
    <2>6. db[r].there
        BY <1>1, <1>5, <2>2 DEF Existing
    <2>7. v \in Values(r)
        BY <1>1, <1>4, <2>3, <2>5, <2>6, ValuesOf
    <2>8. QED
        BY <1>4, <2>2, <2>3, <2>4, <2>5, <2>6, <2>7
<1>6. CASE r \notin Dirty(w)
    BY <1>1, <1>2, <1>3, <1>4, <1>6, ValuesOf
<1>7. QED
    BY <1>5, <1>6

LEMMA WrittenUser ==
    ASSUME IInv, NEW w \in Workers, NEW v, v = Written(w)[User]
    PROVE  v \in UserRow /\ Makes(job[w].kind, User, db[User], v)
<1> DEFINE old == tx[w].dirty[User].loaded
           new == tx[w].dirty[User].assigned
<1>1. Session(w) /\ Changes(w) /\ User \in Rows /\ User \notin DeviceRows
    BY RowKinds DEF IInv, Sound
<1>2. db[User] \in UserRow /\ See(w, User) \in UserRow
    BY <1>1, SeeIsValue, ValuesOf DEF IInv, Typed
<1>3. v = IF User \in Dirty(w) THEN Changed(See(w, User), old, new) ELSE See(w, User)
    BY <1>1 DEF Written
<1>4. Makes(job[w].kind, User, db[User], See(w, User))
    BY <1>1 DEF See, Changes, Makes
<1>5. CASE User \in Dirty(w)
    <2>1. old \in UserRow /\ new \in UserRow /\ Makes(job[w].kind, User, old, new)
        BY <1>1, <1>5, ValuesOf DEF Session, Changes
    <2>2. /\ v \in UserRow
          /\ v.there = IF new.there # old.there THEN new.there ELSE See(w, User).there
          /\ v.password = IF new.password # old.password THEN new.password
                          ELSE See(w, User).password
          /\ v.validFrom = IF new.validFrom # old.validFrom THEN new.validFrom
                           ELSE See(w, User).validFrom
          /\ v.tier = IF new.tier # old.tier THEN new.tier ELSE See(w, User).tier
        BY <1>2, <1>3, <1>5, <2>1, ChangedUser
    <2>3. old.there \in BOOLEAN /\ new.there \in BOOLEAN
        BY <2>1 DEF UserRow
    <2>4. QED
        BY <1>1, <1>4, <2>1, <2>2, <2>3 DEF Makes
<1>6. CASE User \notin Dirty(w)
    BY <1>2, <1>3, <1>4, <1>6
<1>7. QED
    BY <1>5, <1>6

LEMMA WrittenValue ==
    ASSUME IInv, NEW w \in Workers, NEW r \in Rows
    PROVE  Written(w)[r] \in Values(r)
<1> DEFINE old == tx[w].dirty[r].loaded
           new == tx[w].dirty[r].assigned
<1>1. CASE r = User
    BY <1>1, WrittenUser, ValuesOf
<1>2. CASE r \in DeviceRows
    BY <1>2, WrittenDevice, RowKinds
<1>3. CASE r \notin {User} \cup DeviceRows
    <2>1. /\ See(w, r) \in Values(r) /\ Session(w)
          /\ Written(w)[r] = IF r \in Dirty(w) THEN Changed(See(w, r), old, new) ELSE See(w, r)
        BY SeeIsValue DEF Written, IInv, Sound
    <2>2. Values(r) \in {SubRow, TokenRow}
        BY <1>3, RowKinds, ValuesOf
    <2>3. QED
        BY <2>1, <2>2, ChangedSub, ChangedToken DEF Session
<1>4. QED
    BY <1>1, <1>2, <1>3

\* Devices only leave, but for the one that is inserted.
LEMMA WrittenActive ==
    ASSUME IInv, NEW w \in Workers
    PROVE  Active(Written(w)) \subseteq Active(db) \cup (IF Made(w) THEN {job[w].device} ELSE {})
<1> SUFFICES ASSUME NEW d \in Devices, Written(w)[Device(d)].there, ~Written(w)[Device(d)].revoked
             PROVE  d \in Active(db) \/ (Made(w) /\ d = job[w].device)
    BY DEF Active
<1>1. /\ db[Device(d)].there \/ (Made(w) /\ d = job[w].device)
      /\ ~db[Device(d)].revoked
    BY WrittenDevice
<1>2. QED
    BY <1>1 DEF Active

-----------------------------------------------------------------------------
(* What a statement leaves of a session *)

LEMMA OnlyIs ==
    ASSUME NEW r, NEW v
    PROVE  DOMAIN Only(r, v) = {r} /\ Only(r, v)[r] = v
    BY DEF Only

LEMMA MergeIs ==
    ASSUME NEW f, NEW g, NEW m, m = Merge(f, g)
    PROVE  /\ DOMAIN m = DOMAIN f \cup DOMAIN g
           /\ \A x \in DOMAIN f : m[x] = f[x]
           /\ \A x \in DOMAIN g \ DOMAIN f : m[x] = g[x]
    BY DEF Merge

LEMMA AssignEffect ==
    ASSUME NEW y, y = [own |-> y.own, dirty |-> y.dirty], DOMAIN y.dirty = {},
           NEW seen, NEW V, NEW x, x = Assign(y, seen, V),
           NEW changed \in SUBSET DOMAIN V,
           \A q \in DOMAIN V : q \in changed <=> V[q] # seen[q]
    PROVE  /\ x = [own |-> x.own, dirty |-> x.dirty] /\ x.own = y.own
           /\ DOMAIN x.dirty = changed
           /\ \A r \in changed : x.dirty[r].loaded = seen[r] /\ x.dirty[r].assigned = V[r]
    BY DEF Assign

LEMMA LockEffect ==
    ASSUME NEW y, y = [own |-> y.own, dirty |-> y.dirty], NEW V, NEW x, x = Locked(y, V)
    PROVE  /\ x = [own |-> x.own, dirty |-> x.dirty] /\ x.dirty = y.dirty
           /\ DOMAIN x.own = DOMAIN y.own \cup DOMAIN V
           /\ \A r \in DOMAIN V : x.own[r] = V[r]
           /\ \A r \in DOMAIN y.own \ DOMAIN V : x.own[r] = y.own[r]
    BY DEF Locked

\* A session of w's and nothing else changes.
Local(w) ==
    /\ UNCHANGED db /\ DOMAIN tx' = Workers
    /\ \A v \in Workers \ {w} : tx'[v] = tx[v]
    /\ tx'[w] = [own |-> tx'[w].own, dirty |-> tx'[w].dirty]

\* The rows that V changes.
Differs(w, V) == {r \in DOMAIN V : V[r] # See(w, r)}

\* Nothing is left to flush, and V is assigned.
PutsOn(w, V) ==
    /\ UNCHANGED db /\ Dirty(w) = {} /\ Put(w, V)
    /\ \A r \in DOMAIN V : r \in Rows /\ V[r] \in Values(r)

LEMMA PutEffect ==
    ASSUME IInv, NEW w \in Workers, NEW V, PutsOn(w, V)
    PROVE  /\ Local(w) /\ tx'[w].own = tx[w].own /\ Holds(w)' = Holds(w)
           /\ Dirty(w)' = Differs(w, V)
           /\ \A r \in Dirty(w)' : /\ r \in DOMAIN V
                                   /\ tx'[w].dirty[r].loaded = See(w, r)
                                   /\ tx'[w].dirty[r].assigned = V[r]
           /\ \A r \in Rows : Written(w)[r] = See(w, r)
           /\ \A r \in DOMAIN V : Written(w)'[r] = V[r]
           /\ \A r \in Rows \ DOMAIN V : Written(w)'[r] = See(w, r)
<1> USE DEF PutsOn
<1> DEFINE seen == [r \in DOMAIN V |-> See(w, r)]
           changed == Differs(w, V)
<1>1. /\ tx'[w] = Assign(tx[w], seen, V)
      /\ DOMAIN tx' = Workers /\ \A v \in Workers \ {w} : tx'[v] = tx[v]
    BY DEF Put, IInv, Typed
<1>2. DOMAIN tx[w].dirty = {} /\ tx[w] = [own |-> tx[w].own, dirty |-> tx[w].dirty]
    BY DEF Dirty, IInv, Sound, Session
<1>3. /\ changed \in SUBSET DOMAIN V
      /\ \A q \in DOMAIN V : q \in changed <=> V[q] # seen[q]
      /\ \A r \in changed : seen[r] = See(w, r)
      /\ \A r \in DOMAIN V \ changed : V[r] = See(w, r)
    BY DEF Differs
<1> HIDE DEF seen, changed
<1>4. /\ tx'[w] = [own |-> tx'[w].own, dirty |-> tx'[w].dirty] /\ tx'[w].own = tx[w].own
      /\ DOMAIN tx'[w].dirty = changed
      /\ \A r \in changed : /\ tx'[w].dirty[r].loaded = seen[r]
                            /\ tx'[w].dirty[r].assigned = V[r]
    BY <1>1, <1>2, <1>3, AssignEffect
<1>5. Holds(w)' = Holds(w) /\ Dirty(w)' = changed
    BY <1>4 DEF Holds, Dirty
<1>6. \A r \in changed : /\ r \in DOMAIN V
                         /\ tx'[w].dirty[r].loaded = See(w, r)
                         /\ tx'[w].dirty[r].assigned = V[r]
    BY <1>3, <1>4
<1>7. \A r \in Rows : See(w, r)' = See(w, r)
    BY <1>4, <1>5 DEF See
<1>8. \A r \in Rows : Written(w)[r] = See(w, r)
    BY DEF Written
<1>9. ASSUME NEW r \in Rows
      PROVE  Written(w)'[r] = IF r \in changed
                              THEN Changed(See(w, r), tx'[w].dirty[r].loaded, tx'[w].dirty[r].assigned)
                              ELSE See(w, r)
    BY <1>5, <1>7 DEF Written
<1>10. ASSUME NEW r \in DOMAIN V PROVE Written(w)'[r] = V[r]
    <2>1. r \in Rows /\ V[r] \in Values(r) /\ See(w, r) \in Values(r)
        BY SeeIsValue
    <2>2. Changed(See(w, r), See(w, r), V[r]) = V[r]
        BY <2>1, ChangedFromNow
    <2>3. QED
        BY <1>3, <1>6, <1>9, <2>1, <2>2
<1>11. \A r \in Rows \ DOMAIN V : Written(w)'[r] = See(w, r)
    BY <1>3, <1>9
<1>12. Local(w)
    BY <1>1, <1>4 DEF Local
<1>13. QED
    BY <1>4, <1>5, <1>6, <1>8, <1>10, <1>11, <1>12 DEF changed

\* Nothing is left to flush, and V is written.
WritesTo(w, V) ==
    /\ UNCHANGED db /\ Dirty(w) = {} /\ Write(w, V)
    /\ \A r \in DOMAIN V : r \in Rows /\ V[r] \in Values(r)

LEMMA WriteEffect ==
    ASSUME IInv, NEW w \in Workers, NEW V, WritesTo(w, V)
    PROVE  /\ Local(w) /\ Holds(w)' = Holds(w) \cup DOMAIN V /\ Dirty(w)' = {}
           /\ \A r \in DOMAIN V : tx'[w].own[r] = V[r] /\ Written(w)'[r] = V[r]
           /\ \A r \in Holds(w) \ DOMAIN V : tx'[w].own[r] = tx[w].own[r]
           /\ \A r \in Rows : Written(w)[r] = See(w, r)
           /\ \A r \in Rows \ DOMAIN V : Written(w)'[r] = See(w, r)
<1> USE DEF WritesTo
<1>1. /\ tx'[w] = Locked(tx[w], V)
      /\ DOMAIN tx' = Workers /\ \A v \in Workers \ {w} : tx'[v] = tx[v]
    BY DEF Write, IInv, Typed
<1>2. tx[w] = [own |-> tx[w].own, dirty |-> tx[w].dirty]
    BY DEF IInv, Sound, Session
<1>3. /\ tx'[w] = [own |-> tx'[w].own, dirty |-> tx'[w].dirty]
      /\ tx'[w].dirty = tx[w].dirty
      /\ DOMAIN tx'[w].own = DOMAIN tx[w].own \cup DOMAIN V
      /\ \A r \in DOMAIN V : tx'[w].own[r] = V[r]
      /\ \A r \in DOMAIN tx[w].own \ DOMAIN V : tx'[w].own[r] = tx[w].own[r]
    BY <1>1, <1>2, LockEffect
<1>4. /\ Holds(w)' = Holds(w) \cup DOMAIN V /\ Dirty(w)' = {}
      /\ \A r \in Holds(w) \ DOMAIN V : tx'[w].own[r] = tx[w].own[r]
    BY <1>3 DEF Holds, Dirty
<1>5. \A r \in Rows : See(w, r)' = IF r \in DOMAIN V THEN V[r] ELSE See(w, r)
    BY <1>3, <1>4 DEF See
<1>6. \A r \in Rows : Written(w)[r] = See(w, r) /\ Written(w)'[r] = See(w, r)'
    BY <1>4 DEF Written
<1>7. QED
    BY <1>1, <1>3, <1>4, <1>5, <1>6 DEF Local

LEMMA FlushEffect ==
    ASSUME IInv, NEW w \in Workers, Flush(w)
    PROVE  /\ Local(w) /\ Holds(w)' = Holds(w) \cup Dirty(w) /\ Dirty(w)' = {}
           /\ \A r \in Holds(w)' : tx'[w].own[r] = Written(w)[r]
           /\ \A r \in Rows : Written(w)'[r] = Written(w)[r]
<1>1. /\ tx'[w] = FlushedAll(w) /\ UNCHANGED db
      /\ DOMAIN tx' = Workers /\ \A v \in Workers \ {w} : tx'[v] = tx[v]
    BY DEF Flush, IInv, Typed
<1>2. Holds(w) \subseteq Rows /\ Dirty(w) \subseteq Rows
    BY DEF IInv, Sound, Session
<1>3. /\ tx'[w].own = [r \in Holds(w) \cup Dirty(w) |-> Written(w)[r]]
      /\ tx'[w].dirty = <<>> /\ tx'[w] = [own |-> tx'[w].own, dirty |-> tx'[w].dirty]
    BY <1>1 DEF FlushedAll
<1>4. Holds(w)' = Holds(w) \cup Dirty(w) /\ Dirty(w)' = {}
    BY <1>3 DEF Holds, Dirty
<1>5. \A r \in Holds(w)' : tx'[w].own[r] = Written(w)[r]
    BY <1>3, <1>4
<1>6. ASSUME NEW r \in Rows PROVE Written(w)'[r] = Written(w)[r]
    <2>1. Written(w)'[r] = See(w, r)'
        BY <1>4 DEF Written
    <2>2. CASE r \in Holds(w) \cup Dirty(w)
        BY <2>1, <2>2, <1>4, <1>5 DEF See
    <2>3. CASE r \notin Holds(w) \cup Dirty(w)
        BY <2>1, <2>3, <1>1, <1>4 DEF See, Written
    <2>4. QED
        BY <2>2, <2>3
<1>7. QED
    BY <1>1, <1>3, <1>4, <1>5, <1>6 DEF Local

\* One row is assigned from what was loaded before, whatever there is to flush.
LEMMA ReputEffect ==
    ASSUME IInv, NEW w \in Workers, NEW r \in Rows, NEW old, NEW new, UNCHANGED db,
           PutLoaded(w, Only(r, old), Only(r, new))
    PROVE  /\ Local(w) /\ tx'[w].own = tx[w].own /\ Holds(w)' = Holds(w)
           /\ Dirty(w)' = Dirty(w) \cup (IF new = old THEN {} ELSE {r})
           /\ \A q \in Dirty(w) : q # r \/ new = old => tx'[w].dirty[q] = tx[w].dirty[q]
           /\ new # old =>
                 /\ tx'[w].dirty[r].assigned = new
                 /\ tx'[w].dirty[r].loaded = IF r \in Dirty(w) THEN tx[w].dirty[r].loaded ELSE old
           /\ \A q \in Rows \ {r} : Written(w)'[q] = Written(w)[q]
<1> DEFINE y == tx[w]
           x == tx'[w]
<1>1. /\ x = Assign(y, Only(r, old), Only(r, new))
      /\ DOMAIN tx' = Workers /\ \A v \in Workers \ {w} : tx'[v] = tx[v]
      /\ y = [own |-> y.own, dirty |-> y.dirty]
    BY DEF PutLoaded, IInv, Typed, Sound, Session
<1> HIDE DEF x, y
<1>2. /\ x = [own |-> x.own, dirty |-> x.dirty] /\ x.own = y.own
      /\ DOMAIN x.dirty = DOMAIN y.dirty \cup (IF new = old THEN {} ELSE {r})
      /\ \A q \in DOMAIN y.dirty : q # r \/ new = old => x.dirty[q] = y.dirty[q]
      /\ new # old =>
            /\ x.dirty[r].assigned = new
            /\ x.dirty[r].loaded = IF r \in DOMAIN y.dirty THEN y.dirty[r].loaded ELSE old
    <2>1. DOMAIN Only(r, new) = {r} /\ Only(r, new)[r] = new /\ Only(r, old)[r] = old
        BY OnlyIs
    <2> DEFINE assigned == {q \in DOMAIN Only(r, new) : Only(r, new)[q] # Only(r, old)[q]}
    <2>2. assigned = IF new = old THEN {} ELSE {r}
        BY <2>1
    <2>3. x = [y EXCEPT !.dirty =
                 [q \in assigned \cup DOMAIN y.dirty |->
                    IF q \notin assigned THEN y.dirty[q]
                    ELSE [loaded |-> IF q \in DOMAIN y.dirty THEN y.dirty[q].loaded
                                     ELSE Only(r, old)[q],
                          assigned |-> Only(r, new)[q]]]]
        BY <1>1 DEF Assign
    <2> HIDE DEF assigned
    <2>4. x.own = y.own /\ x = [own |-> x.own, dirty |-> x.dirty]
        BY <1>1, <2>3
    <2>5. x.dirty = [q \in assigned \cup DOMAIN y.dirty |->
                       IF q \notin assigned THEN y.dirty[q]
                       ELSE [loaded |-> IF q \in DOMAIN y.dirty THEN y.dirty[q].loaded
                                        ELSE Only(r, old)[q],
                             assigned |-> Only(r, new)[q]]]
        BY <1>1, <2>3
    <2>6. QED
        BY <2>1, <2>2, <2>4, <2>5
<1>3. /\ Holds(w)' = Holds(w) /\ Dirty(w) = DOMAIN y.dirty /\ Dirty(w)' = DOMAIN x.dirty
    BY <1>2 DEF Holds, Dirty, x, y
<1>4. ASSUME NEW q \in Rows \ {r} PROVE Written(w)'[q] = Written(w)[q]
    <2>1. See(w, q)' = See(w, q)
        BY <1>2, <1>3 DEF See, x, y
    <2>2. q \in Dirty(w)' <=> q \in Dirty(w)
        BY <1>2, <1>3
    <2>3. q \in Dirty(w) => tx'[w].dirty[q] = tx[w].dirty[q]
        BY <1>2, <1>3 DEF x, y
    <2>4. QED
        BY <2>1, <2>2, <2>3 DEF Written
<1>5. Local(w)
    BY <1>1, <1>2 DEF Local, x, y
<1>6. QED
    BY <1>2, <1>3, <1>4, <1>5 DEF x, y

-----------------------------------------------------------------------------
(* Steps that change one session and nothing stored *)

\* What every step leaves typed.
Answers ==
    /\ held' \subseteq Claims /\ mailed' \subseteq Tokens /\ spent' \in [Tokens -> Nat]
    /\ now' \in 1 .. MaxTime /\ mix' \in Mixes

\* Where a worker is, and with what.
Moves(w) ==
    /\ DOMAIN at' = Workers /\ DOMAIN job' = Workers
    /\ \A v \in Workers \ {w} : at'[v] = at[v] /\ job'[v] = job[v]

LEMMA LocalKeeps ==
    ASSUME IInv, NEW w \in Workers, Local(w), Moves(w), Answers, Sound(w)',
           \A r \in (Holds(w)' \ Holds(w)) \cap ({User} \cup DeviceRows) : FreeFor(w, r)
    PROVE  IInv'
<1> USE DEF Local, Moves, Answers
<1>1. \A v \in Workers \ {w} : Holds(v)' = Holds(v) /\ Dirty(v)' = Dirty(v)
    BY DEF Holds, Dirty
<1>2. Typed' /\ Capped'
    BY DEF IInv, Typed, Capped
<1>3. Locks'
    BY <1>1 DEF IInv, Locks, FreeFor
<1>4. ASSUME NEW v \in Workers \ {w} PROVE Sound(v)'
    <2>1. Sound(v) /\ Holds(v)' = Holds(v) /\ Dirty(v)' = Dirty(v)
        BY <1>1 DEF IInv
    <2>2. Written(v)' = Written(v)
        BY <2>1 DEF Written, See
    <2>3. Made(v)' <=> Made(v)
        BY DEF Made, Registering
    <2>4. Session(v)' /\ Changes(v)'
        BY <2>1 DEF Sound, Session, Changes
    <2>5. Carries(v)'
        BY <2>1, <2>3 DEF Sound, Carries
    <2>6. Existing(v)'
        BY <2>1, <2>3 DEF Sound, Existing
    <2>7. Guards(v)'
        BY <2>1, <2>3 DEF Sound, Guards, Registering
    <2>8. Leaves(v)'
        BY <2>1, <2>2 DEF Sound, Leaves, Registering
    <2>9. QED
        BY <2>4, <2>5, <2>6, <2>7, <2>8 DEF Sound
<1>5. QED
    BY <1>2, <1>3, <1>4 DEF IInv

\* The request goes on, or another begins.
Continues(w) ==
    \/ Holds(w) = {}
    \/ /\ job'[w].kind = job[w].kind
       /\ Made(w) => Made(w)' /\ job'[w].device = job[w].device

LEMMA PutKeeps ==
    ASSUME IInv, NEW w \in Workers, NEW V, PutsOn(w, V), Moves(w), Answers, Continues(w),
           \A r \in DOMAIN V : Makes(job'[w].kind, r, See(w, r), V[r]),
           \A d \in Devices : Device(d) \in DOMAIN V =>
              See(w, Device(d)).there /\ V[Device(d)].there /\ ~(Made(w)' /\ d = job'[w].device),
           at'[w] \notin {"device", "token"},
           job'[w].kind \in Carriers => db[Device(job'[w].device)].there,
           Carries(w)', Guards(w)', Leaves(w)'
    PROVE  IInv'
<1>1. /\ Local(w) /\ tx'[w].own = tx[w].own /\ Holds(w)' = Holds(w)
      /\ Dirty(w)' = Differs(w, V)
      /\ \A r \in Dirty(w)' : /\ r \in DOMAIN V
                              /\ tx'[w].dirty[r].loaded = See(w, r)
                              /\ tx'[w].dirty[r].assigned = V[r]
    BY PutEffect
<1>2. Sound(w) /\ \A r \in DOMAIN V : r \in Rows /\ V[r] \in Values(r)
    BY DEF IInv, PutsOn
<1>3. \A r \in DOMAIN V : See(w, r) \in Values(r)
    BY <1>2, SeeIsValue
<1>4. Session(w)'
    BY <1>1, <1>2, <1>3 DEF Sound, Session, Local
<1>5. Changes(w)'
    BY <1>1, <1>2 DEF Sound, Changes, Local, Continues
<1>6. Existing(w)'
    <2>1. ASSUME NEW d \in Devices, Device(d) \in Holds(w)
          PROVE  db[Device(d)].there \/ (Made(w)' /\ d = job'[w].device)
        BY <1>2, <2>1 DEF Sound, Existing, Continues
    <2>2. ASSUME NEW d \in Devices, Device(d) \in DOMAIN V
          PROVE  db[Device(d)].there \/ (Made(w)' /\ d = job'[w].device)
        <3>1. See(w, Device(d)).there
            BY <2>2
        <3>2. CASE Device(d) \in Holds(w)
            BY <2>1, <3>2
        <3>3. CASE Device(d) \notin Holds(w)
            BY <3>1, <3>3 DEF See
        <3>4. QED
            BY <3>2, <3>3
    <2>3. QED
        BY <1>1, <2>1, <2>2 DEF Existing, Local
<1>7. Sound(w)'
    BY <1>4, <1>5, <1>6 DEF Sound
<1>8. QED
    BY <1>1, <1>7, LocalKeeps

LEMMA WriteKeeps ==
    ASSUME IInv, NEW w \in Workers, NEW V, WritesTo(w, V), Moves(w), Answers, Continues(w),
           \A r \in DOMAIN V \cap ({User} \cup DeviceRows) : FreeFor(w, r),
           \A r \in DOMAIN V : Makes(job'[w].kind, r, db[r], V[r]),
           \A d \in Devices : Device(d) \in DOMAIN V =>
              db[Device(d)].there \/ (Made(w)' /\ d = job'[w].device),
           job'[w].kind \in Carriers => db[Device(job'[w].device)].there,
           Carries(w)', Guards(w)', Leaves(w)'
    PROVE  IInv'
<1>1. /\ Local(w) /\ Holds(w)' = Holds(w) \cup DOMAIN V /\ Dirty(w)' = {}
      /\ \A r \in DOMAIN V : tx'[w].own[r] = V[r]
      /\ \A r \in Holds(w) \ DOMAIN V : tx'[w].own[r] = tx[w].own[r]
    BY WriteEffect
<1>2. Sound(w) /\ \A r \in DOMAIN V : r \in Rows /\ V[r] \in Values(r)
    BY DEF IInv, WritesTo
<1>3. Session(w)'
    BY <1>1, <1>2 DEF Sound, Session, Local
<1>4. Changes(w)'
    BY <1>1, <1>2 DEF Sound, Changes, Local, Continues
<1>5. Existing(w)'
    <2>1. ASSUME NEW d \in Devices, Device(d) \in Holds(w)
          PROVE  db[Device(d)].there \/ (Made(w)' /\ d = job'[w].device)
        BY <1>2, <2>1 DEF Sound, Existing, Continues
    <2>2. QED
        BY <1>1, <2>1 DEF Existing, Local
<1>6. Sound(w)'
    BY <1>3, <1>4, <1>5 DEF Sound
<1>7. QED
    BY <1>1, <1>6, LocalKeeps

\* No conflict: what was assigned is written to the row it was loaded from.
LEMMA FlushKeeps ==
    ASSUME IInv, NEW w \in Workers, Flush(w), Quiet
    PROVE  IInv'
<1>1. /\ Local(w) /\ Holds(w)' = Holds(w) \cup Dirty(w) /\ Dirty(w)' = {}
      /\ \A r \in Holds(w)' : tx'[w].own[r] = Written(w)[r]
      /\ \A r \in Rows : Written(w)'[r] = Written(w)[r]
    BY FlushEffect
<1>2. /\ Sound(w) /\ UNCHANGED <<at, job>> /\ at[w] # "commit" /\ Dirty(w) # {}
      /\ \A r \in Dirty(w) : FreeFor(w, r)
    BY DEF IInv, Flush, Flushing, FreeAll
<1>3. Moves(w) /\ Answers
    BY <1>2 DEF Moves, Answers, IInv, Typed, Quiet
<1>4. Holds(w)' \subseteq Rows
    BY <1>1, <1>2 DEF Sound, Session
<1>5. Session(w)'
    <2>1. \A r \in Holds(w)' : tx'[w].own[r] \in Values(r)
        BY <1>1, <1>4, WrittenValue
    <2>2. QED
        BY <2>1, <1>1, <1>2, <1>4 DEF Session, Local
<1>6. Carries(w)'
    <2>1. at[w] # "idle" /\ (Made(w)' <=> Made(w))
        BY <1>2 DEF Sound, Carries, Dirty, Closed, Made, Registering
    <2>2. QED
        BY <2>1, <1>1, <1>2 DEF Sound, Carries, Local
<1>7. Changes(w)'
    <2>1. ASSUME NEW r \in Holds(w)' PROVE Makes(job[w].kind, r, db[r], tx'[w].own[r])
        <3>1. tx'[w].own[r] = Written(w)[r]
            BY <1>1
        <3>2. CASE r = User
            BY <3>1, <3>2, WrittenUser
        <3>3. CASE r \in DeviceRows
            <4>1. PICK d \in Devices : r = Device(d)
                BY <3>3, RowKinds
            <4>2. QED
                BY <3>1, <3>3, <4>1, WrittenDevice, RowKinds DEF Makes
        <3>4. CASE r # User /\ r \notin DeviceRows
            BY <3>4 DEF Makes
        <3>5. QED
            BY <3>2, <3>3, <3>4
    <2>2. QED
        BY <2>1, <1>1, <1>2 DEF Changes, Local
<1>8. Existing(w)'
    BY <1>1, <1>2 DEF Sound, Existing, Local, Made, Registering
<1>9. Guards(w)'
    <2>1. job[w].kind # "register"
        BY <1>2 DEF Sound, Carries, StepsOf
    <2>2. ASSUME Made(w), NEW r, r = Device(job[w].device)
          PROVE  r \in Holds(w)' /\ ~db[r].there /\ tx'[w].own[r].there /\ ~tx'[w].own[r].revoked
        <3>1. r \in Holds(w) /\ ~db[r].there /\ tx[w].own[r].there /\ ~tx[w].own[r].revoked
            BY <1>2, <2>2 DEF Sound, Guards
        <3>2. job[w].device \in Devices /\ r \in Rows
            BY <1>2, <2>2, RowKinds DEF Sound, Carries
        <3>3. r \notin Dirty(w)
            BY <1>2, <2>2, <3>2 DEF Sound, Existing
        <3>4. tx'[w].own[r] = tx[w].own[r]
            BY <1>1, <3>1, <3>2, <3>3 DEF Written, See
        <3>5. QED
            BY <1>1, <3>1, <3>4
    <2>3. QED
        BY <2>1, <2>2, <1>1, <1>2 DEF Sound, Guards, Local, Made, Registering
<1>10. Leaves(w)'
    <2>1. \A d \in Devices : Written(w)'[Device(d)] = Written(w)[Device(d)]
        BY <1>1, RowKinds
    <2>2. Active(Written(w))' = Active(Written(w))
        BY <2>1 DEF Active
    <2>3. User \in Holds(w)' /\ job[w].kind = "change" /\ at[w] \in {"purge", "commit"}
             => User \in Holds(w)
        BY <1>1, <1>2 DEF Sound, Guards
    <2>4. QED
        BY <1>1, <1>2, <2>2, <2>3 DEF Sound, Leaves, Local, Registering
<1>11. Sound(w)'
    BY <1>5, <1>6, <1>7, <1>8, <1>9, <1>10 DEF Sound
<1>12. QED
    BY <1>1, <1>2, <1>3, <1>11, LocalKeeps

-----------------------------------------------------------------------------
(* Requests that begin *)

LEMMA BeginEffect ==
    ASSUME IInv, NEW w \in Workers, NEW kind, NEW values, NEW step, Begin(w, kind, values, step)
    PROVE  /\ Holds(w) = {} /\ Dirty(w) = {} /\ at[w] = "idle" /\ kind \in mix
           /\ \A r : See(w, r) = db[r]
           /\ Moves(w) /\ at'[w] = step /\ Continues(w)
           /\ DOMAIN job'[w] = DOMAIN values \cup {"kind"}
           /\ \A x \in DOMAIN values : job'[w][x] = values[x]
           /\ "kind" \notin DOMAIN values => job'[w].kind = kind
<1>1. at[w] = "idle" /\ tx[w] = Closed /\ kind \in mix
    BY DEF IInv, Sound, Carries, Begin, MayBegin
<1>2. Holds(w) = {} /\ Dirty(w) = {}
    BY <1>1 DEF Holds, Dirty, Closed
<1>3. /\ Moves(w) /\ at'[w] = step /\ job'[w] = Merge(values, [kind |-> kind])
    BY DEF Begin, Goto, Keep, Moves, IInv, Typed
<1>4. /\ DOMAIN job'[w] = DOMAIN values \cup {"kind"}
      /\ \A x \in DOMAIN values : job'[w][x] = values[x]
      /\ "kind" \notin DOMAIN values => job'[w].kind = kind
    BY <1>3 DEF Merge
<1>5. QED
    BY <1>1, <1>2, <1>3, <1>4 DEF See, Continues

\* Steps that only say what the request does next.
LEMMA StillKeeps ==
    ASSUME IInv, NEW w \in Workers, UNCHANGED <<db, tx>>, Moves(w), Answers, Continues(w),
           Dirty(w) = {},
           job'[w].kind \in Carriers => db[Device(job'[w].device)].there,
           Carries(w)', Guards(w)', Leaves(w)'
    PROVE  IInv'
<1>1. Sound(w) /\ Local(w) /\ Holds(w)' = Holds(w) /\ Dirty(w)' = Dirty(w)
    BY DEF IInv, Typed, Sound, Session, Local, Holds, Dirty
<1>2. Session(w)' /\ Changes(w)' /\ Existing(w)'
    BY <1>1 DEF Sound, Session, Changes, Existing, Continues
<1>3. QED
    BY <1>1, <1>2, LocalKeeps DEF Sound

LEMMA QuietAnswers == ASSUME IInv, Quiet PROVE Answers
    BY DEF IInv, Typed, Quiet, Answers

LEMMA UserIsValue ==
    ASSUME IInv
    PROVE  /\ db[User] \in UserRow /\ User \in Rows
           /\ \A w \in Workers : See(w, User) \in UserRow
           /\ now \in 1 .. MaxTime /\ now \in 0 .. MaxTime /\ mix \subseteq Kinds \cup {"serial"}
    BY RowKinds, ValuesOf, SeeIsValue, AccountsAssumption DEF IInv, Typed

LEMMA RegisterKeeps ==
    ASSUME IInv, NEW w \in Workers, Register(w)
    PROVE  IInv'
<1>1. PICK p \in Passwords :
          Put(w, Only(User, [db[User] EXCEPT !.there = TRUE, !.active = TRUE, !.password = p]))
    BY DEF Register
<1> DEFINE new == [db[User] EXCEPT !.there = TRUE, !.active = TRUE, !.password = p]
           V == Only(User, new)
<1>2. /\ Holds(w) = {} /\ Dirty(w) = {} /\ \A r : See(w, r) = db[r]
      /\ Moves(w) /\ at'[w] = "commit" /\ Continues(w)
      /\ job'[w].kind = "register" /\ "kind" \in DOMAIN job'[w]
    BY BeginEffect DEF Register
<1>3. /\ db[User] \in UserRow /\ User \in Rows /\ ~db[User].there /\ UNCHANGED db
      /\ Answers
    BY UserIsValue, QuietAnswers DEF Register
<1>4. /\ new \in UserRow /\ new.there /\ new.tier = db[User].tier /\ new.password \in Passwords
      /\ new.validFrom = db[User].validFrom
    BY <1>3 DEF UserRow
<1>5. DOMAIN V = {User} /\ V[User] = new /\ Put(w, V)
    BY <1>1, OnlyIs
<1> HIDE DEF new, V
<1>6. PutsOn(w, V)
    BY <1>2, <1>3, <1>4, <1>5, ValuesOf DEF PutsOn
<1>7. \A r \in DOMAIN V : Makes("register", r, See(w, r), V[r])
    BY <1>2, <1>3, <1>4, <1>5, RowKinds DEF Makes
<1>8. \A d \in Devices : Device(d) \notin DOMAIN V
    BY <1>5, RowKinds
<1>9. Carries(w)'
    BY <1>2 DEF Carries, StepsOf, Carriers, Kinds, Made, Registering
<1>10. Guards(w)'
    <2>1. /\ Holds(w)' = {}
          /\ User \in Dirty(w)' => /\ tx'[w].dirty[User].loaded = db[User]
                                   /\ tx'[w].dirty[User].assigned = new
        BY <1>2, <1>5, <1>6, PutEffect
    <2>2. QED
        BY <2>1, <1>2, <1>3, <1>4 DEF Guards, Made, Registering
<1>11. Leaves(w)'
    BY <1>2 DEF Leaves, Registering
<1>12. QED
    BY <1>2, <1>3, <1>6, <1>7, <1>8, <1>9, <1>10, <1>11, PutKeeps DEF Carriers

LEMMA LoginKeeps ==
    ASSUME IInv, NEW w \in Workers, Login(w)
    PROVE  IInv'
<1> DEFINE values == [by |-> db[User].password]
<1>1. /\ Begin(w, "login", values, "lock") /\ UNCHANGED <<db, tx>> /\ Answers
      /\ db[User].password # "none"
    BY QuietAnswers DEF Login
<1>2. DOMAIN values = {"by"} /\ values["by"] \in Passwords
    BY <1>1, UserIsValue DEF UserRow
<1> HIDE DEF values
<1>3. /\ Holds(w) = {} /\ Dirty(w) = {} /\ Moves(w) /\ at'[w] = "lock" /\ Continues(w)
      /\ job'[w].kind = "login" /\ DOMAIN job'[w] = {"by", "kind"} /\ job'[w].by \in Passwords
    BY <1>1, <1>2, BeginEffect
<1>4. Carries(w)'
    BY <1>3 DEF Carries, StepsOf, Carriers, Kinds, Made, Registering
<1>5. Guards(w)' /\ Leaves(w)'
    BY <1>3 DEF Guards, Leaves, Made, Registering
<1>6. QED
    BY <1>1, <1>3, <1>4, <1>5, StillKeeps DEF Carriers

LEMMA ForgotKeeps ==
    ASSUME IInv, NEW w \in Workers, NEW t \in Tokens, Forgot(w, t)
    PROVE  IInv'
<1> DEFINE values == [token |-> t]
<1>1. Begin(w, "forgot", values, "token") /\ UNCHANGED <<db, tx>> /\ Answers
    BY QuietAnswers DEF Forgot
<1>2. DOMAIN values = {"token"} /\ values["token"] = t
    OBVIOUS
<1> HIDE DEF values
<1>3. /\ Holds(w) = {} /\ Dirty(w) = {} /\ Moves(w) /\ at'[w] = "token" /\ Continues(w)
      /\ job'[w].kind = "forgot" /\ DOMAIN job'[w] = {"token", "kind"} /\ job'[w].token = t
    BY <1>1, <1>2, BeginEffect
<1>4. Carries(w)'
    BY <1>3 DEF Carries, StepsOf, Carriers, Kinds, Made, Registering
<1>5. Guards(w)' /\ Leaves(w)'
    BY <1>3 DEF Guards, Leaves, Made, Registering
<1>6. QED
    BY <1>1, <1>3, <1>4, <1>5, StillKeeps DEF Carriers

\* What GoogleSignInService assigns: the user's row where there was none, and the account.
LEMMA GooglePuts ==
    ASSUME IInv, NEW w \in Workers, Google(w)
    PROVE  \E V : /\ Put(w, V) /\ DOMAIN V \subseteq {User, Account}
                  /\ User \in DOMAIN V => V[User] \in UserRow /\ V[User].there
                                        /\ Makes("google", User, db[User], V[User])
                  /\ User \notin DOMAIN V => db[User].there
                  /\ Account \in DOMAIN V => V[Account] \in TokenRow
<1> DEFINE new == [db[User] EXCEPT !.there = TRUE, !.active = TRUE]
           linked == [there |-> TRUE]
           f == Only(User, new)
           g == Only(Account, linked)
<1>1. db[User] \in UserRow /\ Account # User
    BY UserIsValue, RowKinds
<1>2. new \in UserRow /\ new.there /\ linked \in TokenRow
    BY <1>1 DEF UserRow, TokenRow
<1>3. Makes("google", User, db[User], new)
    <2>1. /\ new.tier = db[User].tier /\ new.password = db[User].password
          /\ new.validFrom = db[User].validFrom
        BY <1>1 DEF UserRow
    <2>2. QED
        BY <1>2, <2>1, RowKinds DEF Makes
<1>4. DOMAIN f = {User} /\ f[User] = new /\ DOMAIN g = {Account} /\ g[Account] = linked
    BY OnlyIs
<1>5. CASE db[User].there
    <2>1. Put(w, g)
        BY <1>5 DEF Google
    <2> HIDE DEF linked, new, f, g
    <2>2. QED
        BY <1>1, <1>2, <1>3, <1>4, <1>5, <2>1
<1>6. CASE ~db[User].there
    <2> DEFINE V == Merge(f, g)
    <2>1. Put(w, V)
        BY <1>6 DEF Google
    <2> HIDE DEF linked, new, f, g
    <2>2. DOMAIN V = {User, Account} /\ V[User] = new /\ V[Account] = linked
        BY <1>1, <1>4 DEF Merge
    <2> HIDE DEF V
    <2>3. QED
        BY <1>2, <1>3, <2>1, <2>2
<1>7. QED
    BY <1>5, <1>6

LEMMA GoogleKeeps ==
    ASSUME IInv, NEW w \in Workers, Google(w)
    PROVE  IInv'
<1> DEFINE values == [by |-> "google"]
<1>1. Begin(w, "google", values, "lock") /\ UNCHANGED db /\ Answers
    BY QuietAnswers DEF Google
<1>2. DOMAIN values = {"by"} /\ values["by"] = "google"
    OBVIOUS
<1> HIDE DEF values
<1>3. PICK V : /\ Put(w, V) /\ DOMAIN V \subseteq {User, Account}
               /\ User \in DOMAIN V => V[User] \in UserRow
                                     /\ Makes("google", User, db[User], V[User])
               /\ Account \in DOMAIN V => V[Account] \in TokenRow
    BY GooglePuts
<1>4. /\ Holds(w) = {} /\ Dirty(w) = {} /\ \A r : See(w, r) = db[r]
      /\ Moves(w) /\ at'[w] = "lock" /\ Continues(w)
      /\ job'[w].kind = "google" /\ DOMAIN job'[w] = {"by", "kind"} /\ job'[w].by = "google"
    BY <1>1, <1>2, BeginEffect
<1>5. PutsOn(w, V)
    BY <1>1, <1>3, <1>4, RowKinds, ValuesOf DEF PutsOn
<1>6. \A r \in DOMAIN V : Makes("google", r, See(w, r), V[r])
    <2>1. \A old, new : Makes("google", Account, old, new)
        BY RowKinds DEF Makes
    <2>2. QED
        BY <2>1, <1>3, <1>4
<1>7. \A d \in Devices : Device(d) \notin DOMAIN V
    BY <1>3, RowKinds
<1>8. Carries(w)'
    BY <1>4 DEF Carries, StepsOf, Carriers, Kinds, Made, Registering
<1>9. Guards(w)' /\ Leaves(w)'
    BY <1>4 DEF Guards, Leaves, Made, Registering
<1>10. QED
    BY <1>1, <1>4, <1>5, <1>6, <1>7, <1>8, <1>9, PutKeeps DEF Carriers

LEMMA SetStatusKeeps ==
    ASSUME IInv, NEW w \in Workers, SetStatus(w)
    PROVE  IInv'
<1> DEFINE new == [db[User] EXCEPT !.active = ~@]
           V == Only(User, new)
<1>1. /\ Begin(w, "status", <<>>, "commit") /\ Put(w, V) /\ UNCHANGED db /\ Answers
      /\ db[User] \in UserRow /\ User \in Rows
    BY QuietAnswers, UserIsValue DEF SetStatus
<1>2. /\ new \in UserRow /\ new.there = db[User].there /\ new.tier = db[User].tier
      /\ new.password = db[User].password /\ new.validFrom = db[User].validFrom
    BY <1>1 DEF UserRow
<1>3. DOMAIN V = {User} /\ V[User] = new
    BY OnlyIs
<1> HIDE DEF new, V
<1>4. /\ Holds(w) = {} /\ Dirty(w) = {} /\ \A r : See(w, r) = db[r]
      /\ Moves(w) /\ at'[w] = "commit" /\ Continues(w)
      /\ job'[w].kind = "status" /\ "kind" \in DOMAIN job'[w]
    BY <1>1, BeginEffect
<1>5. PutsOn(w, V)
    BY <1>1, <1>2, <1>3, <1>4, ValuesOf DEF PutsOn
<1>6. \A r \in DOMAIN V : Makes("status", r, See(w, r), V[r])
    BY <1>2, <1>3, <1>4, RowKinds DEF Makes
<1>7. \A d \in Devices : Device(d) \notin DOMAIN V
    BY <1>3, RowKinds
<1>8. Carries(w)'
    BY <1>4 DEF Carries, StepsOf, Carriers, Kinds, Made, Registering
<1>9. Guards(w)' /\ Leaves(w)'
    BY <1>4 DEF Guards, Leaves, Made, Registering
<1>10. QED
    BY <1>1, <1>4, <1>5, <1>6, <1>7, <1>8, <1>9, PutKeeps DEF Carriers

LEMMA ForceSignOutKeeps ==
    ASSUME IInv, NEW w \in Workers, ForceSignOut(w)
    PROVE  IInv'
<1> DEFINE new == [db[User] EXCEPT !.validFrom = now]
           V == Only(User, new)
           values == [ids |-> Devices]
<1>1. /\ Begin(w, "signout", values, "purge") /\ Put(w, V) /\ UNCHANGED db /\ Answers
      /\ db[User] \in UserRow /\ User \in Rows /\ now \in 0 .. MaxTime
    BY QuietAnswers, UserIsValue DEF ForceSignOut
<1>2. /\ new \in UserRow /\ new.there = db[User].there /\ new.tier = db[User].tier
      /\ new.password = db[User].password
    BY <1>1 DEF UserRow
<1>3. DOMAIN V = {User} /\ V[User] = new /\ DOMAIN values = {"ids"} /\ values["ids"] = Devices
    BY OnlyIs
<1> HIDE DEF new, V, values
<1>4. /\ Holds(w) = {} /\ Dirty(w) = {} /\ \A r : See(w, r) = db[r]
      /\ Moves(w) /\ at'[w] = "purge" /\ Continues(w)
      /\ job'[w].kind = "signout" /\ DOMAIN job'[w] = {"ids", "kind"} /\ job'[w].ids = Devices
    BY <1>1, <1>3, BeginEffect
<1>5. PutsOn(w, V)
    BY <1>1, <1>2, <1>3, <1>4, ValuesOf DEF PutsOn
<1>6. \A r \in DOMAIN V : Makes("signout", r, See(w, r), V[r])
    BY <1>2, <1>3, <1>4, RowKinds DEF Makes
<1>7. \A d \in Devices : Device(d) \notin DOMAIN V
    BY <1>3, RowKinds
<1>8. Carries(w)'
    BY <1>4 DEF Carries, StepsOf, Carriers, Kinds, Made, Registering
<1>9. Guards(w)' /\ Leaves(w)'
    BY <1>4 DEF Guards, Leaves, Made, Registering
<1>10. QED
    BY <1>1, <1>4, <1>5, <1>6, <1>7, <1>8, <1>9, PutKeeps DEF Carriers

LEMMA ResetPasswordKeeps ==
    ASSUME IInv, NEW w \in Workers, NEW t \in Tokens, ResetPassword(w, t)
    PROVE  IInv'
<1>1. PICK p \in Passwords \ {db[User].password} :
          Put(w, Only(User, [db[User] EXCEPT !.password = p, !.validFrom = now]))
    BY DEF ResetPassword
<1> DEFINE new == [db[User] EXCEPT !.password = p, !.validFrom = now]
           V == Only(User, new)
           values == [token |-> t, targets |-> Devices]
<1>2. /\ Begin(w, "reset", values, "targets") /\ Put(w, V) /\ UNCHANGED db /\ Answers
      /\ db[User] \in UserRow /\ User \in Rows /\ now \in 0 .. MaxTime
    BY <1>1, QuietAnswers, UserIsValue DEF ResetPassword
<1>3. /\ new \in UserRow /\ new.there = db[User].there /\ new.tier = db[User].tier
      /\ new.password \in Passwords /\ new # db[User]
    BY <1>1, <1>2 DEF UserRow
<1>4. /\ DOMAIN V = {User} /\ V[User] = new
      /\ DOMAIN values = {"token", "targets"} /\ values["token"] = t
      /\ values["targets"] = Devices
    BY OnlyIs
<1> HIDE DEF new, V, values
<1>5. /\ Holds(w) = {} /\ Dirty(w) = {} /\ \A r : See(w, r) = db[r]
      /\ Moves(w) /\ at'[w] = "targets" /\ Continues(w)
      /\ job'[w].kind = "reset" /\ DOMAIN job'[w] = {"token", "targets", "kind"}
      /\ job'[w].token = t /\ job'[w].targets = Devices
    BY <1>2, <1>4, BeginEffect
<1>6. PutsOn(w, V)
    BY <1>2, <1>3, <1>4, <1>5, ValuesOf DEF PutsOn
<1>7. \A r \in DOMAIN V : Makes("reset", r, See(w, r), V[r])
    BY <1>3, <1>4, <1>5, RowKinds DEF Makes
<1>8. \A d \in Devices : Device(d) \notin DOMAIN V
    BY <1>4, RowKinds
<1>9. Carries(w)'
    BY <1>5 DEF Carries, StepsOf, Carriers, Kinds, Made, Registering
<1>10. Guards(w)'
    <2>1. User \in Dirty(w)'
        BY <1>3, <1>4, <1>5, <1>6, PutEffect DEF Differs
    <2>2. QED
        BY <2>1, <1>5 DEF Guards, Made, Registering
<1>11. Leaves(w)'
    BY <1>5 DEF Leaves, Registering
<1>12. QED
    BY <1>2, <1>5, <1>6, <1>7, <1>8, <1>9, <1>10, <1>11, PutKeeps DEF Carriers

\* A request with an access token, and what else its kind carries.
LEMMA EnterKeeps ==
    ASSUME IInv, NEW w \in Workers, NEW claims, NEW kind \in Carriers, NEW values, NEW step,
           Enter(w, kind, claims, values, step),
           step \in StepsOf(kind) \ {"idle", "device", "token", "purge"},
           DOMAIN values \cap {"kind", "device", "by"} = {},
           kind = "renew" => "issued" \in DOMAIN values /\ values.issued = now,
           kind = "revoke" => "targets" \in DOMAIN values /\ values.targets \subseteq Devices,
           kind = "change" => /\ "targets" \in DOMAIN values /\ values.targets = Devices
                              /\ db[User].password # "none" /\ step = "password",
           kind = "logout" => "ids" \in DOMAIN values /\ values.ids \subseteq Devices
    PROVE  IInv'
<1> DEFINE d == claims.device
           all == Merge(values, [device |-> d, by |-> claims.by])
<1>1. /\ Begin(w, kind, all, step) /\ UNCHANGED db /\ Answers /\ d \in Devices
      /\ claims.by \in Passwords \cup {"google"} /\ db[Device(d)].there
    BY QuietAnswers DEF Enter, Accepts, IInv, Typed, Claims
<1>2. /\ DOMAIN all = DOMAIN values \cup {"device", "by"}
      /\ all["device"] = d /\ all["by"] = claims.by
      /\ \A x \in DOMAIN values : all[x] = values[x]
    BY DEF Merge
<1>3. PICK due \in BOOLEAN :
          Put(w, Only(Device(d), [db[Device(d)] EXCEPT !.touched = @ \/ due]))
    BY DEF Enter, Touches
<1> DEFINE r == Device(d)
           new == [db[r] EXCEPT !.touched = @ \/ due]
           V == Only(r, new)
<1>4. r \in Rows /\ r \in DeviceRows /\ r # User
    BY <1>1, RowKinds
<1>5. db[r] \in DeviceRow /\ (db[r].revoked => db[r].there)
    BY <1>4, ValuesOf DEF IInv, Typed
<1>6. new \in DeviceRow /\ new.there = db[r].there /\ new.revoked = db[r].revoked
    BY <1>5 DEF DeviceRow
<1>7. DOMAIN V = {r} /\ V[r] = new /\ Put(w, V)
    BY <1>3, OnlyIs
<1> HIDE DEF new, V, all
<1>8. /\ Holds(w) = {} /\ Dirty(w) = {} /\ \A q : See(w, q) = db[q]
      /\ Moves(w) /\ at'[w] = step /\ Continues(w)
      /\ DOMAIN job'[w] = DOMAIN values \cup {"device", "by", "kind"}
      /\ job'[w].kind = kind /\ job'[w].device = d /\ job'[w].by = claims.by
      /\ \A x \in DOMAIN values : job'[w][x] = values[x]
    <2>1. "kind" \notin DOMAIN all
        BY <1>2
    <2>2. QED
        BY <1>1, <1>2, <2>1, BeginEffect
<1>9. PutsOn(w, V)
    BY <1>1, <1>4, <1>5, <1>6, <1>7, <1>8, ValuesOf DEF PutsOn
<1>10. \A q \in DOMAIN V : Makes(kind, q, See(w, q), V[q])
    BY <1>4, <1>6, <1>7, <1>8 DEF Makes
<1>11. ~Registering(w)' /\ ~Made(w)'
    BY <1>8 DEF Made, Registering, Carriers
<1>12. \A e \in Devices : Device(e) \in DOMAIN V =>
          See(w, Device(e)).there /\ V[Device(e)].there /\ ~(Made(w)' /\ e = job'[w].device)
    BY <1>1, <1>6, <1>7, <1>8, <1>11
<1>13. now \in 1 .. MaxTime /\ db[User] \in UserRow
    BY UserIsValue
<1>14. Carries(w)'
    <2>1. kind = "renew" => "issued" \in DOMAIN job'[w] /\ job'[w].issued \in 1 .. MaxTime
        BY <1>8, <1>13
    <2>2. kind \in {"revoke", "change"} =>
             "targets" \in DOMAIN job'[w] /\ job'[w].targets \in SUBSET Devices
        BY <1>8
    <2>3. kind = "change" => job'[w].targets = Devices /\ db[User].password \in Passwords
        BY <1>8, <1>13 DEF UserRow
    <2>4. kind = "logout" => "ids" \in DOMAIN job'[w] /\ job'[w].ids \in SUBSET Devices
        BY <1>8
    <2>5. /\ "kind" \in DOMAIN job'[w] /\ "device" \in DOMAIN job'[w] /\ "by" \in DOMAIN job'[w]
          /\ kind \in Kinds /\ at'[w] \in StepsOf(job'[w].kind) /\ at'[w] \notin {"idle", "purge"}
          /\ kind \notin {"forgot", "reset", "signout", "login", "google"}
        BY <1>8 DEF Carriers, Kinds
    <2>6. QED
        BY <1>1, <1>8, <1>11, <2>1, <2>2, <2>3, <2>4, <2>5 DEF Carries
<1>15. Guards(w)' /\ Leaves(w)'
    BY <1>8, <1>11 DEF Guards, Leaves, Carriers
<1>16. QED
    BY <1>1, <1>8, <1>9, <1>10, <1>12, <1>14, <1>15, PutKeeps

LEMMA CarriersKeep ==
    ASSUME IInv, NEW w \in Workers, NEW c \in held,
           \/ Touch(w, c) \/ Renew(w, c) \/ RevokeDevices(w, c)
           \/ Logout(w, c) \/ Subscribe(w, c) \/ ChangePassword(w, c)
    PROVE  IInv'
<1>1. CASE Touch(w, c)
    <2> DEFINE v == <<>>
    <2>1. Enter(w, "touch", c, v, "commit") /\ DOMAIN v = {}
        BY <1>1 DEF Touch
    <2> HIDE DEF v
    <2>2. QED
        BY <2>1, EnterKeeps DEF Carriers, StepsOf
<1>2. CASE Renew(w, c)
    <2> DEFINE v == [issued |-> now]
    <2>1. Enter(w, "renew", c, v, "commit") /\ DOMAIN v = {"issued"} /\ v.issued = now
        BY <1>2 DEF Renew
    <2> HIDE DEF v
    <2>2. QED
        BY <2>1, EnterKeeps DEF Carriers, StepsOf
<1>3. CASE RevokeDevices(w, c)
    <2>1. PICK T \in SUBSET Devices : Enter(w, "revoke", c, [targets |-> T], "targets")
        BY <1>3 DEF RevokeDevices
    <2> DEFINE v == [targets |-> T]
    <2>2. Enter(w, "revoke", c, v, "targets") /\ DOMAIN v = {"targets"} /\ v.targets \subseteq Devices
        BY <2>1
    <2> HIDE DEF v
    <2>3. QED
        BY <2>2, EnterKeeps DEF Carriers, StepsOf
<1>4. CASE Logout(w, c)
    <2> DEFINE v == [ids |-> {c.device}]
    <2>1. Enter(w, "logout", c, v, "leave") /\ DOMAIN v = {"ids"} /\ v.ids \subseteq Devices
        BY <1>4 DEF Logout, IInv, Typed, Claims
    <2> HIDE DEF v
    <2>2. QED
        BY <2>1, EnterKeeps DEF Carriers, StepsOf
<1>5. CASE Subscribe(w, c)
    <2> DEFINE v == <<>>
    <2>1. Enter(w, "subscribe", c, v, "endpoint") /\ DOMAIN v = {}
        BY <1>5 DEF Subscribe
    <2> HIDE DEF v
    <2>2. QED
        BY <2>1, EnterKeeps DEF Carriers, StepsOf
<1>6. CASE ChangePassword(w, c)
    <2> DEFINE v == [targets |-> Devices]
    <2>1. /\ Enter(w, "change", c, v, "password") /\ DOMAIN v = {"targets"}
          /\ v.targets = Devices /\ db[User].password # "none"
        BY <1>6 DEF ChangePassword
    <2> HIDE DEF v
    <2>2. QED
        BY <2>1, EnterKeeps DEF Carriers, StepsOf
<1>7. QED
    BY <1>1, <1>2, <1>3, <1>4, <1>5, <1>6

-----------------------------------------------------------------------------
(* Steps of a request *)

LEMMA KindAt ==
    ASSUME IInv, NEW w \in Workers
    PROVE  /\ at[w] \in {"lock", "device", "overflow"} => Registering(w)
           /\ at[w] = "leave" => job[w].kind = "logout"
           /\ at[w] = "password" => job[w].kind = "change"
           /\ at[w] = "targets" => job[w].kind \in {"revoke", "change", "reset"}
           /\ at[w] = "token" => job[w].kind = "forgot"
           /\ at[w] = "spend" => job[w].kind = "reset"
           /\ at[w] = "endpoint" => job[w].kind = "subscribe"
           /\ at[w] = "purge" => job[w].kind \in {"login", "google", "revoke", "logout", "change",
                                                  "reset", "signout"}
           /\ at[w] = "idle" <=> job[w].kind = "none"
           /\ job[w].kind \in Kinds \cup {"none"} /\ "kind" \in DOMAIN job[w]
<1>1. Carries(w)
    BY DEF IInv, Sound
<1>2. QED
    BY <1>1 DEF Carries, StepsOf, Registering

\* The request goes on to another step with what it carries.
LEMMA GoesOn ==
    ASSUME IInv, NEW w \in Workers, NEW step, Goto(w, step)
    PROVE  /\ DOMAIN at' = Workers /\ at'[w] = step
           /\ \A v \in Workers \ {w} : at'[v] = at[v]
    BY DEF IInv, Typed, Goto

LEMMA LockKeeps ==
    ASSUME IInv, NEW w \in Workers, Lock(w)
    PROVE  IInv'
<1> DEFINE V == Only(User, See(w, User))
<1>1. /\ at[w] = "lock" /\ Dirty(w) = {} /\ Registering(w) /\ FreeFor(w, User)
      /\ UNCHANGED <<db, job>> /\ Answers /\ Sound(w) /\ Write(w, V)
      /\ See(w, User) \in UserRow /\ User \in Rows
    BY KindAt, QuietAnswers, UserIsValue DEF Lock, Flushing, IInv
<1>2. Moves(w) /\ at'[w] = "device" /\ Continues(w)
    BY <1>1, GoesOn DEF Lock, Moves, IInv, Typed, Continues, Made
<1>3. DOMAIN V = {User} /\ V[User] = See(w, User)
    BY OnlyIs
<1> HIDE DEF V
<1>4. WritesTo(w, V)
    BY <1>1, <1>3, ValuesOf DEF WritesTo
<1>5. Makes(job[w].kind, User, db[User], See(w, User))
    <2>1. Written(w)[User] = See(w, User)
        BY <1>1 DEF Written
    <2>2. QED
        BY <2>1, WrittenUser
<1>6. \A d \in Devices : Device(d) \notin DOMAIN V
    BY <1>3, RowKinds
<1>7. Carries(w)' /\ Leaves(w)'
    BY <1>1, <1>2 DEF Sound, Carries, Leaves, StepsOf, Made, Registering
<1>8. Guards(w)'
    <2>1. User \in Holds(w)' /\ Dirty(w)' = {}
        BY <1>3, <1>4, WriteEffect
    <2>2. QED
        BY <2>1, <1>1, <1>2 DEF Guards, Made, Registering
<1>9. QED
    BY <1>1, <1>2, <1>3, <1>4, <1>5, <1>6, <1>7, <1>8, WriteKeeps DEF Registering, Carriers

\* A set of naturals has a least element.
LEMMA LeastOf ==
    ASSUME NEW S \in SUBSET Nat, S # {}
    PROVE  \E least \in S : \A s \in S : least <= s
<1>1. \E b \in S : \A c \in S : ~(<<c, b>> \in OpToRel(<, Nat))
    BY NatLessThanWellFounded, WFMin
<1>2. PICK b \in S : \A c \in S : ~(c < b)
    BY <1>1 DEF OpToRel
<1>3. QED
    BY <1>2

\* The device that is inserted is new to everyone.
LEMMA FreshDevice ==
    ASSUME IInv, Fresh # {}, NEW d, d = Earliest(Fresh)
    PROVE  /\ d \in Devices /\ ~db[Device(d)].there /\ ~db[Device(d)].revoked
           /\ \A v \in Workers : Device(d) \notin Holds(v) \cup Dirty(v)
           /\ \A v \in Workers : ~(Made(v) /\ d = job[v].device)
<1>1. Fresh \in SUBSET Nat
    BY AccountsAssumption DEF Fresh
<1>2. \E e \in Fresh : \A f \in Fresh : e <= f
    BY <1>1, LeastOf
<1>3. d \in Fresh
    BY <1>2 DEF Earliest
<1>4. d \in Devices /\ ~db[Device(d)].there /\ \A v \in Workers : Device(d) \notin Holds(v)
    BY <1>3 DEF Fresh
<1>5. ~db[Device(d)].revoked
    BY <1>4, RowKinds, ValuesOf DEF IInv, Typed
<1>6. ASSUME NEW v \in Workers PROVE ~(Made(v) /\ d = job[v].device)
    BY <1>4 DEF IInv, Sound, Guards
<1>7. ASSUME NEW v \in Workers PROVE Device(d) \notin Dirty(v)
    BY <1>4, <1>6 DEF IInv, Sound, Existing
<1>8. QED
    BY <1>4, <1>5, <1>6, <1>7

LEMMA NewDeviceKeeps ==
    ASSUME IInv, NEW w \in Workers, NewDevice(w)
    PROVE  IInv'
<1> DEFINE d == Earliest(Fresh)
           r == Device(d)
           new == [there |-> TRUE, revoked |-> FALSE, touched |-> FALSE]
           V == Only(r, new)
           values == [device |-> d, issued |-> now]
<1>1. /\ at[w] = "device" /\ Dirty(w) = {} /\ Registering(w) /\ Sound(w)
      /\ UNCHANGED db /\ Answers /\ Write(w, V)
      /\ job' = [job EXCEPT ![w] = Merge(values, job[w])] /\ Fresh # {}
      /\ now \in 1 .. MaxTime
    BY KindAt, QuietAnswers, UserIsValue DEF NewDevice, Keep, IInv, Sound, Session
<1>2. /\ d \in Devices /\ ~db[r].there /\ ~db[r].revoked /\ \A v \in Workers : r \notin Holds(v)
      /\ r \in Rows /\ r \in DeviceRows /\ r # User
    BY <1>1, FreshDevice, RowKinds
<1>3. new \in DeviceRow /\ new.there /\ ~new.revoked /\ DOMAIN V = {r} /\ V[r] = new
    BY OnlyIs DEF DeviceRow
<1>4. /\ DOMAIN values = {"device", "issued"} /\ values["device"] = d
      /\ values["issued"] = now
    OBVIOUS
<1>5. /\ Moves(w) /\ at'[w] = IF See(w, User).tier = "FREEMIUM" THEN "commit" ELSE "overflow"
      /\ job'[w] = Merge(values, job[w])
    <2>1. DOMAIN job' = Workers /\ \A v \in Workers \ {w} : job'[v] = job[v]
        BY <1>1 DEF IInv, Typed
    <2>2. job'[w] = Merge(values, job[w])
        BY <1>1 DEF IInv, Typed
    <2>3. QED
        BY <2>1, <2>2, GoesOn DEF NewDevice, Moves
<1> HIDE DEF d, r, new, V, values
<1>6. /\ DOMAIN job'[w] = DOMAIN job[w] \cup {"device", "issued"}
      /\ job'[w].device = d /\ job'[w].issued = now
      /\ job'[w].kind = job[w].kind /\ job'[w].by = job[w].by
    <2>1. "kind" \in DOMAIN job[w] /\ "by" \in DOMAIN job[w]
        BY <1>1 DEF Sound, Carries, Registering
    <2>2. QED
        BY <2>1, <1>4, <1>5 DEF Merge
<1>7. Continues(w) /\ Registering(w)' /\ Made(w)'
    BY <1>1, <1>5, <1>6 DEF Continues, Made, Registering
<1>8. WritesTo(w, V)
    BY <1>1, <1>2, <1>3, ValuesOf DEF WritesTo
<1>9. FreeFor(w, r) /\ Makes(job'[w].kind, r, db[r], new)
    BY <1>2, <1>3 DEF FreeFor, Makes
<1>10. \A e \in Devices : Device(e) \in DOMAIN V => e = job'[w].device
    BY <1>3, <1>6, RowKinds DEF r
<1>11. Carries(w)'
    <2>1. at'[w] \in {"commit", "overflow"}
        BY <1>5
    <2>2. "by" \in DOMAIN job[w] /\ job[w].by \in Passwords \cup {"google"} /\ "kind" \in DOMAIN job[w]
        BY <1>1 DEF Sound, Carries, Registering
    <2>3. QED
        BY <2>1, <2>2, <1>1, <1>2, <1>6, <1>7 DEF Carries, StepsOf, Registering, Carriers, Kinds
<1>12. /\ Holds(w)' = Holds(w) \cup {r} /\ Dirty(w)' = {} /\ tx'[w].own[r] = new
    BY <1>3, <1>8, WriteEffect
<1>13. Guards(w)'
    <2>1. User \in Holds(w)'
        BY <1>1, <1>12 DEF Sound, Guards
    <2>2. QED
        BY <2>1, <1>1, <1>2, <1>3, <1>6, <1>7, <1>12 DEF Guards, Registering, r
<1>14. Leaves(w)'
    <2>1. See(w, User).tier = db[User].tier
        BY <1>1 DEF Sound, Guards, Changes, Makes, See
    <2>2. QED
        BY <2>1, <1>1, <1>5, <1>6 DEF Leaves, Registering
<1>15. QED
    BY <1>1, <1>3, <1>5, <1>6, <1>7, <1>8, <1>9, <1>10, <1>11, <1>13, <1>14, WriteKeeps
    DEF Carriers, Registering

\* Devices are revoked, whether to make room or because the password changes.
LEMMA SignOutEffect ==
    ASSUME IInv, NEW w \in Workers, NEW ids, NEW otherwise, SignOut(w, ids, otherwise),
           ids \subseteq Active(Seen(w)), Dirty(w) = {}, UNCHANGED db
    PROVE  /\ \E V : /\ PutsOn(w, V) /\ DOMAIN V = {Device(d) : d \in ids}
                     /\ \A r \in DOMAIN V : V[r].there /\ V[r].revoked /\ See(w, r).there
           /\ DOMAIN job'[w] = DOMAIN job[w] \cup {"ids"} /\ job'[w].ids = ids
           /\ \A x \in DOMAIN job[w] \ {"ids"} : job'[w][x] = job[w][x]
           /\ Moves(w) /\ at'[w] = IF ids = {} THEN otherwise ELSE "purge"
           /\ Active(Written(w))' = Active(Seen(w)) \ ids
<1> DEFINE rows == {Device(d) : d \in ids}
           V == [r \in rows |-> [See(w, r) EXCEPT !.revoked = TRUE]]
           values == [ids |-> ids]
<1>1. /\ ids \subseteq Devices /\ Put(w, V) /\ DOMAIN V = rows
      /\ job' = [job EXCEPT ![w] = Merge(values, job[w])]
      /\ DOMAIN values = {"ids"} /\ values["ids"] = ids
    BY DEF SignOut, Active, Keep
<1>2. ASSUME NEW r \in rows
      PROVE  /\ r \in Rows /\ r \in DeviceRows /\ V[r] \in Values(r)
             /\ V[r].there /\ V[r].revoked /\ See(w, r).there
    <2>1. PICK d \in ids : r = Device(d)
        OBVIOUS
    <2>2. d \in Devices /\ See(w, r).there /\ r \in Rows /\ r \in DeviceRows
        BY <1>1, <2>1, RowKinds DEF Active, Seen
    <2>3. See(w, r) \in DeviceRow
        BY <2>2, SeeIsValue, ValuesOf
    <2>4. V[r] \in DeviceRow /\ V[r].there /\ V[r].revoked
        BY <2>2, <2>3 DEF DeviceRow
    <2>5. QED
        BY <2>2, <2>4, ValuesOf
<1>3. DOMAIN job' = Workers /\ job'[w] = Merge(values, job[w])
      /\ \A v \in Workers \ {w} : job'[v] = job[v]
    BY <1>1 DEF IInv, Typed
<1> HIDE DEF V, values
<1>4. /\ DOMAIN job'[w] = DOMAIN job[w] \cup {"ids"} /\ job'[w].ids = ids
      /\ \A x \in DOMAIN job[w] \ {"ids"} : job'[w][x] = job[w][x]
    BY <1>1, <1>3 DEF Merge
<1>5. Moves(w) /\ at'[w] = IF ids = {} THEN otherwise ELSE "purge"
    BY <1>3, GoesOn DEF SignOut, Moves
<1>6. PutsOn(w, V)
    BY <1>1, <1>2 DEF PutsOn
<1>7. ASSUME NEW d \in Devices
      PROVE  d \in Active(Written(w))' <=> d \in Active(Seen(w)) /\ d \notin ids
    <2> DEFINE r == Device(d)
    <2>1. r \in Rows /\ (r \in rows <=> d \in ids)
        BY RowKinds
    <2>2. d \in Active(Written(w))' <=> Written(w)'[r].there /\ ~Written(w)'[r].revoked
        BY DEF Active
    <2>3. d \in Active(Seen(w)) <=> See(w, r).there /\ ~See(w, r).revoked
        BY <2>1 DEF Active, Seen
    <2>4. CASE r \in rows
        <3>1. Written(w)'[r] = V[r]
            BY <1>1, <1>6, <2>4, PutEffect
        <3>2. QED
            BY <1>2, <2>1, <2>2, <2>4, <3>1
    <2>5. CASE r \notin rows
        <3>1. Written(w)'[r] = See(w, r)
            BY <1>1, <1>6, <2>1, <2>5, PutEffect
        <3>2. QED
            BY <2>1, <2>2, <2>3, <2>5, <3>1
    <2>6. QED
        BY <2>4, <2>5
<1>8. Active(Written(w))' = Active(Seen(w)) \ ids
    <2>1. Active(Written(w))' \subseteq Devices /\ Active(Seen(w)) \subseteq Devices
        BY DEF Active
    <2>2. QED
        BY <2>1, <1>7
<1>9. QED
    BY <1>1, <1>2, <1>4, <1>5, <1>6, <1>8

LEMMA SignOutKeeps ==
    ASSUME IInv, NEW w \in Workers, NEW ids, NEW otherwise, SignOut(w, ids, otherwise),
           ids \subseteq Active(Seen(w)), Dirty(w) = {}, UNCHANGED db, Answers,
           at[w] \in {"overflow", "targets"},
           otherwise = IF job[w].kind = "reset" THEN "spend" ELSE "commit",
           Made(w) => job[w].device \notin ids,
           job[w].kind = "reset" => User \in Holds(w),
           Registering(w) /\ db[User].tier # "FREEMIUM" => Two(Active(Seen(w)) \ ids),
           job[w].kind = "change" /\ User \in Holds(w) =>
              Active(Seen(w)) \ ids \subseteq {job[w].device},
           job[w].kind = "reset" => Active(Seen(w)) \ ids = {}
    PROVE  IInv'
<1>1. /\ DOMAIN job'[w] = DOMAIN job[w] \cup {"ids"} /\ job'[w].ids = ids
      /\ \A x \in DOMAIN job[w] \ {"ids"} : job'[w][x] = job[w][x]
      /\ Moves(w) /\ at'[w] = IF ids = {} THEN otherwise ELSE "purge"
      /\ Active(Written(w))' = Active(Seen(w)) \ ids
    BY SignOutEffect
<1>2. PICK V : /\ PutsOn(w, V) /\ DOMAIN V = {Device(d) : d \in ids}
               /\ \A r \in DOMAIN V : V[r].there /\ V[r].revoked /\ See(w, r).there
    BY SignOutEffect
<1>3. /\ Sound(w) /\ ids \subseteq Devices
      /\ job[w].kind \in {"login", "google", "revoke", "change", "reset"}
      /\ at[w] = "overflow" <=> Registering(w)
    BY KindAt DEF IInv, Active, Registering
<1>4. /\ job'[w].kind = job[w].kind
      /\ job[w].kind \in Carriers \/ Made(w) =>
            "device" \in DOMAIN job[w] /\ job'[w].device = job[w].device
    BY <1>1, <1>3, KindAt DEF Sound, Carries
<1>5. at'[w] \in {"purge", "spend", "commit"} /\ (at'[w] = "spend" => job[w].kind = "reset")
      /\ (at'[w] = "commit" => job[w].kind # "reset")
    BY <1>1
<1>6. Made(w)' <=> Made(w)
    BY <1>3, <1>4, <1>5 DEF Made, Registering
<1>7. Carries(w)'
    <2>1. Carries(w)
        BY <1>3 DEF Sound
    <2>2. at'[w] \in StepsOf(job'[w].kind) /\ at'[w] # "idle"
        BY <1>3, <1>4, <1>5 DEF StepsOf
    <2>3. "kind" \in DOMAIN job'[w] /\ job'[w].kind \in Kinds \cup {"none"}
        BY <1>1, <1>4, KindAt
    <2>4. job'[w].kind \in {"login", "google"} \cup Carriers =>
             "by" \in DOMAIN job'[w] /\ job'[w].by \in Passwords \cup {"google"}
        BY <2>1, <1>1, <1>4 DEF Carries
    <2>5. job'[w].kind \in Carriers \/ Made(w)' =>
             "device" \in DOMAIN job'[w] /\ job'[w].device \in Devices
        BY <2>1, <1>1, <1>4, <1>6 DEF Carries
    <2>6. job'[w].kind = "renew" \/ Made(w)' =>
             "issued" \in DOMAIN job'[w] /\ job'[w].issued \in 1 .. MaxTime
        BY <2>1, <1>1, <1>4, <1>6 DEF Carries
    <2>7. job'[w].kind = "revoke" =>
             "targets" \in DOMAIN job'[w] /\ job'[w].targets \in SUBSET Devices
        BY <2>1, <1>1, <1>4 DEF Carries
    <2>8. job'[w].kind \in {"change", "reset"} =>
             "targets" \in DOMAIN job'[w] /\ job'[w].targets \in {Devices}
        BY <2>1, <1>1, <1>4 DEF Carries
    <2>9. "ids" \in DOMAIN job'[w] /\ job'[w].ids \in SUBSET Devices
        BY <1>1, <1>3
    <2>10. job'[w].kind \in {"forgot", "reset"} =>
              "token" \in DOMAIN job'[w] /\ job'[w].token \in Tokens
        BY <2>1, <1>1, <1>4 DEF Carries
    <2>11. job'[w].kind = "change" => db'[User].password \in Passwords
        BY <2>1, <1>4 DEF Carries
    <2>12. QED
        BY <2>2, <2>3, <2>4, <2>5, <2>6, <2>7, <2>8, <2>9, <2>10, <2>11 DEF Carries
<1>8. /\ Local(w) /\ tx'[w].own = tx[w].own /\ Holds(w)' = Holds(w)
      /\ Dirty(w)' \subseteq DOMAIN V
    BY <1>2, PutEffect
<1>9. Guards(w)'
    <2>1. User \notin Dirty(w)'
        BY <1>2, <1>3, <1>8, RowKinds
    <2>2. Guards(w)
        BY <1>3 DEF Sound
    <2>3. Registering(w)' <=> Registering(w)
        BY <1>4 DEF Registering
    <2>4. Made(w)' => LET r == Device(job'[w].device)
                      IN /\ r \in Holds(w)' /\ ~db'[r].there
                         /\ tx'[w].own[r].there /\ ~tx'[w].own[r].revoked
        BY <2>2, <1>4, <1>6, <1>8 DEF Guards, Local
    <2>5. Registering(w) => User \in Holds(w)
        BY <2>2, <1>3 DEF Guards
    <2>6. QED
        BY <2>1, <2>3, <2>4, <2>5, <1>3, <1>4, <1>8 DEF Guards
<1>10. Leaves(w)'
    <2>1. job'[w].kind = "change" => job'[w].device = job[w].device
        BY <1>4 DEF Carriers
    <2>2. UNCHANGED db /\ (Registering(w)' <=> Registering(w))
        BY <1>4 DEF Registering
    <2>3. QED
        BY <2>1, <2>2, <1>1, <1>4, <1>8 DEF Leaves
<1>11. \A r \in DOMAIN V : Makes(job'[w].kind, r, See(w, r), V[r])
    <2> SUFFICES ASSUME NEW r \in DOMAIN V PROVE Makes(job'[w].kind, r, See(w, r), V[r])
        OBVIOUS
    <2>1. r # User /\ V[r].there /\ V[r].revoked
        BY <1>2, <1>3, RowKinds
    <2>2. QED
        BY <2>1 DEF Makes
<1>12. \A d \in Devices : Device(d) \in DOMAIN V =>
          See(w, Device(d)).there /\ V[Device(d)].there /\ ~(Made(w)' /\ d = job'[w].device)
    <2> SUFFICES ASSUME NEW d \in Devices, Device(d) \in DOMAIN V
                 PROVE  See(w, Device(d)).there /\ V[Device(d)].there /\ ~(Made(w)' /\ d = job'[w].device)
        OBVIOUS
    <2>1. d \in ids
        BY <1>2, RowKinds
    <2>2. QED
        BY <2>1, <1>2, <1>4, <1>6
<1>13. job'[w].kind \in Carriers => db[Device(job'[w].device)].there
    BY <1>3, <1>4 DEF Sound, Existing
<1>14. Continues(w)
    BY <1>4, <1>6 DEF Continues
<1>15. QED
    BY <1>1, <1>2, <1>5, <1>7, <1>9, <1>10, <1>11, <1>12, <1>13, <1>14, PutKeeps

LEMMA OverflowKeeps ==
    ASSUME IInv, NEW w \in Workers, Overflow(w)
    PROVE  IInv'
<1> DEFINE others == Active(Seen(w)) \ {job[w].device}
<1>1. /\ at[w] = "overflow" /\ Dirty(w) = {} /\ Registering(w) /\ UNCHANGED db /\ Answers
      /\ job[w].kind \notin {"change", "reset"}
    BY KindAt, QuietAnswers DEF Overflow, Flushing, Registering
<1>2. PICK kept \in {{d} : d \in others} \cup {S \in {{}} : others = {}} :
          SignOut(w, others \ kept, "commit")
    BY DEF Overflow
<1> DEFINE ids == others \ kept
<1>3. ids \subseteq Active(Seen(w)) /\ job[w].device \notin ids
    OBVIOUS
<1>4. \E b : Active(Seen(w)) \ ids \subseteq {job[w].device, b}
    <2>1. CASE others = {}
        BY <2>1
    <2>2. CASE others # {}
        <3>1. PICK d \in others : kept = {d}
            BY <1>2, <2>2
        <3>2. Active(Seen(w)) \ ids \subseteq {job[w].device, d}
            BY <3>1
        <3>3. QED
            BY <3>2
    <2>3. QED
        BY <2>1, <2>2
<1>5. SignOut(w, ids, "commit") /\ Two(Active(Seen(w)) \ ids)
    BY <1>2, <1>4 DEF Two
<1> HIDE DEF ids
<1>6. QED
    BY <1>1, <1>3, <1>5, SignOutKeeps

LEMMA TargetsKeeps ==
    ASSUME IInv, NEW w \in Workers, Targets(w)
    PROVE  IInv'
<1> DEFINE reset == job[w].kind = "reset"
           current == IF reset THEN {} ELSE {job[w].device}
           otherwise == IF reset THEN "spend" ELSE "commit"
           ids == (job[w].targets \cap Active(Seen(w))) \ current
<1>1. /\ at[w] = "targets" /\ Dirty(w) = {} /\ UNCHANGED db /\ Answers
      /\ ~Registering(w) /\ ~Made(w) /\ SignOut(w, ids, otherwise) /\ Sound(w)
    BY KindAt, QuietAnswers DEF Targets, Flushing, Registering, Made, IInv
<1>2. ids \subseteq Active(Seen(w)) /\ Active(Seen(w)) \subseteq Devices
    BY DEF Active
<1>3. reset => User \in Holds(w) /\ Active(Seen(w)) \ ids = {}
    BY <1>1, <1>2 DEF Sound, Guards, Carries
<1>4. job[w].kind = "change" => Active(Seen(w)) \ ids \subseteq {job[w].device}
    BY <1>1, <1>2 DEF Sound, Carries
<1> HIDE DEF ids
<1>5. QED
    BY <1>1, <1>2, <1>3, <1>4, SignOutKeeps

\* The subscription and the reset tokens are aside of the user and the devices.
LEMMA AsideKeeps ==
    ASSUME IInv, NEW w \in Workers, NEW V, Moves(w), Answers, job'[w] = job[w],
           \/ PutsOn(w, V) \/ WritesTo(w, V)
           \/ UNCHANGED <<db, tx>> /\ Dirty(w) = {},
           \A r \in DOMAIN V : r # User /\ r \notin DeviceRows,
           at[w] \in {"purge", "spend", "token", "endpoint"},
           at'[w] = IF at[w] = "purge" /\ job[w].kind = "reset" THEN "spend" ELSE "commit"
    PROVE  IInv'
<1>1. /\ Sound(w) /\ job[w].kind \notin {"touch", "renew", "register", "none"}
      /\ Registering(w) \/ job[w].kind = "change" => at[w] = "purge"
      /\ job[w].kind = "reset" => at[w] \in {"purge", "spend"}
      /\ UNCHANGED db
    BY KindAt DEF IInv, Registering, PutsOn, WritesTo
<1>2. /\ Local(w) /\ Dirty(w) = {} /\ User \notin Dirty(w)'
      /\ User \in Holds(w)' <=> User \in Holds(w)
      /\ \A r \in Holds(w) \cap ({User} \cup DeviceRows) :
            r \in Holds(w)' /\ tx'[w].own[r] = tx[w].own[r]
      /\ \A r \in Rows \cap DeviceRows : Written(w)'[r] = Written(w)[r]
    <2>1. CASE PutsOn(w, V)
        BY <2>1, PutEffect DEF PutsOn
    <2>2. CASE WritesTo(w, V)
        BY <2>2, WriteEffect DEF WritesTo
    <2>3. CASE UNCHANGED <<db, tx>> /\ Dirty(w) = {}
        BY <2>3, <1>1 DEF Local, Holds, Dirty, Written, See, IInv, Typed, Sound, Session
    <2>4. QED
        BY <2>1, <2>2, <2>3
<1>3. (Made(w)' <=> Made(w)) /\ (Registering(w)' <=> Registering(w))
    BY <1>1 DEF Made, Registering
<1>4. Continues(w)
    BY <1>3 DEF Continues
<1>5. Carries(w)'
    <2>1. at'[w] \in StepsOf(job[w].kind) /\ at'[w] \notin {"idle", "purge"}
        BY <1>1, KindAt DEF Sound, Carries, StepsOf, Kinds
    <2>2. QED
        BY <2>1, <1>1, <1>3 DEF Sound, Carries
<1>6. Guards(w)'
    <2>1. Made(w) => LET r == Device(job[w].device)
                     IN /\ r \in Holds(w)' /\ ~db'[r].there
                        /\ tx'[w].own[r].there /\ ~tx'[w].own[r].revoked
        <3>1. ASSUME Made(w) PROVE Device(job[w].device) \in DeviceRows
            BY <3>1, <1>1, RowKinds DEF Sound, Carries
        <3>2. QED
            BY <3>1, <1>1, <1>2 DEF Sound, Guards
    <2>2. QED
        BY <2>1, <1>1, <1>2, <1>3 DEF Sound, Guards
<1>7. Leaves(w)'
    <2>1. Active(Written(w))' = Active(Written(w))
        BY <1>2, RowKinds DEF Active
    <2>2. QED
        BY <2>1, <1>1, <1>2, <1>3 DEF Sound, Leaves
<1>8. \A d \in Devices : Device(d) \notin DOMAIN V
    BY RowKinds
<1>9. \A r \in DOMAIN V : \A k, old : Makes(k, r, old, V[r])
    BY DEF Makes
<1>10. job'[w].kind \in Carriers => db[Device(job'[w].device)].there
    BY <1>1 DEF Sound, Existing
<1>11. CASE PutsOn(w, V)
    BY <1>1, <1>4, <1>5, <1>6, <1>7, <1>8, <1>9, <1>10, <1>11, PutKeeps
<1>12. CASE WritesTo(w, V)
    BY <1>1, <1>4, <1>5, <1>6, <1>7, <1>8, <1>9, <1>10, <1>12, WriteKeeps
<1>13. CASE UNCHANGED <<db, tx>> /\ Dirty(w) = {}
    BY <1>1, <1>4, <1>5, <1>6, <1>7, <1>10, <1>13, StillKeeps
<1>14. QED
    BY <1>11, <1>12, <1>13

LEMMA TokenRowsIs ==
    ASSUME NEW S, NEW b
    PROVE  /\ DOMAIN TokenRows(S, b) = {Token(t) : t \in S}
           /\ \A t \in S : TokenRows(S, b)[Token(t)] = [there |-> b]
    BY DEF TokenRows

LEMMA PurgeKeeps ==
    ASSUME IInv, NEW w \in Workers, Purge(w)
    PROVE  IInv'
<1>1. /\ at[w] = "purge" /\ Dirty(w) = {} /\ UNCHANGED <<db, job>> /\ Answers
      /\ at'[w] = IF job[w].kind = "reset" THEN "spend" ELSE "commit"
      /\ Moves(w)
    BY GoesOn, QuietAnswers DEF Purge, Flushing, Moves, IInv, Typed
<1> DEFINE gone == [there |-> FALSE, device |-> 0]
<1>2. CASE FreeFor(w, Sub) /\ Write(w, Only(Sub, gone))
    <2> DEFINE V == Only(Sub, gone)
    <2>1. DOMAIN V = {Sub} /\ V[Sub] = gone /\ gone \in SubRow /\ Write(w, V)
        BY <1>2, OnlyIs DEF SubRow
    <2> HIDE DEF V, gone
    <2>2. WritesTo(w, V)
        BY <2>1, <1>1, RowKinds, ValuesOf DEF WritesTo
    <2>3. QED
        BY <2>1, <2>2, <1>1, <1>2, RowKinds, AsideKeeps
<1>3. CASE UNCHANGED tx
    <2> DEFINE V == <<>>
    <2>1. DOMAIN V = {}
        OBVIOUS
    <2> HIDE DEF V
    <2>2. QED
        BY <2>1, <1>1, <1>3, AsideKeeps
<1>4. QED
    BY <1>2, <1>3 DEF Purge

LEMMA EndpointKeeps ==
    ASSUME IInv, NEW w \in Workers, Endpoint(w)
    PROVE  IInv'
<1> DEFINE new == [there |-> TRUE, device |-> job[w].device]
           V == Only(Sub, new)
<1>1. /\ at[w] = "endpoint" /\ Dirty(w) = {} /\ UNCHANGED <<db, job>> /\ Answers
      /\ at'[w] = "commit" /\ Moves(w) /\ Put(w, V)
    BY GoesOn, QuietAnswers DEF Endpoint, Flushing, Moves, IInv, Typed
<1>2. job[w].device \in Devices
    BY <1>1, KindAt DEF IInv, Sound, Carries, Carriers
<1>3. DOMAIN V = {Sub} /\ V[Sub] = new /\ new \in SubRow
    BY <1>2, OnlyIs DEF SubRow
<1> HIDE DEF V, new
<1>4. PutsOn(w, V)
    BY <1>1, <1>3, RowKinds, ValuesOf DEF PutsOn
<1>5. QED
    BY <1>1, <1>3, <1>4, RowKinds, AsideKeeps

LEMMA SpendKeeps ==
    ASSUME IInv, NEW w \in Workers, Spend(w)
    PROVE  IInv'
<1> DEFINE V == TokenRows(Stored(w), FALSE)
<1>1. /\ at[w] = "spend" /\ Dirty(w) = {} /\ UNCHANGED <<db, job>> /\ Answers
      /\ at'[w] = "commit" /\ Moves(w) /\ Write(w, V)
    BY GoesOn, QuietAnswers DEF Spend, Flushing, Moves, IInv, Typed
<1>2. /\ DOMAIN V = {Token(t) : t \in Stored(w)} /\ Stored(w) \subseteq Tokens
      /\ \A t \in Stored(w) : V[Token(t)] = [there |-> FALSE]
    BY TokenRowsIs DEF Stored
<1> HIDE DEF V
<1>3. ASSUME NEW r \in DOMAIN V
      PROVE  r \in Rows /\ V[r] \in Values(r) /\ r # User /\ r \notin DeviceRows
    <2>1. PICK t \in Stored(w) : r = Token(t)
        BY <1>2
    <2>2. t \in Tokens /\ V[r] = [there |-> FALSE]
        BY <1>2, <2>1
    <2>3. [there |-> FALSE] \in TokenRow
        BY DEF TokenRow
    <2>4. QED
        BY <2>1, <2>2, <2>3, RowKinds, ValuesOf
<1>4. WritesTo(w, V)
    BY <1>1, <1>3 DEF WritesTo
<1>5. QED
    BY <1>1, <1>3, <1>4, AsideKeeps

LEMMA CreateTokenKeeps ==
    ASSUME IInv, NEW w \in Workers, CreateToken(w)
    PROVE  IInv'
<1> DEFINE f == TokenRows({job[w].token}, TRUE)
           g == TokenRows(Stored(w), FALSE)
           V == Merge(f, g)
<1>1. /\ at[w] = "token" /\ UNCHANGED <<db, job>> /\ at'[w] = "commit" /\ Moves(w)
      /\ Write(w, V)
      /\ mailed' = mailed \cup {job[w].token} /\ UNCHANGED <<held, spent, now, mix>>
    BY GoesOn DEF CreateToken, Moves, IInv, Typed, world
<1>2. job[w].token \in Tokens /\ Dirty(w) = {} /\ Stored(w) \subseteq Tokens /\ job[w].kind = "forgot"
    BY <1>1, KindAt DEF IInv, Sound, Carries, Session, Stored
<1>3. Answers
    BY <1>1, <1>2 DEF Answers, IInv, Typed
<1>4. /\ DOMAIN f = {Token(t) : t \in {job[w].token}} /\ f[Token(job[w].token)] = [there |-> TRUE]
      /\ DOMAIN g = {Token(t) : t \in Stored(w)}
      /\ \A t \in Stored(w) : g[Token(t)] = [there |-> FALSE]
    BY TokenRowsIs
<1> HIDE DEF f, g
<1>5. /\ DOMAIN V = DOMAIN f \cup DOMAIN g /\ \A x \in DOMAIN f : V[x] = f[x]
      /\ \A x \in DOMAIN g \ DOMAIN f : V[x] = g[x]
    BY DEF Merge
<1> HIDE DEF V
<1>6. ASSUME NEW r \in DOMAIN V
      PROVE  r \in Rows /\ V[r] \in Values(r) /\ r # User /\ r \notin DeviceRows
    <2>1. PICK t \in Tokens : r = Token(t)
        BY <1>2, <1>4, <1>5
    <2>2. V[r] \in {[there |-> TRUE], [there |-> FALSE]}
        BY <1>4, <1>5
    <2>3. [there |-> FALSE] \in TokenRow /\ [there |-> TRUE] \in TokenRow
        BY DEF TokenRow
    <2>4. QED
        BY <2>1, <2>2, <2>3, RowKinds, ValuesOf
<1>7. WritesTo(w, V)
    BY <1>1, <1>2, <1>6 DEF WritesTo
<1>8. QED
    BY <1>1, <1>2, <1>3, <1>6, <1>7, AsideKeeps

LEMMA SetPasswordKeeps ==
    ASSUME IInv, NEW w \in Workers, SetPassword(w)
    PROVE  IInv'
<1>1. PICK p \in Passwords : Put(w, Only(User, [db[User] EXCEPT !.password = p]))
    BY DEF SetPassword
<1> DEFINE new == [db[User] EXCEPT !.password = p]
           V == Only(User, new)
<1>2. /\ at[w] = "password" /\ job[w].kind = "change" /\ Dirty(w) = {} /\ Sound(w)
      /\ UNCHANGED <<db, job>> /\ Answers /\ at'[w] = "targets" /\ Moves(w)
      /\ db[User] \in UserRow /\ User \in Rows /\ See(w, User) \in UserRow
    BY KindAt, GoesOn, QuietAnswers, UserIsValue
    DEF SetPassword, Flushing, Moves, IInv, Typed
<1>3. /\ new \in UserRow /\ new.there = db[User].there /\ new.tier = db[User].tier
      /\ new.password \in Passwords /\ new.validFrom = db[User].validFrom
    BY <1>2 DEF UserRow
<1>4. DOMAIN V = {User} /\ V[User] = new /\ Put(w, V)
    BY <1>1, OnlyIs
<1> HIDE DEF new, V
<1>5. PutsOn(w, V)
    BY <1>2, <1>3, <1>4, ValuesOf DEF PutsOn
<1>6. Makes("change", User, db[User], See(w, User))
    <2>1. Written(w)[User] = See(w, User)
        BY <1>2 DEF Written
    <2>2. QED
        BY <1>2, <2>1, WrittenUser
<1>7. \A r \in DOMAIN V : Makes("change", r, See(w, r), V[r])
    BY <1>3, <1>4, <1>6, RowKinds DEF Makes
<1>8. \A d \in Devices : Device(d) \notin DOMAIN V
    BY <1>4, RowKinds
<1>9. ~Made(w) /\ ~Made(w)' /\ ~Registering(w)' /\ Continues(w)
    BY <1>2 DEF Made, Registering, Continues
<1>10. Carries(w)'
    BY <1>2, <1>9 DEF Sound, Carries, StepsOf
<1>11. Guards(w)' /\ Leaves(w)'
    BY <1>2, <1>9 DEF Guards, Leaves
<1>12. QED
    BY <1>2, <1>5, <1>7, <1>8, <1>9, <1>10, <1>11, PutKeeps DEF Sound, Existing

LEMMA LeaveKeeps ==
    ASSUME IInv, NEW w \in Workers, Leave(w)
    PROVE  IInv'
<1> DEFINE r == Device(job[w].device)
           old == db[r]
           new == [db[r] EXCEPT !.revoked = TRUE]
<1>1. /\ at[w] = "leave" /\ job[w].kind = "logout" /\ Sound(w)
      /\ UNCHANGED <<db, job>> /\ Answers /\ at'[w] = "purge" /\ Moves(w)
      /\ PutLoaded(w, Only(r, old), Only(r, new))
    BY KindAt, GoesOn, QuietAnswers DEF Leave, Moves, IInv, Typed
<1>2. job[w].device \in Devices /\ r \in Rows /\ r \in DeviceRows /\ r # User
    BY <1>1, RowKinds DEF Sound, Carries, Carriers
<1>3. old \in DeviceRow /\ old.there /\ old \in Values(r)
    BY <1>1, <1>2, ValuesOf DEF IInv, Typed, Sound, Existing, Carriers
<1>4. new \in DeviceRow /\ new.there /\ new.revoked /\ new \in Values(r)
    <2>1. new \in DeviceRow /\ new.there /\ new.revoked
        BY <1>3 DEF DeviceRow
    <2>2. QED
        BY <2>1, <1>2, ValuesOf
<1> HIDE DEF old, new
<1>5. /\ Local(w) /\ tx'[w].own = tx[w].own /\ Holds(w)' = Holds(w)
      /\ Dirty(w)' = Dirty(w) \cup (IF new = old THEN {} ELSE {r})
      /\ \A q \in Dirty(w) : q # r \/ new = old => tx'[w].dirty[q] = tx[w].dirty[q]
      /\ new # old =>
            /\ tx'[w].dirty[r].assigned = new
            /\ tx'[w].dirty[r].loaded = IF r \in Dirty(w) THEN tx[w].dirty[r].loaded ELSE old
    BY <1>1, <1>2, ReputEffect
<1>6. ASSUME NEW q \in Dirty(w)'
      PROVE  \/ q \in Dirty(w) /\ tx'[w].dirty[q] = tx[w].dirty[q]
             \/ /\ q = r /\ tx'[w].dirty[r].assigned = new
                /\ \/ tx'[w].dirty[r].loaded = old
                   \/ r \in Dirty(w) /\ tx'[w].dirty[r].loaded = tx[w].dirty[r].loaded
    BY <1>5
<1>7. ~Made(w) /\ ~Made(w)' /\ ~Registering(w)'
    BY <1>1 DEF Made, Registering
<1>8. Session(w)'
    <2>1. \A q \in Dirty(w)' : /\ q \in Rows
                               /\ tx'[w].dirty[q].loaded \in Values(q)
                               /\ tx'[w].dirty[q].assigned \in Values(q)
        BY <1>1, <1>2, <1>3, <1>4, <1>6 DEF Sound, Session
    <2>2. QED
        BY <2>1, <1>1, <1>5 DEF Sound, Session, Local
<1>9. Changes(w)'
    <2>1. \A o : Makes("logout", r, o, new)
        BY <1>2, <1>4 DEF Makes
    <2>2. \A q \in Dirty(w)' :
             Makes("logout", q, tx'[w].dirty[q].loaded, tx'[w].dirty[q].assigned)
        BY <2>1, <1>1, <1>6 DEF Sound, Changes
    <2>3. QED
        BY <2>2, <1>1, <1>5 DEF Sound, Changes
<1>10. Existing(w)'
    <2>1. ASSUME NEW d \in Devices, Device(d) \in Dirty(w)'
          PROVE  /\ db[Device(d)].there
                 /\ tx'[w].dirty[Device(d)].loaded.there
                 /\ tx'[w].dirty[Device(d)].assigned.there
        <3>1. CASE Device(d) \in Dirty(w) /\ tx'[w].dirty[Device(d)] = tx[w].dirty[Device(d)]
            BY <3>1, <1>1, <1>7 DEF Sound, Existing
        <3>2. CASE /\ Device(d) = r /\ tx'[w].dirty[r].assigned = new
                   /\ \/ tx'[w].dirty[r].loaded = old
                      \/ r \in Dirty(w) /\ tx'[w].dirty[r].loaded = tx[w].dirty[r].loaded
            BY <3>2, <1>1, <1>3, <1>4, <1>2 DEF Sound, Existing, old
        <3>3. QED
            BY <2>1, <1>6, <3>1, <3>2
    <2>2. QED
        BY <2>1, <1>1, <1>5, <1>7 DEF Sound, Existing
<1>11. Carries(w)'
    BY <1>1, <1>7 DEF Sound, Carries, StepsOf
<1>12. Guards(w)' /\ Leaves(w)'
    BY <1>1, <1>7 DEF Guards, Leaves
<1>13. Sound(w)'
    BY <1>8, <1>9, <1>10, <1>11, <1>12 DEF Sound
<1>14. QED
    BY <1>1, <1>5, <1>13, LocalKeeps

LEMMA StutterKeeps == IInv /\ UNCHANGED <<db, tx, at, job, held, mailed, spent, mix>>
                        /\ now' \in 1 .. MaxTime => IInv'
<1> SUFFICES ASSUME IInv, UNCHANGED <<db, tx, at, job, held, mailed, spent, mix>>,
                    now' \in 1 .. MaxTime
             PROVE  IInv'
    OBVIOUS
<1>1. Typed' /\ Locks' /\ Capped'
    BY DEF IInv, Typed, Locks, Capped, Holds
<1>2. ASSUME NEW w \in Workers PROVE Sound(w)'
    <2>1. Sound(w) /\ Written(w)' = Written(w) /\ Holds(w)' = Holds(w) /\ Dirty(w)' = Dirty(w)
        BY DEF IInv, Written, See, Holds, Dirty
    <2>2. (Made(w)' <=> Made(w)) /\ (Registering(w)' <=> Registering(w))
        BY DEF Made, Registering
    <2>3. Session(w)' /\ Changes(w)'
        BY <2>1 DEF Sound, Session, Changes
    <2>4. Carries(w)'
        BY <2>1, <2>2 DEF Sound, Carries
    <2>5. Existing(w)' /\ Guards(w)'
        BY <2>1, <2>2 DEF Sound, Existing, Guards
    <2>6. Leaves(w)'
        BY <2>1, <2>2 DEF Sound, Leaves
    <2>7. QED
        BY <2>3, <2>4, <2>5, <2>6 DEF Sound
<1>3. QED
    BY <1>1, <1>2 DEF IInv

LEMMA TickKeeps ==
    ASSUME IInv, Tick
    PROVE  IInv'
<1>1. now' \in 1 .. MaxTime
    BY AccountsAssumption DEF IInv, Typed, Tick
<1>2. QED
    BY <1>1, StutterKeeps DEF Tick, session

-----------------------------------------------------------------------------
(* Requests that end *)

LEMMA EndedEffect ==
    ASSUME IInv, NEW w \in Workers, Ended(w)
    PROVE  /\ Moves(w) /\ Holds(w)' = {} /\ Dirty(w)' = {} /\ Sound(w)'
           /\ at'[w] = "idle" /\ job'[w] = NoJob
           /\ DOMAIN tx' = Workers /\ \A v \in Workers \ {w} : tx'[v] = tx[v]
           /\ tx'[w] = [own |-> tx'[w].own, dirty |-> tx'[w].dirty]
<1>1. /\ tx'[w] = Closed /\ at'[w] = "idle" /\ job'[w] = NoJob
      /\ DOMAIN tx' = Workers /\ \A v \in Workers \ {w} : tx'[v] = tx[v] /\ job'[v] = job[v]
      /\ DOMAIN job' = Workers /\ Moves(w)
    BY GoesOn DEF Ended, Keep, Moves, IInv, Typed
<1>2. Holds(w)' = {} /\ Dirty(w)' = {}
    BY <1>1 DEF Holds, Dirty, Closed
<1>3. /\ job'[w].kind = "none" /\ "kind" \in DOMAIN job'[w]
      /\ tx'[w] = [own |-> tx'[w].own, dirty |-> tx'[w].dirty]
    BY <1>1 DEF NoJob, Closed
<1>4. ~Registering(w)' /\ ~Made(w)'
    BY <1>3 DEF Made, Registering
<1>5. Session(w)' /\ Changes(w)'
    BY <1>1, <1>2, <1>3 DEF Session, Changes
<1>6. Carries(w)'
    BY <1>1, <1>3, <1>4 DEF Carries, StepsOf, Carriers
<1>7. Existing(w)' /\ Guards(w)' /\ Leaves(w)'
    BY <1>1, <1>2, <1>3, <1>4 DEF Existing, Guards, Leaves, Carriers
<1>8. QED
    BY <1>1, <1>2, <1>3, <1>5, <1>6, <1>7 DEF Sound

LEMMA RollbackKeeps ==
    ASSUME IInv, NEW w \in Workers, Rollback(w)
    PROVE  IInv'
<1>1. Ended(w) /\ UNCHANGED db /\ Answers
    BY QuietAnswers DEF Rollback, RollbackSession
<1>2. QED
    BY <1>1, EndedEffect, LocalKeeps DEF Local

\* What a commit makes of the stored rows.
LEMMA CommitEffect ==
    ASSUME IInv, NEW w \in Workers, CommitSession(w)
    PROVE  /\ db' = Written(w) /\ DOMAIN db' = Rows /\ \A r \in Rows : db'[r] \in Values(r)
           /\ db'[User] \in UserRow /\ Makes(job[w].kind, User, db[User], db'[User])
           /\ \A d \in Devices :
                 /\ db'[Device(d)] \in DeviceRow
                 /\ db'[Device(d)].there <=> (db[Device(d)].there \/ (Made(w) /\ d = job[w].device))
                 /\ db[Device(d)].revoked => db'[Device(d)].revoked
           /\ \A v \in Workers \ {w} : \A r \in Holds(v) \cap ({User} \cup DeviceRows) :
                 r \in Rows /\ db'[r] = db[r]
           /\ \A v \in Workers \ {w} : User \in Holds(v) => ~Made(w)
           /\ job[w].kind = "register" => ~db[User].there \/ db'[User] = db[User]
<1>1. /\ db' = Written(w) /\ at[w] = "commit" /\ ~Conflicts(w)
      /\ \A r \in Dirty(w) : FreeFor(w, r)
    BY DEF CommitSession, FreeAll
<1>2. DOMAIN db' = Rows /\ \A r \in Rows : db'[r] \in Values(r)
    BY <1>1, WrittenValue DEF Written
<1>3. db'[User] \in UserRow /\ Makes(job[w].kind, User, db[User], db'[User])
    BY <1>1, WrittenUser
<1>4. ASSUME NEW d \in Devices
      PROVE  /\ db'[Device(d)] \in DeviceRow
             /\ db'[Device(d)].there <=> (db[Device(d)].there \/ (Made(w) /\ d = job[w].device))
             /\ db[Device(d)].revoked => db'[Device(d)].revoked
    BY <1>1, <1>2, WrittenDevice, RowKinds, ValuesOf
<1>5. ASSUME NEW v \in Workers \ {w}, NEW r \in Holds(v) \cap ({User} \cup DeviceRows)
      PROVE  r \in Rows /\ db'[r] = db[r]
    <2>1. r \in Rows
        BY RowKinds
    <2>2. r \notin Holds(w)
        BY DEF IInv, Locks
    <2>3. r \notin Dirty(w)
        BY <1>1 DEF FreeFor
    <2>4. QED
        BY <1>1, <2>1, <2>2, <2>3 DEF Written, See
<1>6. ASSUME NEW v \in Workers \ {w}, User \in Holds(v) PROVE ~Made(w)
    BY <1>6 DEF IInv, Locks, Sound, Guards, Made
<1>7. ASSUME job[w].kind = "register" PROVE ~db[User].there \/ db'[User] = db[User]
    <2>1. /\ User \notin Holds(w) /\ User \in Rows
          /\ User \in Dirty(w) => /\ ~tx[w].dirty[User].loaded.there
                                  /\ tx[w].dirty[User].assigned.there
        BY <1>7, RowKinds DEF IInv, Sound, Guards
    <2>2. See(w, User) = db[User]
        BY <2>1 DEF See
    <2>3. CASE User \in Dirty(w)
        <3>1. tx[w].dirty[User].loaded.there = See(w, User).there
            BY <1>1, <2>1, <2>3 DEF Conflicts
        <3>2. QED
            BY <2>1, <2>2, <2>3, <3>1
    <2>4. CASE User \notin Dirty(w)
        BY <1>1, <2>1, <2>2, <2>4 DEF Written
    <2>5. QED
        BY <2>3, <2>4
<1>8. QED
    BY <1>1, <1>2, <1>3, <1>4, <1>5, <1>6, <1>7

\* What stays active of another request does not grow.
LEMMA OthersLeave ==
    ASSUME IInv, NEW w \in Workers, CommitSession(w), NEW v \in Workers \ {w}, tx'[v] = tx[v],
           User \in Holds(v)
    PROVE  Active(Written(v))' \subseteq Active(Written(v))
<1> SUFFICES ASSUME NEW d \in Devices, Written(v)'[Device(d)].there,
                    ~Written(v)'[Device(d)].revoked
             PROVE  Written(v)[Device(d)].there /\ ~Written(v)[Device(d)].revoked
    BY DEF Active
<1> DEFINE r == Device(d)
           old == tx[v].dirty[r].loaded
           new == tx[v].dirty[r].assigned
<1>1. /\ r \in Rows /\ r \in DeviceRows /\ Sound(v)
      /\ Holds(v)' = Holds(v) /\ Dirty(v)' = Dirty(v)
    BY RowKinds DEF IInv, Holds, Dirty
<1>2. /\ db[r] \in DeviceRow /\ db'[r] \in DeviceRow /\ db'[r].there = db[r].there
      /\ db[r].revoked => db'[r].revoked
    <2>1. db[r] \in DeviceRow
        BY <1>1, ValuesOf DEF IInv, Typed
    <2>2. ~Made(w)
        BY CommitEffect
    <2>3. db'[r] \in DeviceRow /\ (db'[r].there <=> db[r].there) /\ (db[r].revoked => db'[r].revoked)
        BY <2>2, CommitEffect
    <2>4. QED
        BY <2>1, <2>3 DEF DeviceRow
<1>3. /\ Written(v)[r] = IF r \in Dirty(v) THEN Changed(See(v, r), old, new) ELSE See(v, r)
      /\ Written(v)'[r] = IF r \in Dirty(v) THEN Changed(See(v, r)', old, new) ELSE See(v, r)'
    BY <1>1 DEF Written
<1>4. CASE r \in Holds(v)
    <2>1. See(v, r)' = See(v, r)
        BY <1>1, <1>4 DEF See
    <2>2. QED
        BY <1>3, <2>1
<1>5. CASE r \notin Holds(v)
    <2>1. See(v, r) = db[r] /\ See(v, r)' = db'[r]
        BY <1>1, <1>5 DEF See
    <2>2. CASE r \in Dirty(v)
        <3>1. old \in DeviceRow /\ new \in DeviceRow
            BY <1>1, <2>2, ValuesOf DEF Sound, Session
        <3>2. old.there /\ new.there /\ (old.revoked => new.revoked)
            BY <1>1, <2>2 DEF Sound, Existing, Changes, Makes
        <3> DEFINE a == Changed(db[r], old, new)
                   b == Changed(db'[r], old, new)
        <3>3. /\ a.there = IF new.there # old.there THEN new.there ELSE db[r].there
              /\ a.revoked = IF new.revoked # old.revoked THEN new.revoked ELSE db[r].revoked
              /\ b.there = IF new.there # old.there THEN new.there ELSE db'[r].there
              /\ b.revoked = IF new.revoked # old.revoked THEN new.revoked ELSE db'[r].revoked
            BY <1>2, <3>1, ChangedDevice
        <3>4. Written(v)[r] = a /\ Written(v)'[r] = b
            BY <1>3, <2>1, <2>2
        <3> HIDE DEF a, b
        <3>5. /\ old.revoked \in BOOLEAN /\ new.revoked \in BOOLEAN
              /\ db[r].revoked \in BOOLEAN /\ db'[r].revoked \in BOOLEAN
              /\ old.there \in BOOLEAN /\ new.there \in BOOLEAN
            BY <1>2, <3>1 DEF DeviceRow
        <3>6. b.there /\ ~b.revoked
            BY <3>4
        <3>7. a.there /\ ~a.revoked
            BY <1>2, <3>2, <3>3, <3>5, <3>6
        <3>8. QED
            BY <3>4, <3>7
    <2>3. CASE r \notin Dirty(v)
        BY <1>2, <1>3, <2>1, <2>3
    <2>4. QED
        BY <2>2, <2>3
<1>6. QED
    BY <1>4, <1>5

LEMMA CommitAnswers ==
    ASSUME IInv, NEW w \in Workers, Commit(w)
    PROVE  Answers
<1>1. /\ CommitSession(w) /\ Carries(w) /\ at[w] = "commit"
      /\ UNCHANGED <<mailed, now, mix>>
    BY DEF IInv, Sound, Commit, CommitSession, world
<1>2. held' \subseteq Claims
    <2>1. held \subseteq Claims
        BY DEF IInv, Typed
    <2>2. CASE job[w].kind \in {"login", "google", "renew"}
        <3> DEFINE c == [device |-> job[w].device, issued |-> job[w].issued, by |-> job[w].by]
        <3>1. /\ job[w].device \in Devices /\ job[w].issued \in 1 .. MaxTime
              /\ job[w].by \in Passwords \cup {"google"}
            BY <1>1, <2>2 DEF Carries, Made, Registering, Carriers
        <3>2. c \in Claims
            BY <3>1 DEF Claims
        <3>3. held' = held \cup {c}
            BY <2>2 DEF Commit
        <3>4. QED
            BY <2>1, <3>2, <3>3
    <2>3. CASE job[w].kind = "change"
        <3>1. db'[User].password \in Passwords
            <4>1. db[User].password \in Passwords
                BY <1>1, <2>3 DEF Carries
            <4>2. Makes(job[w].kind, User, db[User], db'[User])
                BY <1>1, CommitEffect
            <4>3. QED
                BY <4>1, <4>2 DEF Makes
        <3>2. held' = {[c EXCEPT !.by = IF c.device = job[w].device
                                         THEN db'[User].password ELSE @] : c \in held}
            BY <2>3 DEF Commit
        <3>3. ASSUME NEW c \in held
              PROVE  [c EXCEPT !.by = IF c.device = job[w].device
                                      THEN db'[User].password ELSE @] \in Claims
            BY <2>1, <3>1 DEF Claims
        <3>4. QED
            BY <3>2, <3>3
    <2>4. CASE job[w].kind \notin {"login", "google", "renew", "change"}
        BY <2>1, <2>4 DEF Commit
    <2>5. QED
        BY <2>2, <2>3, <2>4
<1>3. spent' \in [Tokens -> Nat]
    BY <1>1 DEF IInv, Typed, Carries, Commit
<1>4. QED
    BY <1>1, <1>2, <1>3 DEF Answers, IInv, Typed

LEMMA CommitKeeps ==
    ASSUME IInv, NEW w \in Workers, Commit(w)
    PROVE  IInv'
<1>1. /\ CommitSession(w) /\ Ended(w) /\ at[w] = "commit" /\ Answers
      /\ Carries(w) /\ Leaves(w)
    BY CommitAnswers DEF Commit, CommitSession, IInv, Sound
<1>2. /\ Moves(w) /\ Holds(w)' = {} /\ Dirty(w)' = {} /\ Sound(w)'
      /\ DOMAIN tx' = Workers /\ \A v \in Workers \ {w} : tx'[v] = tx[v]
    BY <1>1, EndedEffect
<1>3. /\ db' = Written(w) /\ DOMAIN db' = Rows /\ \A r \in Rows : db'[r] \in Values(r)
      /\ Makes(job[w].kind, User, db[User], db'[User])
      /\ \A d \in Devices :
            /\ db'[Device(d)].there <=> (db[Device(d)].there \/ (Made(w) /\ d = job[w].device))
            /\ db[Device(d)].revoked => db'[Device(d)].revoked
      /\ \A v \in Workers \ {w} : \A r \in Holds(v) \cap ({User} \cup DeviceRows) :
            r \in Rows /\ db'[r] = db[r]
    BY <1>1, CommitEffect
<1>4. Typed'
    BY <1>1, <1>2, <1>3 DEF Typed, Answers, Moves
<1>5. Locks'
    <2>1. \A v \in Workers \ {w} : Holds(v)' = Holds(v)
        BY <1>2 DEF Holds
    <2>2. QED
        BY <2>1, <1>2 DEF IInv, Locks
<1>6. db'[User].tier = db[User].tier
    BY <1>3 DEF Makes
<1>7. Capped'
    <2>1. CASE Registering(w)
        BY <2>1, <1>1, <1>3, <1>6 DEF Capped, Leaves
    <2>2. CASE ~Registering(w)
        <3>1. Active(db') \subseteq Active(db)
            BY <2>2, <1>3, WrittenActive DEF Made
        <3>2. Two(Active(db)) => Two(Active(db'))
            BY <3>1 DEF Two
        <3>3. QED
            BY <1>6, <3>2 DEF IInv, Capped
    <2>3. QED
        BY <2>1, <2>2
<1>8. ASSUME NEW v \in Workers \ {w} PROVE Sound(v)'
    <2>1. /\ Sound(v) /\ tx'[v] = tx[v] /\ at'[v] = at[v] /\ job'[v] = job[v]
          /\ Holds(v)' = Holds(v) /\ Dirty(v)' = Dirty(v)
          /\ \A r \in Holds(v) \cap ({User} \cup DeviceRows) : db'[r] = db[r]
        BY <1>2, <1>3 DEF IInv, Moves, Holds, Dirty
    <2>2. (Made(v)' <=> Made(v)) /\ (Registering(v)' <=> Registering(v))
        BY <2>1 DEF Made, Registering
    <2>3. Session(v)'
        BY <2>1 DEF Sound, Session
    <2>4. Carries(v)'
        <3>1. db[User].password \in Passwords => db'[User].password \in Passwords
            BY <1>3 DEF Makes
        <3>2. QED
            BY <2>1, <2>2, <3>1 DEF Sound, Carries
    <2>5. Changes(v)'
        <3>1. ASSUME NEW r \in Holds(v) PROVE Makes(job[v].kind, r, db'[r], tx[v].own[r])
            <4>1. CASE r \in {User} \cup DeviceRows
                BY <2>1, <4>1 DEF Sound, Changes
            <4>2. CASE r \notin {User} \cup DeviceRows
                BY <4>2 DEF Makes
            <4>3. QED
                BY <4>1, <4>2
        <3>2. QED
            BY <2>1, <3>1 DEF Sound, Changes
    <2>6. Existing(v)'
        <3>1. job[v].kind \in Carriers => job[v].device \in Devices
            BY <2>1 DEF Sound, Carries
        <3>2. QED
            BY <2>1, <2>2, <3>1, <1>3 DEF Sound, Existing
    <2>7. Guards(v)'
        <3>1. ASSUME Made(v), NEW r, r = Device(job[v].device)
              PROVE  r \in Holds(v) /\ ~db'[r].there /\ tx[v].own[r].there /\ ~tx[v].own[r].revoked
            <4>1. r \in DeviceRows
                BY <2>1, <3>1, RowKinds DEF Sound, Carries
            <4>2. QED
                BY <4>1, <2>1, <3>1 DEF Sound, Guards
        <3>2. QED
            BY <2>1, <2>2, <3>1 DEF Sound, Guards
    <2>8. Leaves(v)'
        <3>1. CASE User \in Holds(v)
            <4>1. Active(Written(v))' \subseteq Active(Written(v))
                BY <1>1, <2>1, <3>1, OthersLeave
            <4>2. Two(Active(Written(v))) => Two(Active(Written(v))')
                BY <4>1 DEF Two
            <4>3. Leaves(v)
                BY <2>1 DEF Sound
            <4>4. Registering(v) /\ at[v] \in {"purge", "commit"} /\ db[User].tier # "FREEMIUM" =>
                     Two(Active(Written(v))')
                BY <4>2, <4>3 DEF Leaves
            <4>5. job[v].kind = "change" /\ at[v] \in {"purge", "commit"} =>
                     Active(Written(v))' \subseteq {job[v].device}
                BY <4>1, <4>3, <3>1 DEF Leaves
            <4>6. job[v].kind = "reset" /\ at[v] \in {"purge", "spend", "commit"} =>
                     Active(Written(v))' = {}
                BY <4>1, <4>3 DEF Leaves
            <4>7. QED
                BY <4>4, <4>5, <4>6, <2>1, <2>2, <1>6 DEF Leaves
        <3>2. CASE User \notin Holds(v)
            <4>1. ~(Registering(v) /\ at[v] \in {"purge", "commit"})
                  /\ ~(job[v].kind = "reset" /\ at[v] \in {"purge", "spend", "commit"})
                BY <2>1, <3>2 DEF Sound, Guards
            <4>2. QED
                BY <2>1, <2>2, <3>2, <4>1 DEF Leaves
        <3>3. QED
            BY <3>1, <3>2
    <2>9. QED
        BY <2>3, <2>4, <2>5, <2>6, <2>7, <2>8 DEF Sound
<1>9. QED
    BY <1>2, <1>4, <1>5, <1>7, <1>8 DEF IInv

-----------------------------------------------------------------------------
(* Every behaviour *)

LEMMA InitIsSound == Init => IInv
<1> SUFFICES ASSUME Init PROVE IInv
    OBVIOUS
<1>1. PICK tier \in {"FREEMIUM", "STANDARD"}, known \in BOOLEAN, p \in Passwords :
          RequestsInit([r \in Rows |->
               CASE r = User -> [there |-> known, active |-> known,
                                 password |-> IF known THEN p ELSE "none",
                                 validFrom |-> 0, tier |-> tier]
                 [] r = Sub -> [there |-> FALSE, device |-> 0]
                 [] r \in {Device(d) : d \in Devices} ->
                      [there |-> FALSE, revoked |-> FALSE, touched |-> FALSE]
                 [] OTHER -> [there |-> FALSE]])
    BY DEF Init
<1> DEFINE user == [there |-> known, active |-> known,
                    password |-> IF known THEN p ELSE "none", validFrom |-> 0, tier |-> tier]
           sub == [there |-> FALSE, device |-> 0]
           device == [there |-> FALSE, revoked |-> FALSE, touched |-> FALSE]
           token == [there |-> FALSE]
<1>2. /\ DOMAIN db = Rows
      /\ \A r \in Rows : db[r] = CASE r = User -> user
                                   [] r = Sub -> sub
                                   [] r \in {Device(d) : d \in Devices} -> device
                                   [] OTHER -> token
      /\ tx = [w \in Workers |-> Closed] /\ at = [w \in Workers |-> "idle"]
      /\ job = [w \in Workers |-> NoJob]
    BY <1>1 DEF RequestsInit
<1>3. user \in UserRow /\ sub \in SubRow /\ token \in TokenRow
    <2>1. 0 \in 0 .. MaxTime
        BY AccountsAssumption
    <2>2. QED
        BY <2>1 DEF UserRow, SubRow, TokenRow
<1>4. device \in DeviceRow /\ ~device.revoked /\ ~device.there
    BY DEF DeviceRow
<1> HIDE DEF user, sub, device, token
<1>5. /\ db[User] = user /\ db[Sub] = sub /\ db[Account] = token
      /\ \A r \in DeviceRows : db[r] = device
      /\ \A t \in Tokens : db[Token(t)] = token
    BY <1>2, RowKinds DEF DeviceRows
<1>6. \A r \in Rows : db[r] \in Values(r)
    BY <1>3, <1>4, <1>5, RowKinds, ValuesOf
<1>7. Typed
    <2>1. now \in 1 .. MaxTime
        BY AccountsAssumption DEF Init
    <2>2. DOMAIN tx = Workers /\ DOMAIN at = Workers /\ DOMAIN job = Workers
        BY <1>2
    <2>3. held \subseteq Claims /\ mailed \subseteq Tokens /\ spent \in [Tokens -> Nat] /\ mix \in Mixes
        BY DEF Init
    <2>4. QED
        BY <1>2, <1>6, <2>1, <2>2, <2>3 DEF Typed
<1>8. ASSUME NEW w \in Workers PROVE Holds(w) = {} /\ Sound(w)
    <2>1. tx[w] = Closed /\ at[w] = "idle" /\ job[w] = NoJob
        BY <1>2
    <2>2. /\ Holds(w) = {} /\ Dirty(w) = {} /\ job[w].kind = "none" /\ "kind" \in DOMAIN job[w]
          /\ tx[w] = [own |-> tx[w].own, dirty |-> tx[w].dirty]
        BY <2>1 DEF Holds, Dirty, Closed, NoJob
    <2>3. ~Registering(w) /\ ~Made(w)
        BY <2>2 DEF Made, Registering
    <2>4. Session(w) /\ Changes(w)
        BY <2>1, <2>2 DEF Session, Changes
    <2>5. Carries(w)
        BY <2>1, <2>2, <2>3 DEF Carries, StepsOf, Carriers
    <2>6. Existing(w) /\ Guards(w) /\ Leaves(w)
        BY <2>1, <2>2, <2>3 DEF Existing, Guards, Leaves, Carriers
    <2>7. QED
        BY <2>2, <2>4, <2>5, <2>6 DEF Sound
<1>9. Capped
    <2>1. Active(db) = {}
        BY <1>4, <1>5, RowKinds DEF Active
    <2>2. QED
        BY <2>1 DEF Capped, Two
<1>10. QED
    BY <1>7, <1>8, <1>9 DEF IInv, Locks

LEMMA NextKeeps == IInv /\ [Next]_vars => IInv'
<1> SUFFICES ASSUME IInv, [Next]_vars PROVE IInv'
    OBVIOUS
<1>1. CASE UNCHANGED vars
    BY <1>1, StutterKeeps DEF vars, IInv, Typed
<1>2. CASE Tick
    BY <1>2, TickKeeps
<1>3. ASSUME NEW w \in Workers,
             \/ Register(w) \/ Login(w) \/ Google(w) \/ SetStatus(w) \/ ForceSignOut(w)
      PROVE  IInv'
    BY <1>3, RegisterKeeps, LoginKeeps, GoogleKeeps, SetStatusKeeps, ForceSignOutKeeps
<1>4. ASSUME NEW w \in Workers, NEW c \in held,
             \/ Touch(w, c) \/ Renew(w, c) \/ RevokeDevices(w, c)
             \/ Logout(w, c) \/ Subscribe(w, c) \/ ChangePassword(w, c)
      PROVE  IInv'
    BY <1>4, CarriersKeep
<1>5. ASSUME NEW w \in Workers, NEW t \in Tokens, Forgot(w, t) \/ ResetPassword(w, t)
      PROVE  IInv'
    BY <1>5, ForgotKeeps, ResetPasswordKeeps
<1>6. ASSUME NEW w \in Workers,
             \/ Lock(w) \/ NewDevice(w) \/ Overflow(w) \/ Purge(w) \/ Leave(w) \/ Endpoint(w)
      PROVE  IInv'
    BY <1>6, LockKeeps, NewDeviceKeeps, OverflowKeeps, PurgeKeeps, LeaveKeeps, EndpointKeeps
<1>7. ASSUME NEW w \in Workers,
             \/ SetPassword(w) \/ Targets(w) \/ CreateToken(w) \/ Spend(w)
             \/ Commit(w) \/ Rollback(w) \/ (Flush(w) /\ Quiet)
      PROVE  IInv'
    BY <1>7, SetPasswordKeeps, TargetsKeeps, CreateTokenKeeps, SpendKeeps, CommitKeeps,
       RollbackKeeps, FlushKeeps
<1>8. QED
    BY <1>1, <1>2, <1>3, <1>4, <1>5, <1>6, <1>7 DEF Next

\* The invariant that carries the cap and the sign-outs: what each open transaction holds,
\* has assigned and will leave active.
THEOREM AccountInvariant == Spec => []IInv
    BY InitIsSound, NextKeeps, PTL DEF Spec

\* Every row, claim and counter has the type of its column or token.
THEOREM AccountTyped == Spec => []TypeOK
<1>1. IInv => TypeOK
    <2> SUFFICES ASSUME IInv PROVE TypeOK
        OBVIOUS
    <2>1. /\ db[User] \in UserRow /\ db[Sub] \in SubRow /\ db[Account] \in TokenRow
          /\ \A d \in Devices : db[Device(d)] \in DeviceRow
          /\ \A t \in Tokens : db[Token(t)] \in TokenRow
        BY RowKinds, ValuesOf DEF IInv, Typed
    <2>2. QED
        BY <2>1 DEF TypeOK, IInv, Typed
<1>2. QED
    BY <1>1, AccountInvariant, PTL

-----------------------------------------------------------------------------
(* The cap, and sign-outs *)

LEMMA AtMostOne ==
    ASSUME NEW S, NEW a, S \subseteq {a}
    PROVE  Cardinality(S) <= 1
<1>1. CASE S = {}
    BY <1>1, FS_EmptySet
<1>2. CASE S = {a}
    <2>1. Cardinality({a}) = 1
        BY FS_Singleton
    <2>2. QED
        BY <1>2, <2>1
<1>3. QED
    BY <1>1, <1>2

LEMMA AtMostTwo ==
    ASSUME NEW S, Two(S)
    PROVE  Cardinality(S) <= 2
<1>1. PICK a, b : S \subseteq {a, b}
    BY DEF Two
<1>2. IsFiniteSet({a}) /\ Cardinality({a}) = 1
    BY FS_Singleton
<1>3. IsFiniteSet({a} \cup {b}) /\ Cardinality({a} \cup {b}) \in {1, 2}
    <2>1. /\ IsFiniteSet({a} \cup {b})
          /\ \/ Cardinality({a} \cup {b}) = Cardinality({a})
             \/ Cardinality({a} \cup {b}) = Cardinality({a}) + 1
        BY <1>2, FS_AddElement
    <2>2. QED
        BY <1>2, <2>1
<1>4. Cardinality(S) \in Nat /\ Cardinality(S) <= Cardinality({a} \cup {b})
    <2>1. S \subseteq {a} \cup {b}
        BY <1>1
    <2>2. QED
        BY <1>3, <2>1, FS_Subset, FS_CardinalityType
<1>5. QED
    BY <1>3, <1>4

\* A paid account has two active devices at most, however many requests meet.
THEOREM AtMostTwoDevices == Spec => []DeviceCap
<1>1. IInv => DeviceCap
    BY AtMostTwo DEF IInv, Capped, DeviceCap, DEVICE_LIMIT
<1>2. QED
    BY <1>1, AccountInvariant, PTL

\* Only a commit changes what is stored.
LEMMA StoredByCommit == [Next]_vars => UNCHANGED db \/ \E w \in Workers : Commit(w)
<1> SUFFICES ASSUME [Next]_vars PROVE UNCHANGED db \/ \E w \in Workers : Commit(w)
    OBVIOUS
<1>1. CASE UNCHANGED vars
    BY <1>1 DEF vars
<1>2. CASE Tick
    BY <1>2 DEF Tick
<1>3. ASSUME NEW w \in Workers,
             \/ Register(w) \/ Login(w) \/ Google(w) \/ SetStatus(w) \/ ForceSignOut(w)
      PROVE  UNCHANGED db
    BY <1>3 DEF Register, Login, Google, SetStatus, ForceSignOut
<1>4. ASSUME NEW w \in Workers, NEW c \in held,
             \/ Touch(w, c) \/ Renew(w, c) \/ RevokeDevices(w, c)
             \/ Logout(w, c) \/ Subscribe(w, c) \/ ChangePassword(w, c)
      PROVE  UNCHANGED db
    BY <1>4 DEF Touch, Renew, RevokeDevices, Logout, Subscribe, ChangePassword, Enter
<1>5. ASSUME NEW w \in Workers, NEW t \in Tokens, Forgot(w, t) \/ ResetPassword(w, t)
      PROVE  UNCHANGED db
    BY <1>5 DEF Forgot, ResetPassword
<1>6. ASSUME NEW w \in Workers,
             \/ Lock(w) \/ NewDevice(w) \/ Overflow(w) \/ Purge(w) \/ Leave(w) \/ Endpoint(w)
      PROVE  UNCHANGED db
    BY <1>6 DEF Lock, NewDevice, Overflow, Purge, Leave, Endpoint
<1>7. ASSUME NEW w \in Workers,
             \/ SetPassword(w) \/ Targets(w) \/ CreateToken(w) \/ Spend(w)
             \/ Rollback(w) \/ (Flush(w) /\ Quiet)
      PROVE  UNCHANGED db
    BY <1>7 DEF SetPassword, Targets, CreateToken, Spend, Rollback, RollbackSession, Flush
<1>8. QED
    BY <1>1, <1>2, <1>3, <1>4, <1>5, <1>6, <1>7 DEF Next

\* The commit of a new password leaves no device but the one that changed it.
LEMMA NewPasswordLeaves ==
    ASSUME IInv, NEW w \in Workers, Commit(w), db[User].there,
           db'[User].password # db[User].password
    PROVE  /\ \E a : Active(db') \subseteq {a}
           /\ db'[User].validFrom # db[User].validFrom => Active(db') = {}
<1>1. /\ CommitSession(w) /\ at[w] = "commit" /\ db' = Written(w)
      /\ Makes(job[w].kind, User, db[User], db'[User])
      /\ job[w].kind = "register" => ~db[User].there \/ db'[User] = db[User]
      /\ Guards(w) /\ Leaves(w) /\ User \in Rows
    BY CommitEffect, RowKinds DEF Commit, CommitSession, IInv, Sound
<1>2. job[w].kind \in {"change", "reset"}
    BY <1>1 DEF Makes
<1>3. CASE job[w].kind = "change"
    <2>1. User \notin Dirty(w)
        BY <1>1, <1>3 DEF Guards
    <2>2. User \in Holds(w)
        BY <1>1, <2>1 DEF Written, See
    <2>3. Active(db') \subseteq {job[w].device}
        BY <1>1, <1>3, <2>2 DEF Leaves
    <2>4. db'[User].validFrom = db[User].validFrom
        BY <1>1, <1>3 DEF Makes
    <2>5. QED
        BY <2>3, <2>4
<1>4. CASE job[w].kind = "reset"
    BY <1>1, <1>4 DEF Leaves
<1>5. QED
    BY <1>2, <1>3, <1>4

\* A device that is signed out stays so, and a new password signs the others out.
THEOREM SignOutsAreFinal == Spec => SignOutsHold
<1> DEFINE A == /\ \A d \in Devices : db[Device(d)].revoked => db'[Device(d)].revoked
                /\ db[User].there /\ db'[User].password # db[User].password =>
                      Cardinality(Active(db')) <= 1
                      /\ (db'[User].validFrom # db[User].validFrom => Active(db') = {})
<1>1. IInv /\ [Next]_vars => A
    <2> SUFFICES ASSUME IInv, [Next]_vars PROVE A
        OBVIOUS
    <2>1. CASE UNCHANGED db
        BY <2>1
    <2>2. ASSUME NEW w \in Workers, Commit(w) PROVE A
        <3>1. \A d \in Devices : db[Device(d)].revoked => db'[Device(d)].revoked
            BY <2>2, CommitEffect DEF Commit
        <3>2. ASSUME db[User].there, db'[User].password # db[User].password
              PROVE  /\ Cardinality(Active(db')) <= 1
                     /\ db'[User].validFrom # db[User].validFrom => Active(db') = {}
            BY <2>2, <3>2, NewPasswordLeaves, AtMostOne
        <3>3. QED
            BY <3>1, <3>2
    <2>3. QED
        BY <2>1, <2>2, StoredByCommit
<1>2. IInv /\ [Next]_vars => [A]_vars
    BY <1>1
<1>3. QED
    BY <1>2, AccountInvariant, PTL DEF Spec, SignOutsHold

-----------------------------------------------------------------------------
(* One request at a time *)

Alone == \A v, w \in Workers : at[v] # "idle" /\ at[w] # "idle" => v = w

\* Nothing of a row is changed yet.
Untouched(w, rows) == rows \cap (Holds(w) \cup Dirty(w)) = {}

\* The subscription stays with a device that stays: until the revoked devices' is deleted
\* it is as stored, and only they leave.
Follows(w) ==
    /\ at[w] \notin {"spend", "commit"} => Untouched(w, {Sub})
    /\ at[w] \notin {"purge", "spend", "commit"} => Active(db) \subseteq Active(Written(w))
    /\ at[w] = "purge" => Active(db) \ job[w].ids \subseteq Active(Written(w))
    /\ at[w] \in {"spend", "commit"} /\ Written(w)[Sub].there =>
          Written(w)[Sub].device \in Active(Written(w))
    /\ at[w] = "leave" => job[w].ids = {job[w].device}
    /\ job[w].kind = "subscribe" => job[w].device \in Active(db)

TokensOf(rows) == {t \in Tokens : rows[Token(t)].there}
Storing(w) == job[w].kind \in {"forgot", "reset"} /\ at[w] = "commit"

\* A token that is stored or used is not used up, and is the last.
Spends(w) ==
    /\ job[w].kind \in {"forgot", "reset"} => spent[job[w].token] = 0
    /\ job[w].kind = "reset" => job[w].token \in mailed
Replaces(w) ==
    /\ Storing(w) => TokensOf(Written(w)) \subseteq
                        IF job[w].kind = "forgot" THEN {job[w].token} ELSE {}
    /\ ~Storing(w) => Untouched(w, {Token(t) : t \in Tokens})

\* The session it opens, or opens again, is the student's.
Opens(w) ==
    /\ job[w].kind \in {"login", "renew"} =>
          db[User].there /\ job[w].by \in {"google", db[User].password}
    /\ job[w].kind = "google" => Written(w)[User].there /\ job[w].by = "google"

\* Every token given out is of a stored device, and of the student's if that is active.
Opened ==
    /\ held # {} => db[User].there
    /\ \A c \in held : /\ db[Device(c.device)].there
                       /\ c.device \in Active(db) => c.by \in {"google", db[User].password}

TokensKept ==
    /\ \A t, u \in TokensOf(db) : t = u
    /\ \A t \in Tokens : /\ spent[t] \in {0, 1}
                         /\ spent[t] = 1 => t \notin TokensOf(db) /\ t \in mailed

Serial ==
    "serial" \in mix =>
       /\ Alone /\ SubsFollowDevices /\ TokensKept /\ Opened
       /\ \A w \in Workers : at[w] # "idle" => Follows(w) /\ Spends(w) /\ Replaces(w) /\ Opens(w)

\* No other request is open.
Sole(w) == \A v \in Workers \ {w} : at[v] = "idle"

LEMMA SerialKeeps ==
    ASSUME IInv, Serial, "serial" \in mix, NEW w \in Workers, Sole(w), Moves(w),
           UNCHANGED <<db, held, spent, mix>>, mailed \subseteq mailed',
           at'[w] # "idle" => Follows(w)' /\ Spends(w)' /\ Replaces(w)' /\ Opens(w)'
    PROVE  Serial'
<1>1. \A v \in Workers : v = w \/ at'[v] = "idle"
    BY DEF Sole, Moves
<1>2. Alone'
    BY <1>1 DEF Alone
<1>3. SubsFollowDevices' /\ TokensKept' /\ Opened'
    BY DEF Serial, SubsFollowDevices, TokensKept, TokensOf, Opened, Active
<1>4. QED
    BY <1>1, <1>2, <1>3 DEF Serial

LEMMA UntouchedIs ==
    ASSUME NEW w \in Workers, NEW r \in Rows, Untouched(w, {r})
    PROVE  Written(w)[r] = db[r]
    BY DEF Untouched, Written, See

\* Rows that are neither assigned to nor written stay untouched, and devices that are
\* active as written stay active.
LEMMA StepOn ==
    ASSUME IInv, NEW w \in Workers, NEW V, PutsOn(w, V) \/ WritesTo(w, V)
    PROVE  /\ (\A d \in Devices : Device(d) \in DOMAIN V =>
                 V[Device(d)].there /\ ~V[Device(d)].revoked) =>
                    Active(Written(w)) \subseteq Active(Written(w))'
           /\ \A rows : Untouched(w, rows) /\ rows \cap DOMAIN V = {} => Untouched(w, rows)'
           /\ \A r \in DOMAIN V : Written(w)'[r] = V[r]
           /\ \A r \in Rows \ DOMAIN V : Written(w)'[r] = Written(w)[r]
           /\ UNCHANGED db
<1>1. /\ Holds(w)' \cup Dirty(w)' \subseteq Holds(w) \cup Dirty(w) \cup DOMAIN V
      /\ \A r \in Rows : Written(w)[r] = See(w, r)
      /\ \A r \in DOMAIN V : Written(w)'[r] = V[r]
      /\ \A r \in Rows \ DOMAIN V : Written(w)'[r] = See(w, r)
    <2>1. CASE PutsOn(w, V)
        BY <2>1, PutEffect
    <2>2. CASE WritesTo(w, V)
        BY <2>2, WriteEffect DEF WritesTo
    <2>3. QED
        BY <2>1, <2>2
<1>2. ASSUME \A d \in Devices : Device(d) \in DOMAIN V =>
                V[Device(d)].there /\ ~V[Device(d)].revoked,
             NEW d \in Devices, Written(w)[Device(d)].there, ~Written(w)[Device(d)].revoked
      PROVE  Written(w)'[Device(d)].there /\ ~Written(w)'[Device(d)].revoked
    BY <1>1, <1>2, RowKinds
<1>3. (\A d \in Devices : Device(d) \in DOMAIN V =>
         V[Device(d)].there /\ ~V[Device(d)].revoked) =>
            Active(Written(w)) \subseteq Active(Written(w))'
    BY <1>2 DEF Active
<1>4. ASSUME NEW rows, Untouched(w, rows), rows \cap DOMAIN V = {}
      PROVE  Untouched(w, rows)'
    <2>1. rows \cap (Holds(w)' \cup Dirty(w)') = {}
        BY <1>1, <1>4 DEF Untouched
    <2>2. QED
        BY <2>1 DEF Untouched
<1>5. QED
    BY <1>1, <1>3, <1>4 DEF PutsOn, WritesTo

\* A request that has not touched the subscription.
LEMMA StillFollows ==
    ASSUME NEW w \in Workers, SubsFollowDevices, UNCHANGED db, Untouched(w, {Sub})',
           \/ Active(db) \subseteq Active(Written(w))'
           \/ at'[w] = "purge" /\ Active(db) \ job'[w].ids \subseteq Active(Written(w))',
           at'[w] = "leave" => job'[w].ids = {job'[w].device},
           job'[w].kind = "subscribe" => job'[w].device \in Active(db)
    PROVE  Follows(w)'
<1>1. Active(db)' = Active(db)
    BY DEF Active
<1>2. Written(w)'[Sub] = db[Sub]
    <2>1. Sub \in Rows /\ Sub \notin Holds(w)' /\ Sub \notin Dirty(w)'
        BY RowKinds DEF Untouched
    <2>2. QED
        BY <2>1 DEF Written, See
<1>3. QED
    BY <1>1, <1>2 DEF Follows, SubsFollowDevices

TokenIds == {Token(t) : t \in Tokens}

LEMMA BeginsSole ==
    ASSUME "serial" \in mix, NEW w \in Workers, NEW kind, NEW values, NEW step,
           Begin(w, kind, values, step)
    PROVE  Sole(w)
    BY DEF Begin, MayBegin, Sole

\* A request begins with what is stored.
LEMMA BeginsSerial ==
    ASSUME IInv, Serial, "serial" \in mix, NEW w \in Workers, Sole(w), Moves(w), Quiet,
           UNCHANGED db, Holds(w) = {}, Dirty(w) = {}, NEW V,
           PutsOn(w, V) \/ (UNCHANGED tx /\ DOMAIN V = {}),
           \A d \in Devices : Device(d) \in DOMAIN V =>
              V[Device(d)].there /\ ~V[Device(d)].revoked,
           ({Sub} \cup TokenIds) \cap DOMAIN V = {},
           at'[w] = "leave" => job'[w].ids = {job'[w].device},
           job'[w].kind = "subscribe" => job'[w].device \in Active(db),
           ~Storing(w)', Spends(w)',
           (\A r \in DOMAIN V : Written(w)'[r] = V[r])
              /\ (\A r \in Rows \ DOMAIN V : Written(w)'[r] = db[r]) => Opens(w)'
    PROVE  Serial'
<1>1. \A rows : Untouched(w, rows)
    BY DEF Untouched
<1>2. \A r \in Rows : Written(w)[r] = db[r]
    BY DEF Written, See
<1>3. Active(Written(w)) = Active(db)
    BY <1>2, RowKinds DEF Active
<1>4. /\ Active(db) \subseteq Active(Written(w))'
      /\ Untouched(w, {Sub})' /\ Untouched(w, TokenIds)'
      /\ \A r \in DOMAIN V : Written(w)'[r] = V[r]
      /\ \A r \in Rows \ DOMAIN V : Written(w)'[r] = db[r]
    <2>1. CASE PutsOn(w, V)
        BY <2>1, <1>1, <1>2, <1>3, StepOn
    <2>2. CASE UNCHANGED tx /\ DOMAIN V = {}
        BY <2>2, <1>1, <1>2, <1>3 DEF Active, Written, See, Untouched, Holds, Dirty
    <2>3. QED
        BY <2>1, <2>2
<1>5. SubsFollowDevices
    BY DEF Serial
<1>6. Follows(w)'
    BY <1>4, <1>5, StillFollows
<1>7. Replaces(w)'
    BY <1>4 DEF Replaces, TokenIds
<1>8. QED
    BY <1>4, <1>6, <1>7, SerialKeeps DEF Quiet

LEMMA LoginSerial ==
    ASSUME IInv, Serial, "serial" \in mix, NEW w \in Workers, Login(w)
    PROVE  Serial'
<1> DEFINE values == [by |-> db[User].password]
           V == <<>>
<1>1. /\ Begin(w, "login", values, "lock") /\ UNCHANGED <<db, tx>> /\ Quiet /\ db[User].there
    BY DEF Login
<1>2. DOMAIN values = {"by"} /\ values["by"] = db[User].password /\ DOMAIN V = {}
    OBVIOUS
<1> HIDE DEF values, V
<1>3. /\ Holds(w) = {} /\ Dirty(w) = {} /\ Moves(w) /\ at'[w] = "lock" /\ Sole(w)
      /\ job'[w].kind = "login" /\ job'[w].by = db[User].password
    BY <1>1, <1>2, BeginEffect, BeginsSole
<1>4. ~Storing(w)' /\ Spends(w)' /\ Opens(w)'
    BY <1>1, <1>3 DEF Storing, Spends, Opens
<1>5. QED
    BY <1>1, <1>2, <1>3, <1>4, BeginsSerial

LEMMA ForgotSerial ==
    ASSUME IInv, Serial, "serial" \in mix, NEW w \in Workers, NEW t \in Tokens, Forgot(w, t)
    PROVE  Serial'
<1> DEFINE values == [token |-> t]
           V == <<>>
<1>1. /\ Begin(w, "forgot", values, "token") /\ UNCHANGED <<db, tx>> /\ Quiet /\ t \notin mailed
    BY DEF Forgot
<1>2. DOMAIN values = {"token"} /\ values["token"] = t /\ DOMAIN V = {}
    OBVIOUS
<1> HIDE DEF values, V
<1>3. /\ Holds(w) = {} /\ Dirty(w) = {} /\ Moves(w) /\ at'[w] = "token" /\ Sole(w)
      /\ job'[w].kind = "forgot" /\ job'[w].token = t
    BY <1>1, <1>2, BeginEffect, BeginsSole
<1>4. spent[t] = 0
    BY <1>1 DEF Serial, TokensKept
<1>5. ~Storing(w)' /\ Spends(w)' /\ Opens(w)'
    BY <1>1, <1>3, <1>4 DEF Storing, Spends, Opens, Quiet
<1>6. QED
    BY <1>1, <1>2, <1>3, <1>5, BeginsSerial

\* Requests that first assign to the user.
LEMMA UserSerial ==
    ASSUME IInv, Serial, "serial" \in mix, NEW w \in Workers, NEW kind, NEW values, NEW step,
           Begin(w, kind, values, step), UNCHANGED db, Quiet,
           kind \in {"register", "status", "signout", "reset"}, step # "leave",
           kind = "reset" => step # "commit",
           "kind" \notin DOMAIN values,
           kind = "reset" => /\ "token" \in DOMAIN values /\ values.token \in Tokens \cap mailed
                             /\ db[Token(values.token)].there,
           NEW new \in UserRow, Put(w, Only(User, new))
    PROVE  Serial'
<1> DEFINE V == Only(User, new)
<1>1. DOMAIN V = {User} /\ V[User] = new /\ Put(w, V) /\ User \in Rows
    BY OnlyIs, RowKinds
<1> HIDE DEF V
<1>2. /\ Holds(w) = {} /\ Dirty(w) = {} /\ Moves(w) /\ at'[w] = step /\ Sole(w)
      /\ job'[w].kind = kind /\ \A x \in DOMAIN values : job'[w][x] = values[x]
    BY BeginEffect, BeginsSole
<1>3. PutsOn(w, V)
    BY <1>1, <1>2, ValuesOf DEF PutsOn
<1>4. /\ \A d \in Devices : Device(d) \notin DOMAIN V
      /\ ({Sub} \cup TokenIds) \cap DOMAIN V = {}
    BY <1>1, RowKinds DEF TokenIds
<1>5. Spends(w)'
    <2>1. ASSUME kind = "reset" PROVE job'[w].token \in mailed /\ spent[job'[w].token] = 0
        BY <1>2, <2>1 DEF Serial, TokensKept, TokensOf
    <2>2. QED
        BY <2>1, <1>2 DEF Spends, Quiet
<1>6. ~Storing(w)' /\ Opens(w)'
    BY <1>2 DEF Storing, Opens
<1>7. QED
    BY <1>2, <1>3, <1>4, <1>5, <1>6, BeginsSerial

LEMMA UsersSerial ==
    ASSUME IInv, Serial, "serial" \in mix, NEW w \in Workers,
           \/ Register(w) \/ SetStatus(w) \/ ForceSignOut(w)
           \/ \E t \in Tokens : ResetPassword(w, t)
    PROVE  Serial'
<1>1. db[User] \in UserRow /\ now \in 0 .. MaxTime
    BY UserIsValue
<1>2. CASE Register(w)
    <2>1. PICK p \in Passwords :
              Put(w, Only(User, [db[User] EXCEPT !.there = TRUE, !.active = TRUE, !.password = p]))
        BY <1>2 DEF Register
    <2> DEFINE new == [db[User] EXCEPT !.there = TRUE, !.active = TRUE, !.password = p]
               values == <<>>
    <2>2. new \in UserRow /\ Put(w, Only(User, new))
        BY <1>1, <2>1 DEF UserRow
    <2>3. Begin(w, "register", values, "commit") /\ UNCHANGED db /\ Quiet
        BY <1>2 DEF Register
    <2>4. DOMAIN values = {}
        OBVIOUS
    <2> HIDE DEF new, values
    <2>5. QED
        BY <2>2, <2>3, <2>4, UserSerial
<1>3. CASE SetStatus(w)
    <2> DEFINE new == [db[User] EXCEPT !.active = ~@]
               values == <<>>
    <2>1. new \in UserRow
        BY <1>1 DEF UserRow
    <2>2. /\ Begin(w, "status", values, "commit") /\ UNCHANGED db /\ Quiet
          /\ Put(w, Only(User, new))
        BY <1>3 DEF SetStatus
    <2>3. DOMAIN values = {}
        OBVIOUS
    <2> HIDE DEF new, values
    <2>4. QED
        BY <2>1, <2>2, <2>3, UserSerial
<1>4. CASE ForceSignOut(w)
    <2> DEFINE new == [db[User] EXCEPT !.validFrom = now]
               values == [ids |-> Devices]
    <2>1. new \in UserRow /\ "kind" \notin DOMAIN values
        BY <1>1 DEF UserRow
    <2>2. /\ Begin(w, "signout", values, "purge") /\ UNCHANGED db /\ Quiet
          /\ Put(w, Only(User, new))
        BY <1>4 DEF ForceSignOut
    <2> HIDE DEF new, values
    <2>3. QED
        BY <2>1, <2>2, UserSerial
<1>5. ASSUME NEW t \in Tokens, ResetPassword(w, t) PROVE Serial'
    <2>1. PICK p \in Passwords :
              Put(w, Only(User, [db[User] EXCEPT !.password = p, !.validFrom = now]))
        BY <1>5 DEF ResetPassword
    <2> DEFINE new == [db[User] EXCEPT !.password = p, !.validFrom = now]
               values == [token |-> t, targets |-> Devices]
    <2>2. /\ new \in UserRow /\ Put(w, Only(User, new))
          /\ DOMAIN values = {"token", "targets"} /\ values.token = t
        BY <1>1, <2>1 DEF UserRow
    <2>3. /\ Begin(w, "reset", values, "targets") /\ UNCHANGED db /\ Quiet
          /\ t \in mailed /\ db[Token(t)].there
        BY <1>5 DEF ResetPassword
    <2> HIDE DEF new, values
    <2>4. QED
        BY <2>2, <2>3, UserSerial
<1>6. QED
    BY <1>2, <1>3, <1>4, <1>5

LEMMA GoogleSerial ==
    ASSUME IInv, Serial, "serial" \in mix, NEW w \in Workers, Google(w)
    PROVE  Serial'
<1> DEFINE values == [by |-> "google"]
<1>1. Begin(w, "google", values, "lock") /\ UNCHANGED db /\ Quiet
    BY DEF Google
<1>2. DOMAIN values = {"by"} /\ values["by"] = "google"
    OBVIOUS
<1> HIDE DEF values
<1>3. PICK V : /\ Put(w, V) /\ DOMAIN V \subseteq {User, Account}
               /\ User \in DOMAIN V => V[User] \in UserRow /\ V[User].there
               /\ User \notin DOMAIN V => db[User].there
               /\ Account \in DOMAIN V => V[Account] \in TokenRow
    BY GooglePuts
<1>4. /\ Holds(w) = {} /\ Dirty(w) = {} /\ Moves(w) /\ at'[w] = "lock" /\ Sole(w)
      /\ job'[w].kind = "google" /\ job'[w].by = "google"
    BY <1>1, <1>2, BeginEffect, BeginsSole
<1>5. PutsOn(w, V)
    BY <1>1, <1>3, <1>4, RowKinds, ValuesOf DEF PutsOn
<1>6. /\ \A d \in Devices : Device(d) \notin DOMAIN V
      /\ ({Sub} \cup TokenIds) \cap DOMAIN V = {}
    BY <1>3, RowKinds DEF TokenIds
<1>7. ~Storing(w)' /\ Spends(w)'
    BY <1>4 DEF Storing, Spends
<1>8. (\A r \in DOMAIN V : Written(w)'[r] = V[r])
         /\ (\A r \in Rows \ DOMAIN V : Written(w)'[r] = db[r]) => Opens(w)'
    BY <1>3, <1>4, RowKinds DEF Opens
<1>9. QED
    BY <1>1, <1>4, <1>5, <1>6, <1>7, <1>8, BeginsSerial

LEMMA EnterSerial ==
    ASSUME IInv, Serial, "serial" \in mix, NEW w \in Workers, NEW claims, NEW kind \in Carriers,
           NEW values, NEW step, Enter(w, kind, claims, values, step),
           DOMAIN values \cap {"kind", "device", "by"} = {},
           step = "leave" => "ids" \in DOMAIN values /\ values.ids = {claims.device}
    PROVE  Serial'
<1> DEFINE d == claims.device
           all == Merge(values, [device |-> d, by |-> claims.by])
<1>1. /\ Begin(w, kind, all, step) /\ UNCHANGED db /\ Quiet /\ d \in Devices /\ claims \in held
      /\ db[User].there /\ db[Device(d)].there /\ ~db[Device(d)].revoked
    BY DEF Enter, Accepts, IInv, Typed, Claims
<1>2. /\ DOMAIN all = DOMAIN values \cup {"device", "by"}
      /\ all["device"] = d /\ all["by"] = claims.by
      /\ \A x \in DOMAIN values : all[x] = values[x]
    BY DEF Merge
<1>3. PICK due \in BOOLEAN :
          Put(w, Only(Device(d), [db[Device(d)] EXCEPT !.touched = @ \/ due]))
    BY DEF Enter, Touches
<1> DEFINE r == Device(d)
           new == [db[r] EXCEPT !.touched = @ \/ due]
           V == Only(r, new)
<1>4. r \in Rows /\ r \in DeviceRows /\ r \notin {User, Sub} /\ r \notin TokenIds
    BY <1>1, RowKinds DEF TokenIds
<1>5. db[r] \in DeviceRow
    BY <1>4, ValuesOf DEF IInv, Typed
<1>6. new \in DeviceRow /\ new.there /\ ~new.revoked
    BY <1>1, <1>5 DEF DeviceRow
<1>7. DOMAIN V = {r} /\ V[r] = new /\ Put(w, V)
    BY <1>3, OnlyIs
<1> HIDE DEF new, V, all
<1>8. /\ Holds(w) = {} /\ Dirty(w) = {} /\ Moves(w) /\ at'[w] = step /\ Sole(w)
      /\ job'[w].kind = kind /\ job'[w].device = d /\ job'[w].by = claims.by
      /\ \A x \in DOMAIN values : job'[w][x] = values[x]
    <2>1. "kind" \notin DOMAIN all
        BY <1>2
    <2>2. QED
        BY <1>1, <1>2, <2>1, BeginEffect, BeginsSole
<1>9. PutsOn(w, V)
    BY <1>1, <1>4, <1>6, <1>7, <1>8, ValuesOf DEF PutsOn
<1>10. d \in Active(db) /\ claims.by \in {"google", db[User].password}
    BY <1>1 DEF Active, Serial, Opened
<1>11. ~Storing(w)' /\ Spends(w)' /\ Opens(w)'
    BY <1>1, <1>8, <1>10 DEF Storing, Spends, Opens, Carriers
<1>12. at'[w] = "leave" => job'[w].ids = {job'[w].device}
    BY <1>8
<1>13. /\ \A e \in Devices : Device(e) \in DOMAIN V => V[Device(e)].there /\ ~V[Device(e)].revoked
       /\ ({Sub} \cup TokenIds) \cap DOMAIN V = {}
    BY <1>4, <1>6, <1>7
<1>14. QED
    BY <1>1, <1>8, <1>9, <1>10, <1>11, <1>12, <1>13, BeginsSerial

LEMMA CarriersSerial ==
    ASSUME IInv, Serial, "serial" \in mix, NEW w \in Workers, NEW c \in held,
           \/ Touch(w, c) \/ Renew(w, c) \/ RevokeDevices(w, c)
           \/ Logout(w, c) \/ Subscribe(w, c) \/ ChangePassword(w, c)
    PROVE  Serial'
<1>1. PICK kind, values, step :
         /\ kind \in Carriers /\ Enter(w, kind, c, values, step) /\ DOMAIN values \cap {"kind", "device", "by"} = {}
         /\ step = "leave" => "ids" \in DOMAIN values /\ values.ids = {c.device}
    <2> DEFINE E(kind, values, step) ==
                 /\ kind \in Carriers /\ Enter(w, kind, c, values, step)
                 /\ DOMAIN values \cap {"kind", "device", "by"} = {}
                 /\ step = "leave" => "ids" \in DOMAIN values /\ values.ids = {c.device}
    <2>1. CASE Touch(w, c)
        <3>1. E("touch", <<>>, "commit")
            BY <2>1 DEF Touch, Carriers
        <3>2. QED
            BY <3>1
    <2>2. CASE Renew(w, c)
        <3>1. E("renew", [issued |-> now], "commit")
            BY <2>2 DEF Renew, Carriers
        <3>2. QED
            BY <3>1
    <2>3. CASE RevokeDevices(w, c)
        <3>1. PICK T : Enter(w, "revoke", c, [targets |-> T], "targets")
            BY <2>3 DEF RevokeDevices
        <3>2. E("revoke", [targets |-> T], "targets")
            BY <3>1 DEF Carriers
        <3>3. QED
            BY <3>2
    <2>4. CASE Logout(w, c)
        <3>1. E("logout", [ids |-> {c.device}], "leave")
            BY <2>4 DEF Logout, Carriers
        <3>2. QED
            BY <3>1
    <2>5. CASE Subscribe(w, c)
        <3>1. E("subscribe", <<>>, "endpoint")
            BY <2>5 DEF Subscribe, Carriers
        <3>2. QED
            BY <3>1
    <2>6. CASE ChangePassword(w, c)
        <3>1. E("change", [targets |-> Devices], "password")
            BY <2>6 DEF ChangePassword, Carriers
        <3>2. QED
            BY <3>1
    <2>7. QED
        BY <2>1, <2>2, <2>3, <2>4, <2>5, <2>6
<1>2. QED
    BY <1>1, EnterSerial

\* A step of an open request.
LEMMA ProceedsSerial ==
    ASSUME IInv, Serial, "serial" \in mix, NEW w \in Workers, at[w] # "idle", Moves(w),
           UNCHANGED <<db, held, spent, mix>>, mailed \subseteq mailed',
           job'[w].kind = job[w].kind,
           job[w].kind \in {"login", "google", "renew"} => job'[w].by = job[w].by,
           job[w].kind \in {"forgot", "reset"} => job'[w].token = job[w].token,
           job[w].kind = "google" => Written(w)'[User].there,
           Follows(w)', Replaces(w)'
    PROVE  Serial'
<1>1. Sole(w) /\ Spends(w) /\ Opens(w)
    BY DEF Serial, Alone, Sole
<1>2. Spends(w)'
    BY <1>1 DEF Spends
<1>3. Opens(w)'
    BY <1>1 DEF Opens
<1>4. QED
    BY <1>1, <1>2, <1>3, SerialKeeps

\* A step before the subscription or a token is touched, that signs no one out.
LEMMA StepSerial ==
    ASSUME IInv, Serial, "serial" \in mix, NEW w \in Workers, Moves(w), Quiet,
           at[w] \in {"lock", "device", "password"}, at'[w] # "leave",
           job'[w].kind = job[w].kind,
           job[w].kind \in {"login", "google"} => job'[w].by = job[w].by,
           NEW V, PutsOn(w, V) \/ WritesTo(w, V),
           \A d \in Devices : Device(d) \in DOMAIN V =>
              V[Device(d)].there /\ ~V[Device(d)].revoked,
           ({Sub} \cup TokenIds) \cap DOMAIN V = {},
           User \in DOMAIN V /\ job[w].kind = "google" => V[User].there
    PROVE  Serial'
<1>1. job[w].kind \in {"login", "google", "change"}
    BY KindAt DEF Registering
<1>2. /\ Follows(w) /\ Replaces(w) /\ Opens(w) /\ SubsFollowDevices /\ at[w] # "idle"
    BY DEF Serial
<1>3. /\ Untouched(w, {Sub}) /\ Untouched(w, TokenIds)
      /\ Active(db) \subseteq Active(Written(w))
    BY <1>1, <1>2 DEF Follows, Replaces, Storing, TokenIds
<1>4. /\ Untouched(w, {Sub})' /\ Untouched(w, TokenIds)' /\ UNCHANGED db
      /\ Active(Written(w)) \subseteq Active(Written(w))'
      /\ \A r \in DOMAIN V : Written(w)'[r] = V[r]
      /\ \A r \in Rows \ DOMAIN V : Written(w)'[r] = Written(w)[r]
    BY <1>3, StepOn
<1>5. job[w].kind = "google" => Written(w)'[User].there
    BY <1>2, <1>4, RowKinds DEF Opens
<1>6. Follows(w)'
    BY <1>1, <1>2, <1>3, <1>4, StillFollows
<1>7. Replaces(w)'
    BY <1>1, <1>4 DEF Replaces, Storing, TokenIds
<1>8. QED
    BY <1>1, <1>2, <1>4, <1>5, <1>6, <1>7, ProceedsSerial DEF Quiet

LEMMA LockSerial ==
    ASSUME IInv, Serial, "serial" \in mix, NEW w \in Workers, Lock(w)
    PROVE  Serial'
<1> DEFINE V == Only(User, See(w, User))
<1>1. /\ at[w] = "lock" /\ Dirty(w) = {} /\ UNCHANGED <<db, job>> /\ Quiet /\ Write(w, V)
      /\ See(w, User) \in UserRow /\ User \in Rows
    BY UserIsValue DEF Lock, Flushing
<1>2. Moves(w) /\ at'[w] = "device"
    BY <1>1, GoesOn DEF Lock, Moves, IInv, Typed
<1>3. DOMAIN V = {User} /\ V[User] = See(w, User)
    BY OnlyIs
<1> HIDE DEF V
<1>4. WritesTo(w, V)
    BY <1>1, <1>3, ValuesOf DEF WritesTo
<1>5. /\ \A d \in Devices : Device(d) \notin DOMAIN V
      /\ ({Sub} \cup TokenIds) \cap DOMAIN V = {}
    BY <1>3, RowKinds DEF TokenIds
<1>6. job[w].kind = "google" => V[User].there
    BY <1>1, <1>3 DEF Serial, Opens, Written
<1>7. QED
    BY <1>1, <1>2, <1>4, <1>5, <1>6, StepSerial

LEMMA NewDeviceSerial ==
    ASSUME IInv, Serial, "serial" \in mix, NEW w \in Workers, NewDevice(w)
    PROVE  Serial'
<1> DEFINE d == Earliest(Fresh)
           r == Device(d)
           new == [there |-> TRUE, revoked |-> FALSE, touched |-> FALSE]
           V == Only(r, new)
           values == [device |-> d, issued |-> now]
<1>1. /\ at[w] = "device" /\ Dirty(w) = {} /\ Registering(w) /\ Carries(w)
      /\ UNCHANGED db /\ Quiet /\ Write(w, V)
      /\ job' = [job EXCEPT ![w] = Merge(values, job[w])] /\ Fresh # {}
    BY KindAt DEF NewDevice, Keep, IInv, Sound, Session
<1>2. /\ r \in Rows /\ r \in DeviceRows /\ r # Sub /\ r # User /\ r \notin TokenIds
    BY <1>1, FreshDevice, RowKinds DEF TokenIds
<1>3. /\ new \in DeviceRow /\ new.there /\ ~new.revoked /\ DOMAIN V = {r} /\ V[r] = new
      /\ DOMAIN values = {"device", "issued"}
    BY OnlyIs DEF DeviceRow
<1>4. /\ Moves(w) /\ job'[w] = Merge(values, job[w]) /\ at'[w] # "leave"
    <2>1. DOMAIN job' = Workers /\ \A v \in Workers \ {w} : job'[v] = job[v]
        BY <1>1 DEF IInv, Typed
    <2>2. job'[w] = Merge(values, job[w])
        BY <1>1 DEF IInv, Typed
    <2>3. QED
        BY <2>1, <2>2, GoesOn DEF NewDevice, Moves
<1> HIDE DEF d, r, new, V, values
<1>5. job'[w].kind = job[w].kind /\ job'[w].by = job[w].by
    <2>1. "kind" \in DOMAIN job[w] /\ "by" \in DOMAIN job[w]
        BY <1>1 DEF Carries, Registering
    <2>2. QED
        BY <2>1, <1>3, <1>4 DEF Merge
<1>6. WritesTo(w, V)
    BY <1>1, <1>2, <1>3, ValuesOf DEF WritesTo
<1>7. QED
    BY <1>1, <1>2, <1>3, <1>4, <1>5, <1>6, StepSerial

LEMMA SetPasswordSerial ==
    ASSUME IInv, Serial, "serial" \in mix, NEW w \in Workers, SetPassword(w)
    PROVE  Serial'
<1>1. PICK p \in Passwords : Put(w, Only(User, [db[User] EXCEPT !.password = p]))
    BY DEF SetPassword
<1> DEFINE new == [db[User] EXCEPT !.password = p]
           V == Only(User, new)
<1>2. /\ at[w] = "password" /\ job[w].kind = "change" /\ Dirty(w) = {}
      /\ UNCHANGED <<db, job>> /\ Quiet /\ at'[w] = "targets" /\ Moves(w)
      /\ db[User] \in UserRow /\ User \in Rows
    BY KindAt, GoesOn, UserIsValue DEF SetPassword, Flushing, Moves, IInv, Typed
<1>3. new \in UserRow
    BY <1>2 DEF UserRow
<1>4. DOMAIN V = {User} /\ V[User] = new /\ Put(w, V)
    BY <1>1, OnlyIs
<1> HIDE DEF new, V
<1>5. PutsOn(w, V)
    BY <1>2, <1>3, <1>4, ValuesOf DEF PutsOn
<1>6. /\ \A d \in Devices : Device(d) \notin DOMAIN V
      /\ ({Sub} \cup TokenIds) \cap DOMAIN V = {}
    BY <1>4, RowKinds DEF TokenIds
<1>7. QED
    BY <1>2, <1>5, <1>6, StepSerial

LEMMA SignOutSerial ==
    ASSUME IInv, Serial, "serial" \in mix, NEW w \in Workers, NEW ids, NEW otherwise,
           SignOut(w, ids, otherwise), ids \subseteq Active(Seen(w)), Dirty(w) = {},
           UNCHANGED db, Quiet, at[w] \in {"overflow", "targets"},
           otherwise = IF job[w].kind = "reset" THEN "spend" ELSE "commit"
    PROVE  Serial'
<1>1. /\ job'[w].ids = ids /\ \A x \in DOMAIN job[w] \ {"ids"} : job'[w][x] = job[w][x]
      /\ Moves(w) /\ at'[w] = IF ids = {} THEN otherwise ELSE "purge"
      /\ Active(Written(w))' = Active(Seen(w)) \ ids
    BY SignOutEffect
<1>2. PICK V : /\ PutsOn(w, V) /\ DOMAIN V = {Device(d) : d \in ids}
               /\ \A r \in DOMAIN V : V[r].there /\ V[r].revoked /\ See(w, r).there
    BY SignOutEffect
<1>3. /\ job[w].kind \in {"login", "google", "revoke", "change", "reset"}
      /\ Carries(w) /\ ids \subseteq Devices
    BY KindAt DEF Registering, IInv, Sound, Active
<1>4. /\ Follows(w) /\ Replaces(w) /\ Opens(w) /\ SubsFollowDevices /\ at[w] # "idle"
    BY DEF Serial
<1>5. \A r \in DOMAIN V : r # User /\ r # Sub /\ r \notin TokenIds
    BY <1>2, <1>3, RowKinds DEF TokenIds
<1>6. /\ Untouched(w, {Sub}) /\ Untouched(w, TokenIds)
      /\ Active(db) \subseteq Active(Written(w))
    BY <1>3, <1>4 DEF Follows, Replaces, Storing, TokenIds
<1>7. Active(Seen(w)) = Active(Written(w))
    BY RowKinds DEF Active, Seen, Written
<1>8. /\ Untouched(w, {Sub})' /\ Untouched(w, TokenIds)'
      /\ Written(w)'[User] = Written(w)[User]
    BY <1>2, <1>5, <1>6, RowKinds, StepOn
<1>9. /\ job'[w].kind = job[w].kind
      /\ job[w].kind \in {"login", "google", "renew"} => job'[w].by = job[w].by
      /\ job[w].kind \in {"forgot", "reset"} => job'[w].token = job[w].token
    BY <1>1, <1>3 DEF Carries
<1>10. Follows(w)'
    <2>1. CASE ids = {}
        BY <2>1, <1>1, <1>3, <1>4, <1>6, <1>7, <1>8, <1>9, StillFollows
    <2>2. CASE ids # {}
        <3>1. at'[w] = "purge" /\ Active(db) \ job'[w].ids \subseteq Active(Written(w))'
            BY <2>2, <1>1, <1>6, <1>7
        <3>2. QED
            BY <3>1, <1>3, <1>4, <1>8, <1>9, StillFollows
    <2>3. QED
        BY <2>1, <2>2
<1>11. Replaces(w)'
    <2>1. ~Storing(w)'
        BY <1>1, <1>3, <1>9 DEF Storing
    <2>2. QED
        BY <2>1, <1>8 DEF Replaces, TokenIds
<1>12. QED
    BY <1>1, <1>4, <1>8, <1>9, <1>10, <1>11, ProceedsSerial DEF Quiet, Opens

LEMMA OverflowSerial ==
    ASSUME IInv, Serial, "serial" \in mix, NEW w \in Workers, Overflow(w)
    PROVE  Serial'
<1> DEFINE others == Active(Seen(w)) \ {job[w].device}
<1>1. /\ at[w] = "overflow" /\ Dirty(w) = {} /\ UNCHANGED db /\ Quiet
      /\ job[w].kind # "reset"
    BY KindAt DEF Overflow, Flushing, Registering
<1>2. PICK kept : SignOut(w, others \ kept, "commit")
    BY DEF Overflow
<1> DEFINE ids == others \ kept
<1>3. ids \subseteq Active(Seen(w)) /\ SignOut(w, ids, "commit")
    BY <1>2
<1> HIDE DEF ids
<1>4. QED
    BY <1>1, <1>3, SignOutSerial

LEMMA TargetsSerial ==
    ASSUME IInv, Serial, "serial" \in mix, NEW w \in Workers, Targets(w)
    PROVE  Serial'
<1> DEFINE current == IF job[w].kind = "reset" THEN {} ELSE {job[w].device}
           otherwise == IF job[w].kind = "reset" THEN "spend" ELSE "commit"
           ids == (job[w].targets \cap Active(Seen(w))) \ current
<1>1. /\ at[w] = "targets" /\ Dirty(w) = {} /\ UNCHANGED db /\ Quiet
      /\ SignOut(w, ids, otherwise) /\ ids \subseteq Active(Seen(w))
    BY DEF Targets, Flushing
<1> HIDE DEF ids
<1>2. QED
    BY <1>1, SignOutSerial

LEMMA LeaveSerial ==
    ASSUME IInv, Serial, "serial" \in mix, NEW w \in Workers, Leave(w)
    PROVE  Serial'
<1> DEFINE r == Device(job[w].device)
           new == [db[r] EXCEPT !.revoked = TRUE]
<1>1. /\ at[w] = "leave" /\ job[w].kind = "logout" /\ job[w].device \in Devices
      /\ UNCHANGED <<db, job>> /\ Quiet /\ at'[w] = "purge" /\ Moves(w)
      /\ PutLoaded(w, Only(r, db[r]), Only(r, new))
    BY KindAt, GoesOn DEF Leave, Moves, IInv, Typed, Sound, Carries, Carriers
<1> HIDE DEF new
<1>2. r \in Rows /\ r # Sub /\ r \notin TokenIds
    BY <1>1, RowKinds DEF TokenIds
<1>3. /\ Holds(w)' = Holds(w) /\ Dirty(w)' \subseteq Dirty(w) \cup {r}
      /\ \A q \in Rows \ {r} : Written(w)'[q] = Written(w)[q]
    BY <1>1, <1>2, ReputEffect
<1>4. /\ Follows(w) /\ Replaces(w) /\ SubsFollowDevices
    BY <1>1 DEF Serial
<1>5. /\ Untouched(w, {Sub}) /\ Untouched(w, TokenIds)
      /\ Active(db) \subseteq Active(Written(w)) /\ job[w].ids = {job[w].device}
    BY <1>1, <1>4 DEF Follows, Replaces, Storing, TokenIds
<1>6. Untouched(w, {Sub})' /\ Untouched(w, TokenIds)'
    BY <1>2, <1>3, <1>5 DEF Untouched
<1>7. Active(db) \ job'[w].ids \subseteq Active(Written(w))'
    <2>1. ASSUME NEW d \in Devices \ {job[w].device} PROVE Written(w)'[Device(d)] = Written(w)[Device(d)]
        BY <1>3, RowKinds
    <2>2. QED
        BY <2>1, <1>1, <1>5 DEF Active
<1>8. Follows(w)'
    BY <1>1, <1>4, <1>6, <1>7, StillFollows
<1>9. Replaces(w)'
    BY <1>1, <1>6 DEF Replaces, Storing, TokenIds
<1>10. QED
    BY <1>1, <1>8, <1>9, ProceedsSerial DEF Quiet

LEMMA PurgeSerial ==
    ASSUME IInv, Serial, "serial" \in mix, NEW w \in Workers, Purge(w)
    PROVE  Serial'
<1> DEFINE gone == [there |-> FALSE, device |-> 0]
           V == Only(Sub, gone)
<1>1. /\ at[w] = "purge" /\ Dirty(w) = {} /\ UNCHANGED <<db, job>> /\ Quiet
      /\ at'[w] = IF job[w].kind = "reset" THEN "spend" ELSE "commit"
      /\ Moves(w) /\ job[w].kind \notin {"forgot", "subscribe"}
      /\ Sub \in Rows /\ Sub # User /\ Sub \notin TokenIds
    BY KindAt, GoesOn, RowKinds DEF Purge, Flushing, Moves, IInv, Typed, TokenIds
<1>2. /\ Follows(w) /\ Replaces(w) /\ Opens(w) /\ SubsFollowDevices
    BY <1>1 DEF Serial
<1>3. /\ Untouched(w, {Sub}) /\ Untouched(w, TokenIds)
      /\ Active(db) \ job[w].ids \subseteq Active(Written(w))
    BY <1>1, <1>2 DEF Follows, Replaces, Storing, TokenIds
<1>4. /\ Written(w)'[User] = Written(w)[User] /\ Untouched(w, TokenIds)'
      /\ Written(w)'[Sub].there => Written(w)'[Sub].device \in Active(Written(w))'
    <2>1. CASE Write(w, V)
        <3>1. DOMAIN V = {Sub} /\ V[Sub] = gone /\ gone \in SubRow /\ ~gone.there
            BY OnlyIs DEF SubRow
        <3> HIDE DEF V, gone
        <3>2. WritesTo(w, V)
            BY <2>1, <3>1, <1>1, ValuesOf DEF WritesTo
        <3>3. QED
            BY <3>1, <3>2, <1>1, <1>3, RowKinds, StepOn
    <2>2. CASE UNCHANGED tx /\ ~(See(w, Sub).there /\ See(w, Sub).device \in job[w].ids)
        <3>1. Written(w)[Sub] = db[Sub] /\ See(w, Sub) = db[Sub]
            BY <1>1, <1>3 DEF Untouched, Written, See
        <3>2. Written(w)' = Written(w) /\ Active(Written(w))' = Active(Written(w))
            BY <2>2, <1>1 DEF Written, See, Holds, Dirty, Active
        <3>3. Untouched(w, TokenIds)'
            BY <2>2, <1>3 DEF Untouched, Holds, Dirty
        <3>4. QED
            BY <2>2, <3>1, <3>2, <3>3, <1>2, <1>3 DEF SubsFollowDevices
    <2>3. QED
        BY <2>1, <2>2 DEF Purge
<1>5. Follows(w)'
    BY <1>1, <1>4 DEF Follows
<1>6. Replaces(w)'
    BY <1>1, <1>4 DEF Replaces, Storing, TokenIds
<1>7. QED
    BY <1>1, <1>2, <1>4, <1>5, <1>6, ProceedsSerial DEF Quiet, Opens

LEMMA EndpointSerial ==
    ASSUME IInv, Serial, "serial" \in mix, NEW w \in Workers, Endpoint(w)
    PROVE  Serial'
<1> DEFINE new == [there |-> TRUE, device |-> job[w].device]
           V == Only(Sub, new)
<1>1. /\ at[w] = "endpoint" /\ job[w].kind = "subscribe" /\ Dirty(w) = {}
      /\ UNCHANGED <<db, job>> /\ Quiet /\ at'[w] = "commit" /\ Moves(w) /\ Put(w, V)
      /\ job[w].device \in Devices
    BY KindAt, GoesOn
    DEF Endpoint, Flushing, Moves, IInv, Typed, Sound, Carries, Carriers
<1>2. DOMAIN V = {Sub} /\ V[Sub] = new /\ new \in SubRow /\ new.device = job[w].device
    BY <1>1, OnlyIs DEF SubRow
<1> HIDE DEF V, new
<1>3. PutsOn(w, V)
    BY <1>1, <1>2, RowKinds, ValuesOf DEF PutsOn
<1>4. Follows(w) /\ Replaces(w)
    BY <1>1 DEF Serial
<1>5. /\ Untouched(w, TokenIds) /\ Active(db) \subseteq Active(Written(w))
      /\ job[w].device \in Active(db)
    BY <1>1, <1>4 DEF Follows, Replaces, Storing, TokenIds
<1>6. /\ Untouched(w, TokenIds)' /\ Written(w)'[Sub] = new
      /\ Active(Written(w)) \subseteq Active(Written(w))'
    BY <1>2, <1>3, <1>5, RowKinds, StepOn DEF TokenIds
<1>7. Follows(w)'
    BY <1>1, <1>2, <1>5, <1>6 DEF Follows, Active
<1>8. Replaces(w)'
    BY <1>1, <1>6 DEF Replaces, Storing, TokenIds
<1>9. QED
    BY <1>1, <1>7, <1>8, ProceedsSerial DEF Quiet

\* Rows of tokens are written: nothing else of what a commit leaves changes.
LEMMA TokensWritten ==
    ASSUME IInv, NEW w \in Workers, NEW V, WritesTo(w, V), DOMAIN V \subseteq TokenIds
    PROVE  /\ Active(Written(w)) \subseteq Active(Written(w))'
           /\ Untouched(w, {Sub}) => Untouched(w, {Sub})'
           /\ Written(w)'[Sub] = Written(w)[Sub]
           /\ \A r \in Rows : Written(w)[r] = See(w, r)
<1>1. /\ \A d \in Devices : Device(d) \notin DOMAIN V
      /\ {Sub} \cap DOMAIN V = {}
    BY RowKinds DEF TokenIds
<1>2. \A r \in Rows : Written(w)[r] = See(w, r)
    BY DEF WritesTo, Written
<1>3. QED
    BY <1>1, <1>2, RowKinds, StepOn

LEMMA SpendSerial ==
    ASSUME IInv, Serial, "serial" \in mix, NEW w \in Workers, Spend(w)
    PROVE  Serial'
<1> DEFINE V == TokenRows(Stored(w), FALSE)
<1>1. /\ at[w] = "spend" /\ job[w].kind = "reset" /\ Dirty(w) = {}
      /\ UNCHANGED <<db, job>> /\ Quiet /\ at'[w] = "commit" /\ Moves(w) /\ Write(w, V)
    BY KindAt, GoesOn DEF Spend, Flushing, Moves, IInv, Typed
<1>2. /\ DOMAIN V = {Token(t) : t \in Stored(w)} /\ Stored(w) \subseteq Tokens
      /\ \A t \in Stored(w) : V[Token(t)] = [there |-> FALSE]
    BY TokenRowsIs DEF Stored
<1> HIDE DEF V
<1>3. WritesTo(w, V)
    <2>1. [there |-> FALSE] \in TokenRow
        BY DEF TokenRow
    <2>2. QED
        BY <2>1, <1>1, <1>2, RowKinds, ValuesOf DEF WritesTo
<1>4. Follows(w)
    BY <1>1 DEF Serial
<1>5. /\ Active(Written(w)) \subseteq Active(Written(w))'
      /\ Written(w)'[Sub] = Written(w)[Sub]
      /\ \A r \in Rows : Written(w)[r] = See(w, r)
      /\ \A r \in DOMAIN V : Written(w)'[r] = V[r]
      /\ \A r \in Rows \ DOMAIN V : Written(w)'[r] = Written(w)[r]
    BY <1>2, <1>3, TokensWritten, StepOn DEF TokenIds
<1>6. Follows(w)'
    BY <1>1, <1>4, <1>5 DEF Follows
<1>7. ASSUME NEW t \in Tokens PROVE ~Written(w)'[Token(t)].there
    BY <1>2, <1>5, RowKinds DEF Stored
<1>8. Replaces(w)'
    BY <1>1, <1>7 DEF Replaces, Storing, TokensOf
<1>9. QED
    BY <1>1, <1>6, <1>8, ProceedsSerial DEF Quiet

LEMMA CreateTokenSerial ==
    ASSUME IInv, Serial, "serial" \in mix, NEW w \in Workers, CreateToken(w)
    PROVE  Serial'
<1> DEFINE f == TokenRows({job[w].token}, TRUE)
           g == TokenRows(Stored(w), FALSE)
           V == Merge(f, g)
<1>1. /\ at[w] = "token" /\ job[w].kind = "forgot" /\ job[w].token \in Tokens /\ Dirty(w) = {}
      /\ UNCHANGED <<db, job>> /\ at'[w] = "commit" /\ Moves(w) /\ Write(w, V)
      /\ mailed' = mailed \cup {job[w].token} /\ UNCHANGED <<held, spent, mix>>
    BY KindAt, GoesOn DEF CreateToken, Moves, IInv, Typed, Sound, Carries, Session, world
<1>2. /\ DOMAIN f = {Token(t) : t \in {job[w].token}} /\ f[Token(job[w].token)] = [there |-> TRUE]
      /\ DOMAIN g = {Token(t) : t \in Stored(w)} /\ Stored(w) \subseteq Tokens
      /\ \A t \in Stored(w) : g[Token(t)] = [there |-> FALSE]
    BY TokenRowsIs DEF Stored
<1> HIDE DEF f, g
<1>3. /\ DOMAIN V = DOMAIN f \cup DOMAIN g /\ \A x \in DOMAIN f : V[x] = f[x]
      /\ \A x \in DOMAIN g \ DOMAIN f : V[x] = g[x]
    BY DEF Merge
<1> HIDE DEF V
<1>4. WritesTo(w, V) /\ DOMAIN V \subseteq TokenIds
    <2>1. [there |-> FALSE] \in TokenRow /\ [there |-> TRUE] \in TokenRow
        BY DEF TokenRow
    <2>2. ASSUME NEW r \in DOMAIN V PROVE r \in TokenIds /\ r \in Rows /\ V[r] \in Values(r)
        <3>1. PICK t \in Tokens : r = Token(t)
            BY <1>1, <1>2, <1>3
        <3>2. V[r] \in {[there |-> TRUE], [there |-> FALSE]}
            BY <1>2, <1>3
        <3>3. QED
            BY <2>1, <3>1, <3>2, RowKinds, ValuesOf DEF TokenIds
    <2>3. QED
        BY <2>2, <1>1 DEF WritesTo
<1>5. Follows(w) /\ SubsFollowDevices
    BY <1>1 DEF Serial
<1>6. /\ Active(Written(w)) \subseteq Active(Written(w))'
      /\ Untouched(w, {Sub}) => Untouched(w, {Sub})'
      /\ \A r \in Rows : Written(w)[r] = See(w, r)
      /\ \A r \in DOMAIN V : Written(w)'[r] = V[r]
      /\ \A r \in Rows \ DOMAIN V : Written(w)'[r] = Written(w)[r]
    BY <1>4, TokensWritten, StepOn
<1>7. Follows(w)'
    BY <1>1, <1>5, <1>6, StillFollows DEF Follows
<1>8. ASSUME NEW t \in Tokens, t # job[w].token PROVE ~Written(w)'[Token(t)].there
    <2>1. Token(t) \notin DOMAIN f /\ Token(t) \in Rows
        BY <1>2, <1>8, RowKinds
    <2>2. CASE t \in Stored(w)
        BY <2>1, <2>2, <1>2, <1>3, <1>6
    <2>3. CASE t \notin Stored(w)
        <3>1. Token(t) \notin DOMAIN V
            BY <2>1, <2>3, <1>2, <1>3, RowKinds
        <3>2. QED
            BY <2>1, <2>3, <3>1, <1>6 DEF Stored
    <2>4. QED
        BY <2>2, <2>3
<1>9. Replaces(w)'
    BY <1>1, <1>8 DEF Replaces, Storing, TokensOf
<1>10. QED
    BY <1>1, <1>7, <1>9, ProceedsSerial

LEMMA FlushSerial ==
    ASSUME IInv, Serial, "serial" \in mix, NEW w \in Workers, Flush(w), Quiet
    PROVE  Serial'
<1>1. /\ at[w] # "commit" /\ UNCHANGED <<db, at, job>> /\ Dirty(w) # {}
    BY DEF Flush, Flushing
<1>2. /\ Holds(w)' = Holds(w) \cup Dirty(w) /\ Dirty(w)' = {}
      /\ \A r \in Rows : Written(w)'[r] = Written(w)[r]
    BY FlushEffect
<1>3. at[w] # "idle" /\ Moves(w)
    BY <1>1 DEF IInv, Sound, Carries, Closed, Dirty, Typed, Moves
<1>4. Follows(w) /\ Replaces(w) /\ Opens(w)
    BY <1>3 DEF Serial
<1>5. /\ Active(Written(w))' = Active(Written(w)) /\ Active(db)' = Active(db)
      /\ \A rows : Untouched(w, rows) => Untouched(w, rows)'
    BY <1>1, <1>2, RowKinds DEF Active, Untouched
<1>6. Follows(w)'
    BY <1>1, <1>2, <1>4, <1>5, RowKinds DEF Follows
<1>7. Replaces(w)'
    BY <1>1, <1>4, <1>5 DEF Replaces, Storing
<1>8. job[w].kind = "google" => Written(w)'[User].there
    BY <1>2, <1>4, RowKinds DEF Opens
<1>9. QED
    BY <1>1, <1>3, <1>6, <1>7, <1>8, ProceedsSerial DEF Quiet

LEMMA RollbackSerial ==
    ASSUME IInv, Serial, "serial" \in mix, NEW w \in Workers, Rollback(w)
    PROVE  Serial'
<1>1. Ended(w) /\ UNCHANGED db /\ Quiet /\ at[w] # "idle"
    BY DEF Rollback, RollbackSession
<1>2. Moves(w) /\ at'[w] = "idle" /\ Sole(w)
    BY <1>1, EndedEffect DEF Serial, Alone, Sole
<1>3. QED
    BY <1>1, <1>2, SerialKeeps DEF Quiet

\* The commit of a request that was alone.
LEMMA CommitTokens ==
    ASSUME IInv, Serial, "serial" \in mix, NEW w \in Workers, Commit(w)
    PROVE  TokensKept'
<1>1. /\ CommitSession(w) /\ db' = Written(w) /\ at[w] = "commit"
      /\ spent' = IF job[w].kind = "reset" THEN [spent EXCEPT ![job[w].token] = @ + 1] ELSE spent
      /\ mailed' = mailed /\ spent \in [Tokens -> Nat]
      /\ job[w].kind \in {"forgot", "reset"} => job[w].token \in Tokens
    BY DEF Commit, CommitSession, IInv, Typed, Sound, Carries
<1>2. TokensKept /\ Spends(w) /\ Replaces(w)
    BY <1>1 DEF Serial
<1>3. CASE job[w].kind = "forgot"
    <2>1. TokensOf(db') \subseteq {job[w].token} /\ spent[job[w].token] = 0
        BY <1>1, <1>2, <1>3 DEF Replaces, Spends, Storing
    <2>2. QED
        BY <2>1, <1>1, <1>2, <1>3 DEF TokensKept
<1>4. CASE job[w].kind = "reset"
    <2>1. TokensOf(db') = {} /\ spent[job[w].token] = 0 /\ job[w].token \in mailed
        BY <1>1, <1>2, <1>4 DEF Replaces, Spends, Storing
    <2>2. \A t \in Tokens : spent'[t] = IF t = job[w].token THEN 1 ELSE spent[t]
        BY <2>1, <1>1, <1>4
    <2>3. QED
        BY <2>1, <2>2, <1>1, <1>2 DEF TokensKept
<1>5. CASE job[w].kind \notin {"forgot", "reset"}
    <2>1. ASSUME NEW t \in Tokens PROVE db'[Token(t)] = db[Token(t)]
        <3>1. Untouched(w, {Token(t)})
            BY <1>2, <1>5 DEF Replaces, Storing, Untouched
        <3>2. QED
            BY <3>1, <1>1, RowKinds, UntouchedIs
    <2>2. TokensOf(db') = TokensOf(db)
        BY <2>1 DEF TokensOf
    <2>3. QED
        BY <2>2, <1>1, <1>2, <1>5 DEF TokensKept
<1>6. QED
    BY <1>3, <1>4, <1>5

LEMMA CommitOpened ==
    ASSUME IInv, Serial, "serial" \in mix, NEW w \in Workers, Commit(w)
    PROVE  Opened'
<1> DEFINE kind == job[w].kind
<1>1. /\ CommitSession(w) /\ db' = Written(w) /\ at[w] = "commit"
      /\ held \subseteq Claims /\ Carries(w) /\ Guards(w) /\ Leaves(w) /\ Existing(w)
    BY DEF Commit, CommitSession, IInv, Typed, Sound
<1>2. Opened /\ Opens(w)
    BY <1>1 DEF Serial
<1>3. /\ Makes(kind, User, db[User], db'[User])
      /\ kind = "register" => ~db[User].there \/ db'[User] = db[User]
      /\ \A d \in Devices :
            db'[Device(d)].there <=> (db[Device(d)].there \/ (Made(w) /\ d = job[w].device))
    BY <1>1, CommitEffect
<1>4. /\ db[User].there => db'[User].there
      /\ db'[User].password # db[User].password => kind \in {"register", "change", "reset"}
    BY <1>3 DEF Makes
<1>5. Active(db') \subseteq Active(db) \cup (IF Made(w) THEN {job[w].device} ELSE {})
    BY <1>1, WrittenActive
<1>6. Made(w) => job[w].device \in Devices /\ ~db[Device(job[w].device)].there
    BY <1>1 DEF Carries, Guards
\* A token given out before, where the password stays.
<1>7. ASSUME NEW c \in held, db'[User].password = db[User].password
      PROVE  /\ db'[Device(c.device)].there
             /\ c.device \in Active(db') => c.by \in {"google", db'[User].password}
    <2>1. c.device \in Devices /\ db[Device(c.device)].there
        BY <1>1, <1>2 DEF Opened, Claims
    <2>2. db'[Device(c.device)].there
        BY <2>1, <1>3
    <2>3. c.device \in Active(db') => c.device \in Active(db)
        BY <2>1, <1>5, <1>6
    <2>4. QED
        BY <2>2, <2>3, <1>2, <1>7 DEF Opened
<1>8. CASE kind \in {"login", "google", "renew"}
    <2> DEFINE c == [device |-> job[w].device, issued |-> job[w].issued, by |-> job[w].by]
    <2>1. held' = held \cup {c} /\ c.device = job[w].device /\ c.by = job[w].by
        BY <1>8 DEF Commit
    <2> HIDE DEF c
    <2>2. db'[User].password = db[User].password
        BY <1>4, <1>8
    <2>3. db'[User].there /\ job[w].by \in {"google", db'[User].password}
        BY <2>2, <1>1, <1>2, <1>4, <1>8 DEF Opens
    <2>4. db'[Device(job[w].device)].there
        <3>1. job[w].device \in Devices /\ (db[Device(job[w].device)].there \/ Made(w))
            BY <1>1, <1>8 DEF Carries, Existing, Carriers, Made, Registering
        <3>2. QED
            BY <3>1, <1>3
    <2>5. QED
        BY <2>1, <2>2, <2>3, <2>4, <1>7 DEF Opened
<1>9. CASE kind = "change"
    <2> DEFINE New(c) == [c EXCEPT !.by = IF c.device = job[w].device
                                          THEN db'[User].password ELSE @]
    <2>1. held' = {New(c) : c \in held}
        BY <1>9 DEF Commit
    <2>2. ASSUME NEW c \in held
          PROVE  /\ New(c).device = c.device
                 /\ New(c).by = IF c.device = job[w].device THEN db'[User].password ELSE c.by
        BY <1>1 DEF Claims
    <2> HIDE DEF New
    <2>3. ASSUME NEW c \in held
          PROVE  /\ db'[Device(c.device)].there
                 /\ c.device # job[w].device /\ c.device \in Active(db') =>
                       c.by \in {"google", db'[User].password}
        <3>1. CASE db'[User].password = db[User].password
            BY <3>1, <1>7
        <3>2. CASE db'[User].password # db[User].password
            <4>1. User \notin Dirty(w) /\ User \in Rows
                BY <1>1, <1>9, RowKinds DEF Guards
            <4>2. User \in Holds(w)
                BY <3>2, <4>1, <1>1 DEF Written, See
            <4>3. Active(db') \subseteq {job[w].device}
                BY <4>2, <1>1, <1>9 DEF Leaves
            <4>4. db'[Device(c.device)].there
                BY <1>1, <1>2, <1>3 DEF Opened, Claims
            <4>5. QED
                BY <4>3, <4>4
        <3>3. QED
            BY <3>1, <3>2
    <2>4. held' # {} => db'[User].there
        BY <2>1, <1>2, <1>4 DEF Opened
    <2>5. ASSUME NEW e \in held'
          PROVE  /\ db'[Device(e.device)].there
                 /\ e.device \in Active(db') => e.by \in {"google", db'[User].password}
        <3>1. PICK c \in held : e = New(c)
            BY <2>1
        <3>2. QED
            BY <3>1, <2>2, <2>3
    <2>6. QED
        BY <2>4, <2>5 DEF Opened
<1>10. CASE kind \notin {"login", "google", "renew", "change"}
    <2>1. held' = held
        BY <1>10 DEF Commit
    <2>2. ASSUME NEW c \in held
          PROVE  /\ db'[Device(c.device)].there
                 /\ c.device \in Active(db') => c.by \in {"google", db'[User].password}
        <3>1. CASE db'[User].password = db[User].password
            BY <3>1, <1>7
        <3>2. CASE kind = "register"
            BY <3>2, <1>2, <1>3, <1>7 DEF Opened
        <3>3. CASE kind = "reset"
            <4>1. Active(db') = {}
                BY <3>3, <1>1 DEF Leaves
            <4>2. db'[Device(c.device)].there
                BY <1>1, <1>2, <1>3 DEF Opened, Claims
            <4>3. QED
                BY <4>1, <4>2
        <3>4. QED
            BY <3>1, <3>2, <3>3, <1>4, <1>10
    <2>3. QED
        BY <2>1, <2>2, <1>2, <1>4 DEF Opened
<1>11. QED
    BY <1>8, <1>9, <1>10

LEMMA CommitSerial ==
    ASSUME IInv, Serial, "serial" \in mix, NEW w \in Workers, Commit(w)
    PROVE  Serial'
<1>1. /\ CommitSession(w) /\ Ended(w) /\ db' = Written(w) /\ at[w] = "commit"
    BY DEF Commit, CommitSession
<1>2. \A v \in Workers : at'[v] = "idle"
    BY <1>1, EndedEffect DEF Serial, Alone, Moves
<1>3. Alone'
    BY <1>2 DEF Alone
<1>4. SubsFollowDevices'
    BY <1>1 DEF Serial, Follows, SubsFollowDevices
<1>5. QED
    BY <1>2, <1>3, <1>4, CommitTokens, CommitOpened DEF Serial

LEMMA InitIsSerial == Init => Serial
<1> SUFFICES ASSUME Init PROVE Serial
    OBVIOUS
<1>1. \A w \in Workers : at[w] = "idle"
    BY DEF Init, RequestsInit
<1>2. /\ ~db[Sub].there /\ \A t \in Tokens : ~db[Token(t)].there
    <2>1. PICK user : db = [r \in Rows |->
                   CASE r = User -> user
                     [] r = Sub -> [there |-> FALSE, device |-> 0]
                     [] r \in {Device(d) : d \in Devices} ->
                          [there |-> FALSE, revoked |-> FALSE, touched |-> FALSE]
                     [] OTHER -> [there |-> FALSE]]
        BY DEF Init, RequestsInit
    <2>2. db[Sub] = [there |-> FALSE, device |-> 0]
        BY <2>1, RowKinds
    <2>3. \A t \in Tokens : db[Token(t)] = [there |-> FALSE]
        BY <2>1, RowKinds DEF DeviceRows
    <2>4. QED
        BY <2>2, <2>3
<1>3. SubsFollowDevices /\ Alone
    BY <1>1, <1>2 DEF SubsFollowDevices, Alone
<1>4. TokensKept /\ Opened
    BY <1>2 DEF TokensKept, TokensOf, Opened, Init
<1>5. QED
    BY <1>1, <1>3, <1>4 DEF Serial

LEMMA MixStays == [Next]_vars => UNCHANGED mix
<1> SUFFICES ASSUME [Next]_vars PROVE UNCHANGED mix
    OBVIOUS
<1>1. CASE UNCHANGED vars
    BY <1>1 DEF vars
<1>2. CASE Tick
    BY <1>2 DEF Tick
<1>3. ASSUME NEW w \in Workers,
             \/ Register(w) \/ Login(w) \/ Google(w) \/ SetStatus(w) \/ ForceSignOut(w)
      PROVE  UNCHANGED mix
    BY <1>3 DEF Register, Login, Google, SetStatus, ForceSignOut, Quiet
<1>4. ASSUME NEW w \in Workers, NEW c \in held,
             \/ Touch(w, c) \/ Renew(w, c) \/ RevokeDevices(w, c)
             \/ Logout(w, c) \/ Subscribe(w, c) \/ ChangePassword(w, c)
      PROVE  UNCHANGED mix
    BY <1>4 DEF Touch, Renew, RevokeDevices, Logout, Subscribe, ChangePassword, Enter, Quiet
<1>5. ASSUME NEW w \in Workers, NEW t \in Tokens, Forgot(w, t) \/ ResetPassword(w, t)
      PROVE  UNCHANGED mix
    BY <1>5 DEF Forgot, ResetPassword, Quiet
<1>6. ASSUME NEW w \in Workers,
             \/ Lock(w) \/ NewDevice(w) \/ Overflow(w) \/ Purge(w) \/ Leave(w) \/ Endpoint(w)
      PROVE  UNCHANGED mix
    BY <1>6 DEF Lock, NewDevice, Overflow, Purge, Leave, Endpoint, Quiet
<1>7. ASSUME NEW w \in Workers,
             \/ SetPassword(w) \/ Targets(w) \/ CreateToken(w) \/ Spend(w)
             \/ Commit(w) \/ Rollback(w) \/ (Flush(w) /\ Quiet)
      PROVE  UNCHANGED mix
    BY <1>7 DEF SetPassword, Targets, CreateToken, Spend, Commit, Rollback, Quiet, world
<1>8. QED
    BY <1>1, <1>2, <1>3, <1>4, <1>5, <1>6, <1>7 DEF Next

LEMMA NextKeepsSerial == IInv /\ Serial /\ [Next]_vars => Serial'
<1> SUFFICES ASSUME IInv, Serial, [Next]_vars, "serial" \in mix' PROVE Serial'
    BY DEF Serial
<1>1. UNCHANGED mix
    BY MixStays
<1>2. "serial" \in mix
    BY <1>1
<1>3. CASE UNCHANGED <<db, tx, at, job, held, mailed, spent, mix>>
    <2>1. Alone' /\ SubsFollowDevices' /\ TokensKept' /\ Opened'
        BY <1>2, <1>3 DEF Serial, Alone, SubsFollowDevices, TokensKept, TokensOf, Opened, Active
    <2>2. ASSUME NEW w \in Workers, at'[w] # "idle"
          PROVE  Follows(w)' /\ Spends(w)' /\ Replaces(w)' /\ Opens(w)'
        <3>1. Follows(w) /\ Spends(w) /\ Replaces(w) /\ Opens(w)
            BY <1>2, <1>3, <2>2 DEF Serial
        <3>2. Written(w)' = Written(w) /\ Active(Written(w))' = Active(Written(w))
              /\ Active(db)' = Active(db)
              /\ \A rows : Untouched(w, rows)' <=> Untouched(w, rows)
            BY <1>3 DEF Written, See, Holds, Dirty, Active, Untouched
        <3>3. Follows(w)'
            BY <1>3, <3>1, <3>2 DEF Follows
        <3>4. Spends(w)' /\ Opens(w)'
            BY <1>3, <3>1, <3>2 DEF Spends, Opens
        <3>5. Replaces(w)'
            BY <1>3, <3>1, <3>2 DEF Replaces, Storing, TokensOf
        <3>6. QED
            BY <3>3, <3>4, <3>5
    <2>3. QED
        BY <2>1, <2>2 DEF Serial
<1>4. ASSUME NEW w \in Workers,
             \/ Register(w) \/ Login(w) \/ Google(w) \/ SetStatus(w) \/ ForceSignOut(w)
      PROVE  Serial'
    BY <1>2, <1>4, UsersSerial, LoginSerial, GoogleSerial
<1>5. ASSUME NEW w \in Workers, NEW c \in held,
             \/ Touch(w, c) \/ Renew(w, c) \/ RevokeDevices(w, c)
             \/ Logout(w, c) \/ Subscribe(w, c) \/ ChangePassword(w, c)
      PROVE  Serial'
    BY <1>2, <1>5, CarriersSerial
<1>6. ASSUME NEW w \in Workers, NEW t \in Tokens, Forgot(w, t) \/ ResetPassword(w, t)
      PROVE  Serial'
    BY <1>2, <1>6, ForgotSerial, UsersSerial
<1>7. ASSUME NEW w \in Workers,
             \/ Lock(w) \/ NewDevice(w) \/ Overflow(w) \/ Purge(w) \/ Leave(w) \/ Endpoint(w)
      PROVE  Serial'
    BY <1>2, <1>7, LockSerial, NewDeviceSerial, OverflowSerial, PurgeSerial, LeaveSerial,
       EndpointSerial
<1>8. ASSUME NEW w \in Workers,
             \/ SetPassword(w) \/ Targets(w) \/ CreateToken(w) \/ Spend(w)
             \/ Commit(w) \/ Rollback(w) \/ (Flush(w) /\ Quiet)
      PROVE  Serial'
    BY <1>2, <1>8, SetPasswordSerial, TargetsSerial, CreateTokenSerial, SpendSerial,
       CommitSerial, RollbackSerial, FlushSerial
<1>9. QED
    BY <1>3, <1>4, <1>5, <1>6, <1>7, <1>8 DEF Next, Tick, session, vars

THEOREM SerialInvariant == Spec => []Serial
    BY InitIsSerial, NextKeepsSerial, AccountInvariant, PTL DEF Spec

\* The account is safe: the cap whatever meets, and with one request at a time no device
\* that is signed out is pushed to, only the last reset mail works, and once, and no session
\* outlives the password it was opened with.
THEOREM AccountIsSafe == Spec => []AccountSafe
<1>1. IInv /\ Serial /\ DeviceCap => AccountSafe
    <2> SUFFICES ASSUME IInv, Serial, DeviceCap, "serial" \in mix
                 PROVE  SubsFollowDevices /\ TokensSingle /\ SessionsCurrent
        BY DEF AccountSafe
    <2>1. SubsFollowDevices /\ TokensKept /\ Opened
        BY DEF Serial
    <2>2. Cardinality({t \in Tokens : db[Token(t)].there}) <= 1
        <3> DEFINE S == {t \in Tokens : db[Token(t)].there}
        <3>1. \A t, u \in S : t = u
            BY <2>1 DEF TokensKept, TokensOf
        <3>2. \E a : S \subseteq {a}
            BY <3>1
        <3> HIDE DEF S
        <3>3. Cardinality(S) <= 1
            BY <3>2, AtMostOne
        <3>4. QED
            BY <3>3 DEF S
    <2>3. \A t \in Tokens : spent[t] <= 1 /\ (spent[t] = 1 => ~db[Token(t)].there)
        BY <2>1 DEF TokensKept, TokensOf
    <2>4. SessionsCurrent
        <3>1. ASSUME NEW c \in held, Accepts(c) PROVE c.by \in {"google", db[User].password}
            BY <2>1, <3>1 DEF Opened, Accepts, Active, IInv, Typed, Claims
        <3>2. QED
            BY <3>1 DEF SessionsCurrent
    <2>5. QED
        BY <2>1, <2>2, <2>3, <2>4 DEF TokensSingle
<1>2. QED
    BY <1>1, AccountInvariant, SerialInvariant, AtMostTwoDevices, PTL
==============================================================================
