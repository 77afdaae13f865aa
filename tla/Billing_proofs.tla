---------------------------- MODULE Billing_proofs ----------------------------
(***************************************************************************)
(* What TLAPS proves of Billing, for any number of references, of          *)
(* concurrent requests, of months and of terms.                            *)
(***************************************************************************)
EXTENDS Billing, WellFoundedInduction, TLAPS

Settlements == {"callback", "webhook"}
Creators == {"checkout", "comp"}
Settled == {"ACTIVE", "REVOKED", "FAILED"}

\* Where each operation can be, the row it is about and the rows it has written.
Shape(x) ==
    /\ x.at = "idle" <=> x.op = "none"
    /\ x.op \in {"none", "revoke", "login"} => x.ref = "none"
    /\ x.op \in Settlements \cup Creators => x.ref \in Refs
    /\ x.op \in {"none", "login"} => x.dirty = {}
    /\ x.op = "checkout" => /\ x.at \in {"initialize", "commit"}
                            /\ x.ref \in x.dirty
                            /\ x.row.status = "PENDING"
    /\ x.op \in Settlements =>
         /\ x.at \in {"verify", "decide", "fail", "quote", "apply", "resolve", "commit"}
         /\ x.at \notin {"resolve", "commit"} => x.dirty = {}
         /\ x.at = "resolve" => x.dirty = {x.ref}
         /\ x.dirty \subseteq {x.ref}
         /\ x.at \in {"apply", "resolve"} \/ x.dirty # {} => x.row.status = "ACTIVE"
    /\ x.op = "comp" =>
         /\ x.at \in {"quote", "apply", "resolve", "commit"}
         /\ x.dirty = IF x.at \in {"resolve", "commit"} THEN {x.ref} ELSE {}
         /\ x.at # "quote" => x.row.status = "ACTIVE"
    /\ x.op = "revoke" => /\ x.at \in {"apply", "resolve", "commit"}
                          /\ x.at = "apply" => x.dirty = {}
    /\ x.op = "login" => x.at \in {"resolve", "commit"}

\* The committed status of the rows a request has written and not committed: what
\* it was when the request took their locks.
Claim(x) ==
    \A r \in x.dirty :
        /\ x.op = "checkout" /\ r # x.ref => sub[r].status = "PENDING"
        /\ x.op \in Settlements => sub[r].status \in {"PENDING", "ABANDONED"}
        /\ x.op = "revoke" => sub[r].status = "ACTIVE"

\* The row a checkout or a comp makes does not exist yet, Paystack knows it only
\* once it has been told, and no other request is making it.
Making(h, x) ==
    x.op \in Creators =>
        /\ sub[x.ref].status = "none"
        /\ x.at = "initialize" => charge[x.ref].status = "none"
        /\ \A g \in Handlers \ {h} : tx[g].op \in Creators => tx[g].ref # x.ref

\* What a settlement knows: its answer is still Paystack's when it is a success,
\* its row exists once it has been seen, and it grants only what has been paid.
Knows(x) ==
    x.op \in Settlements =>
        /\ x.at # "verify" /\ x.txn.status = "success" => charge[x.ref] = x.txn
        /\ x.at \in {"fail", "quote", "apply"} => sub[x.ref].status # "none"
        /\ x.at \in {"quote", "apply"} \/ x.dirty # {} => Paid(x.ref)

\* A webhook is about a success, and reaches its commit without a write only
\* when there is nothing left to grant.
Delivers(x) ==
    x.op = "webhook" =>
        /\ charge[x.ref].status = "success"
        /\ x.at # "verify" => x.txn = charge[x.ref]
        /\ x.at = "commit" /\ x.dirty = {} /\ Paid(x.ref) => sub[x.ref].status \in Settled

\* A charge succeeds only for a row that exists; a recorded event was a success.
ChargesHaveRows ==
    /\ \A r \in Refs : charge[r].status = "success" => sub[r].status # "none"
    /\ \A r \in events : charge[r].status = "success"

\* No term is endless: the terms stored have a last end.
EndsBounded == \E last \in Nat : \A r \in Refs : sub[r].end <= last

\* What holds of the request of handler h; Free: two requests never hold the
\* lock of the same row.
Sound(h, x) ==
    Shape(x) /\ Free(h, x.dirty) /\ Claim(x) /\ Making(h, x) /\ Knows(x) /\ Delivers(x)

IInv ==
    /\ TypeOK
    /\ \A h \in Handlers : Sound(h, tx[h])
    /\ ChargesHaveRows
    /\ EndsBounded
    /\ PaidOnly
    /\ RecordedIsSettled

-----------------------------------------------------------------------------
\* A set of naturals with an upper bound has a greatest element.
LEMMA GreatestOfBounded ==
    ASSUME NEW S \in SUBSET Nat, S # {}, NEW last \in Nat, \A s \in S : s <= last
    PROVE  \E top \in S : \A s \in S : s <= top
<1> DEFINE bounds == {b \in Nat : \A s \in S : s <= b}
<1>1. bounds \subseteq Nat /\ bounds # {}
    OBVIOUS
<1>2. \E b \in bounds : \A c \in bounds : ~(<<c, b>> \in OpToRel(<, Nat))
    <2> HIDE DEF bounds
    <2>1. QED
        BY <1>1, NatLessThanWellFounded, WFMin
<1>3. PICK b \in bounds : \A c \in bounds : ~(c < b)
    BY <1>2 DEF OpToRel
<1>4. b \in S
    <2> SUFFICES ASSUME b \notin S PROVE FALSE
        OBVIOUS
    <2>1. b \in Nat /\ \A s \in S : s \in Nat /\ s < b
        OBVIOUS
    <2>2. PICK s \in S : TRUE
        OBVIOUS
    <2>3. b - 1 \in Nat /\ \A q \in S : q <= b - 1
        BY <2>1, <2>2
    <2>4. b - 1 \in bounds /\ b - 1 < b
        BY <2>1, <2>3
    <2>5. QED
        BY <2>4, <1>3
<1>5. QED
    BY <1>4

\* The Max of a set of naturals with an upper bound is its greatest element.
LEMMA MaxOfBounded ==
    ASSUME NEW S \in SUBSET Nat, S # {}, NEW last \in Nat, \A s \in S : s <= last
    PROVE  Max(S) \in S /\ \A s \in S : s <= Max(S)
<1>1. PICK top \in S : \A s \in S : s <= top
    BY GreatestOfBounded
<1>2. \A s \in S : top >= s
    BY <1>1
<1>3. QED
    BY <1>2 DEF Max

\* A term is quoted at or after now, and at or after the end of every ACTIVE term.
LEMMA TermStartAfterAll ==
    ASSUME TypeOK, EndsBounded
    PROVE  /\ TermStart(sub) \in Nat
           /\ TermStart(sub) >= now
           /\ \A r \in Refs : sub[r].status = "ACTIVE" => TermStart(sub) >= sub[r].end
<1> DEFINE ends == {now} \cup {sub[r].end : r \in {r \in Refs : sub[r].status = "ACTIVE"}}
<1>1. PICK last \in Nat : \A r \in Refs : sub[r].end <= last
    BY DEF EndsBounded
<1>2. now \in Nat /\ \A r \in Refs : sub[r].end \in Nat
    BY BillingAssumption DEF TypeOK, Row
<1>3. ends \in SUBSET Nat /\ now \in ends
    BY <1>2
<1>4. PICK top \in Nat : top >= last /\ top >= now
    BY <1>2
<1>5. \A s \in ends : s <= top
    BY <1>1, <1>2, <1>4
<1>6. Max(ends) \in ends /\ \A s \in ends : s <= Max(ends)
    <2> HIDE DEF ends
    <2>1. QED
        BY <1>3, <1>4, <1>5, MaxOfBounded
<1>7. TermStart(sub) = Max(ends)
    BY DEF TermStart
<1>8. QED
    BY <1>2, <1>3, <1>6, <1>7

\* The richest live tier is a tier, is live unless it is FREEMIUM, and no live
\* tier ranks above it.
LEMMA LiveTierIsRichest ==
    ASSUME NEW rows \in [Refs -> Row], NEW t \in Nat
    PROVE  /\ LiveTier(rows, t) \in UserTiers
           /\ \A r \in Refs : LiveAt(rows[r], t) =>
                 Rank[LiveTier(rows, t)] >= Rank[rows[r].tier]
<1> DEFINE live == {rows[r].tier : r \in {r \in Refs : LiveAt(rows[r], t)}}
<1>1. live \subseteq {"FREEMIUM", "STANDARD", "PREMIUM"}
    BY DEF Row, UserTiers, Rank
<1>2. Rank["FREEMIUM"] = 0 /\ Rank["STANDARD"] = 1 /\ Rank["PREMIUM"] = 2
    BY DEF Rank
<1>3. \E best \in live \cup {"FREEMIUM"} : \A other \in live : Rank[best] >= Rank[other]
    <2> HIDE DEF live
    <2>1. CASE "PREMIUM" \in live
        BY <1>1, <1>2, <2>1
    <2>2. CASE "PREMIUM" \notin live /\ "STANDARD" \in live
        BY <1>1, <1>2, <2>2
    <2>3. CASE "PREMIUM" \notin live /\ "STANDARD" \notin live
        BY <1>1, <1>2, <2>3
    <2>4. QED
        BY <2>1, <2>2, <2>3
<1>4. LiveTier(rows, t) =
          CHOOSE best \in live \cup {"FREEMIUM"} : \A other \in live : Rank[best] >= Rank[other]
    BY DEF LiveTier
<1>5. /\ LiveTier(rows, t) \in live \cup {"FREEMIUM"}
      /\ \A other \in live : Rank[LiveTier(rows, t)] >= Rank[other]
    <2> HIDE DEF live
    <2>1. QED
        BY <1>3, <1>4
<1>6. {"FREEMIUM", "STANDARD", "PREMIUM"} = UserTiers
    BY DEF UserTiers, Rank
<1>7. QED
    BY <1>1, <1>5, <1>6

-----------------------------------------------------------------------------
(* Steps that only move one request: no row, charge or event changes. *)

\* Such a step keeps the invariant when the request's new record is sound.
LEMMA MoveKeepsIInv ==
    ASSUME IInv, NEW h \in Handlers, NEW x \in Tx, Sound(h, x), Step(h, x)
    PROVE  IInv'
<1>1. TypeOK'
    BY DEF IInv, TypeOK, Step
<1>2. /\ tx'[h] = x /\ \A g \in Handlers \ {h} : tx'[g] = tx[g]
      /\ UNCHANGED <<sub, source, charge, events, tier, now>>
    BY DEF IInv, TypeOK, Step
<1>3. ASSUME NEW g \in Handlers PROVE Sound(g, tx[g])'
    <2>1. CASE g = h
        <3>1. Shape(x) /\ Claim(x)' /\ Knows(x)' /\ Delivers(x)'
            BY <1>2 DEF Sound, Claim, Knows, Delivers, Paid
        <3>2. Free(h, x.dirty)'
            BY <1>2 DEF Sound, Free
        <3>3. Making(h, x)'
            BY <1>2 DEF Sound, Making
        <3>4. QED
            BY <1>2, <2>1, <3>1, <3>2, <3>3 DEF Sound
    <2>2. CASE g # h
        <3>1. Sound(g, tx[g]) /\ tx'[g] = tx[g]
            BY <1>2, <2>2 DEF IInv
        <3>2. Shape(tx[g]) /\ Claim(tx[g])' /\ Knows(tx[g])' /\ Delivers(tx[g])'
            BY <1>2, <3>1 DEF Sound, Claim, Knows, Delivers, Paid
        <3>3. Free(g, tx[g].dirty)'
            BY <1>2, <2>2, <3>1 DEF Sound, Free
        <3>4. Making(g, tx[g])'
            BY <1>2, <2>2, <3>1 DEF Sound, Making
        <3>5. QED
            BY <3>1, <3>2, <3>3, <3>4 DEF Sound
    <2>3. QED
        BY <2>1, <2>2
<1>4. ChargesHaveRows' /\ EndsBounded' /\ PaidOnly' /\ RecordedIsSettled'
    BY <1>2 DEF IInv, ChargesHaveRows, EndsBounded, PaidOnly, RecordedIsSettled, Paid
<1>5. QED
    BY <1>1, <1>3, <1>4 DEF IInv

\* The row of a creator that has not committed is held by no other request.
LEMMA CreatedIsFree ==
    ASSUME IInv, NEW h \in Handlers, NEW r \in Refs, sub[r].status = "none",
           \A g \in Handlers \ {h} : tx[g].op \in Creators => tx[g].ref # r
    PROVE  Free(h, {r})
<1> SUFFICES ASSUME NEW g \in Handlers \ {h}, r \in tx[g].dirty PROVE FALSE
    BY DEF Free
<1>1. Shape(tx[g]) /\ Claim(tx[g])
    BY DEF IInv, Sound
<1>2. tx[g].op \in AllOps \cup {"none"}
    BY DEF IInv, TypeOK, Tx
<1>3. QED
    BY <1>1, <1>2 DEF Shape, Claim, Creators, Settlements, AllOps

LEMMA IdleIsSound ==
    ASSUME NEW h \in Handlers
    PROVE  Idle \in Tx /\ Sound(h, Idle)
<1>1. Idle \in Tx
    BY DEF Idle, Tx, Row, Charge, NoRow, NoCharge, Statuses, UserTiers, Rank
<1>2. Sound(h, Idle)
    BY DEF Idle, Sound, Shape, Free, Claim, Making, Knows, Delivers, Settlements, Creators
<1>3. QED
    BY <1>1, <1>2

\* Each operation begins with a sound record.
LEMMA StartKeepsIInv ==
    ASSUME IInv, NEW h \in Handlers,
           \/ \E r \in Refs : \/ Callback(h, r) \/ Webhook(h, r)
                              \/ \E t \in Tiers, m \in Terms : Checkout(h, r, t, m) \/ Comp(h, r, t, m)
           \/ Revoke(h) \/ Login(h)
    PROVE  IInv'
<1> USE BillingAssumption
<1>1. tier \in UserTiers
    BY DEF IInv, TypeOK
<1>2. ASSUME NEW r \in Refs, Callback(h, r) \/ Webhook(h, r) PROVE IInv'
    <2> DEFINE x == [Idle EXCEPT !.op = IF Callback(h, r) THEN "callback" ELSE "webhook",
                                 !.at = "verify", !.ref = r]
    <2>1. Step(h, x)
        BY <1>2 DEF Callback, Webhook, Start, Step
    <2>2. x \in Tx
        BY IdleIsSound DEF Tx, AllOps
    <2>3. Sound(h, x)
        BY <1>2 DEF Callback, Webhook, Idle, Sound, Shape, Free, Claim, Making, Knows, Delivers, Settlements, Creators
    <2>4. QED
        BY <2>1, <2>2, <2>3, MoveKeepsIInv
<1>3. ASSUME NEW r \in Refs, NEW t \in Tiers, NEW m \in Terms, Checkout(h, r, t, m) PROVE IInv'
    <2> DEFINE pending == {q \in Refs : sub[q].status = "PENDING"}
               x == [Idle EXCEPT !.op = "checkout", !.at = "initialize", !.ref = r,
                       !.row = [NoRow EXCEPT !.status = "PENDING", !.tier = t, !.months = m],
                       !.dirty = pending \cup {r}]
    <2>1. Step(h, x)
        BY <1>3 DEF Checkout, Start, Step
    <2>2. x.row \in Row
        BY DEF NoRow, Row, Idle, Statuses, UserTiers, Rank
    <2>3. x \in Tx
        BY <2>2, IdleIsSound DEF Tx, AllOps
    <2>4. sub[r].status = "none" /\ charge[r].status = "none" /\ \A g \in Handlers : tx[g].ref # r
        <3>1. Unused(r)
            BY <1>3 DEF Checkout
        <3>2. NoRow.status = "none" /\ NoCharge.status = "none"
            BY DEF NoRow, NoCharge
        <3>3. QED
            BY <3>1, <3>2 DEF Unused
    <2>5. Free(h, pending) /\ Free(h, {r})
        BY <1>3, <2>4, CreatedIsFree DEF Checkout
    <2>6. Sound(h, x)
        <3>1. /\ x.op = "checkout" /\ x.at = "initialize" /\ x.ref = r
              /\ x.dirty = pending \cup {r} /\ x.row.status = "PENDING"
            BY DEF Idle, NoRow
        <3>2. Shape(x) /\ Claim(x) /\ Knows(x) /\ Delivers(x)
            BY <3>1 DEF Shape, Claim, Knows, Delivers, Settlements, Creators
        <3>3. Free(h, x.dirty)
            BY <2>5, <3>1 DEF Free
        <3>4. Making(h, x)
            BY <2>4, <3>1 DEF Making
        <3>5. QED
            BY <3>2, <3>3, <3>4 DEF Sound
    <2>7. QED
        BY <2>1, <2>3, <2>6, MoveKeepsIInv
<1>4. ASSUME NEW r \in Refs, NEW t \in Tiers, NEW m \in Terms, Comp(h, r, t, m) PROVE IInv'
    <2> DEFINE x == [Idle EXCEPT !.op = "comp", !.at = "quote", !.ref = r, !.loaded = tier,
                    !.row = [NoRow EXCEPT !.tier = t, !.months = m]]
    <2>1. Step(h, x)
        BY <1>4 DEF Comp, Start, Step
    <2>2. x.row \in Row
        BY DEF NoRow, Row, Idle, Statuses, UserTiers, Rank
    <2>3. x \in Tx
        BY <1>1, <2>2, IdleIsSound DEF Tx, AllOps
    <2>4. sub[r].status = "none" /\ \A g \in Handlers : tx[g].ref # r
        <3>1. Unused(r)
            BY <1>4 DEF Comp
        <3>2. NoRow.status = "none" /\ NoCharge.status = "none"
            BY DEF NoRow, NoCharge
        <3>3. QED
            BY <3>1, <3>2 DEF Unused
    <2>5. Sound(h, x)
        BY <2>4 DEF Idle, Sound, Shape, Free, Claim, Making, Knows, Delivers, Settlements, Creators
    <2>6. QED
        BY <2>1, <2>3, <2>5, MoveKeepsIInv
<1>5. CASE Revoke(h) \/ Login(h)
    <2> DEFINE x == [Idle EXCEPT !.op = IF Revoke(h) THEN "revoke" ELSE "login",
                                 !.at = IF Revoke(h) THEN "apply" ELSE "resolve", !.loaded = tier]
    <2>1. Step(h, x)
        BY <1>5 DEF Revoke, Login, Start, Step
    <2>2. x \in Tx
        BY <1>1, IdleIsSound DEF Tx, AllOps
    <2>3. Sound(h, x)
        BY DEF Idle, Sound, Shape, Free, Claim, Making, Knows, Delivers, Settlements, Creators
    <2>4. QED
        BY <2>1, <2>2, <2>3, MoveKeepsIInv
<1>6. QED
    BY <1>2, <1>3, <1>4, <1>5

\* Each step inside an operation leaves it a sound record; so does giving up.
LEMMA StepKeepsIInv ==
    ASSUME IInv, NEW h \in Handlers,
           \/ Verify(h) \/ Decide(h) \/ Quote(h) \/ Apply(h) \/ Resolve(h)
           \/ InsertComp(h) \/ RevokeActive(h) \/ Rollback(h)
    PROVE  IInv'
<1> USE BillingAssumption DEF Settlements, Creators
<1>1. /\ tx[h] \in Tx /\ tx \in [Handlers -> Tx] /\ sub \in [Refs -> Row] /\ charge \in [Refs -> Charge]
      /\ Sound(h, tx[h]) /\ Shape(tx[h]) /\ now \in Nat /\ tier \in UserTiers
    BY DEF IInv, TypeOK, Sound
<1>2. CASE Verify(h)
    <2> DEFINE x == [tx[h] EXCEPT !.at = "decide", !.txn = charge[tx[h].ref]]
    <2>1. Step(h, x) /\ tx[h].at = "verify"
        BY <1>2 DEF Verify
    <2>2. tx[h].op \in Settlements /\ tx[h].ref \in Refs /\ tx[h].dirty = {}
        BY <1>1, <2>1 DEF Shape, Tx, AllOps
    <2>3. /\ x.op = tx[h].op /\ x.at = "decide" /\ x.ref = tx[h].ref /\ x.dirty = {}
          /\ x.txn = charge[x.ref]
        BY <1>1, <2>2 DEF Tx
    <2>4. x \in Tx
        BY <1>1, <2>2 DEF Tx
    <2>5. Sound(h, x)
        BY <1>1, <2>1, <2>2, <2>3 DEF Sound, Shape, Free, Claim, Making, Knows, Delivers
    <2>6. QED
        BY <2>1, <2>4, <2>5, MoveKeepsIInv
<1>3. CASE Decide(h)
    <2>1. tx[h].op \in Settlements /\ tx[h].ref \in Refs /\ tx[h].dirty = {} /\ tx[h].at = "decide"
        BY <1>1, <1>3 DEF Shape, Tx, AllOps, Decide
    <2> DEFINE row == sub[tx[h].ref]
    <2>2. row \in Row /\ row.status \in Statuses
        BY <1>1, <2>1 DEF Row
    <2>3. /\ tx[h].txn.status = "success" => charge[tx[h].ref] = tx[h].txn
          /\ tx[h].op = "webhook" => charge[tx[h].ref].status = "success" /\ charge[tx[h].ref] = tx[h].txn
        BY <1>1, <2>1 DEF Sound, Knows, Delivers
    <2>4. CASE Activates(row, tx[h].txn)
        <3> DEFINE x == [tx[h] EXCEPT !.at = "quote", !.row = row]
        <3>1. Step(h, x)
            BY <1>3, <2>4 DEF Decide, Fails, Activates
        <3>2. /\ x.op = tx[h].op /\ x.at = "quote" /\ x.ref = tx[h].ref /\ x.dirty = {}
              /\ x.txn = tx[h].txn /\ x.row = row
            BY <1>1, <2>1 DEF Tx
        <3>3. x \in Tx
            BY <1>1, <2>2 DEF Tx
        <3>4. Paid(x.ref) /\ sub[x.ref].status # "none"
            BY <2>3, <2>4, <3>2 DEF Activates, Paid
        <3>5. Sound(h, x)
            BY <1>1, <2>1, <2>3, <3>2, <3>4 DEF Sound, Shape, Free, Claim, Making, Knows, Delivers
        <3>6. QED
            BY <3>1, <3>3, <3>5, MoveKeepsIInv
    <2>5. CASE Fails(row, tx[h].txn)
        <3> DEFINE x == [tx[h] EXCEPT !.at = "fail", !.row = row]
        <3>1. Step(h, x)
            BY <1>3, <2>5 DEF Decide, Fails, Activates
        <3>2. /\ x.op = tx[h].op /\ x.at = "fail" /\ x.ref = tx[h].ref /\ x.dirty = {}
              /\ x.txn = tx[h].txn /\ x.row = row /\ sub[x.ref].status = "PENDING"
            BY <1>1, <2>1, <2>5 DEF Tx, Fails
        <3>3. x \in Tx
            BY <1>1, <2>2 DEF Tx
        <3>4. Sound(h, x)
            BY <1>1, <2>1, <2>3, <3>2 DEF Sound, Shape, Free, Claim, Making, Knows, Delivers
        <3>5. QED
            BY <3>1, <3>3, <3>4, MoveKeepsIInv
    <2>6. CASE ~Activates(row, tx[h].txn) /\ ~Fails(row, tx[h].txn)
        <3> DEFINE x == [tx[h] EXCEPT !.at = "commit"]
        <3>1. Step(h, x)
            BY <1>3, <2>6 DEF Decide
        <3>2. /\ x.op = tx[h].op /\ x.at = "commit" /\ x.ref = tx[h].ref /\ x.dirty = {}
              /\ x.txn = tx[h].txn
            BY <1>1, <2>1 DEF Tx
        <3>3. x \in Tx
            BY <1>1 DEF Tx
        <3>4. x.op = "webhook" /\ Paid(x.ref) => sub[x.ref].status \in Settled
            <4> SUFFICES ASSUME x.op = "webhook", Paid(x.ref) PROVE row.status \in Settled
                BY <3>2
            <4>1. tx[h].txn.status = "success" /\ tx[h].txn.exact
                BY <2>3, <3>2 DEF Paid
            <4>2. row.status \notin {"PENDING", "ABANDONED"}
                BY <2>6, <4>1 DEF Activates
            <4>3. row.status # "none"
                BY <2>1, <2>3, <3>2 DEF IInv, ChargesHaveRows
            <4>4. QED
                BY <2>2, <4>2, <4>3 DEF Statuses, Settled
        <3>5. Sound(h, x)
            BY <1>1, <2>1, <2>3, <3>2, <3>4 DEF Sound, Shape, Free, Claim, Making, Knows, Delivers
        <3>6. QED
            BY <3>1, <3>3, <3>5, MoveKeepsIInv
    <2>7. QED
        BY <2>4, <2>5, <2>6
<1>4. CASE Quote(h)
    <2> DEFINE start == TermStart(sub)
               row == [tx[h].row EXCEPT !.status = "ACTIVE", !.start = start,
                                        !.end = start + tx[h].row.months]
               x == [tx[h] EXCEPT !.at = "apply", !.row = row]
    <2>1. Step(h, x) /\ tx[h].at = "quote"
        BY <1>4 DEF Quote
    <2>2. tx[h].op \in Settlements \cup {"comp"} /\ tx[h].ref \in Refs /\ tx[h].dirty = {}
        BY <1>1, <2>1 DEF Shape, Tx, AllOps
    <2>3. start \in Nat
        BY TermStartAfterAll DEF IInv
    <2>4. row \in Row /\ row.status = "ACTIVE"
        <3>1. tx[h].row \in Row
            BY <1>1 DEF Tx
        <3>2. start + tx[h].row.months \in Nat
            BY <2>3, <3>1 DEF Row
        <3> HIDE DEF start
        <3>3. QED
            BY <2>3, <3>1, <3>2 DEF Row, Statuses
    <2> HIDE DEF row
    <2>5. /\ x.op = tx[h].op /\ x.at = "apply" /\ x.ref = tx[h].ref /\ x.dirty = {}
          /\ x.txn = tx[h].txn /\ x.row = row
        BY <1>1, <2>2 DEF Tx
    <2>6. x \in Tx
        BY <1>1, <2>4 DEF Tx
    <2>7. Sound(h, x)
        <3>1. Shape(x) /\ Free(h, x.dirty) /\ Claim(x)
            BY <1>1, <2>1, <2>2, <2>4, <2>5 DEF Shape, Free, Claim
        <3>2. Making(h, x) /\ Knows(x) /\ Delivers(x)
            BY <1>1, <2>1, <2>2, <2>5 DEF Sound, Making, Knows, Delivers
        <3>3. QED
            BY <3>1, <3>2 DEF Sound
    <2>8. QED
        BY <2>1, <2>6, <2>7, MoveKeepsIInv DEF row
<1>5. CASE Apply(h)
    <2>1. tx[h].op \in Settlements /\ tx[h].ref \in Refs /\ tx[h].dirty = {} /\ tx[h].at = "apply"
        BY <1>1, <1>5 DEF Shape, Tx, AllOps, Apply
    <2>2. sub[tx[h].ref].status \in Statuses /\ sub[tx[h].ref].status # "none" /\ Paid(tx[h].ref)
        BY <1>1, <2>1 DEF Row, Sound, Knows
    <2>3. CASE sub[tx[h].ref].status \in {"PENDING", "ABANDONED"}
        <3> DEFINE x == [tx[h] EXCEPT !.at = "resolve", !.dirty = {tx[h].ref}]
        <3>1. Step(h, x) /\ Free(h, {tx[h].ref})
            BY <1>5, <2>3 DEF Apply
        <3>2. /\ x.op = tx[h].op /\ x.at = "resolve" /\ x.ref = tx[h].ref /\ x.dirty = {tx[h].ref}
              /\ x.txn = tx[h].txn /\ x.row = tx[h].row
            BY <1>1 DEF Tx
        <3>3. x \in Tx
            BY <1>1, <2>1 DEF Tx
        <3>4. Sound(h, x)
            BY <1>1, <2>1, <2>2, <2>3, <3>1, <3>2 DEF Sound, Shape, Claim, Making, Knows, Delivers
        <3>5. QED
            BY <3>1, <3>3, <3>4, MoveKeepsIInv
    <2>4. CASE sub[tx[h].ref].status \notin {"PENDING", "ABANDONED"}
        <3> DEFINE x == [tx[h] EXCEPT !.at = "commit"]
        <3>1. Step(h, x)
            BY <1>5, <2>4 DEF Apply
        <3>2. /\ x.op = tx[h].op /\ x.at = "commit" /\ x.ref = tx[h].ref /\ x.dirty = {}
              /\ x.txn = tx[h].txn /\ x.row = tx[h].row
            BY <1>1, <2>1 DEF Tx
        <3>3. x \in Tx
            BY <1>1 DEF Tx
        <3>4. sub[x.ref].status \in Settled
            BY <2>2, <2>4, <3>2 DEF Statuses, Settled
        <3>5. Sound(h, x)
            BY <1>1, <2>1, <2>2, <3>2, <3>4 DEF Sound, Shape, Free, Claim, Making, Knows, Delivers
        <3>6. QED
            BY <3>1, <3>3, <3>5, MoveKeepsIInv
    <2>5. QED
        BY <2>3, <2>4
<1>6. CASE Resolve(h)
    <2> DEFINE live == LiveTier(View(tx[h]), now)
               stored == IF tx[h].op \in {"callback", "webhook"} THEN tier ELSE tx[h].loaded
               set == IF live = stored THEN "keep" ELSE live
               x == [tx[h] EXCEPT !.at = "commit", !.set = set]
    <2>1. Step(h, x) /\ tx[h].at = "resolve"
        BY <1>6 DEF Resolve
    <2>2. View(tx[h]) \in [Refs -> Row]
        BY <1>1 DEF View, Written, Tx, Row, Statuses
    <2>3. set \in UserTiers \cup {"keep"}
        BY <1>1, <2>2, LiveTierIsRichest
    <2> HIDE DEF set
    <2>4. /\ x.op = tx[h].op /\ x.at = "commit" /\ x.ref = tx[h].ref /\ x.dirty = tx[h].dirty
          /\ x.txn = tx[h].txn /\ x.row = tx[h].row
        BY <1>1 DEF Tx
    <2>5. x \in Tx
        BY <1>1, <2>3 DEF Tx
    <2>6. Sound(h, x)
        <3>1. Shape(x)
            BY <1>1, <2>1, <2>4 DEF Shape
        <3>2. Free(h, x.dirty) /\ Claim(x) /\ Making(h, x) /\ Knows(x)
            BY <1>1, <2>1, <2>4 DEF Sound, Free, Claim, Making, Knows
        <3>3. x.op = "webhook" => x.dirty # {}
            BY <1>1, <2>1, <2>4 DEF Shape
        <3>4. Delivers(x)
            BY <1>1, <2>1, <2>4, <3>3 DEF Sound, Delivers
        <3>5. QED
            BY <3>1, <3>2, <3>4 DEF Sound
    <2>7. QED
        BY <2>1, <2>5, <2>6, MoveKeepsIInv DEF set
<1>7. CASE InsertComp(h)
    <2> DEFINE x == [tx[h] EXCEPT !.at = "resolve", !.dirty = {tx[h].ref}]
    <2>1. Step(h, x) /\ tx[h].at = "apply" /\ tx[h].op = "comp"
        BY <1>7 DEF InsertComp
    <2>2. tx[h].ref \in Refs /\ tx[h].row.status = "ACTIVE" /\ Making(h, tx[h])
        BY <1>1, <2>1 DEF Shape, Sound
    <2>3. Free(h, {tx[h].ref})
        BY <2>1, <2>2, CreatedIsFree DEF Making
    <2>4. /\ x.op = tx[h].op /\ x.at = "resolve" /\ x.ref = tx[h].ref /\ x.dirty = {tx[h].ref}
          /\ x.txn = tx[h].txn /\ x.row = tx[h].row
        BY <1>1 DEF Tx
    <2>5. x \in Tx
        BY <1>1, <2>2 DEF Tx
    <2>6. Sound(h, x)
        BY <1>1, <2>1, <2>2, <2>3, <2>4 DEF Sound, Shape, Claim, Making, Knows, Delivers
    <2>7. QED
        BY <2>1, <2>5, <2>6, MoveKeepsIInv
<1>8. CASE RevokeActive(h)
    <2> DEFINE active == {r \in Refs : sub[r].status = "ACTIVE"}
               x == [tx[h] EXCEPT !.at = "resolve", !.dirty = active]
    <2>1. Step(h, x) /\ Free(h, active) /\ tx[h].op = "revoke"
        BY <1>8 DEF RevokeActive
    <2>2. /\ x.op = tx[h].op /\ x.at = "resolve" /\ x.ref = tx[h].ref /\ x.dirty = active
        BY <1>1 DEF Tx
    <2>3. x \in Tx
        BY <1>1 DEF Tx
    <2>4. Sound(h, x)
        BY <1>1, <2>1, <2>2 DEF Sound, Shape, Claim, Making, Knows, Delivers
    <2>5. QED
        BY <2>1, <2>3, <2>4, MoveKeepsIInv
<1>9. CASE Rollback(h)
    <2>1. Step(h, Idle)
        BY <1>9 DEF Rollback, Step
    <2>2. QED
        BY <2>1, IdleIsSound, MoveKeepsIInv
<1>10. QED
    BY <1>2, <1>3, <1>4, <1>5, <1>6, <1>7, <1>8, <1>9

-----------------------------------------------------------------------------
(* Commits *)

\* What a commit may do to each row it writes.
Permitted(x) ==
    \A r \in x.dirty :
        \/ x.op \in Creators /\ r = x.ref
           /\ x.row.status = IF x.op = "comp" THEN "ACTIVE" ELSE "PENDING"
        \/ x.op = "checkout" /\ r # x.ref /\ sub[r].status = "PENDING"
        \/ x.op \in Settlements /\ r = x.ref /\ sub[r].status \in {"PENDING", "ABANDONED"}
           /\ x.row.status = "ACTIVE" /\ Paid(r)
        \/ x.op \in Settlements /\ r = x.ref /\ sub[r].status # "none"
           /\ x.row = [sub[r] EXCEPT !.status = "FAILED"]
        \/ x.op = "revoke" /\ r # x.ref /\ sub[r].status = "ACTIVE"

\* A commit that writes x: what the request owns, as it was permitted, and for a
\* webhook the settlement of its event.
Commits(h, x) ==
    /\ Publish(h, x)
    /\ x.op = tx[h].op /\ x.ref = tx[h].ref
    /\ x.op \in Settlements \cup Creators => x.ref \in Refs
    /\ Free(h, x.dirty)
    /\ Permitted(x)
    /\ x.op = "webhook" =>
         /\ charge[x.ref].status = "success"
         /\ x.dirty = {x.ref} \/ (Paid(x.ref) => sub[x.ref].status \in Settled)

\* The two actions that publish are such commits.
LEMMA PublishIsCommit ==
    ASSUME IInv, NEW h \in Handlers, Commit(h) \/ Fail(h)
    PROVE  \E x \in Tx : Commits(h, x)
<1> USE BillingAssumption
<1>1. /\ tx[h] \in Tx /\ sub \in [Refs -> Row]
      /\ Shape(tx[h]) /\ Free(h, tx[h].dirty) /\ Claim(tx[h]) /\ Making(h, tx[h])
      /\ Knows(tx[h]) /\ Delivers(tx[h])
    BY DEF IInv, TypeOK, Sound
<1>2. CASE Commit(h)
    <2>1. tx[h].at = "commit" /\ Publish(h, tx[h])
        BY <1>2 DEF Commit
    <2>2. tx[h].op \in AllOps \cup {"none"} /\ tx[h].dirty \subseteq Refs
        BY <1>1 DEF Tx
    <2>3. Permitted(tx[h])
        <3>1. CASE tx[h].op \in Settlements
            BY <1>1, <3>1 DEF Permitted, Shape, Claim, Knows, Settlements
        <3>2. CASE tx[h].op = "checkout"
            BY <1>1, <3>2 DEF Permitted, Shape, Claim, Creators
        <3>3. CASE tx[h].op = "comp"
            BY <1>1, <2>1, <3>3 DEF Permitted, Shape, Creators
        <3>4. CASE tx[h].op = "revoke"
            BY <1>1, <2>2, <3>4 DEF Permitted, Shape, Claim
        <3>5. CASE tx[h].op \in {"login", "none"}
            BY <1>1, <3>5 DEF Permitted, Shape
        <3>6. QED
            BY <2>2, <3>1, <3>2, <3>3, <3>4, <3>5 DEF AllOps, Settlements
    <2>4. tx[h].op = "webhook" =>
             /\ charge[tx[h].ref].status = "success"
             /\ tx[h].dirty = {tx[h].ref} \/ (Paid(tx[h].ref) => sub[tx[h].ref].status \in Settled)
        BY <1>1, <2>1 DEF Delivers, Shape, Settlements
    <2>5. Commits(h, tx[h])
        BY <1>1, <2>1, <2>3, <2>4 DEF Commits, Shape
    <2>6. QED
        BY <1>1, <2>5
<1>3. CASE Fail(h)
    <2> DEFINE row == [sub[tx[h].ref] EXCEPT !.status = "FAILED"]
               x == [tx[h] EXCEPT !.row = row, !.dirty = {tx[h].ref}]
    <2>1. Publish(h, x) /\ Free(h, {tx[h].ref}) /\ tx[h].at = "fail"
        BY <1>3 DEF Fail
    <2>2. tx[h].op \in Settlements /\ tx[h].ref \in Refs
        BY <1>1, <2>1 DEF Shape, Tx, AllOps, Settlements
    <2>3. sub[tx[h].ref].status # "none"
        BY <1>1, <2>1, <2>2 DEF Knows
    <2>4. row \in Row
        BY <1>1, <2>2 DEF Row, Statuses
    <2>5. x.op = tx[h].op /\ x.ref = tx[h].ref /\ x.dirty = {tx[h].ref} /\ x.row = row
        BY <1>1 DEF Tx
    <2>6. x \in Tx
        BY <1>1, <2>2, <2>4 DEF Tx
    <2>7. Permitted(x)
        BY <2>2, <2>3, <2>5 DEF Permitted
    <2>8. Commits(h, x)
        BY <1>1, <2>1, <2>2, <2>5, <2>7 DEF Commits, Delivers
    <2>9. QED
        BY <2>6, <2>8
<1>4. QED
    BY <1>2, <1>3

\* What a commit does to a row: it writes only its own, every row stays what it
\* is or becomes a row of the request, none ceases to exist or to be settled, and
\* a term that is ACTIVE keeps its dates.
LEMMA CommitEffect ==
    ASSUME IInv, NEW h \in Handlers, NEW x \in Tx, Commits(h, x)
    PROVE  /\ sub' \in [Refs -> Row]
           /\ \A r \in Refs : /\ r \notin x.dirty => sub'[r] = sub[r]
                              /\ r \in x.dirty => sub'[r] = Written(x, r)
           /\ \A r \in Refs :
                /\ sub[r].status # "none" => sub'[r].status # "none"
                /\ sub[r].status \in Settled => sub'[r].status \in Settled
                /\ sub'[r] # sub[r] /\ sub[r].status = "none" => r = x.ref /\ x.op \in Creators
                /\ sub[r].status = "ACTIVE" =>
                     sub'[r].start = sub[r].start /\ sub'[r].end = sub[r].end
<1> USE BillingAssumption
<1>1. sub' = View(x) /\ sub \in [Refs -> Row] /\ x.row \in Row
    BY DEF Commits, Publish, IInv, TypeOK, Tx
<1>2. \A r \in Refs : Written(x, r) \in Row
    BY <1>1 DEF Written, Row, Statuses
<1>3. sub' \in [Refs -> Row]
    BY <1>1, <1>2 DEF View
<1>4. \A r \in Refs : /\ r \notin x.dirty => sub'[r] = sub[r]
                      /\ r \in x.dirty => sub'[r] = Written(x, r)
    BY <1>1 DEF View
<1>5. x.op \in Creators => sub[x.ref].status = "none"
    BY DEF Commits, IInv, Sound, Making
<1>6. ASSUME NEW r \in Refs
      PROVE  /\ sub[r].status # "none" => sub'[r].status # "none"
             /\ sub[r].status \in Settled => sub'[r].status \in Settled
             /\ sub'[r] # sub[r] /\ sub[r].status = "none" => r = x.ref /\ x.op \in Creators
             /\ sub[r].status = "ACTIVE" =>
                  sub'[r].start = sub[r].start /\ sub'[r].end = sub[r].end
    <2>1. CASE r \notin x.dirty
        BY <1>4, <2>1
    <2>2. CASE r \in x.dirty
        <3>1. sub'[r] = Written(x, r) /\ sub[r] \in Row
            BY <1>1, <1>4, <2>2
        <3>2. CASE x.op \in Creators /\ r = x.ref
            BY <1>5, <2>2, <3>1, <3>2 DEF Commits, Permitted, Written, Settled, Creators, Settlements
        <3>3. CASE x.op = "checkout" /\ r # x.ref /\ sub[r].status = "PENDING"
            BY <3>1, <3>3 DEF Written, Row, Settled
        <3>4. CASE r = x.ref /\ sub[r].status \in {"PENDING", "ABANDONED"} /\ x.row.status = "ACTIVE"
            BY <3>1, <3>4 DEF Written, Settled
        <3>5. CASE r = x.ref /\ sub[r].status # "none" /\ x.row = [sub[r] EXCEPT !.status = "FAILED"]
            BY <3>1, <3>5 DEF Written, Row, Settled
        <3>6. CASE x.op = "revoke" /\ r # x.ref /\ sub[r].status = "ACTIVE"
            BY <3>1, <3>6 DEF Written, Row, Settled
        <3>7. QED
            BY <2>2, <3>2, <3>3, <3>4, <3>5, <3>6 DEF Commits, Permitted
    <2>3. QED
        BY <2>1, <2>2
<1>7. QED
    BY <1>3, <1>4, <1>6

LEMMA CommitKeepsIInv ==
    ASSUME IInv, NEW h \in Handlers, NEW x \in Tx, Commits(h, x)
    PROVE  IInv'
<1> USE BillingAssumption
<1>1. /\ sub \in [Refs -> Row] /\ tx \in [Handlers -> Tx] /\ charge' = charge /\ now' = now
      /\ tx' = [tx EXCEPT ![h] = Idle]
    BY DEF IInv, TypeOK, Commits, Publish
<1>2. tx'[h] = Idle /\ \A g \in Handlers \ {h} : tx'[g] = tx[g]
    BY <1>1
<1>3. /\ sub' \in [Refs -> Row]
      /\ \A r \in Refs : /\ r \notin x.dirty => sub'[r] = sub[r]
                         /\ r \in x.dirty => sub'[r] = Written(x, r)
    BY CommitEffect
<1>4. \A r \in Refs :
        /\ sub[r].status # "none" => sub'[r].status # "none"
        /\ sub[r].status \in Settled => sub'[r].status \in Settled
        /\ sub'[r] # sub[r] /\ sub[r].status = "none" => r = x.ref /\ x.op \in Creators
    BY CommitEffect
<1>5. x.op = tx[h].op /\ x.ref = tx[h].ref /\ Free(h, x.dirty)
    BY DEF Commits
<1>6. TypeOK'
    <2>1. tx' \in [Handlers -> Tx]
        BY <1>1, IdleIsSound
    <2>2. source' \in [Refs -> {"none", "PAYSTACK", "COMP"}] /\ tier' \in UserTiers
        BY DEF IInv, TypeOK, Commits, Publish, Tx
    <2>3. events' \subseteq Refs
        BY DEF IInv, TypeOK, Commits, Publish, Settlements
    <2>4. QED
        BY <1>1, <1>3, <2>1, <2>2, <2>3 DEF IInv, TypeOK
<1>7. ASSUME NEW g \in Handlers PROVE Sound(g, tx[g])'
    <2>1. CASE g = h
        BY <1>2, <2>1 DEF Idle, Sound, Shape, Free, Claim, Making, Knows, Delivers, Settlements, Creators
    <2>2. CASE g # h
        <3>1. tx'[g] = tx[g] /\ tx[g] \in Tx /\ Shape(tx[g]) /\ Free(g, tx[g].dirty) /\ Claim(tx[g])
              /\ Making(g, tx[g]) /\ Knows(tx[g]) /\ Delivers(tx[g])
            BY <1>1, <1>2, <2>2 DEF IInv, Sound
        <3>2. tx[g].dirty \cap x.dirty = {} /\ tx[g].dirty \subseteq Refs
            BY <1>5, <2>2, <3>1 DEF Free, Tx
        <3>3. \A r \in tx[g].dirty : r \in Refs /\ sub'[r] = sub[r]
            BY <1>3, <3>2
        <3>4. Free(g, tx[g].dirty)'
            <4>1. Idle.dirty = {}
                BY DEF Idle
            <4>2. QED
                BY <1>2, <2>2, <3>1, <4>1 DEF Free
        <3>5. Claim(tx[g])'
            BY <3>1, <3>3 DEF Claim
        <3>6. Making(g, tx[g])'
            <4>1. SUFFICES ASSUME tx[g].op \in Creators PROVE Making(g, tx[g])'
                BY <3>1 DEF Making
            <4>2. tx[g].ref \in Refs /\ sub[tx[g].ref].status = "none"
                BY <3>1, <4>1 DEF Shape, Making
            <4>3. sub'[tx[g].ref] = sub[tx[g].ref]
                BY <1>4, <1>5, <2>2, <3>1, <4>1, <4>2 DEF Making
            <4>4. Idle.op \notin Creators
                BY DEF Idle, Creators
            <4>5. QED
                BY <1>1, <1>2, <3>1, <4>1, <4>2, <4>3, <4>4 DEF Making
        <3>7. Knows(tx[g])' /\ Delivers(tx[g])'
            BY <1>1, <1>4, <3>1 DEF Knows, Delivers, Paid, Shape, Settlements
        <3>8. QED
            BY <3>1, <3>4, <3>5, <3>6, <3>7 DEF Sound
    <2>3. QED
        BY <2>1, <2>2
<1>8. ChargesHaveRows'
    BY <1>1, <1>4 DEF IInv, ChargesHaveRows, Commits, Publish
<1>9. EndsBounded'
    <2>1. PICK last \in Nat : \A r \in Refs : sub[r].end <= last
        BY DEF IInv, EndsBounded
    <2>2. x.row.end \in Nat /\ last + x.row.end \in Nat
        BY DEF Tx, Row
    <2>3. ASSUME NEW r \in Refs PROVE sub'[r].end <= last + x.row.end
        <3>1. sub[r] \in Row /\ sub[r].end \in Nat /\ sub[r].end <= last
            BY <1>1, <2>1 DEF Row
        <3>2. sub'[r].end \in {sub[r].end, x.row.end}
            BY <1>3, <3>1 DEF Written, Row
        <3>3. QED
            BY <2>1, <2>2, <3>1, <3>2
    <2>4. QED
        BY <2>2, <2>3 DEF EndsBounded
<1>10. PaidOnly'
    <2> SUFFICES ASSUME NEW r \in Refs, source'[r] = "PAYSTACK", sub'[r].status \in {"ACTIVE", "REVOKED"}
                 PROVE  Paid(r)
        BY <1>1 DEF PaidOnly, Paid
    <2>1. sub[r] \in Row
        BY <1>1
    <2>2. source'[r] # source[r] => x.op \in Creators /\ r = x.ref /\ r \in x.dirty /\ x.op = "checkout"
        BY DEF IInv, TypeOK, Commits, Publish, Creators
    <2>3. CASE r \notin x.dirty
        BY <1>3, <2>2, <2>3 DEF IInv, PaidOnly
    <2>4. CASE r \in x.dirty
        <3>1. sub'[r] = Written(x, r)
            BY <1>3, <2>4
        <3>2. CASE x.op \in Creators /\ r = x.ref
            <4>1. x.op # "comp"
                BY <2>4, <3>2 DEF IInv, TypeOK, Commits, Publish
            <4>2. x.row.status = "PENDING"
                BY <2>4, <3>2, <4>1 DEF Commits, Permitted, Creators, Settlements
            <4>3. QED
                BY <3>1, <3>2, <4>2 DEF Written
        <3>3. CASE x.op = "checkout" /\ r # x.ref /\ sub[r].status = "PENDING"
            BY <2>1, <3>1, <3>3 DEF Written, Row
        <3>4. CASE Paid(r)
            BY <3>4
        <3>5. CASE r = x.ref /\ x.row = [sub[r] EXCEPT !.status = "FAILED"]
            BY <2>1, <3>1, <3>5 DEF Written, Row
        <3>6. CASE x.op = "revoke" /\ r # x.ref /\ sub[r].status = "ACTIVE"
            BY <2>2, <3>6 DEF IInv, PaidOnly, Creators
        <3>7. QED
            BY <2>4, <3>2, <3>3, <3>4, <3>5, <3>6 DEF Commits, Permitted
    <2>5. QED
        BY <2>3, <2>4
<1>11. RecordedIsSettled'
    <2> SUFFICES ASSUME NEW r \in events', Paid(r) PROVE sub'[r].status \in Settled
        BY <1>1 DEF RecordedIsSettled, Paid, Settled
    <2>1. r \in Refs
        BY <1>6 DEF TypeOK
    <2>2. CASE r \in events
        BY <1>4, <2>1, <2>2 DEF IInv, RecordedIsSettled, Settled
    <2>3. CASE r \notin events
        <3>1. x.op = "webhook" /\ r = x.ref
            BY <2>3 DEF Commits, Publish
        <3>2. CASE sub[r].status \in Settled
            BY <1>4, <2>1, <3>2
        <3>3. CASE x.dirty = {r}
            <4>1. sub'[r] = x.row /\ sub[r] \in Row
                BY <1>1, <1>3, <2>1, <3>1, <3>3 DEF Written
            <4>2. x.row.status \in {"ACTIVE", "FAILED"}
                BY <3>1, <3>3, <4>1 DEF Commits, Permitted, Creators, Row
            <4>3. QED
                BY <4>1, <4>2 DEF Settled
        <3>4. QED
            BY <3>1, <3>2, <3>3 DEF Commits
    <2>4. QED
        BY <2>2, <2>3
<1>12. QED
    BY <1>6, <1>7, <1>8, <1>9, <1>10, <1>11 DEF IInv

-----------------------------------------------------------------------------
(* Paystack, the clock, and the theorems *)

\* A step at Paystack changes no row, and no charge that has succeeded.
LEMMA ChargeKeepsIInv ==
    ASSUME IInv,
           \/ \E h \in Handlers : Initialize(h)
           \/ \E r \in Refs : Decline(r) \/ \E exact \in BOOLEAN : Pay(r, exact)
    PROVE  IInv'
<1> USE BillingAssumption DEF Settlements, Creators
<1>1. /\ UNCHANGED <<sub, source, events, tier, now>>
      /\ sub \in [Refs -> Row] /\ charge \in [Refs -> Charge] /\ tx \in [Handlers -> Tx]
      /\ \A g \in Handlers : Sound(g, tx[g])
    BY DEF IInv, TypeOK, Initialize, Decline, Pay
<1>2. /\ charge' \in [Refs -> Charge]
      /\ \A r \in Refs : charge[r].status = "success" => charge'[r] = charge[r]
      /\ \A r \in Refs : charge'[r].status = "success" => sub[r].status # "none"
      /\ \A r \in Refs : charge[r].status # "none" => charge'[r].status # "none"
    <2>1. ASSUME NEW h \in Handlers, Initialize(h) PROVE <1>2
        <3>1. tx[h].ref \in Refs /\ charge[tx[h].ref].status = "none"
            BY <1>1, <2>1 DEF Initialize, Sound, Shape, Making, Tx, AllOps
        <3>2. QED
            BY <1>1, <2>1, <3>1 DEF Initialize, Charge, IInv, ChargesHaveRows
    <2>2. ASSUME NEW r \in Refs, Decline(r) PROVE <1>2
        BY <1>1, <2>2 DEF Decline, Charge, IInv, ChargesHaveRows
    <2>3. ASSUME NEW r \in Refs, NEW exact \in BOOLEAN, Pay(r, exact) PROVE <1>2
        BY <1>1, <2>3 DEF Pay, Charge, IInv, ChargesHaveRows
    <2>4. QED
        BY <2>1, <2>2, <2>3
<1>3. /\ tx' \in [Handlers -> Tx]
      /\ \A g \in Handlers :
           \/ tx'[g] = tx[g]
           \/ tx[g].at = "initialize" /\ tx'[g] = [tx[g] EXCEPT !.at = "commit"]
    BY <1>1 DEF Initialize, Decline, Pay, Tx
<1>4. \A g \in Handlers : /\ tx'[g].op = tx[g].op /\ tx'[g].ref = tx[g].ref
                          /\ tx'[g].dirty = tx[g].dirty
    BY <1>1, <1>3 DEF Tx
<1>5. PaidOnly'
    <2>1. \A r \in Refs : charge[r].status = "success" => Paid(r)' = Paid(r)
        BY <1>2 DEF Paid
    <2>2. QED
        BY <1>1, <1>2 DEF IInv, PaidOnly, Paid
<1>6. RecordedIsSettled' /\ ChargesHaveRows'
    BY <1>1, <1>2 DEF IInv, TypeOK, RecordedIsSettled, ChargesHaveRows, Paid
<1>7. TypeOK' /\ EndsBounded'
    BY <1>1, <1>2, <1>3 DEF IInv, TypeOK, EndsBounded
<1>8. ASSUME NEW g \in Handlers,
             \A r \in Refs : charge'[r].status # "none" /\ charge[r].status = "none" =>
                 \A k \in Handlers : tx'[k].at = "initialize" => tx'[k].ref # r
      PROVE Sound(g, tx[g])'
    <2>1. Free(g, tx[g].dirty)'
        BY <1>1, <1>4 DEF Sound, Free
    <2>2. CASE tx'[g] = tx[g]
        <3>1. Shape(tx[g])' /\ Claim(tx[g])'
            BY <1>1, <2>2 DEF Sound, Claim
        <3>2. Making(g, tx[g])'
            <4>1. Making(g, tx[g]) /\ Shape(tx[g])
                BY <1>1 DEF Sound
            <4>2. tx[g].op \in Creators /\ tx[g].at = "initialize" => charge'[tx[g].ref].status = "none"
                BY <1>8, <2>2, <4>1 DEF Making, Shape
            <4>3. QED
                BY <1>1, <1>4, <2>2, <4>1, <4>2 DEF Making
        <3>3. Knows(tx[g])' /\ Delivers(tx[g])'
            <4>1. Knows(tx[g]) /\ Delivers(tx[g]) /\ Shape(tx[g])
                BY <1>1 DEF Sound
            <4>2. CASE tx[g].op \notin Settlements
                BY <2>2, <4>2 DEF Knows, Delivers
            <4>3. CASE tx[g].op \in Settlements
                <5>1. tx[g].ref \in Refs
                    BY <4>1, <4>3 DEF Shape
                <5>2. Knows(tx[g])'
                    BY <1>1, <1>2, <2>2, <4>1, <4>3, <5>1 DEF Knows, Paid
                <5>3. Delivers(tx[g])'
                    BY <1>1, <1>2, <2>2, <4>1, <4>3, <5>1 DEF Delivers, Paid
                <5>4. QED
                    BY <5>2, <5>3
            <4>4. QED
                BY <4>2, <4>3
        <3>4. QED
            BY <2>1, <2>2, <3>1, <3>2, <3>3 DEF Sound
    <2>3. CASE tx[g].at = "initialize" /\ tx'[g] = [tx[g] EXCEPT !.at = "commit"]
        <3>1. tx[g].op = "checkout" /\ tx[g] \in Tx
            BY <1>1, <2>3 DEF Sound, Shape, Tx, AllOps
        <3>2. tx'[g].at = "commit" /\ tx'[g].row = tx[g].row
            BY <2>3, <3>1 DEF Tx
        <3>3. Shape(tx[g])' /\ Claim(tx[g])'
            BY <1>1, <1>4, <3>1, <3>2 DEF Sound, Shape, Claim
        <3>4. Making(g, tx[g])' /\ Knows(tx[g])' /\ Delivers(tx[g])'
            BY <1>1, <1>4, <3>1, <3>2 DEF Sound, Making, Knows, Delivers
        <3>5. QED
            BY <2>1, <3>3, <3>4 DEF Sound
    <2>4. QED
        BY <1>3, <2>2, <2>3
<1>9. \A r \in Refs : charge'[r].status # "none" /\ charge[r].status = "none" =>
          \A k \in Handlers : tx'[k].at = "initialize" => tx'[k].ref # r
    <2>1. ASSUME NEW h \in Handlers, Initialize(h) PROVE <1>9
        <3> SUFFICES ASSUME NEW r \in Refs, charge'[r].status # "none", charge[r].status = "none",
                            NEW k \in Handlers, tx'[k].at = "initialize"
                     PROVE  tx'[k].ref # r
            OBVIOUS
        <3>1. r = tx[h].ref /\ tx[h].at = "initialize"
            BY <1>1, <2>1 DEF Initialize
        <3>2. tx'[h].at = "commit"
            BY <1>1, <2>1 DEF Initialize, Tx
        <3>3. k # h /\ tx'[k] = tx[k]
            BY <1>1, <2>1, <3>2 DEF Initialize
        <3>4. tx[k].op \in Creators /\ tx[h].op \in Creators
            BY <1>1, <3>1, <3>3 DEF Sound, Shape, Tx, AllOps
        <3>5. QED
            BY <1>1, <3>1, <3>3, <3>4 DEF Sound, Making
    <2>2. ASSUME NEW q \in Refs, Decline(q) \/ \E exact \in BOOLEAN : Pay(q, exact) PROVE <1>9
        BY <1>1, <2>2 DEF Decline, Pay, Charge
    <2>3. QED
        BY <2>1, <2>2
<1>10. QED
    BY <1>5, <1>6, <1>7, <1>8, <1>9 DEF IInv

LEMMA InitIsIInv == Init => IInv
<1> SUFFICES ASSUME Init PROVE IInv
    OBVIOUS
<1> USE BillingAssumption
<1>1. TypeOK
    BY IdleIsSound DEF Init, TypeOK, NoRow, NoCharge, Row, Charge, Statuses, UserTiers, Rank
<1>2. ASSUME NEW h \in Handlers PROVE Sound(h, tx[h])
    BY IdleIsSound DEF Init
<1>3. NoRow.status = "none" /\ NoRow.end = 0 /\ NoCharge.status = "none"
    BY DEF NoRow, NoCharge
<1>4. ChargesHaveRows /\ PaidOnly /\ RecordedIsSettled
    BY <1>3 DEF Init, ChargesHaveRows, PaidOnly, RecordedIsSettled
<1>5. EndsBounded
    BY <1>3 DEF Init, EndsBounded
<1>6. QED
    BY <1>1, <1>2, <1>4, <1>5 DEF IInv

LEMMA NextKeepsIInv == IInv /\ [Next]_vars => IInv'
<1> SUFFICES ASSUME IInv, [Next]_vars PROVE IInv'
    OBVIOUS
<1>1. CASE Tick \/ UNCHANGED vars
    <2>1. UNCHANGED <<sub, source, charge, events, tier, tx>> /\ now' \in 0 .. MaxTime
        BY <1>1, BillingAssumption DEF Tick, vars, IInv, TypeOK
    <2>2. TypeOK' /\ ChargesHaveRows' /\ EndsBounded' /\ PaidOnly' /\ RecordedIsSettled'
        BY <2>1 DEF IInv, TypeOK, ChargesHaveRows, EndsBounded, PaidOnly, RecordedIsSettled, Paid
    <2>3. ASSUME NEW h \in Handlers PROVE Sound(h, tx[h])'
        BY <2>1 DEF IInv, Sound, Free, Claim, Making, Knows, Delivers, Paid
    <2>4. QED
        BY <2>2, <2>3 DEF IInv
<1>2. CASE \E h \in Handlers : Commit(h) \/ Fail(h)
    BY <1>2, PublishIsCommit, CommitKeepsIInv
<1>3. QED
    BY <1>1, <1>2, StartKeepsIInv, StepKeepsIInv, ChargeKeepsIInv DEF Next, Handle

\* In every reachable state the data has the shape the code gives it and the
\* inductive invariant holds.
THEOREM BillingInvariant == Spec => []IInv
<1>1. Init => IInv
    BY InitIsIInv
<1>2. IInv /\ [Next]_vars => IInv'
    BY NextKeepsIInv
<1>3. QED
    BY <1>1, <1>2, PTL DEF Spec

\* However many requests race, rows, charges, events and requests stay well typed.
THEOREM BillingTyped == Spec => []TypeOK
<1>1. IInv => TypeOK
    BY DEF IInv
<1>2. QED
    BY <1>1, BillingInvariant, PTL

\* No checkout's row is granted without its charge, and no recorded success is
\* left unsettled (settlement_outcome, activate, and the event in the same commit).
THEOREM ChargesAlwaysSettle == Spec => []ChargesSettle
<1>1. IInv => ChargesSettle
    BY DEF IInv, ChargesSettle
<1>2. QED
    BY <1>1, BillingInvariant, PTL

\* No step moves the dates of an ACTIVE term (subscriptions_repository.activate).
THEOREM TermsStayFixed == Spec => TermFixed
<1>1. IInv /\ [Next]_vars =>
          [\A r \in Refs : sub[r].status = "ACTIVE" =>
               sub'[r].start = sub[r].start /\ sub'[r].end = sub[r].end]_vars
    <2> SUFFICES ASSUME IInv, Next, NEW r \in Refs, sub[r].status = "ACTIVE"
                 PROVE  sub'[r].start = sub[r].start /\ sub'[r].end = sub[r].end
        OBVIOUS
    <2>1. CASE \E h \in Handlers : Commit(h) \/ Fail(h)
        BY <2>1, PublishIsCommit, CommitEffect
    <2>2. ASSUME NEW h \in Handlers,
                 \/ Verify(h) \/ Decide(h) \/ Quote(h) \/ Apply(h) \/ Resolve(h) \/ Initialize(h)
                 \/ InsertComp(h) \/ RevokeActive(h) \/ Rollback(h) \/ Revoke(h) \/ Login(h)
          PROVE  sub' = sub
        BY <2>2 DEF Verify, Decide, Quote, Apply, Resolve, Initialize, InsertComp, RevokeActive,
            Rollback, Revoke, Login, Start, Step
    <2>3. ASSUME NEW h \in Handlers, NEW q \in Refs,
                 \/ Callback(h, q) \/ Webhook(h, q)
                 \/ \E t \in Tiers, m \in Terms : Checkout(h, q, t, m) \/ Comp(h, q, t, m)
          PROVE  sub' = sub
        BY <2>3 DEF Callback, Webhook, Checkout, Comp, Start
    <2>4. ASSUME NEW q \in Refs, Decline(q) \/ \E exact \in BOOLEAN : Pay(q, exact)
          PROVE  sub' = sub
        BY <2>4 DEF Decline, Pay
    <2>5. Tick => sub' = sub
        BY DEF Tick
    <2>6. QED
        BY <2>1, <2>2, <2>3, <2>4, <2>5 DEF Next, Handle
<1>2. QED
    BY <1>1, BillingInvariant, PTL DEF Spec, TermFixed

-----------------------------------------------------------------------------
(* One request at a time.  Quotes and tiers are read before they are written,  *)
(* and no lock is held on what they rest on; so the two promises below are     *)
(* those of requests that do not overlap, however many follow one another.     *)

OneAtATime == \A g, h \in Handlers : g = h

\* What a request knows while no other runs: the term it quoted starts after
\* every ACTIVE one, the tier it has loaded or resolved is the one stored, and
\* the row it will fail is still PENDING.
Alone(x) ==
    /\ x.op \in Settlements \cup {"comp"} /\ (x.at \in {"apply", "resolve"} \/ x.dirty # {}) =>
          \A r \in Refs : sub[r].status = "ACTIVE" => sub[r].end <= x.row.start
    /\ x.op \in {"comp", "revoke", "login"} => x.loaded = tier
    /\ x.op = "revoke" \/ (x.op \in Settlements \cup {"comp"} /\ x.dirty # {}) =>
          (x.at = "commit" =>
               x.set = IF LiveTier(View(x), now) = tier THEN "keep" ELSE LiveTier(View(x), now))
    /\ x.op \in Settlements /\ x.at = "fail" => sub[x.ref].status = "PENDING"

SerialInv == TermsDisjoint /\ \A h \in Handlers : Alone(tx[h])

LEMMA AloneMove ==
    ASSUME OneAtATime, IInv, SerialInv, NEW h \in Handlers, NEW x \in Tx, Alone(x), Step(h, x)
    PROVE  SerialInv'
<1>1. UNCHANGED <<sub, tier, now>> /\ tx'[h] = x
    BY DEF IInv, TypeOK, Step
<1>2. Alone(x)'
    <2>1. View(x)' = View(x)
        BY <1>1 DEF View, Written
    <2>2. LiveTier(View(x), now)' = LiveTier(View(x), now)
        BY <1>1, <2>1
    <2>3. QED
        BY <1>1, <2>2 DEF Alone
<1>3. \A g \in Handlers : Alone(tx[g])'
    BY <1>1, <1>2 DEF OneAtATime
<1>4. TermsDisjoint'
    BY <1>1 DEF SerialInv, TermsDisjoint
<1>5. QED
    BY <1>3, <1>4 DEF SerialInv

\* What a request alone publishes: terms that stay disjoint, and with any change
\* of the ACTIVE rows the tier that goes with them.
LEMMA AloneCommit ==
    ASSUME OneAtATime, IInv, SerialInv, NEW h \in Handlers, Commit(h) \/ Fail(h)
    PROVE  SerialInv' /\ (Granted(sub') # Granted(sub) => tier' = LiveTier(sub', now'))
<1> USE BillingAssumption DEF Settlements, Creators
<1>1. PICK x \in Tx : Commits(h, x)
    BY PublishIsCommit
<1>2. /\ sub \in [Refs -> Row] /\ sub' \in [Refs -> Row] /\ now' = now /\ now \in Nat
      /\ tx'[h] = Idle
    <2>1. sub' \in [Refs -> Row]
        BY <1>1, CommitEffect
    <2>2. QED
        BY <1>1, <2>1 DEF Commits, Publish, IInv, TypeOK
<1>3. \A g \in Handlers : Alone(tx[g])'
    BY <1>2 DEF OneAtATime, Alone, Idle
<1>4. Alone(tx[h]) /\ Sound(h, tx[h]) /\ tx[h] \in Tx
    BY DEF SerialInv, IInv, TypeOK
<1>5. CASE Fail(h)
    <2>1. tx[h].at = "fail" /\ Publish(h, [tx[h] EXCEPT !.row = [sub[tx[h].ref] EXCEPT !.status = "FAILED"],
                                                     !.dirty = {tx[h].ref}])
        BY <1>5 DEF Fail
    <2>2. tx[h].op \in Settlements /\ tx[h].ref \in Refs /\ sub[tx[h].ref].status = "PENDING"
        BY <1>4, <2>1 DEF Sound, Shape, Alone, Tx, AllOps
    <2>3. \A r \in Refs : sub'[r] = IF r = tx[h].ref THEN [sub[r] EXCEPT !.status = "FAILED"] ELSE sub[r]
        BY <1>2, <1>4, <2>1 DEF Publish, View, Written, Tx
    <2>4. \A r \in Refs : sub'[r].status = "ACTIVE" <=> sub[r].status = "ACTIVE"
        BY <1>2, <2>2, <2>3 DEF Row
    <2>5. \A r \in Refs : sub'[r].status = "ACTIVE" => sub'[r] = sub[r]
        BY <1>2, <2>2, <2>3 DEF Row
    <2>6. Granted(sub') = Granted(sub)
        BY <2>4 DEF Granted
    <2>7. TermsDisjoint'
        BY <2>4, <2>5 DEF SerialInv, TermsDisjoint
    <2>8. QED
        BY <1>3, <2>6, <2>7 DEF SerialInv
<1>6. CASE Commit(h)
    <2> DEFINE y == tx[h]
    <2>1. /\ y.at = "commit" /\ sub' = View(y) /\ tier' = IF y.set = "keep" THEN tier ELSE y.set
          /\ \A r \in Refs : sub'[r] = IF r \in y.dirty THEN Written(y, r) ELSE sub[r]
        BY <1>6 DEF Commit, Publish, View
    <2>2. Shape(y) /\ Claim(y) /\ y.op \in AllOps \cup {"none"} /\ y.row \in Row /\ y.dirty \subseteq Refs
        BY <1>4 DEF Sound, Tx
    <2>3. CASE y.op \in {"none", "login", "checkout"} \/ (y.op \in Settlements /\ y.dirty = {})
        <3>1. \A r \in Refs : sub'[r].status = "ACTIVE" \/ sub[r].status = "ACTIVE" => sub'[r] = sub[r]
            <4>1. CASE y.dirty = {}
                BY <2>1, <4>1
            <4>2. CASE y.op = "checkout"
                <5>1. y.row.status = "PENDING" /\ sub[y.ref].status = "none" /\ y.ref \in Refs
                    BY <1>4, <2>2, <4>2 DEF Shape, Sound, Making
                <5>2. ASSUME NEW r \in Refs, r \in y.dirty
                      PROVE  sub'[r].status # "ACTIVE" /\ sub[r].status # "ACTIVE"
                    <6>1. CASE r = y.ref
                        BY <2>1, <5>1, <5>2, <6>1 DEF Written
                    <6>2. CASE r # y.ref
                        <7>1. sub[r].status = "PENDING" /\ sub[r] \in Row
                            BY <1>2, <2>2, <4>2, <5>2, <6>2 DEF Claim
                        <7>2. sub'[r] = [sub[r] EXCEPT !.status = "ABANDONED"]
                            BY <2>1, <4>2, <5>2, <6>2 DEF Written
                        <7>3. QED
                            BY <7>1, <7>2 DEF Row
                    <6>3. QED
                        BY <6>1, <6>2
                <5>3. QED
                    BY <2>1, <5>2
            <4>3. QED
                BY <2>2, <2>3, <4>1, <4>2 DEF Shape
        <3>2. Granted(sub') = Granted(sub)
            BY <3>1 DEF Granted
        <3>3. TermsDisjoint'
            BY <3>1 DEF SerialInv, TermsDisjoint
        <3>4. QED
            BY <1>3, <3>2, <3>3 DEF SerialInv
    <2>4. CASE y.op \in {"comp", "revoke"} \/ (y.op \in Settlements /\ y.dirty # {})
        <3>1. tier' = LiveTier(sub', now')
            <4>1. LiveTier(sub', now') \in UserTiers /\ "keep" \notin UserTiers
                <5>1. LiveTier(sub', now) \in UserTiers
                    BY <1>2, LiveTierIsRichest
                <5>2. "keep" \notin UserTiers
                    BY DEF UserTiers, Rank
                <5>3. QED
                    BY <1>2, <5>1, <5>2
            <4>2. y.op = "comp" => y.dirty # {}
                BY <2>1, <2>2, <2>4 DEF Shape
            <4>3. y.set = IF LiveTier(sub', now') = tier THEN "keep" ELSE LiveTier(sub', now')
                BY <1>2, <1>4, <2>1, <2>4, <4>2 DEF Alone
            <4>4. QED
                BY <2>1, <4>1, <4>3
        <3>2. CASE y.op = "revoke"
            <4>1. \A r \in Refs : sub'[r].status = "ACTIVE" => sub'[r] = sub[r] /\ sub[r].status = "ACTIVE"
                <5>1. y.ref = "none"
                    BY <2>2, <3>2 DEF Shape
                <5>2. ASSUME NEW r \in Refs, r \in y.dirty PROVE sub'[r].status = "REVOKED"
                    <6>1. sub'[r] = [sub[r] EXCEPT !.status = "REVOKED"] /\ sub[r] \in Row
                        BY <1>2, <2>1, <3>2, <5>1, <5>2 DEF Written
                    <6>2. QED
                        BY <6>1 DEF Row
                <5>3. QED
                    BY <2>1, <5>2
            <4>2. TermsDisjoint'
                BY <4>1 DEF SerialInv, TermsDisjoint
            <4>3. QED
                BY <1>3, <3>1, <4>2 DEF SerialInv
        <3>3. CASE y.op \in Settlements \cup {"comp"}
            <4>1. y.dirty = {y.ref} /\ y.ref \in Refs
                BY <2>1, <2>2, <2>4, <3>3 DEF Shape
            <4>2. \A r \in Refs : sub'[r] = IF r = y.ref THEN y.row ELSE sub[r]
                BY <2>1, <4>1 DEF Written
            <4>3. \A r \in Refs : sub[r].status = "ACTIVE" => sub[r].end <= y.row.start
                BY <1>4, <3>3, <4>1 DEF Alone
            <4>4. TermsDisjoint'
                <5> SUFFICES ASSUME NEW r \in Refs, NEW s \in Refs, r # s,
                                    sub'[r].status = "ACTIVE", sub'[s].status = "ACTIVE"
                             PROVE  ~Overlap(sub'[r], sub'[s])
                    BY DEF TermsDisjoint
                <5>1. /\ y.row.start \in Nat /\ sub[r].end \in Nat /\ sub[s].end \in Nat
                      /\ sub[r].start \in Nat /\ sub[s].start \in Nat
                    BY <1>2, <2>2 DEF Row
                <5>2. CASE r # y.ref /\ s # y.ref
                    BY <4>2, <5>2 DEF SerialInv, TermsDisjoint
                <5>3. CASE r = y.ref
                    BY <4>2, <4>3, <5>1, <5>3 DEF Overlap
                <5>4. CASE s = y.ref
                    BY <4>2, <4>3, <5>1, <5>4 DEF Overlap
                <5>5. QED
                    BY <5>2, <5>3, <5>4
            <4>5. QED
                BY <1>3, <3>1, <4>4 DEF SerialInv
        <3>4. QED
            BY <2>4, <3>2, <3>3
    <2>5. QED
        BY <2>2, <2>3, <2>4 DEF AllOps
<1>7. QED
    BY <1>5, <1>6

LEMMA AloneKeeps ==
    ASSUME OneAtATime, IInv, SerialInv, Next
    PROVE  SerialInv' /\ (Granted(sub') # Granted(sub) => tier' = LiveTier(sub', now'))
<1> USE BillingAssumption DEF Settlements, Creators
<1>1. /\ sub \in [Refs -> Row] /\ tx \in [Handlers -> Tx] /\ tier \in UserTiers /\ charge \in [Refs -> Charge]
      /\ \A h \in Handlers : Alone(tx[h]) /\ Sound(h, tx[h])
    BY DEF IInv, TypeOK, SerialInv
<1>2. ASSUME NEW h \in Handlers, NEW x \in Tx, Alone(x), Step(h, x)
      PROVE  SerialInv' /\ (Granted(sub') # Granted(sub) => tier' = LiveTier(sub', now'))
    <2>1. sub' = sub
        BY <1>2 DEF Step
    <2>2. QED
        BY <1>2, <2>1, AloneMove
<1>3. CASE \E h \in Handlers : Commit(h) \/ Fail(h)
    BY <1>3, AloneCommit
<1>4. ASSUME NEW h \in Handlers, NEW x \in Tx, Start(h, x),
             x.op \in {"callback", "webhook", "checkout"} \/ x.at \in {"quote", "apply", "resolve"},
             x.op \in Settlements => x.at = "verify" /\ x.dirty = {},
             x.op = "comp" => x.at = "quote" /\ x.dirty = {},
             x.op \in {"comp", "revoke", "login"} => x.loaded = tier
      PROVE  Alone(x) /\ Step(h, x)
    BY <1>4 DEF Alone, Start, Step
<1>5. ASSUME NEW h \in Handlers, NEW r \in Refs, Callback(h, r) \/ Webhook(h, r)
      PROVE  SerialInv' /\ (Granted(sub') # Granted(sub) => tier' = LiveTier(sub', now'))
    <2> DEFINE x == [Idle EXCEPT !.op = IF Callback(h, r) THEN "callback" ELSE "webhook",
                                 !.at = "verify", !.ref = r]
    <2>1. Start(h, x)
        BY <1>5 DEF Callback, Webhook
    <2>2. x \in Tx
        BY IdleIsSound DEF Tx, AllOps
    <2>3. x.op \in Settlements /\ x.at = "verify" /\ x.dirty = {}
        BY DEF Idle
    <2>4. QED
        BY <1>2, <1>4, <2>1, <2>2, <2>3
<1>6. ASSUME NEW h \in Handlers, NEW r \in Refs, NEW t \in Tiers, NEW m \in Terms, Checkout(h, r, t, m)
      PROVE  SerialInv' /\ (Granted(sub') # Granted(sub) => tier' = LiveTier(sub', now'))
    <2> DEFINE x == [Idle EXCEPT !.op = "checkout", !.at = "initialize", !.ref = r,
                       !.row = [NoRow EXCEPT !.status = "PENDING", !.tier = t, !.months = m],
                       !.dirty = {q \in Refs : sub[q].status = "PENDING"} \cup {r}]
    <2>1. Start(h, x)
        BY <1>6 DEF Checkout
    <2>2. x.row \in Row
        BY DEF NoRow, Row, Idle, Statuses, UserTiers, Rank
    <2>3. x \in Tx
        BY <2>2, IdleIsSound DEF Tx, AllOps
    <2>4. x.op = "checkout"
        BY DEF Idle
    <2>5. QED
        BY <1>2, <1>4, <2>1, <2>3, <2>4
<1>7. ASSUME NEW h \in Handlers, NEW r \in Refs, NEW t \in Tiers, NEW m \in Terms, Comp(h, r, t, m)
      PROVE  SerialInv' /\ (Granted(sub') # Granted(sub) => tier' = LiveTier(sub', now'))
    <2> DEFINE x == [Idle EXCEPT !.op = "comp", !.at = "quote", !.ref = r, !.loaded = tier,
                    !.row = [NoRow EXCEPT !.tier = t, !.months = m]]
    <2>1. Start(h, x)
        BY <1>7 DEF Comp
    <2>2. x.row \in Row
        BY DEF NoRow, Row, Idle, Statuses, UserTiers, Rank
    <2>3. x \in Tx
        BY <1>1, <2>2, IdleIsSound DEF Tx, AllOps
    <2>4. x.op = "comp" /\ x.at = "quote" /\ x.dirty = {} /\ x.loaded = tier
        BY DEF Idle
    <2>5. QED
        BY <1>2, <1>4, <2>1, <2>3, <2>4
<1>8. ASSUME NEW h \in Handlers, Revoke(h) \/ Login(h)
      PROVE  SerialInv' /\ (Granted(sub') # Granted(sub) => tier' = LiveTier(sub', now'))
    <2> DEFINE x == [Idle EXCEPT !.op = IF Revoke(h) THEN "revoke" ELSE "login",
                                 !.at = IF Revoke(h) THEN "apply" ELSE "resolve", !.loaded = tier]
    <2>1. Start(h, x)
        BY <1>8 DEF Revoke, Login
    <2>2. x \in Tx
        BY <1>1, IdleIsSound DEF Tx, AllOps
    <2>3. x.op \in {"revoke", "login"} /\ x.at \in {"apply", "resolve"} /\ x.loaded = tier
        BY DEF Idle
    <2>4. QED
        BY <1>2, <1>4, <2>1, <2>2, <2>3
<1>9. ASSUME NEW h \in Handlers, Verify(h) \/ Decide(h) \/ Apply(h) \/ InsertComp(h) \/ RevokeActive(h) \/ Rollback(h)
      PROVE  SerialInv' /\ (Granted(sub') # Granted(sub) => tier' = LiveTier(sub', now'))
    <2>1. tx[h] \in Tx /\ Shape(tx[h]) /\ Alone(tx[h])
        BY <1>1 DEF Sound
    <2>2. CASE Verify(h)
        <3> DEFINE x == [tx[h] EXCEPT !.at = "decide", !.txn = charge[tx[h].ref]]
        <3>1. Step(h, x) /\ tx[h].op \in Settlements /\ tx[h].ref \in Refs /\ tx[h].dirty = {}
            BY <2>1, <2>2 DEF Verify, Shape, Tx, AllOps
        <3>2. x \in Tx /\ x.op \in Settlements /\ x.at = "decide" /\ x.dirty = {}
            BY <1>1, <2>1, <3>1 DEF Tx
        <3>3. Alone(x)
            BY <3>2 DEF Alone
        <3>4. QED
            BY <1>2, <3>1, <3>2, <3>3
    <2>3. CASE Decide(h)
        <3>1. tx[h].op \in Settlements /\ tx[h].ref \in Refs /\ tx[h].dirty = {} /\ tx[h].at = "decide"
            BY <2>1, <2>3 DEF Shape, Tx, AllOps, Decide
        <3>2. ASSUME NEW x \in Tx, Step(h, x), x.op = tx[h].op, x.dirty = {}, x.ref = tx[h].ref,
                     \/ x.at \in {"quote", "commit"}
                     \/ x.at = "fail" /\ sub[x.ref].status = "PENDING"
              PROVE  SerialInv' /\ (Granted(sub') # Granted(sub) => tier' = LiveTier(sub', now'))
            <4>1. Alone(x)
                BY <3>1, <3>2 DEF Alone
            <4>2. QED
                BY <1>2, <3>2, <4>1
        <3> DEFINE row == sub[tx[h].ref]
                   quote == [tx[h] EXCEPT !.at = "quote", !.row = row]
                   fail == [tx[h] EXCEPT !.at = "fail", !.row = row]
                   done == [tx[h] EXCEPT !.at = "commit"]
        <3>3. row \in Row
            BY <1>1, <3>1
        <3>4. /\ quote \in Tx /\ fail \in Tx /\ done \in Tx
              /\ quote.op = tx[h].op /\ fail.op = tx[h].op /\ done.op = tx[h].op
              /\ quote.ref = tx[h].ref /\ fail.ref = tx[h].ref /\ done.ref = tx[h].ref
              /\ quote.dirty = {} /\ fail.dirty = {} /\ done.dirty = {}
              /\ quote.at = "quote" /\ fail.at = "fail" /\ done.at = "commit"
            BY <2>1, <3>1, <3>3 DEF Tx
        <3>5. Step(h, quote) \/ (Step(h, fail) /\ row.status = "PENDING") \/ Step(h, done)
            BY <2>3 DEF Decide, Fails
        <3> HIDE DEF quote, fail, done
        <3>6. QED
            BY <3>2, <3>4, <3>5
    <2>4. CASE Apply(h)
        <3>1. tx[h].op \in Settlements /\ tx[h].at = "apply" /\ tx[h].ref \in Refs /\ tx[h].dirty = {}
            BY <2>1, <2>4 DEF Apply, Shape
        <3>2. PICK x \in Tx : /\ Step(h, x) /\ x.op = tx[h].op /\ x.row = tx[h].row
                              /\ x.at = "resolve" \/ (x.at = "commit" /\ x.dirty = {})
            <4> DEFINE taken == [tx[h] EXCEPT !.at = "resolve", !.dirty = {tx[h].ref}]
                       late == [tx[h] EXCEPT !.at = "commit"]
            <4>1. Step(h, taken) \/ Step(h, late)
                BY <2>4 DEF Apply
            <4>2. /\ taken \in Tx /\ taken.op = tx[h].op /\ taken.row = tx[h].row /\ taken.at = "resolve"
                  /\ late \in Tx /\ late.op = tx[h].op /\ late.row = tx[h].row /\ late.at = "commit"
                  /\ late.dirty = {}
                BY <2>1, <3>1 DEF Tx
            <4> HIDE DEF taken, late
            <4>3. QED
                BY <4>1, <4>2
        <3>3. Alone(x)
            BY <2>1, <3>1, <3>2 DEF Alone
        <3>4. QED
            BY <1>2, <3>2, <3>3
    <2>5. CASE InsertComp(h)
        <3> DEFINE x == [tx[h] EXCEPT !.at = "resolve", !.dirty = {tx[h].ref}]
        <3>1. Step(h, x) /\ tx[h].at = "apply" /\ tx[h].op = "comp" /\ tx[h].ref \in Refs
            BY <2>1, <2>5 DEF InsertComp, Shape
        <3>2. x \in Tx /\ x.op = "comp" /\ x.at = "resolve" /\ x.row = tx[h].row /\ x.loaded = tx[h].loaded
            BY <2>1, <3>1 DEF Tx
        <3>3. Alone(x)
            BY <2>1, <3>1, <3>2 DEF Alone
        <3>4. QED
            BY <1>2, <3>1, <3>2, <3>3
    <2>6. CASE RevokeActive(h)
        <3> DEFINE x == [tx[h] EXCEPT !.at = "resolve", !.dirty = {r \in Refs : sub[r].status = "ACTIVE"}]
        <3>1. Step(h, x) /\ tx[h].op = "revoke"
            BY <2>6 DEF RevokeActive
        <3>2. x \in Tx /\ x.op = "revoke" /\ x.at = "resolve" /\ x.loaded = tx[h].loaded
            BY <2>1, <3>1 DEF Tx
        <3>3. Alone(x)
            BY <2>1, <3>1, <3>2 DEF Alone
        <3>4. QED
            BY <1>2, <3>1, <3>2, <3>3
    <2>7. CASE Rollback(h)
        <3>1. Step(h, Idle) /\ Alone(Idle)
            BY <2>7 DEF Rollback, Step, Alone, Idle
        <3>2. QED
            BY <1>2, <3>1, IdleIsSound
    <2>8. QED
        BY <1>9, <2>2, <2>3, <2>4, <2>5, <2>6, <2>7
<1>10. ASSUME NEW h \in Handlers, Quote(h) \/ Resolve(h)
      PROVE  SerialInv' /\ (Granted(sub') # Granted(sub) => tier' = LiveTier(sub', now'))
    <2>1. tx[h] \in Tx /\ Shape(tx[h]) /\ Alone(tx[h])
        BY <1>1 DEF Sound
    <2>2. CASE Quote(h)
        <3> DEFINE start == TermStart(sub)
                   row == [tx[h].row EXCEPT !.status = "ACTIVE", !.start = start,
                                            !.end = start + tx[h].row.months]
                   x == [tx[h] EXCEPT !.at = "apply", !.row = row]
        <3>1. Step(h, x) /\ tx[h].at = "quote"
            BY <2>2 DEF Quote
        <3>2. /\ start \in Nat
              /\ \A r \in Refs : sub[r].status = "ACTIVE" => start >= sub[r].end
            BY TermStartAfterAll DEF IInv
        <3>3. tx[h].row \in Row /\ start + tx[h].row.months \in Nat
            BY <2>1, <3>2 DEF Tx, Row
        <3> HIDE DEF start
        <3>4. row \in Row /\ row.start = start
            BY <3>2, <3>3 DEF Row, Statuses
        <3> HIDE DEF row
        <3>5. x \in Tx /\ x.op = tx[h].op /\ x.at = "apply" /\ x.row = row /\ x.loaded = tx[h].loaded
            BY <2>1, <3>4 DEF Tx
        <3>6. \A r \in Refs : sub[r].status = "ACTIVE" => sub[r].end <= x.row.start
            BY <1>1, <3>2, <3>4, <3>5 DEF Row
        <3>7. Alone(x)
            BY <2>1, <3>5, <3>6 DEF Alone
        <3>8. QED
            BY <1>2, <3>1, <3>5, <3>7 DEF start, row
    <2>3. CASE Resolve(h)
        <3> DEFINE live == LiveTier(View(tx[h]), now)
                   stored == IF tx[h].op \in {"callback", "webhook"} THEN tier ELSE tx[h].loaded
                   set == IF live = stored THEN "keep" ELSE live
                   x == [tx[h] EXCEPT !.at = "commit", !.set = set]
        <3>1. Step(h, x) /\ tx[h].at = "resolve"
            BY <2>3 DEF Resolve
        <3>2. tx[h].op \in Settlements \cup {"comp", "revoke", "login"}
            BY <2>1, <3>1 DEF Shape, Tx, AllOps
        <3>3. stored = tier
            BY <2>1, <3>2 DEF Alone
        <3>4. set \in UserTiers \cup {"keep"}
            <4>1. View(tx[h]) \in [Refs -> Row] /\ now \in Nat
                BY <1>1, <2>1 DEF View, Written, Tx, Row, Statuses, IInv, TypeOK
            <4>2. QED
                BY <4>1, LiveTierIsRichest
        <3>5. /\ x \in Tx /\ x.op = tx[h].op /\ x.at = "commit" /\ x.row = tx[h].row /\ x.set = set
              /\ x.dirty = tx[h].dirty /\ x.ref = tx[h].ref /\ x.loaded = tx[h].loaded
            <4> HIDE DEF set
            <4>1. QED
                BY <2>1, <3>4 DEF Tx
        <3>6. View(x) = View(tx[h])
            <4> HIDE DEF x
            <4>1. QED
                BY <3>5 DEF View, Written
        <3>7. x.set = IF LiveTier(View(x), now) = tier THEN "keep" ELSE LiveTier(View(x), now)
            BY <3>3, <3>5, <3>6
        <3>8. Alone(x)
            <4> HIDE DEF x
            <4>1. QED
                BY <2>1, <3>1, <3>2, <3>5, <3>7 DEF Alone
        <3>9. QED
            BY <1>2, <3>1, <3>5, <3>8
    <2>4. QED
        BY <1>10, <2>2, <2>3
<1>11. CASE \E r \in Refs : Decline(r) \/ \E exact \in BOOLEAN : Pay(r, exact)
    <2>1. UNCHANGED <<sub, tier, now, tx>>
        BY <1>11 DEF Decline, Pay
    <2>2. \A h \in Handlers : View(tx[h])' = View(tx[h])
        BY <2>1 DEF View, Written
    <2>3. QED
        BY <1>1, <2>1, <2>2 DEF SerialInv, TermsDisjoint, Alone
<1>12. ASSUME NEW h \in Handlers, Initialize(h)
      PROVE  SerialInv' /\ (Granted(sub') # Granted(sub) => tier' = LiveTier(sub', now'))
    <2>1. UNCHANGED <<sub, tier, now>> /\ tx[h].at = "initialize" /\ tx'[h] = [tx[h] EXCEPT !.at = "commit"]
        BY <1>1, <1>12 DEF Initialize
    <2>2. tx[h].op = "checkout" /\ tx[h] \in Tx
        BY <1>1, <2>1 DEF Sound, Shape, Tx, AllOps
    <2>3. tx'[h].op = "checkout"
        BY <2>1, <2>2 DEF Tx
    <2>4. Alone(tx[h])'
        BY <2>3 DEF Alone
    <2>5. QED
        BY <2>1, <2>4 DEF OneAtATime, SerialInv, TermsDisjoint
<1>13. CASE Tick
    <2>1. UNCHANGED <<sub, tier, tx>> /\ \A h \in Handlers : tx[h].at \notin {"apply", "resolve", "commit"}
        BY <1>13 DEF Tick
    <2>2. QED
        BY <1>1, <2>1 DEF SerialInv, TermsDisjoint, Alone
<1>14. QED
    BY <1>3, <1>5, <1>6, <1>7, <1>8, <1>9, <1>10, <1>11, <1>12, <1>13 DEF Next, Handle

LEMMA AloneAlways == ASSUME OneAtATime PROVE Spec => []SerialInv
<1>1. Init => SerialInv
    <2> SUFFICES ASSUME Init PROVE SerialInv
        OBVIOUS
    <2>1. NoRow.status = "none" /\ Idle.op = "none"
        BY DEF NoRow, Idle
    <2>2. QED
        BY <2>1 DEF Init, SerialInv, TermsDisjoint, Alone, Settlements
<1>2. IInv /\ SerialInv /\ [Next]_vars => SerialInv'
    <2> SUFFICES ASSUME IInv, SerialInv, [Next]_vars PROVE SerialInv'
        OBVIOUS
    <2>1. CASE Next
        BY <2>1, AloneKeeps
    <2>2. CASE UNCHANGED vars
        <3>1. \A h \in Handlers : View(tx[h])' = View(tx[h])
            BY <2>2 DEF vars, View, Written
        <3>2. QED
            BY <2>2, <3>1 DEF vars, SerialInv, TermsDisjoint, Alone
    <2>3. QED
        BY <2>1, <2>2
<1>3. QED
    BY <1>1, <1>2, BillingInvariant, PTL DEF Spec

\* Requests that follow one another grant no month twice (term_start stacks each
\* term on the last), over any number of rows, of requests and of months.
THEOREM SerialTermsDisjoint == ASSUME OneAtATime PROVE Spec => []TermsDisjoint
<1>1. SerialInv => TermsDisjoint
    BY DEF SerialInv
<1>2. QED
    BY <1>1, AloneAlways, PTL

\* Requests that follow one another leave User.tier at the richest live tier
\* whenever they grant or revoke (RefreshUserTierService after each write).
THEOREM SerialTierFollows == ASSUME OneAtATime PROVE Spec => TierFollowsRows
<1>1. IInv /\ SerialInv /\ [Next]_vars =>
          [Granted(sub') # Granted(sub) => tier' = LiveTier(sub', now')]_vars
    BY AloneKeeps
<1>2. QED
    BY <1>1, AloneAlways, BillingInvariant, PTL DEF Spec, TierFollowsRows
=============================================================================
