------------------------------- MODULE Billing -------------------------------
(***************************************************************************)
(* The subscriptions of one student: app/services/billing/service.py and   *)
(* rules.py, their routes (app/api/student/billing.py, the admin tier      *)
(* route), the tier refresh at sign-in, and Paystack as the code uses it.  *)
(*                                                                         *)
(* A request is a transaction under READ COMMITTED.  A statement reads     *)
(* what is committed plus the transaction's own writes; an UPDATE holds    *)
(* the lock of each row it writes until the commit; an attribute assigned  *)
(* on an ORM object is written, unguarded, when the commit flushes.        *)
(*                                                                         *)
(* Time is a count of months.  A charge's amount and currency are modelled *)
(* by whether they are those of its row.                                   *)
(***************************************************************************)
EXTENDS Integers, FiniteSets, FiniteSetsExt

CONSTANTS
    Refs,       \* references (new_reference), one per Subscription row
    Handlers,   \* requests that may be in progress at once
    Ops,        \* the operations this run exercises
    Tiers,      \* the purchasable tiers this run exercises
    Terms,      \* lengths of a term, in months
    MaxTime     \* bound: months that pass

AllOps == {"checkout", "callback", "webhook", "comp", "revoke", "login"}

ASSUME BillingAssumption ==
    /\ "none" \notin Refs
    /\ Ops \subseteq AllOps
    /\ Tiers \subseteq {"STANDARD", "PREMIUM"}
    /\ Terms \subseteq Nat \ {0}
    /\ MaxTime \in Nat

Rank == [FREEMIUM |-> 0, STANDARD |-> 1, PREMIUM |-> 2]
UserTiers == DOMAIN Rank
Statuses == {"none", "PENDING", "ABANDONED", "ACTIVE", "FAILED", "REVOKED"}

Row == [status : Statuses, tier : UserTiers, months : Nat, start : Nat, end : Nat]
NoRow == [status |-> "none", tier |-> "FREEMIUM", months |-> 0, start |-> 0, end |-> 0]

\* What Paystack says of a reference; "none" is a reference it does not know.
Charge == [status : {"none", "ongoing", "failed", "success"}, exact : BOOLEAN]
NoCharge == [status |-> "none", exact |-> FALSE]

VARIABLES
    sub,        \* [Refs -> Row]: the committed Subscription rows
    source,     \* [Refs -> how the row came to be]
    charge,     \* [Refs -> Charge]: at Paystack
    events,     \* references whose charge.success is a committed PaystackEvent
    tier,       \* the committed User.tier
    now,        \* the time
    tx          \* [Handlers -> the request in progress]

vars == <<sub, source, charge, events, tier, now, tx>>

Tx == [op : AllOps \cup {"none"},
       at : {"idle", "verify", "decide", "fail", "quote", "apply", "resolve",
             "initialize", "commit"},
       ref : Refs \cup {"none"},    \* the row it is about
       row : Row,                   \* that row as the request will write it
       txn : Charge,                \* Paystack's answer
       dirty : SUBSET Refs,         \* rows written and not committed
       loaded : UserTiers,          \* User.tier in the session's identity map
       set : UserTiers \cup {"keep"}]   \* the User.tier the commit writes

Idle == [op |-> "none", at |-> "idle", ref |-> "none", row |-> NoRow, txn |-> NoCharge,
         dirty |-> {}, loaded |-> "FREEMIUM", set |-> "keep"]

TypeOK ==
    /\ sub \in [Refs -> Row]
    /\ source \in [Refs -> {"none", "PAYSTACK", "COMP"}]
    /\ charge \in [Refs -> Charge]
    /\ events \subseteq Refs
    /\ tier \in UserTiers
    /\ now \in 0 .. MaxTime
    /\ tx \in [Handlers -> Tx]

Init ==
    /\ sub = [r \in Refs |-> NoRow]
    /\ source = [r \in Refs |-> "none"]
    /\ charge = [r \in Refs |-> NoCharge]
    /\ events = {}
    /\ tier = "FREEMIUM"
    /\ now = 0
    /\ tx = [h \in Handlers |-> Idle]

-----------------------------------------------------------------------------
(* Terms and tiers (rules.py) *)

LiveAt(row, t) == row.status = "ACTIVE" /\ row.start <= t /\ row.end > t

\* resolve_live_tier: the richest live tier.
LiveTier(rows, t) ==
    LET live == {rows[r].tier : r \in {r \in Refs : LiveAt(rows[r], t)}}
    IN CHOOSE best \in live \cup {"FREEMIUM"} : \A other \in live : Rank[best] >= Rank[other]

\* Mutant: only a term that has begun is stacked upon.
TermStartLiveOnly(rows) ==
    Max({now} \cup {rows[r].end : r \in {r \in Refs : LiveAt(rows[r], now)}})

\* term_start on latest_live_end: after the last ACTIVE term that has not ended.
TermStart(rows) ==
    Max({now} \cup {rows[r].end : r \in {r \in Refs : rows[r].status = "ACTIVE"}})

-----------------------------------------------------------------------------
(* Transactions *)

\* Mutant: a status the enum does not have.
WrittenWrongEnum(x, r) ==
    IF r = x.ref THEN x.row
    ELSE [sub[r] EXCEPT !.status = IF x.op = "checkout" THEN "CANCELLED" ELSE "REVOKED"]

\* A row as transaction x leaves it.
Written(x, r) ==
    IF r = x.ref THEN x.row
    ELSE [sub[r] EXCEPT !.status = IF x.op = "checkout" THEN "ABANDONED" ELSE "REVOKED"]

\* The rows transaction x reads.
View(x) == [r \in Refs |-> IF r \in x.dirty THEN Written(x, r) ELSE sub[r]]

\* No other transaction holds the lock of a row of S.
Free(h, S) == \A g \in Handlers \ {h} : tx[g].dirty \cap S = {}

\* A reference nobody has used, and no request in progress has drawn.
Unused(r) ==
    /\ sub[r] = NoRow /\ charge[r] = NoCharge
    /\ \A g \in Handlers : tx[g].ref # r

Start(h, x) ==
    /\ tx[h] = Idle
    /\ x.op \in Ops
    /\ tx' = [tx EXCEPT ![h] = x]
    /\ UNCHANGED <<sub, source, charge, events, tier, now>>

Step(h, x) ==
    /\ tx' = [tx EXCEPT ![h] = x]
    /\ UNCHANGED <<sub, source, charge, events, tier, now>>

\* db_session commits: the rows, User.tier if the session changed it, and the
\* PaystackEvent of a webhook, together.
Publish(h, x) ==
    /\ sub' = View(x)
    /\ source' = IF x.op \in {"checkout", "comp"} /\ x.ref \in x.dirty
                 THEN [source EXCEPT ![x.ref] = IF x.op = "comp" THEN "COMP" ELSE "PAYSTACK"]
                 ELSE source
    /\ tier' = IF x.set = "keep" THEN tier ELSE x.set
    /\ events' = IF x.op = "webhook" THEN events \cup {x.ref} ELSE events
    /\ tx' = [tx EXCEPT ![h] = Idle]
    /\ UNCHANGED <<charge, now>>

Commit(h) == tx[h].at = "commit" /\ Publish(h, tx[h])

\* Mutant: the event is committed on its own, and not forgotten.
RollbackKeepsEvent(h) ==
    /\ tx[h].at # "idle"
    /\ events' = IF tx[h].op = "webhook" THEN events \cup {tx[h].ref} ELSE events
    /\ tx' = [tx EXCEPT ![h] = Idle]
    /\ UNCHANGED <<sub, source, charge, tier, now>>

\* An exception, a failing HTTP call, a lost connection, a crash.  A webhook that
\* cannot verify or apply forgets its event and answers 500: nothing is kept.
Rollback(h) ==
    /\ tx[h].at # "idle"
    /\ tx' = [tx EXCEPT ![h] = Idle]
    /\ UNCHANGED <<sub, source, charge, events, tier, now>>

-----------------------------------------------------------------------------
(* Checkout (CheckoutService) *)

\* _abandon_pending and _store_pending, in the transaction that then calls
\* Paystack.  The UPDATE waits for the locks of the rows it abandons.
Checkout(h, r, t, m) ==
    LET pending == {q \in Refs : sub[q].status = "PENDING"}
    IN /\ Unused(r)
       /\ Free(h, pending)
       /\ Start(h, [Idle EXCEPT !.op = "checkout", !.at = "initialize", !.ref = r,
                       !.row = [NoRow EXCEPT !.status = "PENDING", !.tier = t, !.months = m],
                       !.dirty = pending \cup {r}])

\* Paystack opens the transaction; the answer may still be lost (Rollback).
Initialize(h) ==
    /\ tx[h].at = "initialize"
    /\ charge' = [charge EXCEPT ![tx[h].ref] = [status |-> "ongoing", exact |-> FALSE]]
    /\ tx' = [tx EXCEPT ![h].at = "commit"]
    /\ UNCHANGED <<sub, source, events, tier, now>>

-----------------------------------------------------------------------------
(* Paystack *)

\* The student, who has the checkout's answer, pays; possibly another amount.
Pay(r, exact) ==
    /\ charge[r].status = "ongoing" /\ sub[r].status # "none"
    /\ charge' = [charge EXCEPT ![r] = [status |-> "success", exact |-> exact]]
    /\ UNCHANGED <<sub, source, events, tier, now, tx>>

Decline(r) ==
    /\ charge[r].status = "ongoing"
    /\ charge' = [charge EXCEPT ![r].status = "failed"]
    /\ UNCHANGED <<sub, source, events, tier, now, tx>>

-----------------------------------------------------------------------------
(* Settlement: the callback and the webhook (ApplyChargeSuccessService) *)

\* The browser returns, at any time and any number of times.  (A reference that
\* Paystack does not know changes nothing.)
Callback(h, r) ==
    /\ charge[r].status # "none"
    /\ Start(h, [Idle EXCEPT !.op = "callback", !.at = "verify", !.ref = r])

\* A charge.success arrives: the first time, again, or after a 500.  The event's
\* key is unique: a copy of a recorded event ends here, changing nothing, and a
\* copy of one being recorded waits for that transaction.
Webhook(h, r) ==
    /\ charge[r].status = "success"
    /\ r \notin events
    /\ \A g \in Handlers : tx[g].op = "webhook" => tx[g].ref # r
    /\ Start(h, [Idle EXCEPT !.op = "webhook", !.at = "verify", !.ref = r])

\* VerifyPaymentService; no usable answer ends the request as Rollback does.
Verify(h) ==
    /\ tx[h].at = "verify"
    /\ Step(h, [tx[h] EXCEPT !.at = "decide", !.txn = charge[tx[h].ref]])

\* Mutant: an abandoned checkout stays abandoned.
ActivatesPendingOnly(row, txn) ==
    row.status = "PENDING" /\ txn.status = "success" /\ txn.exact

\* settlement_outcome
Activates(row, txn) ==
    row.status \in {"PENDING", "ABANDONED"} /\ txn.status = "success" /\ txn.exact
Fails(row, txn) == row.status = "PENDING" /\ txn.status # "success"

\* by_reference and the outcome; every other outcome leaves the row alone.
Decide(h) ==
    LET x == tx[h]
        row == sub[x.ref]
    IN /\ x.at = "decide"
       /\ \/ Activates(row, x.txn) /\ Step(h, [x EXCEPT !.at = "quote", !.row = row])
          \/ Fails(row, x.txn) /\ Step(h, [x EXCEPT !.at = "fail", !.row = row])
          \/ ~Activates(row, x.txn) /\ ~Fails(row, x.txn) /\ Step(h, [x EXCEPT !.at = "commit"])

\* row.status = "FAILED": the commit's flush waits for the row's lock and then
\* writes by primary key.
Fail(h) ==
    LET x == tx[h]
    IN /\ x.at = "fail"
       /\ Free(h, {x.ref})
       /\ Publish(h, [x EXCEPT !.row = [sub[x.ref] EXCEPT !.status = "FAILED"],
                               !.dirty = {x.ref}])

\* latest_live_end, term_start and term_end, for a settlement or a comp.
Quote(h) ==
    LET x == tx[h]
        start == TermStart(sub)
    IN /\ x.at = "quote"
       /\ Step(h, [x EXCEPT !.at = "apply",
                      !.row = [x.row EXCEPT !.status = "ACTIVE", !.start = start,
                                            !.end = start + x.row.months]])

\* Mutant: the UPDATE names the row by its id alone.
ApplyUnguarded(h) ==
    LET x == tx[h]
    IN /\ x.at = "apply" /\ x.op \in {"callback", "webhook"}
       /\ Free(h, {x.ref})
       /\ Step(h, [x EXCEPT !.at = "resolve", !.dirty = {x.ref}])

\* subscriptions_repository.activate: guarded on PENDING or ABANDONED.  When it
\* touches no row the answer is "already-applied".
Apply(h) ==
    LET x == tx[h]
    IN /\ x.at = "apply" /\ x.op \in {"callback", "webhook"}
       /\ Free(h, {x.ref})
       /\ IF sub[x.ref].status \in {"PENDING", "ABANDONED"}
          THEN Step(h, [x EXCEPT !.at = "resolve", !.dirty = {x.ref}])
          ELSE Step(h, [x EXCEPT !.at = "commit"])

\* Mutant: the tier is resolved from the rows as they were before the write.
ResolveBeforeWrite(h) ==
    LET x == tx[h]
        live == LiveTier(sub, now)
        stored == IF x.op \in {"callback", "webhook"} THEN tier ELSE x.loaded
    IN /\ x.at = "resolve"
       /\ Step(h, [x EXCEPT !.at = "commit", !.set = IF live = stored THEN "keep" ELSE live])

\* RefreshUserTierService: the rows are read now, User.tier only if the session
\* has not loaded it before.
Resolve(h) ==
    LET x == tx[h]
        live == LiveTier(View(x), now)
        stored == IF x.op \in {"callback", "webhook"} THEN tier ELSE x.loaded
    IN /\ x.at = "resolve"
       /\ Step(h, [x EXCEPT !.at = "commit", !.set = IF live = stored THEN "keep" ELSE live])

-----------------------------------------------------------------------------
(* The admin tier route (SetStudentTierService) and signing in: each loads the *)
(* User row first.                                                             *)

Comp(h, r, t, m) ==
    /\ Unused(r)
    /\ Start(h, [Idle EXCEPT !.op = "comp", !.at = "quote", !.ref = r, !.loaded = tier,
                    !.row = [NoRow EXCEPT !.tier = t, !.months = m]])

InsertComp(h) ==
    /\ tx[h].at = "apply" /\ tx[h].op = "comp"
    /\ Step(h, [tx[h] EXCEPT !.at = "resolve", !.dirty = {tx[h].ref}])

Revoke(h) == Start(h, [Idle EXCEPT !.op = "revoke", !.at = "apply", !.loaded = tier])

\* revoke_active: every ACTIVE row, once its lock is free.
RevokeActive(h) ==
    LET active == {r \in Refs : sub[r].status = "ACTIVE"}
    IN /\ tx[h].at = "apply" /\ tx[h].op = "revoke"
       /\ Free(h, active)
       /\ Step(h, [tx[h] EXCEPT !.at = "resolve", !.dirty = active])

Login(h) == Start(h, [Idle EXCEPT !.op = "login", !.at = "resolve", !.loaded = tier])

\* A month passes.  A request that has read the clock commits within the month.
Tick ==
    /\ now < MaxTime
    /\ \A h \in Handlers : tx[h].at \notin {"apply", "resolve", "commit"}
    /\ now' = now + 1
    /\ UNCHANGED <<sub, source, charge, events, tier, tx>>

Handle(h) ==
    \/ Verify(h) \/ Decide(h) \/ Fail(h) \/ Quote(h) \/ Apply(h) \/ Resolve(h)
    \/ Initialize(h) \/ InsertComp(h) \/ RevokeActive(h) \/ Commit(h)

Next ==
    \/ \E h \in Handlers :
        \/ \E r \in Refs : \/ Callback(h, r) \/ Webhook(h, r)
                           \/ \E t \in Tiers, m \in Terms : Checkout(h, r, t, m) \/ Comp(h, r, t, m)
        \/ Revoke(h) \/ Login(h) \/ Handle(h) \/ Rollback(h)
    \/ \E r \in Refs : \/ Decline(r) \/ \E exact \in BOOLEAN : Pay(r, exact)
    \/ Tick

Spec == Init /\ [][Next]_vars

\* Paystack redelivers an event until it is answered 200 (the code answers 500
\* when it could not verify or apply); a request in progress goes on or fails
\* (its HTTP client has a timeout); and deliveries do not fail forever.
FairSpec ==
    /\ Spec
    /\ \A h \in Handlers : WF_vars(Handle(h) \/ Rollback(h))
    /\ \A r \in Refs : SF_vars(\E h \in Handlers : Webhook(h, r))
    /\ <>[][\A h \in Handlers : tx[h].op = "webhook" => ~Rollback(h)]_vars

-----------------------------------------------------------------------------
(* Safety *)

Paid(r) == charge[r].status = "success" /\ charge[r].exact

\* "Do not grant access on the redirect alone", "do not trust the webhook body":
\* a checkout's row is granted only for a charge that succeeded with its amount.
PaidOnly ==
    \A r \in Refs : source[r] = "PAYSTACK" /\ sub[r].status \in {"ACTIVE", "REVOKED"} => Paid(r)

\* Callback, webhook and their copies together grant one term, once: no later
\* delivery moves the dates of an ACTIVE row.
TermFixed ==
    [][\A r \in Refs : sub[r].status = "ACTIVE" =>
           sub'[r].start = sub[r].start /\ sub'[r].end = sub[r].end]_vars

\* A success that is recorded, and so never delivered again, has been settled:
\* the row is granted (and perhaps revoked) or was already FAILED.
RecordedIsSettled ==
    \A r \in events : Paid(r) => sub[r].status \in {"ACTIVE", "REVOKED", "FAILED"}

\* Both: no grant without its charge, no recorded charge without its settlement.
ChargesSettle == PaidOnly /\ RecordedIsSettled

Overlap(a, b) == a.start < b.end /\ b.start < a.end

\* term_start "stacks": no month is granted twice, so none is lost to the student.
TermsDisjoint ==
    \A r, s \in Refs :
        r # s /\ sub[r].status = "ACTIVE" /\ sub[s].status = "ACTIVE" => ~Overlap(sub[r], sub[s])

\* "Then it sets User.tier from a fresh resolution": a commit that grants or
\* revokes leaves User.tier at the richest live tier.
Granted(rows) == {r \in Refs : rows[r].status = "ACTIVE"}
TierFollowsRows ==
    [][Granted(sub') # Granted(sub) => tier' = LiveTier(sub', now')]_vars

-----------------------------------------------------------------------------
(* Liveness *)

\* A paid charge does not leave its row open, whatever the browser does, however
\* often a delivery fails, and even when a newer checkout abandoned the row.
PaidSettles ==
    \A r \in Refs : Paid(r) ~> sub[r].status \notin {"PENDING", "ABANDONED"}

-----------------------------------------------------------------------------
(* What the documents say and the code does not *)

\* "The webhook remains authoritative.  The callback is a convenience": a
\* success the webhook has recorded is not left FAILED by an early callback.
WebhookIsAuthoritative == \A r \in events : Paid(r) => sub[r].status # "FAILED"

\* "the row is set to FAILED if it was still pending"
OnlyPendingFails ==
    [][\A r \in Refs : sub'[r].status = "FAILED" /\ sub[r].status # "FAILED" =>
           sub[r].status = "PENDING"]_vars

\* "a PREMIUM comp masks a STANDARD payment until the comp's endsAt": a comp that
\* has not ended gives its tier.
CompMasks ==
    \A r \in Refs :
        source[r] = "COMP" /\ sub[r].status = "ACTIVE" /\ now < sub[r].end =>
            Rank[LiveTier(sub, now)] >= Rank[sub[r].tier]
=============================================================================
