-------------------------------- MODULE Push --------------------------------
(***************************************************************************)
(* Announcements and reminders (app/services/push.py, the announcement      *)
(* services of app/services/console.py, app/database/repositories/          *)
(* notification.py).                                                       *)
(*                                                                         *)
(* An announcement is created with one delivery for each subscription of    *)
(* its audience.  A drain - the cron job's, or the background task after a  *)
(* creation - expires announcements, claims pending deliveries with FOR     *)
(* UPDATE SKIP LOCKED, sends, and completes announcements, all in one        *)
(* transaction.  An administrator may cancel; a reminder run writes inboxes  *)
(* and pushes to the same subscriptions.  Each student has one subscription. *)
(***************************************************************************)
EXTENDS OrmSession, FiniteSets

CONSTANTS
    Anns,           \* announcements
    Subs,           \* subscriptions, standing also for the students that own them
    Nudged,         \* students who want reminders
    MaxAttempts,    \* a delivery fails at this many retries (3)
    MaxFailures,    \* a subscription is dropped at this many failures (5)
    Mixes           \* what meets the drains, several sets of such events

Pairs == Anns \X Subs
Log(s) == <<"log", s>>
Logs == {Log(s) : s \in Nudged}

ASSUME PushAssumption ==
    /\ Rows = Anns \cup Subs \cup Pairs \cup Logs
    /\ Anns \cap (Subs \cup Pairs \cup Logs) = {} /\ Subs \cap (Pairs \cup Logs) = {}
    /\ "log" \notin Anns /\ IsFiniteSet(Subs)
    /\ Nudged \subseteq Subs
    /\ MaxAttempts \in Nat \ {0} /\ MaxFailures \in Nat \ {0}
    /\ Mixes \subseteq SUBSET {"cancel", "expire", "remind", "unsubscribe", "retry"}

VARIABLES
    at,         \* [Workers -> what it does next]
    todo,       \* [Workers -> rows it has still to work on]
    due,        \* announcements past their expiresAt
    pushed,     \* history: pushes accepted for a delivery or a reminder, up to 2,
                \* but for those of transactions that were rolled back
    mix         \* what meets the drains of this behaviour

vars == <<db, tx, at, todo, due, pushed, mix>>

AnnStatus == {"NONE", "QUEUED", "SENDING", "SENT", "CANCELLED"}
DeliveryStatus == {"NONE", "PENDING", "SENT", "FAILED", "GONE", "CANCELLED"}

Ann == [there : BOOLEAN, status : AnnStatus, sent : Nat, failed : Nat]
Delivery == [there : BOOLEAN, status : DeliveryStatus, attempts : 0 .. MaxAttempts]
Sub == [there : BOOLEAN, failures : 0 .. MaxFailures]
ReminderLog == [there : BOOLEAN]

Steps == {"idle", "expire", "deliver", "complete", "cancel", "remind", "commit"}

Open == {"QUEUED", "SENDING"}

Init ==
    /\ db = [r \in Rows |->
               IF r \in Anns THEN [there |-> FALSE, status |-> "NONE", sent |-> 0, failed |-> 0]
               ELSE IF r \in Subs THEN [there |-> TRUE, failures |-> 0]
               ELSE IF r \in Pairs THEN [there |-> FALSE, status |-> "NONE", attempts |-> 0]
               ELSE [there |-> FALSE]]
    /\ tx = [w \in Workers |-> Closed]
    /\ at = [w \in Workers |-> "idle"]
    /\ todo = [w \in Workers |-> {}]
    /\ due = {}
    /\ pushed = [p \in Pairs \cup Logs |-> 0]
    /\ mix \in Mixes

-----------------------------------------------------------------------------
(* The administrator and the student *)

\* One transaction that only inserts.
Create(a) ==
    /\ ~db[a].there
    /\ \E audience \in SUBSET {s \in Subs : db[s].there} :
          db' = [r \in Rows |->
                   IF r = a THEN [db[a] EXCEPT !.there = TRUE,
                                    !.status = IF audience = {} THEN "SENT" ELSE "QUEUED"]
                   ELSE IF r \in {<<a, s>> : s \in audience}
                        THEN [db[r] EXCEPT !.there = TRUE, !.status = "PENDING"]
                   ELSE db[r]]
    /\ UNCHANGED <<tx, at, todo, due, pushed, mix>>

Expires(a) ==
    /\ db[a].there /\ a \notin due /\ "expire" \in mix
    /\ due' = due \cup {a}
    /\ UNCHANGED <<db, tx, at, todo, pushed, mix>>

Unsubscribe(s) ==
    /\ "unsubscribe" \in mix /\ db[s].there /\ \A w \in Workers : s \notin Holds(w)
    /\ db' = [db EXCEPT ![s].there = FALSE]
    /\ UNCHANGED <<tx, at, todo, due, pushed, mix>>

-----------------------------------------------------------------------------
(* Sessions *)

Goto(w, step) == at' = [at EXCEPT ![w] = step]
Stage(w, values) ==
    tx' = [tx EXCEPT ![w] = Assign(tx[w], [r \in DOMAIN values |-> See(w, r)], values)]
\* A query flushes first.
Flushing(w) == Dirty(w) # {}

\* Tables are written parents first.
Rank(r) == IF r \in Anns THEN 0 ELSE IF r \in Subs THEN 1 ELSE 2

\* UPDATE of one row, once its lock is free.  A row that is gone raises
\* StaleDataError, unless it was to be deleted.
Flush(w, r) ==
    /\ r \in Dirty(w) /\ \A q \in Dirty(w) : Rank(r) <= Rank(q)
    /\ FreeFor(w, r)
    /\ See(w, r).there \/ ~tx[w].dirty[r].assigned.there
    /\ tx' = [tx EXCEPT ![w] = Flushed(tx[w], r, See(w, r))]
    /\ UNCHANGED <<db, at, todo, due, pushed, mix>>

\* The handler is through: it has cancelled, completed, or reminded all students
\* or as many as forty seconds allow.
Commit(w) ==
    /\ \/ at[w] \in {"commit", "remind"}
       \/ at[w] = "complete" /\ todo[w] = {}
    /\ ~Flushing(w)
    /\ db' = CommittedBy(w)
    /\ tx' = [tx EXCEPT ![w] = Closed]
    /\ Goto(w, "idle") /\ todo' = [todo EXCEPT ![w] = {}]
    /\ UNCHANGED <<due, pushed, mix>>

\* What this transaction has pushed.
Accepted(w) ==
    {p \in Pairs : \/ p \in Holds(w) /\ tx[w].own[p].status = "SENT"
                   \/ p \in Dirty(w) /\ tx[w].dirty[p].assigned.status = "SENT"}
    \cup {l \in Logs : l \in Holds(w) /\ pushed[l] > 0}

\* A crash, a lost connection, StaleDataError, the victim of a deadlock.
\* What was pushed stays pushed; `pushed' forgets it.
Rollback(w) ==
    /\ at[w] # "idle"
    /\ pushed' = [p \in DOMAIN pushed |-> IF p \in Accepted(w) THEN pushed[p] - 1 ELSE pushed[p]]
    /\ tx' = [tx EXCEPT ![w] = Closed]
    /\ Goto(w, "idle") /\ todo' = [todo EXCEPT ![w] = {}]
    /\ UNCHANGED <<db, due, mix>>

-----------------------------------------------------------------------------
(* Cancelling *)

\* The announcement's status is read and checked ...
Cancel(w, a) ==
    /\ at[w] = "idle" /\ db[a].status \in Open /\ "cancel" \in mix
    /\ Goto(w, "cancel") /\ todo' = [todo EXCEPT ![w] = {a}]
    /\ UNCHANGED <<db, tx, due, pushed, mix>>

\* ... then its pending deliveries, as they are now; both are assigned, and the
\* DELETE of the inbox rows flushes them.
CancelPending(w) ==
    /\ at[w] = "cancel"
    /\ \E a \in todo[w] :
          LET pending == {p \in {a} \X Subs : db[p].status = "PENDING"}
          IN Stage(w, [r \in {a} \cup pending |-> [db[r] EXCEPT !.status = "CANCELLED"]])
    /\ Goto(w, "commit") /\ todo' = [todo EXCEPT ![w] = {}]
    /\ UNCHANGED <<db, due, pushed, mix>>

-----------------------------------------------------------------------------
(* The drain *)

\* _expire_announcements: the open ones past their time are loaded ...
Drain(w) ==
    /\ at[w] = "idle"
    /\ Goto(w, "expire")
    /\ todo' = [todo EXCEPT ![w] = {a \in due : db[a].status \in Open}]
    /\ UNCHANGED <<db, tx, due, pushed, mix>>

\* ... and ended, with the deliveries that are pending then.
Expire(w, a) ==
    /\ at[w] = "expire" /\ a \in todo[w] /\ ~Flushing(w)
    /\ LET pending == {p \in {a} \X Subs : See(w, p).status = "PENDING"}
       IN Stage(w, [r \in {a} \cup pending |->
                      [See(w, r) EXCEPT !.status = IF r = a THEN "SENT" ELSE "CANCELLED"]])
    /\ todo' = [todo EXCEPT ![w] = @ \ {a}]
    /\ UNCHANGED <<db, at, due, pushed, mix>>

\* Mutant: the claim does not lock.
ClaimUnlocked(w) ==
    /\ at[w] = "expire" /\ todo[w] = {} /\ ~Flushing(w)
    /\ todo' = [todo EXCEPT ![w] = {p \in Pairs : See(w, p).status = "PENDING"}]
    /\ Goto(w, "deliver")
    /\ UNCHANGED <<db, tx, due, pushed, mix>>

\* claim_pending: FOR UPDATE SKIP LOCKED.
Claim(w) ==
    /\ at[w] = "expire" /\ todo[w] = {} /\ ~Flushing(w)
    /\ LET claimed == {p \in Pairs : FreeFor(w, p) /\ See(w, p).status = "PENDING"}
       IN /\ tx' = [tx EXCEPT ![w] = Locked(tx[w], [p \in claimed |-> See(w, p)])]
          /\ todo' = [todo EXCEPT ![w] = claimed]
    /\ Goto(w, "deliver")
    /\ UNCHANGED <<db, due, pushed, mix>>

\* Mutant: retries are counted and never given up.
OutcomeNoLimit(a, s, d, outcome) ==
    IF outcome = "sent" THEN <<[a EXCEPT !.sent = @ + 1], s, [d EXCEPT !.status = "SENT"]>>
    ELSE <<a, s, [d EXCEPT !.attempts = @ + 1]>>

\* Mutant: a retry is not counted.
OutcomeUncounted(a, s, d, outcome) ==
    IF outcome = "sent" THEN <<[a EXCEPT !.sent = @ + 1], s, [d EXCEPT !.status = "SENT"]>>
    ELSE <<a, s, d>>

\* _apply: the announcement, the subscription and the delivery after an answer.
Outcome(a, s, d, outcome) ==
    IF outcome = "sent" THEN <<[a EXCEPT !.sent = @ + 1], s, [d EXCEPT !.status = "SENT"]>>
    ELSE IF outcome = "gone" THEN <<a, [s EXCEPT !.there = FALSE], [d EXCEPT !.status = "GONE"]>>
    ELSE LET tries == d.attempts + 1
             failures == s.failures + 1
             over == outcome = "invalid" \/ tries >= MaxAttempts \/ failures >= MaxFailures
         IN <<IF over THEN [a EXCEPT !.failed = @ + 1] ELSE a,
              [s EXCEPT !.failures = failures, !.there = failures < MaxFailures],
              [d EXCEPT !.attempts = tries, !.status = IF over THEN "FAILED" ELSE "PENDING"]>>

\* Retryable failures are among what may meet a drain.
Answers == {"sent", "gone", "invalid"} \cup (mix \cap {"retry"})
Push(p, outcome) ==
    pushed' = IF outcome = "sent" /\ pushed[p] < 2 THEN [pushed EXCEPT ![p] = @ + 1] ELSE pushed

\* One delivery: the announcement and the subscription are read, the push is sent
\* (a blocking call) and the answer assigned.  A subscription that is gone ends
\* the delivery without a push.
Deliver(w, p) ==
    /\ at[w] = "deliver" /\ p \in todo[w] /\ ~Flushing(w)
    /\ todo' = [todo EXCEPT ![w] = @ \ {p}]
    /\ LET a == p[1]
           s == p[2]
           sending == [See(w, a) EXCEPT !.status = "SENDING"]
       IN IF See(w, a).status \notin Open THEN UNCHANGED <<tx, pushed>>
          ELSE IF ~See(w, s).there
          THEN /\ Stage(w, [r \in {a, p} |-> IF r = a THEN sending
                                             ELSE [See(w, p) EXCEPT !.status = "GONE"]])
               /\ UNCHANGED pushed
          ELSE \E outcome \in Answers :
                 LET after == Outcome(sending, See(w, s), See(w, p), outcome)
                 IN /\ Stage(w, [r \in {a, s, p} |-> IF r = a THEN after[1]
                                                     ELSE IF r = s THEN after[2] ELSE after[3]])
                    /\ Push(p, outcome)
    /\ UNCHANGED <<db, at, due, mix>>

\* _complete_announcements: those SENDING are loaded, when all is delivered or
\* the forty seconds are over ...
Finish(w) ==
    /\ at[w] = "deliver" /\ ~Flushing(w)
    /\ Goto(w, "complete")
    /\ todo' = [todo EXCEPT ![w] = {a \in Anns : See(w, a).status = "SENDING"}]
    /\ UNCHANGED <<db, tx, due, pushed, mix>>

\* Mutant: an announcement is complete as soon as a drain is through with it.
CompleteEarly(w, a) ==
    /\ at[w] = "complete" /\ a \in todo[w] /\ ~Flushing(w)
    /\ Stage(w, Only(a, [See(w, a) EXCEPT !.status = "SENT"]))
    /\ todo' = [todo EXCEPT ![w] = @ \ {a}]
    /\ UNCHANGED <<db, at, due, pushed, mix>>

\* ... and those with nothing pending are SENT.
Complete(w, a) ==
    /\ at[w] = "complete" /\ a \in todo[w] /\ ~Flushing(w)
    /\ IF \E s \in Subs : See(w, <<a, s>>).status = "PENDING" THEN UNCHANGED tx
       ELSE Stage(w, Only(a, [See(w, a) EXCEPT !.status = "SENT"]))
    /\ todo' = [todo EXCEPT ![w] = @ \ {a}]
    /\ UNCHANGED <<db, at, due, pushed, mix>>

-----------------------------------------------------------------------------
(* The reminder run of one kind on one day *)

\* unnotified_students.
Remind(w) ==
    /\ at[w] = "idle" /\ "remind" \in mix /\ Nudged # {}
    /\ Goto(w, "remind")
    /\ todo' = [todo EXCEPT ![w] = {s \in Nudged : ~db[Log(s)].there}]
    /\ UNCHANGED <<db, tx, due, pushed, mix>>

\* One student: INSERT ... ON CONFLICT DO NOTHING into the log (it waits for a
\* concurrent insert of the same key), and if that is ours, the inbox and a push,
\* unless there is nothing to say.
RemindOne(w, s) ==
    /\ at[w] = "remind" /\ s \in todo[w] /\ ~Flushing(w)
    /\ FreeFor(w, Log(s))
    /\ todo' = [todo EXCEPT ![w] = @ \ {s}]
    /\ IF See(w, Log(s)).there THEN UNCHANGED <<tx, pushed>>
       ELSE LET claimed == Locked(tx[w], Only(Log(s), [there |-> TRUE]))
            IN \/ tx' = [tx EXCEPT ![w] = claimed] /\ UNCHANGED pushed
               \/ /\ See(w, s).there
                  /\ \E outcome \in Answers :
                       /\ tx' = [tx EXCEPT ![w] =
                                   IF outcome = "gone"
                                   THEN Assign(claimed, Only(s, See(w, s)),
                                               Only(s, [See(w, s) EXCEPT !.there = FALSE]))
                                   ELSE claimed]
                       /\ Push(Log(s), outcome)
    /\ UNCHANGED <<db, at, due, mix>>

-----------------------------------------------------------------------------

Work(w) ==
    \/ \E r \in Rows : Flush(w, r)
    \/ CancelPending(w) \/ Claim(w) \/ Finish(w) \/ Commit(w)
    \/ \E a \in Anns : Expire(w, a) \/ Complete(w, a)
    \/ \E p \in Pairs : Deliver(w, p)
    \/ \E s \in Nudged : RemindOne(w, s)

Next ==
    \/ \E a \in Anns : Create(a) \/ Expires(a)
    \/ \E s \in Subs : Unsubscribe(s)
    \/ \E w \in Workers : \/ \E a \in Anns : Cancel(w, a)
                          \/ Drain(w) \/ Remind(w) \/ Work(w) \/ Rollback(w)

Spec == Init /\ [][Next]_vars

\* A rollback that loses something: one with nothing left to do and nothing written
\* is a commit all the same.
Failure(w) ==
    /\ Rollback(w)
    /\ \/ at[w] \notin {"commit", "remind"} /\ ~(at[w] = "complete" /\ todo[w] = {})
       \/ Flushing(w) \/ CommittedBy(w) # db

\* Cron starts drains again and again; a transaction goes on or is rolled back,
\* and work is not lost for ever; the forty seconds are not always over before a
\* claimed delivery has its turn.
FairSpec ==
    /\ Spec
    /\ \A w \in Workers :
          /\ SF_vars(Drain(w)) /\ WF_vars(Work(w) \/ Rollback(w))
          /\ \A p \in Pairs : SF_vars(Deliver(w, p))
    /\ <>[][\A w \in Workers : ~Failure(w)]_vars

-----------------------------------------------------------------------------
(* Properties *)

TypeOK ==
    /\ \A a \in Anns : db[a] \in Ann
    /\ \A p \in Pairs : db[p] \in Delivery
    /\ \A s \in Subs : db[s] \in Sub
    /\ \A l \in Logs : db[l] \in ReminderLog
    /\ at \in [Workers -> Steps] /\ todo \in [Workers -> SUBSET Rows]
    /\ due \subseteq Anns
    /\ pushed \in [Pairs \cup Logs -> 0 .. 2]

\* "Both must be safe to run together (the skip-locked claim is that lock)": no
\* device is pushed twice for one announcement, unless the transaction that pushed
\* first was rolled back.
PushedOnce == \A p \in Pairs : pushed[p] <= 1

\* Two reminder runs at once remind a student once, with the same exception.
RemindedOnce == \A l \in Logs : pushed[l] <= 1

\* A cancellation or an expiry that has committed ends the pushing, and so does
\* another drain's answer: whoever sends, sends for a delivery that is pending and an
\* announcement that is open as committed.
NoPushAfterEnd ==
    [][\A p \in Pairs :
          pushed'[p] > pushed[p] => db[p].status = "PENDING" /\ db[p[1]].status \in Open]_vars

\* An announcement that is over leaves no delivery behind that no drain would take.
NothingStranded ==
    \A a \in Anns, s \in Subs :
        db[a].status \in {"SENT", "CANCELLED"} => db[<<a, s>>].status # "PENDING"

\* The count shown to the administrator never exceeds what was sent.
SentNotInflated ==
    \A a \in Anns : db[a].sent <= Cardinality({s \in Subs : pushed[<<a, s>>] > 0})

\* All four, of drains and reminder runs at once.
PushSafe == PushedOnce /\ RemindedOnce /\ NothingStranded /\ SentNotInflated

\* Every announcement is sent or cancelled in the end.
AnnouncementsEnd ==
    \A a \in Anns : db[a].status \in Open ~> db[a].status \in {"SENT", "CANCELLED"}
-----------------------------------------------------------------------------
(* What the documents say and the code does not *)

\* "The implementation guards the final update on status = PENDING": a delivery
\* that has ended stays as it ended.  A cancel or an expiry that read PENDING
\* writes CANCELLED over the SENT committed since.
DeliveriesFinal ==
    [][\A p \in Pairs : db[p].status \in {"SENT", "FAILED", "GONE", "CANCELLED"}
                        => db'[p].status = db[p].status]_vars

\* The counter is that of the deliveries: of two drains that loaded the same
\* count, one increment is lost.
SentCounted ==
    \A a \in Anns : db[a].sent = Cardinality({s \in Subs : db[<<a, s>>].status = "SENT"})
=============================================================================
