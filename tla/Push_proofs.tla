------------------------------ MODULE Push_proofs ------------------------------
(***************************************************************************)
(* What TLAPS proves of Push, for any number of drains, cancellations,     *)
(* reminder runs, announcements and subscriptions.                         *)
(***************************************************************************)
EXTENDS Push, FiniteSetTheorems, TLAPS

Ended == {"SENT", "CANCELLED"}

\* The rows the code can write.
Values(r) ==
    IF r \in Anns THEN {a \in Ann : a.there <=> a.status # "NONE"}
    ELSE IF r \in Subs THEN {s \in Sub : s.there => s.failures < MaxFailures}
    ELSE IF r \in Pairs THEN {d \in Delivery : /\ d.there <=> d.status # "NONE"
                                               /\ d.status \in {"NONE", "PENDING"} =>
                                                     d.attempts < MaxAttempts}
    ELSE ReminderLog

\* The deliveries that are SENT in an open transaction, and those that are not
\* pending any more and were pushed: per announcement, the students of each.
SentBy(w) == {p \in Pairs : \/ p \in Holds(w) /\ tx[w].own[p].status = "SENT"
                            \/ p \in Dirty(w) /\ tx[w].dirty[p].assigned.status = "SENT"}
Told(w, a) == {s \in Subs : <<a, s>> \in SentBy(w)}
Kept(a) == {s \in Subs : pushed[<<a, s>>] > 0 /\ db[<<a, s>>].status # "PENDING"}

\* A session's locked rows and assigned ones.
Session(w) ==
    /\ tx[w] = [own |-> tx[w].own, dirty |-> tx[w].dirty]
    /\ Holds(w) \subseteq Rows /\ \A r \in Holds(w) : tx[w].own[r] \in Values(r)
    /\ Dirty(w) \subseteq Rows \ Logs
    /\ \A r \in Dirty(w) : /\ tx[w].dirty[r].loaded \in Values(r)
                           /\ tx[w].dirty[r].assigned \in Values(r)
                           /\ tx[w].dirty[r].loaded.there

\* What a session works on: announcements that exist, and deliveries it has claimed.
Working(w) ==
    /\ at[w] = "idle" \/ at[w] = "cancel" => tx[w] = Closed
    /\ at[w] \in {"cancel", "expire", "complete"} =>
          todo[w] \subseteq Anns /\ \A a \in todo[w] : db[a].there
    /\ at[w] = "deliver" =>
          \A p \in todo[w] : /\ p \in Pairs /\ p \in Holds(w) /\ p \notin Dirty(w)
                             /\ tx[w].own[p].status = "PENDING"
    /\ at[w] = "remind" => todo[w] \subseteq Nudged

\* Held announcements exist.
HeldAnns(w) ==
    \A a \in Anns : /\ a \in Holds(w) => tx[w].own[a].there /\ db[a].there
                    /\ a \in Dirty(w) => tx[w].dirty[a].assigned.there /\ db[a].there

\* A held delivery exists, and is cancelled, or is pending for everyone else.  One that was
\* assigned is cancelled or was claimed, and was pending.
HeldPairs(w) ==
    /\ \A p \in Pairs \cap Holds(w) :
          /\ tx[w].own[p].there /\ db[p].there
          /\ tx[w].own[p].status = "CANCELLED" \/ db[p].status = "PENDING"
    /\ \A p \in Pairs \cap Dirty(w) :
          LET d == tx[w].dirty[p]
          IN /\ d.loaded.status = "PENDING" /\ d.assigned.there
             /\ p \in Holds(w) => tx[w].own[p] = d.loaded
             /\ \/ d.assigned = [d.loaded EXCEPT !.status = "CANCELLED"]
                \/ /\ p \in Holds(w)
                   /\ d.assigned.status \in {"PENDING", "SENT", "FAILED", "GONE"}

\* A log entry is held by the run that has inserted it.
HeldLogs(w) == \A l \in Logs \cap Holds(w) : tx[w].own[l].there /\ ~db[l].there

\* Who ends an announcement ends each delivery of it that is pending.
Closes(w) ==
    \A a \in Anns :
        \/ a \in Holds(w) /\ tx[w].own[a].status \in Ended
        \/ a \in Dirty(w) /\ tx[w].dirty[a].assigned.status \in Ended
        => \A s \in Subs :
              db[<<a, s>>].status = "PENDING" =>
                \/ <<a, s>> \in Holds(w) /\ tx[w].own[<<a, s>>].status # "PENDING"
                \/ <<a, s>> \in Dirty(w) /\ tx[w].dirty[<<a, s>>].assigned.status = "CANCELLED"

\* What an open transaction has sent is pending as committed, and was pushed once.
SendsPending(w) == \A p \in SentBy(w) : pushed[p] = 1 /\ db[p].status = "PENDING"

\* The count an open transaction will write: what it has sent and what others have.
CountsSent(w) ==
    \A a \in Anns :
        /\ a \in Holds(w) =>
              tx[w].own[a].sent <= Cardinality(Kept(a) \cup Told(w, a))
        /\ a \in Dirty(w) =>
              tx[w].dirty[a].assigned.sent <= Cardinality(Kept(a) \cup Told(w, a))

Sound(w) ==
    /\ Session(w) /\ Working(w)
    /\ HeldAnns(w) /\ HeldPairs(w) /\ HeldLogs(w)
    /\ Closes(w) /\ SendsPending(w) /\ CountsSent(w)

\* No two transactions hold the same row.
Locks == \A v, w \in Workers : v # w => Holds(v) \cap Holds(w) = {}

\* A delivery belongs to an announcement; one that is pending, to an open one.
Deliveries ==
    \A a \in Anns, s \in Subs :
        /\ db[<<a, s>>].there => db[a].there
        /\ db[<<a, s>>].status = "PENDING" => db[a].status \in Open

\* What was pushed has ended or is being sent; who was reminded is in the log.
Pushes ==
    /\ \A p \in Pairs : pushed[p] > 0 => \/ db[p].status \in Ended
                                         \/ \E w \in Workers : p \in SentBy(w)
    /\ \A p \in Pairs \cup Logs : pushed[p] \in {0, 1}
    /\ \A l \in Logs : pushed[l] > 0 => db[l].there \/ \E w \in Workers : l \in Holds(w)

Counts == \A a \in Anns : db[a].sent <= Cardinality(Kept(a))

Typed ==
    /\ DOMAIN db = Rows /\ \A r \in Rows : db[r] \in Values(r)
    /\ DOMAIN tx = Workers
    /\ at \in [Workers -> Steps] /\ todo \in [Workers -> SUBSET Rows]
    /\ due \subseteq Anns /\ pushed \in [Pairs \cup Logs -> 0 .. 2]

IInv ==
    /\ Typed /\ Locks /\ Deliveries /\ Pushes /\ Counts
    /\ \A w \in Workers : Sound(w)

-----------------------------------------------------------------------------
(* Rows, sessions and their operators *)

\* Announcements, subscriptions, deliveries and log entries are rows apart.
LEMMA Kinds ==
    /\ Anns \subseteq Rows /\ Subs \subseteq Rows /\ Pairs \subseteq Rows /\ Logs \subseteq Rows
    /\ \A a \in Anns : a \notin Subs /\ a \notin Pairs /\ a \notin Logs
    /\ \A s \in Subs : s \notin Pairs /\ s \notin Logs
    /\ \A p \in Pairs : p \notin Logs
<1>1. ASSUME NEW p \in Pairs, p \in Logs PROVE FALSE
    <2>1. PICK a \in Anns, s \in Subs : p = <<a, s>>
        BY DEF Pairs
    <2>2. PICK t \in Nudged : p = <<"log", t>>
        BY <1>1 DEF Logs, Log
    <2>3. QED
        BY <2>1, <2>2, PushAssumption
<1>2. QED
    BY <1>1, PushAssumption

LEMMA ValuesOf ==
    /\ \A a \in Anns : \A v :
          v \in Values(a) <=> v \in Ann /\ (v.there <=> v.status # "NONE")
    /\ \A s \in Subs : \A v :
          v \in Values(s) <=> v \in Sub /\ (v.there => v.failures < MaxFailures)
    /\ \A p \in Pairs : \A v :
          v \in Values(p) <=> /\ v \in Delivery /\ (v.there <=> v.status # "NONE")
                              /\ v.status \in {"NONE", "PENDING"} => v.attempts < MaxAttempts
    /\ \A l \in Logs : \A v : v \in Values(l) <=> v \in ReminderLog
    BY Kinds DEF Values

LEMMA SeeIsValue ==
    ASSUME IInv, NEW w \in Workers, NEW r \in Rows
    PROVE  See(w, r) \in Values(r)
    BY DEF IInv, Typed, Sound, Session, See

\* What an assignment leaves of a session that had nothing to flush.
LEMMA AssignEffect ==
    ASSUME NEW y, y = [own |-> y.own, dirty |-> y.dirty], DOMAIN y.dirty = {},
           NEW seen, NEW V, NEW x, x = Assign(y, seen, V),
           NEW changed \in SUBSET DOMAIN V,
           \A q \in DOMAIN V : q \in changed <=> V[q] # seen[q]
    PROVE  /\ x = [own |-> x.own, dirty |-> x.dirty] /\ x.own = y.own
           /\ DOMAIN x.dirty = changed
           /\ \A r \in changed : x.dirty[r].loaded = seen[r] /\ x.dirty[r].assigned = V[r]
    BY DEF Assign

\* The same of one row.
LEMMA AssignOneEffect ==
    ASSUME NEW y, y = [own |-> y.own, dirty |-> y.dirty], DOMAIN y.dirty = {},
           NEW r, NEW old, NEW new, new # old,
           NEW x, x = Assign(y, Only(r, old), Only(r, new))
    PROVE  /\ x = [own |-> x.own, dirty |-> x.dirty] /\ x.own = y.own
           /\ DOMAIN x.dirty = {r}
           /\ x.dirty[r].loaded = old /\ x.dirty[r].assigned = new
    BY DEF Assign, Only

LEMMA FlushEffect ==
    ASSUME NEW y, y = [own |-> y.own, dirty |-> y.dirty], NEW r \in DOMAIN y.dirty, NEW now,
           NEW x, x = Flushed(y, r, now)
    PROVE  /\ x = [own |-> x.own, dirty |-> x.dirty]
           /\ DOMAIN x.own = DOMAIN y.own \cup {r}
           /\ x.own[r] = Changed(now, y.dirty[r].loaded, y.dirty[r].assigned)
           /\ \A q \in DOMAIN y.own \ {r} : x.own[q] = y.own[q]
           /\ DOMAIN x.dirty = DOMAIN y.dirty \ {r}
           /\ \A q \in DOMAIN y.dirty \ {r} : x.dirty[q] = y.dirty[q]
    BY DEF Flushed

LEMMA LockEffect ==
    ASSUME NEW y, y = [own |-> y.own, dirty |-> y.dirty], NEW V, NEW x, x = Locked(y, V)
    PROVE  /\ x = [own |-> x.own, dirty |-> x.dirty] /\ x.dirty = y.dirty
           /\ DOMAIN x.own = DOMAIN y.own \cup DOMAIN V
           /\ \A r \in DOMAIN V : x.own[r] = V[r]
           /\ \A r \in DOMAIN y.own \ DOMAIN V : x.own[r] = y.own[r]
    BY DEF Locked

\* The columns of a row written by UPDATE.
LEMMA ChangedAnn ==
    ASSUME NEW now \in Ann, NEW old \in Ann, NEW new \in Ann
    PROVE  /\ Changed(now, old, new) \in Ann
           /\ Changed(now, old, new).there = IF new.there # old.there THEN new.there ELSE now.there
           /\ Changed(now, old, new).status = IF new.status # old.status THEN new.status ELSE now.status
           /\ Changed(now, old, new).sent = IF new.sent # old.sent THEN new.sent ELSE now.sent
    BY DEF Changed, Ann

LEMMA ChangedSub ==
    ASSUME NEW now \in Sub, NEW old \in Sub, NEW new \in Sub
    PROVE  /\ Changed(now, old, new) \in Sub
           /\ Changed(now, old, new).there = IF new.there # old.there THEN new.there ELSE now.there
           /\ Changed(now, old, new).failures =
                 IF new.failures # old.failures THEN new.failures ELSE now.failures
    BY PushAssumption DEF Changed, Sub

LEMMA ChangedDelivery ==
    ASSUME NEW now \in Delivery, NEW old \in Delivery, NEW new \in Delivery
    PROVE  /\ Changed(now, old, new) \in Delivery
           /\ Changed(now, old, new).there = IF new.there # old.there THEN new.there ELSE now.there
           /\ Changed(now, old, new).status = IF new.status # old.status THEN new.status ELSE now.status
           /\ Changed(now, old, new).attempts =
                 IF new.attempts # old.attempts THEN new.attempts ELSE now.attempts
           /\ now = old => Changed(now, old, new) = new
    BY PushAssumption DEF Changed, Delivery

\* Told and Kept are sets of students, so they can be counted.
LEMMA Counted ==
    ASSUME NEW S \in SUBSET Subs, NEW T \in SUBSET S
    PROVE  Cardinality(S) \in Nat /\ Cardinality(T) \in Nat /\ Cardinality(T) <= Cardinality(S)
<1>1. IsFiniteSet(S)
    BY FS_Subset, PushAssumption
<1>2. QED
    BY <1>1, FS_Subset, FS_CardinalityType

LEMMA OneMore ==
    ASSUME NEW S \in SUBSET Subs, NEW s \in Subs \ S
    PROVE  Cardinality(S \cup {s}) = Cardinality(S) + 1
<1>1. IsFiniteSet(S)
    BY FS_Subset, PushAssumption
<1>2. QED
    BY <1>1, FS_AddElement

\* The count a transaction reads is not beyond what has been sent.
LEMMA SeeIsCounted ==
    ASSUME IInv, NEW w \in Workers, NEW a \in Anns
    PROVE  See(w, a).sent \in Nat /\ See(w, a).sent <= Cardinality(Kept(a) \cup Told(w, a))
<1>1. See(w, a) \in Ann
    BY SeeIsValue, ValuesOf, Kinds
<1>2. Kept(a) \cup Told(w, a) \in SUBSET Subs /\ Kept(a) \in SUBSET (Kept(a) \cup Told(w, a))
    BY DEF Kept, Told
<1>3. CASE a \in Holds(w)
    BY <1>1, <1>3 DEF IInv, Sound, CountsSent, See, Ann
<1>4. CASE a \notin Holds(w)
    <2>1. See(w, a).sent <= Cardinality(Kept(a))
        BY <1>4 DEF IInv, Counts, See
    <2>2. QED
        BY <1>1, <1>2, <2>1, Counted DEF Ann
<1>5. QED
    BY <1>3, <1>4

-----------------------------------------------------------------------------
(* Steps that change one session and nothing stored *)

LEMMA LocalKeeps ==
    ASSUME IInv, NEW w \in Workers, UNCHANGED <<db, due>>,
           DOMAIN tx' = Workers, \A v \in Workers \ {w} : tx'[v] = tx[v],
           at' \in [Workers -> Steps], todo' \in [Workers -> SUBSET Rows],
           \A v \in Workers \ {w} : at'[v] = at[v] /\ todo'[v] = todo[v],
           pushed' \in [Pairs \cup Logs -> 0 .. 2],
           \A p \in Pairs : pushed'[p] # pushed[p] =>
              pushed[p] = 0 /\ pushed'[p] = 1 /\ p \in SentBy(w)' /\ db[p].status = "PENDING",
           \A l \in Logs : pushed'[l] # pushed[l] =>
              pushed[l] = 0 /\ pushed'[l] = 1 /\ l \in Holds(w)',
           SentBy(w) \subseteq SentBy(w)',
           Holds(w) \subseteq Holds(w)',
           \A r \in Holds(w)' \ Holds(w) : FreeFor(w, r),
           Sound(w)'
    PROVE  IInv'
<1>1. \A v \in Workers \ {w} : /\ Holds(v)' = Holds(v) /\ Dirty(v)' = Dirty(v)
                               /\ SentBy(v)' = SentBy(v)
                               /\ \A a : Told(v, a)' = Told(v, a)
    BY DEF Holds, Dirty, SentBy, Told
<1>2. \A a \in Anns : Kept(a)' = Kept(a)
    BY DEF Kept, Pairs
<1>3. Typed' /\ Deliveries' /\ Counts'
    BY <1>2 DEF IInv, Typed, Deliveries, Counts
<1>4. Locks'
    BY <1>1 DEF IInv, Locks, FreeFor
<1>5. Pushes'
    <2>1. ASSUME NEW p \in Pairs, pushed'[p] > 0
          PROVE  db[p].status \in Ended \/ \E v \in Workers : p \in SentBy(v)'
        BY <2>1, <1>1 DEF IInv, Pushes
    <2>2. \A l \in Pairs \cup Logs : pushed'[l] \in {0, 1}
        BY DEF IInv, Pushes
    <2>3. ASSUME NEW l \in Logs, pushed'[l] > 0
          PROVE  db[l].there \/ \E v \in Workers : l \in Holds(v)'
        BY <2>3, <1>1 DEF IInv, Pushes
    <2>4. QED
        BY <2>1, <2>2, <2>3 DEF Pushes
<1>6. ASSUME NEW v \in Workers \ {w} PROVE Sound(v)'
    <2>1. Sound(v)
        BY DEF IInv
    <2>2. Session(v)'
        BY <2>1, <1>1 DEF Sound, Session
    <2>3a. Working(v)'
        BY <2>1, <1>1 DEF Sound, Working
    <2>3. HeldAnns(v)' /\ HeldPairs(v)' /\ HeldLogs(v)'
        BY <2>1, <1>1 DEF Sound, HeldAnns, HeldPairs, HeldLogs
    <2>4. Closes(v)'
        BY <2>1, <1>1 DEF Sound, Closes
    <2>5. SendsPending(v)'
        <3>1. \A p \in SentBy(v) : p \in Pairs /\ pushed[p] = 1 /\ db[p].status = "PENDING"
            BY <2>1 DEF Sound, SendsPending, SentBy
        <3>2. QED
            BY <3>1, <1>1 DEF SendsPending
    <2>6. CountsSent(v)'
        BY <2>1, <1>1, <1>2 DEF Sound, CountsSent
    <2>7. QED
        BY <2>2, <2>3, <2>3a, <2>4, <2>5, <2>6 DEF Sound
<1>7. QED
    BY <1>3, <1>4, <1>5, <1>6 DEF IInv

\* Steps that only say what the session works on next.
LEMMA StillKeeps ==
    ASSUME IInv, NEW w \in Workers, UNCHANGED <<db, tx, due, pushed>>,
           at' \in [Workers -> Steps], todo' \in [Workers -> SUBSET Rows],
           \A v \in Workers \ {w} : at'[v] = at[v] /\ todo'[v] = todo[v],
           Working(w)'
    PROVE  IInv'
<1>1. Holds(w)' = Holds(w) /\ SentBy(w)' = SentBy(w) /\ Dirty(w)' = Dirty(w)
    BY DEF Holds, SentBy, Dirty
<1>2. Session(w)' /\ HeldAnns(w)' /\ HeldPairs(w)' /\ HeldLogs(w)'
    BY <1>1 DEF IInv, Sound, Session, HeldAnns, HeldPairs, HeldLogs
<1>3. Closes(w)'
    BY <1>1 DEF IInv, Sound, Closes
<1>3a. SendsPending(w)'
    BY <1>1 DEF IInv, Sound, SendsPending
<1>3b. CountsSent(w)'
    <2>1. \A a : Kept(a)' = Kept(a) /\ Told(w, a)' = Told(w, a)
        BY <1>1 DEF Kept, Told
    <2>2. QED
        BY <1>1, <2>1 DEF IInv, Sound, CountsSent
<1>4. Sound(w)'
    BY <1>2, <1>3, <1>3a, <1>3b DEF Sound
<1>5. QED
    BY <1>1, <1>4, LocalKeeps DEF IInv, Typed

LEMMA StageEffect ==
    ASSUME IInv, NEW w \in Workers, NEW V, Dirty(w) = {}, Stage(w, V)
    PROVE  /\ tx'[w] = [own |-> tx'[w].own, dirty |-> tx'[w].dirty]
           /\ tx'[w].own = tx[w].own /\ Holds(w)' = Holds(w)
           /\ \E changed \in SUBSET DOMAIN V :
                 /\ Dirty(w)' = changed
                 /\ \A r \in DOMAIN V : r \notin changed => V[r] = See(w, r)
                 /\ \A r \in changed : /\ tx'[w].dirty[r].loaded = See(w, r)
                                       /\ tx'[w].dirty[r].assigned = V[r]
           /\ DOMAIN tx' = Workers /\ \A v \in Workers \ {w} : tx'[v] = tx[v]
<1> DEFINE seen == [r \in DOMAIN V |-> See(w, r)]
           changed == {q \in DOMAIN V : V[q] # See(w, q)}
<1>1. /\ tx'[w] = Assign(tx[w], seen, V)
      /\ DOMAIN tx' = Workers /\ \A v \in Workers \ {w} : tx'[v] = tx[v]
    BY DEF Stage, IInv, Typed
<1>2. DOMAIN tx[w].dirty = {} /\ tx[w] = [own |-> tx[w].own, dirty |-> tx[w].dirty]
    BY DEF Dirty, IInv, Sound, Session
<1>3. /\ changed \in SUBSET DOMAIN V
      /\ \A q \in DOMAIN V : /\ q \in changed <=> V[q] # seen[q]
                             /\ q \notin changed => V[q] = See(w, q)
      /\ \A r \in changed : seen[r] = See(w, r)
    OBVIOUS
<1> HIDE DEF seen, changed
<1>4. /\ tx'[w] = [own |-> tx'[w].own, dirty |-> tx'[w].dirty] /\ tx'[w].own = tx[w].own
      /\ DOMAIN tx'[w].dirty = changed
      /\ \A r \in changed : /\ tx'[w].dirty[r].loaded = seen[r]
                            /\ tx'[w].dirty[r].assigned = V[r]
    BY <1>1, <1>2, <1>3, AssignEffect
<1>5. QED
    BY <1>1, <1>3, <1>4 DEF Holds, Dirty

\* A step assigns V to rows that exist, with nothing left to flush: deliveries that are
\* pending end or are answered, and who ends an announcement ends its deliveries.
Assigns(w, V) ==
    /\ UNCHANGED <<db, due>> /\ Dirty(w) = {} /\ Stage(w, V)
    /\ DOMAIN V \subseteq Rows \ Logs
    /\ \A r \in DOMAIN V : V[r] \in Values(r) /\ See(w, r).there
    /\ \A a \in DOMAIN V \cap Anns :
          /\ V[a].there
          /\ V[a].status \in Ended =>
                \A s \in Subs : db[<<a, s>>].status = "PENDING" =>
                   \/ <<a, s>> \in Holds(w) /\ tx[w].own[<<a, s>>].status # "PENDING"
                   \/ <<a, s>> \in DOMAIN V /\ V[<<a, s>>].status = "CANCELLED"
          /\ \/ V[a].sent = See(w, a).sent
             \/ /\ V[a].sent = See(w, a).sent + 1
                /\ \E s \in Subs : <<a, s>> \in DOMAIN V /\ V[<<a, s>>].status = "SENT"
    /\ \A p \in DOMAIN V \cap Pairs :
          /\ See(w, p).status = "PENDING" /\ V[p].there
          /\ \/ V[p] = [See(w, p) EXCEPT !.status = "CANCELLED"]
             \/ p \in Holds(w) /\ V[p].status \in {"PENDING", "SENT", "FAILED", "GONE"}
          /\ V[p].status = "SENT" => pushed[p] = 0 /\ pushed'[p] = 1
    /\ pushed' \in [Pairs \cup Logs -> 0 .. 2]
    /\ \A p \in Pairs : pushed'[p] # pushed[p] => p \in DOMAIN V /\ V[p].status = "SENT"
    /\ \A l \in Logs : pushed'[l] = pushed[l]

LEMMA StageKeeps ==
    ASSUME IInv, NEW w \in Workers, NEW V, Assigns(w, V),
           at' \in [Workers -> Steps], todo' \in [Workers -> SUBSET Rows],
           \A v \in Workers \ {w} : at'[v] = at[v] /\ todo'[v] = todo[v],
           Working(w)'
    PROVE  IInv'
<1> USE DEF Assigns
<1>1. /\ Sound(w) /\ tx[w] = [own |-> tx[w].own, dirty |-> tx[w].dirty]
      /\ \A p \in Pairs : p \in Rows
    BY Kinds DEF IInv, Sound, Session
<1>2. PICK changed \in SUBSET DOMAIN V :
          /\ Dirty(w)' = changed
          /\ \A r \in DOMAIN V : r \notin changed => V[r] = See(w, r)
          /\ \A r \in changed : /\ tx'[w].dirty[r].loaded = See(w, r)
                                /\ tx'[w].dirty[r].assigned = V[r]
    BY StageEffect
<1>3. /\ tx'[w] = [own |-> tx'[w].own, dirty |-> tx'[w].dirty] /\ tx'[w].own = tx[w].own
      /\ \A r \in changed : /\ tx'[w].dirty[r].loaded = See(w, r)
                            /\ tx'[w].dirty[r].assigned = V[r]
      /\ Holds(w)' = Holds(w) /\ Dirty(w)' = changed
      /\ DOMAIN tx' = Workers /\ \A v \in Workers \ {w} : tx'[v] = tx[v]
    BY <1>2, StageEffect
<1>4. Holds(w)' = Holds(w) /\ Dirty(w)' = changed /\ changed \subseteq DOMAIN V
    BY <1>2, <1>3
<1>5. \A r \in DOMAIN V : r \notin changed => V[r] = See(w, r)
    BY <1>2
<1>6. ASSUME NEW p \in Pairs \cap DOMAIN V, V[p].status = "SENT"
      PROVE  /\ p \in changed /\ p \in SentBy(w)' /\ p \notin SentBy(w)
             /\ p \in Holds(w) /\ db[p].status = "PENDING"
    <2>1. See(w, p).status = "PENDING" /\ p \in changed
        BY <1>6, <1>5
    <2>2. V[p] # [See(w, p) EXCEPT !.status = "CANCELLED"]
        <3>1. See(w, p) \in Delivery
            BY <1>1, SeeIsValue, ValuesOf
        <3>2. QED
            BY <1>6, <3>1 DEF Delivery
    <2>3. p \in Holds(w) /\ tx[w].own[p].status = "PENDING"
        BY <2>1, <2>2 DEF See
    <2>4. db[p].status = "PENDING"
        BY <2>3, <1>1 DEF Sound, HeldPairs
    <2>5. QED
        BY <1>3, <1>4, <1>6, <2>1, <2>3, <2>4 DEF SentBy
<1>7. /\ SentBy(w) \subseteq SentBy(w)'
      /\ \A p \in SentBy(w)' : p \in SentBy(w) \/ (p \in Pairs \cap DOMAIN V /\ V[p].status = "SENT")
    <2>1. SentBy(w) \subseteq SentBy(w)'
        BY <1>3, <1>4 DEF SentBy
    <2>2. ASSUME NEW p \in SentBy(w)'
          PROVE  p \in SentBy(w) \/ (p \in Pairs \cap DOMAIN V /\ V[p].status = "SENT")
        <3>1. p \in Pairs
            BY DEF SentBy
        <3>2. CASE p \in Holds(w)' /\ tx'[w].own[p].status = "SENT"
            <4>1. p \in Holds(w) /\ tx[w].own[p].status = "SENT"
                BY <1>3, <1>4, <3>2
            <4>2. QED
                BY <3>1, <4>1 DEF SentBy
        <3>3. CASE p \in Dirty(w)' /\ tx'[w].dirty[p].assigned.status = "SENT"
            BY <1>3, <1>4, <3>1, <3>3
        <3>4. QED
            BY <3>2, <3>3 DEF SentBy
    <2>3. QED
        BY <2>1, <2>2
<1>8. Session(w)'
    BY <1>1, <1>3, <1>4, SeeIsValue DEF Sound, Session
<1>9. HeldAnns(w)'
    <2>1. \A a \in Anns : a \in DOMAIN V => db[a].there
        BY <1>1 DEF See, Sound, HeldAnns
    <2>2. QED
        BY <1>1, <1>3, <1>4, <2>1 DEF Sound, HeldAnns
<1>10. HeldPairs(w)'
    <2>1. \A p \in Pairs : p \in Holds(w) => See(w, p) = tx[w].own[p]
        BY DEF See
    <2>2. QED
        BY <1>1, <1>3, <1>4, <2>1 DEF Sound, HeldPairs
<1>11. HeldLogs(w)'
    BY <1>1, <1>3, <1>4 DEF Sound, HeldLogs
<1>12. Closes(w)'
    <2> SUFFICES ASSUME NEW a \in Anns, NEW s \in Subs, db[<<a, s>>].status = "PENDING",
                        \/ a \in Holds(w) /\ tx[w].own[a].status \in Ended
                        \/ a \in changed /\ V[a].status \in Ended
                 PROVE  \/ <<a, s>> \in Holds(w) /\ tx[w].own[<<a, s>>].status # "PENDING"
                        \/ <<a, s>> \in changed /\ V[<<a, s>>].status = "CANCELLED"
        BY <1>3, <1>4 DEF Closes
    <2>1. <<a, s>> \in Pairs
        BY DEF Pairs
    <2>2. CASE a \in Holds(w) /\ tx[w].own[a].status \in Ended
        BY <2>2, <1>1 DEF Sound, Closes
    <2>3. CASE a \in changed /\ V[a].status \in Ended
        BY <2>1, <2>3, <1>4, <1>5
    <2>4. QED
        BY <2>2, <2>3
<1>13. SendsPending(w)'
    <2>1. \A p \in SentBy(w) : p \in Pairs /\ pushed[p] = 1 /\ db[p].status = "PENDING"
        BY <1>1 DEF Sound, SendsPending, SentBy
    <2>2. \A p \in SentBy(w) : pushed'[p] = 1
        BY <2>1
    <2>3. QED
        BY <2>1, <2>2, <1>6, <1>7 DEF SendsPending
<1>14. CountsSent(w)'
    <2> SUFFICES ASSUME NEW a \in Anns
                 PROVE  /\ a \in Holds(w) =>
                              tx[w].own[a].sent <= Cardinality(Kept(a)' \cup Told(w, a)')
                        /\ a \in changed => V[a].sent <= Cardinality(Kept(a)' \cup Told(w, a)')
        BY <1>3, <1>4 DEF CountsSent
    <2> DEFINE before == Kept(a) \cup Told(w, a)
               after == Kept(a)' \cup Told(w, a)'
    <2>1. Kept(a)' = Kept(a)
        BY <1>6 DEF Kept, Pairs
    <2>2. before \subseteq after /\ after \subseteq Subs /\ Kept(a) \subseteq before
        BY <2>1, <1>7 DEF Kept, Told
    <2>3. /\ Cardinality(before) \in Nat /\ Cardinality(after) \in Nat
          /\ Cardinality(before) <= Cardinality(after) /\ IsFiniteSet(before)
          /\ Cardinality(Kept(a)) \in Nat /\ Cardinality(Kept(a)) <= Cardinality(before)
        <3>1. before \in SUBSET Subs /\ after \in SUBSET Subs /\ IsFiniteSet(Subs)
            BY <2>2, PushAssumption
        <3> HIDE DEF before, after
        <3>2. QED
            BY <2>2, <3>1, Counted, FS_Subset
    <2>4. See(w, a).sent \in Nat /\ See(w, a).sent <= Cardinality(before)
        BY SeeIsCounted
    <2>5. ASSUME a \in Holds(w) PROVE tx[w].own[a].sent <= Cardinality(after)
        <3>1. tx[w].own[a].sent = See(w, a).sent
            BY <2>5 DEF See
        <3> HIDE DEF before, after
        <3>2. QED
            BY <3>1, <2>3, <2>4
    <2>6. ASSUME a \in changed PROVE V[a].sent <= Cardinality(after)
        <3> HIDE DEF before, after
        <3>1. CASE V[a].sent = See(w, a).sent
            BY <3>1, <2>3, <2>4
        <3>2. CASE /\ V[a].sent = See(w, a).sent + 1
                   /\ \E s \in Subs : <<a, s>> \in DOMAIN V /\ V[<<a, s>>].status = "SENT"
            <4>1. PICK s \in Subs : <<a, s>> \in DOMAIN V /\ V[<<a, s>>].status = "SENT"
                BY <3>2
            <4>2. <<a, s>> \in Pairs
                BY DEF Pairs
            <4>3. s \notin before /\ before \cup {s} \subseteq after
                BY <4>1, <4>2, <1>6, <2>2 DEF before, after, Kept, Told
            <4>4. Cardinality(before \cup {s}) = Cardinality(before) + 1
                BY <4>3, <2>2, OneMore
            <4>5. Cardinality(before \cup {s}) <= Cardinality(after)
                BY <4>3, <2>2, Counted
            <4>6. QED
                BY <3>2, <4>4, <4>5, <2>3, <2>4
        <3>3. QED
            BY <2>6, <1>4, <3>1, <3>2
    <2>7. QED
        BY <2>5, <2>6
<1>15. Sound(w)'
    BY <1>8, <1>9, <1>10, <1>11, <1>12, <1>13, <1>14 DEF Sound
<1>16. \A p \in Pairs : pushed'[p] # pushed[p] =>
          pushed[p] = 0 /\ pushed'[p] = 1 /\ p \in SentBy(w)' /\ db[p].status = "PENDING"
    BY <1>6
<1>17. QED
    BY <1>3, <1>4, <1>7, <1>15, <1>16, LocalKeeps

\* Flushing one row.
LEMMA FlushKeeps ==
    ASSUME IInv, NEW w \in Workers, NEW r \in Rows, Flush(w, r)
    PROVE  IInv'
<1> DEFINE d == tx[w].dirty[r]
           v == Changed(See(w, r), d.loaded, d.assigned)
<1>1. /\ Sound(w) /\ Session(w) /\ r \in Dirty(w) /\ FreeFor(w, r)
      /\ See(w, r).there \/ ~d.assigned.there
      /\ UNCHANGED <<db, at, todo, due, pushed>>
    BY DEF IInv, Sound, Flush
<1>2. /\ tx'[w] = Flushed(tx[w], r, See(w, r))
      /\ DOMAIN tx' = Workers /\ \A u \in Workers \ {w} : tx'[u] = tx[u]
    BY DEF Flush, IInv, Typed
<1>3. /\ tx'[w] = [own |-> tx'[w].own, dirty |-> tx'[w].dirty]
      /\ Holds(w)' = Holds(w) \cup {r} /\ tx'[w].own[r] = v
      /\ \A q \in Holds(w) \ {r} : tx'[w].own[q] = tx[w].own[q]
      /\ Dirty(w)' = Dirty(w) \ {r}
      /\ \A q \in Dirty(w) \ {r} : tx'[w].dirty[q] = tx[w].dirty[q]
    <2>1. r \in DOMAIN tx[w].dirty /\ tx[w] = [own |-> tx[w].own, dirty |-> tx[w].dirty]
        BY <1>1 DEF Dirty, Session
    <2>2. QED
        BY <1>2, <2>1, FlushEffect DEF Holds, Dirty
<1>4. /\ See(w, r) \in Values(r) /\ d.loaded \in Values(r) /\ d.assigned \in Values(r)
      /\ d.loaded.there /\ r \notin Logs
    BY <1>1, SeeIsValue DEF Session
<1>5. ASSUME r \in Anns
      PROVE  /\ v \in Values(r) /\ v.there /\ db[r].there
             /\ v.status \in {d.assigned.status, See(w, r).status}
             /\ v.sent \in {d.assigned.sent, See(w, r).sent}
    <2>1. See(w, r) \in Ann /\ d.loaded \in Ann /\ d.assigned \in Ann
        BY <1>4, <1>5, ValuesOf
    <2>2. /\ v \in Ann /\ v.there = IF d.assigned.there # d.loaded.there THEN d.assigned.there
                                    ELSE See(w, r).there
          /\ v.status \in {d.assigned.status, See(w, r).status}
          /\ v.sent \in {d.assigned.sent, See(w, r).sent}
        BY <2>1, ChangedAnn
    <2>3. See(w, r).there /\ d.assigned.there /\ db[r].there
        BY <1>1, <1>5 DEF Sound, HeldAnns, See
    <2>4. v \in Values(r) /\ v.there
        <3>1. v.there
            BY <1>4, <2>2, <2>3
        <3>2. See(w, r).status # "NONE" /\ d.assigned.status # "NONE"
            BY <1>4, <1>5, <2>3, ValuesOf
        <3> HIDE DEF v
        <3>3. QED
            BY <1>5, <2>2, <3>1, <3>2, ValuesOf
    <2>5. QED
        BY <2>2, <2>3, <2>4
<1>6. ASSUME r \in Subs PROVE v \in Values(r)
    <2>1. See(w, r) \in Sub /\ d.loaded \in Sub /\ d.assigned \in Sub
        BY <1>4, <1>6, ValuesOf
    <2>2. /\ v \in Sub
          /\ v.there = IF d.assigned.there # d.loaded.there THEN d.assigned.there
                       ELSE See(w, r).there
          /\ v.failures \in {d.assigned.failures, See(w, r).failures}
        BY <2>1, ChangedSub
    <2>3. /\ See(w, r).there => See(w, r).failures < MaxFailures
          /\ d.assigned.there => d.assigned.failures < MaxFailures
          /\ d.assigned.there \in BOOLEAN
        BY <1>4, <1>6, <2>1, ValuesOf DEF Sub
    <2> HIDE DEF v
    <2>4. v.there => See(w, r).there /\ d.assigned.there
        BY <1>4, <2>2, <2>3
    <2>5. QED
        BY <1>6, <2>2, <2>3, <2>4, ValuesOf
<1>7. ASSUME r \in Pairs
      PROVE  /\ v \in Values(r) /\ v.there /\ (v.status = "CANCELLED" \/ db[r].status = "PENDING")
             /\ v.status = d.assigned.status \/ d.assigned.status = "PENDING"
             /\ d.assigned.status # "CANCELLED" => v = d.assigned /\ r \in Holds(w)
             /\ d.assigned.status = "CANCELLED" => v.status = "CANCELLED"
             /\ r \in Holds(w) => tx[w].own[r].status = "PENDING"
             /\ db[r].there
    <2>1. See(w, r) \in Delivery /\ d.loaded \in Delivery /\ d.assigned \in Delivery
        BY <1>4, <1>7, ValuesOf
    <2>2. /\ v \in Delivery
          /\ v.there = IF d.assigned.there # d.loaded.there THEN d.assigned.there
                       ELSE See(w, r).there
          /\ v.status = IF d.assigned.status # d.loaded.status THEN d.assigned.status
                        ELSE See(w, r).status
          /\ See(w, r) = d.loaded => v = d.assigned
        BY <2>1, ChangedDelivery
    <2>3. /\ d.loaded.status = "PENDING" /\ d.assigned.there
          /\ r \in Holds(w) => tx[w].own[r] = d.loaded /\ See(w, r) = d.loaded
          /\ \/ d.assigned = [d.loaded EXCEPT !.status = "CANCELLED"]
             \/ r \in Holds(w) /\ d.assigned.status \in {"PENDING", "SENT", "FAILED", "GONE"}
        BY <1>1, <1>7 DEF Sound, HeldPairs, See
    <2>4. See(w, r).there
        BY <1>1, <2>3
    <2>5. db[r].there /\ (r \in Holds(w) => db[r].status = "PENDING")
        BY <1>1, <1>7, <2>3, <2>4 DEF Sound, HeldPairs, See
    <2>6. CASE d.assigned = [d.loaded EXCEPT !.status = "CANCELLED"]
        <3>1. d.assigned.status = "CANCELLED"
            BY <2>1, <2>6 DEF Delivery
        <3>2. v.status = "CANCELLED" /\ v.there
            BY <1>4, <2>2, <2>3, <2>4, <3>1
        <3> HIDE DEF v
        <3>3. v \in Values(r)
            BY <1>7, <2>2, <3>2, ValuesOf
        <3>4. QED
            BY <3>1, <3>2, <3>3, <2>3, <2>5
    <2>7. CASE r \in Holds(w) /\ d.assigned.status \in {"PENDING", "SENT", "FAILED", "GONE"}
        <3>1. v = d.assigned
            BY <2>2, <2>3, <2>7
        <3> HIDE DEF v
        <3>2. QED
            BY <3>1, <2>3, <2>5, <2>7, <1>4
    <2>8. QED
        BY <2>3, <2>6, <2>7
<1> HIDE DEF v
<1>8. v \in Values(r)
    BY <1>4, <1>5, <1>6, <1>7, PushAssumption
<1>9. Session(w)'
    <2>1. \A q \in Holds(w)' : tx'[w].own[q] \in Values(q)
        BY <1>1, <1>3, <1>8 DEF Session
    <2>2. QED
        BY <2>1, <1>1, <1>3 DEF Session
<1>10. Working(w)'
    <2>1. at[w] \notin {"idle", "cancel"}
        BY <1>1 DEF Sound, Working, Dirty, Closed
    <2>2. QED
        BY <2>1, <1>1, <1>3 DEF Sound, Working
<1>11. HeldAnns(w)'
    BY <1>1, <1>3, <1>5 DEF Sound, HeldAnns
<1>12. HeldPairs(w)'
    <2>1. \A p \in Pairs \cap Holds(w)' :
             /\ tx'[w].own[p].there /\ db[p].there
             /\ tx'[w].own[p].status = "CANCELLED" \/ db[p].status = "PENDING"
        BY <1>1, <1>3, <1>7 DEF Sound, HeldPairs
    <2>2. QED
        BY <2>1, <1>1, <1>3 DEF Sound, HeldPairs
<1>13. HeldLogs(w)'
    BY <1>1, <1>3, <1>4 DEF Sound, HeldLogs
<1>14. Closes(w)'
    <2> SUFFICES ASSUME NEW a \in Anns, NEW s \in Subs, db[<<a, s>>].status = "PENDING",
                        \/ a \in Holds(w)' /\ tx'[w].own[a].status \in Ended
                        \/ a \in Dirty(w)' /\ tx'[w].dirty[a].assigned.status \in Ended
                 PROVE  \/ <<a, s>> \in Holds(w)' /\ tx'[w].own[<<a, s>>].status # "PENDING"
                        \/ <<a, s>> \in Dirty(w)' /\ tx'[w].dirty[<<a, s>>].assigned.status = "CANCELLED"
        BY <1>1 DEF Closes
    <2>1. <<a, s>> \in Pairs /\ db[a].status \notin Ended
        BY DEF IInv, Deliveries, Pairs, Open, Ended
    <2>2. \/ a \in Holds(w) /\ tx[w].own[a].status \in Ended
          \/ a \in Dirty(w) /\ tx[w].dirty[a].assigned.status \in Ended
        <3>1. CASE a = r
            <4>1. v.status \in Ended => d.assigned.status \in Ended \/ See(w, r).status \in Ended
                BY <3>1, <1>5
            <4>2. QED
                BY <3>1, <4>1, <2>1, <1>1, <1>3 DEF See
        <3>2. CASE a # r
            BY <3>2, <1>3
        <3>3. QED
            BY <3>1, <3>2
    <2>3. \/ <<a, s>> \in Holds(w) /\ tx[w].own[<<a, s>>].status # "PENDING"
          \/ <<a, s>> \in Dirty(w) /\ tx[w].dirty[<<a, s>>].assigned.status = "CANCELLED"
        BY <2>2, <1>1 DEF Sound, Closes
    <2>4. CASE <<a, s>> = r
        BY <2>1, <2>3, <2>4, <1>3, <1>7
    <2>5. CASE <<a, s>> # r
        BY <2>3, <2>5, <1>3
    <2>6. QED
        BY <2>4, <2>5
<1>15. \A p \in Pairs : p \in SentBy(w)' <=> p \in SentBy(w)
    <2> SUFFICES ASSUME NEW p \in Pairs PROVE p \in SentBy(w)' <=> p \in SentBy(w)
        OBVIOUS
    <2>1. p \in SentBy(w) <=> \/ p \in Holds(w) /\ tx[w].own[p].status = "SENT"
                              \/ p \in Dirty(w) /\ tx[w].dirty[p].assigned.status = "SENT"
        BY DEF SentBy
    <2>2. p \in SentBy(w)' <=> \/ p \in Holds(w)' /\ tx'[w].own[p].status = "SENT"
                               \/ p \in Dirty(w)' /\ tx'[w].dirty[p].assigned.status = "SENT"
        BY DEF SentBy
    <2>3. CASE p = r
        BY <2>1, <2>2, <2>3, <1>1, <1>3, <1>7
    <2>4. CASE p # r
        BY <2>1, <2>2, <2>4, <1>3
    <2>5. QED
        BY <2>3, <2>4
<1>16. SentBy(w)' = SentBy(w)
    <2>1. SentBy(w) \subseteq Pairs /\ SentBy(w)' \subseteq Pairs
        BY DEF SentBy
    <2>2. QED
        BY <2>1, <1>15
<1>17. SendsPending(w)'
    BY <1>1, <1>16 DEF Sound, SendsPending
<1>18. CountsSent(w)'
    <2> SUFFICES ASSUME NEW a \in Anns
                 PROVE  /\ a \in Holds(w)' =>
                              tx'[w].own[a].sent <= Cardinality(Kept(a)' \cup Told(w, a)')
                        /\ a \in Dirty(w)' =>
                              tx'[w].dirty[a].assigned.sent <= Cardinality(Kept(a)' \cup Told(w, a)')
        BY DEF CountsSent
    <2>1. Kept(a)' = Kept(a) /\ Told(w, a)' = Told(w, a)
        BY <1>1, <1>16 DEF Kept, Told
    <2>2. See(w, a).sent <= Cardinality(Kept(a) \cup Told(w, a))
        BY SeeIsCounted
    <2>3. /\ a \in Holds(w) => tx[w].own[a].sent <= Cardinality(Kept(a) \cup Told(w, a))
          /\ a \in Dirty(w) => tx[w].dirty[a].assigned.sent <= Cardinality(Kept(a) \cup Told(w, a))
        BY <1>1 DEF Sound, CountsSent
    <2>4. CASE a = r
        BY <2>1, <2>2, <2>3, <2>4, <1>1, <1>3, <1>5
    <2>5. CASE a # r
        BY <2>1, <2>3, <2>5, <1>3
    <2>6. QED
        BY <2>4, <2>5
<1>19. Sound(w)'
    BY <1>9, <1>10, <1>11, <1>12, <1>13, <1>14, <1>17, <1>18 DEF Sound
<1>20. QED
    BY <1>1, <1>2, <1>3, <1>16, <1>19, LocalKeeps DEF IInv, Typed

\* A step is taken: what w does next, and on what.
LEMMA BeginKeeps ==
    ASSUME IInv, NEW w \in Workers,
           (\E a \in Anns : Cancel(w, a)) \/ Drain(w) \/ Finish(w) \/ Remind(w)
    PROVE  IInv'
<1>1. /\ at \in [Workers -> Steps] /\ todo \in [Workers -> SUBSET Rows] /\ due \subseteq Anns
      /\ \A a \in Anns : a \in Rows /\ (db[a].status # "NONE" => db[a].there)
      /\ Nudged \subseteq Rows /\ Sound(w)
    <2>1. \A a \in Anns : db[a].status # "NONE" => db[a].there
        BY Kinds, ValuesOf DEF IInv, Typed
    <2>2. QED
        BY <2>1, Kinds, PushAssumption DEF IInv, Typed
<1>2. CASE \E a \in Anns : Cancel(w, a)
    <2>1. PICK a \in Anns : Cancel(w, a)
        BY <1>2
    <2>2. /\ at' = [at EXCEPT ![w] = "cancel"] /\ todo' = [todo EXCEPT ![w] = {a}]
          /\ at[w] = "idle" /\ db[a].there /\ UNCHANGED <<db, tx, due, pushed>>
        BY <2>1, <1>1 DEF Cancel, Goto, Open
    <2>3. Working(w)'
        BY <1>1, <2>2 DEF Working, Sound
    <2>4. QED
        BY <1>1, <2>2, <2>3, StillKeeps DEF Steps
<1>3. CASE Drain(w)
    <2>1. /\ at' = [at EXCEPT ![w] = "expire"]
          /\ todo' = [todo EXCEPT ![w] = {a \in due : db[a].status \in Open}]
          /\ UNCHANGED <<db, tx, due, pushed>>
        BY <1>3 DEF Drain, Goto
    <2>2. Working(w)'
        BY <1>1, <2>1 DEF Working, Open
    <2>3. todo' \in [Workers -> SUBSET Rows]
        BY <1>1, <2>1
    <2>4. QED
        BY <1>1, <2>1, <2>2, <2>3, StillKeeps DEF Steps
<1>4. CASE Finish(w)
    <2>1. /\ at' = [at EXCEPT ![w] = "complete"]
          /\ todo' = [todo EXCEPT ![w] = {a \in Anns : See(w, a).status = "SENDING"}]
          /\ UNCHANGED <<db, tx, due, pushed>>
        BY <1>4 DEF Finish, Goto
    <2>2. \A a \in Anns : See(w, a).status = "SENDING" => db[a].there
        BY <1>1 DEF See, Sound, HeldAnns
    <2>3. Working(w)'
        BY <1>1, <2>1, <2>2 DEF Working
    <2>4. todo' \in [Workers -> SUBSET Rows]
        BY <1>1, <2>1
    <2>5. QED
        BY <1>1, <2>1, <2>3, <2>4, StillKeeps DEF Steps
<1>5. CASE Remind(w)
    <2>1. /\ at' = [at EXCEPT ![w] = "remind"]
          /\ todo' = [todo EXCEPT ![w] = {s \in Nudged : ~db[Log(s)].there}]
          /\ UNCHANGED <<db, tx, due, pushed>>
        BY <1>5 DEF Remind, Goto
    <2>2. Working(w)'
        BY <1>1, <2>1 DEF Working
    <2>3. todo' \in [Workers -> SUBSET Rows]
        BY <1>1, <2>1
    <2>4. QED
        BY <1>1, <2>1, <2>2, <2>3, StillKeeps DEF Steps
<1>6. QED
    BY <1>2, <1>3, <1>4, <1>5

\* Ending a delivery or an announcement is a value its row can have.
LEMMA AnnStatusValue ==
    ASSUME NEW a \in Anns, NEW v \in Values(a), v.there,
           NEW new \in {"SENDING", "SENT", "CANCELLED"}, NEW u, u = [v EXCEPT !.status = new]
    PROVE  u \in Values(a) /\ u.there /\ u.status = new /\ u.sent = v.sent /\ u.failed = v.failed
<1>1. v \in Ann
    BY ValuesOf
<1>2. /\ u \in Ann /\ u.there = v.there /\ u.status = new
      /\ u.sent = v.sent /\ u.failed = v.failed
    BY <1>1 DEF Ann, AnnStatus
<1>3. u \in Values(a)
    BY <1>2, ValuesOf
<1>4. QED
    BY <1>2, <1>3

LEMMA DeliveryStatusValue ==
    ASSUME NEW p \in Pairs, NEW v \in Values(p), v.there,
           NEW new \in {"GONE", "SENT", "CANCELLED"}, NEW u, u = [v EXCEPT !.status = new]
    PROVE  u \in Values(p) /\ u.there /\ u.status = new
<1>1. v \in Delivery
    BY ValuesOf
<1>2. u \in Delivery /\ u.there = v.there /\ u.status = new
    BY <1>1 DEF Delivery, DeliveryStatus
<1>3. u \in Values(p)
    BY <1>2, ValuesOf
<1>4. QED
    BY <1>2, <1>3

\* A cancellation or an expiry: the announcement and its pending deliveries end.
LEMMA EndKeeps ==
    ASSUME IInv, NEW w \in Workers, NEW a \in Anns, NEW new \in Ended, NEW V,
           V = [r \in {a} \cup {p \in {a} \X Subs : See(w, p).status = "PENDING"} |->
                  [See(w, r) EXCEPT !.status = IF r = a THEN new ELSE "CANCELLED"]],
           UNCHANGED <<db, due, pushed>>, Dirty(w) = {}, Stage(w, V), db[a].there,
           at' \in [Workers -> Steps], todo' \in [Workers -> SUBSET Rows],
           \A v \in Workers \ {w} : at'[v] = at[v] /\ todo'[v] = todo[v],
           Working(w)'
    PROVE  IInv'
<1> DEFINE pending == {p \in {a} \X Subs : See(w, p).status = "PENDING"}
<1>1. /\ DOMAIN V = {a} \cup pending
      /\ V[a] = [See(w, a) EXCEPT !.status = new]
      /\ \A p \in pending : V[p] = [See(w, p) EXCEPT !.status = "CANCELLED"]
    <2>1. a \notin pending
        BY Kinds DEF Pairs
    <2>2. QED
        BY <2>1
<1>2. /\ pending \subseteq Pairs /\ \A p \in pending : See(w, p).status = "PENDING"
      /\ \A s \in Subs : See(w, <<a, s>>).status = "PENDING" => <<a, s>> \in pending
    BY DEF Pairs
<1> HIDE DEF pending
<1>3. See(w, a).there /\ See(w, a) \in Values(a)
    BY SeeIsValue, Kinds DEF IInv, Sound, HeldAnns, See
<1>4. \A p \in pending : See(w, p).there /\ See(w, p) \in Values(p)
    BY <1>2, SeeIsValue, Kinds, ValuesOf
<1>5. V[a] \in Values(a) /\ V[a].there /\ V[a].status = new /\ V[a].sent = See(w, a).sent
    BY <1>1, <1>3, AnnStatusValue DEF Ended
<1>6. \A p \in pending : V[p] \in Values(p) /\ V[p].there /\ V[p].status = "CANCELLED"
    <2> SUFFICES ASSUME NEW p \in pending
                 PROVE  V[p] \in Values(p) /\ V[p].there /\ V[p].status = "CANCELLED"
        OBVIOUS
    <2>1. p \in Pairs /\ See(w, p) \in Values(p) /\ See(w, p).there
          /\ V[p] = [See(w, p) EXCEPT !.status = "CANCELLED"]
        BY <1>1, <1>2, <1>4
    <2>2. QED
        BY <2>1, DeliveryStatusValue
<1>7. DOMAIN V \subseteq Rows \ Logs /\ DOMAIN V \cap Anns = {a} /\ DOMAIN V \cap Pairs = pending
    BY <1>1, <1>2, Kinds
<1>8. \A s \in Subs : db[<<a, s>>].status = "PENDING" =>
         \/ <<a, s>> \in Holds(w) /\ tx[w].own[<<a, s>>].status # "PENDING"
         \/ <<a, s>> \in DOMAIN V /\ V[<<a, s>>].status = "CANCELLED"
    BY <1>1, <1>2, <1>6 DEF See
<1>9. pushed' \in [Pairs \cup Logs -> 0 .. 2] /\ UNCHANGED pushed
    BY DEF IInv, Typed
<1>10. \A r \in DOMAIN V : V[r] \in Values(r) /\ See(w, r).there
    BY <1>1, <1>3, <1>4, <1>5, <1>6
<1>11. \A p \in DOMAIN V \cap Pairs :
          /\ See(w, p).status = "PENDING" /\ V[p].there
          /\ V[p] = [See(w, p) EXCEPT !.status = "CANCELLED"]
          /\ V[p].status # "SENT"
    <2> SUFFICES ASSUME NEW p \in pending
                 PROVE  /\ See(w, p).status = "PENDING" /\ V[p].there
                        /\ V[p] = [See(w, p) EXCEPT !.status = "CANCELLED"]
                        /\ V[p].status # "SENT"
        BY <1>7
    <2>1. V[p].status = "CANCELLED" /\ V[p].there
        BY <1>6
    <2>2. QED
        BY <2>1, <1>1, <1>2
<1>12. ASSUME NEW b \in DOMAIN V \cap Anns
       PROVE  /\ V[b].there /\ V[b].sent = See(w, b).sent
              /\ \A s \in Subs : db[<<b, s>>].status = "PENDING" =>
                    \/ <<b, s>> \in Holds(w) /\ tx[w].own[<<b, s>>].status # "PENDING"
                    \/ <<b, s>> \in DOMAIN V /\ V[<<b, s>>].status = "CANCELLED"
    <2>1. b = a
        BY <1>7
    <2>2. QED
        BY <2>1, <1>5, <1>8
<1>13. Assigns(w, V)
    <2>1. \A p \in DOMAIN V \cap Pairs :
             /\ See(w, p).status = "PENDING" /\ V[p].there
             /\ \/ V[p] = [See(w, p) EXCEPT !.status = "CANCELLED"]
                \/ p \in Holds(w) /\ V[p].status \in {"PENDING", "SENT", "FAILED", "GONE"}
             /\ V[p].status = "SENT" => pushed[p] = 0 /\ pushed'[p] = 1
        BY <1>11
    <2>2. /\ \A p \in Pairs : pushed'[p] # pushed[p] => p \in DOMAIN V /\ V[p].status = "SENT"
          /\ \A l \in Logs : pushed'[l] = pushed[l]
        BY <1>9
    <2>3. UNCHANGED <<db, due>> /\ Dirty(w) = {} /\ Stage(w, V) /\ DOMAIN V \subseteq Rows \ Logs
        BY <1>7
    <2>4. \A b \in DOMAIN V \cap Anns :
             /\ V[b].there
             /\ V[b].status \in Ended =>
                   \A s \in Subs : db[<<b, s>>].status = "PENDING" =>
                      \/ <<b, s>> \in Holds(w) /\ tx[w].own[<<b, s>>].status # "PENDING"
                      \/ <<b, s>> \in DOMAIN V /\ V[<<b, s>>].status = "CANCELLED"
             /\ \/ V[b].sent = See(w, b).sent
                \/ /\ V[b].sent = See(w, b).sent + 1
                   /\ \E s \in Subs : <<b, s>> \in DOMAIN V /\ V[<<b, s>>].status = "SENT"
        BY <1>12
    <2>5. QED
        BY <2>1, <2>2, <2>3, <2>4, <1>9, <1>10 DEF Assigns
<1>14. QED
    BY <1>13, StageKeeps

LEMMA CancelPendingKeeps ==
    ASSUME IInv, NEW w \in Workers, CancelPending(w)
    PROVE  IInv'
<1>1. /\ tx[w] = Closed /\ Sound(w) /\ at[w] = "cancel"
      /\ todo[w] \subseteq Anns /\ \A a \in todo[w] : db[a].there
    BY DEF IInv, Sound, Working, CancelPending
<1>2. PICK a \in todo[w] :
         LET pending == {p \in {a} \X Subs : db[p].status = "PENDING"}
         IN Stage(w, [r \in {a} \cup pending |-> [db[r] EXCEPT !.status = "CANCELLED"]])
    BY DEF CancelPending
<1>3. Holds(w) = {} /\ Dirty(w) = {} /\ \A r : See(w, r) = db[r]
    BY <1>1 DEF Holds, Dirty, Closed, See
<1> DEFINE V == [r \in {a} \cup {p \in {a} \X Subs : See(w, p).status = "PENDING"} |->
                   [See(w, r) EXCEPT !.status = IF r = a THEN "CANCELLED" ELSE "CANCELLED"]]
<1>4. V = [r \in {a} \cup {p \in {a} \X Subs : db[p].status = "PENDING"} |->
             [db[r] EXCEPT !.status = "CANCELLED"]]
    BY <1>3
<1>5. Stage(w, V)
    BY <1>2, <1>4
<1>6. /\ at' = [at EXCEPT ![w] = "commit"] /\ todo' = [todo EXCEPT ![w] = {}]
      /\ UNCHANGED <<db, due, pushed>>
    BY DEF CancelPending, Goto
<1>7. /\ at' \in [Workers -> Steps] /\ todo' \in [Workers -> SUBSET Rows]
      /\ \A v \in Workers \ {w} : at'[v] = at[v] /\ todo'[v] = todo[v]
      /\ at'[w] = "commit"
    BY <1>6 DEF IInv, Typed, Steps
<1>8. Working(w)'
    BY <1>7 DEF Working
<1> HIDE DEF V
<1>9. a \in Anns /\ db[a].there /\ "CANCELLED" \in Ended
    BY <1>1 DEF Ended
<1>10. QED
    BY <1>3, <1>5, <1>6, <1>7, <1>8, <1>9, EndKeeps DEF V

LEMMA ExpireKeeps ==
    ASSUME IInv, NEW w \in Workers, NEW a \in Anns, Expire(w, a)
    PROVE  IInv'
<1>1. /\ at[w] = "expire" /\ a \in todo[w] /\ Dirty(w) = {} /\ Working(w)
      /\ UNCHANGED <<db, at, due, pushed>> /\ todo' = [todo EXCEPT ![w] = @ \ {a}]
    BY DEF Expire, Flushing, IInv, Sound
<1> DEFINE V == [r \in {a} \cup {p \in {a} \X Subs : See(w, p).status = "PENDING"} |->
                   [See(w, r) EXCEPT !.status = IF r = a THEN "SENT" ELSE "CANCELLED"]]
<1>2. Stage(w, V)
    BY DEF Expire
<1>3. /\ at' \in [Workers -> Steps] /\ todo' \in [Workers -> SUBSET Rows]
      /\ \A v \in Workers \ {w} : at'[v] = at[v] /\ todo'[v] = todo[v]
      /\ at'[w] = "expire" /\ todo'[w] \subseteq todo[w]
    BY <1>1 DEF IInv, Typed
<1>4. Working(w)'
    BY <1>1, <1>3 DEF Working
<1>5. db[a].there /\ "SENT" \in Ended
    BY <1>1 DEF Working, Ended
<1> HIDE DEF V
<1>6. QED
    BY <1>1, <1>2, <1>3, <1>4, <1>5, EndKeeps DEF V

\* Completing: an announcement of which w sees nothing pending.
LEMMA CompleteKeeps ==
    ASSUME IInv, NEW w \in Workers, NEW a \in Anns, Complete(w, a)
    PROVE  IInv'
<1>1. /\ at[w] = "complete" /\ a \in todo[w] /\ Dirty(w) = {} /\ Sound(w)
      /\ UNCHANGED <<db, at, due, pushed>> /\ todo' = [todo EXCEPT ![w] = @ \ {a}]
    BY DEF Complete, Flushing, IInv
<1>2. /\ at' \in [Workers -> Steps] /\ todo' \in [Workers -> SUBSET Rows]
      /\ \A v \in Workers \ {w} : at'[v] = at[v] /\ todo'[v] = todo[v]
      /\ at'[w] = "complete" /\ todo'[w] \subseteq todo[w]
    BY <1>1 DEF IInv, Typed
<1>3. Working(w)'
    BY <1>1, <1>2 DEF Sound, Working
<1>4. CASE UNCHANGED tx
    BY <1>1, <1>2, <1>3, <1>4, StillKeeps
<1>5. ASSUME Stage(w, Only(a, [See(w, a) EXCEPT !.status = "SENT"])),
             \A s \in Subs : See(w, <<a, s>>).status # "PENDING"
      PROVE  IInv'
    <2> DEFINE V == Only(a, [See(w, a) EXCEPT !.status = "SENT"])
    <2>1. DOMAIN V = {a} /\ V[a] = [See(w, a) EXCEPT !.status = "SENT"] /\ Stage(w, V)
        BY <1>5 DEF Only
    <2> HIDE DEF V
    <2>2. See(w, a) \in Values(a) /\ See(w, a).there
        BY <1>1, SeeIsValue, Kinds DEF Sound, Working, HeldAnns, See
    <2>3. V[a] \in Values(a) /\ V[a].there /\ V[a].sent = See(w, a).sent
        BY <2>1, <2>2, AnnStatusValue
    <2>4. \A s \in Subs : db[<<a, s>>].status = "PENDING" =>
             <<a, s>> \in Holds(w) /\ tx[w].own[<<a, s>>].status # "PENDING"
        BY <1>5 DEF See
    <2>5. DOMAIN V \subseteq Rows \ Logs /\ DOMAIN V \cap Anns = {a} /\ DOMAIN V \cap Pairs = {}
        BY <2>1, Kinds
    <2>6. pushed' \in [Pairs \cup Logs -> 0 .. 2] /\ UNCHANGED pushed
        BY <1>1 DEF IInv, Typed
    <2>7. \A r \in DOMAIN V : V[r] \in Values(r) /\ See(w, r).there
        BY <2>1, <2>2, <2>3
    <2>8. \A b \in DOMAIN V \cap Anns :
             /\ V[b].there /\ V[b].sent = See(w, b).sent
             /\ \A s \in Subs : db[<<b, s>>].status = "PENDING" =>
                   <<b, s>> \in Holds(w) /\ tx[w].own[<<b, s>>].status # "PENDING"
        BY <2>3, <2>4, <2>5
    <2>9. UNCHANGED <<db, due>>
        BY <1>1
    <2>10. Assigns(w, V)
        BY <1>1, <2>1, <2>5, <2>6, <2>7, <2>8, <2>9 DEF Assigns
    <2>11. QED
        BY <1>2, <1>3, <2>10, StageKeeps
<1>6. QED
    BY <1>4, <1>5 DEF Complete

\* Claiming: what was free and pending is locked as it is.
LEMMA ClaimKeeps ==
    ASSUME IInv, NEW w \in Workers, Claim(w)
    PROVE  IInv'
<1> DEFINE claimed == {p \in Pairs : FreeFor(w, p) /\ See(w, p).status = "PENDING"}
           V == [p \in claimed |-> See(w, p)]
<1>1. /\ Sound(w) /\ Session(w) /\ Dirty(w) = {} /\ UNCHANGED <<db, due, pushed>>
      /\ at' = [at EXCEPT ![w] = "deliver"] /\ todo' = [todo EXCEPT ![w] = claimed]
    BY DEF Claim, Goto, Flushing, IInv, Sound
<1>2. /\ tx'[w] = Locked(tx[w], V)
      /\ DOMAIN tx' = Workers /\ \A v \in Workers \ {w} : tx'[v] = tx[v]
    BY DEF Claim, IInv, Typed
<1>3. /\ claimed \subseteq Pairs
      /\ \A p \in claimed : FreeFor(w, p) /\ See(w, p).status = "PENDING"
      /\ DOMAIN V = claimed /\ \A p \in claimed : V[p] = See(w, p)
    OBVIOUS
<1> HIDE DEF V, claimed
<1>4. /\ tx'[w] = [own |-> tx'[w].own, dirty |-> tx'[w].dirty] /\ tx'[w].dirty = tx[w].dirty
      /\ DOMAIN tx'[w].own = DOMAIN tx[w].own \cup claimed
      /\ \A r \in claimed : tx'[w].own[r] = V[r]
      /\ \A r \in DOMAIN tx[w].own \ claimed : tx'[w].own[r] = tx[w].own[r]
    <2>1. tx[w] = [own |-> tx[w].own, dirty |-> tx[w].dirty]
        BY <1>1 DEF Session
    <2>2. QED
        BY <1>2, <1>3, <2>1, LockEffect
<1>5. /\ Holds(w)' = Holds(w) \cup claimed /\ Dirty(w)' = {}
      /\ \A r \in Holds(w)' : tx'[w].own[r] = See(w, r)
      /\ \A r \in Holds(w) : tx'[w].own[r] = tx[w].own[r]
    BY <1>1, <1>3, <1>4 DEF Holds, Dirty, See
<1>6. \A p \in claimed : /\ See(w, p).there /\ See(w, p) \in Values(p)
                         /\ p \notin Holds(w) => db[p].status = "PENDING" /\ db[p].there
    BY <1>3, SeeIsValue, Kinds, ValuesOf DEF See
<1>7. Session(w)'
    <2>1. Holds(w)' \subseteq Rows /\ Dirty(w)' \subseteq Rows \ Logs
        BY <1>1, <1>3, <1>5, Kinds DEF Session
    <2>2. QED
        BY <2>1, <1>4, <1>5, SeeIsValue DEF Session
<1>8. Working(w)'
    <2>1. at'[w] = "deliver" /\ todo'[w] = claimed
        BY <1>1 DEF IInv, Typed
    <2>2. QED
        BY <2>1, <1>3, <1>5 DEF Working
<1>9. HeldAnns(w)' /\ HeldLogs(w)'
    <2>1. \A r \in Anns \cup Logs : r \notin claimed
        BY <1>3, Kinds
    <2>2. QED
        BY <2>1, <1>1, <1>5 DEF Sound, HeldAnns, HeldLogs
<1>10. HeldPairs(w)'
    <2>1. ASSUME NEW p \in Pairs \cap Holds(w)'
          PROVE  /\ tx'[w].own[p].there /\ db[p].there
                 /\ tx'[w].own[p].status = "CANCELLED" \/ db[p].status = "PENDING"
        <3>1. CASE p \in Holds(w)
            BY <3>1, <1>1, <1>5 DEF Sound, HeldPairs
        <3>2. CASE p \notin Holds(w)
            BY <3>2, <1>5, <1>6
        <3>3. QED
            BY <3>1, <3>2
    <2>2. QED
        BY <2>1, <1>1, <1>5 DEF HeldPairs
<1>11. Closes(w)'
    <2>1. \A a \in Anns : a \in Holds(w)' => a \in Holds(w)
        BY <1>3, <1>5, Kinds
    <2>2. QED
        BY <2>1, <1>1, <1>5 DEF Sound, Closes
<1>12. \A p \in Pairs : p \in SentBy(w)' <=> p \in SentBy(w)
    <2> SUFFICES ASSUME NEW p \in Pairs PROVE p \in SentBy(w)' <=> p \in SentBy(w)
        OBVIOUS
    <2>1. p \in SentBy(w) <=> p \in Holds(w) /\ tx[w].own[p].status = "SENT"
        BY <1>1 DEF SentBy
    <2>2. p \in SentBy(w)' <=> p \in Holds(w)' /\ tx'[w].own[p].status = "SENT"
        BY <1>5 DEF SentBy
    <2>3. QED
        BY <2>1, <2>2, <1>3, <1>5
<1>13. SentBy(w)' = SentBy(w)
    <2>1. SentBy(w) \subseteq Pairs /\ SentBy(w)' \subseteq Pairs
        BY DEF SentBy
    <2>2. QED
        BY <2>1, <1>12
<1>14. SendsPending(w)'
    BY <1>1, <1>13 DEF Sound, SendsPending
<1>15. CountsSent(w)'
    <2>1. \A a \in Anns : a \in Holds(w)' => a \in Holds(w)
        BY <1>3, <1>5, Kinds
    <2>2. \A a : Kept(a)' = Kept(a) /\ Told(w, a)' = Told(w, a)
        BY <1>1, <1>13 DEF Kept, Told
    <2>3. QED
        BY <2>1, <2>2, <1>1, <1>5 DEF Sound, CountsSent
<1>16. Sound(w)'
    BY <1>7, <1>8, <1>9, <1>10, <1>11, <1>14, <1>15 DEF Sound
<1>17. /\ at' \in [Workers -> Steps] /\ todo' \in [Workers -> SUBSET Rows]
       /\ \A v \in Workers \ {w} : at'[v] = at[v] /\ todo'[v] = todo[v]
       /\ pushed' \in [Pairs \cup Logs -> 0 .. 2]
    BY <1>1, <1>3, Kinds DEF IInv, Typed, Steps
<1>18. QED
    BY <1>1, <1>2, <1>3, <1>5, <1>13, <1>16, <1>17, LocalKeeps

\* What an answer makes of the three rows of a delivery that is pending.
LEMMA OutcomeEffect ==
    ASSUME NEW a \in Ann, NEW s \in Sub, NEW d \in Delivery, NEW outcome,
           s.failures < MaxFailures, d.attempts < MaxAttempts, d.status = "PENDING"
    PROVE  LET o == Outcome(a, s, d, outcome)
           IN /\ o[1] \in Ann /\ o[1].there = a.there /\ o[1].status = a.status
              /\ o[1].sent = IF outcome = "sent" THEN a.sent + 1 ELSE a.sent
              /\ o[2] \in Sub /\ (o[2].there => o[2].failures < MaxFailures)
              /\ o[3] \in Delivery /\ o[3].there = d.there
              /\ o[3].status \in {"PENDING", "SENT", "FAILED", "GONE"}
              /\ o[3].status = "SENT" <=> outcome = "sent"
              /\ o[3].status = "PENDING" => o[3].attempts < MaxAttempts
<1> USE PushAssumption
<1>1. CASE outcome = "sent"
    BY <1>1 DEF Outcome, Ann, Sub, Delivery, DeliveryStatus
<1>2. CASE outcome = "gone"
    BY <1>2 DEF Outcome, Ann, Sub, Delivery, DeliveryStatus
<1>3. CASE outcome # "sent" /\ outcome # "gone"
    <2> DEFINE tries == d.attempts + 1
               failures == s.failures + 1
               over == outcome = "invalid" \/ tries >= MaxAttempts \/ failures >= MaxFailures
               x == IF over THEN [a EXCEPT !.failed = @ + 1] ELSE a
               y == [s EXCEPT !.failures = failures, !.there = failures < MaxFailures]
               z == [d EXCEPT !.attempts = tries, !.status = IF over THEN "FAILED" ELSE "PENDING"]
    <2>1. Outcome(a, s, d, outcome) = <<x, y, z>>
        BY <1>3 DEF Outcome
    <2>2. tries \in 0 .. MaxAttempts /\ failures \in 0 .. MaxFailures
        BY DEF Sub, Delivery
    <2> HIDE DEF tries, failures
    <2>3. x \in Ann /\ x.there = a.there /\ x.status = a.status /\ x.sent = a.sent
        BY DEF Ann
    <2>4. y \in Sub /\ (y.there => y.failures < MaxFailures)
        <3>1. CASE failures < MaxFailures
            <4>1. y = [s EXCEPT !.failures = failures, !.there = TRUE]
                BY <3>1
            <4>2. QED
                BY <2>2, <3>1, <4>1 DEF Sub
        <3>2. CASE ~(failures < MaxFailures)
            <4>1. (failures < MaxFailures) = FALSE
                BY <3>2
            <4>1a. y = [s EXCEPT !.failures = failures, !.there = FALSE]
                BY <4>1
            <4>2. QED
                BY <2>2, <4>1a DEF Sub
        <3>3. QED
            BY <3>1, <3>2
    <2>5. /\ z \in Delivery /\ z.there = d.there /\ z.status \in {"FAILED", "PENDING"}
          /\ z.status = "PENDING" => z.attempts < MaxAttempts
        <3>1. CASE over
            <4>1. z = [d EXCEPT !.attempts = tries, !.status = "FAILED"]
                BY <3>1
            <4>2. QED
                BY <2>2, <4>1 DEF Delivery, DeliveryStatus
        <3>2. CASE ~over
            <4>1. z = [d EXCEPT !.attempts = tries, !.status = "PENDING"] /\ tries < MaxAttempts
                BY <2>2, <3>2
            <4>2. QED
                BY <2>2, <4>1 DEF Delivery, DeliveryStatus
        <3>3. QED
            BY <3>1, <3>2
    <2> HIDE DEF x, y, z
    <2>6. QED
        BY <1>3, <2>1, <2>3, <2>4, <2>5
<1>4. QED
    BY <1>1, <1>2, <1>3

\* Who sends has claimed.
LEMMA SentIsHeld ==
    ASSUME IInv, NEW v \in Workers, NEW p \in SentBy(v)
    PROVE  p \in Pairs /\ p \in Holds(v)
<1>1. p \in Pairs /\ Sound(v) /\ Session(v)
    BY DEF SentBy, IInv, Sound
<1>2. CASE p \in Dirty(v) /\ tx[v].dirty[p].assigned.status = "SENT"
    <2>1. tx[v].dirty[p].loaded \in Delivery
        BY <1>1, <1>2, ValuesOf DEF Session
    <2>2. \/ tx[v].dirty[p].assigned = [tx[v].dirty[p].loaded EXCEPT !.status = "CANCELLED"]
          \/ p \in Holds(v)
        BY <1>1, <1>2 DEF Sound, HeldPairs
    <2>3. QED
        BY <1>1, <1>2, <2>1, <2>2 DEF Delivery
<1>3. QED
    BY <1>1, <1>2 DEF SentBy

\* A claimed delivery was not pushed yet.
LEMMA ClaimedIsUnpushed ==
    ASSUME IInv, NEW w \in Workers, NEW p \in Pairs \cap Holds(w),
           tx[w].own[p].status = "PENDING", p \notin Dirty(w)
    PROVE  db[p].status = "PENDING" /\ pushed[p] = 0
<1>1. db[p].status = "PENDING"
    BY DEF IInv, Sound, HeldPairs
<1>2. ASSUME NEW v \in Workers, p \in SentBy(v) PROVE FALSE
    <2>1. v # w
        BY <1>2 DEF SentBy
    <2>2. QED
        BY <1>2, <2>1, SentIsHeld DEF IInv, Locks
<1>3. pushed[p] \in {0, 1} /\ ~(pushed[p] > 0)
    BY <1>1, <1>2 DEF IInv, Pushes, Ended
<1>4. QED
    BY <1>1, <1>3

\* One delivery.
LEMMA DeliverKeeps ==
    ASSUME IInv, NEW w \in Workers, NEW a \in Anns, NEW s \in Subs, Deliver(w, <<a, s>>)
    PROVE  IInv'
<1> DEFINE p == <<a, s>>
           sending == [See(w, a) EXCEPT !.status = "SENDING"]
<1>1. p \in Pairs /\ p[1] = a /\ p[2] = s /\ a # s /\ a # p /\ s # p
    <2>1. p \in Pairs /\ p[1] = a /\ p[2] = s
        BY DEF Pairs
    <2>2. QED
        BY <2>1, Kinds
<1>2. /\ at[w] = "deliver" /\ p \in todo[w] /\ Dirty(w) = {} /\ Sound(w)
      /\ UNCHANGED <<db, at, due>> /\ todo' = [todo EXCEPT ![w] = @ \ {p}]
    BY DEF Deliver, Flushing, IInv
<1>3. /\ \/ See(w, a).status \notin Open /\ UNCHANGED <<tx, pushed>>
         \/ /\ See(w, a).status \in Open /\ ~See(w, s).there /\ UNCHANGED pushed
            /\ Stage(w, [r \in {a, p} |-> IF r = a THEN sending
                                          ELSE [See(w, p) EXCEPT !.status = "GONE"]])
         \/ /\ See(w, a).status \in Open /\ See(w, s).there
            /\ \E outcome \in Answers :
                 LET after == Outcome(sending, See(w, s), See(w, p), outcome)
                 IN /\ Stage(w, [r \in {a, s, p} |-> IF r = a THEN after[1]
                                                     ELSE IF r = s THEN after[2] ELSE after[3]])
                    /\ Push(p, outcome)
    BY <1>1 DEF Deliver
<1>4. /\ p \in Holds(w) /\ See(w, p) = tx[w].own[p] /\ See(w, p).status = "PENDING"
      /\ db[p].status = "PENDING" /\ pushed[p] = 0
    BY <1>1, <1>2, ClaimedIsUnpushed DEF Sound, Working, See
<1> HIDE DEF p
<1>5. /\ See(w, a) \in Values(a) /\ See(w, s) \in Values(s) /\ See(w, p) \in Values(p)
      /\ See(w, p).there
    BY <1>1, <1>4, SeeIsValue, Kinds, ValuesOf
<1>6. /\ at' \in [Workers -> Steps] /\ todo' \in [Workers -> SUBSET Rows]
      /\ \A v \in Workers \ {w} : at'[v] = at[v] /\ todo'[v] = todo[v]
      /\ at'[w] = "deliver" /\ todo'[w] = todo[w] \ {p}
      /\ \A q \in todo[w] : q \in Pairs /\ q \in Holds(w) /\ tx[w].own[q].status = "PENDING"
    BY <1>2 DEF IInv, Typed, Sound, Working
<1>7. ASSUME See(w, a).status \in Open
      PROVE  /\ See(w, a).there /\ sending \in Values(a) /\ sending.there
             /\ sending.status = "SENDING" /\ sending.sent = See(w, a).sent
    <2>1. See(w, a).there
        BY <1>5, <1>7, ValuesOf DEF Open
    <2>2. QED
        BY <1>5, <2>1, AnnStatusValue
<1> HIDE DEF sending
<1>8. ASSUME NEW V, Stage(w, V), DOMAIN V \subseteq {a, s, p} PROVE Working(w)'
    <2>1. /\ tx'[w].own = tx[w].own /\ Holds(w)' = Holds(w)
          /\ Dirty(w)' \subseteq DOMAIN V
        BY <1>2, <1>8, StageEffect
    <2>2. \A q \in todo[w] \ {p} : q \notin Dirty(w)'
        BY <1>6, <1>8, <2>1, Kinds
    <2>3. QED
        BY <1>6, <2>1, <2>2 DEF Working
<1>9. CASE See(w, a).status \notin Open /\ UNCHANGED <<tx, pushed>>
    <2>1. Dirty(w)' = {} /\ Holds(w)' = Holds(w)
        BY <1>2, <1>9 DEF Dirty, Holds
    <2>2. Working(w)'
        BY <1>6, <1>9, <2>1 DEF Working
    <2>3. QED
        BY <1>2, <1>6, <1>9, <2>2, StillKeeps
<1>10. ASSUME See(w, a).status \in Open, UNCHANGED pushed,
              Stage(w, [r \in {a, p} |-> IF r = a THEN sending
                                         ELSE [See(w, p) EXCEPT !.status = "GONE"]])
       PROVE  IInv'
    <2> DEFINE V == [r \in {a, p} |-> IF r = a THEN sending
                                      ELSE [See(w, p) EXCEPT !.status = "GONE"]]
    <2>1. DOMAIN V = {a, p} /\ V[a] = sending /\ V[p] = [See(w, p) EXCEPT !.status = "GONE"]
        BY <1>1
    <2>2. Stage(w, V)
        BY <1>10
    <2> HIDE DEF V
    <2>3. V[p] \in Values(p) /\ V[p].there /\ V[p].status = "GONE"
        BY <1>1, <1>5, <2>1, DeliveryStatusValue
    <2>4. DOMAIN V \subseteq Rows \ Logs /\ DOMAIN V \cap Anns = {a} /\ DOMAIN V \cap Pairs = {p}
        BY <1>1, <2>1, Kinds
    <2>5. pushed' \in [Pairs \cup Logs -> 0 .. 2]
        BY <1>10 DEF IInv, Typed
    <2>6. /\ \A r \in DOMAIN V : V[r] \in Values(r) /\ See(w, r).there
          /\ \A b \in DOMAIN V \cap Anns :
                V[b].there /\ V[b].status \notin Ended /\ V[b].sent = See(w, b).sent
          /\ \A q \in DOMAIN V \cap Pairs : /\ See(w, q).status = "PENDING" /\ V[q].there
                                            /\ q \in Holds(w) /\ V[q].status = "GONE"
        BY <1>4, <1>5, <1>7, <1>10, <2>1, <2>3, <2>4 DEF Ended
    <2>7. Assigns(w, V)
        BY <1>2, <1>10, <2>2, <2>4, <2>5, <2>6 DEF Assigns
    <2>8. Working(w)'
        BY <1>8, <2>1, <2>2
    <2>9. QED
        BY <1>6, <2>7, <2>8, StageKeeps
<1>11. ASSUME See(w, a).status \in Open, See(w, s).there, NEW outcome \in Answers,
              LET after == Outcome(sending, See(w, s), See(w, p), outcome)
              IN Stage(w, [r \in {a, s, p} |-> IF r = a THEN after[1]
                                               ELSE IF r = s THEN after[2] ELSE after[3]]),
              Push(p, outcome)
       PROVE  IInv'
    <2> DEFINE after == Outcome(sending, See(w, s), See(w, p), outcome)
               V == [r \in {a, s, p} |-> IF r = a THEN after[1]
                                         ELSE IF r = s THEN after[2] ELSE after[3]]
    <2>1. Stage(w, V)
        BY <1>11
    <2>2. /\ sending \in Ann /\ See(w, s) \in Sub /\ See(w, p) \in Delivery
          /\ See(w, s).failures < MaxFailures /\ See(w, p).attempts < MaxAttempts
        BY <1>1, <1>4, <1>5, <1>7, <1>11, ValuesOf
    <2>3. /\ after[1] \in Ann /\ after[1].there = sending.there /\ after[1].status = sending.status
          /\ after[1].sent = IF outcome = "sent" THEN sending.sent + 1 ELSE sending.sent
          /\ after[2] \in Sub /\ (after[2].there => after[2].failures < MaxFailures)
          /\ after[3] \in Delivery /\ after[3].there = See(w, p).there
          /\ after[3].status \in {"PENDING", "SENT", "FAILED", "GONE"}
          /\ after[3].status = "SENT" <=> outcome = "sent"
          /\ after[3].status = "PENDING" => after[3].attempts < MaxAttempts
        BY <1>4, <2>2, OutcomeEffect
    <2> HIDE DEF after
    <2>4. DOMAIN V = {a, s, p} /\ V[a] = after[1] /\ V[s] = after[2] /\ V[p] = after[3]
        BY <1>1
    <2> HIDE DEF V
    <2>5. V[a] \in Values(a) /\ V[a].there /\ V[a].status = "SENDING"
        BY <1>7, <1>11, <2>3, <2>4, ValuesOf
    <2>6. V[s] \in Values(s)
        BY <2>3, <2>4, ValuesOf
    <2>7. V[p] \in Values(p) /\ V[p].there
        BY <1>1, <1>5, <2>3, <2>4, ValuesOf
    <2>8. DOMAIN V \subseteq Rows \ Logs /\ DOMAIN V \cap Anns = {a} /\ DOMAIN V \cap Pairs = {p}
        BY <1>1, <2>4, Kinds
    <2>9. /\ pushed' \in [Pairs \cup Logs -> 0 .. 2]
          /\ outcome = "sent" => pushed'[p] = 1
          /\ \A q \in Pairs \cup Logs : pushed'[q] # pushed[q] => q = p /\ outcome = "sent"
        BY <1>1, <1>4, <1>11 DEF Push, IInv, Typed
    <2>10. \A r \in DOMAIN V : V[r] \in Values(r) /\ See(w, r).there
        BY <1>5, <1>7, <1>11, <2>4, <2>5, <2>6, <2>7
    <2>11. /\ V[a].there /\ V[a].status \notin Ended
           /\ \/ V[a].sent = See(w, a).sent
              \/ /\ V[a].sent = See(w, a).sent + 1
                 /\ \E t \in Subs : <<a, t>> \in DOMAIN V /\ V[<<a, t>>].status = "SENT"
        BY <1>7, <1>11, <2>3, <2>4, <2>5 DEF Ended, p
    <2>12. \A b \in DOMAIN V \cap Anns :
              /\ V[b].there
              /\ V[b].status \in Ended =>
                    \A t \in Subs : db[<<b, t>>].status = "PENDING" =>
                       \/ <<b, t>> \in Holds(w) /\ tx[w].own[<<b, t>>].status # "PENDING"
                       \/ <<b, t>> \in DOMAIN V /\ V[<<b, t>>].status = "CANCELLED"
              /\ \/ V[b].sent = See(w, b).sent
                 \/ /\ V[b].sent = See(w, b).sent + 1
                    /\ \E t \in Subs : <<b, t>> \in DOMAIN V /\ V[<<b, t>>].status = "SENT"
        <3> SUFFICES ASSUME NEW b \in DOMAIN V \cap Anns
                     PROVE  /\ V[b].there /\ V[b].status \notin Ended
                            /\ \/ V[b].sent = See(w, b).sent
                               \/ /\ V[b].sent = See(w, b).sent + 1
                                  /\ \E t \in Subs : <<b, t>> \in DOMAIN V /\ V[<<b, t>>].status = "SENT"
            OBVIOUS
        <3>1. b = a
            BY <2>8
        <3>2. QED
            BY <3>1, <2>11
    <2>13. \A q \in DOMAIN V \cap Pairs :
              /\ See(w, q).status = "PENDING" /\ V[q].there /\ q \in Holds(w)
              /\ V[q].status \in {"PENDING", "SENT", "FAILED", "GONE"}
              /\ V[q].status = "SENT" => pushed[q] = 0 /\ pushed'[q] = 1
        BY <1>4, <2>3, <2>4, <2>7, <2>8, <2>9
    <2>14. /\ \A q \in Pairs : pushed'[q] # pushed[q] => q \in DOMAIN V /\ V[q].status = "SENT"
           /\ \A l \in Logs : pushed'[l] = pushed[l]
        BY <1>1, <2>3, <2>4, <2>9, Kinds
    <2>15. Assigns(w, V)
        BY <1>2, <2>1, <2>8, <2>9, <2>10, <2>12, <2>13, <2>14 DEF Assigns
    <2>16. Working(w)'
        BY <1>8, <2>1, <2>4
    <2>17. QED
        BY <1>6, <2>15, <2>16, StageKeeps
<1>12. QED
    BY <1>3, <1>9, <1>10, <1>11

\* One student of a reminder run.
LEMMA RemindOneKeeps ==
    ASSUME IInv, NEW w \in Workers, NEW s \in Nudged, RemindOne(w, s)
    PROVE  IInv'
<1> DEFINE l == Log(s)
           claimed == Locked(tx[w], Only(l, [there |-> TRUE]))
           gone == [See(w, s) EXCEPT !.there = FALSE]
<1>1. /\ Sound(w) /\ Session(w) /\ Dirty(w) = {} /\ UNCHANGED <<db, at, due>>
      /\ at[w] = "remind" /\ s \in todo[w] /\ FreeFor(w, l)
      /\ todo' = [todo EXCEPT ![w] = @ \ {s}]
      /\ tx[w] = [own |-> tx[w].own, dirty |-> tx[w].dirty]
    BY DEF RemindOne, Flushing, IInv, Sound, Session
<1>2. /\ s \in Subs /\ l \in Logs /\ l \in Rows /\ s \in Rows /\ s # l
      /\ \A r \in Anns \cup Pairs : r # s /\ r # l
      /\ s \notin Logs
    BY Kinds, PushAssumption DEF Logs
<1>3. /\ at' \in [Workers -> Steps] /\ todo' \in [Workers -> SUBSET Rows]
      /\ \A v \in Workers \ {w} : at'[v] = at[v] /\ todo'[v] = todo[v]
      /\ at'[w] = "remind" /\ todo'[w] \subseteq todo[w]
      /\ pushed \in [Pairs \cup Logs -> 0 .. 2]
    BY <1>1 DEF IInv, Typed
<1>4. Working(w)'
    BY <1>1, <1>3 DEF Sound, Working
<1>5. CASE UNCHANGED <<tx, pushed>>
    BY <1>1, <1>3, <1>4, <1>5, StillKeeps
<1>6. CASE /\ ~See(w, l).there
           /\ \/ tx' = [tx EXCEPT ![w] = claimed] /\ UNCHANGED pushed
              \/ /\ See(w, s).there
                 /\ \E outcome \in Answers :
                      /\ tx' = [tx EXCEPT ![w] =
                                  IF outcome = "gone"
                                  THEN Assign(claimed, Only(s, See(w, s)), Only(s, gone))
                                  ELSE claimed]
                      /\ Push(l, outcome)
    <2>1. l \notin Holds(w) /\ ~db[l].there /\ pushed[l] = 0
        <3>1. l \notin Holds(w) /\ ~db[l].there
            BY <1>1, <1>2, <1>6 DEF See, Sound, HeldLogs
        <3>2. \A v \in Workers : l \notin Holds(v)
            BY <1>1, <3>1 DEF FreeFor
        <3>3. pushed[l] \in {0, 1} /\ ~(pushed[l] > 0)
            BY <1>2, <3>1, <3>2 DEF IInv, Pushes
        <3>4. QED
            BY <3>1, <3>3
    <2>2. /\ pushed' \in [Pairs \cup Logs -> 0 .. 2] /\ pushed'[l] \in {0, 1}
          /\ \A q \in Pairs \cup Logs : q # l => pushed'[q] = pushed[q]
        BY <1>2, <1>3, <1>6, <2>1 DEF Push
    <2>3. /\ claimed = [own |-> claimed.own, dirty |-> claimed.dirty] /\ claimed.dirty = tx[w].dirty
          /\ DOMAIN claimed.own = Holds(w) \cup {l}
          /\ claimed.own[l] = [there |-> TRUE]
          /\ \A r \in Holds(w) : claimed.own[r] = tx[w].own[r]
        <3>1. DOMAIN Only(l, [there |-> TRUE]) = {l} /\ Only(l, [there |-> TRUE])[l] = [there |-> TRUE]
            BY DEF Only
        <3>2. QED
            BY <1>1, <2>1, <3>1, LockEffect DEF Holds
    <2> HIDE DEF claimed
    <2>4. /\ DOMAIN tx' = Workers /\ \A v \in Workers \ {w} : tx'[v] = tx[v]
          /\ \/ tx'[w] = claimed
             \/ See(w, s).there /\ tx'[w] = Assign(claimed, Only(s, See(w, s)), Only(s, gone))
        BY <1>6 DEF IInv, Typed
    <2>5. See(w, s) \in Sub /\ gone \in Sub /\ ~gone.there /\ gone \in Values(s)
        <3>1. See(w, s) \in Sub
            BY <1>2, SeeIsValue, ValuesOf
        <3>2. gone \in Sub /\ ~gone.there
            BY <3>1 DEF Sub
        <3> HIDE DEF gone
        <3>3. QED
            BY <1>2, <3>1, <3>2, ValuesOf
    <2>6. /\ tx'[w] = [own |-> tx'[w].own, dirty |-> tx'[w].dirty] /\ tx'[w].own = claimed.own
          /\ \/ DOMAIN tx'[w].dirty = {}
             \/ /\ DOMAIN tx'[w].dirty = {s} /\ See(w, s).there
                /\ tx'[w].dirty[s].loaded = See(w, s) /\ tx'[w].dirty[s].assigned = gone
        <3>1. CASE tx'[w] = claimed
            BY <1>1, <2>3, <3>1 DEF Dirty
        <3>2. CASE See(w, s).there /\ tx'[w] = Assign(claimed, Only(s, See(w, s)), Only(s, gone))
            <4>1. gone # See(w, s)
                BY <2>5, <3>2
            <4>2. DOMAIN claimed.dirty = {}
                BY <1>1, <2>3 DEF Dirty
            <4> HIDE DEF gone
            <4>3. /\ tx'[w] = [own |-> tx'[w].own, dirty |-> tx'[w].dirty]
                  /\ tx'[w].own = claimed.own /\ DOMAIN tx'[w].dirty = {s}
                  /\ tx'[w].dirty[s].loaded = See(w, s) /\ tx'[w].dirty[s].assigned = gone
                BY <2>3, <3>2, <4>1, <4>2, AssignOneEffect
            <4>4. QED
                BY <3>2, <4>3
        <3>3. QED
            BY <2>4, <3>1, <3>2
    <2> HIDE DEF gone
    <2>7. /\ Holds(w)' = Holds(w) \cup {l} /\ tx'[w].own[l] = [there |-> TRUE]
          /\ \A r \in Holds(w) : tx'[w].own[r] = tx[w].own[r]
          /\ Dirty(w)' \subseteq {s}
          /\ s \in Dirty(w)' => /\ See(w, s).there
                                /\ tx'[w].dirty[s].loaded = See(w, s)
                                /\ tx'[w].dirty[s].assigned = gone
        BY <2>3, <2>6 DEF Holds, Dirty
    <2>8. /\ \A r \in Anns \cup Pairs : (r \in Holds(w)' <=> r \in Holds(w)) /\ r \notin Dirty(w)'
          /\ \A r \in Anns \cup Pairs : r \in Holds(w) => tx'[w].own[r] = tx[w].own[r]
        BY <1>2, <2>7
    <2>9. Session(w)'
        <3>1. [there |-> TRUE] \in Values(l)
            BY <1>2, ValuesOf DEF ReminderLog
        <3>2. See(w, s) \in Values(s)
            BY <1>2, SeeIsValue
        <3>3. QED
            BY <1>1, <1>2, <2>5, <2>6, <2>7, <3>1, <3>2 DEF Session
    <2>10. HeldAnns(w)' /\ HeldPairs(w)'
        BY <1>1, <2>8 DEF Sound, HeldAnns, HeldPairs
    <2>11. HeldLogs(w)'
        BY <1>1, <2>1, <2>7 DEF Sound, HeldLogs
    <2>12. Closes(w)'
        <3>1. \A a \in Anns, t \in Subs : <<a, t>> \in Pairs
            BY DEF Pairs
        <3>2. QED
            BY <1>1, <2>8, <3>1 DEF Sound, Closes
    <2>13. SentBy(w)' = SentBy(w)
        <3>1. SentBy(w) \subseteq Pairs /\ SentBy(w)' \subseteq Pairs
            BY DEF SentBy
        <3>2. ASSUME NEW p \in Pairs PROVE p \in SentBy(w)' <=> p \in SentBy(w)
            <4>1. p \in SentBy(w) <=> p \in Holds(w) /\ tx[w].own[p].status = "SENT"
                BY <1>1 DEF SentBy
            <4>2. p \in SentBy(w)' <=> p \in Holds(w)' /\ tx'[w].own[p].status = "SENT"
                BY <2>8 DEF SentBy
            <4>3. QED
                BY <4>1, <4>2, <2>8
        <3>3. QED
            BY <3>1, <3>2
    <2>14. \A p \in Pairs : pushed'[p] = pushed[p]
        BY <1>2, <2>2
    <2>15. SendsPending(w)'
        <3>1. \A p \in SentBy(w) : p \in Pairs /\ pushed[p] = 1 /\ db[p].status = "PENDING"
            BY <1>1 DEF Sound, SendsPending, SentBy
        <3>2. QED
            BY <1>1, <2>13, <2>14, <3>1 DEF SendsPending
    <2>16. CountsSent(w)'
        <3>1. \A a \in Anns : Kept(a)' = Kept(a) /\ Told(w, a)' = Told(w, a)
            BY <1>1, <2>13, <2>14 DEF Kept, Told, Pairs
        <3>2. QED
            BY <1>1, <2>8, <3>1 DEF Sound, CountsSent
    <2>17. Sound(w)'
        BY <1>4, <2>9, <2>10, <2>11, <2>12, <2>15, <2>16 DEF Sound
    <2>18. /\ \A k \in Logs : pushed'[k] # pushed[k] =>
                 pushed[k] = 0 /\ pushed'[k] = 1 /\ k \in Holds(w)'
           /\ \A r \in Holds(w)' \ Holds(w) : FreeFor(w, r)
        BY <1>1, <2>1, <2>2, <2>7
    <2>19. QED
        BY <1>1, <1>3, <2>2, <2>4, <2>7, <2>13, <2>14, <2>17, <2>18, LocalKeeps
<1>7. QED
    BY <1>5, <1>6 DEF RemindOne

-----------------------------------------------------------------------------
(* Steps that change what is stored *)

\* A transaction goes on as before when nobody writes what it holds, announcements
\* stay, deliveries become pending only with their announcement, and what was sent
\* stays so.
LEMMA OthersKeep ==
    ASSUME IInv, NEW W \in SUBSET Workers,
           \A v \in W : tx'[v] = tx[v] /\ at'[v] = at[v] /\ todo'[v] = todo[v],
           \A v \in W : \A r \in Holds(v) : db'[r] = db[r],
           \A a \in Anns : db[a].there => db'[a].there,
           \A a \in Anns, s \in Subs :
              db'[<<a, s>>].status = "PENDING" => db[<<a, s>>].status = "PENDING" \/ ~db[a].there,
           \A a \in Anns : Kept(a) \subseteq Kept(a)',
           \A v \in W : \A p \in SentBy(v) : pushed'[p] = pushed[p]
    PROVE  \A v \in W : Sound(v)' /\ Holds(v)' = Holds(v) /\ SentBy(v)' = SentBy(v)
<1> SUFFICES ASSUME NEW v \in W
             PROVE  Sound(v)' /\ Holds(v)' = Holds(v) /\ SentBy(v)' = SentBy(v)
    OBVIOUS
<1>1. /\ v \in Workers /\ Sound(v) /\ tx'[v] = tx[v] /\ at'[v] = at[v] /\ todo'[v] = todo[v]
      /\ \A r \in Holds(v) : db'[r] = db[r]
    BY DEF IInv
<1>2. /\ Holds(v)' = Holds(v) /\ Dirty(v)' = Dirty(v) /\ SentBy(v)' = SentBy(v)
      /\ \A a : Told(v, a)' = Told(v, a)
    BY <1>1 DEF Holds, Dirty, SentBy, Told
<1>3. Session(v)'
    BY <1>1, <1>2 DEF Sound, Session
<1>4. Working(v)'
    BY <1>1, <1>2 DEF Sound, Working
<1>5. HeldAnns(v)' /\ HeldPairs(v)' /\ HeldLogs(v)'
    BY <1>1, <1>2 DEF Sound, HeldAnns, HeldPairs, HeldLogs
<1>6. Closes(v)'
    <2> SUFFICES ASSUME NEW a \in Anns, NEW s \in Subs, db'[<<a, s>>].status = "PENDING",
                        \/ a \in Holds(v) /\ tx[v].own[a].status \in Ended
                        \/ a \in Dirty(v) /\ tx[v].dirty[a].assigned.status \in Ended
                 PROVE  \/ <<a, s>> \in Holds(v) /\ tx[v].own[<<a, s>>].status # "PENDING"
                        \/ <<a, s>> \in Dirty(v) /\ tx[v].dirty[<<a, s>>].assigned.status = "CANCELLED"
        BY <1>1, <1>2 DEF Closes
    <2>1. db[a].there
        BY <1>1 DEF Sound, HeldAnns
    <2>2. QED
        BY <2>1, <1>1 DEF Sound, Closes
<1>7. SendsPending(v)'
    <2>1. \A p \in SentBy(v) : pushed'[p] = 1 /\ db'[p].status = "PENDING"
        BY <1>1, SentIsHeld DEF Sound, SendsPending
    <2>2. QED
        BY <2>1, <1>2 DEF SendsPending
<1>8. CountsSent(v)'
    <2> SUFFICES ASSUME NEW a \in Anns
                 PROVE  /\ a \in Holds(v) =>
                              tx[v].own[a].sent <= Cardinality(Kept(a)' \cup Told(v, a))
                        /\ a \in Dirty(v) =>
                              tx[v].dirty[a].assigned.sent <= Cardinality(Kept(a)' \cup Told(v, a))
        BY <1>1, <1>2 DEF CountsSent
    <2>1. /\ Kept(a) \cup Told(v, a) \subseteq Kept(a)' \cup Told(v, a)
          /\ Kept(a)' \cup Told(v, a) \subseteq Subs
        BY DEF Kept, Told
    <2>2. /\ Cardinality(Kept(a) \cup Told(v, a)) <= Cardinality(Kept(a)' \cup Told(v, a))
          /\ Cardinality(Kept(a) \cup Told(v, a)) \in Nat
          /\ Cardinality(Kept(a)' \cup Told(v, a)) \in Nat
        BY <2>1, Counted
    <2>3. /\ a \in Holds(v) => tx[v].own[a].sent \in Nat
          /\ a \in Dirty(v) => tx[v].dirty[a].assigned.sent \in Nat
        BY <1>1, ValuesOf DEF Sound, Session, Ann
    <2>4. QED
        BY <2>2, <2>3, <1>1 DEF Sound, CountsSent
<1>9. QED
    BY <1>2, <1>3, <1>4, <1>5, <1>6, <1>7, <1>8 DEF Sound

\* A step that stores nothing but subscriptions nobody holds.
LEMMA SubsKeep ==
    ASSUME IInv, UNCHANGED <<tx, at, todo, pushed>>, due' \subseteq Anns,
           DOMAIN db' = Rows, \A r \in Anns \cup Pairs \cup Logs : db'[r] = db[r],
           \A s \in Subs : db'[s] \in Values(s),
           \A w \in Workers : \A r \in Holds(w) : db'[r] = db[r]
    PROVE  IInv'
<1>1. \A a \in Anns, s \in Subs : <<a, s>> \in Pairs
    BY DEF Pairs
<1>2. \A a \in Anns : Kept(a)' = Kept(a)
    BY <1>1 DEF Kept
<1>3. \A w \in Workers : Sound(w)' /\ Holds(w)' = Holds(w) /\ SentBy(w)' = SentBy(w)
    BY <1>1, <1>2, OthersKeep
<1>4. Typed'
    <2>1. \A r \in Rows : db'[r] \in Values(r)
        BY PushAssumption DEF IInv, Typed
    <2>2. QED
        BY <2>1 DEF IInv, Typed
<1>5. Locks' /\ Deliveries' /\ Counts'
    BY <1>1, <1>2, <1>3 DEF IInv, Locks, Deliveries, Counts
<1>6. Pushes'
    BY <1>3 DEF IInv, Pushes
<1>7. QED
    BY <1>3, <1>4, <1>5, <1>6 DEF IInv

LEMMA ExpiresKeeps ==
    ASSUME IInv, NEW a \in Anns, Expires(a)
    PROVE  IInv'
<1>1. UNCHANGED <<db, tx, at, todo, pushed>> /\ due' \subseteq Anns
    BY DEF Expires, IInv, Typed
<1>2. QED
    BY <1>1, Kinds, SubsKeep DEF IInv, Typed

LEMMA UnsubscribeKeeps ==
    ASSUME IInv, NEW s \in Subs, Unsubscribe(s)
    PROVE  IInv'
<1>1. /\ UNCHANGED <<tx, at, todo, due, pushed>> /\ \A w \in Workers : s \notin Holds(w)
      /\ db' = [db EXCEPT ![s].there = FALSE] /\ due \subseteq Anns
      /\ DOMAIN db = Rows /\ s \in Rows
    BY Kinds DEF Unsubscribe, IInv, Typed
<1>2. DOMAIN db' = Rows /\ \A r \in Rows \ {s} : db'[r] = db[r]
    BY <1>1
<1>3. db'[s] \in Values(s)
    <2>1. db[s] \in Sub /\ db'[s] = [db[s] EXCEPT !.there = FALSE]
        BY <1>1, ValuesOf DEF IInv, Typed
    <2>2. db'[s] \in Sub /\ ~db'[s].there
        BY <2>1 DEF Sub
    <2>3. QED
        BY <2>2, ValuesOf
<1>4. \A w \in Workers : \A r \in Holds(w) : r \in Rows \ {s}
    BY <1>1 DEF IInv, Sound, Session
<1>5. \A r \in Anns \cup Pairs \cup Logs : r \in Rows \ {s}
    BY Kinds
<1>6. \A t \in Subs : db'[t] \in Values(t)
    BY <1>2, <1>3, Kinds DEF IInv, Typed
<1>7. QED
    BY <1>1, <1>2, <1>4, <1>5, <1>6, SubsKeep

\* A new announcement has no deliveries yet.
LEMMA CreateKeeps ==
    ASSUME IInv, NEW a \in Anns, Create(a)
    PROVE  IInv'
<1> DEFINE mine == {<<a, s>> : s \in Subs}
<1>1. PICK audience \in SUBSET Subs :
          db' = [r \in Rows |->
                   IF r = a THEN [db[a] EXCEPT !.there = TRUE,
                                    !.status = IF audience = {} THEN "SENT" ELSE "QUEUED"]
                   ELSE IF r \in {<<a, s>> : s \in audience}
                        THEN [db[r] EXCEPT !.there = TRUE, !.status = "PENDING"]
                   ELSE db[r]]
    BY DEF Create
<1>2. ~db[a].there /\ UNCHANGED <<tx, at, todo, due, pushed>>
    BY DEF Create
<1>3. /\ \A b \in Anns, s \in Subs : <<b, s>> \in Pairs
      /\ \A b \in Anns, s \in Subs : <<b, s>> \in mine => b = a
      /\ \A s \in Subs : <<a, s>> \in mine
      /\ a \notin mine /\ mine \subseteq Pairs
    <2>1. \A b \in Anns, s \in Subs : <<b, s>> \in Pairs
        BY DEF Pairs
    <2>2. QED
        BY <2>1, Kinds
<1>4. \A p \in mine : ~db[p].there /\ db[p].status = "NONE" /\ db[p] \in Delivery
    <2>1. \A p \in mine : db[p] \in Delivery /\ (db[p].there <=> db[p].status # "NONE")
        BY <1>3, Kinds, ValuesOf DEF IInv, Typed
    <2>2. \A s \in Subs : ~db[<<a, s>>].there
        BY <1>2 DEF IInv, Deliveries
    <2>3. QED
        BY <2>1, <2>2
<1>5. /\ DOMAIN db' = Rows /\ \A r \in Rows \ (mine \cup {a}) : db'[r] = db[r]
      /\ db'[a] = [db[a] EXCEPT !.there = TRUE,
                                !.status = IF audience = {} THEN "SENT" ELSE "QUEUED"]
      /\ \A p \in mine : \/ db'[p] = db[p]
                         \/ audience # {} /\ db'[p] = [db[p] EXCEPT !.there = TRUE, !.status = "PENDING"]
    BY <1>1, <1>3, Kinds
<1>6. /\ db'[a] \in Values(a) /\ db'[a].there /\ db'[a].sent = db[a].sent
      /\ db'[a].status \in {"SENT", "QUEUED"} /\ (audience # {} => db'[a].status = "QUEUED")
    <2>1. db[a] \in Ann
        BY Kinds, ValuesOf DEF IInv, Typed
    <2>2. db'[a] \in Ann
        BY <1>5, <2>1 DEF Ann, AnnStatus
    <2>3. /\ db'[a].there /\ db'[a].sent = db[a].sent
          /\ db'[a].status = IF audience = {} THEN "SENT" ELSE "QUEUED"
        BY <1>5, <2>1 DEF Ann
    <2>4. QED
        BY <2>2, <2>3, ValuesOf
<1>7. \A p \in mine : /\ db'[p] \in Values(p)
                      /\ db'[p].status = "PENDING" => audience # {}
                      /\ db'[p].there => db'[p].status = "PENDING"
    <2> SUFFICES ASSUME NEW p \in mine
                 PROVE  /\ db'[p] \in Values(p)
                        /\ db'[p].status = "PENDING" => audience # {}
                        /\ db'[p].there => db'[p].status = "PENDING"
        OBVIOUS
    <2> HIDE DEF mine
    <2>1. p \in Pairs /\ p \in Rows /\ db[p] \in Delivery /\ ~db[p].there /\ db[p].status = "NONE"
        BY <1>3, <1>4, Kinds
    <2>2. CASE db'[p] = db[p]
        BY <2>1, <2>2 DEF IInv, Typed
    <2>3. CASE audience # {} /\ db'[p] = [db[p] EXCEPT !.there = TRUE, !.status = "PENDING"]
        <3>1. db[p].attempts < MaxAttempts
            BY <2>1, ValuesOf DEF IInv, Typed
        <3>2. /\ db'[p] \in Delivery /\ db'[p].there /\ db'[p].status = "PENDING"
              /\ db'[p].attempts = db[p].attempts
            BY <2>1, <2>3 DEF Delivery, DeliveryStatus
        <3>3. QED
            BY <2>1, <2>3, <3>1, <3>2, ValuesOf
    <2>4. QED
        BY <1>5, <2>2, <2>3
<1> HIDE DEF mine
<1>8. \A w \in Workers : \A r \in Holds(w) : r \in Rows \ (mine \cup {a}) /\ db'[r] = db[r]
    <2> SUFFICES ASSUME NEW w \in Workers, NEW r \in Holds(w) PROVE r \in Rows \ (mine \cup {a})
        BY <1>5
    <2>1. Sound(w) /\ r \in Rows
        BY DEF IInv, Sound, Session
    <2>2. r # a
        BY <1>2, <2>1 DEF Sound, HeldAnns
    <2>3. r \notin mine
        BY <1>3, <1>4, <2>1 DEF Sound, HeldPairs
    <2>4. QED
        BY <2>1, <2>2, <2>3
<1>9. \A p \in mine : pushed[p] = 0
    <2> SUFFICES ASSUME NEW p \in mine PROVE pushed[p] = 0
        OBVIOUS
    <2>1. \A w \in Workers : p \notin SentBy(w)
        BY <1>8, SentIsHeld
    <2>2. p \in Pairs /\ db[p].status = "NONE"
        BY <1>3, <1>4
    <2>3. pushed[p] \in {0, 1} /\ ~(pushed[p] > 0)
        BY <2>1, <2>2 DEF IInv, Pushes, Ended
    <2>4. QED
        BY <2>3
<1>10. \A b \in Anns, s \in Subs :
          \/ b = a /\ <<b, s>> \in mine
          \/ b # a /\ <<b, s>> \notin mine /\ db'[<<b, s>>] = db[<<b, s>>] /\ db'[b] = db[b]
    <2> SUFFICES ASSUME NEW b \in Anns, NEW s \in Subs, b # a
                 PROVE  <<b, s>> \notin mine /\ db'[<<b, s>>] = db[<<b, s>>] /\ db'[b] = db[b]
        BY <1>3
    <2>1. <<b, s>> \in Rows \ (mine \cup {a}) /\ b \in Rows \ (mine \cup {a})
        BY <1>3, Kinds
    <2>2. QED
        BY <2>1, <1>5
<1>11. \A b \in Anns : Kept(b) \subseteq Kept(b)'
    <2>1. \A b \in Anns : \A s \in Kept(b) : b # a
        BY <1>3, <1>9 DEF Kept
    <2>2. QED
        BY <2>1, <1>2, <1>10 DEF Kept
<1>11a. \A b \in Anns : db[b].there => db'[b].there
    BY <1>3, <1>5, <1>6, Kinds
<1>11b. \A b \in Anns, s \in Subs :
           db'[<<b, s>>].status = "PENDING" => db[<<b, s>>].status = "PENDING" \/ ~db[b].there
    BY <1>2, <1>10
<1>12. \A w \in Workers : Sound(w)' /\ Holds(w)' = Holds(w) /\ SentBy(w)' = SentBy(w)
    BY <1>2, <1>8, <1>11, <1>11a, <1>11b, OthersKeep
<1>13. Typed'
    <2>1. \A r \in Rows : db'[r] \in Values(r)
        BY <1>5, <1>6, <1>7 DEF IInv, Typed
    <2>2. QED
        BY <2>1, <1>2, <1>5 DEF IInv, Typed
<1>14. Deliveries'
    <2> SUFFICES ASSUME NEW b \in Anns, NEW s \in Subs
                 PROVE  /\ db'[<<b, s>>].there => db'[b].there
                        /\ db'[<<b, s>>].status = "PENDING" => db'[b].status \in Open
        BY DEF Deliveries
    <2>1. CASE b = a
        BY <2>1, <1>3, <1>6, <1>7 DEF Open
    <2>2. CASE b # a
        BY <2>2, <1>10 DEF IInv, Deliveries
    <2>3. QED
        BY <2>1, <2>2
<1>15. Pushes'
    <2>1. ASSUME NEW p \in Pairs, pushed[p] > 0 PROVE db'[p] = db[p]
        <3>1. p \notin mine
            BY <2>1, <1>9
        <3>2. p \in Rows \ (mine \cup {a})
            BY <3>1, Kinds
        <3>3. QED
            BY <3>2, <1>5
    <2>2. \A l \in Logs : db'[l] = db[l]
        BY <1>3, <1>5, Kinds
    <2>3. QED
        BY <2>1, <2>2, <1>2, <1>12 DEF IInv, Pushes
<1>16. Counts'
    <2> SUFFICES ASSUME NEW b \in Anns PROVE db'[b].sent <= Cardinality(Kept(b)')
        BY DEF Counts
    <2>1. /\ Cardinality(Kept(b)) \in Nat /\ Cardinality(Kept(b)') \in Nat
          /\ Cardinality(Kept(b)) <= Cardinality(Kept(b)')
        <3>1. Kept(b)' \in SUBSET Subs /\ Kept(b) \in SUBSET Kept(b)'
            BY <1>11 DEF Kept
        <3>2. QED
            BY <3>1, Counted
    <2>2. db[b].sent \in Nat /\ db[b].sent <= Cardinality(Kept(b))
        <3>1. db[b] \in Ann
            BY Kinds, ValuesOf DEF IInv, Typed
        <3>2. QED
            BY <3>1 DEF IInv, Counts, Ann
    <2>3. db'[b].sent = db[b].sent
        BY <1>3, <1>5, <1>6, Kinds
    <2>4. QED
        BY <2>1, <2>2, <2>3
<1>17. Locks'
    BY <1>12 DEF IInv, Locks
<1>18. QED
    BY <1>12, <1>13, <1>14, <1>15, <1>16, <1>17 DEF IInv

\* A commit writes what the transaction holds: of deliveries, ends of those that
\* were pending; of announcements, ends only with those of their deliveries.
LEMMA CommitKeeps ==
    ASSUME IInv, NEW w \in Workers, Commit(w)
    PROVE  IInv'
<1> DEFINE others == Workers \ {w}
<1>1. /\ Sound(w) /\ Session(w) /\ Dirty(w) = {} /\ UNCHANGED <<due, pushed>>
      /\ db' = [r \in Rows |-> See(w, r)]
      /\ at' = [at EXCEPT ![w] = "idle"] /\ todo' = [todo EXCEPT ![w] = {}]
      /\ tx'[w] = Closed /\ DOMAIN tx' = Workers /\ \A v \in others : tx'[v] = tx[v]
      /\ \A v \in others : at'[v] = at[v] /\ todo'[v] = todo[v]
      /\ at'[w] = "idle"
    BY DEF Commit, Goto, Flushing, CommittedBy, IInv, Sound, Typed
<1>2. /\ DOMAIN db' = Rows /\ Holds(w) \subseteq Rows
      /\ \A r \in Holds(w) : db'[r] = tx[w].own[r]
      /\ \A r \in Rows \ Holds(w) : db'[r] = db[r]
    BY <1>1 DEF See, Session
<1>3. /\ \A a \in Anns, s \in Subs : <<a, s>> \in Pairs
      /\ \A r \in Anns \cup Pairs \cup Logs : r \in Rows
    BY Kinds DEF Pairs
<1>4. \A v \in others : \A r \in Holds(v) : r \in Rows /\ r \notin Holds(w) /\ db'[r] = db[r]
    BY <1>2 DEF IInv, Locks, Sound, Session
<1>5. \A a \in Anns : db[a].there => db'[a].there
    BY <1>1, <1>2, <1>3 DEF Sound, HeldAnns
<1>6. \A p \in Pairs : /\ db'[p].status = "PENDING" => db[p].status = "PENDING"
                       /\ db'[p].there => db[p].there
    <2> SUFFICES ASSUME NEW p \in Pairs
                 PROVE  /\ db'[p].status = "PENDING" => db[p].status = "PENDING"
                        /\ db'[p].there => db[p].there
        OBVIOUS
    <2>1. CASE p \in Holds(w)
        BY <2>1, <1>1, <1>2 DEF Sound, HeldPairs
    <2>2. CASE p \notin Holds(w)
        BY <2>2, <1>2, <1>3
    <2>3. QED
        BY <2>1, <2>2
<1>7. \A p \in SentBy(w) : p \in Pairs /\ db'[p].status = "SENT" /\ pushed[p] = 1
    BY <1>1, <1>2 DEF SentBy, Sound, SendsPending
<1>8. \A a \in Anns : Kept(a) \cup Told(w, a) \subseteq Kept(a)'
    BY <1>1, <1>3, <1>6, <1>7 DEF Kept, Told
<1>9. \A v \in others : Sound(v)' /\ Holds(v)' = Holds(v) /\ SentBy(v)' = SentBy(v)
    <2>1. others \in SUBSET Workers
        OBVIOUS
    <2>2. \A a \in Anns : Kept(a) \subseteq Kept(a)'
        BY <1>8
    <2>3. \A a \in Anns, s \in Subs :
             db'[<<a, s>>].status = "PENDING" => db[<<a, s>>].status = "PENDING" \/ ~db[a].there
        BY <1>3, <1>6
    <2> HIDE DEF others
    <2>4. QED
        BY <1>1, <1>4, <1>5, <2>1, <2>2, <2>3, OthersKeep
<1>10. Holds(w)' = {} /\ Dirty(w)' = {} /\ SentBy(w)' = {}
    BY <1>1 DEF Holds, Dirty, SentBy, Closed
<1>11. Sound(w)'
    <2>1. Session(w)'
        BY <1>1, <1>10 DEF Session, Closed
    <2>2. Working(w)'
        BY <1>1 DEF Working
    <2>3. HeldAnns(w)' /\ HeldPairs(w)' /\ HeldLogs(w)'
        BY <1>10 DEF HeldAnns, HeldPairs, HeldLogs
    <2>4. Closes(w)' /\ SendsPending(w)' /\ CountsSent(w)'
        BY <1>10 DEF Closes, SendsPending, CountsSent
    <2>5. QED
        BY <2>1, <2>2, <2>3, <2>4 DEF Sound
<1>12. Typed'
    <2>1. \A r \in Rows : db'[r] \in Values(r)
        BY <1>1, SeeIsValue
    <2>2. /\ at' \in [Workers -> Steps] /\ todo' \in [Workers -> SUBSET Rows]
          /\ due' \subseteq Anns /\ pushed' \in [Pairs \cup Logs -> 0 .. 2]
        BY <1>1 DEF IInv, Typed, Steps
    <2>3. QED
        BY <1>1, <1>2, <2>1, <2>2 DEF Typed
<1>13. Locks'
    BY <1>9, <1>10 DEF IInv, Locks
<1>14. Deliveries'
    <2> SUFFICES ASSUME NEW a \in Anns, NEW s \in Subs
                 PROVE  /\ db'[<<a, s>>].there => db'[a].there
                        /\ db'[<<a, s>>].status = "PENDING" => db'[a].status \in Open
        BY DEF Deliveries
    <2>1. db'[<<a, s>>].there => db'[a].there
        BY <1>3, <1>5, <1>6 DEF IInv, Deliveries
    <2>2. ASSUME db'[<<a, s>>].status = "PENDING" PROVE db'[a].status \in Open
        <3>1. db[<<a, s>>].status = "PENDING" /\ db[a].status \in Open
            BY <1>3, <1>6, <2>2 DEF IInv, Deliveries
        <3>2. CASE a \notin Holds(w)
            BY <1>2, <1>3, <3>1, <3>2
        <3>3. CASE a \in Holds(w)
            <4>1. db'[a] = tx[w].own[a] /\ tx[w].own[a].there
                BY <1>1, <1>2, <3>3 DEF Sound, HeldAnns
            <4>2. tx[w].own[a] \in Ann /\ tx[w].own[a].status # "NONE"
                BY <1>1, <3>3, <4>1, ValuesOf DEF Session
            <4>3. tx[w].own[a].status \notin Ended
                <5>1. <<a, s>> \in Holds(w) => tx[w].own[<<a, s>>].status = "PENDING"
                    BY <1>2, <2>2
                <5>2. QED
                    BY <5>1, <3>1, <3>3, <1>1 DEF Sound, Closes
            <4>4. QED
                BY <4>1, <4>2, <4>3 DEF Ann, AnnStatus, Ended, Open
        <3>4. QED
            BY <3>2, <3>3
    <2>3. QED
        BY <2>1, <2>2
<1>15. Pushes'
    <2>1. ASSUME NEW p \in Pairs, pushed[p] > 0
          PROVE  db'[p].status \in Ended \/ \E v \in Workers : p \in SentBy(v)'
        <3>1. CASE db[p].status \in Ended
            <4>1. CASE p \in Holds(w)
                <5>1. tx[w].own[p].status = "CANCELLED"
                    BY <1>1, <3>1, <4>1 DEF Sound, HeldPairs, Ended
                <5>2. QED
                    BY <5>1, <4>1, <1>2 DEF Ended
            <4>2. CASE p \notin Holds(w)
                BY <1>2, <1>3, <3>1, <4>2
            <4>3. QED
                BY <4>1, <4>2
        <3>2. CASE p \in SentBy(w)
            BY <1>7, <3>2 DEF Ended
        <3>3. CASE \E v \in others : p \in SentBy(v)
            BY <1>9, <3>3
        <3>4. QED
            BY <2>1, <3>1, <3>2, <3>3 DEF IInv, Pushes
    <2>2. ASSUME NEW l \in Logs, pushed[l] > 0
          PROVE  db'[l].there \/ \E v \in Workers : l \in Holds(v)'
        <3>1. CASE l \in Holds(w)
            BY <1>1, <1>2, <3>1 DEF Sound, HeldLogs
        <3>2. CASE l \notin Holds(w)
            BY <2>2, <3>2, <1>2, <1>3, <1>9 DEF IInv, Pushes
        <3>3. QED
            BY <3>1, <3>2
    <2>3. QED
        BY <2>1, <2>2, <1>1 DEF IInv, Pushes
<1>16. Counts'
    <2> SUFFICES ASSUME NEW a \in Anns PROVE db'[a].sent <= Cardinality(Kept(a)')
        BY DEF Counts
    <2>1. Kept(a)' \in SUBSET Subs /\ Kept(a) \cup Told(w, a) \in SUBSET Kept(a)'
        BY <1>8 DEF Kept
    <2>2. /\ Cardinality(Kept(a)') \in Nat /\ Cardinality(Kept(a) \cup Told(w, a)) \in Nat
          /\ Cardinality(Kept(a) \cup Told(w, a)) <= Cardinality(Kept(a)')
        BY <2>1, Counted
    <2>3. See(w, a).sent \in Nat /\ See(w, a).sent <= Cardinality(Kept(a) \cup Told(w, a))
        BY SeeIsCounted
    <2>4. db'[a] = See(w, a)
        BY <1>1, <1>3
    <2>5. QED
        BY <2>2, <2>3, <2>4
<1>17. QED
    BY <1>9, <1>11, <1>12, <1>13, <1>14, <1>15, <1>16 DEF IInv

\* What a transaction that is rolled back has sent was pending, and is so again.
LEMMA RollbackKeeps ==
    ASSUME IInv, NEW w \in Workers, Rollback(w)
    PROVE  IInv'
<1> DEFINE others == Workers \ {w}
<1>1. /\ Sound(w) /\ Session(w) /\ UNCHANGED <<db, due>>
      /\ at' = [at EXCEPT ![w] = "idle"] /\ todo' = [todo EXCEPT ![w] = {}]
      /\ tx'[w] = Closed /\ DOMAIN tx' = Workers /\ \A v \in others : tx'[v] = tx[v]
      /\ \A v \in others : at'[v] = at[v] /\ todo'[v] = todo[v]
      /\ at'[w] = "idle"
      /\ pushed' = [p \in DOMAIN pushed |-> IF p \in Accepted(w) THEN pushed[p] - 1 ELSE pushed[p]]
      /\ pushed \in [Pairs \cup Logs -> 0 .. 2]
    BY DEF Rollback, Goto, IInv, Sound, Typed
<1>2. /\ \A a \in Anns, s \in Subs : <<a, s>> \in Pairs
      /\ \A p \in Pairs : p \notin Logs
    BY Kinds DEF Pairs
<1>3. /\ \A p \in Pairs : p \in Accepted(w) <=> p \in SentBy(w)
      /\ \A l \in Logs : l \in Accepted(w) <=> l \in Holds(w) /\ pushed[l] > 0
    BY <1>2 DEF Accepted, SentBy
<1>4. \A p \in SentBy(w) : p \in Pairs /\ p \in Holds(w) /\ pushed[p] = 1 /\ db[p].status = "PENDING"
    BY <1>1, SentIsHeld DEF Sound, SendsPending
<1>5. /\ \A p \in Pairs : pushed'[p] = IF p \in SentBy(w) THEN 0 ELSE pushed[p]
      /\ \A l \in Logs : pushed'[l] = IF l \in Holds(w) THEN 0 ELSE pushed[l]
    <2>1. \A p \in Pairs \cup Logs : pushed[p] \in {0, 1}
        BY DEF IInv, Pushes
    <2>2. ASSUME NEW p \in Pairs
          PROVE  pushed'[p] = IF p \in SentBy(w) THEN 0 ELSE pushed[p]
        BY <1>1, <1>3, <1>4
    <2>3. ASSUME NEW l \in Logs
          PROVE  pushed'[l] = IF l \in Holds(w) THEN 0 ELSE pushed[l]
        <3>1. CASE l \in Accepted(w)
            BY <1>1, <1>3, <2>1, <3>1
        <3>2. CASE l \notin Accepted(w)
            BY <1>1, <1>3, <2>1, <3>2
        <3>3. QED
            BY <3>1, <3>2
    <2>4. QED
        BY <2>2, <2>3
<1>6. \A a \in Anns : Kept(a)' = Kept(a)
    BY <1>1, <1>2, <1>4, <1>5 DEF Kept
<1>7. \A v \in others : Sound(v)' /\ Holds(v)' = Holds(v) /\ SentBy(v)' = SentBy(v)
    <2>1. \A v \in others : \A p \in SentBy(v) : pushed'[p] = pushed[p]
        <3>1. \A v \in others : \A p \in SentBy(v) : p \in Pairs /\ p \in Holds(v)
            BY SentIsHeld
        <3>2. QED
            BY <3>1, <1>4, <1>5 DEF IInv, Locks
    <2>2. others \in SUBSET Workers
        OBVIOUS
    <2> HIDE DEF others
    <2>3. QED
        BY <1>1, <1>6, <2>1, <2>2, OthersKeep
<1>8. Holds(w)' = {} /\ Dirty(w)' = {} /\ SentBy(w)' = {}
    BY <1>1 DEF Holds, Dirty, SentBy, Closed
<1>9. Sound(w)'
    <2>1. Session(w)'
        BY <1>1, <1>8 DEF Session, Closed
    <2>2. Working(w)'
        BY <1>1 DEF Working
    <2>3. HeldAnns(w)' /\ HeldPairs(w)' /\ HeldLogs(w)'
        BY <1>8 DEF HeldAnns, HeldPairs, HeldLogs
    <2>4. Closes(w)' /\ SendsPending(w)' /\ CountsSent(w)'
        BY <1>8 DEF Closes, SendsPending, CountsSent
    <2>5. QED
        BY <2>1, <2>2, <2>3, <2>4 DEF Sound
<1>10. Typed'
    <2>1. pushed' \in [Pairs \cup Logs -> 0 .. 2]
        BY <1>1, <1>5
    <2>2. QED
        BY <2>1, <1>1 DEF IInv, Typed, Steps
<1>11. Locks' /\ Deliveries' /\ Counts'
    BY <1>1, <1>6, <1>7, <1>8 DEF IInv, Locks, Deliveries, Counts
<1>12. Pushes'
    <2>1. ASSUME NEW p \in Pairs, pushed'[p] > 0
          PROVE  db'[p].status \in Ended \/ \E v \in Workers : p \in SentBy(v)'
        <3>1. p \notin SentBy(w) /\ pushed[p] > 0
            BY <2>1, <1>5
        <3>2. db[p].status \in Ended \/ \E v \in others : p \in SentBy(v)
            BY <3>1 DEF IInv, Pushes
        <3>3. QED
            BY <3>2, <1>1, <1>7
    <2>2. ASSUME NEW l \in Logs, pushed'[l] > 0
          PROVE  db'[l].there \/ \E v \in Workers : l \in Holds(v)'
        <3>1. l \notin Holds(w) /\ pushed[l] > 0
            BY <2>2, <1>5
        <3>2. db[l].there \/ \E v \in others : l \in Holds(v)
            BY <3>1 DEF IInv, Pushes
        <3>3. QED
            BY <3>2, <1>1, <1>7
    <2>3. \A p \in Pairs \cup Logs : pushed'[p] \in {0, 1}
        BY <1>5 DEF IInv, Pushes
    <2>4. QED
        BY <2>1, <2>2, <2>3 DEF Pushes
<1>13. QED
    BY <1>7, <1>9, <1>10, <1>11, <1>12 DEF IInv

-----------------------------------------------------------------------------
(* The invariant *)

LEMMA InitIsSound == Init => IInv
<1> SUFFICES ASSUME Init PROVE IInv
    OBVIOUS
<1>1. \A w \in Workers : tx[w] = Closed /\ at[w] = "idle" /\ todo[w] = {}
    BY DEF Init
<1>2. ASSUME NEW w \in Workers PROVE Holds(w) = {} /\ Dirty(w) = {} /\ SentBy(w) = {}
    <2>1. Holds(w) = {} /\ Dirty(w) = {}
        BY <1>1 DEF Holds, Dirty, Closed
    <2>2. QED
        BY <2>1 DEF SentBy
<1>3. /\ DOMAIN db = Rows
      /\ \A a \in Anns : db[a] = [there |-> FALSE, status |-> "NONE", sent |-> 0, failed |-> 0]
      /\ \A s \in Subs : db[s] = [there |-> TRUE, failures |-> 0]
      /\ \A p \in Pairs : db[p] = [there |-> FALSE, status |-> "NONE", attempts |-> 0]
      /\ \A l \in Logs : db[l] = [there |-> FALSE]
    BY Kinds DEF Init
<1>4. \A p \in Pairs \cup Logs : pushed[p] = 0
    BY DEF Init
<1>5. Typed
    <2>1. \A a \in Anns : db[a] \in Values(a)
        <3> DEFINE v == [there |-> FALSE, status |-> "NONE", sent |-> 0, failed |-> 0]
        <3>1. v \in Ann /\ ~v.there /\ v.status = "NONE" /\ \A a \in Anns : db[a] = v
            BY <1>3 DEF Ann, AnnStatus
        <3> HIDE DEF v
        <3>2. QED
            BY <3>1, ValuesOf
    <2>2. \A s \in Subs : db[s] \in Values(s)
        <3> DEFINE v == [there |-> TRUE, failures |-> 0]
        <3>1. v \in Sub /\ v.failures < MaxFailures /\ \A s \in Subs : db[s] = v
            BY <1>3, PushAssumption DEF Sub
        <3> HIDE DEF v
        <3>2. QED
            BY <3>1, ValuesOf
    <2>3. \A p \in Pairs : db[p] \in Values(p)
        <3> DEFINE v == [there |-> FALSE, status |-> "NONE", attempts |-> 0]
        <3>1. /\ v \in Delivery /\ ~v.there /\ v.status = "NONE" /\ v.attempts < MaxAttempts
              /\ \A p \in Pairs : db[p] = v
            BY <1>3, PushAssumption DEF Delivery, DeliveryStatus
        <3> HIDE DEF v
        <3>2. QED
            BY <3>1, ValuesOf
    <2>4. \A l \in Logs : db[l] \in Values(l)
        BY <1>3, ValuesOf DEF ReminderLog
    <2>5. \A r \in Rows : db[r] \in Values(r)
        BY <2>1, <2>2, <2>3, <2>4, PushAssumption
    <2>6. QED
        BY <1>3, <2>5 DEF Typed, Init, Steps
<1>6. Locks /\ Pushes
    BY <1>2, <1>4 DEF Locks, Pushes
<1>7. Deliveries
    <2>1. \A a \in Anns, s \in Subs : <<a, s>> \in Pairs
        BY DEF Pairs
    <2>2. \A p \in Pairs : ~db[p].there /\ db[p].status # "PENDING"
        BY <1>3
    <2>3. QED
        BY <2>1, <2>2 DEF Deliveries
<1>8. Counts
    <2> SUFFICES ASSUME NEW a \in Anns PROVE db[a].sent <= Cardinality(Kept(a))
        BY DEF Counts
    <2>1. Cardinality(Kept(a)) \in Nat
        <3>1. Kept(a) \in SUBSET Subs
            BY DEF Kept
        <3>2. QED
            BY <3>1, Counted
    <2>2. QED
        BY <1>3, <2>1
<1>9. ASSUME NEW w \in Workers PROVE Sound(w)
    <2>1. Session(w)
        BY <1>1, <1>2 DEF Session, Closed
    <2>2. Working(w)
        BY <1>1 DEF Working
    <2>3. HeldAnns(w) /\ HeldPairs(w) /\ HeldLogs(w)
        BY <1>2 DEF HeldAnns, HeldPairs, HeldLogs
    <2>4. Closes(w) /\ SendsPending(w) /\ CountsSent(w)
        BY <1>2 DEF Closes, SendsPending, CountsSent
    <2>5. QED
        BY <2>1, <2>2, <2>3, <2>4 DEF Sound
<1>10. QED
    BY <1>5, <1>6, <1>7, <1>8, <1>9 DEF IInv

LEMMA StutterKeeps == IInv /\ UNCHANGED vars => IInv'
<1> SUFFICES ASSUME IInv, UNCHANGED vars PROVE IInv'
    OBVIOUS
<1>1. /\ UNCHANGED <<db, tx, at, todo, due, pushed>>
      /\ due \subseteq Anns /\ DOMAIN db = Rows /\ \A r \in Rows : db[r] \in Values(r)
    BY DEF vars, IInv, Typed
<1>2. QED
    BY <1>1, Kinds, SubsKeep

LEMMA NextKeeps == IInv /\ [Next]_vars => IInv'
<1> SUFFICES ASSUME IInv, [Next]_vars PROVE IInv'
    OBVIOUS
<1>1. CASE \E a \in Anns : Create(a) \/ Expires(a)
    BY <1>1, CreateKeeps, ExpiresKeeps
<1>2. CASE \E s \in Subs : Unsubscribe(s)
    BY <1>2, UnsubscribeKeeps
<1>3. ASSUME NEW w \in Workers,
             (\E a \in Anns : Cancel(w, a)) \/ Drain(w) \/ Remind(w) \/ Work(w) \/ Rollback(w)
      PROVE  IInv'
    <2>1. CASE (\E a \in Anns : Cancel(w, a)) \/ Drain(w) \/ Remind(w) \/ Finish(w)
        BY <2>1, BeginKeeps
    <2>2. CASE Rollback(w)
        BY <2>2, RollbackKeeps
    <2>3. CASE \E r \in Rows : Flush(w, r)
        BY <2>3, FlushKeeps
    <2>4. CASE CancelPending(w)
        BY <2>4, CancelPendingKeeps
    <2>5. CASE Claim(w)
        BY <2>5, ClaimKeeps
    <2>6. CASE Commit(w)
        BY <2>6, CommitKeeps
    <2>7. CASE \E a \in Anns : Expire(w, a) \/ Complete(w, a)
        BY <2>7, ExpireKeeps, CompleteKeeps
    <2>8. CASE \E p \in Pairs : Deliver(w, p)
        <3>1. PICK a \in Anns, s \in Subs : Deliver(w, <<a, s>>)
            BY <2>8 DEF Pairs
        <3>2. QED
            BY <3>1, DeliverKeeps
    <2>9. CASE \E s \in Nudged : RemindOne(w, s)
        BY <2>9, RemindOneKeeps
    <2>10. QED
        BY <1>3, <2>1, <2>2, <2>3, <2>4, <2>5, <2>6, <2>7, <2>8, <2>9 DEF Work
<1>4. CASE UNCHANGED vars
    BY <1>4, StutterKeeps
<1>5. QED
    BY <1>1, <1>2, <1>3, <1>4 DEF Next

\* The invariant is inductive: what every transaction holds fits what is stored.
THEOREM PushInvariant == Spec => []IInv
<1>1. Init => IInv
    BY InitIsSound
<1>2. IInv /\ [Next]_vars => IInv'
    BY NextKeeps
<1>3. QED
    BY <1>1, <1>2, PTL DEF Spec

\* Announcements, deliveries, subscriptions and log entries stay what the tables
\* allow, whatever drains, cancellations and reminders interleave: attempts and
\* failures within their limits among them.
THEOREM PushTyped == Spec => []TypeOK
<1>1. IInv => TypeOK
    <2> SUFFICES ASSUME IInv PROVE TypeOK
        OBVIOUS
    <2>1. /\ \A a \in Anns : db[a] \in Ann
          /\ \A p \in Pairs : db[p] \in Delivery
          /\ \A s \in Subs : db[s] \in Sub
          /\ \A l \in Logs : db[l] \in ReminderLog
        BY Kinds, ValuesOf DEF IInv, Typed
    <2>2. QED
        BY <2>1 DEF TypeOK, IInv, Typed
<1>2. QED
    BY <1>1, PushInvariant, PTL

\* No device is pushed twice for an announcement and no student reminded twice, an
\* announcement that is over strands no delivery, and its count of the sent is not
\* inflated: for any number of drains, cancellations and reminder runs at once.
THEOREM PushIsSafe == Spec => []PushSafe
<1>1. IInv => PushSafe
    <2> SUFFICES ASSUME IInv PROVE PushSafe
        OBVIOUS
    <2>1. PushedOnce /\ RemindedOnce
        BY DEF IInv, Pushes, PushedOnce, RemindedOnce
    <2>2. NothingStranded
        BY DEF IInv, Deliveries, NothingStranded, Open
    <2>3. SentNotInflated
        <3> SUFFICES ASSUME NEW a \in Anns
                     PROVE  db[a].sent <= Cardinality({s \in Subs : pushed[<<a, s>>] > 0})
            BY DEF SentNotInflated
        <3> DEFINE reached == {s \in Subs : pushed[<<a, s>>] > 0}
        <3>1. reached \in SUBSET Subs /\ Kept(a) \in SUBSET reached
            BY DEF Kept
        <3> HIDE DEF reached
        <3>2. /\ Cardinality(reached) \in Nat /\ Cardinality(Kept(a)) \in Nat
              /\ Cardinality(Kept(a)) <= Cardinality(reached)
            BY <3>1, Counted
        <3>3. db[a].sent \in Nat /\ db[a].sent <= Cardinality(Kept(a))
            <4>1. db[a] \in Ann
                BY Kinds, ValuesOf DEF IInv, Typed
            <4>2. QED
                BY <4>1 DEF IInv, Counts, Ann
        <3>4. QED
            BY <3>2, <3>3 DEF reached
    <2>4. QED
        BY <2>1, <2>2, <2>3 DEF PushSafe
<1>2. QED
    BY <1>1, PushInvariant, PTL

\* Whoever sends, sends for a delivery that is pending and an announcement that is
\* open as committed: after a cancellation or an expiry has committed nobody is pushed.
THEOREM NothingAfterEnd == Spec => NoPushAfterEnd
<1>1. IInv /\ [Next]_vars =>
         [\A p \in Pairs :
             pushed'[p] > pushed[p] => db[p].status = "PENDING" /\ db[p[1]].status \in Open]_vars
    <2> SUFFICES ASSUME IInv, [Next]_vars, NEW p \in Pairs, pushed'[p] > pushed[p]
                 PROVE  db[p].status = "PENDING" /\ db[p[1]].status \in Open
        OBVIOUS
    <2>1. pushed \in [Pairs \cup Logs -> 0 .. 2]
        BY DEF IInv, Typed
    <2>2. pushed' # pushed
        BY <2>1
    <2>3. PICK w \in Workers : \/ \E q \in Pairs : Deliver(w, q)
                               \/ \E s \in Nudged : RemindOne(w, s)
                               \/ Rollback(w)
        BY <2>2 DEF Next, Work, Create, Expires, Unsubscribe, Cancel, Drain, Remind, Flush,
                    CancelPending, Claim, Finish, Commit, Expire, Complete, vars
    <2>4. ~Rollback(w)
        BY <2>1 DEF Rollback
    <2>5. ~\E s \in Nudged : RemindOne(w, s)
        <3> SUFFICES ASSUME NEW s \in Nudged, RemindOne(w, s) PROVE FALSE
            OBVIOUS
        <3>1. p # Log(s) /\ Log(s) \in Logs
            BY Kinds DEF Logs
        <3>2. UNCHANGED pushed \/ \E outcome \in Answers : Push(Log(s), outcome)
            BY DEF RemindOne
        <3>3. QED
            BY <2>1, <3>1, <3>2 DEF Push
    <2>6. PICK a \in Anns, s \in Subs : Deliver(w, <<a, s>>)
        BY <2>3, <2>4, <2>5 DEF Pairs
    <2>7. /\ <<a, s>> \in Pairs
          /\ UNCHANGED pushed \/ \E outcome \in Answers : Push(<<a, s>>, outcome)
        BY <2>6 DEF Deliver, Pairs
    <2>8. p = <<a, s>>
        BY <2>1, <2>7 DEF Push
    <2>9. at[w] = "deliver" /\ p \in todo[w]
        BY <2>6, <2>8 DEF Deliver
    <2>10. db[p].status = "PENDING"
        BY <2>9, ClaimedIsUnpushed DEF IInv, Sound, Working
    <2>11. QED
        BY <2>8, <2>10 DEF IInv, Deliveries
<1>2. QED
    BY <1>1, PushInvariant, PTL DEF Spec, NoPushAfterEnd
=============================================================================
