----------------------------- MODULE MasteryFold -----------------------------
(***************************************************************************)
(* How one (student, topic) row of TopicMastery follows the ledger of      *)
(* learning events: app/services/learning/mastery_store.py and mastery.py, *)
(* with the identity column that orders the events (models/learning.py)    *)
(* and the attribution that gives an event its topic after the fact        *)
(* (topic_attribution.py).                                                 *)
(*                                                                         *)
(* A page read is a transaction under READ COMMITTED: it loads the row,    *)
(* then the events (a later statement, which may see later commits), folds *)
(* in memory, and writes back.  The ORM's UPDATE names only the columns    *)
(* whose value differs from the one it loaded, and is not guarded.  Decay  *)
(* moves `mass' (with `outcome') to now, so a channel's mass differs from  *)
(* the loaded one whenever it is not empty; `obs', `abandons' and `cursor' *)
(* differ only when events were folded into them.                          *)
(*                                                                         *)
(* A sum is modelled by how many times each event is in it, 0..MaxCount.   *)
(***************************************************************************)
EXTENDS Integers, FiniteSets

CONSTANTS
    Readers,    \* page reads and background folds that may run at once
    Writers,    \* transactions that may be appending an event at once
    Kinds,      \* the kinds of event this run appends
    MaxSeq,     \* bound: events appended
    MaxCount    \* bound: a sum stops counting one event's repeats here

\* "unmapped" is a QUESTION_ANSWERED whose question has no topic yet; "silent"
\* stands for PRETEST_PASSED, CARD_REVIEWED and unscored lesson events.
AllKinds == {"answer", "unmapped", "lesson", "abandon", "silent"}

ASSUME FoldAssumption ==
    /\ Kinds \subseteq AllKinds
    /\ MaxSeq \in Nat \ {0}
    /\ MaxCount \in Nat \ {0, 1}

Channels == {"acc", "lesson"}
KindsOf == [acc |-> {"answer", "unmapped"}, lesson |-> {"lesson"}]
Seqs == 1 .. MaxSeq
Sums == [Seqs -> 0 .. MaxCount]

VARIABLES
    ledger,     \* [Seqs -> event]: kind, whether committed, whether mapped
    nextSeq,    \* next value of LearningEvent.seq's identity
    writer,     \* the event each writer has inserted and not committed, or 0
    stored,     \* whether the TopicMastery row exists
    row,        \* its committed columns
    reader,     \* what each page read has loaded and folded
    deployed,   \* SCORING_VERSION of the running code
    orderly     \* whether in this behaviour events are mapped when appended, commit
                \* in the order of their seq, and none is an abandon

vars == <<ledger, nextSeq, writer, stored, row, reader, deployed, orderly>>

Event == [kind : AllKinds, visible : BOOLEAN, mapped : BOOLEAN]
Aggregate == [mass : [Channels -> Sums], obs : [Channels -> Sums],
              abandons : Sums, cursor : 0 .. MaxSeq, version : 1 .. 2]
Reader == [at : {"idle", "loaded", "folded", "inserting"}, had : BOOLEAN, base : Aggregate,
           seen : SUBSET Seqs, agg : Aggregate]

Zero == [e \in Seqs |-> 0]
\* TopicAggregate() as the dataclass builds it.
Fresh(v) == [mass |-> [c \in Channels |-> Zero], obs |-> [c \in Channels |-> Zero],
             abandons |-> Zero, cursor |-> 0, version |-> v]
IdleReader == [at |-> "idle", had |-> FALSE, base |-> Fresh(1), seen |-> {},
               agg |-> Fresh(1)]

TypeOK ==
    /\ ledger \in [Seqs -> Event]
    /\ nextSeq \in 1 .. MaxSeq + 1
    /\ writer \in [Writers -> 0 .. MaxSeq]
    /\ stored \in BOOLEAN
    /\ row \in Aggregate
    /\ reader \in [Readers -> Reader]
    /\ deployed \in 1 .. 2
    /\ orderly \in BOOLEAN

Init ==
    /\ ledger = [e \in Seqs |-> [kind |-> "silent", visible |-> FALSE, mapped |-> FALSE]]
    /\ nextSeq = 1
    /\ writer = [w \in Writers |-> 0]
    /\ stored = FALSE
    /\ row = Fresh(1)
    /\ reader = [r \in Readers |-> IdleReader]
    /\ deployed = 1
    /\ orderly \in BOOLEAN

-----------------------------------------------------------------------------
(* Appending and attributing events *)

\* INSERT: the identity value is taken now, the row is seen only at COMMIT.
Append(w, k) ==
    /\ writer[w] = 0
    /\ nextSeq <= MaxSeq
    /\ orderly => k \in {"answer", "lesson", "silent"} /\ \A v \in Writers : writer[v] = 0
    /\ ledger' = [ledger EXCEPT ![nextSeq].kind = k, ![nextSeq].mapped = k # "unmapped"]
    /\ writer' = [writer EXCEPT ![w] = nextSeq]
    /\ nextSeq' = nextSeq + 1
    /\ UNCHANGED <<stored, row, reader, deployed, orderly>>

CommitAppend(w) ==
    /\ writer[w] # 0
    /\ ledger' = [ledger EXCEPT ![writer[w]].visible = TRUE]
    /\ writer' = [writer EXCEPT ![w] = 0]
    /\ UNCHANGED <<nextSeq, stored, row, reader, deployed, orderly>>

\* The appending request fails: its identity value is never used again.
RollbackAppend(w) ==
    /\ writer[w] # 0
    /\ writer' = [writer EXCEPT ![w] = 0]
    /\ UNCHANGED <<ledger, nextSeq, stored, row, reader, deployed, orderly>>

\* AttributeAttemptTopicsService: a topic is searched for answers that have none, and
\* written if they still have none, UPDATE ... WHERE topicId IS NULL.
Attribute(e) ==
    /\ ledger[e].visible /\ ~ledger[e].mapped
    /\ ledger' = [ledger EXCEPT ![e].mapped = TRUE]
    /\ UNCHANGED <<nextSeq, writer, stored, row, reader, deployed, orderly>>

-----------------------------------------------------------------------------
(* Folding *)

Reset(agg) == IF agg.version = deployed THEN agg ELSE Fresh(deployed)

OfChannel(c) == {e \in Seqs : ledger[e].kind \in KindsOf[c]}
Scored == UNION {OfChannel(c) : c \in Channels}
Abandons == {e \in Seqs : ledger[e].kind = "abandon"}

AddTo(sum, S) ==
    [e \in Seqs |-> IF e \in S /\ sum[e] < MaxCount THEN sum[e] + 1 ELSE sum[e]]

MaxOf(S) == CHOOSE x \in S : \A y \in S : y <= x

\* Mutant: the cursor is the next event to fold.
FoldEventsNextSeq(agg, seen) ==
    LET a == Reset(agg)
        new == {e \in seen : e >= a.cursor}
    IN [mass |-> [c \in Channels |-> AddTo(a.mass[c], new \cap OfChannel(c))],
        obs |-> [c \in Channels |-> AddTo(a.obs[c], new \cap OfChannel(c))],
        abandons |-> AddTo(a.abandons, new \cap Abandons),
        cursor |-> MaxOf({a.cursor} \cup {e + 1 : e \in new \cap Scored}),
        version |-> a.version]

\* Mutant: events at or below the cursor are not skipped.
FoldEventsUnguarded(agg, seen) ==
    LET a == Reset(agg)
    IN [mass |-> [c \in Channels |-> AddTo(a.mass[c], seen \cap OfChannel(c))],
        obs |-> [c \in Channels |-> AddTo(a.obs[c], seen \cap OfChannel(c))],
        abandons |-> AddTo(a.abandons, seen \cap Abandons),
        cursor |-> MaxOf({a.cursor} \cup (seen \cap Scored)),
        version |-> a.version]

\* fold_events over the seen events in the order of their seq.  apply_event
\* moves the cursor to the event it scored, and the order is increasing, so the
\* events folded are those past the cursor the fold began with.  Returning
\* early, an abandon (and a silent event) leaves the cursor where it is.
FoldEvents(agg, seen) ==
    LET a == Reset(agg)
        new == {e \in seen : e > a.cursor}
    IN [mass |-> [c \in Channels |-> AddTo(a.mass[c], new \cap OfChannel(c))],
        obs |-> [c \in Channels |-> AddTo(a.obs[c], new \cap OfChannel(c))],
        abandons |-> AddTo(a.abandons, new \cap Abandons),
        cursor |-> MaxOf({a.cursor} \cup (new \cap Scored)),
        version |-> a.version]

Visible == {e \in Seqs : ledger[e].visible /\ ledger[e].mapped}

\* topic_mastery_repository.for_student; without a row, a fresh aggregate.
Load(r) ==
    /\ reader[r].at = "idle"
    /\ reader' = [reader EXCEPT ![r] =
                    [IdleReader EXCEPT !.at = "loaded", !.had = stored,
                       !.base = IF stored THEN row ELSE Fresh(deployed)]]
    /\ UNCHANGED <<ledger, nextSeq, writer, stored, row, deployed, orderly>>

\* learning_events_repository.for_student, then fold_events.  The page shows
\* these states whether or not they are stored.
Fold(r) ==
    /\ reader[r].at = "loaded"
    /\ reader' = [reader EXCEPT ![r].at = "folded", ![r].seen = Visible,
                                ![r].agg = FoldEvents(reader[r].base, Visible)]
    /\ UNCHANGED <<ledger, nextSeq, writer, stored, row, deployed, orderly>>

\* The columns an UPDATE names: those that differ from the loaded ones.
Merge(old, new) ==
    [mass |-> [c \in Channels |->
                 IF new.mass[c] = old.mass[c] /\ new.mass[c] = Zero
                 THEN row.mass[c] ELSE new.mass[c]],
     obs |-> [c \in Channels |->
                 IF new.obs[c] = old.obs[c] THEN row.obs[c] ELSE new.obs[c]],
     abandons |-> IF new.abandons = old.abandons THEN row.abandons ELSE new.abandons,
     cursor |-> IF new.cursor = old.cursor THEN row.cursor ELSE new.cursor,
     version |-> IF new.version = old.version THEN row.version ELSE new.version]

\* _persist asks for the row by its key: the one the read loaded if it did, and
\* otherwise the one another read may have inserted since.  A topic with no row
\* and no event is not in `stored', and not written.
FetchRow(r) ==
    /\ reader[r].at = "folded" /\ ~reader[r].had /\ reader[r].seen # {}
    /\ reader' = IF stored THEN [reader EXCEPT ![r].had = TRUE, ![r].base = row]
                 ELSE [reader EXCEPT ![r].at = "inserting"]
    /\ UNCHANGED <<ledger, nextSeq, writer, stored, row, deployed, orderly>>

\* The flush and the COMMIT.  An INSERT that finds the key taken fails (Forget).
Persist(r) ==
    /\ \/ /\ reader[r].at = "inserting" /\ ~stored
          /\ row' = reader[r].agg
       \/ /\ reader[r].at = "folded" /\ reader[r].had
          /\ row' = Merge(reader[r].base, reader[r].agg)
    /\ stored' = TRUE
    /\ reader' = [reader EXCEPT ![r] = IdleReader]
    /\ UNCHANGED <<ledger, nextSeq, writer, deployed, orderly>>

\* There was nothing to write, the savepoint failed (which is swallowed), or
\* the request itself did.
Forget(r) ==
    /\ reader[r].at # "idle"
    /\ reader' = [reader EXCEPT ![r] = IdleReader]
    /\ UNCHANGED <<ledger, nextSeq, writer, stored, row, deployed, orderly>>

\* A release with a new SCORING_VERSION: the process restarts.
Deploy ==
    /\ deployed = 1
    /\ deployed' = 2
    /\ reader' = [r \in Readers |-> IdleReader]
    /\ writer' = [w \in Writers |-> 0]
    /\ UNCHANGED <<ledger, nextSeq, stored, row, orderly>>

Next ==
    \/ \E w \in Writers : \/ \E k \in Kinds : Append(w, k)
                          \/ CommitAppend(w) \/ RollbackAppend(w)
    \/ \E e \in Seqs : Attribute(e)
    \/ \E r \in Readers : Load(r) \/ Fold(r) \/ FetchRow(r) \/ Persist(r) \/ Forget(r)
    \/ Deploy

Spec == Init /\ [][Next]_vars

-----------------------------------------------------------------------------
(* Safety *)

\* A sum holds exactly the events of its channel up to the cursor, each once.
ExactUpTo(sum, c, cursor) ==
    \A e \in Visible \cap OfChannel(c) : sum[e] = IF e <= cursor THEN 1 ELSE 0

\* "persistAggregates writes the new sums, the new anchor, and the new cursor":
\* the stored masses and observations are those of the stored cursor.
SumsMatchCursor ==
    orderly /\ stored => \A c \in Channels : /\ ExactUpTo(row.mass[c], c, row.cursor)
                                  /\ ExactUpTo(row.obs[c], c, row.cursor)

\* What a page shows of a topic rests on every event it read, each once,
\* whatever was lost of earlier folds.
ShownIsExact ==
    \A r \in Readers : orderly /\ reader[r].at = "folded" =>
        \A c \in Channels : \A e \in reader[r].seen \cap OfChannel(c) :
            reader[r].agg.mass[c][e] = 1 /\ reader[r].agg.obs[c][e] = 1

\* One read at a time, no answer weighs twice, whatever is attributed late,
\* committed out of order or refolded by a release.
NeverTwice == \A c \in Channels : \A e \in Seqs : row.mass[c][e] <= 1 /\ row.obs[c][e] <= 1

\* All of these: what is stored and what is shown are exact, and nothing weighs twice.
FoldExact == SumsMatchCursor /\ ShownIsExact /\ NeverTwice

\* The stored cursor never moves back, not even when a release refolds the row.
CursorForward == [][orderly => row'.cursor >= row.cursor]_vars

-----------------------------------------------------------------------------
(* What the documents say and the code does not *)

\* "QUIZ_ABANDONED ... increments abandon evidence", and only a failed write
\* makes "the next read fold the same events again": one abandon counts once.
AbandonCountsOnce == \A e \in Seqs : row.abandons[e] <= 1

\* Attribution is what lets an answer "contribute to mastery standings": once it
\* has a topic, no cursor has passed it uncounted.
AttributedCounts ==
    \A e \in Visible \cap OfChannel("acc") :
        stored /\ e <= row.cursor => row.mass["acc"][e] > 0
=============================================================================
