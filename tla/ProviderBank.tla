---------------------------- MODULE ProviderBank ----------------------------
(***************************************************************************)
(* Bringing a provider's paper into the question bank                       *)
(* (app/services/provider/service.py, ingest.py, schedule.py and            *)
(* app/services/assessments/past_paper.py, jamb.py).                        *)
(*                                                                         *)
(* One paper: its items come in pages, an item is stored once, and a fetch  *)
(* row keeps the checkpoint, a lease and the paper's status.  Visits advance *)
(* the bank by a page; an administrator walks what is left; a UTME sync      *)
(* stores what it walked; a student who sits the paper stores each page and  *)
(* has it appended to an attempt.  A session holds the fetch row as it was   *)
(* when first loaded (SQLAlchemy's identity map): later queries do not       *)
(* refresh it, and only the columns it changed are written back.             *)
(***************************************************************************)
EXTENDS OrmSession, FiniteSets, Integers

CONSTANTS
    Items,          \* numbers of the paper's items
    Pages,          \* its pages
    PageOf,         \* [Items -> 1 .. Pages]
    Rejected,       \* items the mapper does not accept
    Mixes           \* the kinds of requests that meet, several sets of them

Fetch == <<"fetch">>
Circuit == <<"circuit">>
Attempt == <<"attempt">>
Staged(i) == <<"item", i>>
OnPaper(i) == <<"on", i>>
StagedRows == {Staged(i) : i \in Items}
PaperRows == {OnPaper(i) : i \in Items}

Visits == {"advance", "ensure"}
Banking == {"advance", "saturate", "ensure"}
Sitting == {"start", "continue"}
Kinds == Banking \cup Sitting \cup {"sync", "none"}

ASSUME BankAssumption ==
    /\ Pages \in Nat \ {0} /\ Items \subseteq Nat /\ IsFiniteSet(Items)
    /\ PageOf \in [Items -> 1 .. Pages] /\ Rejected \subseteq Items
    /\ Mixes \subseteq SUBSET (Kinds \ {"none"})
    /\ Rows = {Fetch, Circuit, Attempt} \cup StagedRows \cup PaperRows

VARIABLES
    at,         \* [Workers -> what it does next]
    job,        \* [Workers -> what it works with]
    bank,       \* [Items -> how many questions of the bank come from the item]
    carried,    \* whether the provider has the paper
    subject,    \* whether our catalogue has the subject
    handed,     \* the page cursors given to the student
    mix         \* the kinds of requests of this behaviour

world == <<carried, subject, mix>>
vars == <<db, tx, at, job, bank, carried, subject, handed, mix>>

FetchRow == [there : BOOLEAN, status : {"PENDING", "SATURATED", "FAILED"},
             lease : {"none", "fresh", "old"}, cursor : 1 .. Pages,
             promoted : 0 .. Cardinality(Items)]
CircuitRow == [there : {TRUE}, state : {"OK", "EXHAUSTED", "BLOCKED"}, cooling : BOOLEAN]
\* The attempt with its assessment.
AttemptRow == [there : BOOLEAN, open : BOOLEAN, marks : 0 .. 2 * Cardinality(Items)]
StagedRow == [there : BOOLEAN]
PaperRow == [there : BOOLEAN, order : 0 .. Cardinality(Items)]

\* The first page's cursor is None in the code, 1 here.
NoFetch == [there |-> FALSE, status |-> "PENDING", lease |-> "none", cursor |-> 1,
            promoted |-> 0]

NoCircuit == [there |-> TRUE, state |-> "OK", cooling |-> FALSE]
NoAttempt == [there |-> FALSE, open |-> FALSE, marks |-> 0]

\* The fetch row, circuit and attempt as loaded, the page in hand and what of it is
\* still to be stored, whether it is the last, the questions found on the paper and
\* those to append, the questions made.
Job(kind) == [kind |-> kind, fetch |-> NoFetch, circuit |-> NoCircuit,
              attempt |-> NoAttempt, cursor |-> 1, left |-> {}, last |-> FALSE,
              had |-> {}, add |-> {}, made |-> {}]

\* The circuit is the provider's: another paper's draw may have opened it.
Init ==
    /\ \E state \in {"OK", "BLOCKED"} :
          db = [r \in Rows |->
                  CASE r = Fetch -> NoFetch
                    [] r = Circuit -> [NoCircuit EXCEPT !.state = state]
                    [] r = Attempt -> NoAttempt
                    [] r \in StagedRows -> [there |-> FALSE]
                    [] OTHER -> [there |-> FALSE, order |-> 0]]
    /\ tx = [w \in Workers |-> Closed]
    /\ at = [w \in Workers |-> "idle"]
    /\ job = [w \in Workers |-> Job("none")]
    /\ bank = [i \in Items |-> 0]
    /\ carried \in BOOLEAN /\ subject \in BOOLEAN
    /\ handed = {} /\ mix \in Mixes

Now(w, step) == at' = [at EXCEPT ![w] = step]
Flushing(w) == Dirty(w) # {}
OnPage(p) == {i \in Items : PageOf[i] = p}

\* The fetch row w has loaded, or loads now.
Loaded(w) == IF job[w].fetch.there THEN job[w].fetch ELSE See(w, Fetch)

\* w assigns to the fetch row.
SetFetch(w, row) == tx' = [tx EXCEPT ![w] = Assign(tx[w], Only(Fetch, Loaded(w)), Only(Fetch, row))]

-----------------------------------------------------------------------------
(* Sessions *)

\* UPDATE or INSERT of one row once its lock is free.  Inserting a row that is
\* there by now is an IntegrityError: the transaction can only be rolled back.
Flush(w, r) ==
    /\ r \in Dirty(w) /\ FreeFor(w, r)
    /\ tx[w].dirty[r].loaded.there = See(w, r).there
    /\ tx' = [tx EXCEPT ![w] = Flushed(tx[w], r, See(w, r))]
    /\ UNCHANGED <<db, at, job, bank, handed, world>>

End(w) ==
    /\ tx' = [tx EXCEPT ![w] = Closed]
    /\ job' = [job EXCEPT ![w] = Job("none")]
    /\ Now(w, "idle")

Commit(w) ==
    /\ at[w] = "commit" /\ ~Flushing(w)
    /\ db' = CommittedBy(w)
    /\ tx' = [tx EXCEPT ![w] = Closed]
    /\ job' = [job EXCEPT ![w] = Job("none")]
    /\ Now(w, "idle")
    /\ bank' = [i \in Items |-> IF i \in job[w].made THEN bank[i] + 1 ELSE bank[i]]
    /\ handed' = IF job[w].kind \in Sitting /\ ~job[w].last
                 THEN handed \cup {job[w].cursor + 1} ELSE handed
    /\ UNCHANGED world

\* An error of the provider, the cache or the database, a lost connection, a
\* deadlock's victim.
Rollback(w) ==
    /\ at[w] # "idle"
    /\ End(w)
    /\ UNCHANGED <<db, bank, handed, world>>

-----------------------------------------------------------------------------
(* Outside *)

\* LEASE_WINDOW_MS is over, the circuit's cooldown is over.
LeaseAges ==
    /\ db[Fetch].lease = "fresh" /\ \A w \in Workers : Fetch \notin Holds(w)
    /\ db' = [db EXCEPT ![Fetch].lease = "old"]
    /\ UNCHANGED <<tx, at, job, bank, handed, world>>

Cooled ==
    /\ db[Circuit].cooling /\ \A w \in Workers : Circuit \notin Holds(w)
    /\ db' = [db EXCEPT ![Circuit].cooling = FALSE]
    /\ UNCHANGED <<tx, at, job, bank, handed, world>>

AddSubject ==
    /\ ~subject /\ subject' = TRUE
    /\ UNCHANGED <<db, tx, at, job, bank, carried, handed, mix>>

-----------------------------------------------------------------------------
(* Visits and the administrator: the lease *)

\* The row is read.  Without a subject it fails; a paper that is done, has failed or
\* is leased is left alone; otherwise the lease is assigned.
TakeLease(w, kind) ==
    LET row == Loaded(w)
    IN IF ~subject
       THEN /\ SetFetch(w, [row EXCEPT !.there = TRUE, !.status = "FAILED"])
            /\ job' = [job EXCEPT ![w] = Job(kind)]
            /\ Now(w, "commit")
       ELSE IF row.status # "PENDING" \/ row.lease = "fresh"
       THEN /\ job' = [job EXCEPT ![w] = [@ EXCEPT !.kind = kind]]
            /\ Now(w, "commit") /\ UNCHANGED tx
       ELSE LET leased == [row EXCEPT !.there = TRUE, !.lease = "fresh"]
            IN /\ SetFetch(w, leased)
               /\ job' = [job EXCEPT ![w] = [Job(kind) EXCEPT !.fetch = leased,
                                                              !.made = job[w].made]]
               /\ Now(w, "lease")

Visit(w, kind) ==
    /\ at[w] = "idle" /\ kind \in mix
    /\ subject => db[Fetch].status = "PENDING" /\ db[Fetch].lease # "fresh"
    /\ TakeLease(w, kind)
    /\ UNCHANGED <<db, bank, handed, world>>

\* Backfill: a block is cleared and a failed fetch reset on demand, then the paper
\* is walked to its end in the same transaction.
Backfill(w) ==
    /\ at[w] = "idle" /\ "saturate" \in mix
    /\ \E clear \in BOOLEAN, reset \in BOOLEAN :
         LET circuit == db[Circuit]
             row == db[Fetch]
             cleared == clear /\ circuit.state = "BLOCKED"
             again == reset /\ row.status = "FAILED"
             values == [r \in {q \in {Circuit} : cleared} \cup {q \in {Fetch} : again} |->
                          IF r = Circuit THEN [circuit EXCEPT !.state = "OK", !.cooling = FALSE]
                          ELSE [row EXCEPT !.status = "PENDING", !.lease = "none", !.cursor = 1]]
         IN /\ tx' = [tx EXCEPT ![w] = Assign(tx[w], db, values)]
            /\ job' = [job EXCEPT ![w] = [Job("saturate") EXCEPT
                                            !.fetch = IF again THEN values[Fetch] ELSE row]]
    /\ Now(w, "again")
    /\ UNCHANGED <<db, bank, handed, world>>

\* The next page of a backfill.
NextPage(w) ==
    /\ at[w] = "again" /\ ~Flushing(w)
    /\ TakeLease(w, "saturate")
    /\ UNCHANGED <<db, bank, handed, world>>

\* With the lease flushed, the circuit is read; open, it ends a visit and releases
\* the lease.
CheckCircuit(w) ==
    /\ at[w] = "lease" /\ ~Flushing(w)
    /\ LET circuit == See(w, Circuit)
           open == \/ circuit.state = "BLOCKED"
                   \/ circuit.state = "EXHAUSTED" /\ circuit.cooling
       IN IF job[w].kind = "ensure"
          THEN /\ Now(w, IF open THEN "commit" ELSE "draw")
               /\ job' = [job EXCEPT ![w].circuit = circuit]
               /\ UNCHANGED tx
          ELSE IF open
          THEN /\ SetFetch(w, [job[w].fetch EXCEPT !.lease = "none"])
               /\ Now(w, "commit") /\ UNCHANGED job
          ELSE /\ job' = [job EXCEPT ![w].cursor = job[w].fetch.cursor]
               /\ Now(w, "search") /\ UNCHANGED tx
    /\ UNCHANGED <<db, bank, handed, world>>

-----------------------------------------------------------------------------
(* Pages *)

\* ProviderPaperIngest.page_result: the provider answers with the page, or with 404
\* when it has no such paper.
Search(w) ==
    /\ at[w] = "search" /\ ~Flushing(w)
    /\ job' = [job EXCEPT ![w].left = IF carried THEN OnPage(job[w].cursor) ELSE {},
                          ![w].last = ~carried \/ job[w].cursor = Pages]
    /\ Now(w, "row")
    /\ UNCHANGED <<db, tx, bank, handed, world>>

\* No answer ends a bank request, which keeps its lease; for a student it is an error
\* (Rollback).
NoAnswer(w) ==
    /\ at[w] = "search" /\ ~Flushing(w) /\ job[w].kind \in Banking
    /\ Now(w, "commit")
    /\ UNCHANGED <<db, tx, job, bank, handed, world>>

\* _fetch_row: loaded, or inserted within a savepoint; a concurrent insert is waited
\* for, and adopted.
GetRow(w) ==
    /\ at[w] = "row" /\ ~Flushing(w)
    /\ IF Loaded(w).there
       THEN job' = [job EXCEPT ![w].fetch = Loaded(w)] /\ UNCHANGED tx
       ELSE LET row == [NoFetch EXCEPT !.there = TRUE]
            IN /\ FreeFor(w, Fetch)
               /\ job' = [job EXCEPT ![w].fetch = row]
               /\ tx' = [tx EXCEPT ![w] = Locked(@, Only(Fetch, row))]
    /\ Now(w, IF job[w].kind = "sync" THEN "walk" ELSE "store")
    /\ UNCHANGED <<db, bank, handed, world>>

\* An item becomes a question of the bank, or a rejected staging row.
Counted(row, i) == IF i \in Rejected THEN row ELSE [row EXCEPT !.promoted = @ + 1]

First(left) == CHOOSE i \in left : \A j \in left : i <= j

\* _store and _stage_item: an item staged already is reused; otherwise it is staged,
\* with its question if the mapper accepts it, and counted.  A concurrent insert of
\* the same item is waited for; then a page adopts it, and a draw fails.
Store(w) ==
    /\ at[w] = "store" /\ job[w].left # {} /\ ~Flushing(w)
    /\ LET i == First(job[w].left)
           row == job[w].fetch
           counted == Counted(row, i)
       IN /\ FreeFor(w, Staged(i))
          /\ IF See(w, Staged(i)).there
             THEN job' = [job EXCEPT ![w].left = @ \ {i}] /\ UNCHANGED tx
             ELSE /\ tx' = [tx EXCEPT ![w] =
                              Assign(Locked(@, Only(Staged(i), [there |-> TRUE])),
                                     Only(Fetch, row), Only(Fetch, counted))]
                  /\ job' = [job EXCEPT ![w].left = @ \ {i}, ![w].fetch = counted,
                                ![w].made = IF i \in Rejected THEN @ ELSE @ \cup {i}]
    /\ UNCHANGED <<db, at, bank, handed, world>>

\* Mutant: the checkpoint follows any page.
\* Mutant: the last page has a successor.
AdvancedPastEnd(row, cursor, last) ==
    IF cursor # row.cursor THEN row ELSE [row EXCEPT !.cursor = cursor + 1]

\* Mutant: the checkpoint is not written.
AdvancedNever(row, cursor, last) ==
    IF last THEN [row EXCEPT !.status = "SATURATED"] ELSE row

\* _advance_checkpoint: only for the page that is expected next.
Advanced(row, cursor, last) ==
    IF cursor # row.cursor THEN row
    ELSE IF last THEN [row EXCEPT !.cursor = 1, !.status = "SATURATED"]
    ELSE [row EXCEPT !.cursor = cursor + 1]

\* The page is stored.  A visit is through and releases its lease; a backfill goes
\* on; a student's request takes what is new on the page, or the next page.
PageStored(w) ==
    /\ at[w] = "store" /\ job[w].left = {} /\ job[w].kind \notin {"ensure", "sync"}
    /\ LET paged == Advanced(job[w].fetch, job[w].cursor, job[w].last)
           row == IF job[w].kind \in Banking THEN [paged EXCEPT !.lease = "none"] ELSE paged
           fresh == {i \in OnPage(job[w].cursor) \ (Rejected \cup job[w].had) : carried}
       IN /\ tx' = [tx EXCEPT ![w] = Assign(@, Only(Fetch, job[w].fetch), Only(Fetch, row))]
          /\ IF job[w].kind \in Sitting /\ fresh = {} /\ ~job[w].last
             THEN /\ job' = [job EXCEPT ![w].fetch = row, ![w].cursor = @ + 1]
                  /\ Now(w, "search")
             ELSE /\ job' = [job EXCEPT ![w].fetch = row, ![w].add = fresh]
                  /\ Now(w, IF job[w].kind \in Sitting THEN "append"
                            ELSE IF job[w].kind = "saturate" THEN "again" ELSE "commit")
    /\ UNCHANGED <<db, bank, handed, world>>

-----------------------------------------------------------------------------
(* The draw of a whole paper through the cache *)

\* _draw: 404 saturates; 401 and 402 open the circuit; otherwise a part of the paper,
\* or all of it, is there to be staged.  But for the last the lease is kept.
Draw(w) ==
    /\ at[w] = "draw"
    /\ \/ /\ ~carried
          /\ SetFetch(w, [job[w].fetch EXCEPT !.status = "SATURATED"])
          /\ Now(w, "commit") /\ UNCHANGED job
       \/ /\ \E state \in {"EXHAUSTED", "BLOCKED"} :
               tx' = [tx EXCEPT ![w] =
                        Assign(@, Only(Circuit, job[w].circuit),
                               Only(Circuit, [job[w].circuit EXCEPT !.state = state,
                                                !.cooling = (state = "EXHAUSTED") \/ @]))]
          /\ Now(w, "commit") /\ UNCHANGED job
       \/ /\ carried
          /\ \E p \in 1 .. Pages :
               job' = [job EXCEPT ![w].left = {i \in Items : PageOf[i] <= p},
                                  ![w].last = (p = Pages)]
          /\ Now(w, "store") /\ UNCHANGED tx
    /\ UNCHANGED <<db, bank, handed, world>>

-----------------------------------------------------------------------------
(* A UTME sync *)

Sync(w) ==
    /\ at[w] = "idle" /\ subject /\ "sync" \in mix
    /\ job' = [job EXCEPT ![w] = Job("sync")]
    /\ Now(w, "row")
    /\ UNCHANGED <<db, tx, bank, handed, world>>

\* _walk_paper: what could be walked, and whether that is all.
Walk(w) ==
    /\ at[w] = "walk"
    /\ IF job[w].fetch.status = "SATURATED" THEN Now(w, "commit") /\ UNCHANGED job
       ELSE /\ \E p \in 0 .. Pages :
                 job' = [job EXCEPT
                            ![w].left = {i \in Items : carried /\ PageOf[i] <= p},
                            ![w].last = ~carried \/ p = Pages]
            /\ Now(w, "store")
    /\ UNCHANGED <<db, tx, bank, handed, world>>

\* Mutant: a walk that was cut short saturates as well.
SaturateAnyway(w) ==
    /\ at[w] = "store" /\ job[w].left = {} /\ job[w].kind \in {"ensure", "sync"}
    /\ SetFetch(w, [job[w].fetch EXCEPT !.status = "SATURATED"])
    /\ Now(w, "commit")
    /\ UNCHANGED <<db, job, bank, handed, world>>

\* All is stored: a draw or a walk that reached the end saturates the paper.
AllStored(w) ==
    /\ at[w] = "store" /\ job[w].left = {} /\ job[w].kind \in {"ensure", "sync"}
    /\ SetFetch(w, IF job[w].last THEN [job[w].fetch EXCEPT !.status = "SATURATED"]
                   ELSE job[w].fetch)
    /\ Now(w, "commit")
    /\ UNCHANGED <<db, job, bank, handed, world>>

-----------------------------------------------------------------------------
(* A student sits the paper *)

InProgress == db[Attempt].open

Start(w) ==
    /\ at[w] = "idle" /\ subject /\ ~db[Attempt].there /\ "start" \in mix
    /\ \A v \in Workers : job[v].kind # "start"
    /\ job' = [job EXCEPT ![w] = Job("start")]
    /\ Now(w, "search")
    /\ UNCHANGED <<db, tx, bank, handed, world>>

\* The attempt must be in progress; the questions on its paper are read.
Continue(w, c) ==
    /\ at[w] = "idle" /\ c \in handed /\ InProgress /\ "continue" \in mix
    /\ job' = [job EXCEPT ![w] = [Job("continue") EXCEPT !.cursor = c,
                                    !.attempt = db[Attempt],
                                    !.had = {i \in Items : db[OnPaper(i)].there}]]
    /\ Now(w, "search")
    /\ UNCHANGED <<db, tx, bank, handed, world>>

\* What the paper gets: the added questions in order after those it had, and their marks.
Appended(w) ==
    LET had == Cardinality(job[w].had)
        add == job[w].add
        place(i) == had + Cardinality({j \in add : j < i})
    IN [r \in {Attempt} \cup {OnPaper(i) : i \in add} |->
          IF r = Attempt
          THEN [job[w].attempt EXCEPT !.there = TRUE, !.marks = @ + Cardinality(add),
                                      !.open = IF job[w].kind = "start" THEN TRUE ELSE @]
          ELSE [there |-> TRUE, order |-> place(r[2])]]

\* Nothing to start with is a 404.
NotFound(w) ==
    /\ at[w] = "append" /\ job[w].kind = "start" /\ job[w].add = {}
    /\ End(w)
    /\ UNCHANGED <<db, bank, handed, world>>

\* _persist, and the pages after the first, which may hold nothing new.
Append(w) ==
    /\ at[w] = "append" /\ ~Flushing(w)
    /\ job[w].kind = "continue" \/ job[w].add # {}
    /\ LET values == Appended(w)
       IN tx' = [tx EXCEPT ![w] =
                   Assign(@, [r \in DOMAIN values |-> IF r = Attempt THEN job[w].attempt
                                                      ELSE [there |-> FALSE, order |-> 0]],
                          values)]
    /\ Now(w, "commit")
    /\ UNCHANGED <<db, job, bank, handed, world>>

\* Submitting, or reaping, ends the attempt (Attempts).
Submit ==
    /\ InProgress /\ \A w \in Workers : Attempt \notin Holds(w)
    /\ db' = [db EXCEPT ![Attempt].open = FALSE]
    /\ UNCHANGED <<tx, at, job, bank, handed, world>>

-----------------------------------------------------------------------------

Work(w) ==
    \/ \E r \in Rows : Flush(w, r)
    \/ Commit(w) \/ NextPage(w) \/ CheckCircuit(w) \/ Search(w) \/ GetRow(w) \/ Store(w)
    \/ PageStored(w) \/ Draw(w) \/ Walk(w) \/ AllStored(w) \/ Append(w) \/ NotFound(w)

Next ==
    \/ LeaseAges \/ Cooled \/ AddSubject \/ Submit
    \/ \E w \in Workers : \/ \E kind \in Visits : Visit(w, kind)
                          \/ NoAnswer(w) \/ Backfill(w) \/ Sync(w) \/ Start(w)
                          \/ \E c \in handed : Continue(w, c)
                          \/ Work(w) \/ Rollback(w)

Spec == Init /\ [][Next]_vars

\* A rollback that is not a commit of nothing.
Failure(w) == Rollback(w) /\ ~(at[w] = "commit" /\ ~Flushing(w) /\ CommittedBy(w) = db)

\* The paper is visited again and again, leases and cooldowns run out, requests go on
\* or end, and neither they nor the provider fail for ever.
FairSpec ==
    /\ Spec
    /\ WF_vars(LeaseAges) /\ WF_vars(Cooled)
    /\ \A w \in Workers : SF_vars(Visit(w, "advance")) /\ WF_vars(Work(w) \/ Rollback(w))
    /\ <>[][\A w \in Workers : ~Failure(w) /\ ~NoAnswer(w)]_vars
-----------------------------------------------------------------------------
(* Properties *)

TypeOK ==
    /\ db[Fetch] \in FetchRow /\ db[Circuit] \in CircuitRow /\ db[Attempt] \in AttemptRow
    /\ \A i \in Items : db[Staged(i)] \in StagedRow /\ db[OnPaper(i)] \in PaperRow
    /\ \A w \in Workers : job[w].kind \in Kinds /\ job[w].left \cup job[w].add \subseteq Items
    /\ handed \subseteq 2 .. Pages

\* "Stores it, deduplicated, in our bank": an item gives one question at most, however
\* many requests store its page at once, and only if it is staged.
StoredOnce ==
    \A i \in Items : bank[i] = IF db[Staged(i)].there /\ i \notin Rejected THEN 1 ELSE 0

\* What the checkpoint has passed is stored, and a saturated paper is stored whole: no
\* race, stale row or provider error leaves a page out that no later request asks for.
NoPageMissed ==
    carried => \A i \in Items : \/ db[Staged(i)].there
                                \/ /\ db[Fetch].status # "SATURATED"
                                   /\ PageOf[i] >= db[Fetch].cursor

\* One bank request at a time spends the provider's credits on the paper: the flush of
\* the lease holds the row until the page is stored.
OneAsksAtATime ==
    \A v, w \in Workers :
        /\ job[v].kind \in Banking /\ at[v] \in {"search", "draw", "row", "store"}
        /\ job[w].kind \in Banking /\ at[w] \in {"search", "draw", "row", "store"}
        => v = w

\* The promoted count never exceeds the questions there are.
PromotedNotInflated ==
    db[Fetch].promoted <= Cardinality({i \in Items : bank[i] > 0})

\* The paper a student sits stays whole: its marks are those of its questions and their
\* places run from 0, whatever pages are asked for twice or at once.
PaperWhole ==
    LET on == {i \in Items : db[OnPaper(i)].there}
    IN /\ db[Attempt].marks = Cardinality(on)
       /\ {db[OnPaper(i)].order : i \in on} = 0 .. Cardinality(on) - 1
       /\ \A i \in on : bank[i] = 1

\* All five: the paper is banked once, whole, by one request at a time, and a student sits
\* what is banked.
BankSafe == StoredOnce /\ NoPageMissed /\ OneAsksAtATime /\ PromotedNotInflated /\ PaperWhole

\* A paper once begun and still visited is brought in, or given up, unless the provider
\* refuses.
PaperComes ==
    ("advance" \in mix /\ db[Fetch].there /\ db[Fetch].status = "PENDING")
        ~> (db[Fetch].status # "PENDING" \/ db[Circuit].state # "OK")
=============================================================================
