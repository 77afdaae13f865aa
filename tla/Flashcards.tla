----------------------------- MODULE Flashcards -----------------------------
(***************************************************************************)
(* The deck of flashcards a lesson gives, shared by all students             *)
(* (app/services/srs/service.py, sync.py, scheduler.py): building and        *)
(* rebuilding it, following and leaving it, and reviewing its cards.         *)
(*                                                                         *)
(* An entry of the unique index over (deck, source key) is a row of its own  *)
(* that names its card.  A student's review logs of a card are written       *)
(* under the lock of the student's review of it and counted in its row.      *)
(* Of a schedule the states and counters are kept, not the times.            *)
(***************************************************************************)
EXTENDS Requests, FiniteSets, Integers, Sequences

CONSTANTS
    Students, None,
    CardIds, Keys, Fronts,
    Editions,        \* the editions of the lesson: [keys of its blocks -> front]
    MaxLogs         \* bound: reviews of a card by a student; one GOOD while decks are built

VARIABLES
    edition,    \* of the lesson, as its author last saved it
    left        \* history: students who have ever left the deck

GRADUATE_REPS == 2
Ratings == {"AGAIN", "GOOD", "EASY"}    \* HARD moves the state as GOOD does

Deck == <<"deck">>
Card(c) == <<"card", c>>
Key(k) == <<"key", k>>
Follows(s) == <<"follows", s>>
Review(s, c) == <<"review", s, c>>

DeckRow == [there : BOOLEAN, owner : Students \cup {None}]
CardRow == [there : BOOLEAN, front : Fronts \cup {None}]
KeyRow == [there : BOOLEAN, card : CardIds \cup {None}]
FollowsRow == [there : BOOLEAN]
ReviewRow == [there : BOOLEAN, state : {"NEW", "LEARNING", "REVIEW", "RELEARNING"},
              reps : 0 .. GRADUATE_REPS, lapses : 0 .. MaxLogs, logs : 0 .. MaxLogs]

NoCard == [there |-> FALSE, front |-> None]
NoKey == [there |-> FALSE, card |-> None]
NoReview == [there |-> FALSE, state |-> "NEW", reps |-> 0, lapses |-> 0, logs |-> 0]

CardRows == {Deck} \cup {Card(c) : c \in CardIds} \cup {Key(k) : k \in Keys}
            \cup {Follows(s) : s \in Students} \cup {Review(s, c) : s \in Students, c \in CardIds}

Rowwise(deck, card(_), key(_), follows(_), review(_, _)) ==
    [r \in CardRows |-> CASE r = Deck -> deck
                          [] r \in {Card(c) : c \in CardIds} -> card(r[2])
                          [] r \in {Key(k) : k \in Keys} -> key(r[2])
                          [] r \in {Follows(s) : s \in Students} -> [there |-> follows(r[2])]
                          [] OTHER -> review(r[2], r[3])]

NoDeck == Rowwise([there |-> FALSE, owner |-> None], LAMBDA c : NoCard, LAMBDA k : NoKey,
                  LAMBDA s : FALSE, LAMBDA s, c : NoReview)

\* A deck as older code left it: it has an owner, who need not follow it, and its card
\* has no key.
LegacyDecks ==
    {Rowwise([there |-> TRUE, owner |-> owner],
             LAMBDA d : IF d = c THEN [there |-> TRUE, front |-> f] ELSE NoCard,
             LAMBDA k : NoKey, LAMBDA s : follows /\ s = owner,
             LAMBDA s, d : IF s = owner /\ d = c
                           THEN [there |-> TRUE, state |-> "REVIEW", reps |-> 1, lapses |-> 0,
                                 logs |-> 1]
                           ELSE NoReview)
        : owner \in Students, c \in CardIds, f \in Fronts, follows \in BOOLEAN}

\* A deck as this code builds it, of the lesson's first edition, which a student follows.
BuiltDecks ==
    {Rowwise([there |-> TRUE, owner |-> None],
             LAMBDA c : IF \E k \in DOMAIN cards : cards[k] = c
                        THEN [there |-> TRUE,
                              front |-> Editions[1][CHOOSE k \in DOMAIN cards : cards[k] = c]]
                        ELSE NoCard,
             LAMBDA k : IF k \in DOMAIN cards THEN [there |-> TRUE, card |-> cards[k]] ELSE NoKey,
             LAMBDA s : s = follower, LAMBDA s, c : NoReview)
        : follower \in Students, cards \in {f \in [DOMAIN Editions[1] -> CardIds] :
                        \A k, l \in DOMAIN f : f[k] = f[l] => k = l}}

DeckStarts == CASE "legacy" \in mix -> LegacyDecks
                [] "built" \in mix -> BuiltDecks
                [] OTHER -> {NoDeck}

-----------------------------------------------------------------------------
(* Access *)

CanReview(rows, s) ==
    rows[Deck].there /\ (rows[Deck].owner = s \/ rows[Follows(s)].there)

\* INSERT ... ON CONFLICT DO NOTHING: waits for whoever is writing the row.
InsertOnce(w, r, value) ==
    /\ FreeFor(w, r)
    /\ IF See(w, r).there THEN UNCHANGED tx ELSE Write(w, r :> value)

\* adopt_shared_deck: a deck of older code gets its owner enrolled, then has none.
Adopt(w) ==
    /\ at[w] = "adopt"
    /\ LET owner == job[w].owner
       IN IF owner = None THEN UNCHANGED tx
          ELSE /\ FreeFor(w, Follows(owner))
               /\ tx' = [tx EXCEPT ![w] =
                     Assign(IF See(w, Follows(owner)).there THEN tx[w]
                            ELSE Locked(tx[w], Follows(owner) :> [there |-> TRUE]),
                            Deck :> [See(w, Deck) EXCEPT !.owner = owner],
                            Deck :> [See(w, Deck) EXCEPT !.owner = None])]
    /\ Goto(w, job[w].then)
    /\ UNCHANGED <<db, job>>

\* ListFlashcardDecksService writes only what it adopts.
ListDecks(w, s) ==
    /\ db[Deck].there /\ db[Deck].owner = s
    /\ Begin(w, "list", [owner |-> s, then |-> "commit"], "adopt")
    /\ UNCHANGED <<db, tx>>

\* EnrollFlashcardDeckService
Follow(w, s) ==
    /\ db[Deck].there /\ ~db[Follows(s)].there
    /\ Begin(w, "follow", [student |-> s], "commit")
    /\ Put(w, Follows(s) :> [there |-> TRUE])
    /\ UNCHANGED db
Unfollow(w, s) ==
    /\ db[Deck].there /\ db[Follows(s)].there
    /\ Begin(w, "leave", [student |-> s], "commit")
    /\ Put(w, Follows(s) :> [there |-> FALSE])
    /\ UNCHANGED db

\* DeleteFlashcardDeckService, of a lesson's deck: leaving.
Leave(w, s) ==
    /\ db[Deck].there
    /\ Begin(w, "leave", [student |-> s, owner |-> db[Deck].owner, then |-> "leave"], "adopt")
    /\ UNCHANGED <<db, tx>>
RemoveFollow(w) ==
    /\ at[w] = "leave" /\ ~Flushing(w)
    /\ Put(w, Follows(job[w].student) :> [there |-> FALSE])
    /\ Goto(w, "commit")
    /\ UNCHANGED <<db, job>>

-----------------------------------------------------------------------------
(* Building the deck: GenerateFlashcardsService *)

Generate(w, s) ==
    /\ Editions[edition] # <<>>
    /\ Begin(w, "generate", [student |-> s, lesson |-> Editions[edition]], "deck")
    /\ UNCHANGED <<db, tx>>

\* _deck_for
FindDeck(w) ==
    /\ at[w] = "deck"
    /\ db[Deck].there \/ FreeFor(w, Deck)
    /\ IF db[Deck].there THEN UNCHANGED tx
       ELSE Write(w, Deck :> [there |-> TRUE, owner |-> None])
    /\ Keep(w, [owner |-> db[Deck].owner, then |-> "enrol"] @@ job[w])
    /\ Goto(w, "adopt")
    /\ UNCHANGED db

Enrol(w) ==
    /\ at[w] = "enrol" /\ ~Flushing(w)
    /\ InsertOnce(w, Follows(job[w].student), [there |-> TRUE])
    /\ Goto(w, "sync")
    /\ UNCHANGED <<db, job>>

\* Cards without a key whose front is that of a block; one of a front is claimed, once.
Legacy(w, k) ==
    {c \in CardIds : /\ See(w, Card(c)).there /\ See(w, Card(c)).front = job[w].lesson[k]
                     /\ \A l \in Keys : See(w, Key(l)).card # c}

\* plan_card_sync: what has a key is updated, what is recognised adopts one, ...
Sync(w) ==
    /\ at[w] = "sync" /\ ~Flushing(w)
    /\ \E adopted \in [{k \in DOMAIN job[w].lesson : ~See(w, Key(k)).there /\ Legacy(w, k) # {}}
                          -> CardIds \cup {None}] :
          LET lesson == job[w].lesson
              open == DOMAIN adopted
              claimed == {k \in open : adopted[k] # None}
              known == {k \in DOMAIN lesson : See(w, Key(k)).there}
              cardOf(k) == IF k \in known THEN See(w, Key(k)).card ELSE adopted[k]
          IN /\ \A k \in claimed : adopted[k] \in Legacy(w, k)
             /\ \A k, l \in claimed : k # l => lesson[k] # lesson[l]
             /\ \A k \in open : \E l \in claimed : lesson[l] = lesson[k]
             /\ Put(w, [r \in {Key(k) : k \in claimed} |-> [there |-> TRUE, card |-> adopted[r[2]]]]
                       @@ [r \in {Card(cardOf(k)) : k \in known \cup claimed} |->
                             [there |-> TRUE,
                              front |-> lesson[CHOOSE k \in known \cup claimed :
                                                  Card(cardOf(k)) = r]]])
             /\ Keep(w, [insert |-> DOMAIN lesson \ (known \cup claimed),
                         drop |-> {See(w, Key(k)).card : k \in Keys \ DOMAIN lesson} \ {None}]
                        @@ job[w])
    /\ Goto(w, "insert")
    /\ UNCHANGED db

FreshCards ==
    {c \in CardIds : /\ ~db[Card(c)].there
                     /\ \A v \in Workers : Card(c) \notin Holds(v) \cup Dirty(v)
                     /\ \A v \in Workers : /\ "card" \in DOMAIN job[v] => job[v].card # c
                                           /\ "drop" \in DOMAIN job[v] => c \notin job[v].drop}

\* ... the rest is inserted unless another rebuild has just done so, ...
InsertCard(w, k) ==
    /\ at[w] = "insert" /\ ~Flushing(w) /\ k \in job[w].insert /\ FreeFor(w, Key(k))
    /\ IF See(w, Key(k)).there THEN UNCHANGED tx
       ELSE \E c \in FreshCards :
               Write(w, (Key(k) :> [there |-> TRUE, card |-> c])
                        @@ (Card(c) :> [there |-> TRUE, front |-> job[w].lesson[k]]))
    /\ Keep(w, [job[w] EXCEPT !.insert = @ \ {k}])
    /\ UNCHANGED <<db, at>>

Dropped(w) == {c \in job[w].drop : See(w, Card(c)).there}

\* ... and what lost its block is deleted, with every student's reviews of it.
DropCards(w) ==
    /\ at[w] = "insert" /\ ~Flushing(w) /\ job[w].insert = {}
    /\ LET gone == Dropped(w)
           rows == [r \in {Card(c) : c \in gone} |-> NoCard]
                   @@ [r \in {Key(k) : k \in {l \in Keys : See(w, Key(l)).card \in gone}} |-> NoKey]
                   @@ [r \in {Review(s, c) : s \in Students, c \in gone} |-> NoReview]
       IN FreeAll(w, DOMAIN rows) /\ Write(w, rows)
    /\ Goto(w, "commit")
    /\ UNCHANGED <<db, job>>

-----------------------------------------------------------------------------
(* Reviewing: ReviewFlashcardService *)

\* Mutant: a lapse takes one step back.
StepBack(card, rating) == IF rating = "AGAIN" THEN card.reps - 1 ELSE card.reps + 1
Steps(card, rating) == IF rating = "AGAIN" THEN 0 ELSE card.reps + 1

\* review_card
Scheduled(card, rating) ==
    LET to(state, reps, lapses) ==
            [card EXCEPT !.there = TRUE, !.state = state, !.lapses = lapses,
                         !.reps = IF reps > GRADUATE_REPS THEN GRADUATE_REPS ELSE reps]
        steps == Steps(card, rating)
    IN CASE card.state = "NEW" ->
              to(IF rating = "EASY" THEN "REVIEW" ELSE "LEARNING", steps, card.lapses)
         [] card.state \in {"LEARNING", "RELEARNING"} ->
              to(IF steps >= GRADUATE_REPS THEN "REVIEW" ELSE card.state, steps, card.lapses)
         [] rating = "AGAIN" -> to("RELEARNING", 0, card.lapses + 1)
         [] OTHER -> to("REVIEW", card.reps + 1, card.lapses)

LogsBound == IF "generate" \in mix THEN 1 ELSE MaxLogs
RatingsGiven == IF "generate" \in mix THEN {"GOOD"} ELSE Ratings

ReviewCard(w, s, c) ==
    /\ db[Card(c)].there /\ CanReview(db, s) /\ db[Review(s, c)].logs < LogsBound
    /\ \E rating \in RatingsGiven :
          Begin(w, "review", [student |-> s, card |-> c, rating |-> rating,
                              loaded |-> db[Review(s, c)]], "store")
    /\ UNCHANGED <<db, tx>>

\* The flush: the first review is inserted, for a card that must still be there; a later
\* one writes the columns it changed.  What was inserted or deleted meanwhile fails it.
StoreReview(w) ==
    /\ at[w] = "store"
    /\ LET row == Review(job[w].student, job[w].card)
           now == See(w, row)
           loaded == job[w].loaded
       IN /\ FreeFor(w, row) /\ now.there = loaded.there /\ now.logs < LogsBound
          /\ db[Card(job[w].card)].there
          /\ \A v \in Workers : Card(job[w].card) \in Holds(v) => See(v, Card(job[w].card)).there
          /\ Write(w, row :> [Changed(now, loaded, Scheduled(loaded, job[w].rating))
                                EXCEPT !.logs = now.logs + 1])
    /\ Goto(w, "commit")
    /\ UNCHANGED <<db, job>>

Learning(w) ==
    \/ \E s \in Students : \/ ListDecks(w, s) \/ Follow(w, s) \/ Unfollow(w, s) \/ Leave(w, s)
                           \/ Generate(w, s)
    \/ \E s \in Students, c \in CardIds : ReviewCard(w, s, c)
    \/ StoreReview(w)
    \/ Adopt(w) \/ RemoveFollow(w) \/ FindDeck(w) \/ Enrol(w) \/ Sync(w) \/ DropCards(w)
    \/ \E k \in Keys : InsertCard(w, k)
=============================================================================
