------------------------------- MODULE Study -------------------------------
(***************************************************************************)
(* What a student studies by: the study plan and the lesson's shared deck of *)
(* flashcards, whose reviews tick the plan's revisions off in a background    *)
(* task (app/api/student/flashcards.py, study_plan.py).                      *)
(***************************************************************************)
EXTENDS StudyPlan, Flashcards

CONSTANTS
    Planner,    \* the student whose plan it is
    Mixes       \* what meets, several sets of kinds, and what may happen meanwhile

VARIABLE
    reviewed    \* a review's background task has not started

Kinds == Replanning \cup {"delete", "status", "mark", "list", "follow", "leave", "generate",
                          "review"}

ASSUME StudyAssumption ==
    /\ Planner \in Students /\ MaxDay \in Nat \ {0} /\ MaxLogs \in Nat \ {0}
    /\ Mixes \subseteq SUBSET (Kinds \cup {"serial", "time", "midnight", "fail", "undo", "window",
                                   "legacy", "built", "edit", "restart"})
    /\ Rows = PlanRows \cup CardRows

vars == <<db, tx, at, job, mix, today, learned, edition, left, reviewed>>
quiet == <<mix, today, learned, edition, left>>

Init ==
    /\ mix \in Mixes
    /\ learned \in Knowledge[Richness]
    /\ today = IF mix \cap {"time", "window"} # {} THEN 1 ELSE 2
    /\ edition = 1 /\ left = {} /\ reviewed = FALSE
    /\ \E plans \in PlanStarts, deck \in DeckStarts : RequestsInit(plans @@ deck)

Midnight == /\ "time" \in mix /\ today < MaxDay /\ today' = today + 1
            /\ UNCHANGED <<db, session, mix, learned, edition, left, reviewed>>

\* The author saves the lesson.
Edit == /\ "edit" \in mix /\ edition < Len(Editions) /\ edition' = edition + 1
        /\ "serial" \in mix => \A w \in Workers : at[w] = "idle"
        /\ UNCHANGED <<db, session, mix, today, learned, left, reviewed>>

\* A restart loses the background tasks.
Restart == /\ "restart" \in mix /\ reviewed' = FALSE
           /\ UNCHANGED <<db, session, quiet>>

\* _mark_revision, or the task after an assessment with another activity.
Mark(w) ==
    /\ \E p \in PlanIds, activity \in {"LESSON", "PRACTICE", "REVISION", "PAST_QUESTIONS",
                                       "MOCK_EXAM"} :
          /\ activity = "REVISION" => reviewed
          /\ MarkItem(w, p, activity)
          /\ reviewed' = (reviewed /\ activity # "REVISION")
    /\ UNCHANGED quiet

Commit(w) ==
    /\ CommitSession(w)
    /\ LET kind == job[w].kind
       IN /\ left' = IF kind = "leave" THEN left \cup {job[w].student} ELSE left
          /\ reviewed' = (reviewed \/ ("mark" \in mix /\ kind = "review"
                                       /\ job[w].student = Planner))
    /\ UNCHANGED <<mix, today, learned, edition>>

Rollback(w) == RollbackSession(w) /\ UNCHANGED <<quiet, reviewed>>

Next ==
    \/ Midnight \/ Edit \/ Restart
    \/ \E w \in Workers :
          \/ (Planning(w) \/ Learning(w) \/ Flush(w)) /\ UNCHANGED <<quiet, reviewed>>
          \/ Mark(w) \/ Commit(w) \/ Rollback(w)

Spec == Init /\ [][Next]_vars

-----------------------------------------------------------------------------
(* Properties *)

ItemRow == [there : BOOLEAN, plan : PlanIds \cup {0}, date : Nat, subject : Subjects \cup {0},
            topic : DOMAIN Topics \cup {0}, minutes : Nat, status : Statuses \cup {"none"},
            activity : {"none", "LESSON", "PRACTICE", "REVISION", "PAST_QUESTIONS", "MOCK_EXAM"}]

TypeOK ==
    /\ \A p \in PlanIds : DOMAIN db[Plan(p)] = DOMAIN NoPlan
                          /\ \A s \in Subjects : db[Position(p, s)].topic \in DOMAIN Topics \cup {0}
    /\ \A n \in ItemIds : db[Item(n)] \in ItemRow
    /\ db[Deck] \in DeckRow
    /\ \A c \in CardIds : db[Card(c)] \in CardRow
    /\ \A k \in Keys : db[Key(k)] \in KeyRow
    /\ \A s \in Students : db[Follows(s)] \in FollowsRow
                           /\ \A c \in CardIds : db[Review(s, c)] \in ReviewRow
    /\ today \in 1 .. MaxDay /\ edition \in 1 .. Len(Editions) /\ left \subseteq Students

Serial == "serial" \in mix

ItemsOn(p, d, statuses) ==
    {n \in ItemIds : /\ db[Item(n)].there /\ db[Item(n)].plan = p /\ db[Item(n)].date = d
                     /\ db[Item(n)].status \in statuses}
MinutesOn(p, d, statuses) == TotalOf(ItemsOn(p, d, statuses), LAMBDA n : db[Item(n)].minutes)
Days == {db[Item(n)].date : n \in ItemIds} \ {0}

\* No day is planned twice: what is pending fits the time of the day (of the settings a
\* replan may have used), however many replans, ticks and changes of the settings meet.
\* One request at a time it is the plan's own time, which settled work also uses, and
\* one plan is active.
PlanSound ==
    /\ "undo" \notin mix => \A p \in PlanIds, d \in Days :
          MinutesOn(p, d, {"PENDING"})
             <= Greatest({DayBudget(s, Weekday(d)) : s \in Settings[Richness] \cup {db[Plan(p)]}})
    /\ Serial /\ "undo" \notin mix =>
          /\ Cardinality(ActivePlans) <= 1
          /\ \A p \in ActivePlans, d \in Days :
                LET settled == MinutesOn(p, d, {"COMPLETED", "SKIPPED"})
                IN MinutesOn(p, d, {"PENDING"}) > 0 /\ d >= db[Plan(p)].replanned
                   => MinutesOn(p, d, {"PENDING"}) + settled <= DayBudget(db[Plan(p)], Weekday(d))

\* What a student has done or put aside stays so until the student says otherwise: one
\* request at a time, and whenever sessions are only ticked off.
HistoryKept ==
    [][Serial \/ mix \cap Replanning = {} =>
         \A n \in ItemIds :
            db[Item(n)].status \in {"COMPLETED", "SKIPPED"} /\ db'[Item(n)] # db[Item(n)]
            => /\ db'[Item(n)].there
               /\ \E w \in Workers : job[w].kind = "status" /\ job'[w].kind = "none"]_vars

\* The deck: a review is of a card that is there and has its log, a block has one card,
\* a card that predates keys is recognised.  One request at a time a schedule follows
\* from the reviews.
DeckSound ==
    /\ \A k, l \in Keys : db[Key(k)].there =>
          /\ db[Card(db[Key(k)].card)].there
          /\ db[Key(l)].card = db[Key(k)].card => k = l
    /\ \A s \in Students, c \in CardIds :
          LET review == db[Review(s, c)]
          IN /\ review.there = (review.logs > 0)
             /\ review.there => db[Card(c)].there
             /\ Serial /\ review.there =>
                   CASE review.state = "LEARNING" -> review.reps < GRADUATE_REPS
                     [] review.state = "REVIEW" -> review.reps > 0 /\ review.lapses < review.logs
                     [] review.state = "RELEARNING" ->
                          review.reps < GRADUATE_REPS /\ review.lapses \in 1 .. review.logs - 1
                     [] OTHER -> FALSE
    /\ "edit" \notin mix /\ (\E k \in Keys : db[Key(k)].there) =>
          \A c \in CardIds :
             /\ db[Card(c)].there /\ \A k \in Keys : db[Key(k)].card # c
             => \A k \in DOMAIN Editions[1] : Editions[1][k] # db[Card(c)].front

\* Both: the plan fits the student's days, and the deck its reviews.
StudySound == PlanSound /\ DeckSound

\* "A card is only ever removed when the lesson block it came from is gone": no rebuild
\* takes a student's memory of another card, unless the lesson is edited meanwhile; and
\* nobody loses the deck who never left it.
StudyKept ==
    [][/\ Serial \/ "edit" \notin mix =>
             \A s \in Students, c \in CardIds :
                db[Review(s, c)].there /\ ~db'[Review(s, c)].there =>
                   \E k \in Keys : db[Key(k)].card = c /\ k \notin DOMAIN Editions[edition]
       /\ \A s \in Students : CanReview(db, s) => CanReview(db', s) \/ s \in left']_vars

\* Both: what a student has done, ticked or learned by heart is not undone by others.
RecordsKept == HistoryKept /\ StudyKept

-----------------------------------------------------------------------------
(* The window of the active plan, as the last replan laid it out *)

Pending(p) == {db[Item(n)] : n \in {m \in ItemIds : db[Item(m)].plan = p
                                                   /\ db[Item(m)].status = "PENDING"}}
\* Prerequisites come first, and practice after the lesson, on another day.
TaughtInOrder(p) ==
    \A i, j \in Pending(p) :
        i.activity = "LESSON" /\ j.activity \in UnitKinds =>
           /\ <<i.topic, j.topic>> \in Edges => i.date < j.date
           /\ i.topic = j.topic /\ j.activity = "PRACTICE" => i.date < j.date
\* A day's revisions are of different topics, and its subjects few or chosen.
DaysCalm(p) ==
    \A d \in Days :
        LET on == ItemsOn(p, d, {"PENDING"})
            subjects(ns) == {db[Item(n)].subject : n \in ns}
            chosen == {a.subject : a \in {b \in db[Plan(p)].timetable.sessions :
                                             b.day = Weekday(d)}}
        IN /\ \A m, n \in on : /\ m # n /\ db[Item(m)].activity = "REVISION"
                               /\ db[Item(n)].activity = "REVISION"
                               => db[Item(m)].topic # db[Item(n)].topic
           /\ Cardinality(subjects(on))
                 <= Greatest({IF Weekend(d) THEN 3 ELSE 2, Cardinality(chosen)})
\* No lesson is planned again that was finished in the plan, or passed.
NotTaughtAgain(p) ==
    \A t \in DOMAIN Topics :
        LET lessons(status) == Cardinality({n \in ItemIds : /\ db[Item(n)].plan = p
                                  /\ db[Item(n)].topic = t /\ db[Item(n)].activity = "LESSON"
                                  /\ db[Item(n)].status = status})
        IN lessons("PENDING") > 0 =>
              /\ ~learned.knows[t].passed
              /\ lessons("PENDING") + lessons("COMPLETED")
                    <= Greatest({1, (Topics[t].minutes + SESSION_MINUTES - 1) \div SESSION_MINUTES})
\* A session the student put on a day is there, or was reported, before the runway.
SessionsAnswered(p) ==
    LET plan == db[Plan(p)]
        runway == IF Mode(plan) = "TERM" THEN 0 ELSE Runway(plan, plan.start)
    IN \A d \in WindowOf(plan, plan.replanned), a \in plan.timetable.sessions :
          a.day = Weekday(d) /\ (runway = 0 \/ d < runway) =>
             Cardinality({n \in ItemsOn(p, d, Statuses) : db[Item(n)].subject = a.subject})
                + Len(SelectSeq(plan.unmet, LAMBDA u : u.date = d /\ u.subject = a.subject))
             >= a.sessions

\* When a replan commits, its window is sound.
WindowSound ==
    [][\A w \in Workers, p \in PlanIds :
          /\ "window" \in mix /\ job[w].kind \in Replanning /\ job[w].plan = p
          /\ job'[w].kind = "none" /\ db' # db
          => (TaughtInOrder(p) /\ DaysCalm(p) /\ NotTaughtAgain(p) /\ SessionsAnswered(p))']_vars

\* Both: what a replan, a rebuild or a review writes keeps what was done, and plans in order.
StepsSound == RecordsKept /\ WindowSound
=============================================================================
