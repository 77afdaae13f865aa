------------------------------ MODULE Rewards ------------------------------
(***************************************************************************)
(* What a submit earns (_after_submit of app/api/student/assessments.py,     *)
(* app/services/gamification, AwardAchievementsService): a background task   *)
(* with a session of its own that takes its steps one after the other, each  *)
(* in a savepoint that may fail without the others, and commits at the end.  *)
(*                                                                         *)
(* XP rows have a unique key and are inserted ON CONFLICT DO NOTHING; an XP  *)
(* row is dated when its transaction began, and counted by when that was.    *)
(* The task's topic attribution is MasteryFold's and its plan mark is left   *)
(* out.                                                                     *)
(***************************************************************************)
EXTENDS Lessons

CONSTANTS PRACTICE_AWARDS_PER_DAY, CORRECTIONS_PER_DAY

Days == 1 .. 2
Xp(event, source) == <<"xp", event, source>>
Earned == <<"earned">>
QuestSet(d) == <<"quests", d>>

XpRows == {Xp("lesson_completed", "topic"), Xp("topic_mastery_demonstrated", "topic")}
          \cup {Xp("practice_set_completed", a) : a \in Exits \cup Sets}
          \cup {Xp("answer_corrected", q) : q \in Questions}
          \cup {Xp("daily_quests_completed", d) : d \in Days}
\* `late': the day had changed when it was awarded.
XpRow == [there : BOOLEAN, day : Days \cup {0}, late : BOOLEAN]
\* The third quest; the other two ask for answers.
QuestRow == [there : BOOLEAN, third : {"revision", "practice_set", "none"}]

NoXp == [there |-> FALSE, day |-> 0, late |-> FALSE]
NoQuests == [there |-> FALSE, third |-> "none"]

\* AWARD ... ON CONFLICT DO NOTHING for each of these keys, waiting for whoever is
\* inserting one of them.
Award(w, keys) ==
    /\ FreeAll(w, keys)
    /\ Write(w, [k \in {k \in keys : ~See(w, k).there} |->
                   [there |-> TRUE, day |-> job[w].began, late |-> job[w].began # Day]])

\* Awards of an event since the day began.
AwardedToday(w, event) ==
    Cardinality({k \in XpRows : /\ k[2] = event /\ See(w, k).there
                                /\ See(w, k).day >= Day})

-----------------------------------------------------------------------------

\* The task runs in the process that answered the submit.
AfterSubmit(w) ==
    \E outcome \in finished :
        /\ Begin(w, "after", [outcome |-> outcome, began |-> Day], "achieve")
        /\ finished' = finished \ {outcome}
        /\ UNCHANGED <<db, tx>>

\* The process restarts before the task ran.
Lose ==
    /\ "restart" \in mix
    /\ \E outcome \in finished : finished' = finished \ {outcome}
    /\ UNCHANGED <<db, session, mix, now, midnight, log>>

After == [achieve |-> "insert", insert |-> "xp", xp |-> "quests", quests |-> "bonus",
          bonus |-> "correct", correct |-> "mastery", mastery |-> "commit"]

\* A step that fails leaves what the others did.
StepFails(w) ==
    /\ "fail" \in mix /\ job[w].kind = "after" /\ at[w] \in DOMAIN After \ {"insert", "bonus"}
    /\ Goto(w, IF at[w] = "achieve" THEN "xp"
               ELSE IF at[w] = "quests" THEN "correct" ELSE After[at[w]])
    /\ UNCHANGED <<db, tx, job>>

\* AwardAchievementsService, for "lessons completed": what is earned and measured ...
Achieve(w) ==
    /\ at[w] = "achieve"
    /\ Goto(w, IF ~db[Earned].there /\ db[Progress].status = "COMPLETED"
               THEN "insert" ELSE "xp")
    /\ UNCHANGED <<db, tx, job>>

\* ... is inserted; a key taken meanwhile fails the savepoint.
Insert(w) ==
    /\ at[w] = "insert" /\ FreeFor(w, Earned)
    /\ IF db[Earned].there THEN UNCHANGED tx ELSE Write(w, Earned :> [there |-> TRUE])
    /\ Goto(w, "xp")
    /\ UNCHANGED <<db, job>>

\* events_for_attempt: a passed exit pays its topic, a failed one nothing; anything else
\* is a practice set, and a day pays only so many.
EventsFor(w, outcome) ==
    CASE outcome.exit = "passed" ->
           IF Logged("LESSON_COMPLETED", outcome.attempt)
           THEN {Xp("lesson_completed", "topic")} ELSE {}
      [] outcome.exit = "failed" -> {}
      [] OTHER -> IF AwardedToday(w, "practice_set_completed") < PRACTICE_AWARDS_PER_DAY
                  THEN {Xp("practice_set_completed", outcome.attempt)} ELSE {}

\* AwardAttemptXpService
AwardAttempt(w) ==
    LET outcome == job[w].outcome
    IN /\ at[w] = "xp"
       /\ Award(w, IF db[Attempt(outcome.attempt)].status = "COMPLETED"
                   THEN EventsFor(w, outcome) ELSE {})
       /\ Goto(w, "quests")
       /\ UNCHANGED <<db, job>>

\* GET /quests
ReadQuests(w) ==
    /\ Begin(w, "quests", [began |-> Day], "quests")
    /\ UNCHANGED <<db, tx>>

\* Mutant: the set that was built is saved over the one there.
QuestsOverwritten(w) ==
    /\ at[w] = "quests" /\ FreeFor(w, QuestSet(Day))
    /\ \E third \in {"revision", "practice_set"} :
          Write(w, QuestSet(Day) :> [there |-> TRUE, third |-> third])
    /\ Goto(w, "bonus")
    /\ Remember(w, [day |-> Day])
    /\ UNCHANGED db

\* GetDailyQuestsService: the day's set, or one that depends on the cards due now; the
\* first writer's is the day's.
Quests(w) ==
    /\ at[w] = "quests"
    /\ IF See(w, QuestSet(Day)).there
       THEN UNCHANGED tx
       ELSE /\ FreeFor(w, QuestSet(Day))
            /\ \E third \in {"revision", "practice_set"} :
                  Write(w, QuestSet(Day) :> [there |-> TRUE, third |-> third])
    /\ Goto(w, "bonus")
    /\ Remember(w, [day |-> Day])
    /\ UNCHANGED db

AnsweredOn(d) == \E e \in BagToSet(log) : e.kind = "QUESTION_ANSWERED" /\ e.day = d
ReviewedOn(d) == \E e \in BagToSet(log) : e.kind = "CARD_REVIEWED" /\ e.day = d
SetOn(d) == \E a \in Exits \cup Sets : db[Attempt(a)].day = d

\* evaluate: from what is recorded of the day; one answered set is enough for the first two.
AllComplete(third, d) ==
    AnsweredOn(d) /\ CASE third = "revision" -> ReviewedOn(d)
                       [] third = "practice_set" -> SetOn(d)

\* _pay_bonus
Bonus(w) ==
    /\ at[w] = "bonus"
    /\ Award(w, IF AllComplete(See(w, QuestSet(job[w].day)).third, job[w].day)
                THEN {Xp("daily_quests_completed", job[w].day)} ELSE {})
    /\ Goto(w, IF job[w].kind = "after" THEN "correct" ELSE "commit")
    /\ UNCHANGED <<db, job>>

\* Cards are reviewed (app/services/srs).
ReviewCards ==
    /\ "cards" \in mix /\ ~ReviewedOn(Day)
    /\ log' = log (+) SetToBag({Event("CARD_REVIEWED", "cards", TRUE)})
    /\ UNCHANGED <<db, session, mix, now, midnight, finished>>

MissedBefore(q, d) ==
    \E e \in BagToSet(log) :
        e.kind = "QUESTION_ANSWERED" /\ e.source = q /\ ~e.correct /\ e.day < d

\* AwardCorrectionXpService: questions of the attempt answered right and missed on an
\* earlier day, as many as the day has room for.
Correct(w) ==
    /\ at[w] = "correct"
    /\ LET corrected == {q \in db[Attempt(job[w].outcome.attempt)].right : MissedBefore(q, Day)}
           unpaid == {q \in corrected : ~See(w, Xp("answer_corrected", q)).there}
           used == AwardedToday(w, "answer_corrected")
       IN \E paid \in SUBSET unpaid :
             /\ Cardinality(paid) <= CORRECTIONS_PER_DAY - used \/ paid = {}
             /\ \A more \in SUBSET unpaid :
                   Cardinality(more) <= CORRECTIONS_PER_DAY - used =>
                      Cardinality(more) <= Cardinality(paid)
             /\ Award(w, {Xp("answer_corrected", q) : q \in paid})
    /\ Goto(w, "mastery")
    /\ UNCHANGED <<db, job>>

\* AwardTopicMasteryXpService: is_mastered reads what the attribution left.
AwardMastery(w) ==
    /\ at[w] = "mastery"
    /\ \E keys \in SUBSET {Xp("topic_mastery_demonstrated", "topic")} : Award(w, keys)
    /\ Goto(w, "commit")
    /\ UNCHANGED <<db, job>>

\* The steps of a request or a task that only change its session.
Reward(w) ==
    \/ ReadQuests(w) \/ StepFails(w) \/ Achieve(w) \/ Insert(w) \/ AwardAttempt(w)
    \/ Quests(w) \/ Bonus(w) \/ Correct(w) \/ AwardMastery(w)
=============================================================================
