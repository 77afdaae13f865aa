------------------------------ MODULE Learner ------------------------------
(***************************************************************************)
(* Lessons, rewards and the daily session of one student together: their     *)
(* requests and background tasks over the same rows and learning events.     *)
(***************************************************************************)
EXTENDS DailySession

CONSTANT Mixes      \* what meets, several sets of kinds, and what may happen meanwhile

Kinds == {"save", "quiz", "start", "submit", "after", "quests", "dashboard"}

ASSUME LearnerAssumption ==
    /\ MaxTime \in Nat \ {0}
    /\ Mixes \subseteq SUBSET (Kinds \cup {"serial", "reap", "sets", "cards", "restart", "fail",
                                   "time", "night"})
    /\ Rows = {Progress, Earned} \cup {Attempt(a) : a \in Exits \cup Sets} \cup XpRows
              \cup {QuestSet(d) : d \in Days} \cup {Today(d) : d \in Days}

vars == <<db, tx, at, job, mix, now, midnight, log, finished, plan>>
quiet == <<mix, now, midnight, log, finished, plan>>

Init ==
    /\ mix \in Mixes
    /\ midnight = IF "night" \in mix THEN MaxTime ELSE MaxTime + 1
    /\ RequestsInit([r \in Rows |->
          CASE r = Progress -> NoProgress
            [] r = Earned -> [there |-> FALSE]
            [] r \in {Attempt(a) : a \in Exits} -> [NewAttempt(0) EXCEPT !.there = FALSE]
            [] r \in {Attempt(a) : a \in Sets} ->
                 [NewAttempt(1) EXCEPT !.there = "sets" \in mix]
            [] r \in XpRows -> NoXp
            [] r \in {QuestSet(d) : d \in Days} -> NoQuests
            [] OTHER -> NoSession])
    /\ now = 1 /\ log = EmptyBag /\ finished = {}
    /\ \E given \in SUBSET PlanIds :
          /\ Cardinality(given) = IF "dashboard" \in mix THEN 1 ELSE 0
          /\ plan = [p \in PlanIds |-> IF p \in given THEN "PENDING" ELSE "new"]

Tick == /\ mix \cap {"time", "night"} # {}
        /\ now < MaxTime /\ now' = now + 1
        /\ UNCHANGED <<db, session, mix, midnight, log, finished, plan>>

\* What was inserted is seen by all; a submit that won leaves its task.
Commit(w) ==
    /\ CommitSession(w)
    /\ log' = log (+) SetToBag(Adding(w))
    /\ finished' = IF job[w].kind = "submit" /\ "after" \in mix
                   THEN finished \cup {[attempt |-> job[w].attempt, exit |-> job[w].verdict]}
                   ELSE finished
    /\ UNCHANGED <<mix, now, midnight, plan>>

Rollback(w) == RollbackSession(w) /\ UNCHANGED quiet

Next ==
    \/ Tick
    \/ Lose /\ UNCHANGED plan
    \/ ReviewCards /\ UNCHANGED plan
    \/ \E a \in Exits : Reap(a) /\ UNCHANGED plan
    \/ \E p, q \in PlanIds : FinishPlanItem(p) \/ Replan(p, q)
    \/ \E w \in Workers :
          \/ (Lesson(w) \/ Reward(w) \/ Session(w) \/ Flush(w)) /\ UNCHANGED quiet
          \/ AfterSubmit(w) /\ UNCHANGED <<mix, now, midnight, log, plan>>
          \/ Commit(w) \/ Rollback(w)

Spec == Init /\ [][Next]_vars

-----------------------------------------------------------------------------
(* Properties *)

TypeOK ==
    /\ db[Progress] \in ProgressRow
    /\ \A a \in Exits \cup Sets : db[Attempt(a)] \in AttemptRow
    /\ \A k \in XpRows : db[k] \in XpRow
    /\ \A d \in Days : db[QuestSet(d)] \in QuestRow /\ db[Today(d)] \in SessionRow
    /\ BagToSet(log) \subseteq Evidence /\ finished \subseteq Outcome

Passed(a) == Logged("LESSON_COMPLETED", a)
Practice == db[Progress].checkpoint.practice

\* A lesson is completed by a passed exit and by nothing else, each exit is judged once,
\* and what the checkpoint remembers of it is what it was graded.
LessonSound ==
    /\ db[Progress].status = "COMPLETED" => \E a \in Exits : Passed(a)
    /\ \A e \in BagToSet(log) :
          e.kind = "LESSON_COMPLETED" =>
             CopiesIn(e, log) = 1 /\ db[Attempt(e.source)].status = "COMPLETED"
                                 /\ db[Attempt(e.source)].passed
    /\ \A i \in DOMAIN Practice :
          /\ db[Attempt(Practice[i].attempt)].status = "COMPLETED"
          /\ Practice[i].passed = db[Attempt(Practice[i].attempt)].passed
          /\ \A j \in DOMAIN Practice \ {i} : Practice[j].attempt # Practice[i].attempt

\* XP is paid for what happened: a lesson for a passed exit, a practice set for what was
\* never judged as an exit, the quests' bonus for a day that fulfilled its stored set, a
\* correction for a question missed on an earlier day.
XpEarned ==
    LET paid == {k \in XpRows : db[k].there}
    IN /\ Xp("lesson_completed", "topic") \in paid => \E a \in Exits : Passed(a)
       /\ \A a \in Exits \cup Sets :
             Xp("practice_set_completed", a) \in paid =>
                /\ db[Attempt(a)].status = "COMPLETED" /\ ~Passed(a)
                /\ \A i \in DOMAIN Practice : Practice[i].attempt # a
       /\ \A d \in Days : Xp("daily_quests_completed", d) \in paid =>
             db[QuestSet(d)].there /\ AllComplete(db[QuestSet(d)].third, d)
       /\ \A q \in Questions : Xp("answer_corrected", q) \in paid =>
             /\ MissedBefore(q, Day)
             /\ \E a \in Sets : q \in db[Attempt(a)].right

\* One request or task at a time, a day pays no more than it may: of the awards made on
\* the day they are dated (a task that spans midnight is dated the day before).
CapsHold ==
    \A d \in Days :
        LET paid(event) == Cardinality({k \in XpRows : /\ k[2] = event /\ db[k].there
                                                      /\ db[k].day = d /\ ~db[k].late})
        IN /\ paid("practice_set_completed") <= PRACTICE_AWARDS_PER_DAY
           /\ paid("answer_corrected") <= CORRECTIONS_PER_DAY

LearnerSound ==
    /\ LessonSound /\ XpEarned
    /\ "serial" \in mix =>
          /\ CapsHold
          /\ \A a \in Exits : Passed(a) => /\ db[Progress].status = "COMPLETED"
                                           /\ db[Progress].percent = 100

\* "A day's quests are fixed when first assigned", "keep today's session stable": even
\* when two first writers meet, the day keeps one set of quests and one choice of what
\* the engine adds.  One request at a time, a completed lesson stays completed, a stamp
\* is not taken back, and a record of an exit goes only for a newer one.
DayStable ==
    [][/\ \A d \in Days :
            /\ db[QuestSet(d)].there => db'[QuestSet(d)] = db[QuestSet(d)]
            /\ db[Today(d)].there =>
                  db'[Today(d)].there /\ db'[Today(d)].engine = db[Today(d)].engine
       /\ "serial" \in mix =>
            /\ db[Progress].status = "COMPLETED" => db'[Progress].status = "COMPLETED"
            /\ db'[Progress].percent >= db[Progress].percent
            /\ \A d \in Days : db[Today(d)].done \subseteq db'[Today(d)].done
            /\ Practice' # Practice =>
                  /\ Len(Practice') >= Len(Practice)
                  /\ \A i \in DOMAIN Practice :
                        Practice[i].attempt # Practice'[Len(Practice')].attempt]_vars

-----------------------------------------------------------------------------
(* What the code does not do *)

\* "Abandoned or expired: it earns nothing, and a new one may start": an exit that is
\* started is marked as the lesson's open one, one request at a time.  It is not when a
\* marker was forgotten by the same request.
StartedIsMarked ==
    [][\A a \in Exits :
         db'[Attempt(a)].there /\ ~db[Attempt(a)].there
            => db'[Progress].checkpoint.exit = a]_vars
=============================================================================
