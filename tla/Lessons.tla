------------------------------ MODULE Lessons ------------------------------
(***************************************************************************)
(* One student's lesson (app/services/practice_exit.py,                     *)
(* app/services/learning/service.py, checkpoint.py, the submit of            *)
(* app/api/student/assessments.py): the player saves its progress, the quick *)
(* quiz is answered, the practice exit - the graded, timed test that alone   *)
(* completes a lesson - is started, resumed and submitted.                  *)
(*                                                                         *)
(* The lesson's checkpoint is one JSON column: what a request assigns to it  *)
(* replaces all of it.  A tick of `now' is longer than an exit's time limit  *)
(* and as long as the wait after a failed one.                              *)
(***************************************************************************)
EXTENDS Requests, FiniteSets, Sequences, Bags

CONSTANTS
    Exits,          \* attempts a practice exit may create
    Sets,           \* ordinary practice attempts, open from the start
    Questions,      \* what is asked in them
    Checks,         \* the lesson's knowledge checks
    None,           \* no attempt
    MaxTime,        \* bound: ticks
    MaxEvents,      \* bound: learning events when a request that may add one begins
    RECORDS_KEPT, BEST_OF

VARIABLES
    now,
    midnight,   \* the tick the second day begins with
    log,        \* LearningEvent rows, a bag
    finished    \* what the submits that committed hand to their background task

Progress == <<"progress">>
Attempt(a) == <<"attempt", a>>
Day == IF now < midnight THEN 1 ELSE 2

Checkpoint == [exit : Exits \cup {None}, checks : SUBSET Checks,
               practice : Seq([attempt : Exits, passed : BOOLEAN, at : 1 .. MaxTime])]
ProgressRow == [there : BOOLEAN, status : {"NOT_STARTED", "IN_PROGRESS", "COMPLETED"},
                percent : {0, 99, 100}, best : BOOLEAN, checkpoint : Checkpoint]
AttemptRow == [there : BOOLEAN, status : {"IN_PROGRESS", "COMPLETED", "TIMED_OUT"},
               started : 0 .. MaxTime, passed : BOOLEAN, right : SUBSET Questions,
               day : 0 .. 2]
Evidence == [kind : {"LESSON_COMPLETED", "LESSON_BLOCK_COMPLETED", "QUESTION_ANSWERED",
                     "CARD_REVIEWED"},
             source : Exits \cup Checks \cup Questions \cup {"cards"},
             correct : BOOLEAN, day : 1 .. 2]
\* An attempt and the verdict on it: True, False, or None for what is not an open exit.
Outcome == [attempt : Exits \cup Sets, exit : {"passed", "failed", "none"}]

NoProgress == [there |-> FALSE, status |-> "NOT_STARTED", percent |-> 0, best |-> FALSE,
               checkpoint |-> [exit |-> None, practice |-> <<>>, checks |-> {}]]
NewAttempt(t) == [there |-> TRUE, status |-> "IN_PROGRESS", started |-> t,
                  passed |-> FALSE, right |-> {}, day |-> 0]

Stale(row) == row.started < now
Event(kind, source, correct) ==
    [kind |-> kind, source |-> source, correct |-> correct, day |-> Day]

\* What a request has inserted goes with its job, and into the log with its commit.
Adding(w) == IF "adds" \in DOMAIN job[w] THEN job[w].adds ELSE {}
Logged(kind, source) == \E e \in BagToSet(log) : e.kind = kind /\ e.source = source
Remember(w, values) == Keep(w, values @@ job[w])

-----------------------------------------------------------------------------
(* Progress *)

\* _check_score and the events of the checks that settle now.
Settled(new) == {Event("LESSON_BLOCK_COMPLETED", c, TRUE) : c \in new}

\* Mutant: what the client reports is added up.
AppliedTwice(row, percent, checks) ==
    [row EXCEPT !.there = TRUE, !.percent = @ + percent, !.checkpoint.checks = checks]

\* A client reports progress, never completion; the status is never lowered, the
\* percentage never either, and of the checkpoint it writes its own keys alone.
Applied(row, percent, checks) ==
    LET status == IF row.status = "COMPLETED" THEN "COMPLETED" ELSE "IN_PROGRESS"
        capped == IF status = "COMPLETED" \/ percent < 99 THEN percent ELSE 99
    IN [row EXCEPT !.there = TRUE, !.status = status,
                   !.percent = IF capped > @ THEN capped ELSE @,
                   !.checkpoint.checks = checks]

\* SaveLessonProgressService, with the checks the player has at this moment.
SaveProgress(w) ==
    \E percent \in {0, 100}, checks \in SUBSET Checks :
        /\ BagCardinality(log) < MaxEvents
        /\ Begin(w, "save",
                 [adds |-> Settled(checks \ db[Progress].checkpoint.checks)], "commit")
        /\ Put(w, Progress :> Applied(db[Progress], percent, checks))
        /\ UNCHANGED db

\* RecordTopicAnswersService: a check counts when no event of it is committed.
QuickQuiz(w) ==
    \E c \in Checks :
        /\ BagCardinality(log) < MaxEvents /\ ~Logged("LESSON_BLOCK_COMPLETED", c)
        /\ Begin(w, "quiz", [adds |-> Settled({c})], "commit")
        /\ UNCHANGED <<db, tx>>

-----------------------------------------------------------------------------
(* The practice exit *)

\* Only the latest attempt counts.
Waits(practice) ==
    practice # <<>> /\ LET last == practice[Len(practice)]
                       IN ~last.passed /\ last.at + 1 > now

\* The progress row is loaded, or added, and with it the checkpoint.
StartExit(w) ==
    /\ ~Waits(db[Progress].checkpoint.practice)
    /\ Begin(w, "start", [row |-> [db[Progress] EXCEPT !.there = TRUE]], "resume")
    /\ Put(w, Progress :> [db[Progress] EXCEPT !.there = TRUE])
    /\ UNCHANGED db

\* _resume: an open exit is given back; an abandoned or expired one is forgotten.
Resume(w) ==
    /\ at[w] = "resume" /\ ~Flushing(w)
    /\ LET row == job[w].row
           exit == row.checkpoint.exit
           open == /\ exit # None
                   /\ db[Attempt(exit)].status = "IN_PROGRESS" /\ ~Stale(db[Attempt(exit)])
       IN IF open
          THEN Goto(w, "commit") /\ UNCHANGED <<tx, job>>
          ELSE /\ PutLoaded(w, Progress :> row,
                            Progress :> [row EXCEPT !.checkpoint.exit = None])
               /\ Remember(w, [forgot |-> exit # None])
               /\ Goto(w, "persist")
    /\ UNCHANGED db

Unused == {a \in Exits : /\ ~db[Attempt(a)].there
                         /\ \A w \in Workers : Attempt(a) \notin Holds(w)}

\* The attempt is created - the queries before it flush what was forgotten - and marked.
\* The marker is put into the dictionary that was assigned with the old one taken out:
\* to the session that is no change, and no UPDATE follows.
Persist(w) ==
    /\ at[w] = "persist" /\ ~Flushing(w)
    /\ \E a \in Unused :
          LET row == job[w].row
              created == Locked(tx[w], Attempt(a) :> NewAttempt(now))
          IN tx' = [tx EXCEPT ![w] =
                      IF job[w].forgot THEN created
                      ELSE Assign(created, Progress :> row,
                                  Progress :> [row EXCEPT !.checkpoint.exit = a])]
    /\ Goto(w, "commit")
    /\ UNCHANGED <<db, job>>

Graded(w, attempt) == [attempt EXCEPT !.status = "COMPLETED", !.passed = job[w].passed,
                                      !.right = job[w].right, !.day = Day]

\* Mutant: the attempt is updated by its id alone.
CompleteUnguarded(w) ==
    LET row == Attempt(job[w].attempt)
    IN /\ at[w] = "complete" /\ FreeFor(w, row)
       /\ Write(w, row :> Graded(w, See(w, row)))
       /\ Goto(w, IF job[w].hint THEN "judge" ELSE "commit")
       /\ Remember(w, [created |-> TRUE, adds |-> job[w].answers])
       /\ UNCHANGED db

\* What came out of the attempt: its score, and what was answered right or wrong.  The
\* questions of an exit are not followed.
Submit(w) ==
    \E a \in Exits \cup Sets, passed \in BOOLEAN, hint \in BOOLEAN, right \in SUBSET Questions :
        /\ db[Attempt(a)].there /\ db[Attempt(a)].status = "IN_PROGRESS"
        /\ a \in Exits \/ (~hint /\ passed)
        /\ a \in Sets \/ right = {}
        /\ Begin(w, "submit",
                 [attempt |-> a, passed |-> passed, hint |-> hint, right |-> right,
                  created |-> FALSE, verdict |-> "none",
                  answers |-> {Event("QUESTION_ANSWERED", q, q \in right) :
                                 q \in {q \in Questions : a \in Sets}}], "complete")
        /\ UNCHANGED <<db, tx>>

\* UPDATE ... WHERE status = IN_PROGRESS, and the answers of the one that wins.
Complete(w) ==
    LET row == Attempt(job[w].attempt)
    IN /\ at[w] = "complete" /\ FreeFor(w, row)
       /\ IF See(w, row).status = "IN_PROGRESS"
          THEN /\ Write(w, row :> Graded(w, See(w, row)))
               /\ Goto(w, IF job[w].hint THEN "judge" ELSE "commit")
               /\ Remember(w, [created |-> TRUE, adds |-> job[w].answers])
          ELSE Ended(w)
       /\ UNCHANGED db

\* best_recent: a pass among the last few.
Best(practice) ==
    \E i \in DOMAIN practice : i > Len(practice) - BEST_OF /\ practice[i].passed

\* record_attempt: the marker goes, the oldest of too many records as well.
Recorded(checkpoint, a, passed) ==
    LET all == Append(checkpoint.practice, [attempt |-> a, passed |-> passed, at |-> now])
        first == IF Len(all) > RECORDS_KEPT THEN Len(all) - RECORDS_KEPT + 1 ELSE 1
    IN [checkpoint EXCEPT !.exit = None, !.practice = SubSeq(all, first, Len(all))]

Judged(row, a, passed) ==
    LET checkpoint == Recorded(row.checkpoint, a, passed)
    IN [row EXCEPT !.checkpoint = checkpoint, !.best = Best(checkpoint.practice),
                   !.status = IF passed THEN "COMPLETED" ELSE @,
                   !.percent = IF passed THEN 100 ELSE @]

\* CompletePracticeExitService, in the request of the submit that won: only the attempt
\* the marker names is judged.  Whether it has expired is not asked.
Judge(w) ==
    /\ at[w] = "judge"
    /\ LET a == job[w].attempt
           row == See(w, Progress)
       IN IF row.there /\ row.checkpoint.exit = a
          THEN /\ Put(w, Progress :> Judged(row, a, job[w].passed))
               /\ Remember(w, IF job[w].passed
                              THEN [verdict |-> "passed",
                                    adds |-> Adding(w) \cup {Event("LESSON_COMPLETED", a, TRUE)}]
                              ELSE [verdict |-> "failed"])
          ELSE UNCHANGED <<tx, job>>
    /\ Goto(w, "commit")
    /\ UNCHANGED db

\* A request for another quiz times it out (reap_stale).
Reap(a) ==
    /\ "reap" \in mix
    /\ db[Attempt(a)].there /\ db[Attempt(a)].status = "IN_PROGRESS" /\ Stale(db[Attempt(a)])
    /\ \A w \in Workers : Attempt(a) \notin Holds(w)
    /\ db' = [db EXCEPT ![Attempt(a)].status = "TIMED_OUT"]
    /\ UNCHANGED <<session, mix, now, midnight, log, finished>>

Lesson(w) ==
    \/ SaveProgress(w) \/ QuickQuiz(w) \/ StartExit(w) \/ Resume(w) \/ Persist(w)
    \/ Submit(w) \/ Complete(w) \/ Judge(w)
=============================================================================
