------------------------------ MODULE Attempts ------------------------------
(***************************************************************************)
(* The life of one student's assessment attempts, as the concurrent       *)
(* requests of app/services/assessments/service.py move it: generating or *)
(* resuming a paper (which reaps stale attempts first), submitting it, and *)
(* grading a pretest.                                                      *)
(*                                                                         *)
(* Every request is one database transaction (app/database/db.py:58-65)   *)
(* under READ COMMITTED.  A read sees the rows committed when the          *)
(* statement runs; an UPDATE takes the row's lock, waits for its holder to *)
(* end, and evaluates its WHERE on the row the holder left; writes become  *)
(* visible, and locks are released, at COMMIT or ROLLBACK.  So a request   *)
(* is a record of what it has read and of the rows it has written, the row *)
(* lock of an attempt is its membership in some request's `wrote', and     *)
(* only Commit changes what the others see.                                *)
(***************************************************************************)
EXTENDS Integers, FiniteSets

CONSTANTS
    Attempts,   \* AssessmentAttempt ids the run may create
    Pretests,   \* those created by StartPretestService and graded by its PUT
    Mocks,      \* those created by GenerateScopedMockService
    PastPapers, \* those created by StartPastPaperService
    PaperOf,    \* [Attempts -> kind of paper]: subject, type, exam, year, count
    Requests,   \* request handlers that may run at the same time
    None        \* "no attempt"

ASSUME AttemptsAssumption ==
    /\ Pretests \subseteq Attempts
    /\ Mocks \subseteq Attempts \ Pretests
    /\ PastPapers \subseteq Attempts \ (Pretests \cup Mocks)
    /\ None \notin Attempts
    /\ IsFiniteSet(Attempts) /\ IsFiniteSet(Requests)

VARIABLES
    status,     \* AssessmentAttempt.status, committed ("ABSENT" before INSERT)
    stale,      \* attempts for which _is_stale has become true
    responses,  \* attempts with committed QuestionResponse rows
    answered,   \* committed batches of QUESTION_ANSWERED events, per attempt
    abandoned,  \* committed batches of QUIZ_ABANDONED events, per attempt
    txn,        \* what each request has read and written so far
    reply       \* the last answer each request's client got from /submit

vars == <<status, stale, responses, answered, abandoned, txn, reply>>

Quizzes == Attempts \ Pretests          \* papers only /submit grades
Generated == Quizzes \ (Mocks \cup PastPapers)  \* those looked up before created
Status == {"ABSENT", "IN_PROGRESS", "COMPLETED", "TIMED_OUT"}
Terminal == {"COMPLETED", "TIMED_OUT"}

\* Where a request is: reaping and creating belong to generate, submitting
\* and graded to submit, pretesting and pretested to the pretest's PUT.
Places == {"idle", "reaping", "creating", "submitting", "graded",
           "pretesting", "pretested"}

Txn == [at : Places, target : Attempts \cup {None}, todo : SUBSET Attempts,
        wrote : SUBSET Attempts]
At(p, a) == [at |-> p, target |-> a, todo |-> {}, wrote |-> {}]
Idle == At("idle", None)

Reply == [kind : {"none", "created", "replayed", "conflict"},
          attempt : Attempts \cup {None}]

TypeOK ==
    /\ status \in [Attempts -> Status]
    /\ stale \in SUBSET Attempts
    /\ responses \in SUBSET Attempts
    /\ answered \in [Attempts -> Nat]
    /\ abandoned \in [Attempts -> Nat]
    /\ txn \in [Requests -> Txn]
    /\ reply \in [Requests -> Reply]

Init ==
    /\ status = [a \in Attempts |-> "ABSENT"]
    /\ stale = {}
    /\ responses = {}
    /\ answered = [a \in Attempts |-> 0]
    /\ abandoned = [a \in Attempts |-> 0]
    /\ txn = [r \in Requests |-> Idle]
    /\ reply = [r \in Requests |-> [kind |-> "none", attempt |-> None]]

-----------------------------------------------------------------------------
\* Another request has updated the row and has not ended.
LockedByOther(r, a) == \E q \in Requests \ {r} : a \in txn[q].wrote

End(r) == txn' = [txn EXCEPT ![r] = Idle]

Answer(r, k, a) == reply' = [reply EXCEPT ![r] = [kind |-> k, attempt |-> a]]

\* The rows a request's own statements see as open: committed IN_PROGRESS
\* ones it has not itself updated.
OpenFor(r) == {a \in Attempts : status[a] = "IN_PROGRESS"} \ txn[r].wrote

\* COMMIT of a generate: its reaped attempts time out, each with one
\* QUIZ_ABANDONED event per topic.
Reaped(r) ==
    abandoned' = [a \in Attempts |->
                    IF a \in txn[r].wrote THEN abandoned[a] + 1 ELSE abandoned[a]]
\* Mutant: the reaper writes a status that the enum does not have.
StatusAfterReapWrongEnum(r) ==
    [a \in Attempts |-> IF a \in txn[r].wrote THEN "EXPIRED" ELSE status[a]]
StatusAfterReap(r) ==
    [a \in Attempts |-> IF a \in txn[r].wrote THEN "TIMED_OUT" ELSE status[a]]

\* The clock passes deadline + grace (timed) or start + 24 hours (untimed).
BecomeStale(a) ==
    /\ status[a] = "IN_PROGRESS"
    /\ a \notin stale
    /\ stale' = stale \cup {a}
    /\ UNCHANGED <<status, responses, answered, abandoned, txn, reply>>

\* A pretest or a scoped mock: always a new paper, nothing reaped or resumed.
StartPaper(a) ==
    /\ a \in Pretests \cup Mocks
    /\ status[a] = "ABSENT"
    /\ status' = [status EXCEPT ![a] = "IN_PROGRESS"]
    /\ UNCHANGED <<stale, responses, answered, abandoned, txn, reply>>

-----------------------------------------------------------------------------
(* POST /assessments/generate, /jamb and /past-paper: reap, resume, create *)

\* reap_stale reads the student's open attempts and keeps the stale ones.
\* `target' names a paper of the requested kind.
Generate(r, a) ==
    /\ txn[r].at = "idle"
    /\ a \in Quizzes \ Mocks
    /\ txn' = [txn EXCEPT ![r] =
                 [at |-> "reaping", target |-> a, wrote |-> {},
                  todo |-> {b \in stale : status[b] = "IN_PROGRESS"}]]
    /\ UNCHANGED <<status, stale, responses, answered, abandoned, reply>>

\* Mutant: rowcount is not looked at, so a lost compare-and-swap still counts.
ReapUnchecked(r, a) ==
    /\ txn[r].at = "reaping"
    /\ a \in txn[r].todo
    /\ ~LockedByOther(r, a)
    /\ txn' = [txn EXCEPT ![r].todo = @ \ {a}, ![r].wrote = @ \cup {a}]
    /\ UNCHANGED <<status, stale, responses, answered, abandoned, reply>>

\* UPDATE ... SET status = TIMED_OUT WHERE id AND status = IN_PROGRESS; a
\* rowcount of 0 leaves the attempt alone.  The rows come in no given order.
Reap(r, a) ==
    /\ txn[r].at = "reaping"
    /\ a \in txn[r].todo
    /\ ~LockedByOther(r, a)
    /\ txn' = [txn EXCEPT
                 ![r].todo = @ \ {a},
                 ![r].wrote = IF status[a] = "IN_PROGRESS" THEN @ \cup {a} ELSE @]
    /\ UNCHANGED <<status, stale, responses, answered, abandoned, reply>>

\* A past paper is never resumed: each start is a new attempt.
Resumable(r) ==
    {a \in OpenFor(r) \ stale : /\ txn[r].target \notin PastPapers
                               /\ PaperOf[a] = PaperOf[txn[r].target]}

\* _resume finds an open paper of the kind: the request commits what it reaped.
Resume(r) ==
    /\ txn[r].at = "reaping" /\ txn[r].todo = {}
    /\ Resumable(r) # {}
    /\ status' = StatusAfterReap(r)
    /\ Reaped(r)
    /\ End(r)
    /\ UNCHANGED <<stale, responses, answered, reply>>

\* _resume finds none: questions are picked for a new paper.
Pick(r) ==
    /\ txn[r].at = "reaping" /\ txn[r].todo = {}
    /\ Resumable(r) = {}
    /\ txn' = [txn EXCEPT ![r].at = "creating"]
    /\ UNCHANGED <<status, stale, responses, answered, abandoned, reply>>

\* _persist and the COMMIT: the new attempt and the reaped ones appear together.
Create(r, a) ==
    /\ txn[r].at = "creating"
    /\ a \in Quizzes \ Mocks
    /\ a \in PastPapers <=> txn[r].target \in PastPapers
    /\ PaperOf[a] = PaperOf[txn[r].target]
    /\ status[a] = "ABSENT"
    /\ status' = [StatusAfterReap(r) EXCEPT ![a] = "IN_PROGRESS"]
    /\ Reaped(r)
    /\ End(r)
    /\ UNCHANGED <<stale, responses, answered, reply>>

\* The bank has no question for it: ApiError 404 or 503, and even the reaping
\* is rolled back.
NoQuestions(r) ==
    /\ txn[r].at = "creating"
    /\ End(r)
    /\ UNCHANGED <<status, stale, responses, answered, abandoned, reply>>

-----------------------------------------------------------------------------
(* POST /assessments/submit *)

\* _load, and the early return for an attempt already graded.  The deadline
\* is not looked at: an attempt nobody has reaped is still graded.
Submit(r, a) ==
    /\ txn[r].at = "idle"
    /\ status[a] # "ABSENT"
    /\ IF status[a] = "COMPLETED"
       THEN Answer(r, "replayed", a) /\ UNCHANGED txn
       ELSE /\ txn' = [txn EXCEPT ![r] = At("submitting", a)]
            /\ UNCHANGED reply
    /\ UNCHANGED <<status, stale, responses, answered, abandoned>>

\* Mutant: _complete uses the repository's update(), which commits mid-way.
GradeCommitsEarly(r) ==
    /\ txn[r].at = "submitting"
    /\ ~LockedByOther(r, txn[r].target)
    /\ status[txn[r].target] = "IN_PROGRESS"
    /\ status' = [status EXCEPT ![txn[r].target] = "COMPLETED"]
    /\ txn' = [txn EXCEPT ![r].at = "graded"]
    /\ UNCHANGED <<stale, responses, answered, abandoned, reply>>

\* _complete: UPDATE ... WHERE id AND status = IN_PROGRESS matches.
Grade(r) ==
    /\ txn[r].at = "submitting"
    /\ ~LockedByOther(r, txn[r].target)
    /\ status[txn[r].target] = "IN_PROGRESS"
    /\ txn' = [txn EXCEPT ![r].at = "graded", ![r].wrote = {txn[r].target}]
    /\ UNCHANGED <<status, stale, responses, answered, abandoned, reply>>

\* Mutant: after the lost UPDATE only a COMPLETED attempt is answered; for any
\* other status the handler waits for the result to appear.
GradeLostWaits(r) ==
    /\ txn[r].at = "submitting"
    /\ status[txn[r].target] = "COMPLETED"
    /\ Answer(r, "replayed", txn[r].target)
    /\ End(r)
    /\ UNCHANGED <<status, stale, responses, answered, abandoned>>

\* _complete matches no row: re-read, then replay the result or answer 409.
GradeLost(r) ==
    /\ txn[r].at = "submitting"
    /\ ~LockedByOther(r, txn[r].target)
    /\ status[txn[r].target] # "IN_PROGRESS"
    /\ Answer(r, IF status[txn[r].target] = "COMPLETED"
                 THEN "replayed" ELSE "conflict", txn[r].target)
    /\ End(r)
    /\ UNCHANGED <<status, stale, responses, answered, abandoned>>

\* _persist_responses and the COMMIT: a row and an event per question.
CommitGrade(r) ==
    /\ txn[r].at = "graded"
    /\ status' = [status EXCEPT ![txn[r].target] = "COMPLETED"]
    /\ responses' = responses \cup {txn[r].target}
    /\ answered' = [answered EXCEPT ![txn[r].target] = @ + 1]
    /\ Answer(r, "created", txn[r].target)
    /\ End(r)
    /\ UNCHANGED <<stale, abandoned>>

-----------------------------------------------------------------------------
(* PUT /learning-path/topics/{id}/pretest *)

\* _load_attempt refuses an attempt that is not open.
LoadPretest(r, a) ==
    /\ txn[r].at = "idle"
    /\ a \in Pretests
    /\ status[a] = "IN_PROGRESS"
    /\ txn' = [txn EXCEPT ![r] = At("pretesting", a)]
    /\ UNCHANGED <<status, stale, responses, answered, abandoned, reply>>

\* _grade_answers and _complete flush: response rows, unique per attempt and
\* question, and an UPDATE by id alone.  A list with no answers adds no row.
WritePretest(r, blank) ==
    /\ txn[r].at = "pretesting"
    /\ ~LockedByOther(r, txn[r].target)
    /\ IF ~blank /\ txn[r].target \in responses
       THEN End(r)                              \* IntegrityError: rolled back
       ELSE txn' = [txn EXCEPT ![r].at = "pretested",
                               ![r].wrote = {txn[r].target},
                               ![r].todo = IF blank THEN {} ELSE {txn[r].target}]
    /\ UNCHANGED <<status, stale, responses, answered, abandoned, reply>>

\* The COMMIT.  No QUESTION_ANSWERED event is written for a pretest's answers.
CommitPretest(r) ==
    /\ txn[r].at = "pretested"
    /\ status' = [status EXCEPT ![txn[r].target] = "COMPLETED"]
    /\ responses' = responses \cup txn[r].todo
    /\ End(r)
    /\ UNCHANGED <<stale, answered, abandoned, reply>>

-----------------------------------------------------------------------------
\* An ApiError, a lost connection or a restart: nothing of the request stays.
Rollback(r) ==
    /\ txn[r].at # "idle"
    /\ End(r)
    /\ UNCHANGED <<status, stale, responses, answered, abandoned, reply>>

\* The rows the request's next statement may have to wait for.
Wanted(r) == IF txn[r].at = "reaping" THEN txn[r].todo
             ELSE IF txn[r].at \in {"submitting", "pretesting"}
             THEN {txn[r].target} ELSE {}

\* Requests that wait for each other's rows; PostgreSQL rolls one back.
Deadlocked(r) ==
    \E D \in SUBSET Requests :
        /\ r \in D
        /\ \A q \in D : /\ Wanted(q) # {}
                        /\ \A a \in Wanted(q) :
                             \E h \in D \ {q} : a \in txn[h].wrote

BreakDeadlock(r) == Deadlocked(r) /\ Rollback(r)

\* What the server does with a request it has accepted.
Serve(r) ==
    \/ \E a \in Attempts : Reap(r, a) \/ Create(r, a)
    \/ Resume(r) \/ Pick(r) \/ NoQuestions(r)
    \/ Grade(r) \/ GradeLost(r) \/ CommitGrade(r)
    \/ \E blank \in BOOLEAN : WritePretest(r, blank)
    \/ CommitPretest(r)
    \/ BreakDeadlock(r)

Next ==
    \/ \E a \in Attempts : BecomeStale(a) \/ StartPaper(a)
    \/ \E r \in Requests, a \in Attempts :
          Generate(r, a) \/ Submit(r, a) \/ LoadPretest(r, a)
    \/ \E r \in Requests : Serve(r) \/ Rollback(r)

Spec == Init /\ [][Next]_vars

-----------------------------------------------------------------------------
(* Safety *)

\* Whatever requests race, a quiz's status and the evidence it left agree: a
\* graded one has its response rows and exactly one batch of answers, a timed
\* out one exactly one batch of abandons, an open one neither.
EvidenceMatchesStatus ==
    \A a \in Quizzes :
        /\ answered[a] = IF status[a] = "COMPLETED" THEN 1 ELSE 0
        /\ abandoned[a] = IF status[a] = "TIMED_OUT" THEN 1 ELSE 0
        /\ a \in responses <=> status[a] = "COMPLETED"

\* No attempt, pretests included, feeds the mastery model twice: two submits,
\* two reapers, or a submit and a reaper never both leave their events.
EvidenceAtMostOnce == \A a \in Attempts : answered[a] + abandoned[a] <= 1

\* What /submit told a client stays true: a result (fresh or replayed) is of a
\* graded attempt whose rows are stored, a 409 of one that timed out for good.
AnswersHold ==
    \A r \in Requests :
        LET a == reply[r].attempt IN
        /\ reply[r].kind \in {"created", "replayed"} =>
             status[a] = "COMPLETED" /\ (a \in Quizzes => a \in responses)
        /\ reply[r].kind = "conflict" /\ a \in Quizzes =>
             status[a] = "TIMED_OUT" /\ a \notin responses

\* All three: whatever races, the learning model is fed by each outcome, once, and what
\* clients were told of it stays true.
OutcomesRight == EvidenceMatchesStatus /\ EvidenceAtMostOnce /\ AnswersHold

\* A quiz that was graded or timed out is never graded, timed out or reopened
\* again, and no attempt at all returns to IN_PROGRESS.
TerminalIsFinal ==
    [][\A a \in Attempts :
         status[a] \in Terminal =>
            /\ status'[a] \in Terminal
            /\ a \in Quizzes => status'[a] = status[a]]_vars

\* Only a stale attempt times out, and an attempt a submit has claimed never does.
OnlyStaleTimeOut ==
    [][\A a \in Attempts :
         status'[a] = "TIMED_OUT" /\ status[a] # "TIMED_OUT" =>
            /\ a \in stale
            /\ \A r \in Requests :
                  a \in txn[r].wrote => txn[r].at \in {"reaping", "creating"}]_vars

(* Waiting *)

\* Reapers lock several rows in any order and may wait for each other and for submits: among
\* any requests under way one can take its next step, or waits for a row of another one.
NobodyStuck ==
    \A waiting \in SUBSET {r \in Requests : txn[r].at # "idle"} :
        waiting # {} =>
            \E r \in waiting :
                \/ ENABLED Serve(r)
                \/ \E q \in Requests \ waiting : Wanted(r) \cap txn[q].wrote # {}

-----------------------------------------------------------------------------
(* What the documents say of pretests, refuted by the runs that check it *)

\* "Grading completes the attempt like any other quiz": a pretest that timed
\* out, and left its abandon event, is not graded afterwards.
PretestGradedLikeQuiz ==
    \A a \in Pretests : ~(status[a] = "COMPLETED" /\ abandoned[a] > 0)

\* "Every graded answer ... appends a LearningEvent".
GradedAnswersLeaveEvents == \A a \in responses : answered[a] > 0

(***************************************************************************)
(* The abstract ledger the quizzes implement.                              *)
(***************************************************************************)
LedgerState(a) == CASE status[a] = "ABSENT" -> "none"
                    [] status[a] = "IN_PROGRESS" -> "open"
                    [] status[a] = "COMPLETED" -> "graded"
                    [] status[a] = "TIMED_OUT" -> "abandoned"

Ledger == INSTANCE AttemptLedger WITH
    Papers <- Quizzes,
    ledger <- [a \in Quizzes |-> LedgerState(a)],
    late <- stale \cap Quizzes,
    evidence <- [a \in Quizzes |-> <<answered[a], abandoned[a]>>]

\* Row locks, stale reads and partial work are invisible: to anyone who looks at
\* committed rows a quiz goes from open to graded or abandoned in one step
\* together with its evidence.
ImplementsLedger == Ledger!Spec
=============================================================================
