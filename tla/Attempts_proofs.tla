--------------------------- MODULE Attempts_proofs ---------------------------
(***************************************************************************)
(* What TLAPS proves of Attempts, for any number of attempts and of        *)
(* concurrent requests.                                                    *)
(***************************************************************************)
EXTENDS Attempts, TLAPS

\* What a request holds at each place: which rows it may have written, and that
\* two requests never hold the same row.
RowLocks ==
    \A r \in Requests :
        /\ txn[r].at \in {"idle", "submitting", "pretesting"} => txn[r].wrote = {}
        /\ txn[r].at \in {"reaping", "creating"} =>
             txn[r].wrote \subseteq stale /\ txn[r].todo \subseteq stale
        /\ txn[r].at # "idle" => txn[r].target \in Attempts
        /\ txn[r].at \in {"graded", "pretested"} => txn[r].wrote = {txn[r].target}
        /\ txn[r].at \in {"pretesting", "pretested"} => txn[r].target \in Pretests
        /\ txn[r].at = "pretested" => txn[r].todo \subseteq {txn[r].target}
        /\ \A q \in Requests \ {r} : txn[q].wrote \cap txn[r].wrote = {}

\* A row claimed by a guarded UPDATE stays open until its holder commits, and
\* a submit's attempt exists.
ClaimedOpen ==
    \A r \in Requests :
        /\ txn[r].at # "pretested" =>
             \A a \in txn[r].wrote : status[a] = "IN_PROGRESS"
        /\ txn[r].at = "submitting" => status[txn[r].target] # "ABSENT"

\* Every answer given names an attempt.
AnswersNamed ==
    \A r \in Requests : reply[r].kind # "none" => reply[r].attempt \in Attempts

\* An attempt without a terminal status has left no trace yet.
OpenIsClean ==
    \A a \in Attempts :
        status[a] \notin Terminal =>
            answered[a] = 0 /\ abandoned[a] = 0 /\ a \notin responses

IInv ==
    /\ TypeOK
    /\ RowLocks
    /\ ClaimedOpen
    /\ OpenIsClean
    /\ EvidenceMatchesStatus
    /\ EvidenceAtMostOnce
    /\ AnswersNamed
    /\ AnswersHold

-----------------------------------------------------------------------------
\* The record of a request that has ended, or has only loaded an attempt.
LEMMA IdleIsTxn ==
    /\ Idle \in Txn
    /\ \A a \in Attempts, p \in Places : At(p, a) \in Txn
    BY DEF Idle, At, Txn, Places

\* Replacing one request's record by another well-typed record keeps the type.
LEMMA TxnUpdate ==
    ASSUME TypeOK, NEW r \in Requests, NEW t \in Txn,
           txn' = [txn EXCEPT ![r] = t]
    PROVE  txn' \in [Requests -> Txn]
    BY DEF TypeOK

LEMMA TypePreserved == IInv /\ [Next]_vars => TypeOK'
<1> SUFFICES ASSUME IInv, [Next]_vars PROVE TypeOK'
    OBVIOUS
<1> USE AttemptsAssumption DEF IInv, TypeOK, Txn, Places, Reply, Status, Terminal, Quizzes, Generated
<1>1. ASSUME NEW a \in Attempts, BecomeStale(a)
      PROVE  TypeOK'
    BY <1>1 DEF BecomeStale
<1>2. ASSUME NEW a \in Attempts, StartPaper(a)
      PROVE  TypeOK'
    BY <1>2 DEF StartPaper
<1>3. ASSUME NEW r \in Requests, NEW a \in Attempts, Generate(r, a)
      PROVE  TypeOK'
    BY <1>3 DEF Generate, Idle, At
<1>4. ASSUME NEW r \in Requests, NEW a \in Attempts, Submit(r, a)
      PROVE  TypeOK'
    <2>1. CASE status[a] = "COMPLETED"
        BY <1>4, <2>1 DEF Submit, Answer
    <2>2. CASE status[a] # "COMPLETED"
        BY <1>4, <2>2, IdleIsTxn DEF Submit, At
    <2>3. QED
        BY <2>1, <2>2
<1>5. ASSUME NEW r \in Requests, NEW a \in Attempts, LoadPretest(r, a)
      PROVE  TypeOK'
    BY <1>5 DEF LoadPretest, Idle, At
<1>6. ASSUME NEW r \in Requests, NEW a \in Attempts, Reap(r, a)
      PROVE  TypeOK'
    <2>1. txn[r] \in Txn
        OBVIOUS
    <2>2. [txn[r] EXCEPT !.todo = @ \ {a}, !.wrote = IF status[a] = "IN_PROGRESS" THEN @ \cup {a} ELSE @] \in Txn
        BY <1>6, <2>1
    <2>3. txn' = [txn EXCEPT ![r] = [txn[r] EXCEPT !.todo = @ \ {a}, !.wrote = IF status[a] = "IN_PROGRESS" THEN @ \cup {a} ELSE @]]
        BY <1>6 DEF Reap
    <2>4. txn' \in [Requests -> Txn]
        BY <2>2, <2>3, TxnUpdate
    <2>5. QED
        BY <1>6, <2>4 DEF Reap
<1>7. ASSUME NEW r \in Requests, NEW a \in Attempts, Create(r, a)
      PROVE  TypeOK'
    BY <1>7 DEF Create, StatusAfterReap, Reaped, End, Idle, At
<1>8. ASSUME NEW r \in Requests, Resume(r)
      PROVE  TypeOK'
    BY <1>8 DEF Resume, StatusAfterReap, Reaped, End, Idle, At
<1>9. ASSUME NEW r \in Requests, Pick(r)
      PROVE  TypeOK'
    <2>1. txn[r] \in Txn
        OBVIOUS
    <2>2. [txn[r] EXCEPT !.at = "creating"] \in Txn
        BY <1>9, <2>1
    <2>3. txn' = [txn EXCEPT ![r] = [txn[r] EXCEPT !.at = "creating"]]
        BY <1>9 DEF Pick
    <2>4. txn' \in [Requests -> Txn]
        BY <2>2, <2>3, TxnUpdate
    <2>5. QED
        BY <1>9, <2>4 DEF Pick
<1>10. ASSUME NEW r \in Requests, Grade(r)
      PROVE  TypeOK'
    <2>1. txn[r] \in Txn
        OBVIOUS
    <2>2. [txn[r] EXCEPT !.at = "graded", !.wrote = {txn[r].target}] \in Txn
        BY <1>10, <2>1, RowLocks DEF RowLocks, Grade
    <2>3. txn' = [txn EXCEPT ![r] = [txn[r] EXCEPT !.at = "graded", !.wrote = {txn[r].target}]]
        BY <1>10 DEF Grade
    <2>4. txn' \in [Requests -> Txn]
        BY <2>2, <2>3, TxnUpdate
    <2>5. QED
        BY <1>10, <2>4 DEF Grade
<1>11. ASSUME NEW r \in Requests, GradeLost(r)
      PROVE  TypeOK'
    BY <1>11 DEF GradeLost, Answer, End, Idle, At
<1>12. ASSUME NEW r \in Requests, CommitGrade(r)
      PROVE  TypeOK'
    <2>1. txn' \in [Requests -> Txn]
        BY <1>12, IdleIsTxn, TxnUpdate DEF CommitGrade, End
    <2>2. txn[r].target \in Attempts
        BY <1>12 DEF CommitGrade, RowLocks
    <2>3. reply' \in [Requests -> Reply]
        BY <1>12, <2>2 DEF CommitGrade, Answer
    <2>4. answered' \in [Attempts -> Nat] /\ status' \in [Attempts -> Status]
        BY <1>12, <2>2 DEF CommitGrade
    <2>5. responses' \in SUBSET Attempts
        BY <1>12, <2>2 DEF CommitGrade
    <2>6. QED
        BY <1>12, <2>1, <2>3, <2>4, <2>5 DEF CommitGrade
<1>13. ASSUME NEW r \in Requests, NEW blank \in BOOLEAN, WritePretest(r, blank)
      PROVE  TypeOK'
    <2>1. txn[r].target \in Attempts /\ txn[r] \in Txn
        BY <1>13 DEF WritePretest, RowLocks
    <2>2. CASE txn' = [txn EXCEPT ![r] = Idle]
        BY <1>13, <2>2, IdleIsTxn, TxnUpdate DEF WritePretest
    <2>3. CASE txn' # [txn EXCEPT ![r] = Idle]
        <3> DEFINE t == [at |-> "pretested", target |-> txn[r].target,
                         todo |-> IF blank THEN {} ELSE {txn[r].target},
                         wrote |-> {txn[r].target}]
        <3>1. t \in Txn
            BY <2>1
        <3>2. txn' = [txn EXCEPT ![r] = t]
            BY <1>13, <2>1, <2>3 DEF WritePretest, End
        <3>3. txn' \in [Requests -> Txn]
            BY <3>1, <3>2, TxnUpdate
        <3>4. QED
            BY <1>13, <3>3 DEF WritePretest
    <2>4. QED
        BY <2>2, <2>3
<1>14. ASSUME NEW r \in Requests, CommitPretest(r)
      PROVE  TypeOK'
    BY <1>14 DEF CommitPretest, End, Idle, At
<1>15. ASSUME NEW r \in Requests, NoQuestions(r) \/ Rollback(r)
      PROVE  TypeOK'
    <2>1. txn' \in [Requests -> Txn]
        BY <1>15, IdleIsTxn, TxnUpdate DEF NoQuestions, Rollback, End
    <2>2. QED
        BY <1>15, <2>1 DEF NoQuestions, Rollback
<1>16. ASSUME UNCHANGED vars
      PROVE  TypeOK'
    BY <1>16 DEF vars
<1>17. QED
    BY <1>1, <1>2, <1>3, <1>4, <1>5, <1>6, <1>7, <1>8, <1>9, <1>10, <1>11, <1>12, <1>13, <1>14, <1>15, <1>16 DEF Next, Serve, BreakDeadlock

LEMMA LocksPreserved == IInv /\ [Next]_vars => RowLocks'
<1> SUFFICES ASSUME IInv, [Next]_vars PROVE RowLocks'
    OBVIOUS
<1> USE AttemptsAssumption DEF IInv, TypeOK, Txn, Places, Reply, Status, Terminal, Quizzes, Generated, RowLocks
<1>1. ASSUME NEW a \in Attempts, BecomeStale(a)
      PROVE  RowLocks'
    BY <1>1 DEF BecomeStale
<1>2. ASSUME NEW a \in Attempts, StartPaper(a)
      PROVE  RowLocks'
    BY <1>2 DEF StartPaper
<1>3. ASSUME NEW r \in Requests, NEW a \in Attempts, Generate(r, a)
      PROVE  RowLocks'
    BY <1>3 DEF Generate, Idle, At
<1>4. ASSUME NEW r \in Requests, NEW a \in Attempts, Submit(r, a)
      PROVE  RowLocks'
    <2>1. CASE status[a] = "COMPLETED"
        BY <1>4, <2>1 DEF Submit, Answer
    <2>2. CASE status[a] # "COMPLETED"
        <3>1. /\ txn'[r] = [at |-> "submitting", target |-> a, todo |-> {}, wrote |-> {}]
              /\ \A q \in Requests \ {r} : txn'[q] = txn[q]
              /\ stale' = stale
            BY <1>4, <2>2 DEF Submit, At
        <3>2. QED
            BY <3>1
    <2>3. QED
        BY <2>1, <2>2
<1>5. ASSUME NEW r \in Requests, NEW a \in Attempts, LoadPretest(r, a)
      PROVE  RowLocks'
    BY <1>5 DEF LoadPretest, Idle, At
<1>6. ASSUME NEW r \in Requests, NEW a \in Attempts, Reap(r, a)
      PROVE  RowLocks'
    BY <1>6 DEF Reap, LockedByOther
<1>7. ASSUME NEW r \in Requests, NEW a \in Attempts, Create(r, a)
      PROVE  RowLocks'
    BY <1>7 DEF Create, StatusAfterReap, Reaped, End, Idle, At
<1>8. ASSUME NEW r \in Requests, Resume(r)
      PROVE  RowLocks'
    BY <1>8 DEF Resume, StatusAfterReap, Reaped, End, Idle, At
<1>9. ASSUME NEW r \in Requests, Pick(r)
      PROVE  RowLocks'
    BY <1>9 DEF Pick
<1>10. ASSUME NEW r \in Requests, Grade(r)
      PROVE  RowLocks'
    BY <1>10 DEF Grade, LockedByOther
<1>11. ASSUME NEW r \in Requests, GradeLost(r)
      PROVE  RowLocks'
    BY <1>11 DEF GradeLost, Answer, End, Idle, At
<1>12. ASSUME NEW r \in Requests, CommitGrade(r)
      PROVE  RowLocks'
    BY <1>12 DEF CommitGrade, Answer, End, Idle, At
<1>13. ASSUME NEW r \in Requests, NEW blank \in BOOLEAN, WritePretest(r, blank)
      PROVE  RowLocks'
    <2>1. CASE txn' = [txn EXCEPT ![r] = Idle]
        BY <1>13, <2>1 DEF WritePretest, Idle, At
    <2>2. CASE txn' # [txn EXCEPT ![r] = Idle]
        <3> DEFINE t == [at |-> "pretested", target |-> txn[r].target,
                         todo |-> IF blank THEN {} ELSE {txn[r].target},
                         wrote |-> {txn[r].target}]
        <3>1. txn' = [txn EXCEPT ![r] = t]
            BY <1>13, <2>2 DEF WritePretest, End
        <3>2. \A q \in Requests \ {r} : txn[r].target \notin txn[q].wrote
            BY <1>13 DEF WritePretest, LockedByOther
        <3>3. txn[r].target \in Pretests /\ txn[r].target \in Attempts
            BY <1>13 DEF WritePretest
        <3>4. /\ txn'[r] = t
              /\ \A q \in Requests \ {r} : txn'[q] = txn[q]
              /\ stale' = stale
            BY <1>13, <3>1 DEF WritePretest
        <3>5. QED
            BY <3>2, <3>3, <3>4
    <2>3. QED
        BY <2>1, <2>2
<1>14. ASSUME NEW r \in Requests, CommitPretest(r)
      PROVE  RowLocks'
    BY <1>14 DEF CommitPretest, End, Idle, At
<1>15. ASSUME NEW r \in Requests, NoQuestions(r) \/ Rollback(r)
      PROVE  RowLocks'
    BY <1>15 DEF NoQuestions, Rollback, End, Idle, At
<1>16. ASSUME UNCHANGED vars
      PROVE  RowLocks'
    BY <1>16 DEF vars
<1>17. QED
    BY <1>1, <1>2, <1>3, <1>4, <1>5, <1>6, <1>7, <1>8, <1>9, <1>10, <1>11, <1>12, <1>13, <1>14, <1>15, <1>16 DEF Next, Serve, BreakDeadlock

LEMMA ClaimsPreserved == IInv /\ [Next]_vars => ClaimedOpen'
<1> SUFFICES ASSUME IInv, [Next]_vars PROVE ClaimedOpen'
    OBVIOUS
<1> USE AttemptsAssumption DEF IInv, TypeOK, Txn, Places, Reply, Status, Terminal, Quizzes, Generated, RowLocks, ClaimedOpen
<1>1. ASSUME NEW a \in Attempts, BecomeStale(a)
      PROVE  ClaimedOpen'
    BY <1>1 DEF BecomeStale
<1>2. ASSUME NEW a \in Attempts, StartPaper(a)
      PROVE  ClaimedOpen'
    BY <1>2 DEF StartPaper
<1>3. ASSUME NEW r \in Requests, NEW a \in Attempts, Generate(r, a)
      PROVE  ClaimedOpen'
    BY <1>3 DEF Generate, Idle, At
<1>4. ASSUME NEW r \in Requests, NEW a \in Attempts, Submit(r, a)
      PROVE  ClaimedOpen'
    <2>1. CASE status[a] = "COMPLETED"
        BY <1>4, <2>1 DEF Submit, Answer
    <2>2. CASE status[a] # "COMPLETED"
        BY <1>4, <2>2, IdleIsTxn DEF Submit, At
    <2>3. QED
        BY <2>1, <2>2
<1>5. ASSUME NEW r \in Requests, NEW a \in Attempts, LoadPretest(r, a)
      PROVE  ClaimedOpen'
    BY <1>5 DEF LoadPretest, Idle, At
<1>6. ASSUME NEW r \in Requests, NEW a \in Attempts, Reap(r, a)
      PROVE  ClaimedOpen'
    BY <1>6 DEF Reap, LockedByOther
<1>7. ASSUME NEW r \in Requests, NEW a \in Attempts, Create(r, a)
      PROVE  ClaimedOpen'
    BY <1>7 DEF Create, StatusAfterReap, Reaped, End, Idle, At
<1>8. ASSUME NEW r \in Requests, Resume(r)
      PROVE  ClaimedOpen'
    BY <1>8 DEF Resume, StatusAfterReap, Reaped, End, Idle, At
<1>9. ASSUME NEW r \in Requests, Pick(r)
      PROVE  ClaimedOpen'
    BY <1>9 DEF Pick
<1>10. ASSUME NEW r \in Requests, Grade(r)
      PROVE  ClaimedOpen'
    BY <1>10 DEF Grade, LockedByOther
<1>11. ASSUME NEW r \in Requests, GradeLost(r)
      PROVE  ClaimedOpen'
    BY <1>11 DEF GradeLost, Answer, End, Idle, At
<1>12. ASSUME NEW r \in Requests, CommitGrade(r)
      PROVE  ClaimedOpen'
    BY <1>12 DEF CommitGrade, Answer, End, Idle, At
<1>13. ASSUME NEW r \in Requests, NEW blank \in BOOLEAN, WritePretest(r, blank)
      PROVE  ClaimedOpen'
    BY <1>13 DEF WritePretest, End, Idle, At, LockedByOther
<1>14. ASSUME NEW r \in Requests, CommitPretest(r)
      PROVE  ClaimedOpen'
    BY <1>14 DEF CommitPretest, End, Idle, At
<1>15. ASSUME NEW r \in Requests, NoQuestions(r) \/ Rollback(r)
      PROVE  ClaimedOpen'
    BY <1>15 DEF NoQuestions, Rollback, End, Idle, At
<1>16. ASSUME UNCHANGED vars
      PROVE  ClaimedOpen'
    BY <1>16 DEF vars
<1>17. QED
    BY <1>1, <1>2, <1>3, <1>4, <1>5, <1>6, <1>7, <1>8, <1>9, <1>10, <1>11, <1>12, <1>13, <1>14, <1>15, <1>16 DEF Next, Serve, BreakDeadlock

LEMMA CleanPreserved == IInv /\ [Next]_vars => OpenIsClean'
<1> SUFFICES ASSUME IInv, [Next]_vars PROVE OpenIsClean'
    OBVIOUS
<1> USE AttemptsAssumption DEF IInv, TypeOK, Txn, Places, Reply, Status, Terminal, Quizzes, Generated, RowLocks, ClaimedOpen, OpenIsClean
<1>1. ASSUME NEW a \in Attempts, BecomeStale(a)
      PROVE  OpenIsClean'
    BY <1>1 DEF BecomeStale
<1>2. ASSUME NEW a \in Attempts, StartPaper(a)
      PROVE  OpenIsClean'
    BY <1>2 DEF StartPaper
<1>3. ASSUME NEW r \in Requests, NEW a \in Attempts, Generate(r, a)
      PROVE  OpenIsClean'
    BY <1>3 DEF Generate, Idle, At
<1>4. ASSUME NEW r \in Requests, NEW a \in Attempts, Submit(r, a)
      PROVE  OpenIsClean'
    BY <1>4 DEF Submit, Answer, Idle, At
<1>5. ASSUME NEW r \in Requests, NEW a \in Attempts, LoadPretest(r, a)
      PROVE  OpenIsClean'
    BY <1>5 DEF LoadPretest, Idle, At
<1>6. ASSUME NEW r \in Requests, NEW a \in Attempts, Reap(r, a)
      PROVE  OpenIsClean'
    BY <1>6 DEF Reap, LockedByOther
<1>7. ASSUME NEW r \in Requests, NEW a \in Attempts, Create(r, a)
      PROVE  OpenIsClean'
    BY <1>7 DEF Create, StatusAfterReap, Reaped, End, Idle, At
<1>8. ASSUME NEW r \in Requests, Resume(r)
      PROVE  OpenIsClean'
    BY <1>8 DEF Resume, StatusAfterReap, Reaped, End, Idle, At
<1>9. ASSUME NEW r \in Requests, Pick(r)
      PROVE  OpenIsClean'
    BY <1>9 DEF Pick
<1>10. ASSUME NEW r \in Requests, Grade(r)
      PROVE  OpenIsClean'
    BY <1>10 DEF Grade, LockedByOther
<1>11. ASSUME NEW r \in Requests, GradeLost(r)
      PROVE  OpenIsClean'
    BY <1>11 DEF GradeLost, Answer, End, Idle, At
<1>12. ASSUME NEW r \in Requests, CommitGrade(r)
      PROVE  OpenIsClean'
    BY <1>12 DEF CommitGrade, Answer, End, Idle, At
<1>13. ASSUME NEW r \in Requests, NEW blank \in BOOLEAN, WritePretest(r, blank)
      PROVE  OpenIsClean'
    BY <1>13 DEF WritePretest, End, Idle, At, LockedByOther
<1>14. ASSUME NEW r \in Requests, CommitPretest(r)
      PROVE  OpenIsClean'
    BY <1>14 DEF CommitPretest, End, Idle, At
<1>15. ASSUME NEW r \in Requests, NoQuestions(r) \/ Rollback(r)
      PROVE  OpenIsClean'
    BY <1>15 DEF NoQuestions, Rollback, End, Idle, At
<1>16. ASSUME UNCHANGED vars
      PROVE  OpenIsClean'
    BY <1>16 DEF vars
<1>17. QED
    BY <1>1, <1>2, <1>3, <1>4, <1>5, <1>6, <1>7, <1>8, <1>9, <1>10, <1>11, <1>12, <1>13, <1>14, <1>15, <1>16 DEF Next, Serve, BreakDeadlock

LEMMA EvidencePreserved == IInv /\ [Next]_vars => EvidenceMatchesStatus'
<1> SUFFICES ASSUME IInv, [Next]_vars PROVE EvidenceMatchesStatus'
    OBVIOUS
<1> USE AttemptsAssumption DEF IInv, TypeOK, Txn, Places, Reply, Status, Terminal, Quizzes, Generated, RowLocks, ClaimedOpen, OpenIsClean, EvidenceMatchesStatus
<1>1. ASSUME NEW a \in Attempts, BecomeStale(a)
      PROVE  EvidenceMatchesStatus'
    BY <1>1 DEF BecomeStale
<1>2. ASSUME NEW a \in Attempts, StartPaper(a)
      PROVE  EvidenceMatchesStatus'
    BY <1>2 DEF StartPaper
<1>3. ASSUME NEW r \in Requests, NEW a \in Attempts, Generate(r, a)
      PROVE  EvidenceMatchesStatus'
    BY <1>3 DEF Generate, Idle, At
<1>4. ASSUME NEW r \in Requests, NEW a \in Attempts, Submit(r, a)
      PROVE  EvidenceMatchesStatus'
    BY <1>4 DEF Submit, Answer, Idle, At
<1>5. ASSUME NEW r \in Requests, NEW a \in Attempts, LoadPretest(r, a)
      PROVE  EvidenceMatchesStatus'
    BY <1>5 DEF LoadPretest, Idle, At
<1>6. ASSUME NEW r \in Requests, NEW a \in Attempts, Reap(r, a)
      PROVE  EvidenceMatchesStatus'
    BY <1>6 DEF Reap, LockedByOther
<1>7. ASSUME NEW r \in Requests, NEW a \in Attempts, Create(r, a)
      PROVE  EvidenceMatchesStatus'
    BY <1>7 DEF Create, StatusAfterReap, Reaped, End, Idle, At
<1>8. ASSUME NEW r \in Requests, Resume(r)
      PROVE  EvidenceMatchesStatus'
    BY <1>8 DEF Resume, StatusAfterReap, Reaped, End, Idle, At
<1>9. ASSUME NEW r \in Requests, Pick(r)
      PROVE  EvidenceMatchesStatus'
    BY <1>9 DEF Pick
<1>10. ASSUME NEW r \in Requests, Grade(r)
      PROVE  EvidenceMatchesStatus'
    BY <1>10 DEF Grade, LockedByOther
<1>11. ASSUME NEW r \in Requests, GradeLost(r)
      PROVE  EvidenceMatchesStatus'
    BY <1>11 DEF GradeLost, Answer, End, Idle, At
<1>12. ASSUME NEW r \in Requests, CommitGrade(r)
      PROVE  EvidenceMatchesStatus'
    <2> DEFINE t == txn[r].target
    <2>1. t \in Attempts /\ status[t] = "IN_PROGRESS"
        BY <1>12 DEF CommitGrade
    <2>2. answered[t] = 0 /\ abandoned[t] = 0 /\ t \notin responses
        BY <2>1
    <2>3. status' = [status EXCEPT ![t] = "COMPLETED"]
          /\ answered' = [answered EXCEPT ![t] = 1]
          /\ abandoned' = abandoned /\ responses' = responses \cup {t}
        BY <1>12, <2>1, <2>2 DEF CommitGrade
    <2>4. QED
        BY <2>1, <2>2, <2>3
<1>13. ASSUME NEW r \in Requests, NEW blank \in BOOLEAN, WritePretest(r, blank)
      PROVE  EvidenceMatchesStatus'
    BY <1>13 DEF WritePretest, End, Idle, At, LockedByOther
<1>14. ASSUME NEW r \in Requests, CommitPretest(r)
      PROVE  EvidenceMatchesStatus'
    BY <1>14 DEF CommitPretest, End, Idle, At
<1>15. ASSUME NEW r \in Requests, NoQuestions(r) \/ Rollback(r)
      PROVE  EvidenceMatchesStatus'
    BY <1>15 DEF NoQuestions, Rollback, End, Idle, At
<1>16. ASSUME UNCHANGED vars
      PROVE  EvidenceMatchesStatus'
    BY <1>16 DEF vars
<1>17. QED
    BY <1>1, <1>2, <1>3, <1>4, <1>5, <1>6, <1>7, <1>8, <1>9, <1>10, <1>11, <1>12, <1>13, <1>14, <1>15, <1>16 DEF Next, Serve, BreakDeadlock

LEMMA OncePreserved == IInv /\ [Next]_vars => EvidenceAtMostOnce'
<1> SUFFICES ASSUME IInv, [Next]_vars PROVE EvidenceAtMostOnce'
    OBVIOUS
<1> USE AttemptsAssumption DEF IInv, TypeOK, Txn, Places, Reply, Status, Terminal, Quizzes, Generated, RowLocks, ClaimedOpen, OpenIsClean, EvidenceAtMostOnce
<1>1. ASSUME NEW a \in Attempts, BecomeStale(a)
      PROVE  EvidenceAtMostOnce'
    BY <1>1 DEF BecomeStale
<1>2. ASSUME NEW a \in Attempts, StartPaper(a)
      PROVE  EvidenceAtMostOnce'
    BY <1>2 DEF StartPaper
<1>3. ASSUME NEW r \in Requests, NEW a \in Attempts, Generate(r, a)
      PROVE  EvidenceAtMostOnce'
    BY <1>3 DEF Generate, Idle, At
<1>4. ASSUME NEW r \in Requests, NEW a \in Attempts, Submit(r, a)
      PROVE  EvidenceAtMostOnce'
    BY <1>4 DEF Submit, Answer, Idle, At
<1>5. ASSUME NEW r \in Requests, NEW a \in Attempts, LoadPretest(r, a)
      PROVE  EvidenceAtMostOnce'
    BY <1>5 DEF LoadPretest, Idle, At
<1>6. ASSUME NEW r \in Requests, NEW a \in Attempts, Reap(r, a)
      PROVE  EvidenceAtMostOnce'
    BY <1>6 DEF Reap, LockedByOther
<1>7. ASSUME NEW r \in Requests, NEW a \in Attempts, Create(r, a)
      PROVE  EvidenceAtMostOnce'
    BY <1>7 DEF Create, StatusAfterReap, Reaped, End, Idle, At
<1>8. ASSUME NEW r \in Requests, Resume(r)
      PROVE  EvidenceAtMostOnce'
    BY <1>8 DEF Resume, StatusAfterReap, Reaped, End, Idle, At
<1>9. ASSUME NEW r \in Requests, Pick(r)
      PROVE  EvidenceAtMostOnce'
    BY <1>9 DEF Pick
<1>10. ASSUME NEW r \in Requests, Grade(r)
      PROVE  EvidenceAtMostOnce'
    BY <1>10 DEF Grade, LockedByOther
<1>11. ASSUME NEW r \in Requests, GradeLost(r)
      PROVE  EvidenceAtMostOnce'
    BY <1>11 DEF GradeLost, Answer, End, Idle, At
<1>12. ASSUME NEW r \in Requests, CommitGrade(r)
      PROVE  EvidenceAtMostOnce'
    <2> DEFINE t == txn[r].target
    <2>1. t \in Attempts /\ status[t] = "IN_PROGRESS"
        BY <1>12 DEF CommitGrade
    <2>2. answered[t] = 0 /\ abandoned[t] = 0 /\ t \notin responses
        BY <2>1
    <2>3. status' = [status EXCEPT ![t] = "COMPLETED"]
          /\ answered' = [answered EXCEPT ![t] = 1]
          /\ abandoned' = abandoned /\ responses' = responses \cup {t}
        BY <1>12, <2>1, <2>2 DEF CommitGrade
    <2>4. QED
        BY <2>1, <2>2, <2>3
<1>13. ASSUME NEW r \in Requests, NEW blank \in BOOLEAN, WritePretest(r, blank)
      PROVE  EvidenceAtMostOnce'
    BY <1>13 DEF WritePretest, End, Idle, At, LockedByOther
<1>14. ASSUME NEW r \in Requests, CommitPretest(r)
      PROVE  EvidenceAtMostOnce'
    BY <1>14 DEF CommitPretest, End, Idle, At
<1>15. ASSUME NEW r \in Requests, NoQuestions(r) \/ Rollback(r)
      PROVE  EvidenceAtMostOnce'
    BY <1>15 DEF NoQuestions, Rollback, End, Idle, At
<1>16. ASSUME UNCHANGED vars
      PROVE  EvidenceAtMostOnce'
    BY <1>16 DEF vars
<1>17. QED
    BY <1>1, <1>2, <1>3, <1>4, <1>5, <1>6, <1>7, <1>8, <1>9, <1>10, <1>11, <1>12, <1>13, <1>14, <1>15, <1>16 DEF Next, Serve, BreakDeadlock

LEMMA NamesPreserved == IInv /\ [Next]_vars => AnswersNamed'
<1> SUFFICES ASSUME IInv, [Next]_vars PROVE AnswersNamed'
    OBVIOUS
<1> USE AttemptsAssumption DEF IInv, TypeOK, Txn, Places, Reply, Status, Terminal, Quizzes, Generated, RowLocks, AnswersNamed
<1>1. ASSUME NEW a \in Attempts, BecomeStale(a)
      PROVE  AnswersNamed'
    BY <1>1 DEF BecomeStale
<1>2. ASSUME NEW a \in Attempts, StartPaper(a)
      PROVE  AnswersNamed'
    BY <1>2 DEF StartPaper
<1>3. ASSUME NEW r \in Requests, NEW a \in Attempts, Generate(r, a)
      PROVE  AnswersNamed'
    BY <1>3 DEF Generate, Idle, At
<1>4. ASSUME NEW r \in Requests, NEW a \in Attempts, Submit(r, a)
      PROVE  AnswersNamed'
    BY <1>4 DEF Submit, Answer, Idle, At
<1>5. ASSUME NEW r \in Requests, NEW a \in Attempts, LoadPretest(r, a)
      PROVE  AnswersNamed'
    BY <1>5 DEF LoadPretest, Idle, At
<1>6. ASSUME NEW r \in Requests, NEW a \in Attempts, Reap(r, a)
      PROVE  AnswersNamed'
    BY <1>6 DEF Reap, LockedByOther
<1>7. ASSUME NEW r \in Requests, NEW a \in Attempts, Create(r, a)
      PROVE  AnswersNamed'
    BY <1>7 DEF Create, StatusAfterReap, Reaped, End, Idle, At
<1>8. ASSUME NEW r \in Requests, Resume(r)
      PROVE  AnswersNamed'
    BY <1>8 DEF Resume, StatusAfterReap, Reaped, End, Idle, At
<1>9. ASSUME NEW r \in Requests, Pick(r)
      PROVE  AnswersNamed'
    BY <1>9 DEF Pick
<1>10. ASSUME NEW r \in Requests, Grade(r)
      PROVE  AnswersNamed'
    BY <1>10 DEF Grade, LockedByOther
<1>11. ASSUME NEW r \in Requests, GradeLost(r)
      PROVE  AnswersNamed'
    BY <1>11 DEF GradeLost, Answer, End, Idle, At
<1>12. ASSUME NEW r \in Requests, CommitGrade(r)
      PROVE  AnswersNamed'
    BY <1>12 DEF CommitGrade, Answer, End, Idle, At
<1>13. ASSUME NEW r \in Requests, NEW blank \in BOOLEAN, WritePretest(r, blank)
      PROVE  AnswersNamed'
    BY <1>13 DEF WritePretest, End, Idle, At, LockedByOther
<1>14. ASSUME NEW r \in Requests, CommitPretest(r)
      PROVE  AnswersNamed'
    BY <1>14 DEF CommitPretest, End, Idle, At
<1>15. ASSUME NEW r \in Requests, NoQuestions(r) \/ Rollback(r)
      PROVE  AnswersNamed'
    BY <1>15 DEF NoQuestions, Rollback, End, Idle, At
<1>16. ASSUME UNCHANGED vars
      PROVE  AnswersNamed'
    BY <1>16 DEF vars
<1>17. QED
    BY <1>1, <1>2, <1>3, <1>4, <1>5, <1>6, <1>7, <1>8, <1>9, <1>10, <1>11, <1>12, <1>13, <1>14, <1>15, <1>16 DEF Next, Serve, BreakDeadlock

LEMMA AnswersPreserved == IInv /\ [Next]_vars => AnswersHold'
<1> SUFFICES ASSUME IInv, [Next]_vars PROVE AnswersHold'
    OBVIOUS
<1> USE AttemptsAssumption DEF IInv, TypeOK, Txn, Places, Reply, Status, Terminal, Quizzes, Generated, RowLocks, ClaimedOpen, OpenIsClean, EvidenceMatchesStatus, AnswersNamed, AnswersHold
<1>1. ASSUME NEW a \in Attempts, BecomeStale(a)
      PROVE  AnswersHold'
    BY <1>1 DEF BecomeStale
<1>2. ASSUME NEW a \in Attempts, StartPaper(a)
      PROVE  AnswersHold'
    BY <1>2 DEF StartPaper
<1>3. ASSUME NEW r \in Requests, NEW a \in Attempts, Generate(r, a)
      PROVE  AnswersHold'
    BY <1>3 DEF Generate, Idle, At
<1>4. ASSUME NEW r \in Requests, NEW a \in Attempts, Submit(r, a)
      PROVE  AnswersHold'
    BY <1>4 DEF Submit, Answer, Idle, At
<1>5. ASSUME NEW r \in Requests, NEW a \in Attempts, LoadPretest(r, a)
      PROVE  AnswersHold'
    BY <1>5 DEF LoadPretest, Idle, At
<1>6. ASSUME NEW r \in Requests, NEW a \in Attempts, Reap(r, a)
      PROVE  AnswersHold'
    BY <1>6 DEF Reap, LockedByOther
<1>7. ASSUME NEW r \in Requests, NEW a \in Attempts, Create(r, a)
      PROVE  AnswersHold'
    BY <1>7 DEF Create, StatusAfterReap, Reaped, End, Idle, At
<1>8. ASSUME NEW r \in Requests, Resume(r)
      PROVE  AnswersHold'
    BY <1>8 DEF Resume, StatusAfterReap, Reaped, End, Idle, At
<1>9. ASSUME NEW r \in Requests, Pick(r)
      PROVE  AnswersHold'
    BY <1>9 DEF Pick
<1>10. ASSUME NEW r \in Requests, Grade(r)
      PROVE  AnswersHold'
    BY <1>10 DEF Grade, LockedByOther
<1>11. ASSUME NEW r \in Requests, GradeLost(r)
      PROVE  AnswersHold'
    <2> DEFINE t == txn[r].target
    <2>1. t \in Attempts /\ status[t] # "IN_PROGRESS"
        BY <1>11 DEF GradeLost
    <2>2. reply' = [reply EXCEPT ![r] =
                     [kind |-> IF status[t] = "COMPLETED" THEN "replayed"
                               ELSE "conflict", attempt |-> t]]
        BY <1>11 DEF GradeLost, Answer
    <2>3. status' = status /\ responses' = responses
        BY <1>11 DEF GradeLost
    <2>4. status[t] # "ABSENT"
        BY <1>11 DEF GradeLost
    <2>5. QED
        BY <2>1, <2>2, <2>3, <2>4
<1>12. ASSUME NEW r \in Requests, CommitGrade(r)
      PROVE  AnswersHold'
    BY <1>12 DEF CommitGrade, Answer, End, Idle, At
<1>13. ASSUME NEW r \in Requests, NEW blank \in BOOLEAN, WritePretest(r, blank)
      PROVE  AnswersHold'
    BY <1>13 DEF WritePretest, End, Idle, At, LockedByOther
<1>14. ASSUME NEW r \in Requests, CommitPretest(r)
      PROVE  AnswersHold'
    BY <1>14 DEF CommitPretest, End, Idle, At
<1>15. ASSUME NEW r \in Requests, NoQuestions(r) \/ Rollback(r)
      PROVE  AnswersHold'
    BY <1>15 DEF NoQuestions, Rollback, End, Idle, At
<1>16. ASSUME UNCHANGED vars
      PROVE  AnswersHold'
    BY <1>16 DEF vars
<1>17. QED
    BY <1>1, <1>2, <1>3, <1>4, <1>5, <1>6, <1>7, <1>8, <1>9, <1>10, <1>11, <1>12, <1>13, <1>14, <1>15, <1>16 DEF Next, Serve, BreakDeadlock

-----------------------------------------------------------------------------
LEMMA InitIInv == Init => IInv
    BY AttemptsAssumption
    DEF Init, IInv, TypeOK, RowLocks, ClaimedOpen, OpenIsClean, AnswersNamed,
        EvidenceMatchesStatus, EvidenceAtMostOnce, AnswersHold, Idle, At, Txn,
        Places, Reply, Status, Terminal, Quizzes

\* The inductive invariant holds in every reachable state.
LEMMA Inductive == Spec => []IInv
<1>1. IInv /\ [Next]_vars => IInv'
    <2> SUFFICES ASSUME IInv, [Next]_vars PROVE IInv'
        OBVIOUS
    <2>1. TypeOK' /\ RowLocks' /\ ClaimedOpen' /\ OpenIsClean'
        BY TypePreserved, LocksPreserved, ClaimsPreserved, CleanPreserved
    <2>2. EvidenceMatchesStatus' /\ EvidenceAtMostOnce'
        BY EvidencePreserved, OncePreserved
    <2>3. AnswersNamed' /\ AnswersHold'
        BY NamesPreserved, AnswersPreserved
    <2>4. QED
        BY <2>1, <2>2, <2>3 DEF IInv
<1>2. QED
    BY InitIInv, <1>1, PTL DEF Spec

\* Every variable keeps its type, whatever the requests do.
THEOREM TypeCorrect == Spec => []TypeOK
    BY Inductive, PTL DEF IInv

\* A quiz's status, response rows and evidence always agree (submit, reaper and
\* generate of service.py, any number of them at once).
THEOREM QuizEvidence == Spec => []EvidenceMatchesStatus
    BY Inductive, PTL DEF IInv

\* No attempt leaves two batches of evidence, even with pretests that overwrite
\* a status (GradePretestService._complete).
THEOREM NoDoubleEvidence == Spec => []EvidenceAtMostOnce
    BY Inductive, PTL DEF IInv

\* What /submit answered stays true.
THEOREM HonestAnswers == Spec => []AnswersHold
    BY Inductive, PTL DEF IInv

\* All at once: each outcome leaves its evidence once, and answers stay true.
THEOREM OutcomesAreRight == Spec => []OutcomesRight
    BY QuizEvidence, NoDoubleEvidence, HonestAnswers, PTL DEF OutcomesRight

\* A terminal attempt stays terminal, and a quiz's terminal status is final.
THEOREM FinalStatus == Spec => TerminalIsFinal
<1>1. IInv /\ [Next]_vars =>
        [\A a \in Attempts :
           status[a] \in Terminal =>
              /\ status'[a] \in Terminal
              /\ a \in Quizzes => status'[a] = status[a]]_vars
    <2> SUFFICES ASSUME IInv, Next,
                        NEW a \in Attempts, status[a] \in Terminal
                 PROVE  /\ status'[a] \in Terminal
                        /\ a \in Quizzes => status'[a] = status[a]
        OBVIOUS
    <2> USE AttemptsAssumption DEF IInv, TypeOK, Txn, RowLocks, ClaimedOpen, Status,
            Terminal, Quizzes
    <2>1. CASE status' = status
        BY <2>1
    <2>2. ASSUME NEW b \in Attempts, StartPaper(b)
          PROVE  status'[a] = status[a]
        BY <2>2 DEF StartPaper
    <2>3. ASSUME NEW r \in Requests, NEW b \in Attempts, Create(r, b)
          PROVE  status'[a] = status[a]
        BY <2>3 DEF Create, StatusAfterReap
    <2>4. ASSUME NEW r \in Requests, Resume(r)
          PROVE  status'[a] = status[a]
        BY <2>4 DEF Resume, StatusAfterReap
    <2>5. ASSUME NEW r \in Requests, CommitGrade(r)
          PROVE  status'[a] = status[a]
        BY <2>5 DEF CommitGrade
    <2>6. ASSUME NEW r \in Requests, CommitPretest(r)
          PROVE  /\ status'[a] \in Terminal
                 /\ a \in Quizzes => status'[a] = status[a]
        BY <2>6 DEF CommitPretest
    <2>7. QED
        BY <2>1, <2>2, <2>3, <2>4, <2>5, <2>6
        DEF Next, Serve, BreakDeadlock, BecomeStale, Generate, Submit, LoadPretest,
            Reap, Pick, NoQuestions, Grade, GradeLost, WritePretest, Rollback
<1>2. QED
    BY Inductive, <1>1, PTL DEF Spec, TerminalIsFinal

\* Only a stale attempt times out, never one a submit or a pretest has claimed.
THEOREM StaleTimeOut == Spec => OnlyStaleTimeOut
<1>1. IInv /\ [Next]_vars =>
        [\A a \in Attempts :
           status'[a] = "TIMED_OUT" /\ status[a] # "TIMED_OUT" =>
              /\ a \in stale
              /\ \A r \in Requests :
                    a \in txn[r].wrote =>
                       txn[r].at \in {"reaping", "creating"}]_vars
    <2> SUFFICES ASSUME IInv, Next, NEW a \in Attempts,
                        status'[a] = "TIMED_OUT", status[a] # "TIMED_OUT"
                 PROVE  \E r \in Requests :
                           /\ a \in txn[r].wrote
                           /\ txn[r].at \in {"reaping", "creating"}
        BY DEF IInv, RowLocks
    <2> USE AttemptsAssumption DEF IInv, TypeOK, Txn, RowLocks
    <2>1. ASSUME NEW b \in Attempts, StartPaper(b) PROVE FALSE
        BY <2>1 DEF StartPaper
    <2>2. ASSUME NEW r \in Requests, NEW b \in Attempts, Create(r, b)
          PROVE  a \in txn[r].wrote /\ txn[r].at = "creating"
        BY <2>2 DEF Create, StatusAfterReap
    <2>3. ASSUME NEW r \in Requests, Resume(r)
          PROVE  a \in txn[r].wrote /\ txn[r].at = "reaping"
        BY <2>3 DEF Resume, StatusAfterReap
    <2>4. ASSUME NEW r \in Requests, CommitGrade(r) PROVE FALSE
        BY <2>4 DEF CommitGrade
    <2>5. ASSUME NEW r \in Requests, CommitPretest(r) PROVE FALSE
        BY <2>5 DEF CommitPretest
    <2>6. CASE status' = status
        BY <2>6
    <2>7. QED
        BY <2>1, <2>2, <2>3, <2>4, <2>5, <2>6
        DEF Next, Serve, BreakDeadlock, BecomeStale, Generate, Submit, LoadPretest,
            Reap, Pick, NoQuestions, Grade, GradeLost, WritePretest, Rollback
<1>2. QED
    BY Inductive, <1>1, PTL DEF Spec, OnlyStaleTimeOut

-----------------------------------------------------------------------------
(* Refinement: the quizzes implement AttemptLedger. *)

LEMMA LedgerInit == Init => Ledger!Init
    BY AttemptsAssumption
    DEF Init, Ledger!Init, LedgerState, Quizzes

\* COMMIT of a generate that makes the papers in O.
LEMMA CommitReap ==
    ASSUME IInv, NEW r \in Requests, NEW O \in SUBSET Quizzes,
           NEW A \in SUBSET Quizzes, A = txn[r].wrote \cap Quizzes,
           txn[r].at \in {"reaping", "creating"},
           \A p \in O : status[p] = "ABSENT",
           status' = [p \in Attempts |-> IF p \in O THEN "IN_PROGRESS"
                                         ELSE StatusAfterReap(r)[p]],
           Reaped(r), UNCHANGED <<stale, answered>>
    PROVE  Ledger!OpenAndAbandon(O, A)
<1> USE AttemptsAssumption DEF IInv, TypeOK, Txn, RowLocks, ClaimedOpen, Status, Quizzes
<1>1. \A p \in O : [a \in Quizzes |-> LedgerState(a)][p] = "none"
    BY DEF LedgerState
<1>2. \A p \in A : /\ [a \in Quizzes |-> LedgerState(a)][p] = "open"
                   /\ p \in stale \cap Quizzes
    BY DEF LedgerState
<1>3. \A p \in Quizzes :
         LedgerState(p)' = IF p \in O THEN "open"
                           ELSE IF p \in A THEN "abandoned" ELSE LedgerState(p)
    BY DEF LedgerState, StatusAfterReap
<1>4. \A p \in Quizzes :
         <<answered[p], abandoned[p]>>' =
            IF p \in A THEN <<0, 1>> ELSE <<answered[p], abandoned[p]>>
    BY DEF Reaped, OpenIsClean, Terminal
<1>5. QED
    BY <1>1, <1>2, <1>3, <1>4 DEF Ledger!OpenAndAbandon

LEMMA MoveIsNext ==
    ASSUME NEW O \in SUBSET Quizzes, NEW A \in SUBSET Quizzes,
           Ledger!OpenAndAbandon(O, A)
    PROVE  Ledger!Next
    BY Zenon DEF Ledger!Next

\* Every step of the requests is a step of the ledger or leaves it alone.
LEMMA LedgerStep == IInv /\ [Next]_vars => [Ledger!Next]_(Ledger!lvars)
<1> SUFFICES ASSUME IInv, [Next]_vars PROVE [Ledger!Next]_(Ledger!lvars)
    OBVIOUS
<1> USE AttemptsAssumption DEF IInv, TypeOK, Txn, RowLocks, ClaimedOpen, Status, Quizzes
<1>1. CASE UNCHANGED <<status, stale, answered, abandoned>>
    BY <1>1 DEF Ledger!lvars, LedgerState
<1>2. ASSUME NEW a \in Attempts, BecomeStale(a)
      PROVE  [Ledger!Next]_(Ledger!lvars)
    <2>1. CASE a \in Quizzes
        BY <1>2, <2>1 DEF BecomeStale, Ledger!Next, Ledger!GoLate, LedgerState
    <2>2. CASE a \notin Quizzes
        BY <1>2, <2>2 DEF BecomeStale, Ledger!lvars, LedgerState
    <2>3. QED
        BY <2>1, <2>2
<1>3. ASSUME NEW a \in Attempts, StartPaper(a)
      PROVE  [Ledger!Next]_(Ledger!lvars)
    <2>1. CASE a \in Quizzes
        <3>1. Ledger!OpenAndAbandon({a}, {})
            BY <1>3, <2>1 DEF StartPaper, Ledger!OpenAndAbandon, LedgerState
        <3>2. QED
            BY <2>1, <3>1, MoveIsNext
    <2>2. CASE a \notin Quizzes
        BY <1>3, <2>2 DEF StartPaper, Ledger!lvars, LedgerState
    <2>3. QED
        BY <2>1, <2>2
<1>4. ASSUME NEW r \in Requests, NEW a \in Attempts, Create(r, a)
      PROVE  [Ledger!Next]_(Ledger!lvars)
    <2>1. PICK A \in SUBSET Quizzes : A = txn[r].wrote \cap Quizzes
        OBVIOUS
    <2>2. a \in Quizzes
        BY <1>4 DEF Create
    <2>3. status' = [p \in Attempts |-> IF p \in {a} THEN "IN_PROGRESS"
                                        ELSE StatusAfterReap(r)[p]]
        BY <1>4 DEF Create, StatusAfterReap
    <2>4. /\ txn[r].at \in {"reaping", "creating"}
          /\ \A p \in {a} : status[p] = "ABSENT"
          /\ Reaped(r) /\ UNCHANGED <<stale, answered>>
        BY <1>4 DEF Create
    <2> HIDE DEF IInv, TypeOK, Txn, RowLocks, ClaimedOpen, Status, Quizzes
    <2>5. Ledger!OpenAndAbandon({a}, A)
        BY <2>1, <2>2, <2>3, <2>4, CommitReap
    <2>6. QED
        BY <2>2, <2>5, MoveIsNext
<1>5. ASSUME NEW r \in Requests, Resume(r)
      PROVE  [Ledger!Next]_(Ledger!lvars)
    <2>1. PICK A \in SUBSET Quizzes : A = txn[r].wrote \cap Quizzes
        OBVIOUS
    <2>2. Ledger!OpenAndAbandon({}, A)
        BY <1>5, <2>1, CommitReap DEF Resume, StatusAfterReap
    <2>3. QED
        BY <2>2, MoveIsNext
<1>6. ASSUME NEW r \in Requests, CommitGrade(r)
      PROVE  [Ledger!Next]_(Ledger!lvars)
    <2>1. PICK t \in Attempts : t = txn[r].target /\ status[t] = "IN_PROGRESS"
        BY <1>6 DEF CommitGrade
    <2>2. answered[t] = 0 /\ abandoned[t] = 0
        BY <2>1 DEF OpenIsClean, Terminal
    <2>3. /\ status' = [status EXCEPT ![t] = "COMPLETED"]
          /\ answered' = [answered EXCEPT ![t] = 1]
          /\ UNCHANGED <<abandoned, stale>>
        BY <1>6, <2>1, <2>2 DEF CommitGrade
    <2>4. CASE t \in Quizzes
        <3>1. \A p \in Quizzes :
                 /\ LedgerState(p)' = IF p = t THEN "graded" ELSE LedgerState(p)
                 /\ answered'[p] = IF p = t THEN 1 ELSE answered[p]
                 /\ abandoned'[p] = IF p = t THEN 0 ELSE abandoned[p]
            BY <2>1, <2>2, <2>3 DEF LedgerState
        <3>2. [a \in Quizzes |-> LedgerState(a)][t] = "open"
            BY <2>1, <2>4 DEF LedgerState
        <3>3. Ledger!Grade(t)
            BY <2>3, <2>4, <3>1, <3>2 DEF Ledger!Grade
        <3>4. Ledger!Next
            BY <2>4, <3>3, Zenon DEF Ledger!Next
        <3>5. QED
            BY <3>4
    <2>5. CASE t \notin Quizzes
        BY <2>1, <2>3, <2>5 DEF Ledger!lvars, LedgerState
    <2>6. QED
        BY <2>4, <2>5
<1>7. ASSUME NEW r \in Requests, CommitPretest(r)
      PROVE  [Ledger!Next]_(Ledger!lvars)
    BY <1>7 DEF CommitPretest, Ledger!lvars, LedgerState
<1>8. QED
    BY <1>1, <1>2, <1>3, <1>4, <1>5, <1>6, <1>7
    DEF Next, Serve, BreakDeadlock, Generate, Submit, LoadPretest, Reap, Pick,
        NoQuestions, Grade, GradeLost, WritePretest, Rollback, vars

\* The quizzes of the assessments service implement the abstract ledger: each is
\* graded or abandoned in one step together with its evidence.
THEOREM QuizzesImplementLedger == Spec => ImplementsLedger
    BY Inductive, LedgerInit, LedgerStep, PTL DEF Spec, Ledger!Spec, ImplementsLedger

=============================================================================
