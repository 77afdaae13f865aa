------------------------------- MODULE Console -------------------------------
(***************************************************************************)
(* What administrators write (app/services/console.py, admin.py,            *)
(* catalogue.py): the tree of subjects, levels, topics and lessons, the      *)
(* question bank, materials, academic terms, students and administrators;    *)
(* the audit row of each change, and the subject catalogue each process      *)
(* keeps.                                                                   *)
(*                                                                         *)
(* All rows are records of the same columns.  `owner' and `parent' are their *)
(* foreign keys, `key' and `mark' what the unique constraints and the checks *)
(* compare; other columns are left out.  The constraints are those of the    *)
(* migration, checked by the statement that writes; a session's statement    *)
(* waits for rows that another has written.  A row's id is never given       *)
(* again (cuid): `used' says that the row has existed.                       *)
(***************************************************************************)
EXTENDS Requests, Integers

CONSTANTS
    Table,          \* [Rows -> the table a row is of]
    Keys,           \* [tables -> the slugs, slots, texts or contacts of its rows]
    Codes,          \* subject codes
    Ranges,         \* the days that a term may begin and end on
    MaxImport,      \* bound: rows of one import
    Procs, Home,    \* processes, and [Workers -> the one that runs it]
    None,
    Starts,         \* databases to begin with, where nothing has been deleted
    Mixes

Subjects == {r \in Rows : Table[r] = "Subject"}
Levels == {r \in Rows : Table[r] = "CurriculumLevel"}
Topics == {r \in Rows : Table[r] = "Topic"}
Lessons == {r \in Rows : Table[r] = "Lesson"}
Questions == {r \in Rows : Table[r] = "Question"}
Materials == {r \in Rows : Table[r] = "SubjectResource"}
Terms == {r \in Rows : Table[r] = "AcademicTerm"}
Students == {r \in Rows : Table[r] = "User"}
Admins == {r \in Rows : Table[r] = "Admin"}
\* What a student did: a response to a question, the progress of a lesson or a topic.
Works == {r \in Rows : Table[r] = "Work"}

Standings == {"owner", "active", "inactive"}

Owners(r) == IF r \in Works THEN Students
             ELSE IF r \in Levels \cup Topics \cup Materials \cup Questions THEN Subjects
             ELSE {None}
Parents(r) == IF r \in Topics THEN Levels \cup {None}
              ELSE IF r \in Questions THEN Topics \cup {None}
              ELSE IF r \in Lessons THEN Topics
              ELSE IF r \in Works THEN Lessons \cup Topics \cup Questions
              ELSE {None}
MarksOf(r) == IF r \in Subjects THEN Codes
              ELSE IF r \in Terms THEN Ranges
              ELSE IF r \in Admins THEN Standings
              ELSE {None}

Blank == [there |-> FALSE, used |-> FALSE, owner |-> None, parent |-> None,
          key |-> None, mark |-> None]
New(owner, parent, key, mark) ==
    [there |-> TRUE, used |-> TRUE, owner |-> owner, parent |-> parent,
     key |-> key, mark |-> mark]
Gone(row) == [row EXCEPT !.there = FALSE]

RowOf(r) ==
    {Blank} \cup [there : BOOLEAN, used : {TRUE}, owner : Owners(r), parent : Parents(r),
                  key : Keys[Table[r]] \cup {None}, mark : MarksOf(r)]

Refs(row) == {row.owner, row.parent} \ {None}

\* What the row takes in its table's unique indexes.
Claims(r, row) ==
    IF r \in Subjects THEN {<<Table[r], "slug", row.key>>, <<Table[r], "code", row.mark>>}
    ELSE IF r \in Levels \cup Topics THEN {<<Table[r], row.owner, row.key>>}
    ELSE IF r \in Terms \cup Students \cup Admins THEN {<<Table[r], row.key>>}
    ELSE {}

Standing(rows) == {r \in Rows : rows[r].there}

\* The tree: what a row refers to is there, no unique constraint is broken, and a topic's
\* level is of its subject.
RefsThere(rows) == \A r \in Standing(rows) : \A p \in Refs(rows[r]) : rows[p].there
KeysUnique(rows) ==
    \A r, q \in Standing(rows) : r # q => Claims(r, rows[r]) \cap Claims(q, rows[q]) = {}
LevelsMatch(rows) ==
    \A t \in Topics \cap Standing(rows) :
        rows[t].parent # None => rows[rows[t].parent].owner = rows[t].owner
IsCatalogue(rows) == RefsThere(rows) /\ KeysUnique(rows) /\ LevelsMatch(rows)

Kinds == {"subject.create", "subject.update", "subject.delete", "curriculum.create",
          "curriculum.update", "curriculum.delete", "topic.create", "topic.update",
          "topic.delete", "lesson.import", "question.create", "question.update",
          "question.delete", "question.import", "material.create", "material.update",
          "material.delete", "academic-term.create", "academic-term.update",
          "academic-term.delete", "student.update", "student.delete", "admin.create",
          "admin.status", "work", "list"}

ASSUME ConsoleAssumption ==
    /\ Table \in [Rows -> DOMAIN Keys]
    /\ None \notin Rows
    /\ Ranges \subseteq {d \in Int \X Int : d[1] < d[2]} /\ MaxImport \in Nat
    /\ Home \in [Workers -> Procs]
    /\ Mixes \subseteq SUBSET (Kinds \cup {"serial"})
    /\ \A rows \in Starts :
          /\ DOMAIN rows = Rows /\ IsCatalogue(rows)
          /\ \A r \in Rows : rows[r] \in RowOf(r) /\ (rows[r].used => rows[r].there)

VARIABLES
    cache,      \* [Procs -> the subject catalogue it keeps, or None]
    trail,      \* the audit rows of deletions, each with the rows it stands for
    lost        \* history: those that were not written, only logged

world == <<cache, trail, lost, mix>>
vars == <<db, tx, at, job, cache, trail, lost, mix>>
Quiet == UNCHANGED world

Init ==
    /\ mix \in Mixes
    /\ \E rows \in Starts : RequestsInit(rows)
    /\ cache = [p \in Procs |-> None]
    /\ trail = {} /\ lost = {}

-----------------------------------------------------------------------------
(* Statements: constraints, cascades and waits *)

\* ON DELETE CASCADE: with a subject its levels, topics and materials, with a student what
\* the student did, with a topic its lessons.
Owns(r) == r \in Levels \cup Topics \cup Materials \cup Works
Swept(rows, deleted) ==
    LET owned == deleted \cup {r \in Rows : rows[r].there /\ Owns(r) /\ rows[r].owner \in deleted}
    IN owned \cup {r \in Lessons : rows[r].there /\ rows[r].parent \in owned}

Deleted(w) == {r \in Dirty(w) : tx[w].dirty[r].loaded.there /\ ~tx[w].dirty[r].assigned.there}
Sweep(w) == Swept(Written(w), Deleted(w))

\* The rows as w will have them once it has flushed.
AfterSweep(w, sweep) ==
    LET written == Written(w)
    IN [r \in Rows |-> IF r \in sweep THEN Gone(written[r]) ELSE written[r]]
After(w) == AfterSweep(w, Sweep(w))

\* The foreign keys of what is written, and of what refers to what is deleted.
RefsHold(w, after, sweep) ==
    \A r \in Standing(after) :
        r \in Dirty(w) \/ Refs(after[r]) \cap sweep # {} => \A p \in Refs(after[r]) : after[p].there

KeysFree(w, after) ==
    \A r \in Dirty(w) \cap Standing(after) : \A q \in Standing(after) \ {r} :
        Claims(r, after[r]) \cap Claims(q, after[q]) = {}

\* It waits for another session that has written a row that refers to what it deletes or
\* claims the same key, or has deleted what it refers to.
Unblocked(w, after, sweep) ==
    \A v \in Workers \ {w} : \A q \in Holds(v) :
        LET other == tx[v].own[q]
        IN IF other.there
           THEN /\ Refs(other) \cap sweep = {}
                /\ \A r \in Dirty(w) \cap Standing(after) :
                      Claims(r, after[r]) \cap Claims(q, other) = {}
           ELSE \A r \in Dirty(w) \cap Standing(after) : q \notin Refs(after[r])

Flushes(w) ==
    /\ FreeAll(w, Dirty(w) \cup Sweep(w)) /\ ~Conflicts(w)
    /\ RefsHold(w, After(w), Sweep(w)) /\ KeysFree(w, After(w)) /\ Unblocked(w, After(w), Sweep(w))

FlushRows(w) ==
    /\ Flushing(w) /\ at[w] # "commit" /\ Flushes(w)
    /\ LET after == After(w)
       IN tx' = [tx EXCEPT ![w] =
                   [own |-> [r \in Holds(w) \cup Dirty(w) \cup Sweep(w) |-> after[r]],
                    dirty |-> <<>>]]
    /\ UNCHANGED <<db, at, job>> /\ Quiet

Removals == {"subject.delete", "curriculum.delete", "topic.delete", "material.delete",
             "academic-term.delete", "student.delete"}
Deletions == Removals \cup {"question.delete"}
Entry(w) == [action |-> job[w].kind, rows |-> job[w].rows]
Audited(w, audit) == job[w].kind \in Deletions /\ job[w].audit = audit

\* The audit row is of the same transaction.
CommitRows(w) ==
    /\ at[w] = "commit" /\ Flushes(w)
    /\ db' = After(w)
    /\ trail' = IF Audited(w, "written") THEN trail \cup {Entry(w)} ELSE trail
    /\ lost' = IF Audited(w, "logged") THEN lost \cup {Entry(w)} ELSE lost
    /\ Ended(w)
    /\ UNCHANGED <<cache, mix>>

Rollback(w) == RollbackSession(w) /\ Quiet

Seen(w) == [r \in Rows |-> See(w, r)]

\* A new id: nobody has it, and nobody will be given it again.
Fresh(table) ==
    {r \in table : ~db[r].used /\ \A v \in Workers : r \notin Holds(v) \cup Dirty(v)}

There(table) == {r \in table : db[r].there}

\* A handler has made its checks and assigned to the rows; what it writes is audited next.
Change(w, kind, values, step) ==
    /\ Begin(w, kind, [rows |-> DOMAIN values, audit |-> "none"], step)
    /\ Put(w, values)
    /\ UNCHANGED db /\ Quiet

\* Its checks allow it to delete the row, which it does when that is audited.
Remove(w, kind, r) ==
    /\ Begin(w, kind, [rows |-> {r}, audit |-> "none"], "audit")
    /\ UNCHANGED <<db, tx>> /\ Quiet

-----------------------------------------------------------------------------
(* Subjects, levels, topics *)

CreateSubject(w) ==
    \E s \in Fresh(Subjects), name \in Keys["Subject"], code \in Codes :
        Change(w, "subject.create", Only(s, New(None, None, name, code)), "audit")

UpdateSubject(w) ==
    \E s \in There(Subjects), name \in Keys["Subject"], code \in Codes :
        Change(w, "subject.update", Only(s, [db[s] EXCEPT !.key = name, !.mark = code]), "audit")

DeleteSubject(w) ==
    \E s \in There(Subjects) :
        /\ \A q \in There(Questions) : db[q].owner # s
        /\ Remove(w, "subject.delete", s)

SlotFree(subject, slot) ==
    \A l \in There(Levels) : ~(db[l].owner = subject /\ db[l].key = slot)

CreateCurriculum(w) ==
    \E l \in Fresh(Levels), s \in There(Subjects), slot \in Keys["CurriculumLevel"] :
        /\ SlotFree(s, slot)
        /\ Change(w, "curriculum.create", Only(l, New(s, None, slot, None)), "audit")

UpdateCurriculum(w) ==
    \E l \in There(Levels), slot \in Keys["CurriculumLevel"] :
        /\ slot = db[l].key \/ SlotFree(db[l].owner, slot)
        /\ Change(w, "curriculum.update", Only(l, [db[l] EXCEPT !.key = slot]), "audit")

DeleteCurriculum(w) ==
    \E l \in There(Levels) :
        /\ \A t \in There(Topics) : db[t].parent # l
        /\ Remove(w, "curriculum.delete", l)

CreateTopic(w) ==
    \E t \in Fresh(Topics), l \in There(Levels), slug \in Keys["Topic"] :
        /\ \A other \in There(Topics) : ~(db[other].owner = db[l].owner /\ db[other].key = slug)
        /\ Change(w, "topic.create", Only(t, New(db[l].owner, l, slug, None)), "audit")

\* Mutant: the level may be of any subject.
UpdateTopicAnywhere(w) ==
    \E t \in There(Topics), slug \in Keys["Topic"], l \in There(Levels) :
        Change(w, "topic.update", Only(t, [db[t] EXCEPT !.key = slug, !.parent = l]), "audit")

UpdateTopic(w) ==
    \E t \in There(Topics), slug \in Keys["Topic"], l \in There(Levels) \cup {None} :
        /\ l # None => db[l].owner = db[t].owner
        /\ Change(w, "topic.update",
                  Only(t, [db[t] EXCEPT !.key = slug, !.parent = IF l = None THEN @ ELSE l]),
                  "audit")

DeleteTopic(w) ==
    \E t \in There(Topics) :
        /\ \A q \in There(Questions) : db[q].parent # t
        /\ Remove(w, "topic.delete", t)

-----------------------------------------------------------------------------
(* Lessons and materials *)

LessonsOf(topic) == {l \in There(Lessons) : db[l].parent = topic}

\* The latest lesson of the topic gets the note, or a new one under "Core Concepts".
ImportLesson(w) ==
    \E t \in There(Topics), note \in Keys["Lesson"] :
        IF LessonsOf(t) # {}
        THEN \E l \in LessonsOf(t) :
                 Change(w, "lesson.import", Only(l, [db[l] EXCEPT !.key = note]), "audit")
        ELSE \E l \in Fresh(Lessons) :
                 Change(w, "lesson.import", Only(l, New(None, t, note, None)), "audit")

CreateMaterial(w) ==
    \E m \in Fresh(Materials), s \in There(Subjects), title \in Keys["SubjectResource"] :
        Change(w, "material.create", Only(m, New(s, None, title, None)), "audit")

UpdateMaterial(w) ==
    \E m \in There(Materials), title \in Keys["SubjectResource"] :
        Change(w, "material.update", Only(m, [db[m] EXCEPT !.key = title]), "audit")

DeleteMaterial(w) == \E m \in There(Materials) : Remove(w, "material.delete", m)

-----------------------------------------------------------------------------
(* Questions *)

TopicsOf(subject) == {t \in There(Topics) : db[t].owner = subject} \cup {None}

CreateQuestion(w) ==
    \E q \in Fresh(Questions), s \in There(Subjects), text \in Keys["Question"] : \E t \in TopicsOf(s) :
        Change(w, "question.create", Only(q, New(s, t, text, None)), "audit")

\* The fields are assigned first, and flushed by the query of the topic or the subject.
UpdateQuestion(w) ==
    \E q \in There(Questions), s \in Subjects, t \in Topics \cup {None}, text \in Keys["Question"] :
        LET row == [db[q] EXCEPT !.owner = s, !.parent = t, !.key = text]
        IN /\ Begin(w, "question.update", [rows |-> {q}, audit |-> "none", row |-> row], "validate")
           /\ Put(w, Only(q, row))
           /\ UNCHANGED db /\ Quiet

\* The question as the session has it in memory.
Validate(w) ==
    /\ at[w] = "validate" /\ ~Flushing(w)
    /\ LET row == job[w].row
       IN /\ row.parent # None => /\ See(w, row.parent).there
                                  /\ See(w, row.parent).owner = row.owner
          /\ See(w, row.owner).there
    /\ Goto(w, "audit")
    /\ UNCHANGED <<db, tx, job>> /\ Quiet

DeleteQuestions(w) ==
    \E ids \in SUBSET Questions :
        /\ ids # {}
        /\ Begin(w, "question.delete", [rows |-> {}, audit |-> "none", left |-> ids], "each")
        /\ UNCHANGED <<db, tx>> /\ Quiet

\* usage_counts
Deletable(w, q) ==
    See(w, q).there /\ \A r \in Works : See(w, r).there => See(w, r).parent # q

\* Mutant: it is audited when the last id was deleted.
DeleteOneLast(w) ==
    /\ at[w] = "each" /\ ~Flushing(w)
    /\ \E q \in job[w].left :
          LET deletes == Deletable(w, q)
              rows == IF deletes THEN job[w].rows \cup {q} ELSE job[w].rows
              left == job[w].left \ {q}
          IN /\ IF deletes THEN Put(w, Only(q, Gone(See(w, q)))) ELSE UNCHANGED tx
             /\ Keep(w, [job[w] EXCEPT !.rows = rows, !.left = left])
             /\ Goto(w, IF left # {} THEN "each" ELSE IF deletes THEN "audit" ELSE "commit")
    /\ UNCHANGED db /\ Quiet

\* One id: deleted, refused or not found.  What is deleted is flushed by the next query.
DeleteOne(w) ==
    /\ at[w] = "each" /\ ~Flushing(w)
    /\ \E q \in job[w].left :
          LET deletes == Deletable(w, q)
              rows == IF deletes THEN job[w].rows \cup {q} ELSE job[w].rows
              left == job[w].left \ {q}
          IN /\ IF deletes THEN Put(w, Only(q, Gone(See(w, q)))) ELSE UNCHANGED tx
             /\ Keep(w, [job[w] EXCEPT !.rows = rows, !.left = left])
             /\ Goto(w, IF left # {} THEN "each" ELSE IF rows = {} THEN "commit" ELSE "audit")
    /\ UNCHANGED db /\ Quiet

ImportQuestions(w) ==
    \E n \in 1 .. MaxImport, skip \in BOOLEAN :
        /\ Begin(w, "question.import",
                 [rows |-> {}, audit |-> "none", left |-> n, skip |-> skip], "import")
        /\ UNCHANGED <<db, tx>> /\ Quiet

\* duplicate_id
Duplicate(w, subject, text) ==
    \E q \in Questions : See(w, q).there /\ See(w, q).owner = subject /\ See(w, q).key = text

Imported(w, rows) ==
    /\ Keep(w, [job[w] EXCEPT !.rows = rows, !.left = @ - 1])
    /\ Goto(w, IF job[w].left > 1 THEN "import" ELSE IF rows = {} THEN "commit" ELSE "audit")

\* One row of the import: in error, skipped, or inserted.
ImportRow(w) ==
    /\ at[w] = "import" /\ ~Flushing(w)
    /\ \/ Imported(w, job[w].rows) /\ UNCHANGED tx
       \/ \E s \in There(Subjects), text \in Keys["Question"] : \E t \in TopicsOf(s) :
             /\ ~(job[w].skip /\ Duplicate(w, s, text))
             /\ \E q \in Fresh(Questions) : /\ Put(w, Only(q, New(s, t, text, None)))
                                           /\ Imported(w, job[w].rows \cup {q})
    /\ UNCHANGED db /\ Quiet

-----------------------------------------------------------------------------
(* Academic terms *)

Overlap(a, b) == a[1] <= b[2] /\ b[1] <= a[2]

\* validate_term_ranges, of the rows in the table with this one among them.
TermsValid(rows, ids) ==
    \A r, q \in ids : r # q => rows[r].key # rows[q].key /\ ~Overlap(rows[r].mark, rows[q].mark)

\* Mutant: the first day is stored as the last.
CreateTermBackwards(w) ==
    \E r \in Fresh(Terms), key \in Keys["AcademicTerm"], range \in Ranges :
        LET row == New(None, None, key, <<range[2], range[1]>>)
        IN /\ TermsValid([db EXCEPT ![r] = row], There(Terms) \cup {r})
           /\ Change(w, "academic-term.create", Only(r, row), "audit")

CreateTerm(w) ==
    \E r \in Fresh(Terms), key \in Keys["AcademicTerm"], range \in Ranges :
        LET row == New(None, None, key, range)
        IN /\ TermsValid([db EXCEPT ![r] = row], There(Terms) \cup {r})
           /\ Change(w, "academic-term.create", Only(r, row), "audit")

UpdateTerm(w) ==
    \E r \in There(Terms), key \in Keys["AcademicTerm"], range \in Ranges :
        LET row == [db[r] EXCEPT !.key = key, !.mark = range]
        IN /\ TermsValid([db EXCEPT ![r] = row], There(Terms))
           /\ Change(w, "academic-term.update", Only(r, row), "audit")

DeleteTerm(w) == \E r \in There(Terms) : Remove(w, "academic-term.delete", r)

-----------------------------------------------------------------------------
(* Students and administrators *)

UpdateStudent(w) ==
    \E u \in There(Students), contact \in Keys["User"] :
        Change(w, "student.update", Only(u, [db[u] EXCEPT !.key = contact]), "audit")

DeleteStudent(w) == \E u \in There(Students) : Remove(w, "student.delete", u)

CreateAdmin(w) ==
    \E a \in Fresh(Admins), ident \in Keys["Admin"] :
        Change(w, "admin.create", Only(a, New(None, None, ident, "active")), "audit")

SetAdminStatus(w) ==
    \E a \in There(Admins), standing \in {"active", "inactive"} :
        /\ db[a].mark = "owner" => standing = "active"
        /\ Change(w, "admin.status",
                  Only(a, [db[a] EXCEPT !.mark = IF @ = "owner" THEN @ ELSE standing]), "audit")

\* A student answers a question, or moves on in a lesson or a topic.
DoWork(w) ==
    \E r \in Fresh(Works), u \in There(Students),
       on \in There(Lessons) \cup There(Topics) \cup There(Questions) :
        Change(w, "work", Only(r, New(u, on, None, None)), "commit")

-----------------------------------------------------------------------------
(* The audit, and the catalogue of subjects *)

Busting == {"subject.create", "subject.update", "subject.delete", "lesson.import",
            "question.create", "question.update", "question.delete", "question.import"}

\* Mutant: the catalogue is kept.
AuditKeepsCatalogue(w) ==
    /\ at[w] = "audit" /\ ~Flushing(w)
    /\ \E audit \in {"written", "logged"} :
          Keep(w, IF job[w].kind \in Deletions THEN [job[w] EXCEPT !.audit = audit] ELSE job[w])
    /\ IF job[w].kind \in Removals
       THEN Put(w, [r \in job[w].rows |-> Gone(See(w, r))])
       ELSE UNCHANGED tx
    /\ Goto(w, "commit")
    /\ UNCHANGED <<db, world>>

\* RecordAuditService: a savepoint of its own, whose failure is only logged.  It flushes
\* what was assigned.  Then the row is removed, and the process's catalogue dropped.
Audit(w) ==
    /\ at[w] = "audit" /\ ~Flushing(w)
    /\ \E audit \in {"written", "logged"} :
          Keep(w, IF job[w].kind \in Deletions THEN [job[w] EXCEPT !.audit = audit] ELSE job[w])
    /\ IF job[w].kind \in Removals
       THEN Put(w, [r \in job[w].rows |-> Gone(See(w, r))])
       ELSE UNCHANGED tx
    /\ cache' = IF job[w].kind \in Busting THEN [cache EXCEPT ![Home[w]] = None] ELSE cache
    /\ Goto(w, "commit")
    /\ UNCHANGED <<db, trail, lost, mix>>

\* What ListSubjectsService lists: the subjects, and the questions it counts.
Catalogue(rows) ==
    LET here(table) == {r \in table : rows[r].there}
    IN [subjects |-> {<<s, rows[s].key, rows[s].mark>> : s \in here(Subjects)},
        questions |-> {<<q, rows[q].owner>> : q \in here(Questions)}]

ListSubjects(w) ==
    /\ cache[Home[w]] = None
    /\ Begin(w, "list", [rows |-> {}, audit |-> "none", payload |-> Catalogue(db)], "store")
    /\ UNCHANGED <<db, tx>> /\ Quiet

StoreSubjects(w) ==
    /\ at[w] = "store"
    /\ cache' = [cache EXCEPT ![Home[w]] = job[w].payload]
    /\ Goto(w, "commit")
    /\ UNCHANGED <<db, tx, job, trail, lost, mix>>

\* CATALOGUE_TTL has passed.
Expire(p) ==
    /\ cache[p] # None
    /\ cache' = [cache EXCEPT ![p] = None]
    /\ UNCHANGED <<db, session, trail, lost, mix>>

-----------------------------------------------------------------------------

Next ==
    \/ \E p \in Procs : Expire(p)
    \/ \E w \in Workers :
          \/ CreateSubject(w) \/ UpdateSubject(w) \/ DeleteSubject(w)
          \/ CreateCurriculum(w) \/ UpdateCurriculum(w) \/ DeleteCurriculum(w)
          \/ CreateTopic(w) \/ UpdateTopic(w) \/ DeleteTopic(w) \/ ImportLesson(w)
          \/ CreateMaterial(w) \/ UpdateMaterial(w) \/ DeleteMaterial(w)
          \/ CreateQuestion(w) \/ UpdateQuestion(w) \/ DeleteQuestions(w) \/ ImportQuestions(w)
          \/ CreateTerm(w) \/ UpdateTerm(w) \/ DeleteTerm(w)
          \/ UpdateStudent(w) \/ DeleteStudent(w) \/ CreateAdmin(w) \/ SetAdminStatus(w)
          \/ DoWork(w) \/ ListSubjects(w)
          \/ Validate(w) \/ DeleteOne(w) \/ ImportRow(w) \/ Audit(w) \/ StoreSubjects(w)
          \/ CommitRows(w) \/ Rollback(w) \/ FlushRows(w)

Spec == Init /\ [][Next]_vars

-----------------------------------------------------------------------------
(* Properties *)

TypeOK ==
    /\ DOMAIN db = Rows /\ \A r \in Rows : db[r] \in RowOf(r)
    /\ cache \in [Procs -> {None} \cup [subjects : SUBSET (Subjects \X (Keys["Subject"] \cup {None}) \X Codes),
                                         questions : SUBSET (Questions \X Subjects)]]
    /\ trail \cup lost \subseteq [action : Deletions, rows : SUBSET Rows]

\* Whatever administrators and students do at once, what a row refers to stays (a student's
\* work keeps its question, its lesson and the lesson's topic), keys stay unique, and a
\* topic's level is of the topic's subject (console.py:1028 checks it on what it read).
TreeSound == IsCatalogue(db)

\* A row that is gone while what it belonged to stands was deleted by name, and the audit
\* says so unless its own write failed; it names nothing that is still there
\* (admin.py:57, console.py:762).
AuditTells ==
    /\ \A r \in Rows :
          db[r].used /\ ~db[r].there /\ (\A p \in Refs(db[r]) : db[p].there) =>
              \E e \in trail \cup lost : r \in e.rows
    /\ \A e \in trail \cup lost, r \in Rows : r \in e.rows => db[r].used /\ ~db[r].there

QuestionTopics ==
    \A q \in There(Questions) : db[q].parent # None => db[db[q].parent].owner = db[q].owner
TermsDisjoint == TermsValid(db, There(Terms))
OneLesson == \A t \in Topics : \A l, m \in LessonsOf(t) : l = m

\* When nothing is under way, a process lists the subjects as they are stored: what changes
\* them has dropped the catalogue (catalogue.py:16, docs/backend-port/README.md:66).
CatalogueCurrent ==
    (\A w \in Workers : at[w] = "idle") => \A p \in Procs : cache[p] \in {None, Catalogue(db)}

\* One request at a time: a question's topic is of its subject, academic terms do not
\* overlap, a topic has one lesson (console.py:170, :1297, :480), and a process lists what is
\* stored.  Requests that meet can break each of them: the checks are on rows that nothing
\* locks, and the catalogue is dropped before the commit.
SerialSound ==
    "serial" \in mix => QuestionTopics /\ TermsDisjoint /\ OneLesson /\ CatalogueCurrent
=============================================================================
