------------------------------ MODULE MCConsole ------------------------------
(* Two subjects with a level each (a third may be created); the first has a topic with *)
(* a question.                                                                 *)
EXTENDS Console

CONSTANTS s1, s2, s3, l1, l2, l3, t1, t2, n1, n2, q1, q2, m1, r1, r2, u1, a1, a2, k1, x, y

Tables == [Subject |-> {s1, s2, s3}, CurriculumLevel |-> {l1, l2, l3}, Topic |-> {t1, t2},
           Lesson |-> {n1, n2}, Question |-> {q1, q2}, SubjectResource |-> {m1},
           AcademicTerm |-> {r1, r2}, User |-> {u1}, Admin |-> {a1, a2}, Work |-> {k1}]
MCRows == UNION {Tables[table] : table \in DOMAIN Tables}
MCTable == [r \in MCRows |-> CHOOSE table \in DOMAIN Tables : r \in Tables[table]]
MCHome == [w \in Workers |-> CHOOSE p \in Procs : TRUE]

MCKeys == [table \in DOMAIN Tables |->
             IF table \in {"Question", "SubjectResource"} THEN {x} ELSE {x, y}]
MCRanges == {<<1, 2>>, <<2, 3>>, <<3, 4>>}

Stored == s1 :> New(None, None, x, x) @@ s2 :> New(None, None, y, y)
          @@ l1 :> New(s1, None, x, None) @@ l2 :> New(s2, None, x, None)
          @@ t1 :> New(s1, l1, x, None) @@ q1 :> New(s1, t1, x, None)
          @@ u1 :> New(None, None, x, None) @@ a1 :> New(None, None, x, "owner")
MCStarts == {[r \in Rows |-> IF r \in DOMAIN Stored THEN Stored[r] ELSE Blank]}

Growing == {"topic.create", "topic.update", "lesson.import", "question.create",
            "question.update", "question.import", "work"}
Cutting == {"subject.delete", "curriculum.delete", "topic.delete", "question.delete"}
TreeMixes ==
    ({{grow, cut} : grow \in Growing, cut \in Cutting}
        \ {{"question.update", "curriculum.delete"}, {"lesson.import", "question.delete"}})
    \cup {{"topic.create", "topic.update", "curriculum.delete"},
          {"curriculum.create", "curriculum.update", "subject.delete"},
          {"subject.create", "subject.update"}, {"lesson.import", "work", "topic.delete"},
          {"material.create", "material.update", "subject.delete"},
          {"material.create", "material.delete", "list"},
          {"student.update", "student.delete", "work"}, {"admin.create", "admin.status"},
          {"academic-term.create", "academic-term.delete"}}

OneAtATime ==
    {kinds \cup {"serial"} :
       kinds \in {{"question.create", "question.update", "topic.create", "list"},
                  {"question.import", "question.delete", "subject.delete", "list"},
                  {"lesson.import", "topic.create", "topic.update", "topic.delete"},
                  {"academic-term.create", "academic-term.update", "academic-term.delete"}}}

MCMixes == TreeMixes \cup OneAtATime

Alike == Permutations(Workers)
=============================================================================
