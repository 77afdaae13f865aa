------------------------------ MODULE MCStudy ------------------------------
(* Study with small sets.  Day 1 is a Friday; the plain plans study on the   *)
(* weekend, for one session and a short one a day.                          *)
EXTENDS Study

CONSTANTS ada, ben, k1, k2, f1, f2

MCTopics == << [subject |-> 1, scope |-> 6, minutes |-> 30, weight |-> 2],
               [subject |-> 1, scope |-> 7, minutes |-> 60, weight |-> 3],
               [subject |-> 1, scope |-> 7, minutes |-> 30, weight |-> 1],
               [subject |-> 2, scope |-> 7, minutes |-> 30, weight |-> 2] >>
MCEdges == {<<1, 2>>, <<2, 3>>}
MCOffsets == {1, 2}

Smart == [minutes |-> <<>>, sessions |-> {}]
PlainPlan == [subjects |-> <<1>>, scope |-> 7, target |-> 0, force |-> FALSE, days |-> {6, 7},
              weekday |-> 0, weekend |-> 45, timetable |-> Smart]
Session(day, subject, n, pinned) ==
    [day |-> day, subject |-> subject, sessions |-> n, pinned |-> pinned]
Chosen == [minutes |-> 6 :> 90,
           sessions |-> {Session(6, 2, 1, TRUE), Session(6, 1, 1, FALSE), Session(7, 2, 1, FALSE)}]
RichPlan == [PlainPlan EXCEPT !.subjects = <<1, 2>>, !.days = {5, 6, 7}, !.weekday = 60,
                              !.weekend = 75]
MCSettings ==
    [plain |-> {PlainPlan, [PlainPlan EXCEPT !.subjects = <<2, 1>>, !.scope = 8]},
     rich |-> {RichPlan, [RichPlan EXCEPT !.timetable = Chosen],
               [RichPlan EXCEPT !.target = 4, !.timetable = Chosen],
               [RichPlan EXCEPT !.target = 3, !.force = TRUE]}]

Known(mastery, mastered, passed) == [mastery |-> mastery, mastered |-> mastered, passed |-> passed]
New == Known(0, FALSE, FALSE)
Fading == Known(70, TRUE, FALSE)
MCKnowledge ==
    [plain |-> {[knows |-> <<Fading, New, New, New>>, due |-> {1}]},
     rich |-> {[knows |-> <<New, New, New, New>>, due |-> {}],
               [knows |-> <<Fading, New, New, Known(55, FALSE, TRUE)>>, due |-> {1, 4}],
               [knows |-> <<Known(30, FALSE, FALSE), Known(62, FALSE, TRUE), New, Fading>>,
                due |-> {4}]}]

MCEditions == << (k1 :> f1) @@ (k2 :> f2), k1 :> f2, (k1 :> f1) @@ (k2 :> f2) >>

MCRows == PlanRows \cup CardRows
MCMixes ==
    {{"get", "update"},
     {"create", "delete"},
     {"get", "status", "serial", "time"},
     {"get", "mark"},
     {"mark", "status", "undo"},
     {"get", "delete", "positions"},
     {"get", "time", "midnight", "fail", "serial"},
     {"mark", "review", "serial", "restart", "built"},
     {"list", "leave", "legacy"},
     {"generate", "legacy"},
     {"generate"},
     {"built", "review", "serial"},
     {"built", "review", "generate"},
     {"built", "review", "generate", "edit", "serial"},
     {"built", "review", "generate", "edit"},
     {"built", "follow", "leave"},
     {"window", "update", "serial"},
     {"window", "create", "serial"},
     {"window", "get", "mark", "time", "serial"},
     {"window", "positions", "get", "time", "serial"}}

Alike == Permutations(Workers) \cup Permutations(CardIds)
=============================================================================
