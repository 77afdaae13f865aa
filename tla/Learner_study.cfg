CONSTANTS
    Workers = {w1, w2}
    Exits = {e1, e2}
    Sets = {s1, s2}
    Questions = {q1}
    Checks = {c1}
    PlanIds = {p1, p2}
    None = None
    MaxTime = 2
    MaxEvents = 2
    RECORDS_KEPT = 2
    BEST_OF = 1
    PRACTICE_AWARDS_PER_DAY = 1
    CORRECTIONS_PER_DAY = 1
    Rows <- MCRows
    Mixes <- MCMixes
SYMMETRY Alike
SPECIFICATION Spec
INVARIANTS
    TypeOK
    LearnerSound
PROPERTIES
    DayStable
CHECK_DEADLOCK FALSE
