CONSTANTS
    Workers = {w1, w2}
    PlanIds = {1, 2}
    ItemIds = {1, 2, 3, 4, 5, 6, 7, 8, 9, 10, 11, 12}
    Students = {ada, ben}
    Planner = ada
    ada = ada
    ben = ben
    k1 = k1
    k2 = k2
    f1 = f1
    f2 = f2
    None = None
    CardIds = {c1, c2, c3}
    Keys = {k1, k2}
    Fronts = {f1, f2}
    HOME = 2
    TERM_NOW = 1
    WEEK = 3
    WEEKS = 4
    Day1 = 5
    WINDOW_DAYS = 3
    RUNWAY_MIN_DAYS = 1
    RUNWAY_MAX_DAYS = 2
    RAMP_START_DAYS = 3
    RAMP_END_DAYS = 1
    MANUAL_LOOKBACK_DAYS = 1
    CARRY_OVER_DAYS = 1
    MaxDay = 2
    MaxLogs = 2
    Topics <- MCTopics
    Edges <- MCEdges
    REVISION_OFFSETS <- MCOffsets
    Settings <- MCSettings
    Knowledge <- MCKnowledge
    Editions <- MCEditions
    Rows <- MCRows
    Mixes <- MCMixes
SYMMETRY Alike
SPECIFICATION Spec
INVARIANTS
    TypeOK
    StudySound
PROPERTIES
    StepsSound
CHECK_DEADLOCK FALSE
