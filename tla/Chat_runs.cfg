SPECIFICATION Spec
CONSTANTS
    Procs = {p1, p2}
    MaxRuns = 2
    MaxStops = 1
    MaxCrashes = 1
    MaxRewrites = 2
    MaxTurns = 1
    Mixes <- MixesValue
CHECK_DEADLOCK FALSE
INVARIANTS
    TypeOK
    RepliesSound
    DecisionsSound
PROPERTIES
    ComesToRest
