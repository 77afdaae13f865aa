CONSTANTS
    Workers = {w1, w2}
    Anns = {a1}
    Subs = {s1, s2}
    Nudged = {s1}
    Rows <- MCRows
    Mixes <- MCMixes
    MaxAttempts = 2
    MaxFailures = 2
SPECIFICATION FairSpec
INVARIANTS
    TypeOK
    PushSafe
PROPERTIES
    NoPushAfterEnd
    AnnouncementsEnd
