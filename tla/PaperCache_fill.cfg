CONSTANTS
    Requests = {r1, r2}
    Nobody = Nobody
    Items = {q1, q2}
    Mode = "SAMPLED"
    MaxPolls = 1
SPECIFICATION FairSpec
INVARIANTS
    TypeOK
    OneFiller
PROPERTIES
    PoolGrows
    RequestsEnd
