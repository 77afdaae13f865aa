CONSTANTS
    Refs = {r1, r2}
    Handlers = {h1, h2}
    Ops = {"checkout", "callback", "webhook"}
    Tiers = {"PREMIUM"}
    Terms = {1}
    MaxTime = 0
SPECIFICATION FairSpec
INVARIANTS
    TypeOK
    ChargesSettle
PROPERTIES
    TermFixed
    PaidSettles
CHECK_DEADLOCK FALSE
