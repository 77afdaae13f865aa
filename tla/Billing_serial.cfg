CONSTANTS
    Refs = {r1, r2, r3}
    Handlers = {h1}
    Ops = {"checkout", "callback", "webhook", "comp", "revoke", "login"}
    Tiers = {"STANDARD", "PREMIUM"}
    Terms = {1}
    MaxTime = 1
SPECIFICATION Spec
INVARIANTS
    TermsDisjoint
PROPERTIES
    TierFollowsRows
SYMMETRY Symmetry
CHECK_DEADLOCK FALSE
