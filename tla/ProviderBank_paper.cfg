CONSTANTS
    Workers = {w1, w2}
    Items = {1, 2, 3}
    Pages = 3
    PageOf <- MCPageOf
    Rejected = {2}
    Mixes <- MCMixes
    Rows <- MCRows
SPECIFICATION FairSpec
INVARIANTS
    TypeOK
    BankSafe
PROPERTIES
    PaperComes
CHECK_DEADLOCK FALSE
