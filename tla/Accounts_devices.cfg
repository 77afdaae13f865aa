CONSTANTS
    Workers = {w1, w2}
    Devices = {1, 2, 3}
    Tokens = {t1, t2}
    Passwords = {p1, p2}
    MaxTime = 2
    Rows <- MCRows
    Mixes <- MCMixes
SYMMETRY Alike
SPECIFICATION Spec
INVARIANTS
    TypeOK
    AccountSafe
PROPERTIES
    SignOutsHold
CHECK_DEADLOCK FALSE
