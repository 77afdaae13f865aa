CONSTANTS
    Workers = {w1, w2}
    s1 = s1
    s2 = s2
    s3 = s3
    l1 = l1
    l2 = l2
    l3 = l3
    t1 = t1
    t2 = t2
    n1 = n1
    n2 = n2
    q1 = q1
    q2 = q2
    m1 = m1
    r1 = r1
    r2 = r2
    u1 = u1
    a1 = a1
    a2 = a2
    k1 = k1
    x = x
    y = y
    Keys <- MCKeys
    Codes = {x, y}
    Ranges <- MCRanges
    MaxImport = 2
    Procs = {p1}
    None = None
    Rows <- MCRows
    Table <- MCTable
    Home <- MCHome
    Starts <- MCStarts
    Mixes <- MCMixes
SPECIFICATION Spec
INVARIANTS
    TypeOK
    TreeSound
    AuditTells
    
SYMMETRY Alike
CHECK_DEADLOCK FALSE
