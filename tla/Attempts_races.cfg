CONSTANTS
    q1 = q1
    q2 = q2
    q3 = q3
    p1 = p1
    m1 = m1
    None = None
    Attempts = {q1, q2, p1}
    Pretests = {p1}
    Mocks = {}
    PastPapers = {q2}
    PaperOf <- KindOf
    Requests = {r1, r2}
SPECIFICATION Spec
INVARIANTS
    TypeOK
    
    NobodyStuck

    
SYMMETRY RequestSymmetry
