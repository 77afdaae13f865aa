CONSTANTS
    Readers = {r1}
    Writers = {w1, w2}
    Kinds = {"answer", "unmapped", "lesson", "abandon", "silent"}
    MaxSeq = 4
    MaxCount = 2
SPECIFICATION Spec
INVARIANTS
    TypeOK
    FoldExact
