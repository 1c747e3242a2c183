SPECIFICATION Spec
CONSTANTS
    c1 = c1
    c2 = c2
    w1 = w1
    w2 = w2
    p1 = p1
    p2 = p2
    Containers = {c1}
    Writers = {w1, w2}
    Purgers = {p1, p2}
    Retention = 1
    PurgeCrashes = TRUE
    MaxNow = 2
    MaxEdits = 2
    MaxMoves = 3
    Never = Never
    NoFile = NoFile
    NoOne = NoOne
INVARIANTS TypeOK ContentBeforeRecord
PROPERTIES ImplementsPromise ErasedStaysErased
SYMMETRY Interchangeable
