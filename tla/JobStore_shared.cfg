SPECIFICATION Spec
CONSTANTS
    j1 = j1
    j2 = j2
    p1 = p1
    p2 = p2
    Jobs <- OneJob
    Projects <- OneProject
    ProjectOf <- Together
    Web = {u1, u2}
    Workers = {w1, w2}
    Allowed <- OneJob
    Unanswerable <- NoJobs
    MaxAttempts = 2
    LeaseOverrun = TRUE
    EraserCrashes = TRUE
    MaxEnqueues = 2
    MaxCrashes = 1
    NoFile = NoFile
    NoOne = NoOne
INVARIANTS OrphansAreWithheld
PROPERTIES NoResurrection
CHECK_DEADLOCK FALSE
