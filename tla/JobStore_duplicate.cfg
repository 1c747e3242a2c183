SPECIFICATION Spec
CONSTANTS
    j1 = j1
    j2 = j2
    p1 = p1
    p2 = p2
    Jobs <- OneJob
    Projects <- OneProject
    ProjectOf <- Together
    Web = {u1, u2}
    Workers = {w1}
    Allowed <- OneJob
    Unanswerable <- NoJobs
    MaxAttempts = 2
    LeaseOverrun = FALSE
    EraserCrashes = FALSE
    MaxEnqueues = 2
    MaxCrashes = 0
    NoFile = NoFile
    NoOne = NoOne
PROPERTIES CompletedIsFinal
CHECK_DEADLOCK FALSE
