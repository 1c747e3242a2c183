SPECIFICATION FairSpec
CONSTANTS
    j1 = j1
    j2 = j2
    p1 = p1
    p2 = p2
    Jobs <- TwoJobs
    Projects <- TwoProjects
    ProjectOf <- Apart
    Web = {u1, u2}
    Workers = {w1}
    Allowed <- TwoJobs
    Unanswerable <- NoJobs
    MaxAttempts = 2
    LeaseOverrun = TRUE
    EraserCrashes = TRUE
    MaxEnqueues = 2
    MaxCrashes = 3
    NoFile = NoFile
    NoOne = NoOne
INVARIANTS TypeOK HandoutsBounded
PROPERTIES ImplementsLifecycle EventuallySettled
CHECK_DEADLOCK FALSE
