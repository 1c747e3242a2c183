SPECIFICATION FairSpec
CONSTANTS
    j1 = j1
    j2 = j2
    p1 = p1
    p2 = p2
    Jobs <- TwoJobs
    Projects <- OneProject
    ProjectOf <- Together
    Web = {u1}
    Workers = {w1}
    Allowed <- TwoJobs
    Unanswerable <- JustJ1
    MaxAttempts = 2
    LeaseOverrun = FALSE
    EraserCrashes = FALSE
    MaxEnqueues = 2
    MaxCrashes = 0
    NoFile = NoFile
    NoOne = NoOne
PROPERTIES AnswerableSettle
CHECK_DEADLOCK FALSE
