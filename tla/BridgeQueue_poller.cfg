SPECIFICATION FairSpec
CONSTANTS
    p1 = p1
    p2 = p2
    r1 = r1
    f1 = f1
    Requests <- OneRequest
    Paths = {f1}
    Web <- TwoProcesses
    Pollers <- TwoProcesses
    RequestTtl = 1
    ClaimTtl = 0
    MaxCrashes = 1
    NoFile = NoFile
    NoOne = NoOne
INVARIANTS TypeOK HandedOutOncePerClaim TakenAtMostAsDelivered
PROPERTIES NoLaterTaker NoRequestLost RequestsEnd
