SPECIFICATION Spec
CONSTANTS
    p1 = p1
    p2 = p2
    r1 = r1
    f1 = f1
    Requests <- OneRequest
    Paths = {f1}
    Web <- TwoProcesses
    Pollers <- TwoProcesses
    RequestTtl = 1
    ClaimTtl = 0
    MaxCrashes = 0
    NoFile = NoFile
    NoOne = NoOne
PROPERTIES NoFreshRequestLost
