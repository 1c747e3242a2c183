CONSTANTS
    Requests = {tab1, tab2}
    Images = {plan, photo}
    NoSandbox = NoSandbox
    MaxRevision = 2  MaxStarts = 2  MaxDeaths = 1
SPECIFICATION FairSpec
INVARIANTS TypeOK MediaIsAccountedFor
PROPERTIES NoTurnIsLost RequestsEnd
