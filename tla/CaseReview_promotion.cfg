CONSTANTS
    ann = ann  bob = bob
    annTab = annTab  bobTab = bobTab
    Users = {ann, bob}
    Admins = {bob}
    Sessions = {annTab, bobTab}
    Who <- MCWho
    NoUser = NoUser  NoCopy = NoCopy
    MaxVersion = 6
    MaxCases = 2  MaxFindings = 2  MaxThreads = 2  MaxTurns = 1
SPECIFICATION ReviewSpec
INVARIANTS EveryContributionSettles
