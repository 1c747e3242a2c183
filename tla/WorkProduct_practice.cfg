CONSTANTS
    this = this  that = that
    Sessions = {tab1, tab2}
    Texts = {this, that}
    NoCopy = NoCopy
    MaxVersion = 5
    MaxProducts = 2  MaxSections = 2  MaxExports = 1
    MaxClaims = 2  MaxMinted = 2
SPECIFICATION PracticeSpec
INVARIANTS TypeOK NoIssueAgainstTheReviewer RevisionsAreLinked AdoptionIsBacked MintedIsAccountedFor
PROPERTIES IssuedIsFrozen ActsAsPromised
SYMMETRY AnyTab
