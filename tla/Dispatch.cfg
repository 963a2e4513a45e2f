CONSTANTS
    MAX_REQUESTS = 4
    MaxMsg = 4
    Ops = {"add", "search"}
    Faults = {}
SPECIFICATION FairSpec
INVARIANTS
    SearchIndexValid
    NoStaleSearchEntry
    RegisteredSearchHasEntry
PROPERTIES
    OnReadReturns
    BufferedIsHandled
CHECK_DEADLOCK FALSE
