CONSTANTS
    MAX_REQUESTS = 2
    MaxMsg = 5
    Ops = {"add", "search"}
    Faults = {}
SPECIFICATION Spec
INVARIANTS
    SlotsAccounted
    QueuedSlotsDistinct
    EveryRequestInOnePlace
PROPERTIES
    IgnoredPushIsSafe
CHECK_DEADLOCK FALSE
