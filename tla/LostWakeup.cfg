CONSTANTS
    MAX_REQUESTS = 3
    MaxMsg = 3
    Ops = {"search"}
    Faults = {}
SPECIFICATION AnsweringSpec
PROPERTY
    AnsweredIsHandled
CHECK_DEADLOCK FALSE
