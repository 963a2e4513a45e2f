CONSTANTS
    MAX_REQUESTS = 3
    MaxMsg = 3
    Ops = {"add", "modify", "delete", "rename", "whoami", "search"}
    Faults = {"result_fails", "option_fails", "reference", "no_memory", "reconnect"}
SPECIFICATION Spec
INVARIANTS
    TypeOK
    EveryRequestInOnePlace
    CalledWereAnswered
    AnswersAccounted
PROPERTIES
    ImplementsPool
CHECK_DEADLOCK FALSE
