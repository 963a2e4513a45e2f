CONSTANTS
    a = a
    b = b
    OIDs = {o1, o2}
    Names = {a, b}
    NULL = NULL
    NameLists <- ShortLists
    MaxDefinitions = 2
    MaxReconnects = 1
SPECIFICATION Spec
INVARIANTS
    TypeOK
    LatestIsFound
PROPERTIES
    NothingForgotten
CHECK_DEADLOCK FALSE
