CONSTANTS
    n1 = n1
    n2 = n2
    Names <- OneName
    NewNames <- TwoNames
    MaxCalls = 2
SPECIFICATION Spec
INVARIANTS
    TypeOK
    FoundAgain
    KnownAttributes
CHECK_DEADLOCK FALSE
