CONSTANTS
    Handles = {h1, h2}
    MaxSame = 1
SPECIFICATION Spec
INVARIANT
    OwnSchemaEntry
CHECK_DEADLOCK FALSE
