CONSTANTS
    Configs <- SimpleConfigs
    Driver = "application"
    MAX_RECONNECT_ATTEMPTS = 2
    MaxSame = 2
    MaxReconnects = 3
    Faults = {"link_down"}
SPECIFICATION Spec
INVARIANT
    ReconnectsLimited
CHECK_DEADLOCK FALSE
