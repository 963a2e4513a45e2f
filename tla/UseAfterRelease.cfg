CONSTANTS
    Configs <- AllConfigs
    Driver = "default"
    MAX_RECONNECT_ATTEMPTS = 2
    MaxSame = 2
    MaxReconnects = 3
    Faults = {"tls_fails"}
SPECIFICATION Spec
INVARIANT
    NoUseAfterRelease
CHECK_DEADLOCK FALSE
