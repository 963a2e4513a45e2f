CONSTANTS
    Configs <- AllConfigs
    Driver = "default"
    MAX_RECONNECT_ATTEMPTS = 2
    MaxSame = 2
    MaxReconnects = 3
    Faults = {"bind_refused", "tls_fails"}
SPECIFICATION FairSpec
INVARIANT
    SchemaOnItsWay
PROPERTIES
    InitSettles
    ErrorIsRetried
    SchemaFollowsRun
CHECK_DEADLOCK FALSE
