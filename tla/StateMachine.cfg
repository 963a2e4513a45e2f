CONSTANTS
    Configs <- AllConfigs
    Driver = "application"
    MAX_RECONNECT_ATTEMPTS = 2
    MaxSame = 2
    MaxReconnects = 3
    Faults = {"link_down", "bind_refused", "tls_fails", "tls_context", "no_descriptor",
              "option_fails", "stale_code", "no_entry", "schema_rejected",
              "application_error", "loop_goes_on"}
SPECIFICATION Spec
INVARIANTS
    TypeOK
    RunIsBound
    OutstandingAreWatched
    OpenUnlessError
    WaitHasAnEnd
PROPERTIES
    ImplementsPhases
    MovesForward
CHECK_DEADLOCK FALSE
