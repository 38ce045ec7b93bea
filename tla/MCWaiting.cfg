SPECIFICATION WaitingSpec
CONSTANTS
    local_idle_timeout = 2
    remote_idle_ping_timeout = 2
    remote_idle_disconnect_timeout = 4
    MaxSilence = 8
    MAX_PENDING_REQUESTS = 1
    MaxCalls = 2
    MaxConns = 4
    MaxFaults = 2
    MaxTasks = 2
    MaxFutures = 3
    MaxAppCalls = 3
    Apps = {a, b}
INVARIANTS
    NeverGivesUpUnprobed
    RepeatsOnlyAfterLoss
    CacheIsNewestReport
    ConsumersCalledOnce
    CancelsOwnTask
PROPERTIES
    GivesUpOnSilence
    CallsReturn
    ChainedCompletes
CHECK_DEADLOCK FALSE
