SPECIFICATION ChatSpec
CONSTANTS
    Sends = {s1, s2}
    Keepalive = keepalive
    REQUEST_CHANNEL_SIZE = 1
    IdSpace = 4
    InitialId = 3
    MaxPushes = 1
    MaxNetworkChanges = 1
    MaxChecks = 1
INVARIANTS
    OwnResponse
    ReportsTheReason
    ToldBeforeJoined
PROPERTIES
    ServiceSpec
CHECK_DEADLOCK FALSE
