\* One connect, one route of each kind.
SPECIFICATION WatchSpec
CONSTANTS
    Connects = {k1}
    Direct = {d1}
    Proxies = {p1}
    ShortTermCutoff = 1
    LongTermCutoff = 2
    MaxCount = 1
    NETWORK_CHANGE_DEBOUNCE = 1
    MaxTime = 3
    MaxSleep = 0
PROPERTIES
    LaterOutcomesKept
CHECK_DEADLOCK FALSE
