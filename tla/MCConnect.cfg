SPECIFICATION ConnectSpec
CONSTANTS
    Attempts = {a1, a2}
    Routes = {r1, r2}
    Connections = {c1, c2, c3}
    NoConnection = NoConnection
    Timeout = 2
    Connects = {k1, k2}
    Direct = {d1}
    Proxies = {p1}
    ShortTermCutoff = 1
    LongTermCutoff = 2
    MaxCount = 1
    NETWORK_CHANGE_DEBOUNCE = 1
    MaxTime = 2
    MaxSleep = 1
SYMMETRY ConnectSymmetry
PROPERTIES
    TakenFreshForItsRoute
    ForgottenForCause
CHECK_DEADLOCK FALSE
