SPECIFICATION RecordsSpec
CONSTANTS
    ARCHIVED_STATES_MAX_LENGTH = 2
    NoSession = NoSession
    NotPending = NotPending
    Pending = Pending
    BaseKeys = {b1, b2, b3, b4, b5}
    MAX_FORWARD_JUMPS = 1
    MAX_MESSAGE_KEYS = 1
    MAX_SENDER_KEY_STATES = 2
    MAX_ITERATION = 4
    ChainIds = {c1, c2}
    MaxChains = 3
    MaxMessages = 4
    MaxDeliveries = 2
    Enclaves = {e1, e2, e3}
    First = e1
    MaxKeys = 3
SYMMETRY RecordsSymmetry
INVARIANTS
    ArchivedNotPending
    BaseKeysDistinct
    HoldsMostRecent
    SenderMessageOnce
    SenderKeysRetained
    LatestRestorable
    RestoreFindsIt
CHECK_DEADLOCK FALSE
