SPECIFICATION Spec
CONSTANTS
    ARCHIVED_STATES_MAX_LENGTH = 1
    NoSession = NoSession
    NotPending = NotPending
    NoKey = NoKey
    NoPreKey = NoPreKey
    Alice = alice
    Bob = bob
    PreKeyIds = {k1}
    MAX_UNACKNOWLEDGED_SESSION_AGE = 1
    Bounds <- MCBounds
INVARIANTS
    AtMostOnce
    NoKeyReuse
    OneTimeKeyErased
    Retrievable
CHECK_DEADLOCK FALSE
