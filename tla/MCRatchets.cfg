SPECIFICATION RatchetsSpec
CONSTANTS
    MAX_FORWARD_JUMPS = 2
    MAX_MESSAGE_KEYS = 2
    MAX_RECEIVER_CHAINS = 2
    MaxSends = 5
    Initiator = alice
    Recipient = bob
    MaxSessionSends = 8
INVARIANTS
    DuplicateMeansDelivered
    SessionRootsInStep
    DecryptableUntilDelivered
PROPERTIES
    ImplementsOnceChannel
    EventuallyDelivered
CHECK_DEADLOCK FALSE
