SPECIFICATION TrialSpec
CONSTANTS
    MAX_FORWARD_JUMPS = 2
    MAX_MESSAGE_KEYS = 2
    MAX_RECEIVER_CHAINS = 2
    Initiator = alice
    Recipient = bob
    MaxSessionSends = 8
INVARIANTS
    StateUnchangedOnFailure
CHECK_DEADLOCK FALSE
