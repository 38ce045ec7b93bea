SPECIFICATION KeyTransSpec
CONSTANTS
    MaxPos = 1
    MaxSize = 7
    MaxVersion = 2
    Checks = {c1, c2}
    Modes = {"contact", "self", "selfHidden"}
    E164s = {n1, n2}
    Usernames = {u1}
    MaxLog = 4
    MaxChecks = 2
SYMMETRY CheckSymmetry
INVARIANTS
    HonestAnswersAccepted
    NewestVersionSeen
    StoredFieldsVerified
PROPERTIES
    SuccessIsComplete
CHECK_DEADLOCK FALSE
