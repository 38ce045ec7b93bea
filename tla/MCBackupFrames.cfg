SPECIFICATION Spec
CONSTANTS
    a1 = a1
    a2 = a2
    p1 = p1
    e1 = e1
    u1 = u1
    k1 = k1
    myStory = myStory
    MY_STORY_UUID <- myStory
    Day = 2
    Purpose = "RemoteBackup"
    BackupTime = 10
    Inputs <- MCInputs
INVARIANTS
    ReferencesCorrespond
    MethodsAgree
    RevisionsFitTheChat
CHECK_DEADLOCK FALSE
