CONSTANTS
    U16 = 16
    MinBlock = 1
    MaxBlock = 4
    DefaultBlock = 2
    MaxTimeout = 3
    DefaultTimeout = 1
    MaxWindow = 15
    DefaultWindow = 1
    BlockMod = 4
    MaxSessions = 4
    FaultKinds = {}
    FaultTypes = {"DATA"}
    MaxFaults = 0
    OldLen = 1
    Configs <- ResumedConfig
    Rooms = {9}
    ServedFiles <- NineBytes
SPECIFICATION FairSpec
PROPERTY ResumedLargeFileArrives
CHECK_DEADLOCK FALSE
