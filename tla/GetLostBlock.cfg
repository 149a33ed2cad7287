CONSTANTS
    U16 = 16
    MinBlock = 1
    MaxBlock = 4
    DefaultBlock = 2
    MaxTimeout = 3
    DefaultTimeout = 1
    MaxWindow = 15
    DefaultWindow = 1
    BlockMod = 8
    MaxSessions = 4
    FaultKinds = {"lose"}
    FaultTypes = {"DATA"}
    MaxFaults = 1
    OldLen = 1
    Configs <- LockstepConfigs
    Rooms = {9}
    ServedFiles <- FiveBytes
SPECIFICATION FairSpec
PROPERTY LossIsRepaired
CHECK_DEADLOCK FALSE
