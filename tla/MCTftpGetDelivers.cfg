CONSTANTS
    U16 = 16
    MinBlock = 1
    MaxBlock = 4
    DefaultBlock = 2
    MaxTimeout = 3
    DefaultTimeout = 1
    MaxWindow = 15
    DefaultWindow = 1
    BlockMod = 8
    MaxSessions = 4
    FaultKinds = {"duplicate", "delay"}
    FaultTypes = {"DATA", "ACK"}
    MaxFaults = 5
    OldLen = 1
    Configs <- MaybeResumedConfigs
    Rooms = {1, 9}
    ServedFiles <- SmallFiles
SPECIFICATION FairSpec
INVARIANT NoStandOff
PROPERTY EndsAsTheFileDecides
CHECK_DEADLOCK FALSE
