CONSTANTS
    U16 = 16
    MinBlock = 1
    MaxBlock = 4
    DefaultBlock = 2
    MaxTimeout = 3
    DefaultTimeout = 1
    MaxWindow = 15
    DefaultWindow = 1
    BlockMod = 4
    MaxSessions = 4
    FaultKinds = {"lose", "duplicate", "delay", "late"}
    FaultTypes = {"RRQ", "OACK", "DATA", "ACK", "ERROR"}
    MaxFaults = 2
    OldLen = 1
    Configs <- MixedConfigs
    Rooms = {4, 12}
    ServedFiles <- MixedFiles
SPECIFICATION FairSpec
INVARIANTS TypeOK AckedIsStored ServerOkMeansStored AheadByAWindow CopyInv
PROPERTIES ImplementsFileCopy Terminates
CHECK_DEADLOCK FALSE
