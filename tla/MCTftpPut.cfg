CONSTANTS
    U16 = 16
    MinBlock = 1
    MaxBlock = 4
    DefaultBlock = 2
    MaxTimeout = 3
    DefaultTimeout = 1
    MaxWindow = 15
    DefaultWindow = 1
    BlockMod = 4
    MaxSessions = 5
    FaultKinds = {"lose", "duplicate", "delay", "late"}
    FaultTypes = {"WRQ", "OACK", "DATA", "ACK", "ERROR"}
    MaxFaults = 2
    OldLen = 1
    Configs <- MixedConfigs
    FileLens = {0, 2, 3, 5}
    Accesses = {"writable", "readonly", "disabled", "escape"}
    Rooms = {2, 9}
SPECIFICATION FairSpec
INVARIANTS TypeOK OkMeansStored AckedIsStored NothingMisplaced SurplusBounded ServerOkMeansStored
PROPERTIES Terminates EndsAsTheServerDecides
CHECK_DEADLOCK FALSE
