CONSTANTS
    U16 = 16
    MinBlock = 1
    MaxBlock = 4
    DefaultBlock = 2
    MaxTimeout = 3
    DefaultTimeout = 1
    MaxWindow = 15
    DefaultWindow = 1
    BlockMod = 8
    MaxSessions = 4
    FaultKinds = {}
    FaultTypes = {"RRQ", "OACK", "DATA", "ACK", "ERROR"}
    MaxFaults = 0
    OldLen = 1
    Configs <- WindowConfigs
    Rooms = {9}
    ServedFiles <- FiveBytes
SPECIFICATION Spec
INVARIANT WindowFlows
CHECK_DEADLOCK FALSE
