CONSTANTS
    U16 = 16
    MinBlock = 1
    MaxBlock = 4
    DefaultBlock = 2
    MaxTimeout = 3
    DefaultTimeout = 1
    MaxWindow = 15
    DefaultWindow = 1
    BlockMod = 4
    MaxSessions = 5
    FaultKinds = {}
    FaultTypes = {"WRQ", "OACK", "DATA", "ACK", "ERROR"}
    MaxFaults = 0
    OldLen = 1
    Configs <- PatientConfigs
    FileLens = {6}
    Accesses = {"writable"}
    Rooms = {9}
SPECIFICATION FairSpec
PROPERTY WholeBlocksArrive
CHECK_DEADLOCK FALSE
