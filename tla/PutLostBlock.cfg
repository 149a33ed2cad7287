CONSTANTS
    U16 = 16
    MinBlock = 1
    MaxBlock = 4
    DefaultBlock = 2
    MaxTimeout = 3
    DefaultTimeout = 1
    MaxWindow = 15
    DefaultWindow = 1
    BlockMod = 4
    MaxSessions = 5
    FaultKinds = {"lose"}
    FaultTypes = {"DATA", "ACK"}
    MaxFaults = 1
    OldLen = 1
    Configs <- PatientConfigs
    FileLens = {3}
    Accesses = {"writable"}
    Rooms = {9}
    Second = 3
    Latency = 1
SPECIFICATION TimedFairSpec
PROPERTY LossIsRepaired
CHECK_DEADLOCK FALSE
