CONSTANTS
    U16 = 16
    MinBlock = 1
    MaxBlock = 4
    DefaultBlock = 2
    MaxTimeout = 3
    DefaultTimeout = 1
    MaxWindow = 15
    DefaultWindow = 1
    BlockMod = 4
    MaxSessions = 5
    FaultKinds = {"lose"}
    FaultTypes = {"WRQ", "OACK", "DATA", "ACK", "ERROR"}
    MaxFaults = 3
    OldLen = 1
    Configs <- RetryConfigs
    FileLens = {0, 2, 3, 5}
    Accesses = {"writable"}
    Rooms = {9}
    Second = 3
    Latency = 1
SPECIFICATION TimedFairSpec
INVARIANTS TimedTypeOK RepeatsTooLate SessionsNeverMeet GivesUpInTime
PROPERTIES ImplementsPut LostRequestsAreRepeated
CHECK_DEADLOCK FALSE
