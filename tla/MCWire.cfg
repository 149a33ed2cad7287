CONSTANTS
    U16 = 65536
    MinBlock = 8
    MaxBlock = 65464
    DefaultBlock = 512
    MaxTimeout = 255
    DefaultTimeout = 5
    MaxWindow = 65535
    DefaultWindow = 1
    Configs <- MCConfigs
    FileSizes <- MCFileSizes
    ForeignOacks <- MCForeignOacks
    NameText <- MCNameText
    Names <- MCNames
    Pads <- MCPads
    Garbage <- MCGarbage
SPECIFICATION WireSpec
INVARIANTS GrantedLegal EndsAgree StrictAndLenientAgree ReadsBack AsksForTheNamedFile
PROPERTIES ImplementsNegotiate
CHECK_DEADLOCK FALSE
