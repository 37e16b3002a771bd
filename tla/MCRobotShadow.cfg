\* Two commands, one change from outside and one loss of the connection.
SPECIFICATION ShadowFairSpec
CONSTANTS
    NoDetails = NoDetails
    Mode = {"all", "pickup"}
    Power = {"on", "off"}
    Robot = {"scanning"}
    LedKey = {"ledEnable", "ledMode"}
    LedValue = {0, 1}
    DefaultLed = 1
    Heading = {"left"}
    M700 = TRUE
    PacketIds = {1, 2, 3, 4, 5}
    MaxEvents = 2
    First <- Scanning
INVARIANTS
    ShadowTypeOK
    RecordedUntilCompleted
    CycleTimeFollowsMode
    
    
    DetailsAgree
PROPERTIES
    
    CommandsEnd
