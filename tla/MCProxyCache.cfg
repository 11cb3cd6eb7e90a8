SPECIFICATION MCSpec
CONSTANTS
    MaxConns = 2
    MaxPieces = 2
    MaxFaults = 2
    Methods <- MCMethods
    Hosts <- MCHosts
    Paths <- MCPaths
    MaxHeaders = 2
    MaxBody = 3
    NONE = NONE
    WILD = WILD
INVARIANTS
    
    WaitersCounted
    RequestIsEdited
    AnswerIsWhole
PROPERTIES
    DataIsStable
    WaitersFreed
CHECK_DEADLOCK FALSE
