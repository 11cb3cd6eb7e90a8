SPECIFICATION MCSpec
CONSTANTS
    CONNMAX = 2
    Conns = {1, 2, 3}
    Pieces = 1
    UrlHeads <- Heads
    UrlChars = {"h", ":", "/", "?", "#", "]"}
    MaxTail = 4
    MaxAddresses = 2
    MaxTyped = 3
    NFiles = 2
    MaxPieces = 2
    MaxBells = 3
    LINESIZE = 3
    Letters = {"a", "b"}
    MaxRows = 2
    COUNT_LINES = 3
    MaxText = 4
    MaskChars = {"a", "?", "*", "/"}
    NameChars = {"a", "b", "?"}
    MaxMask = 4
    MaxName = 3
    PathChars = {"a", "b", "*", "/"}
    MaxPath = 5
    NAME_MAX = 3
    InitialSize = 3
    MaxInput = 8
    MaxFile = 4
    NUM_INT = 4
    INT_PER_LINE = 2
    MAX = 3
    MaxDirs = 4
    LsFiles <- FilesToList
    MaxListed = 2
    INT_MAX = 3
INVARIANTS
    ServesConnMaxClients
    PartsAreUrl
    SuccessMeansPrinted
    TerminalRestored
    ScreenShowsText
    LineIsRight
    MaskFinds
    LineIsWhole
    ChildIsTold
    FilesAreTold
PROPERTIES
    CountTold
    LostOnlyAtHangup
    EarlyClientsEnd
    ProgramsEnd
CHECK_DEADLOCK FALSE
