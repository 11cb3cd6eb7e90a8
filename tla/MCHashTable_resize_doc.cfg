SPECIFICATION TableSpec
CONSTANTS
    Keys = {1, 2, 3, 4}
    Sizes = {1, 2, 3}
    NewSizes = {1, 2, 3}
    MaxSets = 4
    HashFunc <- MCHashFunc
PROPERTIES
    ResizeKeepsEntries
CHECK_DEADLOCK FALSE
