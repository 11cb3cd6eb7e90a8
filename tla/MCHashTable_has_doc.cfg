SPECIFICATION TableSpec
CONSTANTS
    Keys = {1, 2, 3, 4}
    Sizes = {1, 2, 3}
    NewSizes = {}
    MaxSets = 4
    HashFunc <- MCHashFunc
INVARIANTS
    HasMeansPresent
CHECK_DEADLOCK FALSE
