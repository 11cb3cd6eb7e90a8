SPECIFICATION MCSpec
CONSTANTS
    Keys = {1, 2, 3, 4}
    Sizes = {1, 2, 3}
    NewSizes = {1, 2, 3}
    MaxSets = 4
    HashFunc <- MCHashFunc
    Lists = {"list1", "list2"}
    Data = {1, 2}
    MaxNodes = 4
INVARIANTS
    ChainsAreSound
PROPERTIES
    ImplementsStore
    ImplementsLists
CHECK_DEADLOCK FALSE
