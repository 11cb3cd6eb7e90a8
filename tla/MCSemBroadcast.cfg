SPECIFICATION FairSpec
CONSTANTS
    Consumers = {c1, c2, c3}
    c1 = c1
    c2 = c2
    c3 = c3
    MaxMessages = 3
    SEMVMX = 5
INVARIANTS
    SemInv
    NoOverwrite
    SuccessMeansDelivered
    ConfirmedSharesObjects
PROPERTIES
    ImplementsLockstep
    EverybodyEnds
CHECK_DEADLOCK FALSE
