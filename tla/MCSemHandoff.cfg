SPECIFICATION FairSpec
CONSTANTS
    Consumers = {c1, c2, c3}
    c1 = c1
    c2 = c2
    c3 = c3
    COUNT_MESSAGES = 4
    SEMVMX = 32767
INVARIANTS
    EachTextOnce
PROPERTIES
    AfterFirstExit
    ConsumersTerminate
CHECK_DEADLOCK FALSE
