SPECIFICATION FairSpec
CONSTANTS
    Receivers = {r1, r2, r3}
    r1 = r1
    r2 = r2
    r3 = r3
    MaxLines = 2
    MaxKills = 2
    QueueLimit = 2
    ANY_TYPE = ANY_TYPE
INVARIANTS
    LinesBeforeAnswer
PROPERTIES
    EverybodyTerminates
CHECK_DEADLOCK FALSE
