SPECIFICATION FairSpec
CONSTANTS
    Receivers = {r1, r2}
    r1 = r1
    r2 = r2
    MaxLines = 3
    MaxSenderKills = 2
    MaxReceiverKills = 0
    QueueLimit = 3
    ANY_TYPE = ANY_TYPE
INVARIANTS
    GaplessLines
PROPERTIES
    EverybodyTerminates
CHECK_DEADLOCK FALSE
