SPECIFICATION FairSpec
CONSTANTS
    Senders = {s1, s2, s3}
    s1 = s1
    s2 = s2
    s3 = s3
    COUNT_MESSAGES = 1
    MaxKills = 2
    QueueLimit = 2
    ANY_TYPE = ANY_TYPE
INVARIANTS
    LinesAreCounted
PROPERTIES
    EverybodyTerminates
CHECK_DEADLOCK FALSE
