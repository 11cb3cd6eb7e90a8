SPECIFICATION Spec
CONSTANTS
    Receivers = {r1, r2, r3}
    r1 = r1
    r2 = r2
    r3 = r3
    MaxLines = 2
    MaxSenderKills = 0
    MaxReceiverKills = 1
    QueueLimit = 4
    ANY_TYPE = ANY_TYPE
SYMMETRY ReceiverSymmetry
INVARIANTS
    ListenersServed
PROPERTIES
    ImplementsMulticast
CHECK_DEADLOCK FALSE
