CONSTANTS
    r1 = r1
    r2 = r2
    w1 = w1
    w2 = w2
    Size = 3
    Reader = {r1, r2}
    Writer = {w1}
    Byte = {0, 1}
    ReadSizes = {0, 1, 2}
    Messages <- MCAllMessages
    Cores = 3
    Signalled = {r1, w1}
    None = None
SPECIFICATION Spec
INVARIANTS
    TypeOK
    NoLostWakeup
    EofMeansClosed
    ShortMeansClosed
PROPERTY ImplementsChannel
CHECK_DEADLOCK FALSE
