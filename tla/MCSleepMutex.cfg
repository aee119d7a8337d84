CONSTANTS
    p1 = p1
    p2 = p2
    p3 = p3
    Proc = {p1, p2, p3}
    Signalled = {p1, p2, p3}
    Killable = {p1, p2}
    None = None
SPECIFICATION FairSpec
INVARIANTS
    TypeOK
    MutualExclusion
    NoLostWakeup
PROPERTIES
    ImplementsLock
    SomeoneEnters
CHECK_DEADLOCK FALSE
