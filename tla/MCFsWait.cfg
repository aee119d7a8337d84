CONSTANTS
    p1 = p1
    p2 = p2
    n1 = n1
    n2 = n2
    n3 = n3
    Proc = {p1, p2}
    Node = {n1, n2}
    Mute = {n3}
    Polls <- MCPolls
    Timeouts = {0, 2, Never}
    Sleeps = {1}
    CoreCounts = {1, 2}
    None = None
    Never = Never
SPECIFICATION FairSpec
INVARIANTS
    WokenOnce
    TimersMatch
    HonestReason
    SleepsForData
PROPERTIES
    TimeoutReturns
    AlertReturns
