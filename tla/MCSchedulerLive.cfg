CONSTANTS
    c1 = c1
    c2 = c2
    p1 = p1
    p2 = p2
    p3 = p3
    q1 = q1
    Core = {c1, c2}
    Boot = c1
    Proc = {p1, p2}
    InitProc = p1
    Queue = {q1}
    Wakeups = {"all", "one", "int"}
    Idle = Idle
    None = None
SPECIFICATION FairSpec
INVARIANT FreshSleep
PROPERTY EventuallyRuns
