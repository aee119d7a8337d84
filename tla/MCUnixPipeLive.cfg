CONSTANTS
    r1 = r1
    r2 = r2
    w1 = w1
    w2 = w2
    Size = 3
    Reader = {r1}
    Writer = {w1, w2}
    Byte = {0}
    ReadSizes = {0, 1, 2}
    Messages <- MCLengths
    Cores = 1
    Signalled = {r1}
    None = None
SPECIFICATION FairSpec
PROPERTIES
    ReadReturns
    WriterWakes
    PollReturns
CHECK_DEADLOCK FALSE
