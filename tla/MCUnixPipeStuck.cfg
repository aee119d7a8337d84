CONSTANTS
    r1 = r1
    r2 = r2
    w1 = w1
    w2 = w2
    Size = 3
    Reader = {r1}
    Writer = {w1}
    Byte = {0, 1}
    ReadSizes = {1, 2}
    Messages <- MCMessages
    Cores = 1
    Signalled = {}
    None = None
SPECIFICATION FairSpec
PROPERTIES
    WriteReturns
CHECK_DEADLOCK FALSE
