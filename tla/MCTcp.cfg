CONSTANTS
    Stream <- MCStream
    Modulus = 8
    Isns = {1}
    Sizes = {1, 2}
    MaxSend = 1
    Attempts = 3
SPECIFICATION FairSpec
INVARIANTS
    StreamInOrder
    EofMeansAll
PROPERTIES
    ConnectReturns
    RecvReturns
CHECK_DEADLOCK FALSE
