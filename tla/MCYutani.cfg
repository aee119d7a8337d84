CONSTANTS
    c1 = c1
    c2 = c2
    Client = {c1, c2}
    Server = Server
    MaxWid = 2
    MaxBuf = 3
    MaxQueue = 2
    MaxOffers = 1
    ZOrders = {"bottom"}
    None = None
SPECIFICATION Spec
SYMMETRY MCSymmetry
INVARIANTS
    BuffersShared
    FocusAlive
    AnswerOnTheWay
    OrphansClose
CHECK_DEADLOCK FALSE
