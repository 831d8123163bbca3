SPECIFICATION Spec
CONSTANTS
    Clients = {c1, c2}
    Requests <- MCRequests
    Table = {"p1"}
    Codes = {"A"}
    NoCoupon = NoCoupon
    MaxOrderItems = 2
    MaxQuantity = 2
    MaxAttempts = 2
    MaxFaults = 1
INVARIANTS
    TypeOK
    StoredWhole
    StoredWasAcceptable
    AnswerTellsTruth
PROPERTIES
    ShutdownEnds
