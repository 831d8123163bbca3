SPECIFICATION Spec
CONSTANTS
    Clients = {c1}
    Requests <- MCRequests
    Table = {"p1"}
    Codes = {"A"}
    NoCoupon = NoCoupon
    MaxOrderItems = 2
    MaxQuantity = 2
    MaxAttempts = 1
    MaxFaults = 0
INVARIANTS
    NoDroppedOrders
