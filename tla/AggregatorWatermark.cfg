CONSTANTS
    e1 = e1
    e2 = e2
    a1 = a1
    b1 = b1
    Events = {e1, e2}
    Windows = {a1, b1}
    Customers = {"a", "b"}
    WindowOf <- Falls
    CustomerOf <- Owns
    Aggregators = {p1, p2}
    Modes = {FALSE, TRUE}
    EdgeDelay = 1
    Overlap = 1
    MaxOpen = 1
    MaxTime = 3
    MaxCrashes = 1
    None = None
SPECIFICATION Spec
INVARIANTS TypeOK NothingBehindWatermark
PROPERTY EventuallyCounted
