CONSTANTS
    h1 = h1
    h2 = h2
    h3 = h3
    Rids = {r1}
    Hours = {h1}
    NumPeriods = 1
    PeriodOf <- OneHour
    Credits = {c1}
    Ingesters = {g1, g2}
    Invoicers = {v1, v2}
    Aggregators = {a1}
    None = None
SPECIFICATION FairSpec
INVARIANTS NoDeadlock
PROPERTIES WaitersServed
