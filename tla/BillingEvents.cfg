CONSTANTS
    h1 = h1
    h2 = h2
    h3 = h3
    Rids = {r1, r2}
    Hours = {h1, h2}
    NumPeriods = 3
    PeriodOf <- TwoHours
    Credits = {}
    Ingesters = {g1, g2}
    Invoicers = {v1, v2}
    Aggregators = {}
    None = None
SPECIFICATION Spec
SYMMETRY Symmetric
INVARIANTS TypeOK NeverDoubleBilled NeverLost
PROPERTIES LateNeverSkipped LedgerSpec
