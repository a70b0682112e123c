CONSTANTS
    h1 = h1
    h2 = h2
    h3 = h3
    Rids = {r1, r2}
    Hours = {h1, h2, h3}
    NumPeriods = 2
    PeriodOf <- TwoMonths
    Credits = {c1}
    Ingesters = {g1}
    Invoicers = {v1}
    Aggregators = {a1}
    None = None
SPECIFICATION Spec
SYMMETRY Symmetric
INVARIANTS SealedWindowsExact CreditAppliedOnce LateExplainsDrift
PROPERTIES SealedWindowsFrozen
