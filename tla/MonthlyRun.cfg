CONSTANTS
    Customers = {c1, c2}
    Jobs = {j1, j2}
    MonthLength = 3
    IssueAt = 1
    ReconcileAt = {2}
    Grace = 0
    FirstMonth = 1
    LastMonth = 2
    MaxFailures = 1
    Reader = c1
    PageSize = 1
    None = None
SPECIFICATION Spec
INVARIANT TypeOK
PROPERTIES NoInvoiceSkipped ExitOkMeansInvoiced MonthInvoiced
CHECK_DEADLOCK FALSE
