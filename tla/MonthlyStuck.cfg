CONSTANTS
    Customers = {c1, c2}
    Jobs = {j1, j2}
    MonthLength = 5
    IssueAt = 1
    ReconcileAt = {2, 3, 4}
    Grace = 2
    FirstMonth = 1
    LastMonth = 1
    MaxFailures = 1
    Reader = c1
    PageSize = 1
    None = None
SPECIFICATION Spec
INVARIANT FailureSurfaces
