CONSTANTS
    i1 = i1
    i2 = i2
    l1 = l1
    l2 = l2
    l3 = l3
    k1 = k1
    Invoices = {i1}
    Lines = {l1, l2}
    InvoiceOf <- OneInvoice
    Original <- OneInvoiceAmounts
    Requests <- KeyedRequests
    Keys = {k1}
    Deliveries = {d1, d2}
    Amounts = {1}
    Staff = {s1, s2}
    Hooks = {w1, w2}
    MaxAudit = 1
    None = None
SPECIFICATION Spec
SYMMETRY Symmetric
INVARIANTS TypeOK TotalMatchesLines AuditReplays PaidInFull PaidOnce
PROPERTIES PaidFrozen QuietCheckIsClean BookSpec
