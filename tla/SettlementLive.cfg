CONSTANTS
    i1 = i1
    i2 = i2
    l1 = l1
    l2 = l2
    l3 = l3
    k1 = k1
    Invoices = {i1, i2}
    Lines = {l1, l2, l3}
    InvoiceOf <- LineOwner
    Original <- LineAmounts
    Requests <- SharedKey
    Keys = {k1}
    Deliveries = {d1}
    Amounts = {1}
    Staff = {s1, s2}
    Hooks = {w1}
    MaxAudit = 1
    None = None
SPECIFICATION FairSpec
INVARIANTS NoDeadlock
PROPERTIES RequestsFinish
