CONSTANTS
    i1 = i1
    i2 = i2
    l1 = l1
    l2 = l2
    l3 = l3
    k1 = k1
    Invoices = {i1}
    Lines = {l1, l2}
    InvoiceOf <- OneInvoice
    Original <- OneInvoiceAmounts
    Requests = {}
    Keys = {}
    Deliveries = {d1}
    Amounts = {1}
    Staff = {}
    Hooks = {w1, w2}
    MaxAudit = 0
    None = None
SPECIFICATION Spec
INVARIANTS AckedIsProcessed
