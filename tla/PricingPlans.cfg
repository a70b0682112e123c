CONSTANTS
    Plans <- AnyPlans
    MaxUnits = 7
    MaxLate = 3
    MaxCredit = 4
    Null = Null
SPECIFICATION Spec
CHECK_DEADLOCK FALSE
INVARIANTS TypeOK BillIsExact ChargesTile
