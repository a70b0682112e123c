CONSTANTS
    Workers = {w1, w2}
    alice = alice
    bob = bob
    acme = acme
    globex = globex
    small = small
    large = large
    Staff = {alice, bob}
    Customers = {acme, globex}
    Bodies = {small, large}
    None = None
    Requests <- DoubleClicks
SPECIFICATION Spec
INVARIANTS TypeOK RecordedIsIssued
PROPERTIES RequestsEnd LedgerSpec
