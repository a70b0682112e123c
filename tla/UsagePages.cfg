CONSTANTS
    r1 = r1
    r2 = r2
    r3 = r3
    Rids = {r1, r2, r3}
    Batches <- Overlapping
    Workers = {w1, w2}
    BucketOf <- Hour
    First = 1
    Last = 4
    Limits = {1, 2}
SPECIFICATION Spec
INVARIANTS TypeOK AcceptedOnce PagesAddUp
PROPERTIES BatchesEnd TableSpec
