SPECIFICATION Spec
CONSTANTS
    None = None
    Requests = {r1, r2, r3}
    Users = {u1, u2}
    Products = {free, pro, ebook}
    Recurring = {free, pro}
    Keyed = {pro, ebook}
    FreeProduct = free
    Refs = {ref1}
    Ops <- LifecycleAndAdmin
    Overlap = TRUE
    MaxOps = 3
    MaxFailures = 0
SYMMETRY Symmetry
INVARIANTS LivePurchaseGivesAccess
CHECK_DEADLOCK FALSE
