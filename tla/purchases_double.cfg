SPECIFICATION Spec
CONSTANTS
    None = None
    Requests = {r1, r2}
    Users = {u1}
    Products = {free, pro}
    Recurring = {free, pro}
    Keyed = {pro}
    FreeProduct = free
    Refs = {ref1}
    Ops <- Lifecycle
    Overlap = TRUE
    MaxOps = 2
    MaxFailures = 0
INVARIANTS OneActiveSubscription
CHECK_DEADLOCK FALSE
