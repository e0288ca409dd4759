SPECIFICATION Spec
CONSTANTS
    None = None
    Requests = {r1, r2}
    Users = {u1}
    Products = {free, pro}
    Recurring = {free, pro}
    Keyed = {pro}
    FreeProduct = free
    Refs = {ref1}
    Ops <- Selling
    Overlap = TRUE
    MaxOps = 2
    MaxFailures = 0
PROPERTIES DeactivatesOnlyUnused
CHECK_DEADLOCK FALSE
