SPECIFICATION Spec
CONSTANTS
    None = None
    Requests = {r1, r2}
    Users = {u1, u2}
    Products = {free, pro}
    Recurring = {free, pro}
    Keyed = {pro}
    FreeProduct = free
    Refs = {ref1}
    Ops <- AllOps
    Overlap = FALSE
    MaxOps = 4
    MaxFailures = 1
SYMMETRY Symmetry
INVARIANTS  SerialInv OneActiveSubscription EntitlementBacked
PROPERTIES EndedPurchaseIsFinal
CHECK_DEADLOCK FALSE
