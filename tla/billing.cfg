SPECIFICATION Spec
CONSTANTS
    Nil = Nil
    Syncs = {s1, s2}
    Payments = {1, 2}
    Products = {p1}
    ListLimit = 1
    Throttle = 1
    MaxClock = 1
    MaxSyncs = 3
    MaxEvents = 3
SYMMETRY Alike
INVARIANTS  HeldBackBySuccess OneCustomer
CHECK_DEADLOCK FALSE
