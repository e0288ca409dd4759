SPECIFICATION CheckoutSpec
CONSTANTS
    None = None
    s1 = s1
    pro = pro
    ebook = ebook
    Requests = {r1, r2}
    Users = {ada, new, stranger, paused}
    Products = {pro, ebook}
    Recurring = {pro}
    Keyed = {ebook}
    FreeProduct = None
    Refs = {s1}
    Cart <- OneCart
    Registered = {ada, stranger, paused}
    Joined = {ada}
    Foreign = {stranger}
    Suspended = {paused}
    MaxRows = 3
    Ops <- Deactivating
    Overlap = TRUE
    MaxOps = 1
    MaxFailures = 1
INVARIANTS CompletedIsFulfilled FulfilledToMember PaidSessionIsStored FulfilledHasCustomer
PROPERTIES ImplementsFulfilment PaidIsCompleted
CHECK_DEADLOCK FALSE
