SPECIFICATION CheckoutSpec
CONSTANTS
    None = None
    s1 = s1
    pro = pro
    ebook = ebook
    Requests = {r1, r2}
    Users = {ada, new, stranger, paused}
    Products = {pro, ebook}
    Recurring = {pro}
    Keyed = {ebook}
    FreeProduct = None
    Refs = {s1}
    Cart <- OneCart
    Registered = {ada, stranger, paused}
    Joined = {ada}
    Foreign = {stranger}
    Suspended = {paused}
    MaxRows = 3
    Ops <- NoOps
    Overlap = TRUE
    MaxOps = 0
    MaxFailures = 0
INVARIANTS FulfilledOnce
CHECK_DEADLOCK FALSE
