SPECIFICATION Spec
CONSTANTS
    Nil = Nil
    Rows <- MCRows
    Early <- MCEarly
    ModelOf <- MCModelOf
    Legacy <- MCLegacy
    Ref <- MCRef
    SlugOf <- MCSlugOf
    KeysOf <- MCKeysOf
    ClerkOf <- MCClerkOf
    StartPath <- MCStartPath
    Damages <- MCDamages
    Admins = {"admin"}
    Tenant = Tenant
    Other = Other
    Models <- MCModels
    MaxStops = 2
    MaxWrites = 2
    Absent = Absent
    t1 = t1
    t2 = t2
    label = label
    shop = shop
    r1 = r1
    r2 = r2
    Things = {"ann", "bob", "cat", "pa", "pb", "pc"}
    Purchases = {"pa", "pb", "pc"}
    Requests = {r1, r2}
    Tenants = {t1, t2}
    Labels = {t1, label}
    Hosts = {shop}
    HasSecret = TRUE
    CacheMs = 2
    Skew = 1
    MaxTime = 2
    MaxChanges = 2
    MaxCalls = 2
INVARIANTS
    BackfilledIsClean
    BoundAsConfigured
PROPERTIES
    TenantIsKept
    BackfillCompletes
    RequestsStayInScope
CHECK_DEADLOCK FALSE
