SPECIFICATION Spec
CONSTANTS
    None = None
    Nothing = Nothing
    a1 = a1
    a2 = a2
    u1 = u1
    u2 = u2
    Admins = {a1, a2}
    StartAdmins = {a1, a2}
    Users = {u1, u2}
    Tokens = {1, 2, 3}
    Providers = {"credentials", "clerk"}
    Requests = {r1, r2}
    ImpersonationLife = 1
    SessionLife = 2
    Window = 2
    MaxAttempts <- Limits
    MaxTime = 4
    MaxVisits = 7
    MaxChanges = 2
    Keys = {k1, k2}
    Envs = {"dev", "production"}
    Fallback = "dev"
    Loads = {l1, l2}
    Writers = {w1, w2}
    FeatureTtl = 2
    EnvTtl = 1
    MaxClock = 4
    MaxWrites = 3
SYMMETRY Alike
INVARIANTS ActiveAdminRemains ImpersonatedIsFlagged RateLimitExact FeatureStaleness EnvFreshAfterSet
CHECK_DEADLOCK FALSE
