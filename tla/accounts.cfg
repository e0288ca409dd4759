SPECIFICATION Spec
CONSTANTS
    None = None
    Ended = Ended
    own = own
    help = help
    far = far
    guest = guest
    Requests = {r1, r2}
    Emails = {own, help, far, guest}
    Subjects = {c1, c2}
    Plans = {"free", "pro"}
    FreePlan = "free"
    MaxSubUsers <- Limits
    MayCreate = {"pro"}
    StartUsers <- Start
    StartPlans <- Subscribed
    OpenSignup = FALSE
    Invitations = {1}
    Ops = {"register", "adminCreate", "accept", "invite", "revokeInvite", "subUser", "revokeSubUser", "identity", "update", "profile", "delete", "subscribe"}
    MaxOps = 3
    MaxOverlap = 2
    MaxFailures = 2
    MaxUsers = 6
SYMMETRY Alike
INVARIANTS HierarchiesAgree NoHalfAccount ParentExists
PROPERTIES SubUserLimit InvitationSettles
CHECK_DEADLOCK FALSE
