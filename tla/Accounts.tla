------------------------------- MODULE Accounts -------------------------------
(***************************************************************************)
(* Accounts: user-service.ts, invitation-service.ts, the workspace         *)
(* memberships of lib/tenant-membership.ts and the first request of a      *)
(* Clerk identity (lib/auth/identity-resolver.ts), with the controllers    *)
(* that start them.                                                        *)
(*                                                                         *)
(* Every awaited call that writes, or whose result matters later, is one   *)
(* action.  Awaited reads that can only reject are covered by Fail at the  *)
(* next step: nothing is written in between and the same handler catches   *)
(* them.  Requests come in through a tenant, except the administrators',   *)
(* and the tenant's organization is active (an inactive one rejects every  *)
(* step that resolves it).  A hierarchy is written as a path: parentId and *)
(* ancestors are always set together, and the parent is the last ancestor. *)
(***************************************************************************)
EXTENDS Integers, FiniteSets, SequencesExt

CONSTANTS
    None,
    Ended,          \* stands for the plan of who has purchases, none active
    Requests,       \* slots: requests in flight at the same time
    Emails,
    Subjects,       \* identities at the identity provider
    Plans,          \* products a user may be subscribed to
    FreePlan,       \* the one with slug "free", with feature keys
    MaxSubUsers,    \* product.maxSubUsers: 0 none, -1 unlimited
    MayCreate,      \* products with the key "sub-users.create"
    StartUsers,     \* the accounts there are at first, a sequence
    StartPlans,     \* their subscriptions
    OpenSignup,     \* Clerk security setting: accounts without invitation
    Invitations,    \* ids, in order of creation
    Ops,            \* the requests that are made
    MaxOps,         \* bound: number of requests
    MaxOverlap,     \* bound: number of requests when some overlap
    MaxFailures,    \* bound: rejected calls, among requests made one by one
    MaxUsers        \* bound: user ids, those of deleted users included

ASSUME PlanAssumption ==
    /\ FreePlan \in Plans \cup {None}
    /\ MaxSubUsers \in [Plans -> Int]
    /\ MayCreate \subseteq Plans

\* MaxUsers never stops a request: each creates one account at most.
ASSUME BoundAssumption ==
    /\ Requests # {}
    /\ MaxOps \in Nat /\ MaxUsers \in Nat
    /\ Len(StartUsers) + MaxOps <= MaxUsers

\* None and Ended are nothing else.
ASSUME NoneAssumption ==
    /\ None \notin Plans \cup Subjects
    /\ Ended \notin Plans \cup {None}

ASSUME InvitationAssumption ==
    IsFiniteSet(Invitations) /\ Invitations = 1..Cardinality(Invitations)

VARIABLES
    users,          \* User rows by id
    member,         \* OrganizationMembership rows by user id
    plan,           \* the product of the user's active subscription; Ended
                    \* with other Purchase rows only, None without any
    entitled,       \* users with Membership rows, active or revoked
    invitation,     \* UserInvitation rows
    call,           \* per slot: the request in progress
    ops, rejected, overlapped   \* history: requests made, steps that rejected,
                                \* whether two requests were ever in flight

store == <<users, member, plan, entitled, invitation>>
history == <<ops, rejected, overlapped>>
vars == <<store, call, history>>

-----------------------------------------------------------------------------
(* State *)

UserIds == 1..MaxUsers

\* tenantId is the tenant's ("here"), or null or another one ("elsewhere").
UserRow == [state : {"unused", "live", "deleted"}, email : Emails \cup {None},
            home : {"here", "elsewhere"}, status : {"active", "disabled"},
            path : Seq(UserIds), subject : Subjects \cup {None}]

NoUser == [state |-> "unused", email |-> None, home |-> "here",
           status |-> "active", path |-> <<>>, subject |-> None]

MemberRow == [status : {"active", "disabled"}, path : Seq(UserIds)]

ASSUME MemberAssumption == None \notin MemberRow

\* What the operations leave behind: the ancestors of an account have
\* accounts of the tenant and plans, whatever these allow by now.
ASSUME StartAssumption ==
    LET start == DOMAIN StartUsers
        IsIn(u) == StartUsers[u].home = "here"
    IN /\ StartUsers \in Seq({row \in UserRow : row.state = "live"})
       /\ StartPlans \in Seq(Plans \cup {None})
       /\ Len(StartPlans) = Len(StartUsers)
       /\ \A u \in start : \A i \in DOMAIN StartUsers[u].path :
              LET a == StartUsers[u].path[i]
              IN a \in start /\ IsIn(a) /\ StartPlans[a] # None

\* late: expiresAt has passed.
NoInvitation == [status |-> "unsent", email |-> None, late |-> FALSE]

Operations == {"register", "adminCreate", "accept", "invite", "revokeInvite",
               "subUser", "revokeSubUser", "identity", "update", "profile",
               "delete", "subscribe"}

ASSUME OpsAssumption == Ops \subseteq Operations

IdleCall == [op |-> "none", pc |-> "idle", user |-> 0, other |-> 0,
             email |-> None, subject |-> None, path |-> <<>>,
             invitation |-> 0, input |-> "none", known |-> FALSE, limit |-> 0]

Live(u) == users[u].state = "live"
Here(u) == Live(u) /\ users[u].home = "here"
ParentOf(path) == IF path = <<>> THEN 0 ELSE Last(path)

\* findByEmailWithPassword: emails are unique in an environment.
WithEmail(e) == {u \in UserIds : Live(u) /\ users[u].email = e}
Taken(e) == WithEmail(e) # {}

\* countChildren and findDescendants, as the queries see the rows.
Children(p) == {u \in UserIds : Here(u) /\ ParentOf(users[u].path) = p}
Descendants(p) == {u \in UserIds : Here(u) /\ Contains(users[u].path, p)}

FreshIds == {u \in UserIds : users[u].state = "unused"}
FreshId == CHOOSE u \in FreshIds : TRUE

\* resolveRootId: the first ancestor.
Root(u) == IF users[u].path = <<>> THEN u ELSE Head(users[u].path)

\* checkAccess and getEnabledFeatures: whose Membership rows give u features.
FeatureSources(u) == {u, Root(u)}

\* hasActiveCurrentTenantMembership.
HasMembership(u) == Here(u) /\ member[u] # None /\ member[u].status = "active"

\* requireUser: the session's user is active and a member.
SignedIn(u) == HasMembership(u) /\ users[u].status = "active"

Busy(r) == call[r].pc # "idle"
AtRest == \A r \in Requests : ~Busy(r)
At(r, pc) == call[r].pc = pc
Goto(r, pc) == call' = [call EXCEPT ![r].pc = pc]
Finish(r) == call' = [call EXCEPT ![r] = IdleCall]

Init ==
    LET start == DOMAIN StartUsers
    IN /\ users = [u \in UserIds |-> IF u \in start THEN StartUsers[u] ELSE NoUser]
       /\ member = [u \in UserIds |->
                        IF u \in start /\ StartUsers[u].home = "here"
                        THEN [status |-> "active", path |-> StartUsers[u].path]
                        ELSE None]
       /\ plan = [u \in UserIds |-> IF u \in start THEN StartPlans[u] ELSE None]
       /\ entitled = {u \in start : StartPlans[u] # None}
       /\ invitation = [k \in Invitations |-> NoInvitation]
       /\ call = [r \in Requests |-> IdleCall]
       /\ ops = 0 /\ rejected = {} /\ overlapped = FALSE

-----------------------------------------------------------------------------
(* Requests: the controllers *)

\* A request takes a free slot.  Requests overlap only in behaviours without
\* rejected calls, which keeps the two kinds of trouble apart.
Begin(r, op, first) ==
    /\ ~Busy(r) /\ op \in Ops /\ ops < MaxOps
    /\ ~AtRest => rejected = {} /\ ops < MaxOverlap
    /\ overlapped => ops < MaxOverlap
    /\ call' = [call EXCEPT ![r] = first]
    /\ ops' = ops + 1
    /\ overlapped' = (overlapped \/ ~AtRest)
    /\ UNCHANGED <<store, rejected>>

\* POST /users/auth/register, in the tenant.
BeginRegister(r, e) ==
    Begin(r, "register",
          [IdleCall EXCEPT !.op = "register", !.pc = "createUser", !.email = e])

\* POST /users by an administrator: register without a workspace.
BeginAdminCreate(r, e) ==
    Begin(r, "adminCreate",
          [IdleCall EXCEPT !.op = "adminCreate", !.pc = "createUser", !.email = e])

BeginInvite(r, k, e) ==
    /\ invitation[k].status = "unsent"
    /\ \A q \in Requests : call[q].op # "invite" \/ call[q].invitation # k
    /\ Begin(r, "invite", [IdleCall EXCEPT !.op = "invite", !.pc = "storeInvitation",
                                           !.email = e, !.invitation = k])

BeginAccept(r, k) ==
    /\ invitation[k].status # "unsent"
    /\ Begin(r, "accept", [IdleCall EXCEPT !.op = "accept", !.pc = "readInvitation",
                                           !.invitation = k])

BeginRevokeInvite(r, k) ==
    /\ invitation[k].status # "unsent"
    /\ Begin(r, "revokeInvite",
             [IdleCall EXCEPT !.op = "revokeInvite", !.pc = "readInvitation",
                              !.invitation = k])

BeginSubUser(r, p, e) ==
    /\ SignedIn(p)
    /\ Begin(r, "subUser", [IdleCall EXCEPT !.op = "subUser", !.pc = "findParent",
                                            !.user = p, !.email = e])

BeginRevokeSubUser(r, p, u) ==
    /\ SignedIn(p)
    /\ Begin(r, "revokeSubUser",
             [IdleCall EXCEPT !.op = "revokeSubUser", !.pc = "findSubUser",
                              !.user = p, !.other = u])

\* A request with a token the identity provider vouches for.
BeginIdentity(r, s, e) ==
    Begin(r, "identity", [IdleCall EXCEPT !.op = "identity", !.pc = "byClerk",
                                          !.subject = s, !.email = e])

\* PUT /users/:id with a status, or without one.
BeginUpdate(r, u, status) ==
    Begin(r, "update", [IdleCall EXCEPT !.op = "update", !.pc = "readUser",
                                        !.other = u, !.input = status])

BeginProfile(r, u, e) ==
    /\ SignedIn(u)
    /\ Begin(r, "profile", [IdleCall EXCEPT !.op = "profile", !.pc = "checkEmail",
                                            !.other = u, !.email = e])

BeginDelete(r, u) ==
    Begin(r, "delete", [IdleCall EXCEPT !.op = "delete", !.pc = "dropUser",
                                        !.user = u])

\* Anything that may change what a user is subscribed to: checkout, an
\* upgrade or downgrade, cancelling, the expiry of a subscription.
BeginSubscribe(r, u) ==
    Begin(r, "subscribe", [IdleCall EXCEPT !.op = "subscribe", !.pc = "writePlan",
                                           !.user = u])

-----------------------------------------------------------------------------
(* purchaseService, of which PurchaseService has the single writes *)

\* The row of another subscription, or the end of the one there is; connect
\* rejects when the account is gone, and rows stay when they are cancelled,
\* revoked or expired.
WritePlan(r) ==
    /\ At(r, "writePlan")
    /\ LET u == call[r].user
       IN IF Live(u)
          THEN \E p \in Plans \cup (IF plan[u] = None THEN {} ELSE {Ended}) :
                   /\ plan' = [plan EXCEPT ![u] = p]
                   /\ entitled' = entitled \cup {u}
          ELSE UNCHANGED <<plan, entitled>>
    /\ Finish(r)
    /\ UNCHANGED <<users, member, invitation, history>>

-----------------------------------------------------------------------------
(* userService.register and registerForCurrentWorkspace *)

NewUser(e, home, path, s) ==
    [state |-> "live", email |-> e, home |-> home, status |-> "active",
     path |-> path, subject |-> s]

\* The unique index on (env, email) refuses a second account.
CreateUser(r) ==
    /\ At(r, "createUser") /\ FreshIds # {}
    /\ IF Taken(call[r].email)
       THEN Finish(r) /\ UNCHANGED users
       ELSE /\ users' = [users EXCEPT ![FreshId] = NewUser(call[r].email,
                    IF call[r].op = "adminCreate" THEN "elsewhere" ELSE "here",
                    <<>>, None)]
            /\ call' = [call EXCEPT ![r].user = FreshId,
                    ![r].pc = IF FreePlan = None THEN "enrich" ELSE "createPurchase"]
    /\ UNCHANGED <<member, plan, entitled, invitation, history>>

\* connect rejects when the account is gone.
CreatePurchase(r) ==
    /\ At(r, "createPurchase")
    /\ IF Live(call[r].user)
       THEN /\ plan' = [plan EXCEPT ![call[r].user] = FreePlan]
            /\ Goto(r, "grant")
       ELSE Goto(r, "dropEntitlements") /\ UNCHANGED plan
    /\ UNCHANGED <<users, member, entitled, invitation, history>>

Grant(r) ==
    /\ At(r, "grant")
    /\ IF Live(call[r].user)
       THEN /\ entitled' = entitled \cup {call[r].user}
            /\ Goto(r, "enrich")
       ELSE Goto(r, "dropEntitlements") /\ UNCHANGED entitled
    /\ UNCHANGED <<users, member, plan, invitation, history>>

\* The result is not awaited inside the try: a rejection here leaves register
\* without a rollback (OnReject).
Enrich(r) ==
    /\ At(r, "enrich")
    /\ IF call[r].op = "adminCreate" THEN Finish(r) ELSE Goto(r, "provisionUser")
    /\ UNCHANGED <<store, history>>

\* Mutant: a membership that cannot be made leaves the new account there.
UndoneWithoutRollback(c) == IdleCall

\* Anything but the same active membership is an error, and only register
\* rolls back.
Undone(c) == IF c.op = "identity" THEN IdleCall
             ELSE [c EXCEPT !.pc = "dropEntitlements"]

\* requireWorkspaceUser in provisionNewUserTenantMembership.
ProvisionUser(r) ==
    /\ At(r, "provisionUser")
    /\ call' = [call EXCEPT ![r] = IF Here(call[r].user)
                                   THEN [call[r] EXCEPT !.pc = "provision"]
                                   ELSE Undone(call[r])]
    /\ UNCHANGED <<store, history>>

\* What follows a provisioned membership, in the caller.
AfterProvision(c) ==
    IF c.invitation # 0 THEN [c EXCEPT !.pc = "markAccepted"] ELSE IdleCall

\* The unique index on (organization, user) turns a second insert down, and
\* the row that is there is read again.
Provision(r) ==
    /\ At(r, "provision")
    /\ LET u == call[r].user
       IN IF member[u] # None
          THEN Goto(r, "reread") /\ UNCHANGED member
          ELSE /\ member' = [member EXCEPT
                        ![u] = [status |-> "active", path |-> <<>>]]
               /\ call' = [call EXCEPT ![r] = AfterProvision(call[r])]
    /\ UNCHANGED <<users, plan, entitled, invitation, history>>

Reread(r) ==
    /\ At(r, "reread")
    /\ LET m == member[call[r].user]
       IN call' = [call EXCEPT ![r] = IF m # None /\ m.status = "active"
                                      THEN AfterProvision(call[r])
                                      ELSE Undone(call[r])]
    /\ UNCHANGED <<store, history>>

-----------------------------------------------------------------------------
(* rollbackRegistration: three awaited deletes *)

DropEntitlements(r) ==
    /\ At(r, "dropEntitlements")
    /\ entitled' = entitled \ {call[r].user}
    /\ Goto(r, "dropPurchases")
    /\ UNCHANGED <<users, member, plan, invitation, history>>

DropPurchases(r) ==
    /\ At(r, "dropPurchases")
    /\ plan' = [plan EXCEPT ![call[r].user] = None]
    /\ Goto(r, "dropUser")
    /\ UNCHANGED <<users, member, entitled, invitation, history>>

\* Mutant: the deletion of a user cascades to everything the user has.
DeletableCascading(u) == Live(u)

\* userRepository.delete.  The relations of Purchase and Membership restrict
\* the deletion, that of OrganizationMembership cascades, and that of the
\* children does nothing.
Deletable(u) == Live(u) /\ plan[u] = None /\ u \notin entitled

DeleteUser(u) ==
    /\ users' = [users EXCEPT ![u].state = IF Deletable(u) THEN "deleted" ELSE @]
    /\ member' = [member EXCEPT ![u] = IF Deletable(u) THEN None ELSE @]

\* The end of a rollback, and the whole of an administrator's delete.
DropUser(r) ==
    /\ At(r, "dropUser")
    /\ DeleteUser(call[r].user)
    /\ Finish(r)
    /\ UNCHANGED <<plan, entitled, invitation, history>>

-----------------------------------------------------------------------------
(* userService.createSubUser *)

\* The creator's ancestors are read here and written with the new child.
FindParent(r) ==
    /\ At(r, "findParent")
    /\ IF Here(call[r].user)
       THEN call' = [call EXCEPT ![r].path = users[call[r].user].path,
                                 ![r].pc = "findPlan"]
       ELSE Finish(r)
    /\ UNCHANGED <<store, history>>

\* Whether the plan of a creator lets it have sub-users; a sub-user also
\* needs the key on its own subscription.
MayHaveSubUsers(p, path) ==
    /\ p \in Plans
    /\ MaxSubUsers[p] # 0
    /\ path # <<>> => p \in MayCreate

FindPlan(r) ==
    /\ At(r, "findPlan")
    /\ LET p == plan[call[r].user]
       IN IF ~MayHaveSubUsers(p, call[r].path) THEN Finish(r)
          ELSE call' = [call EXCEPT ![r].limit = MaxSubUsers[p],
                    ![r].pc = IF MaxSubUsers[p] > 0 THEN "countDescendants"
                              ELSE "findEmail"]
    /\ UNCHANGED <<store, history>>

\* Mutant: the limit is compared one too late.
CountDescendantsOffByOne(r) ==
    /\ At(r, "countDescendants")
    /\ IF Cardinality(Descendants(call[r].user)) > call[r].limit
       THEN Finish(r) ELSE Goto(r, "findEmail")
    /\ UNCHANGED <<store, history>>

\* All that are below the creator, against the limit of the plan that was
\* read; the limits of its own ancestors are not looked at.
CountDescendants(r) ==
    /\ At(r, "countDescendants")
    /\ IF Cardinality(Descendants(call[r].user)) >= call[r].limit
       THEN Finish(r) ELSE Goto(r, "findEmail")
    /\ UNCHANGED <<store, history>>

\* An existing account is linked, unless it is another tenant's or somebody's
\* sub-user already; nothing keeps it from being an ancestor of the creator.
FindEmail(r) ==
    /\ At(r, "findEmail")
    /\ LET found == WithEmail(call[r].email)
           u == CHOOSE x \in found : TRUE
       IN IF found = {} THEN Goto(r, "insertSubUser")
          ELSE IF users[u].home = "elsewhere" \/ users[u].path # <<>> THEN Finish(r)
          ELSE call' = [call EXCEPT ![r].other = u, ![r].pc = "link"]
    /\ UNCHANGED <<store, history>>

\* connect rejects when the parent is gone, update when the row itself is.
Link(r) ==
    /\ At(r, "link")
    /\ LET c == call[r]
       IN IF Live(c.other) /\ Live(c.user)
          THEN /\ users' = [users EXCEPT ![c.other].path = Append(c.path, c.user)]
               /\ call' = [call EXCEPT ![r].pc = "syncUsers", ![r].known = TRUE]
          ELSE Finish(r) /\ UNCHANGED users
    /\ UNCHANGED <<member, plan, entitled, invitation, history>>

InsertSubUser(r) ==
    /\ At(r, "insertSubUser") /\ FreshIds # {}
    /\ LET c == call[r]
       IN IF Taken(c.email) \/ ~Live(c.user)
          THEN Finish(r) /\ UNCHANGED users
          ELSE /\ users' = [users EXCEPT ![FreshId] =
                        NewUser(c.email, "here", Append(c.path, c.user), None)]
               /\ call' = [call EXCEPT ![r].other = FreshId, ![r].pc = "syncUsers"]
    /\ UNCHANGED <<member, plan, entitled, invitation, history>>

-----------------------------------------------------------------------------
(* syncLegacySubUserTenantMembership, and the compensation of its caller *)

\* An account that was linked is detached again, a new one deleted.
Compensate(c) ==
    [c EXCEPT !.pc = IF c.known THEN "undoLink" ELSE "undoInsert"]

\* Two reads issued together; the status of the sub-user is remembered.
SyncUsers(r) ==
    /\ At(r, "syncUsers")
    /\ IF Here(call[r].user) /\ Here(call[r].other)
       THEN call' = [call EXCEPT ![r].pc = "syncParent",
                                 ![r].input = users[call[r].other].status]
       ELSE call' = [call EXCEPT ![r] = Compensate(@)]
    /\ UNCHANGED <<store, history>>

\* From here on path is that of the membership.
SyncParent(r) ==
    /\ At(r, "syncParent")
    /\ LET p == call[r].user
       IN IF member[p] # None /\ member[p].status = "active"
          THEN call' = [call EXCEPT ![r].path = Append(member[p].path, p),
                                    ![r].pc = "syncMember"]
          ELSE call' = [call EXCEPT ![r] = Compensate(@)]
    /\ UNCHANGED <<store, history>>

SyncMember(r) ==
    /\ At(r, "syncMember")
    /\ Goto(r, IF member[call[r].other] # None THEN "syncUpdate" ELSE "syncCreate")
    /\ UNCHANGED <<store, history>>

SyncUpdate(r) ==
    /\ At(r, "syncUpdate")
    /\ LET u == call[r].other
       IN IF member[u] # None
          THEN /\ member' = [member EXCEPT ![u].path = call[r].path]
               /\ Finish(r)
          ELSE call' = [call EXCEPT ![r] = Compensate(@)] /\ UNCHANGED member
    /\ UNCHANGED <<users, plan, entitled, invitation, history>>

\* A membership made meanwhile is read again and updated.
SyncCreate(r) ==
    /\ At(r, "syncCreate")
    /\ LET u == call[r].other
       IN IF member[u] # None
          THEN Goto(r, "syncRaced") /\ UNCHANGED member
          ELSE /\ member' = [member EXCEPT
                        ![u] = [status |-> call[r].input, path |-> call[r].path]]
               /\ Finish(r)
    /\ UNCHANGED <<users, plan, entitled, invitation, history>>

SyncRaced(r) ==
    /\ At(r, "syncRaced")
    /\ IF member[call[r].other] # None
       THEN Goto(r, "syncUpdate")
       ELSE call' = [call EXCEPT ![r] = Compensate(@)]
    /\ UNCHANGED <<store, history>>

\* The compensating write does not ask who set the parent; its own failure is
\* swallowed.
UndoLink(r) ==
    /\ At(r, "undoLink")
    /\ users' = [users EXCEPT ![call[r].other].path =
                    IF Live(call[r].other) THEN <<>> ELSE @]
    /\ Finish(r)
    /\ UNCHANGED <<member, plan, entitled, invitation, history>>

UndoInsert(r) ==
    /\ At(r, "undoInsert")
    /\ DeleteUser(call[r].other)
    /\ Finish(r)
    /\ UNCHANGED <<plan, entitled, invitation, history>>

-----------------------------------------------------------------------------
(* userService.revokeSubUser *)

FindSubUser(r) ==
    /\ At(r, "findSubUser")
    /\ LET u == call[r].other
       IN IF Here(u) /\ ParentOf(users[u].path) = call[r].user
          THEN call' = [call EXCEPT ![r].path = users[u].path,
                                    ![r].pc = "countChildren"]
          ELSE Finish(r)
    /\ UNCHANGED <<store, history>>

CountChildren(r) ==
    /\ At(r, "countChildren")
    /\ IF Children(call[r].other) = {} THEN Goto(r, "detach") ELSE Finish(r)
    /\ UNCHANGED <<store, history>>

Detach(r) ==
    /\ At(r, "detach")
    /\ LET u == call[r].other
       IN IF Live(u)
          THEN /\ users' = [users EXCEPT ![u].path = <<>>]
               /\ Goto(r, "detachRead")
          ELSE Finish(r) /\ UNCHANGED users
    /\ UNCHANGED <<member, plan, entitled, invitation, history>>

\* detachLegacySubUserTenantMembership: the user and the membership are read.
DetachRead(r) ==
    /\ At(r, "detachRead")
    /\ Goto(r, IF Here(call[r].other) /\ member[call[r].other] # None
               THEN "detachWrite" ELSE "undoRevoke")
    /\ UNCHANGED <<store, history>>

DetachWrite(r) ==
    /\ At(r, "detachWrite")
    /\ LET u == call[r].other
       IN IF member[u] # None
          THEN member' = [member EXCEPT ![u].path = <<>>] /\ Finish(r)
          ELSE Goto(r, "undoRevoke") /\ UNCHANGED member
    /\ UNCHANGED <<users, plan, entitled, invitation, history>>

\* Mutant: the sub-user is left detached.
UndoRevokeNothing(r) ==
    /\ At(r, "undoRevoke")
    /\ Finish(r)
    /\ UNCHANGED <<store, history>>

UndoRevoke(r) ==
    /\ At(r, "undoRevoke")
    /\ LET c == call[r]
       IN users' = [users EXCEPT ![c.other].path =
                        IF Live(c.other) /\ Live(c.user) THEN c.path ELSE @]
    /\ Finish(r)
    /\ UNCHANGED <<member, plan, entitled, invitation, history>>

-----------------------------------------------------------------------------
(* invitationService *)

\* Both providers store a row; what is sent to the invited is not modelled.
StoreInvitation(r) ==
    /\ At(r, "storeInvitation")
    /\ invitation' = [invitation EXCEPT ![call[r].invitation] =
            [@ EXCEPT !.status = "pending", !.email = call[r].email]]
    /\ Finish(r)
    /\ UNCHANGED <<users, member, plan, entitled, history>>

\* Mutant: an invitation is accepted whatever its status is.
ReadInvitationUnchecked(r) ==
    /\ At(r, "readInvitation")
    /\ LET k == call[r].invitation
       IN call' = [call EXCEPT ![r].email = invitation[k].email,
            ![r].pc = IF call[r].op = "revokeInvite" THEN "markExpired"
                      ELSE IF invitation[k].late THEN "markExpired" ELSE "createUser"]
    /\ UNCHANGED <<store, history>>

\* accept and revoke look the row up and insist on "pending".
ReadInvitation(r) ==
    /\ At(r, "readInvitation")
    /\ LET k == call[r].invitation
       IN IF invitation[k].status # "pending"
          THEN Finish(r)
          ELSE call' = [call EXCEPT ![r].email = invitation[k].email,
                 ![r].pc = IF call[r].op = "revokeInvite" THEN "markExpired"
                           ELSE IF invitation[k].late THEN "markExpired"
                           ELSE "createUser"]
    /\ UNCHANGED <<store, history>>

Mark(r, status) ==
    /\ invitation' = [invitation EXCEPT ![call[r].invitation].status = status]
    /\ Finish(r)
    /\ UNCHANGED <<users, member, plan, entitled, history>>

\* updateStatus writes whatever the status has become.
MarkExpired(r) == At(r, "markExpired") /\ Mark(r, "expired")
MarkAccepted(r) == At(r, "markAccepted") /\ Mark(r, "accepted")

\* expiresAt passes.
Lapse(k) ==
    /\ invitation[k].status # "unsent" /\ ~invitation[k].late
    /\ invitation' = [invitation EXCEPT ![k].late = TRUE]
    /\ UNCHANGED <<users, member, plan, entitled, call, history>>

-----------------------------------------------------------------------------
(* resolveLegacyClerkIdentity *)

\* A linked user is all that is needed; whether its membership is active
\* decides about the answer, not about the rows.
ByClerk(r) ==
    /\ At(r, "byClerk")
    /\ IF \E u \in UserIds : Live(u) /\ users[u].subject = call[r].subject
       THEN Finish(r) ELSE Goto(r, "byEmail")
    /\ UNCHANGED <<store, history>>

\* The account with the verified email, if it is not another identity's.
ByEmail(r) ==
    /\ At(r, "byEmail") \/ At(r, "byEmailAgain")
    /\ LET found == WithEmail(call[r].email)
           u == CHOOSE x \in found : TRUE
       IN IF found = {}
          THEN IF At(r, "byEmail") THEN Goto(r, "gate") ELSE Finish(r)
          ELSE IF users[u].subject \notin {None, call[r].subject} THEN Finish(r)
          ELSE call' = [call EXCEPT ![r].other = u, ![r].pc = "checkMember",
                            ![r].known = (users[u].subject = call[r].subject)]
    /\ UNCHANGED <<store, history>>

\* An account is never linked without a membership of this tenant.
CheckMember(r) ==
    /\ At(r, "checkMember")
    /\ call' = [call EXCEPT ![r] =
            IF ~HasMembership(call[r].other) THEN IdleCall
            ELSE IF call[r].known THEN AfterProvision(call[r])
            ELSE [call[r] EXCEPT !.pc = "linkSubject"]]
    /\ UNCHANGED <<store, history>>

LinkSubject(r) ==
    /\ At(r, "linkSubject")
    /\ LET u == call[r].other
       IN IF Live(u)
          THEN /\ users' = [users EXCEPT ![u].subject = call[r].subject]
               /\ call' = [call EXCEPT ![r] = AfterProvision(call[r])]
          ELSE Finish(r) /\ UNCHANGED users
    /\ UNCHANGED <<member, plan, entitled, invitation, history>>

\* findPendingByEmail: the latest one that has not lapsed.
PendingFor(e) == {k \in Invitations : /\ invitation[k].status = "pending"
                                      /\ invitation[k].email = e
                                      /\ ~invitation[k].late}

\* The setting and the invitation are read together.
Gate(r) ==
    /\ At(r, "gate")
    /\ LET pending == PendingFor(call[r].email)
           latest == CHOOSE k \in pending : \A j \in pending : j <= k
       IN IF pending = {}
          THEN IF OpenSignup THEN Goto(r, "jitCreate") ELSE Finish(r)
          ELSE call' = [call EXCEPT ![r].invitation = latest, ![r].pc = "jitCreate"]
    /\ UNCHANGED <<store, history>>

\* Whoever loses the race to create the account links the winner's.
JitCreate(r) ==
    /\ At(r, "jitCreate") /\ FreshIds # {}
    /\ LET c == call[r]
       IN IF Taken(c.email)
          THEN Goto(r, "byEmailAgain") /\ UNCHANGED users
          ELSE /\ users' = [users EXCEPT ![FreshId] =
                        NewUser(c.email, "here", <<>>, c.subject)]
               /\ call' = [call EXCEPT ![r].user = FreshId, ![r].pc = "provisionUser"]
    /\ UNCHANGED <<member, plan, entitled, invitation, history>>

-----------------------------------------------------------------------------
(* userService.update and updateProfile *)

\* What the request leaves out is written back as it was read.
ReadUser(r) ==
    /\ At(r, "readUser")
    /\ LET u == call[r].other
           c == call[r]
       IN IF Live(u)
          THEN call' = [call EXCEPT ![r].email = users[u].email,
                    ![r].input = IF c.input = "keep" THEN users[u].status ELSE c.input,
                    ![r].pc = "writeUser"]
          ELSE Finish(r)
    /\ UNCHANGED <<store, history>>

\* The unique index has the last word about the email.
WriteUser(r) ==
    /\ At(r, "writeUser")
    /\ LET u == call[r].other
           c == call[r]
           free == WithEmail(c.email) \subseteq {u}
       IN users' = [users EXCEPT ![u] =
                IF Live(u) /\ free
                THEN [@ EXCEPT !.email = c.email,
                               !.status = IF c.op = "update" THEN c.input
                                          ELSE users[u].status]
                ELSE @]
    /\ Finish(r)
    /\ UNCHANGED <<member, plan, entitled, invitation, history>>

\* updateProfile; an unchanged email leaves no field to update.
CheckEmail(r) ==
    /\ At(r, "checkEmail")
    /\ IF Taken(call[r].email) THEN Finish(r) ELSE Goto(r, "writeUser")
    /\ UNCHANGED <<store, history>>

-----------------------------------------------------------------------------
(* Failures and the specification *)

Rollback == {"createPurchase", "grant"}
Provisioning == {"provisionUser", "reread"}
Syncing == {"syncUsers", "syncParent", "syncMember", "syncUpdate", "syncRaced"}
Detaching == {"detachRead", "detachWrite"}

\* Which handler catches a rejected call: the two creates that may have lost
\* a race read again, registration rolls back, the sub-user operations
\* compensate, and everything else is an error for the caller.
OnReject(c) ==
    CASE c.pc \in Rollback -> [c EXCEPT !.pc = "dropEntitlements"]
      [] c.pc \in Provisioning -> Undone(c)
      [] c.pc = "provision" -> [c EXCEPT !.pc = "reread"]
      [] c.pc \in Syncing -> Compensate(c)
      [] c.pc = "syncCreate" -> [c EXCEPT !.pc = "syncRaced"]
      [] c.pc \in Detaching -> [c EXCEPT !.pc = "undoRevoke"]
      [] c.pc = "jitCreate" -> [c EXCEPT !.pc = "byEmailAgain"]
      [] OTHER -> IdleCall

Fail(r) ==
    /\ Busy(r) /\ ~overlapped
    /\ call[r].pc \notin rejected /\ Cardinality(rejected) < MaxFailures
    /\ rejected' = rejected \cup {call[r].pc}
    /\ call' = [call EXCEPT ![r] = OnReject(@)]
    /\ UNCHANGED <<store, ops, overlapped>>

\* Begin's bounds are looked at first: most of the time no request is left.
BeginAny(r) ==
    /\ ~Busy(r) /\ ops < MaxOps
    /\ \/ \E e \in Emails : \/ BeginRegister(r, e) \/ BeginAdminCreate(r, e)
                            \/ \E p \in UserIds : \/ BeginSubUser(r, p, e)
                                                  \/ BeginProfile(r, p, e)
                            \/ \E s \in Subjects : BeginIdentity(r, s, e)
                            \/ \E k \in Invitations : BeginInvite(r, k, e)
       \/ \E k \in Invitations : BeginAccept(r, k) \/ BeginRevokeInvite(r, k)
       \/ \E u \in UserIds : \/ Live(u) /\ BeginDelete(r, u)
                             \/ \E p \in UserIds : Live(u) /\ BeginRevokeSubUser(r, p, u)
                             \/ \E s \in {"active", "disabled", "keep"} :
                                    Live(u) /\ BeginUpdate(r, u, s)
                             \/ Live(u) /\ BeginSubscribe(r, u)

Registration(r) ==
    \/ CreateUser(r) \/ CreatePurchase(r) \/ Grant(r) \/ Enrich(r)
    \/ ProvisionUser(r) \/ Provision(r) \/ Reread(r)
    \/ DropEntitlements(r) \/ DropPurchases(r) \/ DropUser(r)

SubUsers(r) ==
    \/ FindParent(r) \/ FindPlan(r) \/ CountDescendants(r) \/ FindEmail(r)
    \/ Link(r) \/ InsertSubUser(r) \/ SyncUsers(r) \/ SyncParent(r)
    \/ SyncMember(r) \/ SyncUpdate(r) \/ SyncCreate(r) \/ SyncRaced(r)
    \/ UndoLink(r) \/ UndoInsert(r) \/ FindSubUser(r) \/ CountChildren(r)
    \/ Detach(r) \/ DetachRead(r) \/ DetachWrite(r) \/ UndoRevoke(r)

InvitationsAndIdentities(r) ==
    \/ StoreInvitation(r) \/ ReadInvitation(r) \/ MarkExpired(r) \/ MarkAccepted(r)
    \/ ByClerk(r) \/ ByEmail(r) \/ CheckMember(r) \/ LinkSubject(r)
    \/ Gate(r) \/ JitCreate(r)

Next ==
    \/ \E r \in Requests : \/ BeginAny(r) \/ Registration(r) \/ SubUsers(r)
                           \/ InvitationsAndIdentities(r) \/ ReadUser(r)
                           \/ WriteUser(r) \/ CheckEmail(r) \/ WritePlan(r)
                           \/ Fail(r)
    \/ \E k \in Invitations : Lapse(k)

Spec == Init /\ [][Next]_vars

-----------------------------------------------------------------------------
(* Properties *)

\* Writes that undo others; nothing repairs them when they fail themselves.
Cleanups == {"undoLink", "undoInsert", "undoRevoke", "dropEntitlements",
             "dropPurchases", "dropUser"}

\* The two hierarchies of sub-users, User.parentId with its ancestors and the
\* organization's memberships, agree when no request is in progress, however
\* requests made one after the other fail, as long as no compensating write
\* does (docs/tenant-route-scope.md: the two hierarchies do not drift).
HierarchiesAgree ==
    AtRest /\ ~overlapped /\ rejected \cap Cleanups = {} =>
        \A u \in UserIds : member[u] # None => member[u].path = users[u].path

\* A registration that broke off leaves no half-made account: without a
\* membership nobody can log in to it, and its email is taken.  What can leave
\* one is a failed rollback, the read register does not await inside its try
\* (user-service.ts:171), and a failed provisioning of a Clerk identity, which
\* is not rolled back (identity-resolver.ts:145).
NoHalfAccount ==
    AtRest /\ ~overlapped /\ rejected \cap (Cleanups \cup {"enrich"}) = {} =>
        \A u \in UserIds : Here(u) /\ member[u] = None =>
            /\ users[u].subject # None
            /\ rejected \cap {"provisionUser", "provision", "reread"} # {}

\* The parent of every sub-user still exists, whatever runs at the same time,
\* and so does the account it inherits features from: parents have a
\* subscription, and an account with purchases is not deleted.
ParentExists ==
    \A u \in UserIds : Live(u) =>
        /\ users[u].path # <<>> => Live(ParentOf(users[u].path))
        /\ \A v \in FeatureSources(u) : Live(v)

\* Requests made one after the other give nobody a sub-user without a
\* subscription that allows it: whoever gets one has a plan, and no more users
\* below than the plan's limit.  Plans shrink and end while the sub-users stay,
\* so this is about the step that adds one and not about how many there are;
\* a revocation that fails gives back a sub-user without asking.
SubUserLimit ==
    [][\A u \in UserIds :
          /\ Children(u)' \ Children(u) # {} /\ ~overlapped'
          /\ \A r \in Requests : ~At(r, "undoRevoke")
          => /\ plan[u] \in Plans
             /\ MaxSubUsers[plan[u]] >= 0
                => Cardinality(Descendants(u)') <= MaxSubUsers[plan[u]]]_vars

\* An invitation is settled once, by requests that do not overlap, and is
\* accepted only when there is an account with its email.
InvitationSettles ==
    [][\A k \in Invitations :
          LET old == invitation[k].status
              new == invitation'[k].status
          IN /\ old # new /\ ~overlapped' => old \in {"unsent", "pending"}
             /\ old # "accepted" /\ new = "accepted" /\ ~overlapped'
                => Taken(invitation[k].email)]_vars

=============================================================================
