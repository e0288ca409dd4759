---------------------------- MODULE AccountsProofs ----------------------------
(***************************************************************************)
(* Theorems about accounts, for any users to start with, any number of     *)
(* slots and any bounds on requests and rejections:                        *)
(*   - whatever overlaps or rejects, the parent of a sub-user is still     *)
(*     there (ParentsExist);                                               *)
(*   - requests one after the other, whichever step rejects, settle an     *)
(*     invitation once (InvitationsSettle), keep the two hierarchies alike *)
(*     (HierarchiesStayTogether), leave no account half made               *)
(*     (NoHalfAccounts) and keep sub-users within the plan                 *)
(*     (SubUsersAreLimited), with the exceptions the properties name.      *)
(*                                                                         *)
(* ParentInv carries the first.  An ancestor has a plan and an active      *)
(* membership, an account with a plan is not deleted, and the requests in  *)
(* progress name users and paths of that kind (CallOK).                    *)
(* SerialInv carries the others.  One request is in progress at most, and  *)
(* Facts says, by its next step, where the store differs from a store at   *)
(* rest: the one path, account, entitlement or invitation it is about.     *)
(***************************************************************************)
EXTENDS Accounts, FiniteSetTheorems, SequenceTheorems, WellFoundedInduction, TLAPS

-----------------------------------------------------------------------------
(* What the steps of a request may use *)

Registering == {"createPurchase", "grant", "enrich", "provisionUser", "provision", "reread"}
Undoing == {"dropEntitlements", "dropPurchases"}
Preparing == {"findParent", "findPlan", "countDescendants", "findEmail", "link",
              "insertSubUser"}
Attaching == Syncing \cup {"syncCreate", "undoLink", "undoInsert"}
Releasing == Detaching \cup {"undoRevoke"}
Revoking == {"countChildren", "detach"} \cup Releasing
Identifying == {"byClerk", "byEmail", "byEmailAgain", "checkMember", "linkSubject",
                "gate", "jitCreate"}

UsesUser == Registering \cup Undoing \cup {"dropUser"} \cup Preparing \cup Attaching
            \cup {"findSubUser", "writePlan"} \cup Revoking
UsesOther == {"link"} \cup Attaching \cup {"findSubUser"} \cup Revoking
             \cup {"checkMember", "linkSubject", "readUser", "writeUser", "checkEmail"}
UsesInvitation == {"storeInvitation", "readInvitation", "markExpired", "markAccepted"}

Pcs == UsesUser \cup UsesOther \cup UsesInvitation \cup Identifying
       \cup {"idle", "createUser"}

CallRecord == [op : Operations \cup {"none"}, pc : Pcs, user : UserIds \cup {0},
               other : UserIds \cup {0}, email : Emails \cup {None},
               subject : Subjects \cup {None}, path : Seq(UserIds),
               invitation : Invitations \cup {0},
               input : {"none", "active", "disabled", "keep"}, known : BOOLEAN,
               limit : Int]

InvitationRow == [status : {"unsent", "pending", "expired", "accepted"},
                  email : Emails \cup {None}, late : BOOLEAN]

StoreTyped ==
    /\ users \in [UserIds -> UserRow]
    /\ member \in [UserIds -> MemberRow \cup {None}]
    /\ plan \in [UserIds -> Plans \cup {None, Ended}]
    /\ entitled \subseteq UserIds
    /\ invitation \in [Invitations -> InvitationRow]

Shape(c) ==
    /\ c.pc = "idle" => c = IdleCall
    /\ c.pc \in UsesUser => c.user \in UserIds
    /\ c.pc \in UsesOther => c.other \in UserIds
    /\ c.pc \in UsesInvitation => c.invitation \in Invitations
    /\ c.pc \in (Syncing \ {"syncUsers"}) \cup {"syncCreate"}
       => c.input \in {"active", "disabled"}
    /\ c.pc = "writeUser" /\ c.op = "update" => c.input \in {"active", "disabled"}
    /\ c.pc = "checkEmail" => c.op # "update"
    /\ c.pc = "readUser" => c.input \in {"active", "disabled", "keep"}
    /\ c.pc \in Identifying => c.op = "identity"
    /\ c.op = "identity" => /\ c.subject # None
                            /\ c.pc \in Identifying \cup Provisioning \cup {"provision", "markAccepted"}
    /\ c.pc \in Provisioning \cup {"provision"} => c.op # "adminCreate"
    /\ c.op = "delete" => c.pc = "dropUser"
    /\ c.pc = "createPurchase" => FreePlan # None
    /\ c.pc \in Revoking => c.path # <<>> /\ Last(c.path) = c.user

\* A step rejects, or requests overlap, not both (Fail).
Alone ==
    /\ rejected # {} => ~overlapped
    /\ ~overlapped => \A q, r \in Requests : Busy(q) /\ Busy(r) => q = r

Used(u) == users[u].state # "unused"
Blank(u) == member[u] = None /\ plan[u] = None /\ u \notin entitled

\* Who is an ancestor, or may become one.
Anchored(u) == HasMembership(u) /\ plan[u] # None
AnchoredPath(path) == \A i \in DOMAIN path : Anchored(path[i])

\* What the next step of c may rely on, whatever overlaps.
Sound(c) ==
    /\ c.pc \in UsesUser => Used(c.user)
    /\ c.pc \in UsesOther => Used(c.other)
    /\ c.pc \in (Preparing \ {"findParent"}) \cup Revoking => AnchoredPath(c.path)
    /\ c.pc \in Preparing /\ Live(c.user) => HasMembership(c.user)
    /\ c.pc \in Preparing \ {"findParent", "findPlan"} /\ Live(c.user) => plan[c.user] # None
    /\ c.pc \in Undoing => /\ ~HasMembership(c.user)
                           /\ \/ ~Live(c.user) \/ member[c.user] # None
                              \/ rejected # {}
    /\ c.pc \in Registering /\ ~overlapped => member[c.user] = None
    /\ c.pc \in Registering /\ c.op # "adminCreate" => users[c.user].home = "here"
    /\ c.pc = "reread" /\ rejected = {} => ~Live(c.user) \/ member[c.user] # None

StoreOK ==
    /\ StoreTyped
    /\ \A u \in UserIds : ~Used(u) => Blank(u)
    /\ \A u \in UserIds : AnchoredPath(users[u].path)

CallOK(c) == c \in CallRecord /\ Shape(c) /\ Sound(c)

ParentInv ==
    /\ StoreOK /\ Alone /\ overlapped \in BOOLEAN
    /\ call \in [Requests -> CallRecord]
    /\ \A r \in Requests : CallOK(call[r])

-----------------------------------------------------------------------------
(* What the one request in progress knows, when none overlaps *)

Clean == rejected \cap Cleanups = {}

\* The sub-user being attached: its path is written before its membership's.
Attached(c) ==
    /\ c.pc \in Preparing => Live(c.user) /\ ~c.known
    /\ c.pc \in Preparing \ {"findParent"} => c.path = users[c.user].path
    /\ c.pc = "link" => Live(c.other) /\ users[c.other].path = <<>>
    /\ c.pc \in Attaching => Live(c.other)
    /\ c.pc \in Attaching /\ ~c.known => Blank(c.other)
    /\ c.pc \in Attaching /\ c.known /\ Clean /\ member[c.other] # None
       => member[c.other].path = <<>>
    /\ c.pc \in {"syncUsers", "syncParent"} /\ Clean /\ member[c.user] # None
       => users[c.other].path = Append(member[c.user].path, c.user)
    /\ c.pc \in (Syncing \ {"syncUsers", "syncParent"}) \cup {"syncCreate"} /\ Clean
       => c.path = users[c.other].path
    /\ c.pc = "undoLink" => c.known
    /\ c.pc = "undoInsert" => ~c.known

\* The one being revoked is a root already while its membership is not.
Detached(c) ==
    /\ c.pc \in {"countChildren", "detach"} => c.path = users[c.other].path
    /\ c.pc \in Revoking => Here(c.other)
    /\ c.pc \in Releasing => users[c.other].path = <<>>
    /\ c.pc \in Releasing /\ Clean /\ member[c.other] # None
       => member[c.other].path = c.path

\* Whose two paths differ for the moment.
Changing(c) == {u \in UserIds : c.pc \in Attaching \cup Releasing /\ u = c.other}

\* Of everybody else the two paths agree.
Agreed(c) == Clean => \A u \in UserIds \ Changing(c) :
                          member[u] # None => member[u].path = users[u].path

\* The account being registered, or its registration undone.
NewAccount(c) == \/ c.pc \in Registering \cup Undoing
                 \/ c.pc = "dropUser" /\ c.op # "delete"

Registered(c) ==
    NewAccount(c) =>
        LET u == users[c.user]
        IN /\ u.state = "live" /\ u.path = <<>> /\ u.email = c.email
           /\ member[c.user] = None
           /\ u.home = (IF c.op = "adminCreate" THEN "elsewhere" ELSE "here")
           /\ c.op = "identity" => u.subject # None
           /\ c.pc \in {"dropPurchases", "dropUser"} => c.user \notin entitled
           /\ c.pc = "dropUser" => plan[c.user] = None
           /\ c.pc = "reread" => "provision" \in rejected

\* Which account is not complete for the moment.
Making(c) == {u \in UserIds : \/ NewAccount(c) /\ u = c.user
                              \/ c.pc \in Attaching /\ ~c.known /\ u = c.other}
Half(u) == Here(u) /\ member[u] = None
Explained(u) == /\ users[u].subject # None
                /\ rejected \cap {"provisionUser", "provision", "reread"} # {}

\* Everybody else has a membership, or a reason not to.
Whole(c) == rejected \cap (Cleanups \cup {"enrich"}) = {} =>
                \A u \in UserIds \ Making(c) : Half(u) => Explained(u)

\* The next steps of a request that has found room for one more.
Adding == {"findEmail", "link", "insertSubUser"}

\* The limit is that of the plan, which nobody changes meanwhile.
Counted(c) ==
    c.pc \in {"countDescendants"} \cup Adding =>
        /\ plan[c.user] \in Plans /\ c.limit = MaxSubUsers[plan[c.user]]
        /\ c.pc \in Adding /\ c.limit >= 0
           => Cardinality(Descendants(c.user)) < c.limit

\* The invitation a request settles is still what the request read.
Settling(c) ==
    /\ c.pc = "storeInvitation" => invitation[c.invitation].status = "unsent"
    /\ c.invitation # 0 /\ c.pc \notin {"storeInvitation", "readInvitation"}
       => /\ invitation[c.invitation].status = "pending"
          /\ invitation[c.invitation].email = c.email
    /\ c.pc \in {"checkMember", "linkSubject"}
       => Live(c.other) /\ users[c.other].email = c.email
    /\ c.pc = "markAccepted" => Taken(c.email)
    /\ c.pc = "readUser" => c.invitation = 0

\* The store is as a store at rest but for what the request c is about.
Facts(c) == /\ Attached(c) /\ Detached(c) /\ Agreed(c)
            /\ Registered(c) /\ Whole(c) /\ Counted(c) /\ Settling(c)

SerialInv == ~overlapped =>
    \E r \in Requests : /\ \A q \in Requests \ {r} : call[q] = IdleCall
                        /\ Facts(call[r])

-----------------------------------------------------------------------------
(* Calls and rows *)

\* The lists of next steps are lists of program counters.
LEMMA PcsAre ==
    /\ UsesUser \subseteq Pcs /\ UsesOther \subseteq Pcs /\ UsesInvitation \subseteq Pcs
    /\ Identifying \subseteq Pcs /\ "idle" \in Pcs /\ "createUser" \in Pcs
BY DEF Pcs

\* A slot without a request is well formed.
LEMMA IdleCallOK == CallOK(IdleCall)
<1>1. IdleCall.pc = "idle"
  BY DEF IdleCall
<1>2. IdleCall \in CallRecord
  <2>1. <<>> \in Seq(UserIds)
    OBVIOUS
  <2>. QED
    BY <2>1, PcsAre DEF IdleCall, CallRecord
<1>3. Shape(IdleCall)
  BY <1>1 DEF Shape, IdleCall, UsesUser, UsesOther, UsesInvitation, Registering, Undoing,
     Preparing, Attaching, Syncing, Releasing, Detaching, Revoking, Identifying, Provisioning
<1>4. Sound(IdleCall)
  BY <1>1 DEF Sound, UsesUser, UsesOther, Registering, Undoing,
     Preparing, Attaching, Syncing, Releasing, Detaching, Revoking, Identifying
<1>. QED
  BY <1>2, <1>3, <1>4 DEF CallOK

\* An id that has not been used.
LEMMA FreshIdIsUnused ==
    ASSUME FreshIds # {}
    PROVE  FreshId \in UserIds /\ ~Used(FreshId)
BY DEF FreshIds, FreshId, Used

\* A new account has the type of a user.
LEMMA NewUserTyped ==
    ASSUME NEW e \in Emails \cup {None}, NEW home \in {"here", "elsewhere"},
           NEW path \in Seq(UserIds), NEW s \in Subjects \cup {None}
    PROVE  NewUser(e, home, path, s) \in UserRow
BY DEF NewUser, UserRow

\* Every stored row has its type.
LEMMA RowsTyped ==
    ASSUME StoreOK
    PROVE  /\ \A u \in UserIds : users[u] \in UserRow /\ member[u] \in MemberRow \cup {None}
           /\ \A k \in Invitations : invitation[k] \in InvitationRow
BY DEF StoreOK, StoreTyped

-----------------------------------------------------------------------------
(* What every step leaves the requests that do not take it *)

StoreKeeps ==
    \A u \in UserIds :
        /\ Used(u) => /\ Used(u)' /\ users'[u].home = users[u].home
                      /\ Live(u)' => /\ Live(u)
                                     /\ member[u] # None
                                        => /\ member'[u] # None
                                           /\ member'[u].status = member[u].status
        /\ Anchored(u) => Anchored(u)'

\* A path of anchored ancestors stays one, whoever writes.
LEMMA StillAnchored ==
    ASSUME StoreKeeps, NEW path \in Seq(UserIds), AnchoredPath(path)
    PROVE  AnchoredPath(path)'
<1>1. \A i \in DOMAIN path : path[i] \in UserIds
  OBVIOUS
<1>. QED
  BY <1>1 DEF AnchoredPath, StoreKeeps

\* An account keeps its active membership while it lives.
LEMMA MemberStays ==
    ASSUME StoreKeeps, NEW u \in UserIds, Used(u), Live(u)', HasMembership(u)
    PROVE  HasMembership(u)'
BY DEF StoreKeeps, HasMembership, Here, Live, Used

\* What will never be an ancestor, because its membership is disabled, stays
\* so.
LEMMA OutsiderStays ==
    ASSUME StoreKeeps, NEW u \in UserIds, Used(u), ~HasMembership(u),
           ~Live(u) \/ member[u] # None
    PROVE  ~HasMembership(u)' /\ (~Live(u)' \/ member'[u] # None)
BY DEF StoreKeeps, HasMembership, Here, Live, Used

\* What a request relies on survives the steps of the others.
LEMMA OthersKeep ==
    ASSUME NEW c, CallOK(c), StoreKeeps,
           rejected = {} \/ c.pc = "idle" => rejected' = {} \/ c.pc = "idle",
           overlapped => overlapped',
           rejected # {} \/ ~overlapped' => c.pc = "idle"
    PROVE  Sound(c)'
<1>1. CASE c.pc = "idle"
  BY <1>1 DEF Sound, UsesUser, UsesOther, Registering, Undoing,
     Preparing, Attaching, Syncing, Releasing, Detaching, Revoking, Identifying
<1>2. CASE c.pc # "idle"
  <2>1. rejected = {} /\ rejected' = {} /\ overlapped'
    BY <1>2
  <2>2. c.path \in Seq(UserIds)
    BY DEF CallOK, CallRecord
  <2>3. c.pc \in UsesUser => c.user \in UserIds /\ Used(c.user) /\ Used(c.user)'
    BY DEF CallOK, Shape, Sound, StoreKeeps
  <2>4. c.pc \in UsesOther => c.other \in UserIds /\ Used(c.other) /\ Used(c.other)'
    BY DEF CallOK, Shape, Sound, StoreKeeps
  <2>5. c.pc \in (Preparing \ {"findParent"}) \cup Revoking => AnchoredPath(c.path)'
    BY <2>2, StillAnchored DEF CallOK, Sound
  <2>6. c.pc \in Preparing /\ Live(c.user)' => HasMembership(c.user)'
    <3>. SUFFICES ASSUME c.pc \in Preparing, Live(c.user)' PROVE HasMembership(c.user)'
      OBVIOUS
    <3>1. c.pc \in UsesUser
      BY DEF UsesUser
    <3>2. Live(c.user)
      BY <3>1, <2>3 DEF StoreKeeps
    <3>3. HasMembership(c.user)
      BY <3>2 DEF CallOK, Sound
    <3>. QED
      BY <3>1, <3>3, <2>3, MemberStays
  <2>7. c.pc \in Preparing \ {"findParent", "findPlan"} /\ Live(c.user)' => plan'[c.user] # None
    <3>. SUFFICES ASSUME c.pc \in Preparing \ {"findParent", "findPlan"}, Live(c.user)'
                  PROVE  plan'[c.user] # None
      OBVIOUS
    <3>1. c.pc \in UsesUser
      BY DEF UsesUser
    <3>2. Live(c.user)
      BY <3>1, <2>3 DEF StoreKeeps
    <3>3. Anchored(c.user)
      BY <3>2 DEF CallOK, Sound, Anchored
    <3>. QED
      BY <3>1, <3>3, <2>3 DEF StoreKeeps, Anchored
  <2>8. c.pc \in Undoing => /\ ~HasMembership(c.user)'
                            /\ ~Live(c.user)' \/ member'[c.user] # None
    <3>. SUFFICES ASSUME c.pc \in Undoing
                  PROVE  ~HasMembership(c.user)' /\ (~Live(c.user)' \/ member'[c.user] # None)
      OBVIOUS
    <3>1. c.pc \in UsesUser
      BY DEF UsesUser
    <3>2. ~HasMembership(c.user) /\ (~Live(c.user) \/ member[c.user] # None)
      BY <2>1 DEF CallOK, Sound
    <3>. QED
      BY <3>1, <3>2, <2>3, OutsiderStays
  <2>9. c.pc \in Registering /\ c.op # "adminCreate" => users'[c.user].home = "here"
    <3>1. c.pc \in Registering => c.pc \in UsesUser
      BY DEF UsesUser
    <3>. QED
      BY <3>1, <2>3 DEF CallOK, Sound, StoreKeeps
  <2>10. c.pc = "reread" => ~Live(c.user)' \/ member'[c.user] # None
    <3>. SUFFICES ASSUME c.pc = "reread", Live(c.user)' PROVE member'[c.user] # None
      OBVIOUS
    <3>1. c.pc \in UsesUser
      BY DEF UsesUser, Registering
    <3>2. Live(c.user)
      BY <3>1, <2>3 DEF StoreKeeps
    <3>3. member[c.user] # None
      BY <3>2, <2>1 DEF CallOK, Sound
    <3>. QED
      BY <3>1, <3>3, <2>3 DEF StoreKeeps
  <2>. QED
    BY <2>1, <2>3, <2>4, <2>5, <2>6, <2>7, <2>8, <2>9, <2>10 DEF Sound
<1>. QED
  BY <1>1, <1>2

\* Requests are never interleaved with a request whose steps rejected.
LEMMA OnlyOne ==
    ASSUME Alone, NEW q \in Requests, NEW r \in Requests, q # r, Busy(r),
           rejected # {} \/ ~overlapped
    PROVE  call[q].pc = "idle"
BY DEF Alone, Busy

\* A step of one request: it is enough to look at that request and the store.
LEMMA RequestStep ==
    ASSUME ParentInv, NEW r \in Requests, Busy(r),
           call' = [call EXCEPT ![r] = call'[r]],
           UNCHANGED overlapped, rejected \subseteq rejected',
           overlapped => rejected' = rejected,
           StoreOK', StoreKeeps, CallOK(call[r])'
    PROVE  ParentInv'
<1>1. call' \in [Requests -> CallRecord]
  <2>1. call'[r] \in CallRecord
    BY DEF CallOK
  <2>. QED
    BY <2>1 DEF ParentInv
<1>2. \A q \in Requests : q # r => call'[q] = call[q]
  BY DEF ParentInv
<1>3. \A q \in Requests : Busy(q)' => Busy(q)
  BY <1>2 DEF Busy
<1>4. Alone'
  BY <1>3 DEF ParentInv, Alone
<1>5. ASSUME NEW q \in Requests, q # r
      PROVE  CallOK(call[q])'
  <2>1. CallOK(call[q])
    BY DEF ParentInv
  <2>2. rejected # {} \/ ~overlapped => call[q].pc = "idle"
    BY <1>5, OnlyOne DEF ParentInv
  <2>3. PICK c : c = call[q]
    OBVIOUS
  <2>4. Sound(c)'
    BY <2>1, <2>2, <2>3, OthersKeep
  <2>. QED
    BY <2>1, <2>3, <2>4, <1>2, <1>5 DEF CallOK, Shape
<1>. QED
  BY <1>1, <1>4, <1>5 DEF ParentInv

-----------------------------------------------------------------------------
(* Steps that write nothing *)

\* XKeeps: step X keeps ParentInv.

\* A step that writes nothing needs a well-formed next step only.
LEMMA ReadStep ==
    ASSUME ParentInv, NEW r \in Requests, Busy(r), UNCHANGED <<store, history>>,
           NEW d, CallOK(d), call' = [call EXCEPT ![r] = d]
    PROVE  ParentInv'
<1>1. /\ UNCHANGED <<users, member, plan, entitled, invitation>>
      /\ UNCHANGED <<rejected, overlapped>>
  BY DEF store, history
<1>2. StoreOK'
  <2>1. StoreTyped'
    BY <1>1 DEF ParentInv, StoreOK, StoreTyped
  <2>2. \A u \in UserIds : ~Used(u)' => Blank(u)'
    BY <1>1 DEF ParentInv, StoreOK, Used, Blank
  <2>3. \A u \in UserIds : AnchoredPath(users[u].path)'
    BY <1>1 DEF ParentInv, StoreOK, AnchoredPath, Anchored, HasMembership, Here, Live
  <2>. QED
    BY <2>1, <2>2, <2>3 DEF StoreOK
<1>3. StoreKeeps
  BY <1>1 DEF StoreKeeps, Used, Live, Anchored, HasMembership, Here
<1>4. CallOK(d)'
  BY <1>1 DEF CallOK, Shape, Sound, Used, Live, AnchoredPath, Anchored, HasMembership, Here
<1>5. call'[r] = d
  BY DEF ParentInv
<1>. QED
  BY <1>1, <1>2, <1>3, <1>4, <1>5, RequestStep

\* So does an answer without a write.
LEMMA FinishStep ==
    ASSUME ParentInv, NEW r \in Requests, Busy(r), UNCHANGED <<store, history>>,
           Finish(r)
    PROVE  ParentInv'
BY IdleCallOK, ReadStep DEF Finish

\* And so does a step that only moves on.
LEMMA GotoStep ==
    ASSUME ParentInv, NEW r \in Requests, Busy(r), UNCHANGED <<store, history>>,
           NEW pc, Goto(r, pc), CallOK([call[r] EXCEPT !.pc = pc])
    PROVE  ParentInv'
<1>1. call' = [call EXCEPT ![r] = [call[r] EXCEPT !.pc = pc]]
  BY DEF Goto, ParentInv
<1>. QED
  BY <1>1, ReadStep

\* From here on the groups of steps are written out.
USE DEF UsesUser, UsesOther, UsesInvitation, Registering, Undoing, Preparing, Attaching,
        Syncing, Releasing, Detaching, Revoking, Identifying, Provisioning

LEMMA FindParentKeeps ==
    ASSUME ParentInv, NEW r \in Requests, FindParent(r)
    PROVE  ParentInv'
<1>0. Busy(r) /\ call[r].pc = "findParent" /\ CallOK(call[r]) /\ UNCHANGED <<store, history>>
  BY DEF FindParent, Busy, At, ParentInv
<1>1. CASE Here(call[r].user)
  <2>. DEFINE d == [call[r] EXCEPT !.path = users[call[r].user].path, !.pc = "findPlan"]
  <2>1. call' = [call EXCEPT ![r] = d]
    BY <1>1 DEF FindParent, ParentInv
  <2>2. call[r].user \in UserIds
    BY <1>0 DEF CallOK, Shape
  <2>3. users[call[r].user].path \in Seq(UserIds) /\ AnchoredPath(users[call[r].user].path)
    BY <2>2, RowsTyped DEF ParentInv, StoreOK, UserRow
  <2>4. CallOK(d)
    <3>0. "findPlan" \in Pcs
      BY PcsAre
    <3>1. d \in CallRecord
      BY <1>0, <2>3, <3>0 DEF CallOK, CallRecord
    <3>2. Shape(d)
      BY <1>0, <2>3 DEF CallOK, CallRecord, Shape
    <3>3. Sound(d)
      BY <1>0, <2>3 DEF CallOK, CallRecord, Sound
    <3>. QED
      BY <3>1, <3>2, <3>3 DEF CallOK
  <2>. QED
    BY <1>0, <2>1, <2>4, ReadStep
<1>2. CASE ~Here(call[r].user)
  BY <1>0, <1>2, FinishStep DEF FindParent
<1>. QED
  BY <1>1, <1>2

LEMMA FindPlanKeeps ==
    ASSUME ParentInv, NEW r \in Requests, FindPlan(r)
    PROVE  ParentInv'
<1>0. Busy(r) /\ call[r].pc = "findPlan" /\ CallOK(call[r]) /\ UNCHANGED <<store, history>>
  BY DEF FindPlan, Busy, At, ParentInv
<1>. DEFINE p == plan[call[r].user]
            next == IF MaxSubUsers[p] > 0 THEN "countDescendants" ELSE "findEmail"
<1>1. CASE MayHaveSubUsers(p, call[r].path)
  <2>. DEFINE d == [call[r] EXCEPT !.limit = MaxSubUsers[p], !.pc = next]
  <2>1. call' = [call EXCEPT ![r] = d]
    BY <1>1 DEF FindPlan, ParentInv
  <2>2. p \in Plans /\ MaxSubUsers[p] \in Int /\ p # None
    BY <1>1, PlanAssumption, NoneAssumption DEF MayHaveSubUsers
  <2>3. CallOK(d)
    <3>0. next \in Pcs
      BY PcsAre
    <3>1. d \in CallRecord
      BY <1>0, <2>2, <3>0 DEF CallOK, CallRecord
    <3>2. Shape(d)
      BY <1>0 DEF CallOK, CallRecord, Shape
    <3>3. Sound(d)
      BY <1>0, <2>2 DEF CallOK, CallRecord, Sound
    <3>. QED
      BY <3>1, <3>2, <3>3 DEF CallOK
  <2>. QED
    BY <1>0, <2>1, <2>3, ReadStep
<1>2. CASE ~MayHaveSubUsers(p, call[r].path)
  BY <1>0, <1>2, FinishStep DEF FindPlan
<1>. QED
  BY <1>1, <1>2

\* Where a step leads when it does not simply go on.
LEMMA AfterProvisionOK ==
    ASSUME NEW c, CallOK(c), c.op # "delete"
    PROVE  CallOK(AfterProvision(c))
<1>1. CASE c.invitation = 0
  BY <1>1, IdleCallOK DEF AfterProvision
<1>2. CASE c.invitation # 0
  <2>. DEFINE d == [c EXCEPT !.pc = "markAccepted"]
  <2>1. CallOK(d)
    <3>0. "markAccepted" \in Pcs
      BY PcsAre
    <3>1. d \in CallRecord
      BY <1>2, <3>0 DEF CallOK, CallRecord
    <3>2. Shape(d)
      BY <1>2 DEF CallOK, CallRecord, Shape
    <3>3. Sound(d)
      BY <1>2 DEF CallOK, CallRecord, Sound
    <3>. QED
      BY <3>1, <3>2, <3>3 DEF CallOK
  <2>. QED
    BY <1>2, <2>1 DEF AfterProvision
<1>. QED
  BY <1>1, <1>2

\* A rollback begins on an account without an active membership.
LEMMA UndoneOK ==
    ASSUME NEW c, CallOK(c), c.pc \in Registering, ~HasMembership(c.user),
           ~Live(c.user) \/ member[c.user] # None \/ rejected # {}
    PROVE  CallOK(Undone(c))
<1>1. CASE c.op = "identity"
  BY <1>1, IdleCallOK DEF Undone
<1>2. CASE c.op # "identity"
  <2>. DEFINE d == [c EXCEPT !.pc = "dropEntitlements"]
  <2>1. CallOK(d)
    <3>0. "dropEntitlements" \in Pcs
      BY PcsAre
    <3>1. d \in CallRecord
      BY <1>2, <3>0 DEF CallOK, CallRecord
    <3>2. Shape(d)
      BY <1>2 DEF CallOK, CallRecord, Shape
    <3>3. Sound(d)
      BY <1>2 DEF CallOK, CallRecord, Sound
    <3>. QED
      BY <3>1, <3>2, <3>3 DEF CallOK
  <2>. QED
    BY <1>2, <2>1 DEF Undone
<1>. QED
  BY <1>1, <1>2

\* The compensation of an attached sub-user begins well formed.
LEMMA CompensateOK ==
    ASSUME NEW c, CallOK(c), c.pc \in Attaching
    PROVE  CallOK(Compensate(c))
<1>. DEFINE pc == IF c.known THEN "undoLink" ELSE "undoInsert"
            d == [c EXCEPT !.pc = pc]
<1>1. CallOK(d)
  <2>0. pc \in Pcs
    BY PcsAre
  <2>1. d \in CallRecord
    BY ZenonT(60), <2>0 DEF CallOK, CallRecord
  <2>2. Shape(d)
    BY ZenonT(60) DEF CallOK, CallRecord, Shape
  <2>3. Sound(d)
    BY Zenon DEF CallOK, CallRecord, Sound
  <2>. QED
    BY <2>1, <2>2, <2>3 DEF CallOK
<1>. QED
  BY <1>1 DEF Compensate

LEMMA EnrichKeeps ==
    ASSUME ParentInv, NEW r \in Requests, Enrich(r)
    PROVE  ParentInv'
<1>0. Busy(r) /\ call[r].pc = "enrich" /\ CallOK(call[r]) /\ UNCHANGED <<store, history>>
  BY DEF Enrich, Busy, At, ParentInv
<1>1. CASE call[r].op = "adminCreate"
  BY <1>0, <1>1, FinishStep DEF Enrich
<1>2. CASE call[r].op # "adminCreate"
  <2>1. CallOK([call[r] EXCEPT !.pc = "provisionUser"])
    BY <1>0, <1>2, PcsAre DEF CallOK, CallRecord, Shape, Sound
  <2>. QED
    BY <1>0, <1>2, <2>1, GotoStep DEF Enrich
<1>. QED
  BY <1>1, <1>2

LEMMA ProvisionUserKeeps ==
    ASSUME ParentInv, NEW r \in Requests, ProvisionUser(r)
    PROVE  ParentInv'
<1>0. Busy(r) /\ call[r].pc = "provisionUser" /\ CallOK(call[r]) /\ UNCHANGED <<store, history>>
  BY DEF ProvisionUser, Busy, At, ParentInv
<1>1. CASE Here(call[r].user)
  <2>. DEFINE d == [call[r] EXCEPT !.pc = "provision"]
  <2>1. CallOK(d)
    <3>0. "provision" \in Pcs
      BY PcsAre
    <3>1. d \in CallRecord
      BY <1>0, <1>1, <3>0 DEF CallOK, CallRecord
    <3>2. Shape(d)
      BY <1>0, <1>1 DEF CallOK, CallRecord, Shape
    <3>3. Sound(d)
      BY <1>0, <1>1 DEF CallOK, CallRecord, Sound
    <3>. QED
      BY <3>1, <3>2, <3>3 DEF CallOK
  <2>. QED
    BY <1>0, <1>1, <2>1, ReadStep DEF ProvisionUser
<1>2. CASE ~Here(call[r].user)
  <2>1. ~HasMembership(call[r].user) /\ ~Live(call[r].user)
    BY <1>0, <1>2 DEF HasMembership, Here, CallOK, Shape, Sound
  <2>2. CallOK(Undone(call[r]))
    BY <1>0, <2>1, UndoneOK
  <2>. QED
    BY <1>0, <1>2, <2>2, ReadStep DEF ProvisionUser
<1>. QED
  BY <1>1, <1>2

LEMMA RereadKeeps ==
    ASSUME ParentInv, NEW r \in Requests, Reread(r)
    PROVE  ParentInv'
<1>0. Busy(r) /\ call[r].pc = "reread" /\ CallOK(call[r]) /\ UNCHANGED <<store, history>>
  BY DEF Reread, Busy, At, ParentInv
<1>. DEFINE m == member[call[r].user]
<1>1. CASE m # None /\ m.status = "active"
  <2>1. CallOK(AfterProvision(call[r]))
    BY <1>0, AfterProvisionOK DEF CallOK, Shape
  <2>. QED
    BY <1>0, <1>1, <2>1, ReadStep DEF Reread
<1>2. CASE ~(m # None /\ m.status = "active")
  <2>1. CallOK(Undone(call[r]))
    BY <1>0, <1>2, UndoneOK DEF HasMembership, CallOK, Sound
  <2>. QED
    BY <1>0, <1>2, <2>1, ReadStep DEF Reread
<1>. QED
  BY <1>1, <1>2

LEMMA CountDescendantsKeeps ==
    ASSUME ParentInv, NEW r \in Requests, CountDescendants(r)
    PROVE  ParentInv'
<1>0. Busy(r) /\ call[r].pc = "countDescendants" /\ CallOK(call[r]) /\ UNCHANGED <<store, history>>
  BY DEF CountDescendants, Busy, At, ParentInv
<1>1. CallOK([call[r] EXCEPT !.pc = "findEmail"])
  BY <1>0, PcsAre DEF CallOK, CallRecord, Shape, Sound
<1>2. Finish(r) \/ Goto(r, "findEmail")
  BY DEF CountDescendants
<1>. QED
  BY <1>0, <1>1, <1>2, FinishStep, GotoStep

LEMMA FindEmailKeeps ==
    ASSUME ParentInv, NEW r \in Requests, FindEmail(r)
    PROVE  ParentInv'
<1>0. Busy(r) /\ call[r].pc = "findEmail" /\ CallOK(call[r]) /\ UNCHANGED <<store, history>>
  BY DEF FindEmail, Busy, At, ParentInv
<1>. DEFINE found == WithEmail(call[r].email)
            u == CHOOSE x \in found : TRUE
<1>1. CASE found = {}
  <2>1. CallOK([call[r] EXCEPT !.pc = "insertSubUser"])
    BY <1>0, PcsAre DEF CallOK, CallRecord, Shape, Sound
  <2>. QED
    BY <1>0, <1>1, <2>1, GotoStep DEF FindEmail
<1>2. CASE found # {} /\ (users[u].home = "elsewhere" \/ users[u].path # <<>>)
  BY <1>0, <1>2, FinishStep DEF FindEmail
<1>3. CASE found # {} /\ ~(users[u].home = "elsewhere" \/ users[u].path # <<>>)
  <2>1. PICK o : o = u
    OBVIOUS
  <2>2. o \in UserIds /\ Used(o)
    BY <1>3, <2>1 DEF WithEmail, Live, Used
  <2>. DEFINE d == [call[r] EXCEPT !.other = o, !.pc = "link"]
  <2>3. call' = [call EXCEPT ![r] = d]
    BY <1>3, <2>1 DEF FindEmail, ParentInv
  <2>4. CallOK(d)
    <3>0. "link" \in Pcs
      BY PcsAre
    <3>1. d \in CallRecord
      BY <1>0, <2>2, <3>0 DEF CallOK, CallRecord
    <3>2. Shape(d)
      BY <1>0, <2>2 DEF CallOK, CallRecord, Shape
    <3>3. Sound(d)
      BY <1>0, <2>2 DEF CallOK, CallRecord, Sound
    <3>. QED
      BY <3>1, <3>2, <3>3 DEF CallOK
  <2>. QED
    BY <1>0, <2>3, <2>4, ReadStep
<1>. QED
  BY <1>1, <1>2, <1>3

LEMMA SyncUsersKeeps ==
    ASSUME ParentInv, NEW r \in Requests, SyncUsers(r)
    PROVE  ParentInv'
<1>0. Busy(r) /\ call[r].pc = "syncUsers" /\ CallOK(call[r]) /\ UNCHANGED <<store, history>>
  BY DEF SyncUsers, Busy, At, ParentInv
<1>1. CASE Here(call[r].user) /\ Here(call[r].other)
  <2>1. call[r].other \in UserIds
    BY <1>0 DEF CallOK, Shape
  <2>2. PICK s : s = users[call[r].other].status
    OBVIOUS
  <2>3. s \in {"active", "disabled"}
    BY <2>1, <2>2, RowsTyped DEF ParentInv, UserRow
  <2>. DEFINE d == [call[r] EXCEPT !.pc = "syncParent", !.input = s]
  <2>4. call' = [call EXCEPT ![r] = d]
    BY <1>1, <2>2 DEF SyncUsers, ParentInv
  <2>5. CallOK(d)
    <3>0. "syncParent" \in Pcs
      BY PcsAre
    <3>1. d \in CallRecord
      BY <1>0, <2>3, <3>0 DEF CallOK, CallRecord
    <3>2. Shape(d)
      BY <1>0, <2>3 DEF CallOK, CallRecord, Shape
    <3>3. Sound(d)
      BY <1>0, <2>3 DEF CallOK, CallRecord, Sound
    <3>. QED
      BY <3>1, <3>2, <3>3 DEF CallOK
  <2>. QED
    BY <1>0, <2>4, <2>5, ReadStep
<1>2. CASE ~(Here(call[r].user) /\ Here(call[r].other))
  BY <1>0, <1>2, CompensateOK, ReadStep DEF SyncUsers
<1>. QED
  BY <1>1, <1>2

LEMMA SyncParentKeeps ==
    ASSUME ParentInv, NEW r \in Requests, SyncParent(r)
    PROVE  ParentInv'
<1>0. Busy(r) /\ call[r].pc = "syncParent" /\ CallOK(call[r]) /\ UNCHANGED <<store, history>>
  BY DEF SyncParent, Busy, At, ParentInv
<1>. DEFINE p == call[r].user
<1>1. CASE member[p] # None /\ member[p].status = "active"
  <2>1. p \in UserIds
    BY <1>0 DEF CallOK, Shape
  <2>2. PICK path : path = Append(member[p].path, p)
    OBVIOUS
  <2>3. path \in Seq(UserIds)
    BY <1>1, <2>1, <2>2, RowsTyped DEF ParentInv, MemberRow
  <2>. DEFINE d == [call[r] EXCEPT !.path = path, !.pc = "syncMember"]
  <2>4. call' = [call EXCEPT ![r] = d]
    BY <1>1, <2>2 DEF SyncParent, ParentInv
  <2>5. CallOK(d)
    <3>0. "syncMember" \in Pcs
      BY PcsAre
    <3>1. d \in CallRecord
      BY <1>0, <2>3, <3>0 DEF CallOK, CallRecord
    <3>2. Shape(d)
      BY <1>0, <2>3 DEF CallOK, CallRecord, Shape
    <3>3. Sound(d)
      BY <1>0, <2>3 DEF CallOK, CallRecord, Sound
    <3>. QED
      BY <3>1, <3>2, <3>3 DEF CallOK
  <2>. QED
    BY <1>0, <2>4, <2>5, ReadStep
<1>2. CASE ~(member[p] # None /\ member[p].status = "active")
  BY <1>0, <1>2, CompensateOK, ReadStep DEF SyncParent
<1>. QED
  BY <1>1, <1>2

LEMMA SyncMemberKeeps ==
    ASSUME ParentInv, NEW r \in Requests, SyncMember(r)
    PROVE  ParentInv'
<1>0. Busy(r) /\ call[r].pc = "syncMember" /\ CallOK(call[r]) /\ UNCHANGED <<store, history>>
  BY DEF SyncMember, Busy, At, ParentInv
<1>1. PICK pc \in {"syncUpdate", "syncCreate"} : Goto(r, pc)
  BY DEF SyncMember
<1>2. CallOK([call[r] EXCEPT !.pc = pc])
  BY <1>0, PcsAre DEF CallOK, CallRecord, Shape, Sound
<1>. QED
  BY <1>0, <1>1, <1>2, GotoStep

LEMMA SyncRacedKeeps ==
    ASSUME ParentInv, NEW r \in Requests, SyncRaced(r)
    PROVE  ParentInv'
<1>0. Busy(r) /\ call[r].pc = "syncRaced" /\ CallOK(call[r]) /\ UNCHANGED <<store, history>>
  BY DEF SyncRaced, Busy, At, ParentInv
<1>1. CASE member[call[r].other] # None
  <2>1. CallOK([call[r] EXCEPT !.pc = "syncUpdate"])
    BY <1>0, PcsAre DEF CallOK, CallRecord, Shape, Sound
  <2>. QED
    BY <1>0, <1>1, <2>1, GotoStep DEF SyncRaced
<1>2. CASE member[call[r].other] = None
  BY <1>0, <1>2, CompensateOK, ReadStep DEF SyncRaced
<1>. QED
  BY <1>1, <1>2

LEMMA FindSubUserKeeps ==
    ASSUME ParentInv, NEW r \in Requests, FindSubUser(r)
    PROVE  ParentInv'
<1>0. Busy(r) /\ call[r].pc = "findSubUser" /\ CallOK(call[r]) /\ UNCHANGED <<store, history>>
  BY DEF FindSubUser, Busy, At, ParentInv
<1>. DEFINE u == call[r].other
<1>1. CASE Here(u) /\ ParentOf(users[u].path) = call[r].user
  <2>1. call[r].other \in UserIds /\ call[r].user \in UserIds
    BY <1>0 DEF CallOK, Shape
  <2>2. PICK path : path = users[u].path
    OBVIOUS
  <2>3. /\ path \in Seq(UserIds) /\ AnchoredPath(path)
        /\ path # <<>> /\ Last(path) = call[r].user
    BY <1>1, <2>1, <2>2, RowsTyped DEF ParentInv, StoreOK, UserRow, ParentOf, UserIds
  <2>. DEFINE d == [call[r] EXCEPT !.path = path, !.pc = "countChildren"]
  <2>4. call' = [call EXCEPT ![r] = d]
    BY <1>1, <2>2 DEF FindSubUser, ParentInv
  <2>5. CallOK(d)
    <3>0. "countChildren" \in Pcs
      BY PcsAre
    <3>1. d \in CallRecord
      BY <1>0, <2>3, <3>0 DEF CallOK, CallRecord
    <3>2. Shape(d)
      BY <1>0, <2>3 DEF CallOK, CallRecord, Shape
    <3>3. Sound(d)
      BY <1>0, <2>3 DEF CallOK, CallRecord, Sound
    <3>. QED
      BY <3>1, <3>2, <3>3 DEF CallOK
  <2>. QED
    BY <1>0, <2>4, <2>5, ReadStep
<1>2. CASE ~(Here(u) /\ ParentOf(users[u].path) = call[r].user)
  BY <1>0, <1>2, FinishStep DEF FindSubUser
<1>. QED
  BY <1>1, <1>2

LEMMA CountChildrenKeeps ==
    ASSUME ParentInv, NEW r \in Requests, CountChildren(r)
    PROVE  ParentInv'
<1>0. Busy(r) /\ call[r].pc = "countChildren" /\ CallOK(call[r]) /\ UNCHANGED <<store, history>>
  BY DEF CountChildren, Busy, At, ParentInv
<1>1. CallOK([call[r] EXCEPT !.pc = "detach"])
  BY <1>0, PcsAre DEF CallOK, CallRecord, Shape, Sound
<1>2. Finish(r) \/ Goto(r, "detach")
  BY DEF CountChildren
<1>. QED
  BY <1>0, <1>1, <1>2, FinishStep, GotoStep

LEMMA DetachReadKeeps ==
    ASSUME ParentInv, NEW r \in Requests, DetachRead(r)
    PROVE  ParentInv'
<1>0. Busy(r) /\ call[r].pc = "detachRead" /\ CallOK(call[r]) /\ UNCHANGED <<store, history>>
  BY DEF DetachRead, Busy, At, ParentInv
<1>1. PICK pc \in {"detachWrite", "undoRevoke"} : Goto(r, pc)
  BY DEF DetachRead
<1>2. CallOK([call[r] EXCEPT !.pc = pc])
  BY <1>0, PcsAre DEF CallOK, CallRecord, Shape, Sound
<1>. QED
  BY <1>0, <1>1, <1>2, GotoStep

LEMMA ReadInvitationKeeps ==
    ASSUME ParentInv, NEW r \in Requests, ReadInvitation(r)
    PROVE  ParentInv'
<1>0. Busy(r) /\ call[r].pc = "readInvitation" /\ CallOK(call[r]) /\ UNCHANGED <<store, history>>
  BY DEF ReadInvitation, Busy, At, ParentInv
<1>1. CASE invitation[call[r].invitation].status # "pending"
  BY <1>0, <1>1, FinishStep DEF ReadInvitation
<1>2. CASE invitation[call[r].invitation].status = "pending"
  <2>1. call[r].invitation \in Invitations
    BY <1>0 DEF CallOK, Shape
  <2>2. PICK e : e = invitation[call[r].invitation].email
    OBVIOUS
  <2>3. e \in Emails \cup {None}
    BY <2>1, <2>2, RowsTyped DEF ParentInv, InvitationRow
  <2>4. PICK pc \in {"markExpired", "createUser"} :
           call' = [call EXCEPT ![r].email = e, ![r].pc = pc]
    BY <1>2, <2>2 DEF ReadInvitation
  <2>. DEFINE d == [call[r] EXCEPT !.email = e, !.pc = pc]
  <2>5. call' = [call EXCEPT ![r] = d]
    BY <2>4 DEF ParentInv
  <2>6. CallOK(d)
    <3>0. pc \in Pcs
      BY PcsAre
    <3>1. d \in CallRecord
      BY <1>0, <2>1, <2>3, <2>4, <3>0 DEF CallOK, CallRecord
    <3>2. Shape(d)
      BY <1>0, <2>1, <2>3, <2>4 DEF CallOK, CallRecord, Shape
    <3>3. Sound(d)
      BY <1>0, <2>1, <2>3, <2>4 DEF CallOK, CallRecord, Sound
    <3>. QED
      BY <3>1, <3>2, <3>3 DEF CallOK
  <2>. QED
    BY <1>0, <2>5, <2>6, ReadStep
<1>. QED
  BY <1>1, <1>2

LEMMA ByClerkKeeps ==
    ASSUME ParentInv, NEW r \in Requests, ByClerk(r)
    PROVE  ParentInv'
<1>0. Busy(r) /\ call[r].pc = "byClerk" /\ CallOK(call[r]) /\ UNCHANGED <<store, history>>
  BY DEF ByClerk, Busy, At, ParentInv
<1>1. CallOK([call[r] EXCEPT !.pc = "byEmail"])
  BY <1>0, PcsAre DEF CallOK, CallRecord, Shape, Sound
<1>2. Finish(r) \/ Goto(r, "byEmail")
  BY DEF ByClerk
<1>. QED
  BY <1>0, <1>1, <1>2, FinishStep, GotoStep

LEMMA ByEmailKeeps ==
    ASSUME ParentInv, NEW r \in Requests, ByEmail(r)
    PROVE  ParentInv'
<1>0. /\ Busy(r) /\ call[r].pc \in {"byEmail", "byEmailAgain"} /\ CallOK(call[r])
      /\ UNCHANGED <<store, history>>
  BY DEF ByEmail, Busy, At, ParentInv
<1>. DEFINE found == WithEmail(call[r].email)
            u == CHOOSE x \in found : TRUE
<1>1. CASE found = {}
  <2>1. CallOK([call[r] EXCEPT !.pc = "gate"])
    BY <1>0, PcsAre DEF CallOK, CallRecord, Shape, Sound
  <2>2. Finish(r) \/ Goto(r, "gate")
    BY <1>1 DEF ByEmail
  <2>. QED
    BY <1>0, <2>1, <2>2, FinishStep, GotoStep
<1>2. CASE found # {} /\ users[u].subject \notin {None, call[r].subject}
  BY <1>0, <1>2, FinishStep DEF ByEmail
<1>3. CASE found # {} /\ users[u].subject \in {None, call[r].subject}
  <2>1. PICK o : o = u
    OBVIOUS
  <2>2. o \in UserIds /\ Used(o)
    BY <1>3, <2>1 DEF WithEmail, Live, Used
  <2>3. PICK yes \in BOOLEAN : yes = (users[o].subject = call[r].subject)
    OBVIOUS
  <2>. DEFINE d == [call[r] EXCEPT !.other = o, !.pc = "checkMember", !.known = yes]
  <2>4. call' = [call EXCEPT ![r] = d]
    BY <1>3, <2>1, <2>3 DEF ByEmail, ParentInv
  <2>5. CallOK(d)
    <3>0. "checkMember" \in Pcs
      BY PcsAre
    <3>1. d \in CallRecord
      BY <1>0, <2>2, <2>3, <3>0 DEF CallOK, CallRecord
    <3>2. Shape(d)
      BY <1>0, <2>2, <2>3 DEF CallOK, CallRecord, Shape
    <3>3. Sound(d)
      BY <1>0, <2>2, <2>3 DEF CallOK, CallRecord, Sound
    <3>. QED
      BY <3>1, <3>2, <3>3 DEF CallOK
  <2>. QED
    BY <1>0, <2>4, <2>5, ReadStep
<1>. QED
  BY <1>1, <1>2, <1>3

LEMMA CheckMemberKeeps ==
    ASSUME ParentInv, NEW r \in Requests, CheckMember(r)
    PROVE  ParentInv'
<1>0. Busy(r) /\ call[r].pc = "checkMember" /\ CallOK(call[r]) /\ UNCHANGED <<store, history>>
  BY DEF CheckMember, Busy, At, ParentInv
<1>1. CASE ~HasMembership(call[r].other)
  BY <1>0, <1>1, IdleCallOK, ReadStep DEF CheckMember
<1>2. CASE HasMembership(call[r].other) /\ call[r].known
  <2>1. CallOK(AfterProvision(call[r]))
    BY <1>0, AfterProvisionOK DEF CallOK, Shape
  <2>. QED
    BY <1>0, <1>2, <2>1, ReadStep DEF CheckMember
<1>3. CASE HasMembership(call[r].other) /\ ~call[r].known
  <2>. DEFINE d == [call[r] EXCEPT !.pc = "linkSubject"]
  <2>1. CallOK(d)
    BY <1>0, PcsAre DEF CallOK, CallRecord, Shape, Sound
  <2>. QED
    BY <1>0, <1>3, <2>1, ReadStep DEF CheckMember
<1>. QED
  BY <1>1, <1>2, <1>3

\* The ids are numbers up to a bound, so one of the pending is the latest.
LEMMA LatestPending ==
    ASSUME NEW e, PendingFor(e) # {}
    PROVE  (CHOOSE k \in PendingFor(e) : \A j \in PendingFor(e) : j <= k) \in PendingFor(e)
<1>. DEFINE pending == PendingFor(e)
<1>1. PICK max \in Nat : pending \subseteq 1..max
  BY InvitationAssumption, FS_CardinalityType DEF PendingFor
<1>. DEFINE gaps == {k \in Nat : max - k \in pending}
<1>2. gaps # {}
  <2>1. PICK i \in pending : TRUE
    OBVIOUS
  <2>2. max - i \in Nat /\ max - (max - i) = i
    BY <1>1, <2>1
  <2>. QED
    BY <2>1, <2>2
<1>3. PICK k \in gaps : \A l \in gaps : ~(<<l, k>> \in OpToRel(<, Nat))
  <2>. HIDE DEF gaps
  <2>1. gaps \subseteq Nat
    BY DEF gaps
  <2>. QED
    BY <1>2, <2>1, WFMin, NatLessThanWellFounded
<1>4. ASSUME NEW l \in gaps
      PROVE  k <= l
  <2>1. <<l, k>> \in Nat \X Nat /\ <<l, k>>[1] = l /\ <<l, k>>[2] = k
    OBVIOUS
  <2>. QED
    BY <1>3, <2>1 DEF OpToRel
<1>5. \A j \in pending : j <= max - k
  <2>. SUFFICES ASSUME NEW j \in pending PROVE j <= max - k
    OBVIOUS
  <2>1. max - j \in Nat /\ max - (max - j) = j
    BY <1>1
  <2>2. k <= max - j
    BY <1>4, <2>1
  <2>3. j \in Nat /\ k \in Nat /\ max \in Nat
    BY <1>1, <1>3 DEF OpToRel
  <2>. QED
    BY <2>2, <2>3
<1>6. max - k \in pending
  BY <1>3 DEF OpToRel
<1>. QED
  BY <1>5, <1>6

LEMMA GateKeeps ==
    ASSUME ParentInv, NEW r \in Requests, Gate(r)
    PROVE  ParentInv'
<1>0. Busy(r) /\ call[r].pc = "gate" /\ CallOK(call[r]) /\ UNCHANGED <<store, history>>
  BY DEF Gate, Busy, At, ParentInv
<1>. DEFINE pending == PendingFor(call[r].email)
            latest == CHOOSE k \in pending : \A j \in pending : j <= k
<1>1. CASE pending = {}
  <2>1. CallOK([call[r] EXCEPT !.pc = "jitCreate"])
    BY <1>0, PcsAre DEF CallOK, CallRecord, Shape, Sound
  <2>2. Finish(r) \/ Goto(r, "jitCreate")
    BY <1>1 DEF Gate
  <2>. QED
    BY <1>0, <2>1, <2>2, FinishStep, GotoStep
<1>2. CASE pending # {}
  <2>1. PICK k : k = latest
    OBVIOUS
  <2>2. k \in Invitations
    BY <1>2, <2>1, LatestPending DEF PendingFor
  <2>. DEFINE d == [call[r] EXCEPT !.invitation = k, !.pc = "jitCreate"]
  <2>3. call' = [call EXCEPT ![r] = d]
    BY <1>2, <2>1 DEF Gate, ParentInv
  <2>4. CallOK(d)
    <3>0. "jitCreate" \in Pcs
      BY PcsAre
    <3>1. d \in CallRecord
      BY <1>0, <2>2, <3>0 DEF CallOK, CallRecord
    <3>2. Shape(d)
      BY <1>0, <2>2 DEF CallOK, CallRecord, Shape
    <3>3. Sound(d)
      BY <1>0, <2>2 DEF CallOK, CallRecord, Sound
    <3>. QED
      BY <3>1, <3>2, <3>3 DEF CallOK
  <2>. QED
    BY <1>0, <2>3, <2>4, ReadStep
<1>. QED
  BY <1>1, <1>2

LEMMA ReadUserKeeps ==
    ASSUME ParentInv, NEW r \in Requests, ReadUser(r)
    PROVE  ParentInv'
<1>0. Busy(r) /\ call[r].pc = "readUser" /\ CallOK(call[r]) /\ UNCHANGED <<store, history>>
  BY DEF ReadUser, Busy, At, ParentInv
<1>. DEFINE u == call[r].other
<1>1. CASE Live(u)
  <2>1. u \in UserIds /\ call[r].input \in {"active", "disabled", "keep"}
    BY <1>0 DEF CallOK, Shape
  <2>2. PICK e : e = users[u].email
    OBVIOUS
  <2>3. PICK s : s = IF call[r].input = "keep" THEN users[u].status ELSE call[r].input
    OBVIOUS
  <2>4. e \in Emails \cup {None} /\ s \in {"active", "disabled"}
    BY <2>1, <2>2, <2>3, RowsTyped DEF ParentInv, UserRow
  <2>. DEFINE d == [call[r] EXCEPT !.email = e, !.input = s, !.pc = "writeUser"]
  <2>5. call' = [call EXCEPT ![r] = d]
    BY <1>1, <2>2, <2>3 DEF ReadUser, ParentInv
  <2>6. CallOK(d)
    <3>0. "writeUser" \in Pcs
      BY PcsAre
    <3>1. d \in CallRecord
      BY <1>0, <2>4, <3>0 DEF CallOK, CallRecord
    <3>2. Shape(d)
      BY <1>0, <2>4 DEF CallOK, CallRecord, Shape
    <3>3. Sound(d)
      BY <1>0, <2>4 DEF CallOK, CallRecord, Sound
    <3>. QED
      BY <3>1, <3>2, <3>3 DEF CallOK
  <2>. QED
    BY <1>0, <2>5, <2>6, ReadStep
<1>2. CASE ~Live(u)
  BY <1>0, <1>2, FinishStep DEF ReadUser
<1>. QED
  BY <1>1, <1>2

LEMMA CheckEmailKeeps ==
    ASSUME ParentInv, NEW r \in Requests, CheckEmail(r)
    PROVE  ParentInv'
<1>0. Busy(r) /\ call[r].pc = "checkEmail" /\ CallOK(call[r]) /\ UNCHANGED <<store, history>>
  BY DEF CheckEmail, Busy, At, ParentInv
<1>1. CallOK([call[r] EXCEPT !.pc = "writeUser"])
  BY <1>0, PcsAre DEF CallOK, CallRecord, Shape, Sound
<1>2. Finish(r) \/ Goto(r, "writeUser")
  BY DEF CheckEmail
<1>. QED
  BY <1>0, <1>1, <1>2, FinishStep, GotoStep

-----------------------------------------------------------------------------
(* What a write does to the store *)

\* Steps that name no user rely on none.
LEMMA CallsWithoutUsers ==
    ASSUME NEW d, d.pc \notin UsesUser \cup UsesOther
    PROVE  Sound(d)'
BY DEF Sound

\* A slot without a request is well formed after any step.
LEMMA IdleCallStaysOK == CallOK(IdleCall)'
<1>1. IdleCall \in CallRecord /\ Shape(IdleCall)
  BY IdleCallOK DEF CallOK
<1>2. Sound(IdleCall)'
  BY CallsWithoutUsers DEF IdleCall
<1>. QED
  BY <1>1, <1>2 DEF CallOK, Shape

\* A row that keeps its state and its tenant.
LEMMA RowWritten ==
    ASSUME StoreOK, NEW u \in UserIds, NEW row \in UserRow,
           row.state = users[u].state, row.home = users[u].home,
           AnchoredPath(row.path), users' = [users EXCEPT ![u] = row],
           UNCHANGED <<member, plan, entitled, invitation>>
    PROVE  StoreOK' /\ StoreKeeps
<1>1. users \in [UserIds -> UserRow]
  BY DEF StoreOK, StoreTyped
<1>2. \A v \in UserIds : /\ users'[v] = (IF v = u THEN row ELSE users[v])
                         /\ users'[v].state = users[v].state
                         /\ users'[v].home = users[v].home
  BY <1>1
<1>3. \A v \in UserIds : /\ Used(v)' = Used(v) /\ Live(v)' = Live(v)
                         /\ Anchored(v)' = Anchored(v)
  BY <1>2 DEF Used, Live, Anchored, HasMembership, Here
<1>4. StoreKeeps
  BY <1>2, <1>3 DEF StoreKeeps
<1>5. StoreTyped'
  BY DEF StoreOK, StoreTyped
<1>6. \A v \in UserIds : ~Used(v)' => Blank(v)'
  BY <1>3 DEF StoreOK, Blank
<1>7. ASSUME NEW v \in UserIds
      PROVE  AnchoredPath(users[v].path)'
  <2>1. PICK path \in Seq(UserIds) : path = users'[v].path /\ AnchoredPath(path)
    BY <1>1, <1>2 DEF StoreOK, UserRow
  <2>2. AnchoredPath(path)'
    BY <1>4, <2>1, StillAnchored
  <2>. QED
    BY <2>1, <2>2 DEF AnchoredPath
<1>. QED
  BY <1>4, <1>5, <1>6, <1>7 DEF StoreOK

\* A new account takes an id that nothing refers to.
LEMMA AccountCreated ==
    ASSUME StoreOK, FreshIds # {}, NEW u, u = FreshId,
           NEW row \in UserRow, row.state = "live", AnchoredPath(row.path),
           users' = [users EXCEPT ![u] = row],
           UNCHANGED <<member, plan, entitled, invitation>>
    PROVE  /\ StoreOK' /\ StoreKeeps
           /\ u \in UserIds /\ users'[u] = row /\ Blank(u)'
<1>1. users \in [UserIds -> UserRow]
  BY DEF StoreOK, StoreTyped
<1>3. u \in UserIds /\ ~Used(u) /\ Blank(u)
  BY FreshIdIsUnused DEF StoreOK
<1>4. /\ users'[u] = row
      /\ \A v \in UserIds : v # u => users'[v] = users[v]
  BY <1>1, <1>3
<1>5. ~Anchored(u)
  BY <1>3 DEF Anchored, Blank
<1>6. StoreKeeps
  BY <1>3, <1>4, <1>5 DEF StoreKeeps, Used, Live, Anchored, HasMembership, Here
<1>7. StoreTyped'
  BY <1>1 DEF StoreOK, StoreTyped
<1>8. \A v \in UserIds : ~Used(v)' => Blank(v)'
  BY <1>3, <1>4 DEF StoreOK, Blank, Used
<1>9. ASSUME NEW v \in UserIds
      PROVE  AnchoredPath(users[v].path)'
  <2>1. PICK path \in Seq(UserIds) : path = users'[v].path /\ AnchoredPath(path)
    BY <1>1, <1>4 DEF StoreOK, UserRow
  <2>2. AnchoredPath(path)'
    BY <1>6, <2>1, StillAnchored
  <2>. QED
    BY <2>1, <2>2 DEF AnchoredPath
<1>. QED
  BY <1>3, <1>4, <1>6, <1>7, <1>8, <1>9 DEF StoreOK, Blank

\* Nobody's ancestor is deleted: an ancestor has a plan.
LEMMA AccountDeleted ==
    ASSUME StoreOK, NEW u \in UserIds, DeleteUser(u),
           UNCHANGED <<plan, entitled, invitation>>
    PROVE  StoreOK' /\ StoreKeeps
<1>1. users \in [UserIds -> UserRow] /\ member \in [UserIds -> MemberRow \cup {None}]
  BY DEF StoreOK, StoreTyped
<1>2. CASE ~Deletable(u)
  <2>0. [users[u] EXCEPT !.state = @] = users[u]
    BY <1>1 DEF UserRow
  <2>1. users' = users /\ member' = member
    BY <1>1, <1>2, <2>0 DEF DeleteUser
  <2>2. users' = [users EXCEPT ![u] = users[u]]
    BY <1>1, <2>1
  <2>. QED
    BY <1>1, <2>1, <2>2, RowWritten DEF StoreOK
<1>3. CASE Deletable(u)
  <2>1. /\ users'[u] = [users[u] EXCEPT !.state = "deleted"] /\ member'[u] = None
        /\ \A v \in UserIds : v # u => users'[v] = users[v] /\ member'[v] = member[v]
    BY <1>1, <1>3 DEF DeleteUser
  <2>2. users[u] \in UserRow
    BY <1>1
  <2>3. /\ users'[u] \in UserRow /\ users'[u].state = "deleted"
        /\ users'[u].home = users[u].home /\ users'[u].path = users[u].path
    BY <2>1, <2>2 DEF UserRow
  <2>4. ~Anchored(u)
    BY <1>3 DEF Anchored, Deletable
  <2>5. StoreKeeps
    BY <2>1, <2>3, <2>4 DEF StoreKeeps, Used, Live, Anchored, HasMembership, Here
  <2>6. StoreTyped'
    BY <1>1, <2>1, <2>3 DEF StoreOK, StoreTyped, DeleteUser
  <2>7. \A v \in UserIds : ~Used(v)' => Blank(v)'
    BY <2>1, <2>3 DEF StoreOK, Blank, Used
  <2>8. ASSUME NEW v \in UserIds
        PROVE  AnchoredPath(users[v].path)'
    <3>1. PICK path \in Seq(UserIds) : path = users'[v].path /\ AnchoredPath(path)
      BY <1>1, <2>1, <2>3 DEF StoreOK, UserRow
    <3>2. AnchoredPath(path)'
      BY <2>5, <3>1, StillAnchored
    <3>. QED
      BY <3>1, <3>2 DEF AnchoredPath
  <2>. QED
    BY <2>5, <2>6, <2>7, <2>8 DEF StoreOK
<1>. QED
  BY <1>2, <1>3

\* Anything that leaves the accounts alone, and of every anchored account the
\* membership and the plan.
LEMMA UsersUntouched ==
    ASSUME StoreOK, StoreTyped', UNCHANGED users,
           \A u \in UserIds : Used(u) /\ member[u] # None
               => member'[u] # None /\ member'[u].status = member[u].status,
           \A u \in UserIds : Anchored(u) => plan'[u] # None,
           \A u \in UserIds : ~Used(u) => Blank(u)'
    PROVE  StoreOK' /\ StoreKeeps
<1>1. StoreKeeps
  BY DEF StoreKeeps, Used, Live, Anchored, HasMembership, Here
<1>2. \A u \in UserIds : ~Used(u)' => Blank(u)'
  BY DEF Used
<1>3. ASSUME NEW v \in UserIds
      PROVE  AnchoredPath(users[v].path)'
  <2>1. PICK path \in Seq(UserIds) : path = users[v].path /\ AnchoredPath(path)
    BY DEF StoreOK, StoreTyped, UserRow
  <2>2. AnchoredPath(path)'
    BY <1>1, <2>1, StillAnchored
  <2>. QED
    BY <2>1, <2>2 DEF AnchoredPath
<1>. QED
  BY <1>1, <1>2, <1>3 DEF StoreOK

\* Writing the path of a membership, or making one, keeps the store and what
\* requests rely on.
LEMMA MembershipWritten ==
    ASSUME StoreOK, NEW u \in UserIds, Used(u), NEW row \in MemberRow,
           member[u] # None => row.status = member[u].status,
           member' = [member EXCEPT ![u] = row],
           UNCHANGED <<users, plan, entitled, invitation>>
    PROVE  StoreOK' /\ StoreKeeps
<1>1. member \in [UserIds -> MemberRow \cup {None}]
  BY DEF StoreOK, StoreTyped
<1>2. StoreTyped'
  BY <1>1 DEF StoreOK, StoreTyped
<1>3. \A v \in UserIds : member'[v] = (IF v = u THEN row ELSE member[v])
  BY <1>1
<1>4. row # None
  BY MemberAssumption
<1>5. \A v \in UserIds : ~Used(v) => Blank(v)'
  BY <1>3 DEF StoreOK, Blank
<1>6. \A v \in UserIds : Used(v) /\ member[v] # None
         => member'[v] # None /\ member'[v].status = member[v].status
  BY <1>3, <1>4
<1>7. \A v \in UserIds : Anchored(v) => plan'[v] # None
  BY DEF Anchored
<1>. QED
  BY <1>2, <1>5, <1>6, <1>7, UsersUntouched

\* Subscriptions and entitlements of an account that exists.
LEMMA PlanWritten ==
    ASSUME StoreOK, NEW u \in UserIds, Used(u), NEW p \in Plans \cup {None, Ended},
           plan' = [plan EXCEPT ![u] = p], p # None \/ ~HasMembership(u),
           entitled' \subseteq entitled \cup {u},
           UNCHANGED <<users, member, invitation>>
    PROVE  StoreOK' /\ StoreKeeps
<1>1. plan \in [UserIds -> Plans \cup {None, Ended}]
  BY DEF StoreOK, StoreTyped
<1>2. StoreTyped'
  BY <1>1 DEF StoreOK, StoreTyped
<1>3. \A v \in UserIds : plan'[v] = (IF v = u THEN p ELSE plan[v])
  BY <1>1
<1>4. \A v \in UserIds : ~Used(v) => Blank(v)'
  BY <1>3 DEF StoreOK, Blank
<1>5. \A v \in UserIds : Anchored(v) => plan'[v] # None
  BY <1>3 DEF Anchored
<1>. QED
  BY <1>2, <1>4, <1>5, UsersUntouched

\* So does any write of invitations.
LEMMA InvitationsWritten ==
    ASSUME StoreOK, invitation' \in [Invitations -> InvitationRow],
           UNCHANGED <<users, member, plan, entitled>>
    PROVE  StoreOK' /\ StoreKeeps
<1>1. StoreTyped'
  BY DEF StoreOK, StoreTyped
<1>2. \A v \in UserIds : ~Used(v) => Blank(v)'
  BY DEF StoreOK, Blank
<1>3. \A v \in UserIds : Anchored(v) => plan'[v] # None
  BY DEF Anchored
<1>. QED
  BY <1>1, <1>2, <1>3, UsersUntouched

-----------------------------------------------------------------------------
(* Steps that write *)

\* A write that keeps the store and what others rely on needs a well-formed
\* next step only.
LEMMA WriteStep ==
    ASSUME ParentInv, NEW r \in Requests, Busy(r), UNCHANGED history,
           StoreOK', StoreKeeps, NEW d, CallOK(d)', call' = [call EXCEPT ![r] = d]
    PROVE  ParentInv'
<1>1. call'[r] = d
  BY DEF ParentInv
<1>2. CallOK(call[r])'
  BY <1>1 DEF CallOK, Shape, Sound
<1>. QED
  BY <1>1, <1>2, RequestStep DEF history

\* So does the write a request ends with.
LEMMA LastWrite ==
    ASSUME ParentInv, NEW r \in Requests, Busy(r), UNCHANGED history,
           StoreOK', StoreKeeps, Finish(r)
    PROVE  ParentInv'
BY IdleCallStaysOK, WriteStep DEF Finish

LEMMA CreateUserKeeps ==
    ASSUME ParentInv, NEW r \in Requests, CreateUser(r)
    PROVE  ParentInv'
<1>0. Busy(r) /\ call[r].pc = "createUser" /\ CallOK(call[r]) /\ UNCHANGED history
  BY DEF CreateUser, Busy, At, ParentInv
<1>1. CASE Taken(call[r].email)
  BY <1>0, <1>1, FinishStep DEF CreateUser, store, history
<1>2. CASE ~Taken(call[r].email)
  <2>1. PICK u : u = FreshId
    OBVIOUS
  <2>2. PICK home \in {"here", "elsewhere"} :
           home = IF call[r].op = "adminCreate" THEN "elsewhere" ELSE "here"
    OBVIOUS
  <2>3. PICK row : row = NewUser(call[r].email, home, <<>>, None)
    OBVIOUS
  <2>4. row \in UserRow
    <3>1. /\ call[r].email \in Emails \cup {None} /\ <<>> \in Seq(UserIds)
          /\ None \in Subjects \cup {None}
      BY <1>0 DEF CallOK, CallRecord
    <3>. QED
      BY <2>3, <3>1, NewUserTyped
  <2>5. row.state = "live" /\ row.home = home /\ row.path = <<>>
    BY <2>3 DEF NewUser
  <2>6. users' = [users EXCEPT ![u] = row] /\ FreshIds # {}
        /\ UNCHANGED <<member, plan, entitled, invitation>>
    BY <1>2, <2>1, <2>2, <2>3 DEF CreateUser
  <2>7. AnchoredPath(row.path)
    BY <2>5 DEF AnchoredPath
  <2>8. /\ StoreOK' /\ StoreKeeps
        /\ u \in UserIds /\ users'[u] = row /\ Blank(u)'
    BY <2>1, <2>4, <2>5, <2>6, <2>7, AccountCreated DEF ParentInv
  <2>9. Used(u)' /\ users'[u].home = home /\ member'[u] = None
    BY <2>5, <2>8 DEF Used, Blank
  <2>10. PICK pc \in {"enrich", "createPurchase"} :
            pc = IF FreePlan = None THEN "enrich" ELSE "createPurchase"
    OBVIOUS
  <2>11. PICK d : d = [call[r] EXCEPT !.user = u, !.pc = pc]
    OBVIOUS
  <2>12. call' = [call EXCEPT ![r] = d]
    BY <1>2, <2>1, <2>10, <2>11 DEF CreateUser, ParentInv
  <2>13. CallOK(d)'
    <3>0. pc \in Pcs
      BY PcsAre
    <3>1. d \in CallRecord
      BY <1>0, <2>2, <2>8, <2>9, <2>10, <2>11, <3>0, ZenonT(60) DEF CallOK, CallRecord
    <3>2. Shape(d)
      BY <1>0, <2>2, <2>8, <2>9, <2>10, <2>11 DEF CallOK, CallRecord, Shape
    <3>3. Sound(d)'
      BY <1>0, <2>2, <2>8, <2>9, <2>10, <2>11 DEF CallOK, CallRecord, Shape, Sound
    <3>. QED
      BY <3>1, <3>2, <3>3 DEF CallOK, Shape
  <2>. QED
    BY <1>0, <2>8, <2>12, <2>13, WriteStep
<1>. QED
  BY <1>1, <1>2

\* The plan of a new account, or of nobody's ancestor when it is undone.
LEMMA CreatePurchaseKeeps ==
    ASSUME ParentInv, NEW r \in Requests, CreatePurchase(r)
    PROVE  ParentInv'
<1>0. Busy(r) /\ call[r].pc = "createPurchase" /\ CallOK(call[r]) /\ UNCHANGED history
  BY DEF CreatePurchase, Busy, At, ParentInv
<1>1. call[r].user \in UserIds /\ Used(call[r].user) /\ FreePlan # None
  BY <1>0 DEF CallOK, Shape, Sound
<1>2. CASE Live(call[r].user)
  <2>1. StoreOK' /\ StoreKeeps
    BY <1>1, <1>2, PlanAssumption, PlanWritten DEF CreatePurchase, ParentInv
  <2>2. PICK d : d = [call[r] EXCEPT !.pc = "grant"]
    OBVIOUS
  <2>3. call' = [call EXCEPT ![r] = d]
    BY <1>2, <2>2 DEF CreatePurchase, Goto, ParentInv
  <2>4. PICK u \in UserIds : u = call[r].user /\ Used(u)
    BY <1>1
  <2>5. Used(u)' /\ UNCHANGED <<users, member, overlapped>>
    BY <2>4 DEF CreatePurchase, history, Used
  <2>6. CallOK(d)'
    <3>0. "grant" \in Pcs
      BY PcsAre
    <3>1. d \in CallRecord
      BY <1>0, <2>2, <2>4, <2>5, <3>0 DEF CallOK, CallRecord
    <3>2. Shape(d)
      BY <1>0, <2>2, <2>4, <2>5 DEF CallOK, CallRecord, Shape
    <3>3. Sound(d)'
      BY <1>0, <2>2, <2>4, <2>5 DEF CallOK, CallRecord, Shape, Sound
    <3>. QED
      BY <3>1, <3>2, <3>3 DEF CallOK, Shape
  <2>. QED
    BY <1>0, <2>1, <2>3, <2>6, WriteStep
<1>3. CASE ~Live(call[r].user)
  <2>1. CallOK([call[r] EXCEPT !.pc = "dropEntitlements"])
    BY <1>0, <1>3, PcsAre DEF CallOK, CallRecord, Shape, Sound, HasMembership, Here
  <2>. QED
    BY <1>0, <1>3, <2>1, GotoStep DEF CreatePurchase, store, history
<1>. QED
  BY <1>2, <1>3

LEMMA GrantKeeps ==
    ASSUME ParentInv, NEW r \in Requests, Grant(r)
    PROVE  ParentInv'
<1>0. Busy(r) /\ call[r].pc = "grant" /\ CallOK(call[r]) /\ UNCHANGED history
  BY DEF Grant, Busy, At, ParentInv
<1>1. call[r].user \in UserIds /\ Used(call[r].user)
  BY <1>0 DEF CallOK, Shape, Sound
<1>2. CASE Live(call[r].user)
  <2>1. UNCHANGED <<users, member, plan, overlapped>>
    BY DEF Grant, history
  <2>2. PICK u \in UserIds : u = call[r].user /\ Used(u)
    BY <1>1
  <2>3. Used(u)'
    BY <2>1, <2>2 DEF Used
  <2>4. StoreTyped'
    BY <1>1, <1>2 DEF Grant, ParentInv, StoreOK, StoreTyped
  <2>5. \A v \in UserIds : ~Used(v) => Blank(v)'
    BY <1>1, <1>2 DEF Grant, ParentInv, StoreOK, Blank
  <2>6. \A v \in UserIds : Anchored(v) => plan'[v] # None
    BY <2>1 DEF Anchored
  <2>7. StoreOK' /\ StoreKeeps
    BY <2>1, <2>4, <2>5, <2>6, UsersUntouched DEF ParentInv
  <2>8. PICK d : d = [call[r] EXCEPT !.pc = "enrich"]
    OBVIOUS
  <2>9. call' = [call EXCEPT ![r] = d]
    BY <1>2, <2>8 DEF Grant, Goto, ParentInv
  <2>10. CallOK(d)'
    <3>0. "enrich" \in Pcs
      BY PcsAre
    <3>1. d \in CallRecord
      BY <1>0, <2>1, <2>2, <2>3, <2>8, <3>0 DEF CallOK, CallRecord
    <3>2. Shape(d)
      BY <1>0, <2>1, <2>2, <2>3, <2>8 DEF CallOK, CallRecord, Shape
    <3>3. Sound(d)'
      BY <1>0, <2>1, <2>2, <2>3, <2>8 DEF CallOK, CallRecord, Shape, Sound
    <3>. QED
      BY <3>1, <3>2, <3>3 DEF CallOK, Shape
  <2>. QED
    BY <1>0, <2>7, <2>9, <2>10, WriteStep
<1>3. CASE ~Live(call[r].user)
  <2>1. CallOK([call[r] EXCEPT !.pc = "dropEntitlements"])
    BY <1>0, <1>3, PcsAre DEF CallOK, CallRecord, Shape, Sound, HasMembership, Here
  <2>. QED
    BY <1>0, <1>3, <2>1, GotoStep DEF Grant, store, history
<1>. QED
  BY <1>2, <1>3

LEMMA ProvisionKeeps ==
    ASSUME ParentInv, NEW r \in Requests, Provision(r)
    PROVE  ParentInv'
<1>0. Busy(r) /\ call[r].pc = "provision" /\ CallOK(call[r]) /\ UNCHANGED history
  BY DEF Provision, Busy, At, ParentInv
<1>1. PICK u \in UserIds : u = call[r].user /\ Used(u)
  BY <1>0 DEF CallOK, Shape, Sound
<1>2. CASE member[u] # None
  <2>1. CallOK([call[r] EXCEPT !.pc = "reread"])
    BY <1>0, <1>1, <1>2, PcsAre DEF CallOK, CallRecord, Shape, Sound
  <2>. QED
    BY <1>0, <1>1, <1>2, <2>1, GotoStep DEF Provision, store, history
<1>3. CASE member[u] = None
  <2>1. PICK row \in MemberRow : row = [status |-> "active", path |-> <<>>]
    <3>1. <<>> \in Seq(UserIds)
      OBVIOUS
    <3>. QED
      BY <3>1 DEF MemberRow
  <2>2. member' = [member EXCEPT ![u] = row]
    BY <1>1, <1>3, <2>1 DEF Provision
  <2>3. StoreOK' /\ StoreKeeps
    BY <1>1, <1>3, <2>2, MembershipWritten DEF Provision, ParentInv
  <2>4. PICK d : d = AfterProvision(call[r])
    OBVIOUS
  <2>5. call' = [call EXCEPT ![r] = d]
    BY <1>1, <1>3, <2>4 DEF Provision
  <2>6. CallOK(d)
    BY <1>0, <2>4, AfterProvisionOK DEF CallOK, Shape
  <2>7. d.pc \notin UsesUser \cup UsesOther
    BY <1>0, <2>4 DEF AfterProvision, IdleCall, CallOK, CallRecord
  <2>8. CallOK(d)'
    BY <2>6, <2>7, CallsWithoutUsers DEF CallOK, Shape
  <2>. QED
    BY <1>0, <2>3, <2>5, <2>8, WriteStep
<1>. QED
  BY <1>2, <1>3

LEMMA DropEntitlementsKeeps ==
    ASSUME ParentInv, NEW r \in Requests, DropEntitlements(r)
    PROVE  ParentInv'
<1>0. Busy(r) /\ call[r].pc = "dropEntitlements" /\ CallOK(call[r]) /\ UNCHANGED history
  BY DEF DropEntitlements, Busy, At, ParentInv
<1>1. UNCHANGED <<users, member, plan, rejected, invitation>>
  BY DEF DropEntitlements, history
<1>2. StoreTyped' /\ \A v \in UserIds : ~Used(v) => Blank(v)'
  BY DEF DropEntitlements, ParentInv, StoreOK, StoreTyped, Blank
<1>3. \A v \in UserIds : Anchored(v) => plan'[v] # None
  BY <1>1 DEF Anchored
<1>4. StoreOK' /\ StoreKeeps
  BY <1>1, <1>2, <1>3, UsersUntouched DEF ParentInv
<1>5. PICK d : d = [call[r] EXCEPT !.pc = "dropPurchases"]
  OBVIOUS
<1>6. call' = [call EXCEPT ![r] = d]
  BY <1>5 DEF DropEntitlements, Goto, ParentInv
<1>7. PICK u \in UserIds : u = call[r].user /\ Used(u)
  BY <1>0 DEF CallOK, Shape, Sound
<1>8. Used(u)' /\ (Live(u)' => Live(u)) /\ (HasMembership(u)' => HasMembership(u))
  BY <1>1, <1>7 DEF Used, HasMembership, Here, Live
<1>9. CallOK(d)'
  <2>0. "dropPurchases" \in Pcs
    BY PcsAre
  <2>1. d \in CallRecord
    BY <1>0, <1>1, <1>5, <1>7, <1>8, <2>0 DEF CallOK, CallRecord
  <2>2. Shape(d)
    BY <1>0, <1>1, <1>5, <1>7, <1>8 DEF CallOK, CallRecord, Shape
  <2>3. Sound(d)'
    BY <1>0, <1>1, <1>5, <1>7, <1>8 DEF CallOK, CallRecord, Shape, Sound
  <2>. QED
    BY <2>1, <2>2, <2>3 DEF CallOK, Shape
<1>. QED
  BY <1>0, <1>4, <1>6, <1>9, WriteStep

LEMMA DropPurchasesKeeps ==
    ASSUME ParentInv, NEW r \in Requests, DropPurchases(r)
    PROVE  ParentInv'
<1>0. Busy(r) /\ call[r].pc = "dropPurchases" /\ CallOK(call[r]) /\ UNCHANGED history
  BY DEF DropPurchases, Busy, At, ParentInv
<1>1. PICK u \in UserIds : u = call[r].user /\ Used(u) /\ ~HasMembership(u)
  BY <1>0 DEF CallOK, Shape, Sound
<1>2. plan' = [plan EXCEPT ![u] = None] /\ UNCHANGED <<users, member, entitled, invitation>>
  BY <1>1 DEF DropPurchases
<1>3. StoreOK' /\ StoreKeeps
  BY <1>1, <1>2, PlanWritten DEF ParentInv
<1>4. PICK d : d = [call[r] EXCEPT !.pc = "dropUser"]
  OBVIOUS
<1>5. call' = [call EXCEPT ![r] = d]
  BY <1>4 DEF DropPurchases, Goto, ParentInv
<1>6. Used(u)'
  BY <1>1, <1>2 DEF Used
<1>7. CallOK(d)'
  <2>0. "dropUser" \in Pcs
    BY PcsAre
  <2>1. d \in CallRecord
    BY <1>0, <1>1, <1>4, <1>6, <2>0 DEF CallOK, CallRecord
  <2>2. Shape(d)
    BY <1>0, <1>1, <1>4, <1>6 DEF CallOK, CallRecord, Shape
  <2>3. Sound(d)'
    BY <1>0, <1>1, <1>4, <1>6 DEF CallOK, CallRecord, Shape, Sound
  <2>. QED
    BY <2>1, <2>2, <2>3 DEF CallOK, Shape
<1>. QED
  BY <1>0, <1>3, <1>5, <1>7, WriteStep

LEMMA DropUserKeeps ==
    ASSUME ParentInv, NEW r \in Requests, DropUser(r)
    PROVE  ParentInv'
<1>0. Busy(r) /\ call[r].pc = "dropUser" /\ CallOK(call[r]) /\ UNCHANGED history
  BY DEF DropUser, Busy, At, ParentInv
<1>1. call[r].user \in UserIds
  BY <1>0 DEF CallOK, Shape
<1>2. StoreOK' /\ StoreKeeps
  BY <1>1, AccountDeleted DEF DropUser, ParentInv
<1>. QED
  BY <1>0, <1>2, LastWrite DEF DropUser

LEMMA WritePlanKeeps ==
    ASSUME ParentInv, NEW r \in Requests, WritePlan(r)
    PROVE  ParentInv'
<1>0. Busy(r) /\ call[r].pc = "writePlan" /\ CallOK(call[r]) /\ UNCHANGED history
  BY DEF WritePlan, Busy, At, ParentInv
<1>1. PICK u \in UserIds : u = call[r].user /\ Used(u)
  BY <1>0 DEF CallOK, Shape, Sound
<1>2. UNCHANGED <<users, member, invitation>>
  BY DEF WritePlan
<1>3. CASE Live(u)
  <2>1. PICK p \in Plans \cup {Ended} : /\ plan' = [plan EXCEPT ![u] = p]
                                       /\ entitled' = entitled \cup {u}
    BY <1>1, <1>3 DEF WritePlan
  <2>2. p # None
    BY NoneAssumption
  <2>3. StoreOK' /\ StoreKeeps
    BY <1>1, <1>2, <2>1, <2>2, PlanWritten DEF ParentInv
  <2>. QED
    BY <1>0, <2>3, LastWrite DEF WritePlan
<1>4. CASE ~Live(u)
  BY <1>0, <1>1, <1>2, <1>4, FinishStep DEF WritePlan, store, history
<1>. QED
  BY <1>3, <1>4

\* A new or a linked sub-user gets ancestors that are anchored, its creator
\* among them.
LEMMA CreatorsPath ==
    ASSUME NEW c, CallOK(c), c.pc \in {"link", "insertSubUser"}, Live(c.user)
    PROVE  Append(c.path, c.user) \in Seq(UserIds) /\ AnchoredPath(Append(c.path, c.user))
<1>1. c.path \in Seq(UserIds) /\ c.user \in UserIds
  BY DEF CallOK, CallRecord, Shape
<1>2. AnchoredPath(c.path) /\ Anchored(c.user)
  BY DEF CallOK, Sound, Anchored
<1>3. /\ Len(Append(c.path, c.user)) = Len(c.path) + 1
      /\ \A i \in 1..Len(c.path) : Append(c.path, c.user)[i] = c.path[i]
      /\ Append(c.path, c.user)[Len(c.path) + 1] = c.user
      /\ Append(c.path, c.user) \in Seq(UserIds)
  BY <1>1
<1>4. ASSUME NEW i \in DOMAIN Append(c.path, c.user)
      PROVE  Anchored(Append(c.path, c.user)[i])
  <2>1. i \in 1..Len(c.path) \/ i = Len(c.path) + 1
    BY <1>1, <1>3
  <2>2. 1..Len(c.path) = DOMAIN c.path
    BY <1>1
  <2>. QED
    BY <1>2, <1>3, <2>1, <2>2 DEF AnchoredPath
<1>. QED
  BY <1>3, <1>4 DEF AnchoredPath

\* Only the path of a row is written.
LEMMA PathWritten ==
    ASSUME StoreOK, NEW u \in UserIds, NEW path \in Seq(UserIds), AnchoredPath(path),
           users' = [users EXCEPT ![u].path = path],
           UNCHANGED <<member, plan, entitled, invitation>>
    PROVE  StoreOK' /\ StoreKeeps
<1>1. users[u] \in UserRow
  BY RowsTyped
<1>2. PICK row : row = [users[u] EXCEPT !.path = path]
  OBVIOUS
<1>3. /\ row \in UserRow /\ row.path = path
      /\ row.state = users[u].state /\ row.home = users[u].home
  BY <1>1, <1>2 DEF UserRow
<1>4. users' = [users EXCEPT ![u] = row]
  BY <1>2 DEF StoreOK, StoreTyped
<1>. QED
  BY <1>3, <1>4, RowWritten

\* A root account has no ancestors.
LEMMA NobodyIsAnchored == <<>> \in Seq(UserIds) /\ AnchoredPath(<<>>)
BY DEF AnchoredPath

LEMMA LinkKeeps ==
    ASSUME ParentInv, NEW r \in Requests, Link(r)
    PROVE  ParentInv'
<1>0. Busy(r) /\ call[r].pc = "link" /\ CallOK(call[r]) /\ UNCHANGED history
  BY DEF Link, Busy, At, ParentInv
<1>1. /\ call[r].other \in UserIds /\ Used(call[r].other)
      /\ call[r].user \in UserIds /\ Used(call[r].user)
  BY <1>0 DEF CallOK, Shape, Sound
<1>2. CASE Live(call[r].other) /\ Live(call[r].user)
  <2>1. PICK path : path = Append(call[r].path, call[r].user)
    OBVIOUS
  <2>2. path \in Seq(UserIds) /\ AnchoredPath(path)
    BY <1>0, <1>2, <2>1, CreatorsPath
  <2>3. users' = [users EXCEPT ![call[r].other].path = path]
    BY <1>2, <2>1 DEF Link
  <2>4. StoreOK' /\ StoreKeeps
    BY <1>1, <2>2, <2>3, PathWritten DEF Link, ParentInv
  <2>5. PICK d : d = [call[r] EXCEPT !.pc = "syncUsers", !.known = TRUE]
    OBVIOUS
  <2>6. call' = [call EXCEPT ![r] = d]
    BY <1>2, <2>5 DEF Link, ParentInv
  <2>7. PICK u \in UserIds, v \in UserIds : u = call[r].user /\ v = call[r].other
    BY <1>1
  <2>8. Used(u)' /\ Used(v)'
    BY <1>1, <2>4, <2>7 DEF StoreKeeps
  <2>9. CallOK(d)'
    <3>0. "syncUsers" \in Pcs
      BY PcsAre
    <3>1. d \in CallRecord
      BY <1>0, <2>5, <2>7, <2>8, <3>0 DEF CallOK, CallRecord
    <3>2. Shape(d)
      BY <1>0, <2>5, <2>7, <2>8 DEF CallOK, CallRecord, Shape
    <3>3. Sound(d)'
      BY <1>0, <2>5, <2>7, <2>8 DEF CallOK, CallRecord, Shape, Sound
    <3>. QED
      BY <3>1, <3>2, <3>3 DEF CallOK, Shape
  <2>. QED
    BY <1>0, <2>4, <2>6, <2>9, WriteStep
<1>3. CASE ~(Live(call[r].other) /\ Live(call[r].user))
  BY <1>0, <1>3, FinishStep DEF Link, store, history
<1>. QED
  BY <1>2, <1>3

LEMMA InsertSubUserKeeps ==
    ASSUME ParentInv, NEW r \in Requests, InsertSubUser(r)
    PROVE  ParentInv'
<1>0. Busy(r) /\ call[r].pc = "insertSubUser" /\ CallOK(call[r]) /\ UNCHANGED history
  BY DEF InsertSubUser, Busy, At, ParentInv
<1>1. CASE Taken(call[r].email) \/ ~Live(call[r].user)
  BY <1>0, <1>1, FinishStep DEF InsertSubUser, store, history
<1>2. CASE ~Taken(call[r].email) /\ Live(call[r].user)
  <2>1. PICK v : v = FreshId
    OBVIOUS
  <2>2. PICK path : path = Append(call[r].path, call[r].user)
    OBVIOUS
  <2>3. path \in Seq(UserIds) /\ AnchoredPath(path)
    BY <1>0, <1>2, <2>2, CreatorsPath
  <2>4. PICK row : row = NewUser(call[r].email, "here", path, None)
    OBVIOUS
  <2>5. row \in UserRow
    <3>1. call[r].email \in Emails \cup {None} /\ None \in Subjects \cup {None}
      BY <1>0 DEF CallOK, CallRecord
    <3>. QED
      BY <2>3, <2>4, <3>1, NewUserTyped
  <2>6. row.state = "live" /\ row.path = path
    BY <2>4 DEF NewUser
  <2>7. users' = [users EXCEPT ![v] = row] /\ FreshIds # {}
        /\ UNCHANGED <<member, plan, entitled, invitation>>
    BY <1>2, <2>1, <2>2, <2>4 DEF InsertSubUser
  <2>8. StoreOK' /\ StoreKeeps /\ v \in UserIds /\ users'[v] = row
    BY <2>1, <2>3, <2>5, <2>6, <2>7, AccountCreated DEF ParentInv
  <2>9. PICK u \in UserIds : u = call[r].user /\ Used(u)
    BY <1>0 DEF CallOK, Shape, Sound
  <2>10. Used(u)' /\ Used(v)'
    BY <2>6, <2>8, <2>9 DEF StoreKeeps, Used
  <2>11. PICK d : d = [call[r] EXCEPT !.other = v, !.pc = "syncUsers"]
    OBVIOUS
  <2>12. call' = [call EXCEPT ![r] = d]
    BY <1>2, <2>1, <2>11 DEF InsertSubUser, ParentInv
  <2>13. CallOK(d)'
    <3>0. "syncUsers" \in Pcs
      BY PcsAre
    <3>1. d \in CallRecord
      BY <1>0, <2>8, <2>9, <2>10, <2>11, <3>0 DEF CallOK, CallRecord
    <3>2. Shape(d)
      BY <1>0, <2>8, <2>9, <2>10, <2>11 DEF CallOK, CallRecord, Shape
    <3>3. Sound(d)'
      BY <1>0, <2>8, <2>9, <2>10, <2>11 DEF CallOK, CallRecord, Shape, Sound
    <3>. QED
      BY <3>1, <3>2, <3>3 DEF CallOK, Shape
  <2>. QED
    BY <1>0, <2>8, <2>12, <2>13, WriteStep
<1>. QED
  BY <1>1, <1>2

\* The memberships' hierarchy is written: nothing but a path, or a new row.
LEMMA MemberPathWritten ==
    ASSUME StoreOK, NEW u \in UserIds, member[u] # None, Used(u),
           NEW path \in Seq(UserIds), member' = [member EXCEPT ![u].path = path],
           UNCHANGED <<users, plan, entitled, invitation>>
    PROVE  StoreOK' /\ StoreKeeps
<1>1. member[u] \in MemberRow
  BY RowsTyped
<1>2. PICK row : row = [member[u] EXCEPT !.path = path]
  OBVIOUS
<1>3. row \in MemberRow /\ row.status = member[u].status
  BY <1>1, <1>2 DEF MemberRow
<1>4. member' = [member EXCEPT ![u] = row]
  BY <1>2 DEF StoreOK, StoreTyped
<1>. QED
  BY <1>3, <1>4, MembershipWritten

LEMMA SyncUpdateKeeps ==
    ASSUME ParentInv, NEW r \in Requests, SyncUpdate(r)
    PROVE  ParentInv'
<1>0. Busy(r) /\ call[r].pc = "syncUpdate" /\ CallOK(call[r]) /\ UNCHANGED history
  BY DEF SyncUpdate, Busy, At, ParentInv
<1>1. CASE member[call[r].other] # None
  <2>1. call[r].other \in UserIds /\ Used(call[r].other) /\ call[r].path \in Seq(UserIds)
    BY <1>0 DEF CallOK, CallRecord, Shape, Sound
  <2>2. StoreOK' /\ StoreKeeps
    BY <1>1, <2>1, MemberPathWritten DEF SyncUpdate, ParentInv
  <2>. QED
    BY <1>0, <1>1, <2>2, LastWrite DEF SyncUpdate
<1>2. CASE member[call[r].other] = None
  BY <1>0, <1>2, CompensateOK, ReadStep DEF SyncUpdate, store, history
<1>. QED
  BY <1>1, <1>2

LEMMA SyncCreateKeeps ==
    ASSUME ParentInv, NEW r \in Requests, SyncCreate(r)
    PROVE  ParentInv'
<1>0. Busy(r) /\ call[r].pc = "syncCreate" /\ CallOK(call[r]) /\ UNCHANGED history
  BY DEF SyncCreate, Busy, At, ParentInv
<1>1. PICK u \in UserIds : u = call[r].other /\ Used(u)
  BY <1>0 DEF CallOK, Shape, Sound
<1>2. CASE member[u] # None
  <2>1. CallOK([call[r] EXCEPT !.pc = "syncRaced"])
    BY <1>0, PcsAre DEF CallOK, CallRecord, Shape, Sound
  <2>. QED
    BY <1>0, <1>1, <1>2, <2>1, GotoStep DEF SyncCreate, store, history
<1>3. CASE member[u] = None
  <2>1. PICK row : row = [status |-> call[r].input, path |-> call[r].path]
    OBVIOUS
  <2>2. row \in MemberRow
    BY <1>0, <2>1 DEF CallOK, CallRecord, Shape, MemberRow
  <2>3. member' = [member EXCEPT ![u] = row]
    BY <1>1, <1>3, <2>1 DEF SyncCreate
  <2>4. StoreOK' /\ StoreKeeps
    BY <1>1, <1>3, <2>2, <2>3, MembershipWritten DEF SyncCreate, ParentInv
  <2>. QED
    BY <1>0, <1>1, <1>3, <2>4, LastWrite DEF SyncCreate
<1>. QED
  BY <1>2, <1>3

LEMMA UndoLinkKeeps ==
    ASSUME ParentInv, NEW r \in Requests, UndoLink(r)
    PROVE  ParentInv'
<1>0. Busy(r) /\ call[r].pc = "undoLink" /\ CallOK(call[r]) /\ UNCHANGED history
  BY DEF UndoLink, Busy, At, ParentInv
<1>1. PICK path : path = IF Live(call[r].other) THEN <<>> ELSE users[call[r].other].path
  OBVIOUS
<1>2. call[r].other \in UserIds
  BY <1>0 DEF CallOK, Shape
<1>3. users[call[r].other].path \in Seq(UserIds) /\ AnchoredPath(users[call[r].other].path)
  BY <1>2, RowsTyped DEF ParentInv, StoreOK, UserRow
<1>4. path \in Seq(UserIds) /\ AnchoredPath(path)
  BY <1>1, <1>3, NobodyIsAnchored
<1>5. users' = [users EXCEPT ![call[r].other].path = path]
  BY <1>1, <1>2 DEF UndoLink, ParentInv, StoreOK, StoreTyped
<1>6. StoreOK' /\ StoreKeeps
  BY <1>2, <1>4, <1>5, PathWritten DEF UndoLink, ParentInv
<1>. QED
  BY <1>0, <1>6, LastWrite DEF UndoLink

LEMMA UndoInsertKeeps ==
    ASSUME ParentInv, NEW r \in Requests, UndoInsert(r)
    PROVE  ParentInv'
<1>0. Busy(r) /\ call[r].pc = "undoInsert" /\ CallOK(call[r]) /\ UNCHANGED history
  BY DEF UndoInsert, Busy, At, ParentInv
<1>1. call[r].other \in UserIds
  BY <1>0 DEF CallOK, Shape
<1>2. StoreOK' /\ StoreKeeps
  BY <1>1, AccountDeleted DEF UndoInsert, ParentInv
<1>. QED
  BY <1>0, <1>2, LastWrite DEF UndoInsert

LEMMA DetachKeeps ==
    ASSUME ParentInv, NEW r \in Requests, Detach(r)
    PROVE  ParentInv'
<1>0. Busy(r) /\ call[r].pc = "detach" /\ CallOK(call[r]) /\ UNCHANGED history
  BY DEF Detach, Busy, At, ParentInv
<1>1. PICK u \in UserIds : u = call[r].other /\ Used(u)
  BY <1>0 DEF CallOK, Shape, Sound
<1>2. CASE Live(u)
  <2>1. users' = [users EXCEPT ![u].path = <<>>]
    BY <1>1, <1>2 DEF Detach
  <2>2. StoreOK' /\ StoreKeeps
    BY <2>1, NobodyIsAnchored, PathWritten DEF Detach, ParentInv
  <2>3. PICK d : d = [call[r] EXCEPT !.pc = "detachRead"]
    OBVIOUS
  <2>4. call' = [call EXCEPT ![r] = d]
    BY <1>1, <1>2, <2>3 DEF Detach, Goto, ParentInv
  <2>5. PICK v \in UserIds : v = call[r].user /\ Used(v)
    BY <1>0 DEF CallOK, Shape, Sound
  <2>6. PICK path \in Seq(UserIds) : path = call[r].path /\ AnchoredPath(path)
    BY <1>0 DEF CallOK, CallRecord, Sound
  <2>7. Used(u)' /\ Used(v)' /\ AnchoredPath(path)'
    BY <1>1, <2>2, <2>5, <2>6, StillAnchored DEF StoreKeeps
  <2>8. CallOK(d)'
    <3>0. "detachRead" \in Pcs
      BY PcsAre
    <3>1. d \in CallRecord
      BY <1>0, <1>1, <2>3, <2>5, <2>6, <2>7, <3>0 DEF CallOK, CallRecord
    <3>2. Shape(d)
      BY <1>0, <1>1, <2>3, <2>5, <2>6, <2>7 DEF CallOK, CallRecord, Shape
    <3>3. Sound(d)'
      BY <1>0, <1>1, <2>3, <2>5, <2>6, <2>7 DEF CallOK, CallRecord, Shape, Sound
    <3>. QED
      BY <3>1, <3>2, <3>3 DEF CallOK, Shape
  <2>. QED
    BY <1>0, <2>2, <2>4, <2>8, WriteStep
<1>3. CASE ~Live(u)
  BY <1>0, <1>1, <1>3, FinishStep DEF Detach, store, history
<1>. QED
  BY <1>2, <1>3

LEMMA DetachWriteKeeps ==
    ASSUME ParentInv, NEW r \in Requests, DetachWrite(r)
    PROVE  ParentInv'
<1>0. Busy(r) /\ call[r].pc = "detachWrite" /\ CallOK(call[r]) /\ UNCHANGED history
  BY DEF DetachWrite, Busy, At, ParentInv
<1>1. PICK u \in UserIds : u = call[r].other /\ Used(u)
  BY <1>0 DEF CallOK, Shape, Sound
<1>2. CASE member[u] # None
  <2>1. member' = [member EXCEPT ![u].path = <<>>] /\ Finish(r)
    BY <1>1, <1>2 DEF DetachWrite
  <2>2. StoreOK' /\ StoreKeeps
    BY <1>1, <1>2, <2>1, NobodyIsAnchored, MemberPathWritten DEF DetachWrite, ParentInv
  <2>. QED
    BY <1>0, <2>1, <2>2, LastWrite
<1>3. CASE member[u] = None
  <2>1. CallOK([call[r] EXCEPT !.pc = "undoRevoke"])
    BY <1>0, PcsAre DEF CallOK, CallRecord, Shape, Sound
  <2>. QED
    BY <1>0, <1>1, <1>3, <2>1, GotoStep DEF DetachWrite, store, history
<1>. QED
  BY <1>2, <1>3

LEMMA UndoRevokeKeeps ==
    ASSUME ParentInv, NEW r \in Requests, UndoRevoke(r)
    PROVE  ParentInv'
<1>0. Busy(r) /\ call[r].pc = "undoRevoke" /\ CallOK(call[r]) /\ UNCHANGED history
  BY DEF UndoRevoke, Busy, At, ParentInv
<1>. DEFINE c == call[r]
<1>1. PICK path : path = IF Live(c.other) /\ Live(c.user) THEN c.path
                         ELSE users[c.other].path
  OBVIOUS
<1>2. c.other \in UserIds
  BY <1>0 DEF CallOK, Shape
<1>3. users[c.other].path \in Seq(UserIds) /\ AnchoredPath(users[c.other].path)
  BY <1>2, RowsTyped DEF ParentInv, StoreOK, UserRow
<1>4. path \in Seq(UserIds) /\ AnchoredPath(path)
  BY <1>0, <1>1, <1>3 DEF CallOK, CallRecord, Sound
<1>5. users' = [users EXCEPT ![c.other].path = path]
  BY <1>1, <1>2 DEF UndoRevoke, ParentInv, StoreOK, StoreTyped
<1>6. StoreOK' /\ StoreKeeps
  BY <1>2, <1>4, <1>5, PathWritten DEF UndoRevoke, ParentInv
<1>. QED
  BY <1>0, <1>6, LastWrite DEF UndoRevoke

\* A request that ends with the write of an invitation keeps ParentInv.
LEMMA InvitationWrite ==
    ASSUME ParentInv, NEW r \in Requests, Busy(r), UNCHANGED history, Finish(r),
           NEW k \in Invitations, NEW row \in InvitationRow,
           invitation' = [invitation EXCEPT ![k] = row],
           UNCHANGED <<users, member, plan, entitled>>
    PROVE  ParentInv'
<1>1. invitation' \in [Invitations -> InvitationRow]
  BY DEF ParentInv, StoreOK, StoreTyped
<1>2. StoreOK' /\ StoreKeeps
  BY <1>1, InvitationsWritten DEF ParentInv
<1>. QED
  BY <1>2, LastWrite

LEMMA StoreInvitationKeeps ==
    ASSUME ParentInv, NEW r \in Requests, StoreInvitation(r)
    PROVE  ParentInv'
<1>0. Busy(r) /\ call[r].pc = "storeInvitation" /\ CallOK(call[r]) /\ UNCHANGED history
  BY DEF StoreInvitation, Busy, At, ParentInv
<1>1. PICK k \in Invitations : k = call[r].invitation
  BY <1>0 DEF CallOK, Shape
<1>2. PICK e \in Emails \cup {None} : e = call[r].email
  BY <1>0 DEF CallOK, CallRecord
<1>3. PICK row : row = [invitation[k] EXCEPT !.status = "pending", !.email = e]
  OBVIOUS
<1>4. row \in InvitationRow
  BY <1>3, RowsTyped DEF ParentInv, InvitationRow
<1>5. invitation' = [invitation EXCEPT ![k] = row]
  BY <1>1, <1>2, <1>3 DEF StoreInvitation
<1>. QED
  BY <1>0, <1>4, <1>5, InvitationWrite DEF StoreInvitation

LEMMA MarkKeeps ==
    ASSUME ParentInv, NEW r \in Requests, Busy(r), call[r].pc \in UsesInvitation,
           NEW status \in {"expired", "accepted"}, Mark(r, status)
    PROVE  ParentInv'
<1>1. PICK k \in Invitations : k = call[r].invitation
  BY DEF ParentInv, CallOK, Shape
<1>2. PICK row : row = [invitation[k] EXCEPT !.status = status]
  OBVIOUS
<1>3. row \in InvitationRow
  BY <1>2, RowsTyped DEF ParentInv, InvitationRow
<1>4. invitation' = [invitation EXCEPT ![k] = row]
  BY <1>1, <1>2 DEF Mark, ParentInv, StoreOK, StoreTyped
<1>. QED
  BY <1>3, <1>4, InvitationWrite DEF Mark

\* markExpired and markAccepted are such requests.
LEMMA MarksKeep ==
    ASSUME ParentInv, NEW r \in Requests, MarkExpired(r) \/ MarkAccepted(r)
    PROVE  ParentInv'
BY MarkKeeps DEF MarkExpired, MarkAccepted, At, Busy

LEMMA LapseKeeps ==
    ASSUME ParentInv, NEW k \in Invitations, Lapse(k)
    PROVE  ParentInv'
<1>1. PICK row : row = [invitation[k] EXCEPT !.late = TRUE]
  OBVIOUS
<1>2. row \in InvitationRow
  BY <1>1, RowsTyped DEF ParentInv, InvitationRow
<1>3. invitation' = [invitation EXCEPT ![k] = row]
  BY <1>1 DEF Lapse, ParentInv, StoreOK, StoreTyped
<1>4. invitation' \in [Invitations -> InvitationRow]
  BY <1>2, <1>3 DEF ParentInv, StoreOK, StoreTyped
<1>5. StoreOK'
  BY <1>4, InvitationsWritten DEF Lapse, ParentInv
<1>6. UNCHANGED <<users, member, plan, call, rejected, overlapped>>
  BY DEF Lapse, history
<1>7. Alone'
  BY <1>6 DEF ParentInv, Alone, Busy
<1>8. ASSUME NEW q \in Requests
      PROVE  CallOK(call[q])'
  <2>1. CallOK(call[q])
    BY DEF ParentInv
  <2>2. Shape(call[q])' /\ call'[q] \in CallRecord
    BY <1>6, <2>1 DEF Shape, CallOK
  <2>3. Sound(call[q])'
    BY <1>6, <2>1 DEF CallOK, Sound, Used, Live, AnchoredPath, Anchored, HasMembership, Here
  <2>. QED
    BY <2>2, <2>3 DEF CallOK
<1>. QED
  BY <1>5, <1>6, <1>7, <1>8 DEF ParentInv

LEMMA LinkSubjectKeeps ==
    ASSUME ParentInv, NEW r \in Requests, LinkSubject(r)
    PROVE  ParentInv'
<1>0. Busy(r) /\ call[r].pc = "linkSubject" /\ CallOK(call[r]) /\ UNCHANGED history
  BY DEF LinkSubject, Busy, At, ParentInv
<1>1. PICK u \in UserIds : u = call[r].other
  BY <1>0 DEF CallOK, Shape
<1>2. CASE Live(u)
  <2>1. PICK row : row = [users[u] EXCEPT !.subject = call[r].subject]
    OBVIOUS
  <2>2. users[u] \in UserRow /\ call[r].subject \in Subjects \cup {None}
    BY <1>0, RowsTyped DEF ParentInv, CallOK, CallRecord
  <2>3. /\ row \in UserRow /\ row.path = users[u].path
        /\ row.state = users[u].state /\ row.home = users[u].home
    BY <2>1, <2>2 DEF UserRow
  <2>4. users' = [users EXCEPT ![u] = row]
    BY <1>1, <1>2, <2>1 DEF LinkSubject, ParentInv, StoreOK, StoreTyped
  <2>5. AnchoredPath(row.path)
    BY <2>3 DEF ParentInv, StoreOK, AnchoredPath
  <2>6. StoreOK' /\ StoreKeeps
    BY <2>3, <2>4, <2>5, RowWritten DEF LinkSubject, ParentInv
  <2>7. PICK d : d = AfterProvision(call[r])
    OBVIOUS
  <2>8. call' = [call EXCEPT ![r] = d]
    BY <1>1, <1>2, <2>7 DEF LinkSubject
  <2>9. CallOK(d)
    BY <1>0, <2>7, AfterProvisionOK DEF CallOK, Shape
  <2>10. d.pc \notin UsesUser \cup UsesOther
    BY <1>0, <2>7 DEF AfterProvision, IdleCall, CallOK, CallRecord
  <2>11. CallOK(d)'
    BY <2>9, <2>10, CallsWithoutUsers DEF CallOK, Shape
  <2>. QED
    BY <1>0, <2>6, <2>8, <2>11, WriteStep
<1>3. CASE ~Live(u)
  BY <1>0, <1>1, <1>3, FinishStep DEF LinkSubject, store, history
<1>. QED
  BY <1>2, <1>3

LEMMA JitCreateKeeps ==
    ASSUME ParentInv, NEW r \in Requests, JitCreate(r)
    PROVE  ParentInv'
<1>0. Busy(r) /\ call[r].pc = "jitCreate" /\ CallOK(call[r]) /\ UNCHANGED history
  BY DEF JitCreate, Busy, At, ParentInv
<1>1. CASE Taken(call[r].email)
  <2>1. CallOK([call[r] EXCEPT !.pc = "byEmailAgain"])
    BY <1>0, PcsAre DEF CallOK, CallRecord, Shape, Sound
  <2>. QED
    BY <1>0, <1>1, <2>1, GotoStep DEF JitCreate, store, history
<1>2. CASE ~Taken(call[r].email)
  <2>1. PICK u : u = FreshId
    OBVIOUS
  <2>2. PICK row : row = NewUser(call[r].email, "here", <<>>, call[r].subject)
    OBVIOUS
  <2>3. row \in UserRow
    <3>1. /\ call[r].email \in Emails \cup {None} /\ <<>> \in Seq(UserIds)
          /\ call[r].subject \in Subjects \cup {None}
      BY <1>0 DEF CallOK, CallRecord
    <3>. QED
      BY <2>2, <3>1, NewUserTyped
  <2>4. row.state = "live" /\ row.home = "here" /\ row.path = <<>>
    BY <2>2 DEF NewUser
  <2>5. users' = [users EXCEPT ![u] = row] /\ FreshIds # {}
        /\ UNCHANGED <<member, plan, entitled, invitation>>
    BY <1>2, <2>1, <2>2 DEF JitCreate
  <2>6. StoreOK' /\ StoreKeeps /\ u \in UserIds /\ users'[u] = row /\ Blank(u)'
    <3>1. AnchoredPath(row.path)
      BY <2>4, NobodyIsAnchored
    <3>2. StoreOK
      BY DEF ParentInv
    <3>. QED
      BY <2>1, <2>3, <2>4, <2>5, <3>1, <3>2, AccountCreated
  <2>7. Used(u)' /\ users'[u].home = "here" /\ member'[u] = None
    BY <2>4, <2>6 DEF Used, Blank
  <2>8. PICK d : d = [call[r] EXCEPT !.user = u, !.pc = "provisionUser"]
    OBVIOUS
  <2>9. call' = [call EXCEPT ![r] = d]
    BY <1>2, <2>1, <2>8 DEF JitCreate, ParentInv
  <2>10. CallOK(d)'
    <3>0. "provisionUser" \in Pcs
      BY PcsAre
    <3>1. d \in CallRecord
      BY <1>0, <2>6, <2>7, <2>8, <3>0 DEF CallOK, CallRecord
    <3>2. Shape(d)
      BY <1>0, <2>6, <2>7, <2>8 DEF CallOK, CallRecord, Shape
    <3>3. Sound(d)'
      BY <1>0, <2>6, <2>7, <2>8 DEF CallOK, CallRecord, Shape, Sound
    <3>. QED
      BY <3>1, <3>2, <3>3 DEF CallOK, Shape
  <2>. QED
    BY <1>0, <2>6, <2>9, <2>10, WriteStep
<1>. QED
  BY <1>1, <1>2

LEMMA WriteUserKeeps ==
    ASSUME ParentInv, NEW r \in Requests, WriteUser(r)
    PROVE  ParentInv'
<1>0. Busy(r) /\ call[r].pc = "writeUser" /\ CallOK(call[r]) /\ UNCHANGED history
  BY DEF WriteUser, Busy, At, ParentInv
<1>. DEFINE c == call[r]
<1>1. PICK u \in UserIds : u = c.other
  BY <1>0 DEF CallOK, Shape
<1>2. PICK row : row = IF Live(u) /\ WithEmail(c.email) \subseteq {u}
                       THEN [users[u] EXCEPT !.email = c.email,
                                             !.status = IF c.op = "update" THEN c.input
                                                        ELSE users[u].status]
                       ELSE users[u]
  OBVIOUS
<1>3. /\ users[u] \in UserRow /\ c.email \in Emails \cup {None}
      /\ c.op = "update" => c.input \in {"active", "disabled"}
  BY <1>0, RowsTyped DEF ParentInv, CallOK, CallRecord, Shape
<1>4. /\ row \in UserRow /\ row.path = users[u].path
      /\ row.state = users[u].state /\ row.home = users[u].home
  <2>1. CASE row = users[u]
    BY <1>3, <2>1
  <2>2. CASE row # users[u]
    <3>1. PICK s \in {"active", "disabled"} :
             s = IF c.op = "update" THEN c.input ELSE users[u].status
      BY <1>3 DEF UserRow
    <3>2. row = [users[u] EXCEPT !.email = c.email, !.status = s]
      BY <1>2, <2>2, <3>1, <1>3 DEF UserRow
    <3>. QED
      BY <1>3, <3>2 DEF UserRow
  <2>. QED
    BY <2>1, <2>2
<1>5. users' = [users EXCEPT ![u] = row]
  <2>1. CASE Live(u) /\ WithEmail(c.email) \subseteq {u}
    BY <1>1, <1>2, <2>1 DEF WriteUser
  <2>2. CASE ~(Live(u) /\ WithEmail(c.email) \subseteq {u})
    BY <1>1, <1>2, <2>2 DEF WriteUser
  <2>. QED
    BY <2>1, <2>2
<1>6. AnchoredPath(row.path)
  BY <1>4 DEF ParentInv, StoreOK, AnchoredPath
<1>7. StoreOK' /\ StoreKeeps
  BY <1>4, <1>5, <1>6, RowWritten DEF WriteUser, ParentInv
<1>. QED
  BY <1>0, <1>7, LastWrite DEF WriteUser

-----------------------------------------------------------------------------
(* Rejections and new requests *)

LEMMA FailKeeps ==
    ASSUME ParentInv, NEW r \in Requests, Fail(r)
    PROVE  ParentInv'
<1>. DEFINE c == call[r]
<1>c. CallOK(c)
  BY DEF ParentInv
<1>0. /\ Busy(r) /\ ~overlapped
      /\ rejected' = rejected \cup {c.pc} /\ UNCHANGED <<store, ops, overlapped>>
      /\ call' = [call EXCEPT ![r] = OnReject(c)]
  BY DEF Fail
<1>1. UNCHANGED <<users, member, plan, entitled, invitation>>
  BY <1>0 DEF store
<1>2. StoreOK'
  <2>1. StoreTyped' /\ \A v \in UserIds : ~Used(v) => Blank(v)'
    BY <1>1 DEF ParentInv, StoreOK, StoreTyped, Blank
  <2>2. \A v \in UserIds : Anchored(v) => plan'[v] # None
    BY <1>1 DEF Anchored
  <2>. QED
    BY <1>1, <2>1, <2>2, UsersUntouched DEF ParentInv
<1>3. StoreKeeps
  BY <1>1 DEF StoreKeeps, Used, Live, Anchored, HasMembership, Here
<1>4. ASSUME NEW d, d = OnReject(c), CallOK(d)'
      PROVE  ParentInv'
  <2>1. call'[r] = d
    BY <1>0, <1>4 DEF ParentInv
  <2>2. CallOK(call[r])'
    BY <1>4, <2>1 DEF CallOK, Shape, Sound
  <2>. QED
    BY <1>0, <1>2, <1>3, <2>1, <2>2, <1>4, RequestStep
\* A call that is sound before is sound after: one more step has rejected.
<1>5. ASSUME NEW d, CallOK(d)
      PROVE  CallOK(d)'
  <2>1. Shape(d)' /\ (d \in CallRecord)'
    BY <1>5 DEF CallOK, Shape
  <2>2. Sound(d)'
    BY <1>0, <1>1, <1>5 DEF CallOK, Sound, Used, Live, AnchoredPath, Anchored,
       HasMembership, Here
  <2>. QED
    BY <2>1, <2>2 DEF CallOK
<1>6. ASSUME c.pc \in Rollback \cup Provisioning, c.op # "identity"
      PROVE  ParentInv'
  <2>1. PICK d : d = [c EXCEPT !.pc = "dropEntitlements"]
    OBVIOUS
  <2>2. d = OnReject(c)
    BY <1>6, <2>1 DEF OnReject, Rollback, Undone
  <2>3. PICK u \in UserIds : u = c.user /\ Used(u) /\ member[u] = None
    BY <1>c, <1>0, <1>6 DEF CallOK, Shape, Sound, Rollback
  <2>4. Used(u)' /\ ~HasMembership(u)' /\ rejected' # {}
    BY <1>0, <1>1, <2>3 DEF Used, HasMembership
  <2>5. CallOK(d)'
    <3>0. "dropEntitlements" \in Pcs
      BY PcsAre
    <3>1. d \in CallRecord
      BY <1>c, <2>1, <3>0 DEF CallOK, CallRecord
    <3>2. Shape(d)
      BY <1>c, <1>6, <2>1, <2>3 DEF CallOK, CallRecord, Shape, Rollback
    <3>3. Sound(d)'
      BY <1>c, <1>6, <2>1, <2>3, <2>4 DEF CallOK, CallRecord, Shape, Sound
    <3>. QED
      BY <3>1, <3>2, <3>3 DEF CallOK, Shape
  <2>. QED
    BY <1>4, <2>2, <2>5
<1>7. ASSUME c.pc \in Provisioning, c.op = "identity"
      PROVE  ParentInv'
  <2>1. OnReject(c) = IdleCall
    BY <1>7 DEF OnReject, Rollback, Undone
  <2>. QED
    BY <1>4, <2>1, IdleCallStaysOK
<1>8. ASSUME c.pc = "provision"
      PROVE  ParentInv'
  <2>1. PICK d : d = [c EXCEPT !.pc = "reread"]
    OBVIOUS
  <2>2. d = OnReject(c)
    BY <1>8, <2>1 DEF OnReject, Rollback
  <2>3. PICK u \in UserIds : u = c.user /\ Used(u) /\ member[u] = None
    BY <1>c, <1>0, <1>8 DEF CallOK, Shape, Sound
  <2>4. /\ Used(u)' /\ member'[u] = None /\ rejected' # {}
        /\ c.op # "adminCreate" /\ users'[u].home = "here"
    BY <1>c, <1>0, <1>1, <1>8, <2>3 DEF Used, CallOK, Shape, Sound
  <2>5. CallOK(d)'
    <3>0. "reread" \in Pcs
      BY PcsAre
    <3>1. d \in CallRecord
      BY <1>c, <1>8, <2>1, <2>3, <2>4, <3>0 DEF CallOK, CallRecord
    <3>2. Shape(d)
      BY <1>c, <1>8, <2>1, <2>3, <2>4 DEF CallOK, CallRecord, Shape
    <3>3. Sound(d)'
      BY <1>c, <1>8, <2>1, <2>3, <2>4 DEF CallOK, CallRecord, Shape, Sound
    <3>. QED
      BY <3>1, <3>2, <3>3 DEF CallOK, Shape
  <2>. QED
    BY <1>4, <2>2, <2>5
<1>9. ASSUME c.pc \in Syncing
      PROVE  ParentInv'
  <2>1. PICK d : d = Compensate(c)
    OBVIOUS
  <2>2. d = OnReject(c)
    BY <1>9, <2>1 DEF OnReject, Rollback
  <2>. QED
    BY <1>c, <1>4, <1>5, <1>9, <2>1, <2>2, CompensateOK
<1>10. ASSUME c.pc \in Detaching \cup {"syncCreate", "jitCreate"}
       PROVE  ParentInv'
  <2>1. PICK pc : pc = IF c.pc \in Detaching THEN "undoRevoke"
                       ELSE IF c.pc = "syncCreate" THEN "syncRaced" ELSE "byEmailAgain"
    OBVIOUS
  <2>2. PICK d : d = [c EXCEPT !.pc = pc]
    OBVIOUS
  <2>3. d = OnReject(c)
    BY <1>10, <2>1, <2>2 DEF OnReject, Rollback
  <2>4. pc \in {"undoRevoke", "syncRaced", "byEmailAgain"}
    BY <2>1
  <2>5. CallOK(d)
    <3>0. pc \in Pcs
      BY <1>c, <1>10, <2>1, <2>2, <2>4, PcsAre
    <3>1. d \in CallRecord
      BY <1>c, <1>10, <2>1, <2>2, <2>4, <3>0 DEF CallOK, CallRecord
    <3>2. Shape(d)
      BY <1>c, <1>10, <2>1, <2>2, <2>4 DEF CallOK, CallRecord, Shape
    <3>3. Sound(d)
      BY <1>c, <1>10, <2>1, <2>2, <2>4 DEF CallOK, CallRecord, Sound
    <3>. QED
      BY <3>1, <3>2, <3>3 DEF CallOK
  <2>. QED
    BY <1>4, <1>5, <2>3, <2>5
<1>11. ASSUME c.pc \notin Rollback \cup Provisioning \cup Syncing \cup Detaching
                         \cup {"provision", "syncCreate", "jitCreate"}
       PROVE  ParentInv'
  <2>1. OnReject(c) = IdleCall
    BY <1>11 DEF OnReject, Rollback
  <2>. QED
    BY <1>4, <2>1, IdleCallStaysOK
<1>12. ~(c.pc \in Rollback /\ c.op = "identity")
  BY <1>c DEF CallOK, Shape, Rollback
<1>. QED
  BY <1>6, <1>7, <1>8, <1>9, <1>10, <1>11, <1>12

LEMMA BeginKeeps ==
    ASSUME ParentInv, NEW r \in Requests, NEW op, NEW d, CallOK(d), Begin(r, op, d)
    PROVE  ParentInv'
<1>1. UNCHANGED <<users, member, plan, entitled, invitation, rejected>>
  BY DEF Begin, store
<1>2. /\ ~Busy(r) /\ call' = [call EXCEPT ![r] = d]
      /\ ~AtRest => rejected = {}
      /\ overlapped' = (overlapped \/ ~AtRest)
  BY DEF Begin
<1>3. call'[r] = d /\ \A q \in Requests : q # r => call'[q] = call[q]
  BY <1>2 DEF ParentInv
<1>4. call' \in [Requests -> CallRecord] /\ overlapped' \in BOOLEAN
  BY <1>2 DEF ParentInv, CallOK
<1>5. Alone'
  <2>1. rejected' # {} => ~overlapped'
    BY <1>1, <1>2 DEF ParentInv, Alone
  <2>2. ASSUME ~overlapped', NEW q \in Requests, NEW p \in Requests, Busy(q)', Busy(p)'
        PROVE  q = p
    <3>1. AtRest
      BY <1>2, <2>2
    <3>. QED
      BY <1>3, <2>2, <3>1 DEF AtRest, Busy
  <2>. QED
    BY <2>1, <2>2 DEF Alone
<1>6. StoreOK'
  <2>1. StoreTyped' /\ \A v \in UserIds : ~Used(v) => Blank(v)'
    BY <1>1 DEF ParentInv, StoreOK, StoreTyped, Blank
  <2>2. \A v \in UserIds : Anchored(v) => plan'[v] # None
    BY <1>1 DEF Anchored
  <2>. QED
    BY <1>1, <2>1, <2>2, UsersUntouched DEF ParentInv
<1>7. StoreKeeps
  BY <1>1 DEF StoreKeeps, Used, Live, Anchored, HasMembership, Here
<1>8. ASSUME NEW q \in Requests, q # r
      PROVE  CallOK(call[q])'
  <2>1. PICK c : c = call[q]
    OBVIOUS
  <2>2. CallOK(c)
    BY <2>1 DEF ParentInv
  <2>3. rejected # {} \/ ~overlapped' => c.pc = "idle"
    BY <1>2, <2>1 DEF AtRest, Busy
  <2>4. Sound(c)'
    BY <1>1, <1>2, <1>7, <2>2, <2>3, OthersKeep
  <2>. QED
    BY <1>3, <1>8, <2>1, <2>2, <2>4 DEF CallOK, Shape
<1>9. CallOK(call[r])'
  <2>1. Shape(call[r])' /\ call'[r] \in CallRecord
    BY <1>3 DEF CallOK, Shape
  <2>2. Sound(d)'
    <3>1. CASE d.pc \in UsesUser \cup UsesOther
      BY <1>1, <1>2, <3>1, ZenonT(60) DEF CallOK, Sound, Used, Live, AnchoredPath, Anchored,
         HasMembership, Here
    <3>2. CASE d.pc \notin UsesUser \cup UsesOther
      BY <3>2, CallsWithoutUsers
    <3>. QED
      BY <3>1, <3>2
  <2>. QED
    BY <1>3, <2>1, <2>2 DEF CallOK, Sound
<1>. QED
  BY <1>4, <1>5, <1>6, <1>8, <1>9 DEF ParentInv

\* The operations and first steps are among those of the types.
LEMMA OpsAre ==
    /\ {"register", "adminCreate", "accept", "invite", "revokeInvite", "subUser",
        "revokeSubUser", "identity", "update", "profile", "delete", "subscribe"}
       \subseteq Operations
    /\ {"createUser", "storeInvitation", "readInvitation", "findParent", "findSubUser",
        "byClerk", "readUser", "checkEmail", "dropUser", "writePlan"} \subseteq Pcs
BY PcsAre DEF Operations

\* Whoever is signed in has an account and an active membership.
LEMMA SignedInIsLive ==
    ASSUME NEW u, SignedIn(u)
    PROVE  Live(u) /\ Used(u) /\ HasMembership(u)
BY DEF SignedIn, HasMembership, Here, Live, Used

\* Each kind of request begins well formed: registrations,
LEMMA RegistrationsBegin ==
    ASSUME ParentInv, NEW r \in Requests, NEW e \in Emails,
           BeginRegister(r, e) \/ BeginAdminCreate(r, e)
    PROVE  ParentInv'
<1>1. PICK op \in {"register", "adminCreate"} :
         Begin(r, op, [IdleCall EXCEPT !.op = op, !.pc = "createUser", !.email = e])
  BY DEF BeginRegister, BeginAdminCreate
<1>2. PICK d : d = [IdleCall EXCEPT !.op = op, !.pc = "createUser", !.email = e]
  OBVIOUS
<1>3. d \in CallRecord /\ d.op = op /\ d.pc = "createUser"
  BY <1>2, OpsAre, IdleCallOK DEF CallOK, CallRecord, IdleCall
<1>4. CallOK(d)
  BY <1>1, <1>3 DEF CallOK, Shape, Sound
<1>. QED
  BY <1>1, <1>2, <1>4, BeginKeeps

\* invitations,
LEMMA InvitationsBegin ==
    ASSUME ParentInv, NEW r \in Requests, NEW k \in Invitations,
           \/ \E e \in Emails : BeginInvite(r, k, e)
           \/ BeginAccept(r, k) \/ BeginRevokeInvite(r, k)
    PROVE  ParentInv'
<1>1. ASSUME NEW e \in Emails, BeginInvite(r, k, e)
      PROVE  ParentInv'
  <2>1. PICK d : d = [IdleCall EXCEPT !.op = "invite", !.pc = "storeInvitation",
                                      !.email = e, !.invitation = k]
    OBVIOUS
  <2>2. d \in CallRecord /\ d.op = "invite" /\ d.pc = "storeInvitation" /\ d.invitation = k
    BY <2>1, OpsAre, IdleCallOK DEF CallOK, CallRecord, IdleCall
  <2>3. CallOK(d)
    BY <2>2 DEF CallOK, Shape, Sound
  <2>. QED
    BY <1>1, <2>1, <2>3, BeginKeeps DEF BeginInvite
<1>2. ASSUME BeginAccept(r, k) \/ BeginRevokeInvite(r, k)
      PROVE  ParentInv'
  <2>1. PICK op \in {"accept", "revokeInvite"} :
           Begin(r, op, [IdleCall EXCEPT !.op = op, !.pc = "readInvitation",
                                         !.invitation = k])
    BY <1>2 DEF BeginAccept, BeginRevokeInvite
  <2>2. PICK d : d = [IdleCall EXCEPT !.op = op, !.pc = "readInvitation", !.invitation = k]
    OBVIOUS
  <2>3. d \in CallRecord /\ d.op = op /\ d.pc = "readInvitation" /\ d.invitation = k
    BY <2>2, OpsAre, IdleCallOK DEF CallOK, CallRecord, IdleCall
  <2>4. CallOK(d)
    BY <2>1, <2>3 DEF CallOK, Shape, Sound
  <2>. QED
    BY <2>1, <2>2, <2>4, BeginKeeps
<1>. QED
  BY <1>1, <1>2

\* sub-users made and revoked,
LEMMA SubUsersBegin ==
    ASSUME ParentInv, NEW r \in Requests, NEW p \in UserIds,
           \/ \E e \in Emails : BeginSubUser(r, p, e)
           \/ \E u \in UserIds : Live(u) /\ BeginRevokeSubUser(r, p, u)
    PROVE  ParentInv'
<1>1. ASSUME NEW e \in Emails, BeginSubUser(r, p, e)
      PROVE  ParentInv'
  <2>1. PICK d : d = [IdleCall EXCEPT !.op = "subUser", !.pc = "findParent",
                                      !.user = p, !.email = e]
    OBVIOUS
  <2>2. d \in CallRecord /\ d.op = "subUser" /\ d.pc = "findParent" /\ d.user = p
    BY <2>1, OpsAre, IdleCallOK DEF CallOK, CallRecord, IdleCall
  <2>3. Used(p) /\ HasMembership(p)
    BY <1>1, SignedInIsLive DEF BeginSubUser
  <2>4. CallOK(d)
    BY <2>2, <2>3 DEF CallOK, Shape, Sound
  <2>. QED
    BY <1>1, <2>1, <2>4, BeginKeeps DEF BeginSubUser
<1>2. ASSUME NEW u \in UserIds, Live(u), BeginRevokeSubUser(r, p, u)
      PROVE  ParentInv'
  <2>1. PICK d : d = [IdleCall EXCEPT !.op = "revokeSubUser", !.pc = "findSubUser",
                                      !.user = p, !.other = u]
    OBVIOUS
  <2>2. /\ d \in CallRecord /\ d.op = "revokeSubUser" /\ d.pc = "findSubUser"
        /\ d.user = p /\ d.other = u
    BY <2>1, OpsAre, IdleCallOK DEF CallOK, CallRecord, IdleCall
  <2>3. Used(p) /\ Used(u)
    BY <1>2, SignedInIsLive DEF BeginRevokeSubUser, Live, Used
  <2>4. CallOK(d)
    BY <2>2, <2>3 DEF CallOK, Shape, Sound
  <2>. QED
    BY <1>2, <2>1, <2>4, BeginKeeps DEF BeginRevokeSubUser
<1>. QED
  BY <1>1, <1>2

\* Clerk identities,
LEMMA IdentitiesBegin ==
    ASSUME ParentInv, NEW r \in Requests, NEW e \in Emails, NEW s \in Subjects,
           BeginIdentity(r, s, e)
    PROVE  ParentInv'
<1>1. PICK d : d = [IdleCall EXCEPT !.op = "identity", !.pc = "byClerk",
                                    !.subject = s, !.email = e]
  OBVIOUS
<1>2. d \in CallRecord /\ d.op = "identity" /\ d.pc = "byClerk" /\ d.subject = s
  BY <1>1, OpsAre, IdleCallOK DEF CallOK, CallRecord, IdleCall
<1>3. CallOK(d)
  BY <1>2, NoneAssumption DEF CallOK, Shape, Sound
<1>. QED
  BY <1>1, <1>3, BeginKeeps DEF BeginIdentity

\* updates, profiles, deletions and subscriptions.
LEMMA UpdatesBegin ==
    ASSUME ParentInv, NEW r \in Requests, NEW u \in UserIds,
           \/ \E s \in {"active", "disabled", "keep"} : Live(u) /\ BeginUpdate(r, u, s)
           \/ \E e \in Emails : BeginProfile(r, u, e)
           \/ Live(u) /\ BeginDelete(r, u)
           \/ Live(u) /\ BeginSubscribe(r, u)
    PROVE  ParentInv'
<1>1. Used(u)
  BY SignedInIsLive DEF BeginProfile, Live, Used
<1>2. ASSUME NEW s \in {"active", "disabled", "keep"}, BeginUpdate(r, u, s)
      PROVE  ParentInv'
  <2>1. PICK d : d = [IdleCall EXCEPT !.op = "update", !.pc = "readUser",
                                      !.other = u, !.input = s]
    OBVIOUS
  <2>2. /\ d \in CallRecord /\ d.op = "update" /\ d.pc = "readUser"
        /\ d.other = u /\ d.input = s
    BY <2>1, OpsAre, IdleCallOK DEF CallOK, CallRecord, IdleCall
  <2>3. CallOK(d)
    BY <1>1, <2>2 DEF CallOK, Shape, Sound
  <2>. QED
    BY <1>2, <2>1, <2>3, BeginKeeps DEF BeginUpdate
<1>3. ASSUME NEW e \in Emails, BeginProfile(r, u, e)
      PROVE  ParentInv'
  <2>1. PICK d : d = [IdleCall EXCEPT !.op = "profile", !.pc = "checkEmail",
                                      !.other = u, !.email = e]
    OBVIOUS
  <2>2. d \in CallRecord /\ d.op = "profile" /\ d.pc = "checkEmail" /\ d.other = u
    BY <2>1, OpsAre, IdleCallOK DEF CallOK, CallRecord, IdleCall
  <2>3. CallOK(d)
    BY <1>1, <2>2 DEF CallOK, Shape, Sound
  <2>. QED
    BY <1>3, <2>1, <2>3, BeginKeeps DEF BeginProfile
<1>4. ASSUME BeginDelete(r, u)
      PROVE  ParentInv'
  <2>1. PICK d : d = [IdleCall EXCEPT !.op = "delete", !.pc = "dropUser", !.user = u]
    OBVIOUS
  <2>2. d \in CallRecord /\ d.op = "delete" /\ d.pc = "dropUser" /\ d.user = u
    BY <2>1, OpsAre, IdleCallOK DEF CallOK, CallRecord, IdleCall
  <2>3. CallOK(d)
    BY <1>1, <2>2 DEF CallOK, Shape, Sound
  <2>. QED
    BY <1>4, <2>1, <2>3, BeginKeeps DEF BeginDelete
<1>5. ASSUME BeginSubscribe(r, u)
      PROVE  ParentInv'
  <2>1. PICK d : d = [IdleCall EXCEPT !.op = "subscribe", !.pc = "writePlan", !.user = u]
    OBVIOUS
  <2>2. d \in CallRecord /\ d.op = "subscribe" /\ d.pc = "writePlan" /\ d.user = u
    BY <2>1, OpsAre, IdleCallOK DEF CallOK, CallRecord, IdleCall
  <2>3. CallOK(d)
    BY <1>1, <2>2 DEF CallOK, Shape, Sound
  <2>. QED
    BY <1>5, <2>1, <2>3, BeginKeeps DEF BeginSubscribe
<1>. QED
  BY <1>2, <1>3, <1>4, <1>5

LEMMA BeginAnyKeeps ==
    ASSUME ParentInv, NEW r \in Requests, BeginAny(r)
    PROVE  ParentInv'
<1>1. CASE \E e \in Emails : BeginRegister(r, e) \/ BeginAdminCreate(r, e)
  BY <1>1, RegistrationsBegin
<1>2. CASE \E e \in Emails, p \in UserIds : BeginSubUser(r, p, e) \/ BeginProfile(r, p, e)
  BY <1>2, SubUsersBegin, UpdatesBegin
<1>3. CASE \E e \in Emails, s \in Subjects : BeginIdentity(r, s, e)
  BY <1>3, IdentitiesBegin
<1>4. CASE \E e \in Emails, k \in Invitations : BeginInvite(r, k, e)
  BY <1>4, InvitationsBegin
<1>5. CASE \E k \in Invitations : BeginAccept(r, k) \/ BeginRevokeInvite(r, k)
  BY <1>5, InvitationsBegin
<1>6. CASE \E u \in UserIds : \/ Live(u) /\ BeginDelete(r, u)
                              \/ \E p \in UserIds : Live(u) /\ BeginRevokeSubUser(r, p, u)
                              \/ \E s \in {"active", "disabled", "keep"} :
                                    Live(u) /\ BeginUpdate(r, u, s)
                              \/ Live(u) /\ BeginSubscribe(r, u)
  BY <1>6, SubUsersBegin, UpdatesBegin
<1>. QED
  BY <1>1, <1>2, <1>3, <1>4, <1>5, <1>6 DEF BeginAny

-----------------------------------------------------------------------------
(* Parents exist *)

\* The accounts to start with are sound.
LEMMA StartIsSound == Init => ParentInv
<1>. SUFFICES ASSUME Init PROVE ParentInv
  OBVIOUS
<1>. DEFINE start == DOMAIN StartUsers
<1>1. /\ start \subseteq UserIds /\ DOMAIN StartPlans = start
      /\ \A u \in start : /\ StartUsers[u] \in UserRow /\ StartUsers[u].state = "live"
                          /\ StartPlans[u] \in Plans \cup {None}
  <2>1. /\ StartUsers \in Seq({row \in UserRow : row.state = "live"})
        /\ StartPlans \in Seq(Plans \cup {None}) /\ Len(StartPlans) = Len(StartUsers)
    BY StartAssumption
  <2>2. Len(StartUsers) <= MaxUsers
    BY <2>1, BoundAssumption
  <2>. QED
    BY <2>1, <2>2, BoundAssumption DEF UserIds
<1>2. /\ users = [u \in UserIds |-> IF u \in start THEN StartUsers[u] ELSE NoUser]
      /\ member = [u \in UserIds |->
                        IF u \in start /\ StartUsers[u].home = "here"
                        THEN [status |-> "active", path |-> StartUsers[u].path]
                        ELSE None]
      /\ plan = [u \in UserIds |-> IF u \in start THEN StartPlans[u] ELSE None]
      /\ entitled = {u \in start : StartPlans[u] # None}
      /\ invitation = [k \in Invitations |-> NoInvitation]
      /\ call = [r \in Requests |-> IdleCall]
      /\ rejected = {} /\ overlapped = FALSE
  BY DEF Init
<1>3. NoUser \in UserRow /\ NoUser.state = "unused" /\ NoUser.path = <<>>
  <2>1. <<>> \in Seq(UserIds)
    OBVIOUS
  <2>. QED
    BY <2>1 DEF NoUser, UserRow
<1>4. StoreTyped
  <2>1. users \in [UserIds -> UserRow]
    BY <1>1, <1>2, <1>3
  <2>2. \A u \in start : [status |-> "active", path |-> StartUsers[u].path] \in MemberRow
    BY <1>1 DEF UserRow, MemberRow
  <2>3. member \in [UserIds -> MemberRow \cup {None}]
    BY <1>2, <2>2
  <2>4. plan \in [UserIds -> Plans \cup {None, Ended}] /\ entitled \subseteq UserIds
    BY <1>1, <1>2
  <2>5. invitation \in [Invitations -> InvitationRow]
    BY <1>2 DEF NoInvitation, InvitationRow
  <2>. QED
    BY <2>1, <2>3, <2>4, <2>5 DEF StoreTyped
<1>5. \A u \in UserIds : ~Used(u) => Blank(u)
  BY <1>1, <1>2 DEF Used, Blank
<1>6. ASSUME NEW u \in UserIds, NEW i \in DOMAIN users[u].path
      PROVE  Anchored(users[u].path[i])
  <2>1. u \in start /\ users[u] = StartUsers[u]
    BY <1>2, <1>3, <1>6
  <2>2. PICK a : a = StartUsers[u].path[i]
    OBVIOUS
  <2>3. a \in start /\ StartUsers[a].home = "here" /\ StartPlans[a] # None
    BY <1>6, <2>1, <2>2, StartAssumption
  <2>4. PICK row \in MemberRow : row = [status |-> "active", path |-> StartUsers[a].path]
    BY <1>1, <2>3 DEF UserRow, MemberRow
  <2>5. row # None /\ row.status = "active"
    BY <2>4, MemberAssumption
  <2>6. /\ users[a] = StartUsers[a] /\ plan[a] = StartPlans[a] /\ member[a] = row
    BY <1>1, <1>2, <2>3, <2>4
  <2>. QED
    BY <1>1, <2>1, <2>2, <2>3, <2>5, <2>6 DEF Anchored, HasMembership, Here, Live
<1>7. Alone
  BY <1>2 DEF Alone, Busy, IdleCall
<1>8. call \in [Requests -> CallRecord] /\ \A r \in Requests : CallOK(call[r])
  BY <1>2, IdleCallOK DEF CallOK
<1>. QED
  BY <1>2, <1>4, <1>5, <1>6, <1>7, <1>8 DEF ParentInv, StoreOK, AnchoredPath

\* Every step keeps ParentInv.
LEMMA ParentStep == ParentInv /\ [Next]_vars => ParentInv'
<1>. SUFFICES ASSUME ParentInv, [Next]_vars PROVE ParentInv'
  OBVIOUS
<1>1. ASSUME NEW r \in Requests, Registration(r)
      PROVE  ParentInv'
  BY <1>1, CreateUserKeeps, CreatePurchaseKeeps, GrantKeeps, EnrichKeeps,
     ProvisionUserKeeps, ProvisionKeeps, RereadKeeps, DropEntitlementsKeeps,
     DropPurchasesKeeps, DropUserKeeps DEF Registration
<1>2. ASSUME NEW r \in Requests, SubUsers(r)
      PROVE  ParentInv'
  BY <1>2, FindParentKeeps, FindPlanKeeps, CountDescendantsKeeps, FindEmailKeeps,
     LinkKeeps, InsertSubUserKeeps, SyncUsersKeeps, SyncParentKeeps, SyncMemberKeeps,
     SyncUpdateKeeps, SyncCreateKeeps, SyncRacedKeeps, UndoLinkKeeps, UndoInsertKeeps,
     FindSubUserKeeps, CountChildrenKeeps, DetachKeeps, DetachReadKeeps,
     DetachWriteKeeps, UndoRevokeKeeps DEF SubUsers
<1>3. ASSUME NEW r \in Requests, InvitationsAndIdentities(r)
      PROVE  ParentInv'
  BY <1>3, StoreInvitationKeeps, ReadInvitationKeeps, MarksKeep, ByClerkKeeps,
     ByEmailKeeps, CheckMemberKeeps, LinkSubjectKeeps, GateKeeps, JitCreateKeeps
     DEF InvitationsAndIdentities
<1>4. ASSUME NEW r \in Requests,
             \/ BeginAny(r) \/ ReadUser(r) \/ WriteUser(r) \/ CheckEmail(r)
             \/ WritePlan(r) \/ Fail(r)
      PROVE  ParentInv'
  BY <1>4, BeginAnyKeeps, ReadUserKeeps, WriteUserKeeps, CheckEmailKeeps, WritePlanKeeps,
     FailKeeps
<1>5. ASSUME NEW k \in Invitations, Lapse(k)
      PROVE  ParentInv'
  BY <1>5, LapseKeeps
<1>6. CASE UNCHANGED vars
  <2>1. /\ UNCHANGED <<users, member, plan, entitled, invitation>>
        /\ UNCHANGED <<call, rejected, overlapped>>
    BY <1>6 DEF vars, store, history
  <2>2. StoreOK'
    BY <2>1 DEF ParentInv, StoreOK, StoreTyped, Used, Blank, AnchoredPath, Anchored,
       HasMembership, Here, Live
  <2>3. \A r \in Requests : CallOK(call[r])'
    BY <2>1 DEF ParentInv, CallOK, Shape, Sound, Used, Live, AnchoredPath, Anchored,
       HasMembership, Here
  <2>. QED
    BY <2>1, <2>2, <2>3 DEF ParentInv, Alone, Busy
<1>. QED
  BY <1>1, <1>2, <1>3, <1>4, <1>5, <1>6 DEF Next

\* Accounts, memberships and requests are well formed, and every ancestor has a
\* plan, for which userRepository.delete is restricted, whatever overlaps.
THEOREM AccountsAreSound == Spec => []ParentInv
<1>. QED
  BY StartIsSound, ParentStep, PTL DEF Spec

\* The parent of every sub-user, and the account it inherits features from,
\* still exist, whatever overlaps (createSubUser, rollbackRegistration and
\* userRepository.delete).
THEOREM ParentsExist == Spec => []ParentExists
<1>1. ASSUME ParentInv
      PROVE  ParentExists
  <2>. SUFFICES ASSUME NEW u \in UserIds, Live(u)
                PROVE  /\ users[u].path # <<>> => Live(ParentOf(users[u].path))
                       /\ \A v \in FeatureSources(u) : Live(v)
    BY DEF ParentExists
  <2>1. PICK path \in Seq(UserIds) : path = users[u].path /\ AnchoredPath(path)
    BY <1>1, RowsTyped DEF ParentInv, StoreOK, UserRow
  <2>2. path # <<>> => 1 \in DOMAIN path /\ Len(path) \in DOMAIN path
    BY <2>1
  <2>3. path # <<>> => Live(path[1]) /\ Live(path[Len(path)])
    BY <2>1, <2>2 DEF AnchoredPath, Anchored, HasMembership, Here
  <2>4. path # <<>> => Head(path) = path[1] /\ Last(path) = path[Len(path)]
    BY <2>1 DEF Last
  <2>. QED
    BY <2>1, <2>3, <2>4 DEF ParentOf, FeatureSources, Root
<1>. QED
  BY <1>1, AccountsAreSound, PTL

-----------------------------------------------------------------------------
(* Requests made one after the other *)

\* XSerial: step X keeps SerialInv, by establishing the facts of the step after it.

\* A request in progress is the only one.
LEMMA SoleActor ==
    ASSUME SerialInv, ~overlapped, NEW r \in Requests, Busy(r)
    PROVE  Facts(call[r]) /\ \A q \in Requests \ {r} : call[q] = IdleCall
<1>1. PICK s \in Requests : /\ \A q \in Requests \ {s} : call[q] = IdleCall
                            /\ Facts(call[s])
  BY DEF SerialInv
<1>2. s = r
  BY <1>1 DEF Busy, IdleCall
<1>. QED
  BY <1>1, <1>2

\* A step of the request in progress: its facts hold of what it becomes.
LEMMA SoleStep ==
    ASSUME ParentInv, SerialInv, ~overlapped, NEW r \in Requests, Busy(r),
           NEW d, call' = [call EXCEPT ![r] = d], Facts(d)'
    PROVE  SerialInv'
<1>1. \A q \in Requests \ {r} : call[q] = IdleCall
  BY SoleActor
<1>2. call'[r] = d /\ \A q \in Requests \ {r} : call'[q] = IdleCall
  BY <1>1 DEF ParentInv
<1>. QED
  BY <1>2 DEF SerialInv

\* What a request knows depends on the store and on what was rejected only.
LEMMA FactsStay ==
    ASSUME UNCHANGED <<store, rejected>>, NEW d, Facts(d)
    PROVE  Facts(d)'
<1>0. UNCHANGED <<users, member, plan, entitled, invitation, rejected>>
  BY DEF store
<1>1. \A u : Descendants(u)' = Descendants(u)
  BY <1>0 DEF Descendants, Here, Live
<1>2. \A e : Taken(e)' = Taken(e)
  BY <1>0 DEF Taken, WithEmail, Live
<1>3. Attached(d)' /\ Detached(d)' /\ Agreed(d)'
  BY <1>0 DEF Facts, Attached, Detached, Agreed, Changing, Clean, Live, Here, Blank
<1>4. Registered(d)' /\ Whole(d)'
  BY <1>0 DEF Facts, Registered, NewAccount, Whole, Making, Half, Explained, Here, Live
<1>5. Counted(d)'
  BY <1>0, <1>1 DEF Facts, Counted, Adding
<1>6. Settling(d)'
  BY <1>0, <1>2 DEF Facts, Settling, Live
<1>. QED
  BY <1>3, <1>4, <1>5, <1>6 DEF Facts

\* A step that writes nothing has to establish the facts of the next one.
LEMMA SoleRead ==
    ASSUME ParentInv, SerialInv, ~overlapped, NEW r \in Requests, Busy(r),
           UNCHANGED <<store, history>>,
           NEW d, call' = [call EXCEPT ![r] = d], Facts(d)
    PROVE  SerialInv'
<1>1. UNCHANGED <<store, rejected>>
  BY DEF history
<1>. QED
  BY <1>1, FactsStay, SoleStep

\* A request in the middle of nothing may be forgotten.
LEMMA IdleFacts ==
    ASSUME NEW c, Facts(c), c.pc \notin Attaching \cup Releasing, ~NewAccount(c)
    PROVE  Facts(IdleCall)
<1>1. IdleCall.pc = "idle" /\ IdleCall.invitation = 0
  BY DEF IdleCall
<1>2. Facts(IdleCall)
  <2>1. Attached(IdleCall)
    BY <1>1 DEF Facts, Attached
  <2>2. Detached(IdleCall)
    BY <1>1 DEF Facts, Detached
  <2>3. Agreed(IdleCall)
    BY <1>1 DEF Facts, Agreed, Changing
  <2>4. Registered(IdleCall)
    BY <1>1 DEF Facts, Registered, NewAccount
  <2>5. Whole(IdleCall)
    BY <1>1 DEF Facts, Whole, Making, NewAccount
  <2>6. Counted(IdleCall)
    BY <1>1 DEF Facts, Counted, Adding
  <2>7. Settling(IdleCall)
    BY <1>1 DEF Facts, Settling
  <2>. QED
    BY <2>1, <2>2, <2>3, <2>4, <2>5, <2>6, <2>7 DEF Facts
<1>. QED
  BY <1>2

\* Such a request may be answered.
LEMMA SoleFinish ==
    ASSUME ParentInv, SerialInv, ~overlapped, NEW r \in Requests, Busy(r),
           UNCHANGED <<store, history>>, Finish(r),
           NEW c, c = call[r], Facts(c),
           c.pc \notin Attaching \cup Releasing, ~NewAccount(c)
    PROVE  SerialInv'
BY IdleFacts, SoleRead DEF Finish

LEMMA FindParentSerial ==
    ASSUME ParentInv, SerialInv, NEW r \in Requests, FindParent(r)
    PROVE  SerialInv'
<1>. SUFFICES ASSUME ~overlapped PROVE SerialInv'
  BY DEF FindParent, SerialInv, history
<1>c. PICK c : c = call[r]
  OBVIOUS
<1>0. Busy(r) /\ c.pc = "findParent" /\ UNCHANGED <<store, history>>
  BY <1>c DEF FindParent, Busy, At
<1>1. CallOK(c) /\ Facts(c)
  BY <1>0, <1>c, SoleActor DEF ParentInv
<1>2. CASE Here(c.user)
  <2>1. PICK d : d = [c EXCEPT !.path = users[c.user].path, !.pc = "findPlan"]
    OBVIOUS
  <2>2. /\ d.pc = "findPlan" /\ d.op = c.op /\ d.user = c.user
        /\ d.other = c.other /\ d.email = c.email /\ d.subject = c.subject
        /\ d.path = users[c.user].path /\ d.invitation = c.invitation /\ d.known = c.known
    BY <1>1, <2>1 DEF CallOK, CallRecord
  <2>3. Facts(d)
    <3>1. Attached(d) /\ Detached(d)
      BY <1>0, <1>1, <2>2 DEF Facts, Attached, Detached
    <3>2. Agreed(d) /\ Registered(d) /\ Whole(d)
      BY <1>0, <1>1, <2>2 DEF Facts, Agreed, Changing, Registered, NewAccount, Whole, Making
    <3>3. Counted(d) /\ Settling(d)
      BY <1>0, <1>1, <2>2 DEF Facts, Counted, Adding, Settling
    <3>. QED
      BY <3>1, <3>2, <3>3 DEF Facts
  <2>. QED
    BY <1>0, <1>c, <1>1, <1>2, <2>1, <2>3, SoleRead DEF FindParent, ParentInv
<1>3. CASE ~Here(c.user)
  BY <1>0, <1>c, <1>1, <1>3, SoleFinish DEF FindParent, NewAccount
<1>. QED
  BY <1>2, <1>3

\* The creator is still within its plan when its sub-users are counted.
LEMMA FindPlanSerial ==
    ASSUME ParentInv, SerialInv, NEW r \in Requests, FindPlan(r)
    PROVE  SerialInv'
<1>. SUFFICES ASSUME ~overlapped PROVE SerialInv'
  BY DEF FindPlan, SerialInv, history
<1>c. PICK c : c = call[r]
  OBVIOUS
<1>0. Busy(r) /\ c.pc = "findPlan" /\ UNCHANGED <<store, history>>
  BY <1>c DEF FindPlan, Busy, At
<1>1. CallOK(c) /\ Facts(c)
  BY <1>0, <1>c, SoleActor DEF ParentInv
<1>2. CASE MayHaveSubUsers(plan[c.user], c.path)
  <2>0. PICK pc : pc = IF MaxSubUsers[plan[c.user]] > 0 THEN "countDescendants" ELSE "findEmail"
    OBVIOUS
  <2>1. /\ plan[c.user] \in Plans /\ MaxSubUsers[plan[c.user]] \in Int
        /\ MaxSubUsers[plan[c.user]] # 0
    BY <1>0, <1>1, <1>2, PlanAssumption DEF MayHaveSubUsers, CallOK, Shape, ParentInv, StoreOK, StoreTyped
  <2>2. PICK d : d = [c EXCEPT !.limit = MaxSubUsers[plan[c.user]], !.pc = pc]
    OBVIOUS
  <2>3. /\ d.pc = pc /\ d.limit = MaxSubUsers[plan[c.user]] /\ d.op = c.op /\ d.user = c.user
        /\ d.other = c.other /\ d.email = c.email /\ d.subject = c.subject
        /\ d.path = c.path /\ d.invitation = c.invitation /\ d.known = c.known
    BY <1>1, <2>2 DEF CallOK, CallRecord
  <2>4. Facts(d)
    <3>1. Attached(d)
      BY <1>0, <1>1, <2>0, <2>1, <2>3 DEF Facts, Attached
    <3>2. Detached(d)
      BY <1>0, <1>1, <2>0, <2>1, <2>3 DEF Facts, Detached
    <3>3. Agreed(d)
      BY <1>0, <1>1, <2>0, <2>1, <2>3 DEF Facts, Agreed, Changing
    <3>4. Registered(d)
      BY <1>0, <1>1, <2>0, <2>1, <2>3 DEF Facts, Registered, NewAccount
    <3>5. Whole(d)
      BY <1>0, <1>1, <2>0, <2>1, <2>3 DEF Facts, Whole, Making, NewAccount
    <3>6. Counted(d)
      BY <2>0, <2>1, <2>3 DEF Counted, Adding
    <3>7. Settling(d)
      BY <1>0, <1>1, <2>0, <2>1, <2>3 DEF Facts, Settling
    <3>. QED
      BY <3>1, <3>2, <3>3, <3>4, <3>5, <3>6, <3>7 DEF Facts
  <2>. QED
    <3>1. call' = [call EXCEPT ![r] = d]
      BY <1>c, <1>2, <2>0, <2>2 DEF FindPlan, ParentInv
    <3>. QED
      BY <1>0, <2>4, <3>1, SoleRead
<1>3. CASE ~MayHaveSubUsers(plan[c.user], c.path)
  BY <1>0, <1>c, <1>1, <1>3, SoleFinish DEF FindPlan, NewAccount
<1>. QED
  BY <1>2, <1>3

\* Descendants can be counted.
LEMMA DescendantsAreFinite ==
    ASSUME NEW u
    PROVE  IsFiniteSet(Descendants(u)) /\ Cardinality(Descendants(u)) \in Nat
<1>1. IsFiniteSet(UserIds)
  BY FS_Interval, BoundAssumption DEF UserIds
<1>2. Descendants(u) \subseteq UserIds
  BY DEF Descendants
<1>. QED
  BY <1>1, <1>2, FS_Subset, FS_CardinalityType

\* Below the limit there is room for one more.
LEMMA CountDescendantsSerial ==
    ASSUME ParentInv, SerialInv, NEW r \in Requests, CountDescendants(r)
    PROVE  SerialInv'
<1>. SUFFICES ASSUME ~overlapped PROVE SerialInv'
  BY DEF CountDescendants, SerialInv, history
<1>c. PICK c : c = call[r]
  OBVIOUS
<1>0. Busy(r) /\ c.pc = "countDescendants" /\ UNCHANGED <<store, history>>
  BY <1>c DEF CountDescendants, Busy, At
<1>1. CallOK(c) /\ Facts(c)
  BY <1>0, <1>c, SoleActor DEF ParentInv
<1>i. c.limit \in Int
  BY <1>1 DEF CallOK, CallRecord
<1>2. CASE Cardinality(Descendants(c.user)) < c.limit
  <2>1. PICK d : d = [c EXCEPT !.pc = "findEmail"]
    OBVIOUS
  <2>2. /\ d.pc = "findEmail" /\ d.op = c.op /\ d.user = c.user /\ d.limit = c.limit
        /\ d.other = c.other /\ d.email = c.email /\ d.subject = c.subject
        /\ d.path = c.path /\ d.invitation = c.invitation /\ d.known = c.known
    BY <1>1, <2>1 DEF CallOK, CallRecord
  <2>3. Goto(r, "findEmail")
    BY <1>c, <1>2, <1>i, DescendantsAreFinite DEF CountDescendants
  <2>4. call' = [call EXCEPT ![r] = d]
    BY <1>c, <2>1, <2>3 DEF Goto, ParentInv
  <2>5. Facts(d)
    <3>1. Attached(d) /\ Detached(d)
      BY <1>0, <1>1, <2>2 DEF Facts, Attached, Detached
    <3>2. Agreed(d) /\ Registered(d) /\ Whole(d)
      BY <1>0, <1>1, <2>2 DEF Facts, Agreed, Changing, Registered, NewAccount, Whole, Making
    <3>3. Counted(d) /\ Settling(d)
      BY <1>0, <1>1, <1>2, <2>2 DEF Facts, Counted, Adding, Settling
    <3>. QED
      BY <3>1, <3>2, <3>3 DEF Facts
  <2>. QED
    BY <1>0, <2>4, <2>5, SoleRead
<1>3. CASE ~(Cardinality(Descendants(c.user)) < c.limit)
  <2>1. Finish(r)
    BY <1>c, <1>3, <1>i, DescendantsAreFinite DEF CountDescendants
  <2>. QED
    BY <1>0, <1>c, <1>1, <2>1, SoleFinish DEF NewAccount
<1>. QED
  BY <1>2, <1>3

\* A root account may be linked, an unknown email gets an account.
LEMMA FindEmailSerial ==
    ASSUME ParentInv, SerialInv, NEW r \in Requests, FindEmail(r)
    PROVE  SerialInv'
<1>. SUFFICES ASSUME ~overlapped PROVE SerialInv'
  BY DEF FindEmail, SerialInv, history
<1>c. PICK c : c = call[r]
  OBVIOUS
<1>0. Busy(r) /\ c.pc = "findEmail" /\ UNCHANGED <<store, history>>
  BY <1>c DEF FindEmail, Busy, At
<1>1. CallOK(c) /\ Facts(c)
  BY <1>0, <1>c, SoleActor DEF ParentInv
<1>. DEFINE found == WithEmail(c.email)
            u == CHOOSE x \in found : TRUE
<1>2. CASE found = {}
  <2>1. PICK d : d = [c EXCEPT !.pc = "insertSubUser"]
    OBVIOUS
  <2>2. /\ d.pc = "insertSubUser" /\ d.op = c.op /\ d.user = c.user /\ d.limit = c.limit
        /\ d.other = c.other /\ d.email = c.email /\ d.subject = c.subject
        /\ d.path = c.path /\ d.invitation = c.invitation /\ d.known = c.known
    BY <1>1, <2>1 DEF CallOK, CallRecord
  <2>3. Facts(d)
    <3>1. Attached(d) /\ Detached(d)
      BY <1>0, <1>1, <2>2 DEF Facts, Attached, Detached
    <3>2. Agreed(d) /\ Registered(d) /\ Whole(d)
      BY <1>0, <1>1, <2>2 DEF Facts, Agreed, Changing, Registered, NewAccount, Whole, Making
    <3>3. Counted(d) /\ Settling(d)
      BY <1>0, <1>1, <2>2 DEF Facts, Counted, Adding, Settling
    <3>. QED
      BY <3>1, <3>2, <3>3 DEF Facts
  <2>. QED
    BY <1>0, <1>c, <1>1, <1>2, <2>1, <2>3, SoleRead DEF FindEmail, Goto, ParentInv
<1>3. CASE found # {} /\ (users[u].home = "elsewhere" \/ users[u].path # <<>>)
  <2>1. Finish(r)
    BY <1>0, <1>c, <1>3 DEF FindEmail
  <2>. QED
    BY <1>0, <1>c, <1>1, <2>1, SoleFinish DEF NewAccount
<1>4. CASE found # {} /\ ~(users[u].home = "elsewhere" \/ users[u].path # <<>>)
  <2>0. Live(u) /\ users[u].path = <<>>
    BY <1>4 DEF WithEmail
  <2>10. PICK v : v = u
    OBVIOUS
  <2>1. PICK d : d = [c EXCEPT !.other = v, !.pc = "link"]
    OBVIOUS
  <2>2. /\ d.pc = "link" /\ d.op = c.op /\ d.user = c.user /\ d.limit = c.limit
        /\ d.other = v /\ d.email = c.email /\ d.subject = c.subject
        /\ d.path = c.path /\ d.invitation = c.invitation /\ d.known = c.known
    BY <1>1, <2>1 DEF CallOK, CallRecord
  <2>3. Facts(d)
    <3>1. Attached(d) /\ Detached(d)
      BY <1>0, <1>1, <2>0, <2>10, <2>2 DEF Facts, Attached, Detached
    <3>2. Agreed(d) /\ Registered(d) /\ Whole(d)
      BY <1>0, <1>1, <2>0, <2>10, <2>2 DEF Facts, Agreed, Changing, Registered, NewAccount, Whole, Making
    <3>3. Counted(d) /\ Settling(d)
      BY <1>0, <1>1, <2>0, <2>10, <2>2 DEF Facts, Counted, Adding, Settling
    <3>. QED
      BY <3>1, <3>2, <3>3 DEF Facts
  <2>4. call' = [call EXCEPT ![r] = d]
    BY <1>c, <1>4, <2>1, <2>10 DEF FindEmail, CallOK, CallRecord, ParentInv
  <2>. QED
    BY <1>0, <1>1, <2>4, <2>3, SoleRead
<1>. QED
  BY <1>2, <1>3, <1>4

\* What a compensation starts from.
LEMMA CompensateFacts ==
    ASSUME NEW c, CallOK(c), Facts(c), c.pc \in Syncing
    PROVE  Facts(Compensate(c))
<1>1. CallOK(c) /\ Facts(c)
  OBVIOUS
<1>2. PICK pc : pc = IF c.known THEN "undoLink" ELSE "undoInsert"
  OBVIOUS
<1>3. PICK d : d = [c EXCEPT !.pc = pc]
  OBVIOUS
<1>4. /\ d.pc = pc /\ d.op = c.op /\ d.user = c.user
      /\ d.other = c.other /\ d.email = c.email /\ d.subject = c.subject
      /\ d.path = c.path /\ d.invitation = c.invitation /\ d.known = c.known
  BY <1>1, <1>3 DEF CallOK, CallRecord
<1>5. Facts(d)
  <2>1. Attached(d) /\ Detached(d)
    BY <1>1, <1>2, <1>4 DEF Facts, Attached, Detached
  <2>2. Agreed(d) /\ Registered(d) /\ Whole(d)
    BY <1>1, <1>2, <1>4 DEF Facts, Agreed, Changing, Registered, NewAccount, Whole, Making
  <2>3. Counted(d) /\ Settling(d)
    BY <1>1, <1>2, <1>4 DEF Facts, Counted, Adding, Settling
  <2>. QED
    BY <2>1, <2>2, <2>3 DEF Facts
<1>. QED
  BY <1>2, <1>3, <1>5 DEF Compensate

\* Only a Clerk identity's account is left without a membership.
LEMMA UndoneFacts ==
    ASSUME NEW c, CallOK(c), Facts(c), c.pc \in Provisioning \cup {"provision"},
           rejected \cap {"provisionUser", "provision", "reread"} # {}
    PROVE  Facts(Undone(c))
<1>1. CallOK(c) /\ Facts(c) /\ NewAccount(c)
  BY DEF NewAccount
<1>2. CASE c.op = "identity"
  <2>1. IdleCall.pc = "idle" /\ IdleCall.invitation = 0
    BY DEF IdleCall
  <2>2. Facts(IdleCall)
    <3>1. Attached(IdleCall)
      BY <1>1, <1>2, <2>1 DEF Facts, Attached
    <3>2. Detached(IdleCall)
      BY <1>1, <1>2, <2>1 DEF Facts, Detached
    <3>3. Agreed(IdleCall)
      BY <1>1, <1>2, <2>1 DEF Facts, Agreed, Changing
    <3>4. Registered(IdleCall)
      BY <1>1, <1>2, <2>1 DEF Facts, Registered, NewAccount
    <3>5. Whole(IdleCall)
      BY <1>1, <1>2, <2>1 DEF Facts, Whole, Making, NewAccount, Registered, Explained
    <3>6. Counted(IdleCall)
      BY <1>1, <1>2, <2>1 DEF Facts, Counted, Adding
    <3>7. Settling(IdleCall)
      BY <1>1, <1>2, <2>1 DEF Facts, Settling
    <3>. QED
      BY <3>1, <3>2, <3>3, <3>4, <3>5, <3>6, <3>7 DEF Facts
  <2>. QED
    BY <1>2, <2>2 DEF Undone
<1>3. CASE c.op # "identity"
  <2>1. PICK d : d = [c EXCEPT !.pc = "dropEntitlements"]
    OBVIOUS
  <2>2. /\ d.pc = "dropEntitlements" /\ d.op = c.op /\ d.user = c.user
        /\ d.other = c.other /\ d.email = c.email /\ d.subject = c.subject
        /\ d.path = c.path /\ d.invitation = c.invitation /\ d.known = c.known
    BY <1>1, <2>1 DEF CallOK, CallRecord
  <2>3. Facts(d)
    <3>1. Attached(d) /\ Detached(d)
      BY <1>1, <1>3, <2>2 DEF Facts, Attached, Detached
    <3>2. Agreed(d) /\ Registered(d) /\ Whole(d)
      BY <1>1, <1>3, <2>2 DEF Facts, Agreed, Changing, Registered, NewAccount, Whole, Making
    <3>3. Counted(d) /\ Settling(d)
      BY <1>1, <1>3, <2>2 DEF Facts, Counted, Adding, Settling
    <3>. QED
      BY <3>1, <3>2, <3>3 DEF Facts
  <2>. QED
    BY <1>3, <2>1, <2>3 DEF Undone
<1>. QED
  BY <1>2, <1>3

LEMMA SyncUsersSerial ==
    ASSUME ParentInv, SerialInv, NEW r \in Requests, SyncUsers(r)
    PROVE  SerialInv'
<1>. SUFFICES ASSUME ~overlapped PROVE SerialInv'
  BY DEF SyncUsers, SerialInv, history
<1>c. PICK c : c = call[r]
  OBVIOUS
<1>0. Busy(r) /\ c.pc = "syncUsers" /\ UNCHANGED <<store, history>>
  BY <1>c DEF SyncUsers, Busy, At
<1>1. CallOK(c) /\ Facts(c)
  BY <1>0, <1>c, SoleActor DEF ParentInv
<1>2. CASE Here(c.user) /\ Here(c.other)
  <2>1. PICK d : d = [c EXCEPT !.pc = "syncParent", !.input = users[c.other].status]
    OBVIOUS
  <2>2. /\ d.pc = "syncParent" /\ d.op = c.op /\ d.user = c.user
        /\ d.other = c.other /\ d.email = c.email /\ d.subject = c.subject
        /\ d.path = c.path /\ d.invitation = c.invitation /\ d.known = c.known
    BY <1>1, <2>1 DEF CallOK, CallRecord
  <2>3. Facts(d)
    <3>1. Attached(d) /\ Detached(d)
      BY <1>0, <1>1, <2>2 DEF Facts, Attached, Detached
    <3>2. Agreed(d) /\ Registered(d) /\ Whole(d)
      BY <1>0, <1>1, <2>2 DEF Facts, Agreed, Changing, Registered, NewAccount, Whole, Making
    <3>3. Counted(d) /\ Settling(d)
      BY <1>0, <1>1, <2>2 DEF Facts, Counted, Adding, Settling
    <3>. QED
      BY <3>1, <3>2, <3>3 DEF Facts
  <2>. QED
    BY <1>0, <1>c, <1>1, <1>2, <2>1, <2>3, SoleRead DEF SyncUsers, ParentInv
<1>3. CASE ~(Here(c.user) /\ Here(c.other))
  BY <1>0, <1>c, <1>1, <1>3, CompensateFacts, SoleRead DEF SyncUsers
<1>. QED
  BY <1>2, <1>3

LEMMA SyncParentSerial ==
    ASSUME ParentInv, SerialInv, NEW r \in Requests, SyncParent(r)
    PROVE  SerialInv'
<1>. SUFFICES ASSUME ~overlapped PROVE SerialInv'
  BY DEF SyncParent, SerialInv, history
<1>c. PICK c : c = call[r]
  OBVIOUS
<1>0. Busy(r) /\ c.pc = "syncParent" /\ UNCHANGED <<store, history>>
  BY <1>c DEF SyncParent, Busy, At
<1>1. CallOK(c) /\ Facts(c)
  BY <1>0, <1>c, SoleActor DEF ParentInv
<1>2. CASE member[c.user] # None /\ member[c.user].status = "active"
  <2>1. PICK d : d = [c EXCEPT !.path = Append(member[c.user].path, c.user), !.pc = "syncMember"]
    OBVIOUS
  <2>2. /\ d.pc = "syncMember" /\ d.op = c.op /\ d.user = c.user
        /\ d.other = c.other /\ d.email = c.email /\ d.subject = c.subject
        /\ d.path = Append(member[c.user].path, c.user) /\ d.invitation = c.invitation /\ d.known = c.known
    BY <1>1, <2>1 DEF CallOK, CallRecord
  <2>3. Facts(d)
    <3>1. Attached(d) /\ Detached(d)
      BY <1>0, <1>1, <1>2, <2>2 DEF Facts, Attached, Detached
    <3>2. Agreed(d) /\ Registered(d) /\ Whole(d)
      BY <1>0, <1>1, <1>2, <2>2 DEF Facts, Agreed, Changing, Registered, NewAccount, Whole, Making
    <3>3. Counted(d) /\ Settling(d)
      BY <1>0, <1>1, <1>2, <2>2 DEF Facts, Counted, Adding, Settling
    <3>. QED
      BY <3>1, <3>2, <3>3 DEF Facts
  <2>. QED
    BY <1>0, <1>c, <1>1, <1>2, <2>1, <2>3, SoleRead DEF SyncParent, ParentInv
<1>3. CASE ~(member[c.user] # None /\ member[c.user].status = "active")
  BY <1>0, <1>c, <1>1, <1>3, CompensateFacts, SoleRead DEF SyncParent
<1>. QED
  BY <1>2, <1>3

LEMMA SyncMemberSerial ==
    ASSUME ParentInv, SerialInv, NEW r \in Requests, SyncMember(r)
    PROVE  SerialInv'
<1>. SUFFICES ASSUME ~overlapped PROVE SerialInv'
  BY DEF SyncMember, SerialInv, history
<1>c. PICK c : c = call[r]
  OBVIOUS
<1>0. Busy(r) /\ c.pc = "syncMember" /\ UNCHANGED <<store, history>>
  BY <1>c DEF SyncMember, Busy, At
<1>1. CallOK(c) /\ Facts(c)
  BY <1>0, <1>c, SoleActor DEF ParentInv
<1>2. PICK pc : pc = IF member[c.other] # None THEN "syncUpdate" ELSE "syncCreate"
  OBVIOUS
<1>3. PICK d : d = [c EXCEPT !.pc = pc]
  OBVIOUS
<1>4. /\ d.pc = pc /\ d.op = c.op /\ d.user = c.user
      /\ d.other = c.other /\ d.email = c.email /\ d.subject = c.subject
      /\ d.path = c.path /\ d.invitation = c.invitation /\ d.known = c.known
  BY <1>1, <1>3 DEF CallOK, CallRecord
<1>5. Facts(d)
  <2>1. Attached(d) /\ Detached(d)
    BY <1>0, <1>1, <1>2, <1>4 DEF Facts, Attached, Detached
  <2>2. Agreed(d) /\ Registered(d) /\ Whole(d)
    BY <1>0, <1>1, <1>2, <1>4 DEF Facts, Agreed, Changing, Registered, NewAccount, Whole, Making
  <2>3. Counted(d) /\ Settling(d)
    BY <1>0, <1>1, <1>2, <1>4 DEF Facts, Counted, Adding, Settling
  <2>. QED
    BY <2>1, <2>2, <2>3 DEF Facts
<1>. QED
  BY <1>0, <1>c, <1>2, <1>3, <1>5, SoleRead DEF SyncMember, Goto, ParentInv

LEMMA SyncRacedSerial ==
    ASSUME ParentInv, SerialInv, NEW r \in Requests, SyncRaced(r)
    PROVE  SerialInv'
<1>. SUFFICES ASSUME ~overlapped PROVE SerialInv'
  BY DEF SyncRaced, SerialInv, history
<1>c. PICK c : c = call[r]
  OBVIOUS
<1>0. Busy(r) /\ c.pc = "syncRaced" /\ UNCHANGED <<store, history>>
  BY <1>c DEF SyncRaced, Busy, At
<1>1. CallOK(c) /\ Facts(c)
  BY <1>0, <1>c, SoleActor DEF ParentInv
<1>2. CASE member[c.other] # None
  <2>1. PICK d : d = [c EXCEPT !.pc = "syncUpdate"]
    OBVIOUS
  <2>2. /\ d.pc = "syncUpdate" /\ d.op = c.op /\ d.user = c.user
        /\ d.other = c.other /\ d.email = c.email /\ d.subject = c.subject
        /\ d.path = c.path /\ d.invitation = c.invitation /\ d.known = c.known
    BY <1>1, <2>1 DEF CallOK, CallRecord
  <2>3. Facts(d)
    <3>1. Attached(d) /\ Detached(d)
      BY <1>0, <1>1, <2>2 DEF Facts, Attached, Detached
    <3>2. Agreed(d) /\ Registered(d) /\ Whole(d)
      BY <1>0, <1>1, <2>2 DEF Facts, Agreed, Changing, Registered, NewAccount, Whole, Making
    <3>3. Counted(d) /\ Settling(d)
      BY <1>0, <1>1, <2>2 DEF Facts, Counted, Adding, Settling
    <3>. QED
      BY <3>1, <3>2, <3>3 DEF Facts
  <2>. QED
    BY <1>0, <1>c, <1>1, <1>2, <2>1, <2>3, SoleRead DEF SyncRaced, Goto, ParentInv
<1>3. CASE member[c.other] = None
  BY <1>0, <1>c, <1>1, <1>3, CompensateFacts, SoleRead DEF SyncRaced
<1>. QED
  BY <1>2, <1>3

LEMMA FindSubUserSerial ==
    ASSUME ParentInv, SerialInv, NEW r \in Requests, FindSubUser(r)
    PROVE  SerialInv'
<1>. SUFFICES ASSUME ~overlapped PROVE SerialInv'
  BY DEF FindSubUser, SerialInv, history
<1>c. PICK c : c = call[r]
  OBVIOUS
<1>0. Busy(r) /\ c.pc = "findSubUser" /\ UNCHANGED <<store, history>>
  BY <1>c DEF FindSubUser, Busy, At
<1>1. CallOK(c) /\ Facts(c)
  BY <1>0, <1>c, SoleActor DEF ParentInv
<1>2. CASE Here(c.other) /\ ParentOf(users[c.other].path) = c.user
  <2>1. PICK d : d = [c EXCEPT !.path = users[c.other].path, !.pc = "countChildren"]
    OBVIOUS
  <2>2. /\ d.pc = "countChildren" /\ d.op = c.op /\ d.user = c.user
        /\ d.other = c.other /\ d.email = c.email /\ d.subject = c.subject
        /\ d.path = users[c.other].path /\ d.invitation = c.invitation /\ d.known = c.known
    BY <1>1, <2>1 DEF CallOK, CallRecord
  <2>3. Facts(d)
    <3>1. Attached(d) /\ Detached(d)
      BY <1>0, <1>1, <1>2, <2>2 DEF Facts, Attached, Detached
    <3>2. Agreed(d) /\ Registered(d) /\ Whole(d)
      BY <1>0, <1>1, <1>2, <2>2 DEF Facts, Agreed, Changing, Registered, NewAccount, Whole, Making
    <3>3. Counted(d) /\ Settling(d)
      BY <1>0, <1>1, <1>2, <2>2 DEF Facts, Counted, Adding, Settling
    <3>. QED
      BY <3>1, <3>2, <3>3 DEF Facts
  <2>. QED
    BY <1>0, <1>c, <1>1, <1>2, <2>1, <2>3, SoleRead DEF FindSubUser, ParentInv
<1>3. CASE ~(Here(c.other) /\ ParentOf(users[c.other].path) = c.user)
  BY <1>0, <1>c, <1>1, <1>3, SoleFinish DEF FindSubUser, NewAccount
<1>. QED
  BY <1>2, <1>3

LEMMA CountChildrenSerial ==
    ASSUME ParentInv, SerialInv, NEW r \in Requests, CountChildren(r)
    PROVE  SerialInv'
<1>. SUFFICES ASSUME ~overlapped PROVE SerialInv'
  BY DEF CountChildren, SerialInv, history
<1>c. PICK c : c = call[r]
  OBVIOUS
<1>0. Busy(r) /\ c.pc = "countChildren" /\ UNCHANGED <<store, history>>
  BY <1>c DEF CountChildren, Busy, At
<1>1. CallOK(c) /\ Facts(c)
  BY <1>0, <1>c, SoleActor DEF ParentInv
<1>2. CASE Children(c.other) = {}
  <2>1. PICK d : d = [c EXCEPT !.pc = "detach"]
    OBVIOUS
  <2>2. /\ d.pc = "detach" /\ d.op = c.op /\ d.user = c.user
        /\ d.other = c.other /\ d.email = c.email /\ d.subject = c.subject
        /\ d.path = c.path /\ d.invitation = c.invitation /\ d.known = c.known
    BY <1>1, <2>1 DEF CallOK, CallRecord
  <2>3. Facts(d)
    <3>1. Attached(d) /\ Detached(d)
      BY <1>0, <1>1, <2>2 DEF Facts, Attached, Detached
    <3>2. Agreed(d) /\ Registered(d) /\ Whole(d)
      BY <1>0, <1>1, <2>2 DEF Facts, Agreed, Changing, Registered, NewAccount, Whole, Making
    <3>3. Counted(d) /\ Settling(d)
      BY <1>0, <1>1, <2>2 DEF Facts, Counted, Adding, Settling
    <3>. QED
      BY <3>1, <3>2, <3>3 DEF Facts
  <2>. QED
    BY <1>0, <1>c, <1>1, <1>2, <2>1, <2>3, SoleRead DEF CountChildren, Goto, ParentInv
<1>3. CASE Children(c.other) # {}
  BY <1>0, <1>c, <1>1, <1>3, SoleFinish DEF CountChildren, NewAccount
<1>. QED
  BY <1>2, <1>3

LEMMA DetachReadSerial ==
    ASSUME ParentInv, SerialInv, NEW r \in Requests, DetachRead(r)
    PROVE  SerialInv'
<1>. SUFFICES ASSUME ~overlapped PROVE SerialInv'
  BY DEF DetachRead, SerialInv, history
<1>c. PICK c : c = call[r]
  OBVIOUS
<1>0. Busy(r) /\ c.pc = "detachRead" /\ UNCHANGED <<store, history>>
  BY <1>c DEF DetachRead, Busy, At
<1>1. CallOK(c) /\ Facts(c)
  BY <1>0, <1>c, SoleActor DEF ParentInv
<1>2. PICK pc : pc = IF Here(c.other) /\ member[c.other] # None
                     THEN "detachWrite" ELSE "undoRevoke"
  OBVIOUS
<1>3. PICK d : d = [c EXCEPT !.pc = pc]
  OBVIOUS
<1>4. /\ d.pc = pc /\ d.op = c.op /\ d.user = c.user
      /\ d.other = c.other /\ d.email = c.email /\ d.subject = c.subject
      /\ d.path = c.path /\ d.invitation = c.invitation /\ d.known = c.known
  BY <1>1, <1>3 DEF CallOK, CallRecord
<1>5. Facts(d)
  <2>1. Attached(d) /\ Detached(d)
    BY <1>0, <1>1, <1>2, <1>4 DEF Facts, Attached, Detached
  <2>2. Agreed(d) /\ Registered(d) /\ Whole(d)
    BY <1>0, <1>1, <1>2, <1>4 DEF Facts, Agreed, Changing, Registered, NewAccount, Whole, Making
  <2>3. Counted(d) /\ Settling(d)
    BY <1>0, <1>1, <1>2, <1>4 DEF Facts, Counted, Adding, Settling
  <2>. QED
    BY <2>1, <2>2, <2>3 DEF Facts
<1>. QED
  BY <1>0, <1>c, <1>2, <1>3, <1>5, SoleRead DEF DetachRead, Goto, ParentInv

LEMMA EnrichSerial ==
    ASSUME ParentInv, SerialInv, NEW r \in Requests, Enrich(r)
    PROVE  SerialInv'
<1>. SUFFICES ASSUME ~overlapped PROVE SerialInv'
  BY DEF Enrich, SerialInv, history
<1>c. PICK c : c = call[r]
  OBVIOUS
<1>0. Busy(r) /\ c.pc = "enrich" /\ UNCHANGED <<store, history>>
  BY <1>c DEF Enrich, Busy, At
<1>1. CallOK(c) /\ Facts(c)
  BY <1>0, <1>c, SoleActor DEF ParentInv
<1>2. CASE c.op = "adminCreate"
  <2>1. IdleCall.pc = "idle" /\ IdleCall.invitation = 0
    BY DEF IdleCall
  <2>2. Facts(IdleCall)
    <3>1. Attached(IdleCall)
      BY <1>0, <1>1, <1>2, <2>1 DEF Facts, Attached
    <3>2. Detached(IdleCall)
      BY <1>0, <1>1, <1>2, <2>1 DEF Facts, Detached
    <3>3. Agreed(IdleCall)
      BY <1>0, <1>1, <1>2, <2>1 DEF Facts, Agreed, Changing
    <3>4. Registered(IdleCall)
      BY <1>0, <1>1, <1>2, <2>1 DEF Facts, Registered, NewAccount
    <3>5. Whole(IdleCall)
      BY <1>0, <1>1, <1>2, <2>1 DEF Facts, Whole, Making, NewAccount, Registered, Half, Here
    <3>6. Counted(IdleCall)
      BY <1>0, <1>1, <1>2, <2>1 DEF Facts, Counted, Adding
    <3>7. Settling(IdleCall)
      BY <1>0, <1>1, <1>2, <2>1 DEF Facts, Settling
    <3>. QED
      BY <3>1, <3>2, <3>3, <3>4, <3>5, <3>6, <3>7 DEF Facts
  <2>. QED
    BY <1>0, <1>c, <1>2, <2>2, SoleRead DEF Enrich, Finish
<1>3. CASE c.op # "adminCreate"
  <2>1. PICK d : d = [c EXCEPT !.pc = "provisionUser"]
    OBVIOUS
  <2>2. /\ d.pc = "provisionUser" /\ d.op = c.op /\ d.user = c.user
        /\ d.other = c.other /\ d.email = c.email /\ d.subject = c.subject
        /\ d.path = c.path /\ d.invitation = c.invitation /\ d.known = c.known
    BY <1>1, <2>1 DEF CallOK, CallRecord
  <2>3. Facts(d)
    <3>1. Attached(d) /\ Detached(d)
      BY <1>0, <1>1, <2>2 DEF Facts, Attached, Detached
    <3>2. Agreed(d) /\ Registered(d) /\ Whole(d)
      BY <1>0, <1>1, <2>2 DEF Facts, Agreed, Changing, Registered, NewAccount, Whole, Making
    <3>3. Counted(d) /\ Settling(d)
      BY <1>0, <1>1, <2>2 DEF Facts, Counted, Adding, Settling
    <3>. QED
      BY <3>1, <3>2, <3>3 DEF Facts
  <2>. QED
    BY <1>0, <1>c, <1>3, <2>1, <2>3, SoleRead DEF Enrich, Goto, ParentInv
<1>. QED
  BY <1>2, <1>3

LEMMA ProvisionUserSerial ==
    ASSUME ParentInv, SerialInv, NEW r \in Requests, ProvisionUser(r)
    PROVE  SerialInv'
<1>. SUFFICES ASSUME ~overlapped PROVE SerialInv'
  BY DEF ProvisionUser, SerialInv, history
<1>c. PICK c : c = call[r]
  OBVIOUS
<1>0. Busy(r) /\ c.pc = "provisionUser" /\ UNCHANGED <<store, history>>
  BY <1>c DEF ProvisionUser, Busy, At
<1>1. CallOK(c) /\ Facts(c)
  BY <1>0, <1>c, SoleActor DEF ParentInv
<1>2. Here(c.user)
  BY <1>0, <1>1 DEF CallOK, Shape, Facts, Registered, NewAccount, Here, Live
<1>3. PICK d : d = [c EXCEPT !.pc = "provision"]
  OBVIOUS
<1>4. /\ d.pc = "provision" /\ d.op = c.op /\ d.user = c.user
      /\ d.other = c.other /\ d.email = c.email /\ d.subject = c.subject
      /\ d.path = c.path /\ d.invitation = c.invitation /\ d.known = c.known
  BY <1>1, <1>3 DEF CallOK, CallRecord
<1>5. Facts(d)
  <2>1. Attached(d) /\ Detached(d)
    BY <1>0, <1>1, <1>4 DEF Facts, Attached, Detached
  <2>2. Agreed(d) /\ Registered(d) /\ Whole(d)
    BY <1>0, <1>1, <1>4 DEF Facts, Agreed, Changing, Registered, NewAccount, Whole, Making
  <2>3. Counted(d) /\ Settling(d)
    BY <1>0, <1>1, <1>4 DEF Facts, Counted, Adding, Settling
  <2>. QED
    BY <2>1, <2>2, <2>3 DEF Facts
<1>. QED
  BY <1>0, <1>c, <1>2, <1>3, <1>5, SoleRead DEF ProvisionUser

LEMMA RereadSerial ==
    ASSUME ParentInv, SerialInv, NEW r \in Requests, Reread(r)
    PROVE  SerialInv'
<1>. SUFFICES ASSUME ~overlapped PROVE SerialInv'
  BY DEF Reread, SerialInv, history
<1>c. PICK c : c = call[r]
  OBVIOUS
<1>0. Busy(r) /\ c.pc = "reread" /\ UNCHANGED <<store, history>>
  BY <1>c DEF Reread, Busy, At
<1>1. CallOK(c) /\ Facts(c)
  BY <1>0, <1>c, SoleActor DEF ParentInv
<1>2. member[c.user] = None /\ "provision" \in rejected
  BY <1>0, <1>1 DEF Facts, Registered, NewAccount
<1>3. Facts(Undone(c))
  BY <1>0, <1>1, <1>2, UndoneFacts
<1>. QED
  BY <1>0, <1>c, <1>2, <1>3, SoleRead DEF Reread

\* What follows a provisioned membership.
LEMMA AfterProvisionFacts ==
    ASSUME NEW c, CallOK(c), Facts(c), c.pc \in {"checkMember", "linkSubject"}
    PROVE  Facts(AfterProvision(c))
<1>1. CallOK(c) /\ Facts(c)
  OBVIOUS
<1>2. CASE c.invitation # 0
  <2>1. PICK d : d = [c EXCEPT !.pc = "markAccepted"]
    OBVIOUS
  <2>2. /\ d.pc = "markAccepted" /\ d.op = c.op /\ d.user = c.user
        /\ d.other = c.other /\ d.email = c.email /\ d.subject = c.subject
        /\ d.path = c.path /\ d.invitation = c.invitation /\ d.known = c.known
    BY <1>1, <2>1 DEF CallOK, CallRecord
  <2>3. Taken(c.email)
    BY <1>1 DEF CallOK, Shape, Facts, Settling, Taken, WithEmail
  <2>4. Facts(d)
    <3>1. Attached(d) /\ Detached(d)
      BY <1>1, <1>2, <2>2, <2>3 DEF Facts, Attached, Detached
    <3>2. Agreed(d) /\ Registered(d) /\ Whole(d)
      BY <1>1, <1>2, <2>2, <2>3 DEF Facts, Agreed, Changing, Registered, NewAccount, Whole, Making
    <3>3. Counted(d) /\ Settling(d)
      BY <1>1, <1>2, <2>2, <2>3 DEF Facts, Counted, Adding, Settling
    <3>. QED
      BY <3>1, <3>2, <3>3 DEF Facts
  <2>. QED
    BY <1>2, <2>1, <2>4 DEF AfterProvision
<1>3. CASE c.invitation = 0
  BY <1>3, IdleFacts DEF AfterProvision, NewAccount
<1>. QED
  BY <1>2, <1>3

LEMMA ReadInvitationSerial ==
    ASSUME ParentInv, SerialInv, NEW r \in Requests, ReadInvitation(r)
    PROVE  SerialInv'
<1>. SUFFICES ASSUME ~overlapped PROVE SerialInv'
  BY DEF ReadInvitation, SerialInv, history
<1>c. PICK c : c = call[r]
  OBVIOUS
<1>0. Busy(r) /\ c.pc = "readInvitation" /\ UNCHANGED <<store, history>>
  BY <1>c DEF ReadInvitation, Busy, At
<1>1. CallOK(c) /\ Facts(c)
  BY <1>0, <1>c, SoleActor DEF ParentInv
<1>2. CASE invitation[c.invitation].status = "pending"
  <2>0. PICK pc : pc = IF c.op = "revokeInvite" THEN "markExpired"
                       ELSE IF invitation[c.invitation].late THEN "markExpired"
                       ELSE "createUser"
    OBVIOUS
  <2>1. PICK d : d = [c EXCEPT !.email = invitation[c.invitation].email, !.pc = pc]
    OBVIOUS
  <2>2. /\ d.pc = pc /\ d.op = c.op /\ d.user = c.user
        /\ d.other = c.other /\ d.email = invitation[c.invitation].email /\ d.subject = c.subject
        /\ d.path = c.path /\ d.invitation = c.invitation /\ d.known = c.known
    BY <1>1, <2>1 DEF CallOK, CallRecord
  <2>3. Facts(d)
    <3>1. Attached(d) /\ Detached(d)
      BY <1>0, <1>1, <1>2, <2>0, <2>2 DEF Facts, Attached, Detached
    <3>2. Agreed(d) /\ Registered(d) /\ Whole(d)
      BY <1>0, <1>1, <1>2, <2>0, <2>2 DEF Facts, Agreed, Changing, Registered, NewAccount, Whole, Making
    <3>3. Counted(d) /\ Settling(d)
      BY <1>0, <1>1, <1>2, <2>0, <2>2 DEF Facts, Counted, Adding, Settling
    <3>. QED
      BY <3>1, <3>2, <3>3 DEF Facts
  <2>4. call' = [call EXCEPT ![r] = d]
    BY <1>c, <1>2, <2>0, <2>1 DEF ReadInvitation, CallOK, CallRecord, ParentInv
  <2>. QED
    BY <1>0, <1>1, <2>3, <2>4, SoleRead
<1>3. CASE invitation[c.invitation].status # "pending"
  BY <1>0, <1>c, <1>1, <1>3, SoleFinish DEF ReadInvitation, NewAccount
<1>. QED
  BY <1>2, <1>3

LEMMA ByClerkSerial ==
    ASSUME ParentInv, SerialInv, NEW r \in Requests, ByClerk(r)
    PROVE  SerialInv'
<1>. SUFFICES ASSUME ~overlapped PROVE SerialInv'
  BY DEF ByClerk, SerialInv, history
<1>c. PICK c : c = call[r]
  OBVIOUS
<1>0. Busy(r) /\ c.pc = "byClerk" /\ UNCHANGED <<store, history>>
  BY <1>c DEF ByClerk, Busy, At
<1>1. CallOK(c) /\ Facts(c)
  BY <1>0, <1>c, SoleActor DEF ParentInv
<1>2. CASE Finish(r)
  BY <1>0, <1>c, <1>1, <1>2, SoleFinish DEF NewAccount
<1>3. CASE Goto(r, "byEmail")
  <2>1. PICK d : d = [c EXCEPT !.pc = "byEmail"]
    OBVIOUS
  <2>2. /\ d.pc = "byEmail" /\ d.op = c.op /\ d.user = c.user
        /\ d.other = c.other /\ d.email = c.email /\ d.subject = c.subject
        /\ d.path = c.path /\ d.invitation = c.invitation /\ d.known = c.known
    BY <1>1, <2>1 DEF CallOK, CallRecord
  <2>3. Facts(d)
    <3>1. Attached(d) /\ Detached(d)
      BY <1>0, <1>1, <2>2 DEF Facts, Attached, Detached
    <3>2. Agreed(d) /\ Registered(d) /\ Whole(d)
      BY <1>0, <1>1, <2>2 DEF Facts, Agreed, Changing, Registered, NewAccount, Whole, Making
    <3>3. Counted(d) /\ Settling(d)
      BY <1>0, <1>1, <2>2 DEF Facts, Counted, Adding, Settling
    <3>. QED
      BY <3>1, <3>2, <3>3 DEF Facts
  <2>. QED
    BY <1>0, <1>c, <1>3, <2>1, <2>3, SoleRead DEF Goto, ParentInv
<1>. QED
  BY <1>2, <1>3 DEF ByClerk

LEMMA ByEmailSerial ==
    ASSUME ParentInv, SerialInv, NEW r \in Requests, ByEmail(r)
    PROVE  SerialInv'
<1>. SUFFICES ASSUME ~overlapped PROVE SerialInv'
  BY DEF ByEmail, SerialInv, history
<1>c. PICK c : c = call[r]
  OBVIOUS
<1>0. Busy(r) /\ c.pc \in {"byEmail", "byEmailAgain"} /\ UNCHANGED <<store, history>>
  BY <1>c DEF ByEmail, Busy, At
<1>1. CallOK(c) /\ Facts(c)
  BY <1>0, <1>c, SoleActor DEF ParentInv
<1>. DEFINE found == WithEmail(c.email)
            u == CHOOSE x \in found : TRUE
<1>2. CASE Finish(r)
  BY <1>0, <1>c, <1>1, <1>2, SoleFinish DEF NewAccount
<1>3. CASE Goto(r, "gate")
  <2>1. PICK d : d = [c EXCEPT !.pc = "gate"]
    OBVIOUS
  <2>2. /\ d.pc = "gate" /\ d.op = c.op /\ d.user = c.user
        /\ d.other = c.other /\ d.email = c.email /\ d.subject = c.subject
        /\ d.path = c.path /\ d.invitation = c.invitation /\ d.known = c.known
    BY <1>1, <2>1 DEF CallOK, CallRecord
  <2>3. Facts(d)
    <3>1. Attached(d) /\ Detached(d)
      BY <1>0, <1>1, <2>2 DEF Facts, Attached, Detached
    <3>2. Agreed(d) /\ Registered(d) /\ Whole(d)
      BY <1>0, <1>1, <2>2 DEF Facts, Agreed, Changing, Registered, NewAccount, Whole, Making
    <3>3. Counted(d) /\ Settling(d)
      BY <1>0, <1>1, <2>2 DEF Facts, Counted, Adding, Settling
    <3>. QED
      BY <3>1, <3>2, <3>3 DEF Facts
  <2>. QED
    BY <1>0, <1>c, <1>1, <1>3, <2>1, <2>3, SoleRead DEF Goto, ParentInv
<1>4. CASE found # {} /\ users[u].subject \in {None, c.subject}
  <2>0. Live(u) /\ users[u].email = c.email
    BY <1>4 DEF WithEmail
  <2>10. PICK v : v = u
    OBVIOUS
  <2>11. PICK known \in BOOLEAN : known = (users[v].subject = c.subject)
    OBVIOUS
  <2>1. Live(v) /\ users[v].email = c.email
    BY <2>0, <2>10
  <2>2. PICK d : d = [c EXCEPT !.other = v, !.pc = "checkMember", !.known = known]
    OBVIOUS
  <2>3. /\ d.pc = "checkMember" /\ d.op = c.op /\ d.user = c.user
        /\ d.other = v /\ d.email = c.email /\ d.subject = c.subject
        /\ d.path = c.path /\ d.invitation = c.invitation /\ d.known = known
    BY <1>1, <2>2 DEF CallOK, CallRecord
  <2>4. Facts(d)
    <3>1. Attached(d) /\ Detached(d)
      BY <1>0, <1>1, <2>1, <2>3 DEF Facts, Attached, Detached
    <3>2. Agreed(d) /\ Registered(d) /\ Whole(d)
      BY <1>0, <1>1, <2>1, <2>3 DEF Facts, Agreed, Changing, Registered, NewAccount, Whole, Making
    <3>3. Counted(d) /\ Settling(d)
      BY <1>0, <1>1, <2>1, <2>3 DEF Facts, Counted, Adding, Settling
    <3>. QED
      BY <3>1, <3>2, <3>3 DEF Facts
  <2>5. call' = [call EXCEPT ![r] = d]
    BY <1>c, <1>4, <2>10, <2>11, <2>2 DEF ByEmail, ParentInv
  <2>. QED
    BY <1>0, <2>4, <2>5, SoleRead, ZenonT(60)
<1>. QED
  BY <1>c, <1>2, <1>3, <1>4 DEF ByEmail

LEMMA CheckMemberSerial ==
    ASSUME ParentInv, SerialInv, NEW r \in Requests, CheckMember(r)
    PROVE  SerialInv'
<1>. SUFFICES ASSUME ~overlapped PROVE SerialInv'
  BY DEF CheckMember, SerialInv, history
<1>c. PICK c : c = call[r]
  OBVIOUS
<1>0. Busy(r) /\ c.pc = "checkMember" /\ UNCHANGED <<store, history>>
  BY <1>c DEF CheckMember, Busy, At
<1>1. CallOK(c) /\ Facts(c)
  BY <1>0, <1>c, SoleActor DEF ParentInv
<1>2. CASE ~HasMembership(c.other)
  BY <1>0, <1>c, <1>1, <1>2, IdleFacts, SoleRead DEF CheckMember, NewAccount
<1>3. CASE HasMembership(c.other) /\ c.known
  BY <1>0, <1>c, <1>1, <1>3, AfterProvisionFacts, SoleRead DEF CheckMember
<1>4. CASE HasMembership(c.other) /\ ~c.known
  <2>1. PICK d : d = [c EXCEPT !.pc = "linkSubject"]
    OBVIOUS
  <2>2. /\ d.pc = "linkSubject" /\ d.op = c.op /\ d.user = c.user
        /\ d.other = c.other /\ d.email = c.email /\ d.subject = c.subject
        /\ d.path = c.path /\ d.invitation = c.invitation /\ d.known = c.known
    BY <1>1, <2>1 DEF CallOK, CallRecord
  <2>3. Facts(d)
    <3>1. Attached(d) /\ Detached(d)
      BY <1>0, <1>1, <2>2 DEF Facts, Attached, Detached
    <3>2. Agreed(d) /\ Registered(d) /\ Whole(d)
      BY <1>0, <1>1, <2>2 DEF Facts, Agreed, Changing, Registered, NewAccount, Whole, Making
    <3>3. Counted(d) /\ Settling(d)
      BY <1>0, <1>1, <2>2 DEF Facts, Counted, Adding, Settling
    <3>. QED
      BY <3>1, <3>2, <3>3 DEF Facts
  <2>. QED
    BY <1>0, <1>c, <1>4, <2>1, <2>3, SoleRead DEF CheckMember
<1>. QED
  BY <1>2, <1>3, <1>4

LEMMA GateSerial ==
    ASSUME ParentInv, SerialInv, NEW r \in Requests, Gate(r)
    PROVE  SerialInv'
<1>. SUFFICES ASSUME ~overlapped PROVE SerialInv'
  BY DEF Gate, SerialInv, history
<1>c. PICK c : c = call[r]
  OBVIOUS
<1>0. Busy(r) /\ c.pc = "gate" /\ UNCHANGED <<store, history>>
  BY <1>c DEF Gate, Busy, At
<1>1. CallOK(c) /\ Facts(c)
  BY <1>0, <1>c, SoleActor DEF ParentInv
<1>2. CASE PendingFor(c.email) # {}
  <2>0. PICK k \in PendingFor(c.email) :
            call' = [call EXCEPT ![r].invitation = k, ![r].pc = "jitCreate"]
    BY <1>c, <1>2, LatestPending DEF Gate
  <2>1. invitation[k].status = "pending" /\ invitation[k].email = c.email
    BY DEF PendingFor
  <2>2. PICK d : d = [c EXCEPT !.invitation = k, !.pc = "jitCreate"]
    OBVIOUS
  <2>3. /\ d.pc = "jitCreate" /\ d.op = c.op /\ d.user = c.user
        /\ d.other = c.other /\ d.email = c.email /\ d.subject = c.subject
        /\ d.path = c.path /\ d.invitation = k /\ d.known = c.known
    BY <1>1, <2>2 DEF CallOK, CallRecord
  <2>4. Facts(d)
    <3>1. Attached(d) /\ Detached(d)
      BY <1>0, <1>1, <2>1, <2>3 DEF Facts, Attached, Detached
    <3>2. Agreed(d) /\ Registered(d) /\ Whole(d)
      BY <1>0, <1>1, <2>1, <2>3 DEF Facts, Agreed, Changing, Registered, NewAccount, Whole, Making
    <3>3. Counted(d) /\ Settling(d)
      BY <1>0, <1>1, <2>1, <2>3 DEF Facts, Counted, Adding, Settling
    <3>. QED
      BY <3>1, <3>2, <3>3 DEF Facts
  <2>5. call' = [call EXCEPT ![r] = d]
    BY <1>c, <2>0, <2>2 DEF ParentInv
  <2>. QED
    BY <1>0, <1>1, <2>4, <2>5, SoleRead
<1>3. CASE Goto(r, "jitCreate")
  <2>1. PICK d : d = [c EXCEPT !.pc = "jitCreate"]
    OBVIOUS
  <2>2. /\ d.pc = "jitCreate" /\ d.op = c.op /\ d.user = c.user
        /\ d.other = c.other /\ d.email = c.email /\ d.subject = c.subject
        /\ d.path = c.path /\ d.invitation = c.invitation /\ d.known = c.known
    BY <1>1, <2>1 DEF CallOK, CallRecord
  <2>3. Facts(d)
    <3>1. Attached(d) /\ Detached(d)
      BY <1>0, <1>1, <2>2 DEF Facts, Attached, Detached
    <3>2. Agreed(d) /\ Registered(d) /\ Whole(d)
      BY <1>0, <1>1, <2>2 DEF Facts, Agreed, Changing, Registered, NewAccount, Whole, Making
    <3>3. Counted(d) /\ Settling(d)
      BY <1>0, <1>1, <2>2 DEF Facts, Counted, Adding, Settling
    <3>. QED
      BY <3>1, <3>2, <3>3 DEF Facts
  <2>. QED
    BY <1>0, <1>c, <1>1, <1>3, <2>1, <2>3, SoleRead DEF Goto, ParentInv
<1>4. CASE Finish(r)
  BY <1>0, <1>c, <1>1, <1>4, SoleFinish DEF NewAccount
<1>. QED
  BY <1>c, <1>2, <1>3, <1>4 DEF Gate

LEMMA ReadUserSerial ==
    ASSUME ParentInv, SerialInv, NEW r \in Requests, ReadUser(r)
    PROVE  SerialInv'
<1>. SUFFICES ASSUME ~overlapped PROVE SerialInv'
  BY DEF ReadUser, SerialInv, history
<1>c. PICK c : c = call[r]
  OBVIOUS
<1>0. Busy(r) /\ c.pc = "readUser" /\ UNCHANGED <<store, history>>
  BY <1>c DEF ReadUser, Busy, At
<1>1. CallOK(c) /\ Facts(c)
  BY <1>0, <1>c, SoleActor DEF ParentInv
<1>2. CASE Live(c.other)
  <2>0. PICK input : input = IF c.input = "keep" THEN users[c.other].status ELSE c.input
    OBVIOUS
  <2>1. PICK d : d = [c EXCEPT !.email = users[c.other].email, !.input = input, !.pc = "writeUser"]
    OBVIOUS
  <2>2. /\ d.pc = "writeUser" /\ d.op = c.op /\ d.user = c.user
        /\ d.other = c.other /\ d.email = users[c.other].email /\ d.subject = c.subject
        /\ d.path = c.path /\ d.invitation = c.invitation /\ d.known = c.known
    BY <1>1, <2>1 DEF CallOK, CallRecord
  <2>3. Facts(d)
    <3>1. Attached(d) /\ Detached(d)
      BY <1>0, <1>1, <2>2 DEF Facts, Attached, Detached
    <3>2. Agreed(d) /\ Registered(d) /\ Whole(d)
      BY <1>0, <1>1, <2>2 DEF Facts, Agreed, Changing, Registered, NewAccount, Whole, Making
    <3>3. Counted(d) /\ Settling(d)
      BY <1>0, <1>1, <2>2 DEF Facts, Counted, Adding, Settling
    <3>. QED
      BY <3>1, <3>2, <3>3 DEF Facts
  <2>4. call' = [call EXCEPT ![r] = d]
    BY <1>c, <1>2, <2>0, <2>1 DEF ReadUser, CallOK, CallRecord, ParentInv
  <2>. QED
    BY <1>0, <1>1, <2>3, <2>4, SoleRead
<1>3. CASE ~Live(c.other)
  BY <1>0, <1>c, <1>1, <1>3, SoleFinish DEF ReadUser, NewAccount
<1>. QED
  BY <1>2, <1>3

LEMMA CheckEmailSerial ==
    ASSUME ParentInv, SerialInv, NEW r \in Requests, CheckEmail(r)
    PROVE  SerialInv'
<1>. SUFFICES ASSUME ~overlapped PROVE SerialInv'
  BY DEF CheckEmail, SerialInv, history
<1>c. PICK c : c = call[r]
  OBVIOUS
<1>0. Busy(r) /\ c.pc = "checkEmail" /\ UNCHANGED <<store, history>>
  BY <1>c DEF CheckEmail, Busy, At
<1>1. CallOK(c) /\ Facts(c)
  BY <1>0, <1>c, SoleActor DEF ParentInv
<1>2. CASE Finish(r)
  BY <1>0, <1>c, <1>1, <1>2, SoleFinish DEF NewAccount
<1>3. CASE Goto(r, "writeUser")
  <2>1. PICK d : d = [c EXCEPT !.pc = "writeUser"]
    OBVIOUS
  <2>2. /\ d.pc = "writeUser" /\ d.op = c.op /\ d.user = c.user
        /\ d.other = c.other /\ d.email = c.email /\ d.subject = c.subject
        /\ d.path = c.path /\ d.invitation = c.invitation /\ d.known = c.known
    BY <1>1, <2>1 DEF CallOK, CallRecord
  <2>3. Facts(d)
    <3>1. Attached(d) /\ Detached(d)
      BY <1>0, <1>1, <2>2 DEF Facts, Attached, Detached
    <3>2. Agreed(d) /\ Registered(d) /\ Whole(d)
      BY <1>0, <1>1, <2>2 DEF Facts, Agreed, Changing, Registered, NewAccount, Whole, Making
    <3>3. Counted(d) /\ Settling(d)
      BY <1>0, <1>1, <2>2 DEF Facts, Counted, Adding, Settling
    <3>. QED
      BY <3>1, <3>2, <3>3 DEF Facts
  <2>. QED
    BY <1>0, <1>c, <1>1, <1>3, <2>1, <2>3, SoleRead DEF Goto, ParentInv
<1>. QED
  BY <1>2, <1>3 DEF CheckEmail

-----------------------------------------------------------------------------
(* Writes of the request in progress *)

\* One row is written.
LEMMA ChildrenAfter ==
    ASSUME NEW u \in UserIds, \A v \in UserIds \ {u} : users'[v] = users[v],
           NEW p \in UserIds
    PROVE  /\ Children(p)' \subseteq Children(p) \cup {u}
           /\ ~Here(u)' \/ ParentOf(users'[u].path) # p
              => Children(p)' \subseteq Children(p)
BY DEF Children, Here, Live

\* A root account has no parent.
LEMMA NoParent == 0 \notin UserIds /\ ParentOf(<<>>) = 0
BY DEF UserIds, ParentOf

\* Whoever adds no sub-user need not know how many there are.
LEMMA NobodyAdded ==
    ASSUME NEW d, d.pc \notin Preparing
    PROVE  Counted(d)'
BY DEF Counted, Adding

\* A new account is half made, which is what its request knows of it.
LEMMA NewAccountFacts ==
    ASSUME ParentInv, NEW c, CallOK(c), Facts(c), c.pc \in {"createUser", "jitCreate"},
           NEW u \in UserIds, ~Used(u),
           \A v \in UserIds \ {u} : users'[v] = users[v],
           UNCHANGED <<member, plan, entitled, invitation, rejected>>,
           /\ Live(u)' /\ users'[u].path = <<>> /\ users'[u].email = c.email
           /\ users'[u].home = (IF c.op = "adminCreate" THEN "elsewhere" ELSE "here")
           /\ c.op = "identity" => users'[u].subject # None,
           NEW d, d.pc \in {"enrich", "createPurchase", "provisionUser"}, d.user = u,
           d.op = c.op, d.email = c.email, d.invitation = c.invitation
    PROVE  Facts(d)'
<1>1. StoreOK /\ Blank(u)
  BY DEF ParentInv, StoreOK
<1>3. Attached(d)' /\ Detached(d)'
  BY DEF Attached, Detached
<1>4. Agreed(d)' /\ Registered(d)'
  BY <1>1 DEF Facts, Agreed, Changing, Clean, Registered, NewAccount, Blank, Live
<1>5. Whole(d)'
  BY DEF Facts, Whole, Making, NewAccount, Half, Explained, Here, Live
<1>6. Counted(d)'
  BY NobodyAdded
<1>7. Settling(d)'
  BY DEF Facts, Settling
<1>. QED
  BY <1>3, <1>4, <1>5, <1>6, <1>7 DEF Facts

LEMMA CreateUserSerial ==
    ASSUME ParentInv, SerialInv, NEW r \in Requests, CreateUser(r)
    PROVE  SerialInv'
<1>. SUFFICES ASSUME ~overlapped PROVE SerialInv'
  BY DEF CreateUser, SerialInv, history
<1>c. PICK c : c = call[r]
  OBVIOUS
<1>0. Busy(r) /\ c.pc = "createUser" /\ rejected' = rejected
  BY <1>c DEF CreateUser, history, Busy, At
<1>1. CallOK(c) /\ Facts(c)
  BY <1>0, <1>c, SoleActor DEF ParentInv
<1>2. CASE Taken(c.email)
  <2>1. Finish(r) /\ UNCHANGED <<store, history>>
    BY <1>c, <1>2 DEF CreateUser, store
  <2>. QED
    BY <1>0, <1>c, <1>1, <2>1, SoleFinish DEF NewAccount
<1>3. CASE ~Taken(c.email)
  <2>1. PICK u \in UserIds : u = FreshId /\ ~Used(u)
    BY FreshIdIsUnused DEF CreateUser
  <2>2. PICK pc \in {"enrich", "createPurchase"} : pc = IF FreePlan = None THEN "enrich" ELSE "createPurchase"
    OBVIOUS
  <2>3. PICK home \in {"here", "elsewhere"} : home = IF c.op = "adminCreate" THEN "elsewhere" ELSE "here"
    OBVIOUS
  <2>4. PICK row : row = NewUser(c.email, home, <<>>, None)
    OBVIOUS
  <2>5. /\ row.state = "live" /\ row.path = <<>> /\ row.email = c.email
        /\ row.home = home /\ c.op # "identity"
    BY <1>0, <1>1, <2>4 DEF NewUser, CallOK, Shape
  <2>6. PICK d : d = [c EXCEPT !.user = u, !.pc = pc]
    OBVIOUS
  <2>7. /\ d.pc = pc /\ d.op = c.op /\ d.user = u
        /\ d.other = c.other /\ d.email = c.email /\ d.subject = c.subject
        /\ d.path = c.path /\ d.invitation = c.invitation /\ d.known = c.known
    BY <1>1, <2>6 DEF CallOK, CallRecord
  <2>8. /\ users' = [users EXCEPT ![u] = row]
        /\ UNCHANGED <<member, plan, entitled, invitation, rejected>>
    BY <1>0, <1>c, <1>3, <2>1, <2>3, <2>4 DEF CreateUser
  <2>9. call' = [call EXCEPT ![r] = d]
    BY <1>c, <1>3, <2>1, <2>2, <2>6 DEF CreateUser, ParentInv
  <2>11. users'[u] = row /\ \A v \in UserIds \ {u} : users'[v] = users[v]
    BY <2>8 DEF ParentInv, StoreOK, StoreTyped
  <2>12. Live(u)'
    BY <2>5, <2>11 DEF Live
  <2>10. Facts(d)'
    BY <1>0, <1>1, <2>1, <2>2, <2>3, <2>5, <2>7, <2>8, <2>11, <2>12, NewAccountFacts
  <2>. QED
    BY <1>0, <2>9, <2>10, SoleStep
<1>. QED
  BY <1>2, <1>3

LEMMA JitCreateSerial ==
    ASSUME ParentInv, SerialInv, NEW r \in Requests, JitCreate(r)
    PROVE  SerialInv'
<1>. SUFFICES ASSUME ~overlapped PROVE SerialInv'
  BY DEF JitCreate, SerialInv, history
<1>c. PICK c : c = call[r]
  OBVIOUS
<1>0. Busy(r) /\ c.pc = "jitCreate" /\ rejected' = rejected
  BY <1>c DEF JitCreate, history, Busy, At
<1>1. CallOK(c) /\ Facts(c)
  BY <1>0, <1>c, SoleActor DEF ParentInv
<1>2. CASE Taken(c.email)
  <2>1. PICK d : d = [c EXCEPT !.pc = "byEmailAgain"]
    OBVIOUS
  <2>2. /\ d.pc = "byEmailAgain" /\ d.op = c.op /\ d.user = c.user
        /\ d.other = c.other /\ d.email = c.email /\ d.subject = c.subject
        /\ d.path = c.path /\ d.invitation = c.invitation /\ d.known = c.known
    BY <1>1, <2>1 DEF CallOK, CallRecord
  <2>3. call' = [call EXCEPT ![r] = d] /\ UNCHANGED <<store, history>>
    BY <1>c, <1>2, <2>1 DEF JitCreate, Goto, store, ParentInv
  <2>4. Facts(d)
    <3>1. Attached(d) /\ Detached(d)
      BY <1>0, <1>1, <2>2 DEF Facts, Attached, Detached
    <3>2. Agreed(d) /\ Registered(d) /\ Whole(d)
      BY <1>0, <1>1, <2>2 DEF Facts, Agreed, Changing, Registered, NewAccount, Whole, Making
    <3>3. Counted(d) /\ Settling(d)
      BY <1>0, <1>1, <2>2 DEF Facts, Counted, Adding, Settling
    <3>. QED
      BY <3>1, <3>2, <3>3 DEF Facts
  <2>. QED
    BY <1>0, <2>3, <2>4, SoleRead
<1>3. CASE ~Taken(c.email)
  <2>1. PICK u \in UserIds : u = FreshId /\ ~Used(u)
    BY FreshIdIsUnused DEF JitCreate
  <2>2. PICK row : row = NewUser(c.email, "here", <<>>, c.subject)
    OBVIOUS
  <2>3. /\ row.state = "live" /\ row.path = <<>> /\ row.email = c.email
        /\ row.home = "here" /\ c.op = "identity" /\ row.subject # None
    BY <1>0, <1>1, <2>2 DEF NewUser, CallOK, Shape
  <2>4. PICK d : d = [c EXCEPT !.user = u, !.pc = "provisionUser"]
    OBVIOUS
  <2>5. /\ d.pc = "provisionUser" /\ d.op = c.op /\ d.user = u
        /\ d.other = c.other /\ d.email = c.email /\ d.subject = c.subject
        /\ d.path = c.path /\ d.invitation = c.invitation /\ d.known = c.known
    BY <1>1, <2>4 DEF CallOK, CallRecord
  <2>6. /\ users' = [users EXCEPT ![u] = row]
        /\ UNCHANGED <<member, plan, entitled, invitation, rejected>>
    BY <1>0, <1>c, <1>3, <2>1, <2>2 DEF JitCreate
  <2>7. call' = [call EXCEPT ![r] = d]
    BY <1>c, <1>3, <2>1, <2>4 DEF JitCreate, ParentInv
  <2>9. users'[u] = row /\ \A v \in UserIds \ {u} : users'[v] = users[v]
    BY <2>6 DEF ParentInv, StoreOK, StoreTyped
  <2>10. Live(u)'
    BY <2>3, <2>9 DEF Live
  <2>8. Facts(d)'
    BY <1>0, <1>1, <2>1, <2>3, <2>5, <2>6, <2>9, <2>10, NewAccountFacts
  <2>. QED
    BY <1>0, <2>7, <2>8, SoleStep
<1>. QED
  BY <1>2, <1>3

LEMMA CreatePurchaseSerial ==
    ASSUME ParentInv, SerialInv, NEW r \in Requests, CreatePurchase(r)
    PROVE  SerialInv'
<1>. SUFFICES ASSUME ~overlapped PROVE SerialInv'
  BY DEF CreatePurchase, SerialInv, history
<1>c. PICK c : c = call[r]
  OBVIOUS
<1>0. Busy(r) /\ c.pc = "createPurchase" /\ rejected' = rejected
  BY <1>c DEF CreatePurchase, history, Busy, At
<1>1. CallOK(c) /\ Facts(c)
  BY <1>0, <1>c, SoleActor DEF ParentInv
<1>2. Live(c.user) /\ member[c.user] = None /\ c.user \in UserIds
  BY <1>0, <1>1 DEF CallOK, Shape, Facts, Registered, NewAccount, Live
<1>3. PICK d : d = [c EXCEPT !.pc = "grant"]
  OBVIOUS
<1>4. /\ d.pc = "grant" /\ d.op = c.op /\ d.user = c.user
      /\ d.other = c.other /\ d.email = c.email /\ d.subject = c.subject
      /\ d.path = c.path /\ d.invitation = c.invitation /\ d.known = c.known
  BY <1>1, <1>3 DEF CallOK, CallRecord
<1>5. /\ plan' = [plan EXCEPT ![c.user] = FreePlan] /\ call' = [call EXCEPT ![r] = d]
      /\ UNCHANGED <<users, member, entitled, invitation>>
  BY <1>0, <1>c, <1>2, <1>3 DEF CreatePurchase, Goto, ParentInv
<1>6. Attached(d)' /\ Detached(d)'
  BY <1>0, <1>4 DEF Attached, Detached
<1>7. Agreed(d)' /\ Registered(d)'
  BY <1>0, <1>1, <1>4, <1>5 DEF Facts, Agreed, Changing, Clean, Registered, NewAccount
<1>8. Whole(d)'
  BY <1>0, <1>1, <1>4, <1>5 DEF Facts, Whole, Making, NewAccount, Half, Explained, Here, Live
<1>9. Counted(d)'
  BY <1>4, NobodyAdded
<1>10. Settling(d)'
  BY <1>0, <1>1, <1>4, <1>5 DEF Facts, Settling
<1>11. Facts(d)'
  BY <1>6, <1>7, <1>8, <1>9, <1>10 DEF Facts
<1>. QED
  BY <1>0, <1>5, <1>11, SoleStep

LEMMA GrantSerial ==
    ASSUME ParentInv, SerialInv, NEW r \in Requests, Grant(r)
    PROVE  SerialInv'
<1>. SUFFICES ASSUME ~overlapped PROVE SerialInv'
  BY DEF Grant, SerialInv, history
<1>c. PICK c : c = call[r]
  OBVIOUS
<1>0. Busy(r) /\ c.pc = "grant" /\ rejected' = rejected
  BY <1>c DEF Grant, history, Busy, At
<1>1. CallOK(c) /\ Facts(c)
  BY <1>0, <1>c, SoleActor DEF ParentInv
<1>2. Live(c.user)
  BY <1>0, <1>1 DEF Facts, Registered, NewAccount, Live
<1>3. PICK d : d = [c EXCEPT !.pc = "enrich"]
  OBVIOUS
<1>4. /\ d.pc = "enrich" /\ d.op = c.op /\ d.user = c.user
      /\ d.other = c.other /\ d.email = c.email /\ d.subject = c.subject
      /\ d.path = c.path /\ d.invitation = c.invitation /\ d.known = c.known
  BY <1>1, <1>3 DEF CallOK, CallRecord
<1>5. /\ UNCHANGED <<users, member, plan, invitation>> /\ call' = [call EXCEPT ![r] = d]
  BY <1>0, <1>c, <1>2, <1>3 DEF Grant, Goto, ParentInv
<1>6. Attached(d)' /\ Detached(d)' /\ Settling(d)'
  BY <1>0, <1>1, <1>4, <1>5 DEF Attached, Detached, Facts, Settling
<1>7. Agreed(d)' /\ Registered(d)'
  BY <1>0, <1>1, <1>4, <1>5 DEF Facts, Agreed, Changing, Clean, Registered, NewAccount
<1>8. Whole(d)'
  BY <1>0, <1>1, <1>4, <1>5 DEF Facts, Whole, Making, NewAccount, Half, Explained, Here, Live
<1>9. Counted(d)'
  BY <1>1, <1>4, <1>5, NobodyAdded
<1>10. Facts(d)'
  BY <1>6, <1>7, <1>8, <1>9 DEF Facts
<1>. QED
  BY <1>0, <1>5, <1>10, SoleStep

\* After the membership of an invited account the invitation is marked.
LEMMA AfterProvisionIs ==
    ASSUME NEW c, CallOK(c), NEW d, d = AfterProvision(c)
    PROVE  /\ d.pc \in {"idle", "markAccepted"}
           /\ d.invitation # 0 => /\ c.invitation # 0
                                  /\ d.invitation = c.invitation /\ d.email = c.email
           /\ d.invitation = 0 => d.pc = "idle"
BY DEF AfterProvision, IdleCall, CallOK, CallRecord

LEMMA ProvisionSerial ==
    ASSUME ParentInv, SerialInv, NEW r \in Requests, Provision(r)
    PROVE  SerialInv'
<1>. SUFFICES ASSUME ~overlapped PROVE SerialInv'
  BY DEF Provision, SerialInv, history
<1>c. PICK c : c = call[r]
  OBVIOUS
<1>0. Busy(r) /\ c.pc = "provision" /\ rejected' = rejected
  BY <1>c DEF Provision, history, Busy, At
<1>1. CallOK(c) /\ Facts(c)
  BY <1>0, <1>c, SoleActor DEF ParentInv
<1>2. /\ member[c.user] = None /\ c.user \in UserIds /\ Live(c.user)
      /\ users[c.user].path = <<>> /\ users[c.user].email = c.email
  BY <1>0, <1>1 DEF CallOK, Shape, Facts, Registered, NewAccount, Live
<1>3. PICK d : d = AfterProvision(c)
  OBVIOUS
<1>4. /\ d.pc \in {"idle", "markAccepted"}
      /\ d.invitation = 0 => d.pc = "idle"
      /\ d.invitation # 0 => /\ c.invitation # 0
                             /\ d.invitation = c.invitation /\ d.email = c.email
  BY <1>1, <1>3, AfterProvisionIs
<1>5. PICK row \in MemberRow : row = [status |-> "active", path |-> <<>>]
  <2>1. <<>> \in Seq(UserIds)
    OBVIOUS
  <2>. QED
    BY <2>1 DEF MemberRow
<1>6. /\ member' = [member EXCEPT ![c.user] = row] /\ call' = [call EXCEPT ![r] = d]
      /\ UNCHANGED <<users, plan, entitled, invitation>>
  BY <1>c, <1>2, <1>3, <1>5 DEF Provision
<1>7. row # None /\ row.path = <<>>
  BY <1>5, MemberAssumption
<1>8. /\ member'[c.user] = row
      /\ \A v \in UserIds \ {c.user} : member'[v] = member[v]
  BY <1>2, <1>6 DEF ParentInv, StoreOK, StoreTyped
<1>9. Attached(d)' /\ Detached(d)' /\ Registered(d)'
  BY <1>4 DEF Attached, Detached, Registered, NewAccount
<1>10. Agreed(d)'
  BY <1>0, <1>1, <1>2, <1>4, <1>6, <1>7, <1>8 DEF Facts, Agreed, Changing, Clean
<1>11. Whole(d)'
  BY <1>0, <1>1, <1>4, <1>6, <1>7, <1>8
     DEF Facts, Whole, Making, NewAccount, Half, Explained, Here, Live
<1>12. Counted(d)'
  BY <1>1, <1>4, <1>6, NobodyAdded
<1>13. Settling(d)'
  <2>1. Taken(c.email)'
    BY <1>2, <1>6 DEF Taken, WithEmail, Live
  <2>. QED
    BY <1>0, <1>1, <1>4, <1>6, <2>1 DEF Facts, Settling
<1>14. Facts(d)'
  BY <1>9, <1>10, <1>11, <1>12, <1>13 DEF Facts
<1>. QED
  BY <1>0, <1>6, <1>14, SoleStep

LEMMA DropEntitlementsSerial ==
    ASSUME ParentInv, SerialInv, NEW r \in Requests, DropEntitlements(r)
    PROVE  SerialInv'
<1>. SUFFICES ASSUME ~overlapped PROVE SerialInv'
  BY DEF DropEntitlements, SerialInv, history
<1>c. PICK c : c = call[r]
  OBVIOUS
<1>0. Busy(r) /\ c.pc = "dropEntitlements" /\ rejected' = rejected
  BY <1>c DEF DropEntitlements, history, Busy, At
<1>1. CallOK(c) /\ Facts(c)
  BY <1>0, <1>c, SoleActor DEF ParentInv
<1>3. PICK d : d = [c EXCEPT !.pc = "dropPurchases"]
  OBVIOUS
<1>4. /\ d.pc = "dropPurchases" /\ d.op = c.op /\ d.user = c.user
      /\ d.other = c.other /\ d.email = c.email /\ d.subject = c.subject
      /\ d.path = c.path /\ d.invitation = c.invitation /\ d.known = c.known
  BY <1>1, <1>3 DEF CallOK, CallRecord
<1>5. /\ entitled' = entitled \ {c.user} /\ call' = [call EXCEPT ![r] = d]
      /\ UNCHANGED <<users, member, plan, invitation>>
  BY <1>c, <1>3 DEF DropEntitlements, Goto, ParentInv
<1>6. Attached(d)' /\ Detached(d)' /\ Settling(d)'
  BY <1>0, <1>1, <1>4, <1>5 DEF Attached, Detached, Facts, Settling
<1>7. Agreed(d)' /\ Registered(d)'
  BY <1>0, <1>1, <1>4, <1>5 DEF Facts, Agreed, Changing, Clean, Registered, NewAccount
<1>8. Whole(d)'
  BY <1>0, <1>1, <1>4, <1>5 DEF Facts, Whole, Making, NewAccount, Half, Explained, Here, Live
<1>9. Counted(d)'
  BY <1>1, <1>4, <1>5, NobodyAdded
<1>10. Facts(d)'
  BY <1>6, <1>7, <1>8, <1>9 DEF Facts
<1>. QED
  BY <1>0, <1>5, <1>10, SoleStep

LEMMA DropPurchasesSerial ==
    ASSUME ParentInv, SerialInv, NEW r \in Requests, DropPurchases(r)
    PROVE  SerialInv'
<1>. SUFFICES ASSUME ~overlapped PROVE SerialInv'
  BY DEF DropPurchases, SerialInv, history
<1>c. PICK c : c = call[r]
  OBVIOUS
<1>0. Busy(r) /\ c.pc = "dropPurchases" /\ rejected' = rejected
  BY <1>c DEF DropPurchases, history, Busy, At
<1>1. CallOK(c) /\ Facts(c)
  BY <1>0, <1>c, SoleActor DEF ParentInv
<1>2. c.user \in UserIds /\ c.op # "delete"
  BY <1>0, <1>1 DEF CallOK, Shape
<1>3. PICK d : d = [c EXCEPT !.pc = "dropUser"]
  OBVIOUS
<1>4. /\ d.pc = "dropUser" /\ d.op = c.op /\ d.user = c.user
      /\ d.other = c.other /\ d.email = c.email /\ d.subject = c.subject
      /\ d.path = c.path /\ d.invitation = c.invitation /\ d.known = c.known
  BY <1>1, <1>3 DEF CallOK, CallRecord
<1>5. /\ plan' = [plan EXCEPT ![c.user] = None] /\ call' = [call EXCEPT ![r] = d]
      /\ UNCHANGED <<users, member, entitled, invitation>>
  BY <1>c, <1>3 DEF DropPurchases, Goto, ParentInv
<1>6. plan'[c.user] = None /\ \A p \in UserIds \ {c.user} : plan'[p] = plan[p]
  BY <1>2, <1>5 DEF ParentInv, StoreOK, StoreTyped
<1>7. Attached(d)' /\ Detached(d)' /\ Settling(d)'
  BY <1>0, <1>1, <1>4, <1>5 DEF Attached, Detached, Facts, Settling
<1>8. Agreed(d)'
  BY <1>0, <1>1, <1>4, <1>5 DEF Facts, Agreed, Changing, Clean
<1>12. Registered(d)'
  BY <1>0, <1>1, <1>4, <1>5, <1>6 DEF Facts, Registered, NewAccount
<1>9. Whole(d)'
  BY <1>0, <1>1, <1>2, <1>4, <1>5 DEF Facts, Whole, Making, NewAccount, Half, Explained, Here, Live
<1>10. Counted(d)'
  BY <1>4, NobodyAdded
<1>11. Facts(d)'
  BY <1>7, <1>8, <1>9, <1>10, <1>12 DEF Facts
<1>. QED
  BY <1>0, <1>5, <1>11, SoleStep

\* The account that is deleted is the one the request was about.
LEMMA DeletionFacts ==
    ASSUME ParentInv, NEW c, Facts(c), NEW u \in UserIds, DeleteUser(u),
           UNCHANGED <<plan, entitled, invitation, rejected>>, c.pc \notin Releasing,
           Making(c) \subseteq {u} /\ Changing(c) \subseteq {u},
           c.pc \in Attaching \/ NewAccount(c) => Deletable(u)
    PROVE  Facts(IdleCall)'
<1>0. IdleCall.pc = "idle" /\ IdleCall.invitation = 0
  BY DEF IdleCall
<1>1. CASE ~Deletable(u)
  <2>1. users' = users /\ member' = member
    BY <1>1 DEF DeleteUser, ParentInv, StoreOK, StoreTyped, UserRow
  <2>2. UNCHANGED <<store, rejected>>
    BY <2>1 DEF store
  <2>3. Facts(IdleCall)
    BY <1>1, IdleFacts
  <2>. QED
    BY <2>2, <2>3, FactsStay
<1>2. CASE Deletable(u)
  <2>1. /\ ~Live(u)' /\ member'[u] = None
        /\ \A v \in UserIds \ {u} : users'[v] = users[v] /\ member'[v] = member[v]
    BY <1>2 DEF DeleteUser, Live, ParentInv, StoreOK, StoreTyped, UserRow
  <2>2. Attached(IdleCall)' /\ Detached(IdleCall)' /\ Registered(IdleCall)' /\ Settling(IdleCall)'
    BY <1>0 DEF Attached, Detached, Registered, NewAccount, Settling
  <2>3. Agreed(IdleCall)'
    BY <1>0, <2>1 DEF Facts, Agreed, Clean
  <2>4. Whole(IdleCall)'
    BY <1>0, <2>1 DEF Facts, Whole, Half, Explained, Here, Live
  <2>5. Counted(IdleCall)'
    BY <1>0, NobodyAdded
  <2>. QED
    BY <2>2, <2>3, <2>4, <2>5 DEF Facts
<1>. QED
  BY <1>1, <1>2

\* The end of a rollback deletes the half-made account.
LEMMA DropUserSerial ==
    ASSUME ParentInv, SerialInv, NEW r \in Requests, DropUser(r)
    PROVE  SerialInv'
<1>. SUFFICES ASSUME ~overlapped PROVE SerialInv'
  BY DEF DropUser, SerialInv, history
<1>c. PICK c : c = call[r]
  OBVIOUS
<1>0. Busy(r) /\ c.pc = "dropUser" /\ rejected' = rejected
  BY <1>c DEF DropUser, history, Busy, At
<1>1. CallOK(c) /\ Facts(c)
  BY <1>0, <1>c, SoleActor DEF ParentInv
<1>2. /\ c.user \in UserIds /\ DeleteUser(c.user) /\ call' = [call EXCEPT ![r] = IdleCall]
      /\ UNCHANGED <<plan, entitled, invitation>>
  BY <1>0, <1>c, <1>1 DEF DropUser, Finish, CallOK, Shape
<1>3. Making(c) \subseteq {c.user} /\ Changing(c) \subseteq {c.user}
  BY <1>0 DEF Making, Changing
<1>4. NewAccount(c) => Deletable(c.user)
  BY <1>0, <1>1 DEF Facts, Registered, Deletable, Live
<1>5. Facts(IdleCall)'
  BY <1>0, <1>1, <1>2, <1>3, <1>4, DeletionFacts
<1>. QED
  BY <1>0, <1>2, <1>5, SoleStep

\* The compensation deletes an inserted one.
LEMMA UndoInsertSerial ==
    ASSUME ParentInv, SerialInv, NEW r \in Requests, UndoInsert(r)
    PROVE  SerialInv'
<1>. SUFFICES ASSUME ~overlapped PROVE SerialInv'
  BY DEF UndoInsert, SerialInv, history
<1>c. PICK c : c = call[r]
  OBVIOUS
<1>0. Busy(r) /\ c.pc = "undoInsert" /\ rejected' = rejected
  BY <1>c DEF UndoInsert, history, Busy, At
<1>1. CallOK(c) /\ Facts(c)
  BY <1>0, <1>c, SoleActor DEF ParentInv
<1>2. /\ c.other \in UserIds /\ DeleteUser(c.other) /\ call' = [call EXCEPT ![r] = IdleCall]
      /\ UNCHANGED <<plan, entitled, invitation>>
  BY <1>0, <1>c, <1>1 DEF UndoInsert, Finish, CallOK, Shape
<1>3. Making(c) \subseteq {c.other} /\ Changing(c) \subseteq {c.other}
  BY <1>0 DEF Making, Changing, NewAccount
<1>4. Deletable(c.other)
  BY <1>0, <1>1 DEF Facts, Attached, Deletable, Blank
<1>5. Facts(IdleCall)'
  BY <1>0, <1>1, <1>2, <1>3, <1>4, DeletionFacts
<1>. QED
  BY <1>0, <1>2, <1>5, SoleStep

\* Between requests nothing is known of the invitations or of the plans.
LEMMA OtherTablesFacts ==
    ASSUME ParentInv, NEW c, Facts(c), c.pc \notin Attaching \cup Releasing, ~NewAccount(c),
           UNCHANGED <<users, member, rejected>>
    PROVE  Facts(IdleCall)'
<1>0. IdleCall.pc = "idle" /\ IdleCall.invitation = 0 /\ Facts(IdleCall)
  BY IdleFacts DEF IdleCall
<1>1. Attached(IdleCall)' /\ Detached(IdleCall)' /\ Registered(IdleCall)' /\ Settling(IdleCall)'
  BY <1>0 DEF Attached, Detached, Registered, NewAccount, Settling
<1>2. Agreed(IdleCall)' /\ Whole(IdleCall)'
  BY <1>0 DEF Facts, Agreed, Changing, Clean, Whole, Making, NewAccount, Half, Explained,
     Here, Live
<1>3. Counted(IdleCall)'
  BY <1>0, NobodyAdded
<1>. QED
  BY <1>1, <1>2, <1>3 DEF Facts

LEMMA WritePlanSerial ==
    ASSUME ParentInv, SerialInv, NEW r \in Requests, WritePlan(r)
    PROVE  SerialInv'
<1>. SUFFICES ASSUME ~overlapped PROVE SerialInv'
  BY DEF WritePlan, SerialInv, history
<1>c. PICK c : c = call[r]
  OBVIOUS
<1>0. Busy(r) /\ c.pc = "writePlan" /\ rejected' = rejected
  BY <1>c DEF WritePlan, history, Busy, At
<1>1. CallOK(c) /\ Facts(c)
  BY <1>0, <1>c, SoleActor DEF ParentInv
<1>2. UNCHANGED <<users, member>> /\ call' = [call EXCEPT ![r] = IdleCall]
  BY DEF WritePlan, Finish
<1>3. Facts(IdleCall)'
  BY <1>0, <1>1, <1>2, OtherTablesFacts DEF NewAccount
<1>. QED
  BY <1>0, <1>2, <1>3, SoleStep

LEMMA StoreInvitationSerial ==
    ASSUME ParentInv, SerialInv, NEW r \in Requests, StoreInvitation(r)
    PROVE  SerialInv'
<1>. SUFFICES ASSUME ~overlapped PROVE SerialInv'
  BY DEF StoreInvitation, SerialInv, history
<1>c. PICK c : c = call[r]
  OBVIOUS
<1>0. Busy(r) /\ c.pc = "storeInvitation" /\ rejected' = rejected
  BY <1>c DEF StoreInvitation, history, Busy, At
<1>1. CallOK(c) /\ Facts(c)
  BY <1>0, <1>c, SoleActor DEF ParentInv
<1>2. /\ UNCHANGED <<users, member, plan, entitled>> /\ call' = [call EXCEPT ![r] = IdleCall]
  BY DEF StoreInvitation, Finish
<1>3. Facts(IdleCall)'
  BY <1>0, <1>1, <1>2, OtherTablesFacts DEF NewAccount
<1>. QED
  BY <1>0, <1>2, <1>3, SoleStep

LEMMA MarkExpiredSerial ==
    ASSUME ParentInv, SerialInv, NEW r \in Requests, MarkExpired(r)
    PROVE  SerialInv'
<1>. SUFFICES ASSUME ~overlapped PROVE SerialInv'
  BY DEF MarkExpired, Mark, SerialInv, history
<1>c. PICK c : c = call[r]
  OBVIOUS
<1>0. Busy(r) /\ c.pc = "markExpired" /\ rejected' = rejected
  BY <1>c DEF MarkExpired, Mark, history, Busy, At
<1>1. CallOK(c) /\ Facts(c)
  BY <1>0, <1>c, SoleActor DEF ParentInv
<1>2. /\ UNCHANGED <<users, member, plan, entitled>> /\ call' = [call EXCEPT ![r] = IdleCall]
  BY DEF MarkExpired, Mark, Finish
<1>3. Facts(IdleCall)'
  BY <1>0, <1>1, <1>2, OtherTablesFacts DEF NewAccount
<1>. QED
  BY <1>0, <1>2, <1>3, SoleStep

LEMMA MarkAcceptedSerial ==
    ASSUME ParentInv, SerialInv, NEW r \in Requests, MarkAccepted(r)
    PROVE  SerialInv'
<1>. SUFFICES ASSUME ~overlapped PROVE SerialInv'
  BY DEF MarkAccepted, Mark, SerialInv, history
<1>c. PICK c : c = call[r]
  OBVIOUS
<1>0. Busy(r) /\ c.pc = "markAccepted" /\ rejected' = rejected
  BY <1>c DEF MarkAccepted, Mark, history, Busy, At
<1>1. CallOK(c) /\ Facts(c)
  BY <1>0, <1>c, SoleActor DEF ParentInv
<1>2. /\ UNCHANGED <<users, member, plan, entitled>> /\ call' = [call EXCEPT ![r] = IdleCall]
  BY DEF MarkAccepted, Mark, Finish
<1>3. Facts(IdleCall)'
  BY <1>0, <1>1, <1>2, OtherTablesFacts DEF NewAccount
<1>. QED
  BY <1>0, <1>2, <1>3, SoleStep

\* link writes the path the membership has still to get.
LEMMA LinkSerial ==
    ASSUME ParentInv, SerialInv, NEW r \in Requests, Link(r)
    PROVE  SerialInv'
<1>. SUFFICES ASSUME ~overlapped PROVE SerialInv'
  BY DEF Link, SerialInv, history
<1>c. PICK c : c = call[r]
  OBVIOUS
<1>0. Busy(r) /\ c.pc = "link" /\ rejected' = rejected
  BY <1>c DEF Link, history, Busy, At
<1>1. CallOK(c) /\ Facts(c)
  BY <1>0, <1>c, SoleActor DEF ParentInv
<1>2. /\ c.user \in UserIds /\ c.other \in UserIds /\ c.path \in Seq(UserIds)
      /\ Live(c.user) /\ Live(c.other)
      /\ c.path = users[c.user].path /\ users[c.other].path = <<>>
  BY <1>0, <1>1 DEF CallOK, CallRecord, Shape, Facts, Attached
<1>3. PICK path : path = Append(c.path, c.user)
  OBVIOUS
<1>4. ParentOf(path) = c.user
  BY <1>2, <1>3 DEF ParentOf, Last
<1>5. PICK d : d = [c EXCEPT !.pc = "syncUsers", !.known = TRUE]
  OBVIOUS
<1>6. /\ d.pc = "syncUsers" /\ d.op = c.op /\ d.user = c.user
      /\ d.other = c.other /\ d.email = c.email /\ d.subject = c.subject
      /\ d.path = c.path /\ d.invitation = c.invitation /\ d.known = TRUE
  BY <1>1, <1>5 DEF CallOK, CallRecord
<1>7. /\ users' = [users EXCEPT ![c.other].path = path] /\ call' = [call EXCEPT ![r] = d]
      /\ UNCHANGED <<member, plan, entitled, invitation>>
  BY <1>c, <1>2, <1>3, <1>5 DEF Link, ParentInv
<1>8. /\ users'[c.other].path = path /\ Live(c.other)'
      /\ \A v \in UserIds \ {c.other} : users'[v] = users[v]
      /\ \A v \in UserIds : Here(v)' = Here(v) /\ users'[v].subject = users[v].subject
  BY <1>2, <1>7 DEF ParentInv, StoreOK, StoreTyped, UserRow, Here, Live
<1>9. Attached(d)'
  <2>1. Clean /\ member[c.user] # None => member[c.user].path = c.path
    BY <1>0, <1>1, <1>2 DEF Facts, Agreed, Changing
  <2>2. Clean /\ member[c.other] # None => member[c.other].path = <<>>
    BY <1>0, <1>1, <1>2 DEF Facts, Agreed, Changing
  <2>. QED
    BY <1>0, <1>3, <1>6, <1>7, <1>8, <2>1, <2>2 DEF Attached, Clean
<1>10. Detached(d)' /\ Registered(d)' /\ Settling(d)'
  BY <1>0, <1>1, <1>6, <1>7 DEF Detached, Registered, NewAccount, Facts, Settling
<1>11. Agreed(d)'
  BY <1>0, <1>1, <1>6, <1>7, <1>8 DEF Facts, Agreed, Changing, Clean
<1>12. Whole(d)'
  BY <1>0, <1>1, <1>6, <1>7, <1>8 DEF Facts, Whole, Making, NewAccount, Half, Explained
<1>13. Counted(d)'
  BY <1>6, NobodyAdded
<1>14. Facts(d)'
  BY <1>9, <1>10, <1>11, <1>12, <1>13 DEF Facts
<1>. QED
  BY <1>0, <1>7, <1>14, SoleStep

\* A sub-user is inserted with no membership yet.
LEMMA InsertSubUserSerial ==
    ASSUME ParentInv, SerialInv, NEW r \in Requests, InsertSubUser(r)
    PROVE  SerialInv'
<1>. SUFFICES ASSUME ~overlapped PROVE SerialInv'
  BY DEF InsertSubUser, SerialInv, history
<1>c. PICK c : c = call[r]
  OBVIOUS
<1>0. Busy(r) /\ c.pc = "insertSubUser" /\ rejected' = rejected
  BY <1>c DEF InsertSubUser, history, Busy, At
<1>1. CallOK(c) /\ Facts(c)
  BY <1>0, <1>c, SoleActor DEF ParentInv
<1>2. /\ c.user \in UserIds /\ c.path \in Seq(UserIds) /\ Live(c.user) /\ ~c.known
      /\ c.path = users[c.user].path
  BY <1>0, <1>1 DEF CallOK, CallRecord, Shape, Facts, Attached
<1>3. CASE Taken(c.email)
  <2>1. Finish(r) /\ UNCHANGED <<store, history>>
    BY <1>c, <1>3 DEF InsertSubUser, store
  <2>. QED
    BY <1>0, <1>c, <1>1, <2>1, SoleFinish DEF NewAccount
<1>4. CASE ~Taken(c.email)
  <2>1. PICK u \in UserIds : u = FreshId /\ ~Used(u)
    BY FreshIdIsUnused DEF InsertSubUser
  <2>2. PICK path : path = Append(c.path, c.user)
    OBVIOUS
  <2>3. ParentOf(path) = c.user
    BY <1>2, <2>2 DEF ParentOf, Last
  <2>4. PICK row : row = NewUser(c.email, "here", path, None)
    OBVIOUS
  <2>5. row.state = "live" /\ row.path = path
    BY <2>4 DEF NewUser
  <2>6. PICK d : d = [c EXCEPT !.other = u, !.pc = "syncUsers"]
    OBVIOUS
  <2>7. /\ d.pc = "syncUsers" /\ d.op = c.op /\ d.user = c.user
        /\ d.other = u /\ d.email = c.email /\ d.subject = c.subject
        /\ d.path = c.path /\ d.invitation = c.invitation /\ d.known = c.known
    BY <1>1, <2>6 DEF CallOK, CallRecord
  <2>8. /\ users' = [users EXCEPT ![u] = row]
        /\ UNCHANGED <<member, plan, entitled, invitation>>
    BY <1>c, <1>2, <1>4, <2>1, <2>2, <2>4 DEF InsertSubUser
  <2>9. call' = [call EXCEPT ![r] = d]
    BY <1>c, <1>2, <1>4, <2>1, <2>6 DEF InsertSubUser, ParentInv
  <2>10. users'[u] = row /\ \A v \in UserIds \ {u} : users'[v] = users[v]
    BY <2>8 DEF ParentInv, StoreOK, StoreTyped
  <2>11. Blank(u) /\ Live(u)' /\ ParentOf(users'[u].path) = c.user
    BY <2>1, <2>3, <2>5, <2>10 DEF ParentInv, StoreOK, Live
  <2>12. Attached(d)'
    <3>1. Clean /\ member[c.user] # None => member[c.user].path = c.path
      BY <1>0, <1>1, <1>2 DEF Facts, Agreed, Changing
    <3>. QED
      BY <1>0, <1>2, <2>2, <2>5, <2>7, <2>8, <2>10, <2>11, <3>1 DEF Attached, Clean, Blank
  <2>13. Detached(d)' /\ Registered(d)' /\ Settling(d)'
    BY <1>0, <1>1, <2>7, <2>8 DEF Detached, Registered, NewAccount, Facts, Settling
  <2>14. Agreed(d)'
    BY <1>0, <1>1, <2>7, <2>8, <2>10 DEF Facts, Agreed, Changing, Clean
  <2>15. Whole(d)'
    BY <1>0, <1>1, <1>2, <2>7, <2>8, <2>10
       DEF Facts, Whole, Making, NewAccount, Half, Explained, Here, Live
  <2>16. Counted(d)'
    BY <2>7, NobodyAdded
  <2>17. Facts(d)'
    BY <2>12, <2>13, <2>14, <2>15, <2>16 DEF Facts
  <2>. QED
    BY <1>0, <2>9, <2>17, SoleStep
<1>. QED
  BY <1>3, <1>4

\* The last write of a request that changed a hierarchy: both agree again.
LEMMA SettledFacts ==
    ASSUME ParentInv, NEW c, Facts(c), c.pc \in Attaching \cup Releasing,
           NEW u \in UserIds, u = c.other,
           \A v \in UserIds \ {u} : users'[v] = users[v] /\ member'[v] = member[v],
           \A v \in UserIds : Here(v)' = Here(v) /\ users'[v].subject = users[v].subject,
           UNCHANGED <<plan, entitled, invitation, rejected>>,
           Clean /\ member'[u] # None => member'[u].path = users'[u].path,
           member'[u] = None => member[u] = None /\ (c.pc \in Releasing \/ c.known)
    PROVE  Facts(IdleCall)'
<1>0. IdleCall.pc = "idle" /\ IdleCall.invitation = 0
  BY DEF IdleCall
<1>1. Attached(IdleCall)' /\ Detached(IdleCall)' /\ Registered(IdleCall)' /\ Settling(IdleCall)'
  BY <1>0 DEF Attached, Detached, Registered, NewAccount, Settling
<1>2. Agreed(IdleCall)'
  BY <1>0 DEF Facts, Agreed, Changing, Clean
<1>3. Whole(IdleCall)'
  BY <1>0 DEF Facts, Whole, Making, NewAccount, Half, Explained
<1>4. Counted(IdleCall)'
  BY <1>0, NobodyAdded
<1>. QED
  BY <1>1, <1>2, <1>3, <1>4 DEF Facts

\* The write of the membership makes the two paths agree.
LEMMA SyncUpdateSerial ==
    ASSUME ParentInv, SerialInv, NEW r \in Requests, SyncUpdate(r)
    PROVE  SerialInv'
<1>. SUFFICES ASSUME ~overlapped PROVE SerialInv'
  BY DEF SyncUpdate, SerialInv, history
<1>c. PICK c : c = call[r]
  OBVIOUS
<1>0. Busy(r) /\ c.pc = "syncUpdate" /\ rejected' = rejected
  BY <1>c DEF SyncUpdate, history, Busy, At
<1>1. CallOK(c) /\ Facts(c)
  BY <1>0, <1>c, SoleActor DEF ParentInv
<1>2. CASE member[c.other] # None
  <2>1. PICK u \in UserIds : u = c.other
    BY <1>0, <1>1 DEF CallOK, Shape
  <2>2. PICK row \in MemberRow : row = [member[u] EXCEPT !.path = c.path]
    <3>1. member[u] \in MemberRow
      BY <1>2, <2>1, RowsTyped DEF ParentInv
    <3>2. c.path \in Seq(UserIds)
      BY <1>1 DEF CallOK, CallRecord
    <3>. QED
      BY <3>1, <3>2 DEF MemberRow
  <2>3. /\ member' = [member EXCEPT ![u] = row] /\ call' = [call EXCEPT ![r] = IdleCall]
        /\ UNCHANGED <<users, plan, entitled, invitation>>
    BY <1>c, <1>2, <2>1, <2>2 DEF SyncUpdate, Finish, ParentInv, StoreOK, StoreTyped
  <2>4. row # None /\ row.path = c.path
    BY <1>2, <2>1, <2>2, MemberAssumption DEF ParentInv, StoreOK, StoreTyped, MemberRow
  <2>5. member'[u] = row /\ \A v \in UserIds \ {u} : member'[v] = member[v]
    BY <2>3 DEF ParentInv, StoreOK, StoreTyped
  <2>6. \A v \in UserIds : Here(v)' = Here(v)
    BY <2>3 DEF Here, Live
  <2>7. Clean => c.path = users[u].path
    BY <1>0, <1>1, <2>1 DEF Facts, Attached
  <2>8. Facts(IdleCall)'
    BY <1>0, <1>1, <2>1, <2>3, <2>4, <2>5, <2>6, <2>7, SettledFacts
  <2>. QED
    BY <1>0, <2>3, <2>8, SoleStep
<1>3. CASE member[c.other] = None
  <2>1. call' = [call EXCEPT ![r] = Compensate(c)] /\ UNCHANGED <<store, history>>
    BY <1>c, <1>3 DEF SyncUpdate, store
  <2>. QED
    BY <1>0, <1>1, <2>1, CompensateFacts, SoleRead
<1>. QED
  BY <1>2, <1>3

\* So does a new membership.
LEMMA SyncCreateSerial ==
    ASSUME ParentInv, SerialInv, NEW r \in Requests, SyncCreate(r)
    PROVE  SerialInv'
<1>. SUFFICES ASSUME ~overlapped PROVE SerialInv'
  BY DEF SyncCreate, SerialInv, history
<1>c. PICK c : c = call[r]
  OBVIOUS
<1>0. Busy(r) /\ c.pc = "syncCreate" /\ rejected' = rejected
  BY <1>c DEF SyncCreate, history, Busy, At
<1>1. CallOK(c) /\ Facts(c)
  BY <1>0, <1>c, SoleActor DEF ParentInv
<1>2. CASE member[c.other] = None
  <2>1. PICK u \in UserIds : u = c.other
    BY <1>0, <1>1 DEF CallOK, Shape
  <2>2. PICK row \in MemberRow : row = [status |-> c.input, path |-> c.path]
    BY <1>0, <1>1 DEF MemberRow, CallOK, CallRecord, Shape
  <2>3. /\ member' = [member EXCEPT ![u] = row] /\ call' = [call EXCEPT ![r] = IdleCall]
        /\ UNCHANGED <<users, plan, entitled, invitation>>
    BY <1>c, <1>2, <2>1, <2>2 DEF SyncCreate, Finish
  <2>4. row # None /\ row.path = c.path
    BY <2>2, MemberAssumption
  <2>5. member'[u] = row /\ \A v \in UserIds \ {u} : member'[v] = member[v]
    BY <2>3 DEF ParentInv, StoreOK, StoreTyped
  <2>6. \A v \in UserIds : Here(v)' = Here(v)
    BY <2>3 DEF Here, Live
  <2>7. Clean => c.path = users[u].path
    BY <1>0, <1>1, <2>1 DEF Facts, Attached
  <2>8. Facts(IdleCall)'
    BY <1>0, <1>1, <2>1, <2>3, <2>4, <2>5, <2>6, <2>7, SettledFacts
  <2>. QED
    BY <1>0, <2>3, <2>8, SoleStep
<1>3. CASE member[c.other] # None
  <2>1. PICK d : d = [c EXCEPT !.pc = "syncRaced"]
    OBVIOUS
  <2>2. /\ d.pc = "syncRaced" /\ d.op = c.op /\ d.user = c.user
        /\ d.other = c.other /\ d.email = c.email /\ d.subject = c.subject
        /\ d.path = c.path /\ d.invitation = c.invitation /\ d.known = c.known
    BY <1>1, <2>1 DEF CallOK, CallRecord
  <2>3. call' = [call EXCEPT ![r] = d] /\ UNCHANGED <<store, history>>
    BY <1>c, <1>3, <2>1 DEF SyncCreate, Goto, store, ParentInv
  <2>4. Facts(d)
    <3>1. Attached(d) /\ Detached(d)
      BY <1>0, <1>1, <2>2 DEF Facts, Attached, Detached
    <3>2. Agreed(d) /\ Registered(d) /\ Whole(d)
      BY <1>0, <1>1, <2>2 DEF Facts, Agreed, Changing, Registered, NewAccount, Whole, Making
    <3>3. Counted(d) /\ Settling(d)
      BY <1>0, <1>1, <2>2 DEF Facts, Counted, Adding, Settling
    <3>. QED
      BY <3>1, <3>2, <3>3 DEF Facts
  <2>. QED
    BY <1>0, <2>3, <2>4, SoleRead
<1>. QED
  BY <1>2, <1>3

\* The compensation makes a linked account the root it was.
LEMMA UndoLinkSerial ==
    ASSUME ParentInv, SerialInv, NEW r \in Requests, UndoLink(r)
    PROVE  SerialInv'
<1>. SUFFICES ASSUME ~overlapped PROVE SerialInv'
  BY DEF UndoLink, SerialInv, history
<1>c. PICK c : c = call[r]
  OBVIOUS
<1>0. Busy(r) /\ c.pc = "undoLink" /\ rejected' = rejected
  BY <1>c DEF UndoLink, history, Busy, At
<1>1. CallOK(c) /\ Facts(c)
  BY <1>0, <1>c, SoleActor DEF ParentInv
<1>u. PICK u \in UserIds : u = c.other
  BY <1>0, <1>1 DEF CallOK, Shape
<1>2. Live(u) /\ c.known /\ (Clean /\ member[u] # None => member[u].path = <<>>)
  BY <1>0, <1>1, <1>u DEF Facts, Attached
<1>3. /\ users' = [users EXCEPT ![u].path = <<>>] /\ call' = [call EXCEPT ![r] = IdleCall]
      /\ UNCHANGED <<member, plan, entitled, invitation>>
  BY <1>c, <1>u, <1>2 DEF UndoLink, Finish
<1>4. /\ users'[u].path = <<>>
      /\ \A v \in UserIds \ {u} : users'[v] = users[v]
      /\ \A v \in UserIds : Here(v)' = Here(v) /\ users'[v].subject = users[v].subject
  BY <1>3 DEF ParentInv, StoreOK, StoreTyped, UserRow, Here, Live
<1>6. Facts(IdleCall)'
  BY <1>0, <1>1, <1>u, <1>2, <1>3, <1>4, SettledFacts
<1>. QED
  BY <1>0, <1>3, <1>6, SoleStep

\* detach leaves the membership behind, until the next write.
LEMMA DetachSerial ==
    ASSUME ParentInv, SerialInv, NEW r \in Requests, Detach(r)
    PROVE  SerialInv'
<1>. SUFFICES ASSUME ~overlapped PROVE SerialInv'
  BY DEF Detach, SerialInv, history
<1>c. PICK c : c = call[r]
  OBVIOUS
<1>0. Busy(r) /\ c.pc = "detach" /\ rejected' = rejected
  BY <1>c DEF Detach, history, Busy, At
<1>1. CallOK(c) /\ Facts(c)
  BY <1>0, <1>c, SoleActor DEF ParentInv
<1>u. PICK u \in UserIds : u = c.other
  BY <1>0, <1>1 DEF CallOK, Shape
<1>2. /\ Here(u) /\ c.path = users[u].path /\ ParentOf(c.path) = c.user
      /\ Clean /\ member[u] # None => member[u].path = users[u].path
  BY <1>0, <1>1, <1>u DEF CallOK, Shape, ParentOf, Facts, Detached, Agreed, Changing
<1>3. PICK d : d = [c EXCEPT !.pc = "detachRead"]
  OBVIOUS
<1>4. /\ d.pc = "detachRead" /\ d.op = c.op /\ d.user = c.user
      /\ d.other = c.other /\ d.email = c.email /\ d.subject = c.subject
      /\ d.path = c.path /\ d.invitation = c.invitation /\ d.known = c.known
  BY <1>1, <1>3 DEF CallOK, CallRecord
<1>5. /\ users' = [users EXCEPT ![u].path = <<>>] /\ call' = [call EXCEPT ![r] = d]
      /\ UNCHANGED <<member, plan, entitled, invitation>>
  BY <1>c, <1>u, <1>2, <1>3 DEF Detach, Goto, Here, ParentInv
<1>6. /\ users'[u].path = <<>>
      /\ \A v \in UserIds \ {u} : users'[v] = users[v]
      /\ \A v \in UserIds : Here(v)' = Here(v) /\ users'[v].subject = users[v].subject
  BY <1>5 DEF ParentInv, StoreOK, StoreTyped, UserRow, Here, Live
<1>7. Attached(d)' /\ Registered(d)' /\ Settling(d)'
  BY <1>0, <1>1, <1>4, <1>5 DEF Attached, Registered, NewAccount, Facts, Settling
<1>8. Detached(d)'
  BY <1>0, <1>u, <1>2, <1>4, <1>5, <1>6 DEF Detached, Clean
<1>9. Agreed(d)'
  BY <1>0, <1>1, <1>u, <1>4, <1>5, <1>6 DEF Facts, Agreed, Changing, Clean
<1>10. Whole(d)'
  BY <1>0, <1>1, <1>4, <1>5, <1>6 DEF Facts, Whole, Making, NewAccount, Half, Explained
<1>11. Counted(d)'
  BY <1>1, <1>4, <1>5, NobodyAdded
<1>12. Facts(d)'
  BY <1>7, <1>8, <1>9, <1>10, <1>11 DEF Facts
<1>. QED
  BY <1>0, <1>5, <1>12, SoleStep

\* The second write of a revocation makes the two paths agree.
LEMMA DetachWriteSerial ==
    ASSUME ParentInv, SerialInv, NEW r \in Requests, DetachWrite(r)
    PROVE  SerialInv'
<1>. SUFFICES ASSUME ~overlapped PROVE SerialInv'
  BY DEF DetachWrite, SerialInv, history
<1>c. PICK c : c = call[r]
  OBVIOUS
<1>0. Busy(r) /\ c.pc = "detachWrite" /\ rejected' = rejected
  BY <1>c DEF DetachWrite, history, Busy, At
<1>1. CallOK(c) /\ Facts(c)
  BY <1>0, <1>c, SoleActor DEF ParentInv
<1>u. PICK u \in UserIds : u = c.other
  BY <1>0, <1>1 DEF CallOK, Shape
<1>2. CASE member[u] # None
  <2>1. PICK row \in MemberRow : row = [member[u] EXCEPT !.path = <<>>]
    <3>1. <<>> \in Seq(UserIds)
      OBVIOUS
    <3>. QED
      BY <1>2, <3>1 DEF ParentInv, StoreOK, StoreTyped, MemberRow
  <2>2. /\ member' = [member EXCEPT ![u] = row] /\ call' = [call EXCEPT ![r] = IdleCall]
        /\ UNCHANGED <<users, plan, entitled, invitation>>
    BY <1>c, <1>u, <1>2, <2>1 DEF DetachWrite, Finish, ParentInv, StoreOK, StoreTyped
  <2>3. row # None /\ row.path = <<>>
    BY <1>2, <2>1, MemberAssumption DEF ParentInv, StoreOK, StoreTyped, MemberRow
  <2>4. member'[u] = row /\ \A v \in UserIds \ {u} : member'[v] = member[v]
    BY <2>2 DEF ParentInv, StoreOK, StoreTyped
  <2>5. \A v \in UserIds : Here(v)' = Here(v)
    BY <2>2 DEF Here, Live
  <2>6. users[u].path = <<>>
    BY <1>0, <1>1, <1>u DEF Facts, Detached
  <2>7. Facts(IdleCall)'
    BY <1>0, <1>1, <1>u, <2>2, <2>3, <2>4, <2>5, <2>6, SettledFacts
  <2>. QED
    BY <1>0, <2>2, <2>7, SoleStep
<1>3. CASE member[u] = None
  <2>1. PICK d : d = [c EXCEPT !.pc = "undoRevoke"]
    OBVIOUS
  <2>2. /\ d.pc = "undoRevoke" /\ d.op = c.op /\ d.user = c.user
        /\ d.other = c.other /\ d.email = c.email /\ d.subject = c.subject
        /\ d.path = c.path /\ d.invitation = c.invitation /\ d.known = c.known
    BY <1>1, <2>1 DEF CallOK, CallRecord
  <2>3. call' = [call EXCEPT ![r] = d] /\ UNCHANGED <<store, history>>
    BY <1>c, <1>u, <1>3, <2>1 DEF DetachWrite, Goto, store, ParentInv
  <2>4. Facts(d)
    <3>1. Attached(d) /\ Detached(d)
      BY <1>0, <1>1, <2>2 DEF Facts, Attached, Detached
    <3>2. Agreed(d) /\ Registered(d) /\ Whole(d)
      BY <1>0, <1>1, <2>2 DEF Facts, Agreed, Changing, Registered, NewAccount, Whole, Making
    <3>3. Counted(d) /\ Settling(d)
      BY <1>0, <1>1, <2>2 DEF Facts, Counted, Adding, Settling
    <3>. QED
      BY <3>1, <3>2, <3>3 DEF Facts
  <2>. QED
    BY <1>0, <2>3, <2>4, SoleRead
<1>. QED
  BY <1>2, <1>3

\* The compensation restores the path the membership still has.
LEMMA UndoRevokeSerial ==
    ASSUME ParentInv, SerialInv, NEW r \in Requests, UndoRevoke(r)
    PROVE  SerialInv'
<1>. SUFFICES ASSUME ~overlapped PROVE SerialInv'
  BY DEF UndoRevoke, SerialInv, history
<1>c. PICK c : c = call[r]
  OBVIOUS
<1>0. Busy(r) /\ c.pc = "undoRevoke" /\ rejected' = rejected
  BY <1>c DEF UndoRevoke, history, Busy, At
<1>1. CallOK(c) /\ Facts(c)
  BY <1>0, <1>c, SoleActor DEF ParentInv
<1>u. PICK u \in UserIds : u = c.other
  BY <1>0, <1>1 DEF CallOK, Shape
<1>2. /\ Here(u) /\ c.path \in Seq(UserIds) /\ c.path # <<>> /\ Last(c.path) = c.user
      /\ AnchoredPath(c.path)
      /\ Clean /\ member[u] # None => member[u].path = c.path
  BY <1>0, <1>1, <1>u DEF CallOK, CallRecord, Shape, Sound, Facts, Detached
<1>3. Live(c.user) /\ ParentOf(c.path) = c.user
  <2>1. PICK path \in Seq(UserIds) : path = c.path
    BY <1>2
  <2>2. Len(path) \in DOMAIN path /\ Last(path) = path[Len(path)]
    BY <1>2, <2>1 DEF Last
  <2>. QED
    BY <1>2, <2>1, <2>2 DEF AnchoredPath, Anchored, HasMembership, Here, ParentOf
<1>4. /\ users' = [users EXCEPT ![u].path = c.path] /\ call' = [call EXCEPT ![r] = IdleCall]
      /\ UNCHANGED <<member, plan, entitled, invitation>>
  BY <1>c, <1>u, <1>2, <1>3 DEF UndoRevoke, Finish, Here
<1>5. /\ users'[u].path = c.path
      /\ \A v \in UserIds \ {u} : users'[v] = users[v]
      /\ \A v \in UserIds : Here(v)' = Here(v) /\ users'[v].subject = users[v].subject
  BY <1>4 DEF ParentInv, StoreOK, StoreTyped, UserRow, Here, Live
<1>7. Facts(IdleCall)'
  BY <1>0, <1>1, <1>u, <1>2, <1>4, <1>5, SettledFacts
<1>. QED
  BY <1>0, <1>4, <1>7, SoleStep

\* A linked account has a subject from now on.
LEMMA LinkedFacts ==
    ASSUME ParentInv, NEW d, Facts(d), d.pc \in {"idle", "markAccepted"},
           \A v \in UserIds : /\ Live(v)' = Live(v) /\ Here(v)' = Here(v)
                              /\ users'[v].path = users[v].path
                              /\ users'[v].email = users[v].email
                              /\ users[v].subject # None => users'[v].subject # None,
           UNCHANGED <<member, plan, entitled, invitation, rejected>>
    PROVE  Facts(d)'
<1>1. Attached(d)' /\ Detached(d)' /\ Registered(d)'
  BY DEF Attached, Detached, Registered, NewAccount
<1>2. Agreed(d)'
  BY DEF Facts, Agreed, Changing, Clean
<1>3. Whole(d)'
  BY DEF Facts, Whole, Making, NewAccount, Half, Explained
<1>4. Counted(d)'
  BY NobodyAdded
<1>5. Settling(d)'
  BY DEF Facts, Settling, Taken, WithEmail
<1>. QED
  BY <1>1, <1>2, <1>3, <1>4, <1>5 DEF Facts

LEMMA LinkSubjectSerial ==
    ASSUME ParentInv, SerialInv, NEW r \in Requests, LinkSubject(r)
    PROVE  SerialInv'
<1>. SUFFICES ASSUME ~overlapped PROVE SerialInv'
  BY DEF LinkSubject, SerialInv, history
<1>c. PICK c : c = call[r]
  OBVIOUS
<1>0. Busy(r) /\ c.pc = "linkSubject" /\ rejected' = rejected
  BY <1>c DEF LinkSubject, history, Busy, At
<1>1. CallOK(c) /\ Facts(c)
  BY <1>0, <1>c, SoleActor DEF ParentInv
<1>u. PICK u \in UserIds : u = c.other
  BY <1>0, <1>1 DEF CallOK, Shape
<1>2. Live(u) /\ c.subject # None
  BY <1>0, <1>1, <1>u DEF CallOK, Shape, Facts, Settling
<1>3. PICK d : d = AfterProvision(c)
  OBVIOUS
<1>4. Facts(d) /\ d.pc \in {"idle", "markAccepted"}
  BY <1>0, <1>1, <1>3, AfterProvisionFacts, AfterProvisionIs
<1>5. /\ users' = [users EXCEPT ![u].subject = c.subject] /\ call' = [call EXCEPT ![r] = d]
      /\ UNCHANGED <<member, plan, entitled, invitation>>
  BY <1>c, <1>u, <1>2, <1>3 DEF LinkSubject
<1>6. \A v \in UserIds : /\ Live(v)' = Live(v) /\ Here(v)' = Here(v)
                         /\ users'[v].path = users[v].path
                         /\ users'[v].email = users[v].email
                         /\ users[v].subject # None => users'[v].subject # None
  BY <1>2, <1>5 DEF ParentInv, StoreOK, StoreTyped, UserRow, Here, Live
<1>7. Facts(d)'
  BY <1>0, <1>4, <1>5, <1>6, LinkedFacts
<1>. QED
  BY <1>0, <1>5, <1>7, SoleStep

LEMMA WriteUserSerial ==
    ASSUME ParentInv, SerialInv, NEW r \in Requests, WriteUser(r)
    PROVE  SerialInv'
<1>. SUFFICES ASSUME ~overlapped PROVE SerialInv'
  BY DEF WriteUser, SerialInv, history
<1>c. PICK c : c = call[r]
  OBVIOUS
<1>0. Busy(r) /\ c.pc = "writeUser" /\ rejected' = rejected
  BY <1>c DEF WriteUser, history, Busy, At
<1>1. CallOK(c) /\ Facts(c)
  BY <1>0, <1>c, SoleActor DEF ParentInv
<1>u. PICK u \in UserIds : u = c.other
  BY <1>0, <1>1 DEF CallOK, Shape
<1>2. IdleCall.pc = "idle" /\ IdleCall.invitation = 0 /\ Facts(IdleCall)
  BY <1>0, <1>1, IdleFacts DEF IdleCall, NewAccount
<1>3. call' = [call EXCEPT ![r] = IdleCall] /\ UNCHANGED <<member, plan, entitled, invitation>>
  BY DEF WriteUser, Finish
<1>4. \A v \in UserIds : /\ Here(v)' = Here(v) /\ users'[v].path = users[v].path
                         /\ users'[v].subject = users[v].subject
  BY <1>c, <1>u DEF WriteUser, ParentInv, StoreOK, StoreTyped, UserRow, Here, Live
<1>5. Facts(IdleCall)'
  <2>1. Attached(IdleCall)' /\ Detached(IdleCall)' /\ Registered(IdleCall)' /\ Settling(IdleCall)'
    BY <1>2 DEF Attached, Detached, Registered, NewAccount, Settling
  <2>2. Agreed(IdleCall)'
    BY <1>0, <1>2, <1>3, <1>4 DEF Facts, Agreed, Changing, Clean
  <2>3. Whole(IdleCall)'
    BY <1>0, <1>2, <1>3, <1>4 DEF Facts, Whole, Making, NewAccount, Half, Explained
  <2>4. Counted(IdleCall)'
    BY <1>2, <1>3, NobodyAdded
  <2>. QED
    BY <2>1, <2>2, <2>3, <2>4 DEF Facts
<1>. QED
  BY <1>0, <1>3, <1>5, SoleStep

\* expiresAt passes while the request goes on.
LEMMA LapseSerial ==
    ASSUME ParentInv, SerialInv, NEW k \in Invitations, Lapse(k)
    PROVE  SerialInv'
<1>. SUFFICES ASSUME ~overlapped PROVE SerialInv'
  BY DEF Lapse, SerialInv, history
<1>1. PICK r \in Requests : /\ \A q \in Requests \ {r} : call[q] = IdleCall
                            /\ Facts(call[r])
  BY DEF SerialInv
<1>2. PICK c : c = call[r] /\ CallOK(c) /\ Facts(c)
  BY <1>1 DEF ParentInv
<1>3. UNCHANGED <<users, member, plan, entitled, call, rejected>>
  BY DEF Lapse, history
<1>4. \A j \in Invitations : /\ invitation'[j].status = invitation[j].status
                            /\ invitation'[j].email = invitation[j].email
  BY DEF Lapse, ParentInv, StoreOK, StoreTyped, InvitationRow
<1>5. c.pc \in UsesInvitation \/ c.invitation # 0 => c.invitation \in Invitations
  BY <1>2 DEF CallOK, Shape, CallRecord
<1>6. Attached(c)' /\ Detached(c)' /\ Agreed(c)'
  BY <1>2, <1>3 DEF Facts, Attached, Detached, Agreed, Changing, Clean, Live, Here, Blank
<1>7. Registered(c)' /\ Whole(c)'
  BY <1>2, <1>3 DEF Facts, Registered, NewAccount, Whole, Making, Half, Explained, Here, Live
<1>8. Counted(c)'
  BY <1>2, <1>3 DEF Facts, Counted, Adding, Descendants, Here, Live
<1>9. Settling(c)'
  <2>1. Taken(c.email)' = Taken(c.email) /\ Live(c.other)' = Live(c.other)
    BY <1>3 DEF Taken, WithEmail, Live
  <2>. QED
    BY <1>2, <1>3, <1>4, <1>5, <2>1 DEF Facts, Settling
<1>10. Facts(c)'
  BY <1>6, <1>7, <1>8, <1>9 DEF Facts
<1>. QED
  BY <1>1, <1>2, <1>3, <1>10 DEF SerialInv

-----------------------------------------------------------------------------
(* Rejected calls, and the first steps *)

\* One more step has rejected: what holds unless one did still holds.
LEMMA FactsSurvive ==
    ASSUME UNCHANGED store, rejected \subseteq rejected', NEW d, Facts(d)
    PROVE  Facts(d)'
<1>0. UNCHANGED <<users, member, plan, entitled, invitation>>
  BY DEF store
<1>1. \A u : Descendants(u)' = Descendants(u)
  BY <1>0 DEF Descendants, Here, Live
<1>2. \A e : Taken(e)' = Taken(e)
  BY <1>0 DEF Taken, WithEmail, Live
<1>3. Clean' => Clean
  BY DEF Clean
<1>4. Attached(d)' /\ Detached(d)' /\ Agreed(d)'
  BY <1>0, <1>3 DEF Facts, Attached, Detached, Agreed, Changing, Live, Here, Blank
<1>5. Registered(d)'
  BY <1>0 DEF Facts, Registered, NewAccount
<1>6. Whole(d)'
  BY <1>0 DEF Facts, Whole, Making, NewAccount, Half, Explained, Here, Live
<1>7. Counted(d)'
  BY <1>0, <1>1 DEF Facts, Counted, Adding
<1>8. Settling(d)'
  BY <1>0, <1>2 DEF Facts, Settling, Live
<1>. QED
  BY <1>4, <1>5, <1>6, <1>7, <1>8 DEF Facts

\* A rejection hands over to the catch that undoes what was done.
LEMMA FailSerial ==
    ASSUME ParentInv, SerialInv, NEW r \in Requests, Fail(r)
    PROVE  SerialInv'
<1>c. PICK c : c = call[r]
  OBVIOUS
<1>0. /\ Busy(r) /\ ~overlapped /\ rejected' = rejected \cup {c.pc} /\ UNCHANGED store
      /\ call' = [call EXCEPT ![r] = OnReject(c)]
  BY <1>c DEF Fail
<1>1. CallOK(c) /\ Facts(c)
  BY <1>0, <1>c, SoleActor DEF ParentInv
<1>2. UNCHANGED <<users, member, plan, entitled, invitation>>
  BY <1>0 DEF store
<1>. DEFINE idle == IdleCall
<1>3. idle.pc = "idle" /\ idle.invitation = 0
  BY DEF IdleCall
<1>4. ASSUME NEW d, d = OnReject(c), Facts(d)'
      PROVE  SerialInv'
  BY <1>0, <1>4, SoleStep
<1>5. ASSUME NEW d, d = OnReject(c), Facts(d)
      PROVE  SerialInv'
  BY <1>0, <1>4, <1>5, FactsSurvive
<1>6. ASSUME c.pc \in Rollback \cup Provisioning, c.op # "identity"
      PROVE  SerialInv'
  <2>1. PICK d : d = [c EXCEPT !.pc = "dropEntitlements"]
    OBVIOUS
  <2>2. /\ d.pc = "dropEntitlements" /\ d.op = c.op /\ d.user = c.user
        /\ d.other = c.other /\ d.email = c.email /\ d.subject = c.subject
        /\ d.path = c.path /\ d.invitation = c.invitation /\ d.known = c.known
    BY <1>1, <2>1 DEF CallOK, CallRecord
  <2>3. d = OnReject(c)
    BY <1>6, <2>1 DEF OnReject, Rollback, Undone
  <2>5. c.pc \in {"createPurchase", "grant", "provisionUser", "reread"}
    BY <1>6 DEF Rollback
  <2>4. Facts(d)
    <3>1. Attached(d) /\ Detached(d)
      BY <1>1, <2>2, <2>5 DEF Facts, Attached, Detached
    <3>2. Agreed(d) /\ Registered(d) /\ Whole(d)
      BY <1>1, <2>2, <2>5 DEF Facts, Agreed, Changing, Registered, NewAccount, Whole, Making
    <3>3. Counted(d) /\ Settling(d)
      BY <1>1, <2>2, <2>5 DEF Facts, Counted, Adding, Settling
    <3>. QED
      BY <3>1, <3>2, <3>3 DEF Facts
  <2>. QED
    BY <1>5, <2>3, <2>4
<1>7. ASSUME c.pc \in Provisioning, c.op = "identity"
      PROVE  SerialInv'
  <2>1. OnReject(c) = IdleCall
    BY <1>7 DEF OnReject, Rollback, Undone
  <2>2. Attached(idle)' /\ Detached(idle)' /\ Registered(idle)' /\ Settling(idle)'
    BY <1>3 DEF Attached, Detached, Registered, NewAccount, Settling
  <2>3. Agreed(idle)'
    BY <1>0, <1>1, <1>2, <1>3, <1>7 DEF Facts, Agreed, Changing, Clean
  <2>4. Whole(idle)'
    BY <1>0, <1>1, <1>2, <1>3, <1>7
       DEF Facts, Whole, Making, Registered, NewAccount, Half, Explained, Here, Live
  <2>5. Counted(idle)'
    BY <1>1, <1>2, <1>3, NobodyAdded
  <2>6. Facts(idle)'
    BY <2>2, <2>3, <2>4, <2>5 DEF Facts
  <2>. QED
    BY <1>4, <2>1, <2>6
<1>8. ASSUME c.pc = "provision"
      PROVE  SerialInv'
  <2>1. PICK d : d = [c EXCEPT !.pc = "reread"]
    OBVIOUS
  <2>2. /\ d.pc = "reread" /\ d.op = c.op /\ d.user = c.user
        /\ d.other = c.other /\ d.email = c.email /\ d.subject = c.subject
        /\ d.path = c.path /\ d.invitation = c.invitation /\ d.known = c.known
    BY <1>1, <2>1 DEF CallOK, CallRecord
  <2>3. d = OnReject(c)
    BY <1>8, <2>1 DEF OnReject, Rollback
  <2>4. Attached(d)' /\ Detached(d)' /\ Settling(d)'
    BY <1>1, <1>2, <1>8, <2>2 DEF Attached, Detached, Facts, Settling
  <2>5. Agreed(d)'
    BY <1>0, <1>1, <1>2, <1>8, <2>2 DEF Facts, Agreed, Changing, Clean
  <2>6. Registered(d)'
    BY <1>0, <1>1, <1>2, <1>8, <2>2 DEF Facts, Registered, NewAccount
  <2>7. Whole(d)'
    BY <1>0, <1>1, <1>2, <1>8, <2>2
       DEF Facts, Whole, Making, NewAccount, Half, Explained, Here, Live
  <2>8. Counted(d)'
    BY <1>1, <1>2, <2>2, NobodyAdded
  <2>9. Facts(d)'
    BY <2>4, <2>5, <2>6, <2>7, <2>8 DEF Facts
  <2>. QED
    BY <1>4, <2>3, <2>9
<1>9. ASSUME c.pc \in Syncing
      PROVE  SerialInv'
  <2>1. OnReject(c) = Compensate(c)
    BY <1>9 DEF OnReject, Rollback
  <2>. QED
    BY <1>1, <1>5, <1>9, <2>1, CompensateFacts
<1>10. ASSUME c.pc \in Detaching \cup {"syncCreate", "jitCreate"}
       PROVE  SerialInv'
  <2>1. PICK pc : pc = IF c.pc \in Detaching THEN "undoRevoke"
                       ELSE IF c.pc = "syncCreate" THEN "syncRaced" ELSE "byEmailAgain"
    OBVIOUS
  <2>2. PICK d : d = [c EXCEPT !.pc = pc]
    OBVIOUS
  <2>3. /\ d.pc = pc /\ d.op = c.op /\ d.user = c.user
        /\ d.other = c.other /\ d.email = c.email /\ d.subject = c.subject
        /\ d.path = c.path /\ d.invitation = c.invitation /\ d.known = c.known
    BY <1>1, <2>2 DEF CallOK, CallRecord
  <2>4. d = OnReject(c)
    BY <1>10, <2>1, <2>2 DEF OnReject, Rollback
  <2>5. Facts(d)
    <3>1. Attached(d) /\ Detached(d)
      BY <1>1, <1>10, <2>1, <2>3 DEF Facts, Attached, Detached
    <3>2. Agreed(d) /\ Registered(d) /\ Whole(d)
      BY <1>1, <1>10, <2>1, <2>3 DEF Facts, Agreed, Changing, Registered, NewAccount, Whole, Making
    <3>3. Counted(d) /\ Settling(d)
      BY <1>1, <1>10, <2>1, <2>3 DEF Facts, Counted, Adding, Settling
    <3>. QED
      BY <3>1, <3>2, <3>3 DEF Facts
  <2>. QED
    BY <1>5, <2>4, <2>5
\* Nothing undoes what a failed cleanup leaves, nor the read after the try.
<1>11. ASSUME c.pc \in Cleanups \cup {"enrich"}
       PROVE  SerialInv'
  <2>1. OnReject(c) = IdleCall
    BY <1>11 DEF OnReject, Rollback, Cleanups
  <2>2. Attached(idle)' /\ Detached(idle)' /\ Registered(idle)' /\ Settling(idle)'
    BY <1>3 DEF Attached, Detached, Registered, NewAccount, Settling
  <2>3. Agreed(idle)'
    BY <1>0, <1>1, <1>2, <1>3, <1>11 DEF Facts, Agreed, Changing, Clean
  <2>4. Whole(idle)'
    BY <1>0, <1>11 DEF Whole
  <2>5. Counted(idle)'
    BY <1>1, <1>2, <1>3, NobodyAdded
  <2>6. Facts(idle)'
    BY <2>2, <2>3, <2>4, <2>5 DEF Facts
  <2>. QED
    BY <1>4, <2>1, <2>6
<1>12. ASSUME c.pc \notin Rollback \cup Provisioning \cup Syncing \cup Detaching \cup Cleanups
                         \cup {"provision", "syncCreate", "jitCreate", "enrich"}
       PROVE  SerialInv'
  <2>1. OnReject(c) = IdleCall
    BY <1>12 DEF OnReject, Rollback
  <2>2. Facts(IdleCall)
    BY <1>1, <1>12, IdleFacts DEF NewAccount, Cleanups, Rollback
  <2>. QED
    BY <1>5, <2>1, <2>2
<1>13. ~(c.pc \in Rollback /\ c.op = "identity")
  BY <1>1 DEF CallOK, Shape, Rollback
<1>. QED
  BY <1>6, <1>7, <1>8, <1>9, <1>10, <1>11, <1>12, <1>13

\* The first step of a request that overlaps no other.
LEMMA BeginSerial ==
    ASSUME ParentInv, SerialInv, NEW r \in Requests, NEW op, NEW d, Begin(r, op, d),
           d.pc \in {"createUser", "storeInvitation", "readInvitation", "findParent",
                     "findSubUser", "byClerk", "readUser", "checkEmail", "dropUser",
                     "writePlan"},
           d.pc = "dropUser" => d.op = "delete",
           d.pc = "findParent" => Live(d.user) /\ ~d.known,
           d.pc = "storeInvitation" => invitation[d.invitation].status = "unsent",
           d.invitation # 0 => d.pc \in {"storeInvitation", "readInvitation"}
    PROVE  SerialInv'
<1>. SUFFICES ASSUME ~overlapped' PROVE SerialInv'
  BY DEF SerialInv
<1>1. /\ AtRest /\ ~overlapped /\ call' = [call EXCEPT ![r] = d]
      /\ UNCHANGED <<store, rejected>>
  BY DEF Begin
<1>2. \A q \in Requests : call[q] = IdleCall
  BY <1>1 DEF AtRest, Busy, ParentInv, CallOK, Shape
<1>3. Facts(IdleCall) /\ IdleCall.pc = "idle"
  BY <1>1, <1>2 DEF SerialInv, IdleCall
<1>4. Facts(d)
  <2>1. Attached(d) /\ Detached(d) /\ Registered(d) /\ Settling(d)
    BY DEF Attached, Detached, Registered, NewAccount, Settling
  <2>2. Agreed(d) /\ Whole(d)
    BY <1>3 DEF Facts, Agreed, Changing, Whole, Making, NewAccount
  <2>3. Counted(d)
    BY <1>3 DEF Facts, Counted, Adding
  <2>. QED
    BY <2>1, <2>2, <2>3 DEF Facts
<1>5. Facts(d)'
  BY <1>1, <1>4, FactsStay
<1>6. call'[r] = d /\ \A q \in Requests \ {r} : call'[q] = IdleCall
  BY <1>1, <1>2 DEF ParentInv
<1>. QED
  BY <1>5, <1>6 DEF SerialInv

\* A request begins with nothing in progress, or overlaps.
LEMMA BeginAnySerial ==
    ASSUME ParentInv, SerialInv, NEW r \in Requests, BeginAny(r)
    PROVE  SerialInv'
<1>1. ASSUME NEW e \in Emails, BeginRegister(r, e) \/ BeginAdminCreate(r, e)
      PROVE  SerialInv'
  <2>1. PICK op, d : /\ Begin(r, op, d)
                     /\ d = [IdleCall EXCEPT !.op = op, !.pc = "createUser", !.email = e]
    BY <1>1 DEF BeginRegister, BeginAdminCreate
  <2>2. d.pc = "createUser" /\ d.invitation = 0
    BY <2>1 DEF IdleCall
  <2>. QED
    BY <2>1, <2>2, BeginSerial
<1>2. ASSUME NEW e \in Emails, NEW p \in UserIds, BeginSubUser(r, p, e)
      PROVE  SerialInv'
  <2>1. PICK d : d = [IdleCall EXCEPT !.op = "subUser", !.pc = "findParent", !.user = p,
                                      !.email = e]
    OBVIOUS
  <2>2. d.pc = "findParent" /\ d.invitation = 0 /\ d.user = p /\ ~d.known
    BY <2>1 DEF IdleCall
  <2>. QED
    BY <1>2, <2>1, <2>2, SignedInIsLive, BeginSerial DEF BeginSubUser
<1>3. ASSUME NEW e \in Emails, NEW u \in UserIds, BeginProfile(r, u, e)
      PROVE  SerialInv'
  <2>1. PICK d : d = [IdleCall EXCEPT !.op = "profile", !.pc = "checkEmail", !.other = u,
                                      !.email = e]
    OBVIOUS
  <2>2. d.pc = "checkEmail" /\ d.invitation = 0
    BY <2>1 DEF IdleCall
  <2>. QED
    BY <1>3, <2>1, <2>2, BeginSerial DEF BeginProfile
<1>4. ASSUME NEW e \in Emails, NEW s \in Subjects, BeginIdentity(r, s, e)
      PROVE  SerialInv'
  <2>1. PICK d : d = [IdleCall EXCEPT !.op = "identity", !.pc = "byClerk", !.subject = s,
                                      !.email = e]
    OBVIOUS
  <2>2. d.pc = "byClerk" /\ d.invitation = 0
    BY <2>1 DEF IdleCall
  <2>. QED
    BY <1>4, <2>1, <2>2, BeginSerial DEF BeginIdentity
<1>5. ASSUME NEW e \in Emails, NEW k \in Invitations, BeginInvite(r, k, e)
      PROVE  SerialInv'
  <2>1. PICK d : d = [IdleCall EXCEPT !.op = "invite", !.pc = "storeInvitation",
                                      !.email = e, !.invitation = k]
    OBVIOUS
  <2>2. d.pc = "storeInvitation" /\ d.invitation = k
    BY <2>1 DEF IdleCall
  <2>. QED
    BY <1>5, <2>1, <2>2, BeginSerial DEF BeginInvite
<1>6. ASSUME NEW k \in Invitations, BeginAccept(r, k) \/ BeginRevokeInvite(r, k)
      PROVE  SerialInv'
  <2>1. PICK op, d : /\ Begin(r, op, d)
                     /\ d = [IdleCall EXCEPT !.op = op, !.pc = "readInvitation",
                                             !.invitation = k]
    BY <1>6 DEF BeginAccept, BeginRevokeInvite
  <2>2. d.pc = "readInvitation"
    BY <2>1 DEF IdleCall
  <2>. QED
    BY <2>1, <2>2, BeginSerial
<1>7. ASSUME NEW u \in UserIds, BeginDelete(r, u)
      PROVE  SerialInv'
  <2>1. PICK d : d = [IdleCall EXCEPT !.op = "delete", !.pc = "dropUser", !.user = u]
    OBVIOUS
  <2>2. d.pc = "dropUser" /\ d.op = "delete" /\ d.invitation = 0
    BY <2>1 DEF IdleCall
  <2>. QED
    BY <1>7, <2>1, <2>2, BeginSerial DEF BeginDelete
<1>8. ASSUME NEW u \in UserIds, NEW p \in UserIds, BeginRevokeSubUser(r, p, u)
      PROVE  SerialInv'
  <2>1. PICK d : d = [IdleCall EXCEPT !.op = "revokeSubUser", !.pc = "findSubUser",
                                      !.user = p, !.other = u]
    OBVIOUS
  <2>2. d.pc = "findSubUser" /\ d.invitation = 0
    BY <2>1 DEF IdleCall
  <2>. QED
    BY <1>8, <2>1, <2>2, BeginSerial DEF BeginRevokeSubUser
<1>9. ASSUME NEW u \in UserIds, NEW s \in {"active", "disabled", "keep"}, BeginUpdate(r, u, s)
      PROVE  SerialInv'
  <2>1. PICK d : d = [IdleCall EXCEPT !.op = "update", !.pc = "readUser", !.other = u,
                                      !.input = s]
    OBVIOUS
  <2>2. d.pc = "readUser" /\ d.invitation = 0
    BY <2>1 DEF IdleCall
  <2>. QED
    BY <1>9, <2>1, <2>2, BeginSerial DEF BeginUpdate
<1>10. ASSUME NEW u \in UserIds, BeginSubscribe(r, u)
       PROVE  SerialInv'
  <2>1. PICK d : d = [IdleCall EXCEPT !.op = "subscribe", !.pc = "writePlan", !.user = u]
    OBVIOUS
  <2>2. d.pc = "writePlan" /\ d.invitation = 0
    BY <2>1 DEF IdleCall
  <2>. QED
    BY <1>10, <2>1, <2>2, BeginSerial DEF BeginSubscribe
<1>. QED
  BY <1>1, <1>2, <1>3, <1>4, <1>5, <1>6, <1>7, <1>8, <1>9, <1>10 DEF BeginAny

-----------------------------------------------------------------------------
(* What holds when requests do not overlap *)

\* Nothing is in progress at the start, and every limit is kept.
LEMMA StartIsSerial == Init => SerialInv
<1>. SUFFICES ASSUME Init PROVE SerialInv
  OBVIOUS
<1>1. IdleCall.pc = "idle" /\ IdleCall.invitation = 0
  BY DEF IdleCall
<1>2. StoreOK
  BY StartIsSound DEF ParentInv
<1>3. PICK r \in Requests : TRUE
  BY BoundAssumption
<1>4. \A q \in Requests : call[q] = IdleCall
  BY DEF Init
<1>. DEFINE start == DOMAIN StartUsers
<1>5. /\ users = [u \in UserIds |-> IF u \in start THEN StartUsers[u] ELSE NoUser]
      /\ member = [u \in UserIds |->
                        IF u \in start /\ StartUsers[u].home = "here"
                        THEN [status |-> "active", path |-> StartUsers[u].path]
                        ELSE None]
      /\ plan = [u \in UserIds |-> IF u \in start THEN StartPlans[u] ELSE None]
  BY DEF Init
<1>6. NoUser.state = "unused" /\ NoUser.path = <<>>
  BY DEF NoUser
<1>7. Attached(IdleCall) /\ Detached(IdleCall) /\ Registered(IdleCall) /\ Settling(IdleCall)
  BY <1>1 DEF Attached, Detached, Registered, NewAccount, Settling
<1>8. Agreed(IdleCall)
  BY <1>1, <1>5 DEF Agreed
<1>9. Whole(IdleCall)
  <2>1. ASSUME NEW u \in UserIds, Here(u)
        PROVE  member[u] # None
    <3>1. u \in start /\ StartUsers[u].home = "here" /\ users[u] = StartUsers[u]
      BY <1>5, <1>6, <2>1 DEF Here, Live
    <3>2. users[u] \in UserRow
      BY <1>2, RowsTyped
    <3>3. PICK row \in MemberRow : row = [status |-> "active", path |-> StartUsers[u].path]
      BY <3>1, <3>2 DEF UserRow, MemberRow
    <3>. QED
      BY <1>5, <3>1, <3>3, MemberAssumption
  <2>. QED
    BY <2>1 DEF Whole, Half
<1>10. Counted(IdleCall)
  BY <1>1 DEF Counted, Adding
<1>11. Facts(IdleCall)
  BY <1>7, <1>8, <1>9, <1>10 DEF Facts
<1>. QED
  BY <1>3, <1>4, <1>11 DEF SerialInv

\* Every step keeps SerialInv.
LEMMA SerialStep == ParentInv /\ SerialInv /\ [Next]_vars => SerialInv'
<1>. SUFFICES ASSUME ParentInv, SerialInv, [Next]_vars PROVE SerialInv'
  OBVIOUS
<1>1. ASSUME NEW r \in Requests, Registration(r)
      PROVE  SerialInv'
  BY <1>1, CreateUserSerial, CreatePurchaseSerial, GrantSerial, EnrichSerial,
     ProvisionUserSerial, ProvisionSerial, RereadSerial, DropEntitlementsSerial,
     DropPurchasesSerial, DropUserSerial DEF Registration
<1>2. ASSUME NEW r \in Requests, SubUsers(r)
      PROVE  SerialInv'
  BY <1>2, FindParentSerial, FindPlanSerial, CountDescendantsSerial, FindEmailSerial,
     LinkSerial, InsertSubUserSerial, SyncUsersSerial, SyncParentSerial,
     SyncMemberSerial, SyncUpdateSerial, SyncCreateSerial, SyncRacedSerial,
     UndoLinkSerial, UndoInsertSerial, FindSubUserSerial, CountChildrenSerial,
     DetachSerial, DetachReadSerial, DetachWriteSerial, UndoRevokeSerial DEF SubUsers
<1>3. ASSUME NEW r \in Requests, InvitationsAndIdentities(r)
      PROVE  SerialInv'
  BY <1>3, StoreInvitationSerial, ReadInvitationSerial, MarkExpiredSerial,
     MarkAcceptedSerial, ByClerkSerial, ByEmailSerial, CheckMemberSerial,
     LinkSubjectSerial, GateSerial, JitCreateSerial DEF InvitationsAndIdentities
<1>4. ASSUME NEW r \in Requests,
             \/ BeginAny(r) \/ ReadUser(r) \/ WriteUser(r) \/ CheckEmail(r)
             \/ WritePlan(r) \/ Fail(r)
      PROVE  SerialInv'
  BY <1>4, BeginAnySerial, ReadUserSerial, WriteUserSerial, CheckEmailSerial,
     WritePlanSerial, FailSerial
<1>5. ASSUME NEW k \in Invitations, Lapse(k)
      PROVE  SerialInv'
  BY <1>5, LapseSerial
<1>6. CASE UNCHANGED vars
  <2>. SUFFICES ASSUME ~overlapped PROVE SerialInv'
    BY <1>6 DEF vars, history, SerialInv
  <2>1. PICK r \in Requests : /\ \A q \in Requests \ {r} : call[q] = IdleCall
                              /\ Facts(call[r])
    BY DEF SerialInv
  <2>2. PICK c : c = call[r]
    OBVIOUS
  <2>3. UNCHANGED <<store, rejected>> /\ call' = call
    BY <1>6 DEF vars, history
  <2>4. Facts(c)'
    BY <2>1, <2>2, <2>3, FactsStay
  <2>. QED
    BY <2>1, <2>2, <2>3, <2>4 DEF SerialInv
<1>. QED
  BY <1>1, <1>2, <1>3, <1>4, <1>5, <1>6 DEF Next

\* Without overlap one request is in progress at most, and the store is what
\* its next step takes it to be.
THEOREM RequestsAreSerial == Spec => [](ParentInv /\ SerialInv)
<1>1. Init => ParentInv /\ SerialInv
  BY StartIsSound, StartIsSerial
<1>2. ParentInv /\ SerialInv /\ [Next]_vars => (ParentInv /\ SerialInv)'
  BY ParentStep, SerialStep
<1>. QED
  BY <1>1, <1>2, PTL DEF Spec

\* When nothing is in progress the store has no exceptions.
LEMMA BetweenRequests ==
    ASSUME ParentInv, SerialInv, AtRest, ~overlapped
    PROVE  Facts(IdleCall) /\ IdleCall.pc = "idle"
<1>1. PICK r \in Requests : Facts(call[r])
  BY DEF SerialInv
<1>2. call[r] = IdleCall
  BY DEF AtRest, Busy, ParentInv, CallOK, Shape
<1>. QED
  BY <1>1, <1>2 DEF IdleCall

\* The ancestors of a user and those of its membership agree whenever nothing
\* is in progress, whatever step of createSubUser or revokeSubUser rejected,
\* as long as the compensating write did not.
THEOREM HierarchiesStayTogether == Spec => []HierarchiesAgree
<1>1. ASSUME ParentInv, SerialInv
      PROVE  HierarchiesAgree
  BY <1>1, BetweenRequests DEF HierarchiesAgree, Facts, Agreed, Changing, Clean
<1>. QED
  BY <1>1, RequestsAreSerial, PTL

\* Registrations, invitations and sub-users leave no account without a
\* membership, but for the two ways the code has of doing so.
THEOREM NoHalfAccounts == Spec => []NoHalfAccount
<1>1. ASSUME ParentInv, SerialInv
      PROVE  NoHalfAccount
  BY <1>1, BetweenRequests DEF NoHalfAccount, Facts, Whole, Making, NewAccount, Half, Explained
<1>. QED
  BY <1>1, RequestsAreSerial, PTL

\* An account is a root after the step, or where it was before.
Unmoved(v) == Here(v)' => (users'[v].path = <<>> \/ (Here(v) /\ users'[v].path = users[v].path))

\* A step that gives nobody another parent gives nobody a sub-user.
LEMMA NobodyMoved ==
    ASSUME NEW u \in UserIds, \A v \in UserIds : Unmoved(v)
    PROVE  Children(u)' \subseteq Children(u)
BY NoParent DEF Unmoved, Children, Here, Live

\* Of the steps that write users, the two of createSubUser and a revocation
\* given back write the path of a sub-user.
LEMMA PathWriters ==
    ASSUME ParentInv, [Next]_vars, \A r \in Requests : ~At(r, "undoRevoke"), NEW u \in UserIds
    PROVE  \/ Children(u)' \subseteq Children(u)
           \/ \E r \in Requests : Link(r) \/ InsertSubUser(r)
<1>. DEFINE Same == Children(u)' \subseteq Children(u)
<1>t. users \in [UserIds -> UserRow]
  BY DEF ParentInv, StoreOK, StoreTyped
<1>0. ASSUME users' = users
      PROVE  Same
  BY <1>0 DEF Children, Here, Live
<1>1. ASSUME NEW r \in Requests, CreateUser(r) \/ JitCreate(r)
      PROVE  Same
  <2>1. \/ users' = users
        \/ \E row : row.path = <<>> /\ users' = [users EXCEPT ![FreshId] = row]
    BY <1>1 DEF CreateUser, JitCreate, NewUser
  <2>2. \A v \in UserIds : Unmoved(v)
    BY <1>t, <2>1 DEF Unmoved, Here, Live
  <2>. QED
    BY <2>2, NobodyMoved
<1>2. ASSUME NEW w, DeleteUser(w)
      PROVE  Same
  <2>1. \A v \in UserIds : Unmoved(v)
    BY <1>t, <1>2 DEF Unmoved, DeleteUser, UserRow, Here, Live
  <2>. QED
    BY <2>1, NobodyMoved
<1>3. ASSUME NEW r \in Requests, UndoLink(r) \/ Detach(r)
      PROVE  Same
  <2>. DEFINE w == call[r].other
  <2>1. \/ users' = users
        \/ users' = [users EXCEPT ![w] = [users[w] EXCEPT !.path = users[w].path]]
        \/ users' = [users EXCEPT ![w] = [users[w] EXCEPT !.path = <<>>]]
    BY <1>3 DEF UndoLink, Detach
  <2>2. ASSUME NEW v \in UserIds
        PROVE  users'[v] = users[v] \/ users'[v].path = <<>>
    <3>1. \/ users'[v] = users[v]
          \/ users'[v] = [users[v] EXCEPT !.path = users[v].path]
          \/ users'[v] = [users[v] EXCEPT !.path = <<>>]
      BY <1>t, <2>1
    <3>2. [users[v] EXCEPT !.path = <<>>].path = <<>>
      BY <1>t DEF UserRow
    <3>3. [users[v] EXCEPT !.path = users[v].path] = users[v]
      BY <1>t DEF UserRow
    <3>. QED
      BY <3>1, <3>2, <3>3
  <2>3. \A v \in UserIds : users'[v] = users[v] \/ users'[v].path = <<>>
    BY <2>2
  <2>4. \A v \in UserIds : Unmoved(v)
    BY <2>3 DEF Unmoved, Here, Live
  <2>. QED
    BY <2>4, NobodyMoved
<1>4. ASSUME NEW r \in Requests, LinkSubject(r) \/ WriteUser(r)
      PROVE  Same
  <2>. DEFINE w == call[r].other
  <2>1. PICK s, e, t : \/ users' = users
                       \/ users' = [users EXCEPT ![w] = [users[w] EXCEPT !.subject = s]]
                       \/ users' = [users EXCEPT ![w] = [users[w] EXCEPT !.email = e, !.status = t]]
    <3>1. CASE LinkSubject(r)
      BY <3>1 DEF LinkSubject
    <3>2. CASE WriteUser(r)
      <4>. DEFINE state == IF call[r].op = "update" THEN call[r].input ELSE users[w].status
      <4>1. \/ users' = [users EXCEPT ![w] = users[w]]
            \/ users' = [users EXCEPT ![w] = [users[w] EXCEPT !.email = call[r].email,
                                                            !.status = state]]
        BY <3>2 DEF WriteUser
      <4>2. [users EXCEPT ![w] = users[w]] = users
        BY <1>t
      <4>. HIDE DEF state
      <4>. QED
        BY <4>1, <4>2
    <3>. QED
      BY <1>4, <3>1, <3>2
  <2>2. ASSUME NEW v \in UserIds
        PROVE  /\ users'[v].path = users[v].path
               /\ users'[v].state = users[v].state
               /\ users'[v].home = users[v].home
    <3>1. \/ users'[v] = users[v]
          \/ users'[v] = [users[v] EXCEPT !.subject = s]
          \/ users'[v] = [users[v] EXCEPT !.email = e, !.status = t]
      BY <1>t, <2>1
    <3>. QED
      BY <1>t, <3>1 DEF UserRow
  <2>3. \A v \in UserIds : /\ users'[v].path = users[v].path
                           /\ users'[v].state = users[v].state
                           /\ users'[v].home = users[v].home
    BY <2>2
  <2>4. \A v \in UserIds : Unmoved(v)
    BY <2>3 DEF Unmoved, Here, Live
  <2>. QED
    BY <2>4, NobodyMoved
<1>5. ASSUME NEW r \in Requests, BeginAny(r)
      PROVE  users' = users
  BY <1>5 DEF BeginAny, BeginRegister, BeginAdminCreate, BeginSubUser, BeginProfile,
     BeginIdentity, BeginInvite, BeginAccept, BeginRevokeInvite, BeginDelete,
     BeginRevokeSubUser, BeginUpdate, BeginSubscribe, Begin, store
<1>6. ASSUME NEW r \in Requests,
             \/ CreatePurchase(r) \/ Grant(r) \/ Enrich(r) \/ ProvisionUser(r)
             \/ Provision(r) \/ Reread(r) \/ DropEntitlements(r) \/ DropPurchases(r)
      PROVE  users' = users
  BY <1>6 DEF CreatePurchase, Grant, Enrich, ProvisionUser, Provision, Reread,
     DropEntitlements, DropPurchases, store
<1>7. ASSUME NEW r \in Requests,
             \/ FindParent(r) \/ FindPlan(r) \/ CountDescendants(r) \/ FindEmail(r)
             \/ SyncUsers(r) \/ SyncParent(r) \/ SyncMember(r) \/ SyncUpdate(r)
             \/ SyncCreate(r) \/ SyncRaced(r) \/ FindSubUser(r) \/ CountChildren(r)
             \/ DetachRead(r) \/ DetachWrite(r)
      PROVE  users' = users
  BY <1>7 DEF FindParent, FindPlan, CountDescendants, FindEmail, SyncUsers, SyncParent,
     SyncMember, SyncUpdate, SyncCreate, SyncRaced, FindSubUser, CountChildren,
     DetachRead, DetachWrite, store
<1>8. ASSUME NEW r \in Requests,
             \/ StoreInvitation(r) \/ ReadInvitation(r) \/ MarkExpired(r) \/ MarkAccepted(r)
             \/ ByClerk(r) \/ ByEmail(r) \/ CheckMember(r) \/ Gate(r)
             \/ ReadUser(r) \/ CheckEmail(r) \/ WritePlan(r) \/ Fail(r)
      PROVE  users' = users
  BY <1>8 DEF StoreInvitation, ReadInvitation, MarkExpired, MarkAccepted, Mark, ByClerk,
     ByEmail, CheckMember, Gate, ReadUser, CheckEmail, WritePlan, Fail, store
<1>9. ASSUME NEW k \in Invitations, Lapse(k)
      PROVE  users' = users
  BY <1>9 DEF Lapse
<1>10. \A r \in Requests : ~UndoRevoke(r)
  BY DEF UndoRevoke
<1>11. ASSUME NEW r \in Requests, DropUser(r) \/ UndoInsert(r)
       PROVE  Same
  BY <1>2, <1>11 DEF DropUser, UndoInsert
<1>. HIDE DEF Same
<1>12. ASSUME NEW r \in Requests, Registration(r)
       PROVE  Same
  BY <1>12, <1>0, <1>1, <1>6, <1>11 DEF Registration
<1>13. ASSUME NEW r \in Requests, SubUsers(r)
       PROVE  Same \/ Link(r) \/ InsertSubUser(r)
  BY <1>13, <1>0, <1>3, <1>7, <1>10, <1>11 DEF SubUsers
<1>14. ASSUME NEW r \in Requests, InvitationsAndIdentities(r)
       PROVE  Same
  BY <1>14, <1>0, <1>1, <1>4, <1>8 DEF InvitationsAndIdentities
<1>. DEFINE Goal == Same \/ \E r \in Requests : Link(r) \/ InsertSubUser(r)
<1>15. ASSUME UNCHANGED vars
       PROVE  Goal
  BY <1>0, <1>15 DEF vars, store
<1>16. ASSUME NEW r \in Requests,
                \/ BeginAny(r) \/ Registration(r) \/ SubUsers(r) \/ InvitationsAndIdentities(r)
                \/ ReadUser(r) \/ WriteUser(r) \/ CheckEmail(r) \/ WritePlan(r) \/ Fail(r)
       PROVE  Goal
  BY <1>0, <1>4, <1>5, <1>8, <1>12, <1>13, <1>14, <1>16
<1>17. ASSUME NEW k \in Invitations, Lapse(k)
       PROVE  Goal
  BY <1>0, <1>9, <1>17
<1>18. Goal
  BY <1>15, <1>16, <1>17 DEF Next
<1>. QED
  BY <1>18 DEF Same

\* A sub-user is added for the creator alone, who gets one descendant more.
LEMMA OneAdded ==
    ASSUME NEW u \in UserIds, NEW p \in UserIds, NEW w \in UserIds,
           \A v \in UserIds \ {w} : users'[v] = users[v], ParentOf(users'[w].path) = p,
           ~(Children(u)' \subseteq Children(u))
    PROVE  /\ u = p
           /\ Cardinality(Descendants(u)') \in Nat
           /\ Cardinality(Descendants(u)') <= Cardinality(Descendants(u)) + 1
<1>1. u = p
  BY ChildrenAfter
<1>2. PICK before, after : before = Descendants(u) /\ after = Descendants(u)'
  OBVIOUS
<1>3. after \subseteq before \cup {w}
  BY <1>2 DEF Descendants, Here, Live
<1>4. IsFiniteSet(before) /\ Cardinality(before) \in Nat
  BY <1>2, DescendantsAreFinite
<1>5. /\ IsFiniteSet(before \cup {w})
      /\ \/ Cardinality(before \cup {w}) = Cardinality(before)
         \/ Cardinality(before \cup {w}) = Cardinality(before) + 1
  BY <1>4, FS_AddElement
<1>6. Cardinality(after) \in Nat /\ Cardinality(after) <= Cardinality(before \cup {w})
  BY <1>3, <1>5, FS_Subset, FS_CardinalityType
<1>. QED
  BY <1>1, <1>2, <1>4, <1>5, <1>6

\* createSubUser adds a sub-user only for a creator whose plan, as it is at
\* that moment, allows one more below it.
THEOREM SubUsersAreLimited == Spec => SubUserLimit
<1>. DEFINE Step == \A u \in UserIds :
              /\ Children(u)' \ Children(u) # {} /\ ~overlapped'
              /\ \A r \in Requests : ~At(r, "undoRevoke")
              => /\ plan[u] \in Plans
                 /\ MaxSubUsers[plan[u]] >= 0
                    => Cardinality(Descendants(u)') <= MaxSubUsers[plan[u]]
<1>1. ASSUME ParentInv, SerialInv, [Next]_vars
      PROVE  Step
  <2>. SUFFICES ASSUME NEW u \in UserIds, ~(Children(u)' \subseteq Children(u)), ~overlapped',
                       \A r \in Requests : ~At(r, "undoRevoke")
                PROVE  /\ plan[u] \in Plans
                       /\ MaxSubUsers[plan[u]] >= 0
                          => Cardinality(Descendants(u)') <= MaxSubUsers[plan[u]]
    OBVIOUS
  <2>1. PICK r \in Requests : Link(r) \/ InsertSubUser(r)
    BY <1>1, PathWriters
  <2>2. PICK c : c = call[r]
    OBVIOUS
  <2>3. Busy(r) /\ c.pc \in Adding /\ ~overlapped
    BY <2>1, <2>2 DEF Link, InsertSubUser, At, Busy, Adding, history
  <2>4. CallOK(c) /\ Facts(c)
    BY <1>1, <2>2, <2>3, SoleActor DEF ParentInv
  <2>5. c.user \in UserIds /\ c.path \in Seq(UserIds) /\ c.limit \in Int
    BY <2>3, <2>4 DEF CallOK, CallRecord, Shape, Adding
  <2>6. /\ plan[c.user] \in Plans /\ c.limit = MaxSubUsers[plan[c.user]]
        /\ c.limit >= 0 => Cardinality(Descendants(c.user)) < c.limit
    BY <2>3, <2>4 DEF Facts, Counted, Adding
  <2>7. ParentOf(Append(c.path, c.user)) = c.user
    BY <2>5 DEF ParentOf, Last
  <2>8. users' # users
    BY DEF Children, Here, Live
  <2>9. \E w \in UserIds : /\ \A v \in UserIds \ {w} : users'[v] = users[v]
                           /\ users'[w].path = Append(c.path, c.user)
    <3>t. users \in [UserIds -> UserRow]
      BY <1>1 DEF ParentInv, StoreOK, StoreTyped
    <3>1. CASE Link(r)
      <4>1. c.other \in UserIds /\ users' = [users EXCEPT ![c.other].path = Append(c.path, c.user)]
        BY <2>2, <2>4, <2>8, <3>1 DEF Link, At, CallOK, Shape
      <4>. QED
        BY <3>t, <4>1 DEF UserRow
    <3>2. CASE InsertSubUser(r)
      <4>1. FreshId \in UserIds
        BY <3>2, FreshIdIsUnused DEF InsertSubUser
      <4>2. users' = [users EXCEPT ![FreshId] =
                          NewUser(c.email, "here", Append(c.path, c.user), None)]
        BY <2>2, <2>8, <3>2 DEF InsertSubUser
      <4>. QED
        BY <3>t, <4>1, <4>2 DEF NewUser
    <3>. QED
      BY <2>1, <3>1, <3>2
  <2>10. /\ u = c.user /\ Cardinality(Descendants(u)') \in Nat
         /\ Cardinality(Descendants(u)') <= Cardinality(Descendants(u)) + 1
    BY <2>5, <2>7, <2>9, OneAdded
  <2>. QED
    BY <2>5, <2>6, <2>10, DescendantsAreFinite
<1>2. ParentInv /\ SerialInv /\ [Next]_vars => [Step]_vars
  BY <1>1
<1>3. Spec => [][Step]_vars
  BY <1>2, RequestsAreSerial, PTL DEF Spec
<1>. QED
  BY <1>3 DEF SubUserLimit

\* The four writers of invitation rows.
LEMMA InvitationWriters ==
    ASSUME [Next]_vars
    PROVE  \/ invitation' = invitation
           \/ \E r \in Requests : StoreInvitation(r) \/ MarkExpired(r) \/ MarkAccepted(r)
           \/ \E k \in Invitations : Lapse(k)
<1>1. ASSUME NEW r \in Requests, BeginAny(r)
      PROVE  invitation' = invitation
  BY <1>1 DEF BeginAny, BeginRegister, BeginAdminCreate, BeginSubUser, BeginProfile,
     BeginIdentity, BeginInvite, BeginAccept, BeginRevokeInvite, BeginDelete,
     BeginRevokeSubUser, BeginUpdate, BeginSubscribe, Begin, store
<1>2. ASSUME NEW r \in Requests, Registration(r)
      PROVE  invitation' = invitation
  BY <1>2 DEF Registration, CreateUser, CreatePurchase, Grant, Enrich, ProvisionUser,
     Provision, Reread, DropEntitlements, DropPurchases, DropUser, store
<1>3. ASSUME NEW r \in Requests, SubUsers(r)
      PROVE  invitation' = invitation
  BY <1>3 DEF SubUsers, FindParent, FindPlan, CountDescendants, FindEmail, Link,
     InsertSubUser, SyncUsers, SyncParent, SyncMember, SyncUpdate, SyncCreate, SyncRaced,
     UndoLink, UndoInsert, FindSubUser, CountChildren, Detach, DetachRead, DetachWrite,
     UndoRevoke, store
<1>4. ASSUME NEW r \in Requests,
             ReadInvitation(r) \/ ByClerk(r) \/ ByEmail(r) \/ CheckMember(r)
             \/ LinkSubject(r) \/ Gate(r) \/ JitCreate(r)
             \/ ReadUser(r) \/ WriteUser(r) \/ CheckEmail(r) \/ WritePlan(r) \/ Fail(r)
      PROVE  invitation' = invitation
  BY <1>4 DEF ReadInvitation, ByClerk, ByEmail, CheckMember, LinkSubject, Gate, JitCreate,
     ReadUser, WriteUser, CheckEmail, WritePlan, Fail, store
<1>. QED
  BY <1>1, <1>2, <1>3, <1>4 DEF Next, InvitationsAndIdentities, vars, store

\* An invitation is settled once, and accepted only when its account exists
\* (invitationService.accept and revoke, the gate of a Clerk identity).
THEOREM InvitationsSettle == Spec => InvitationSettles
<1>. DEFINE Step == \A k \in Invitations :
              LET old == invitation[k].status
                  new == invitation'[k].status
              IN /\ old # new /\ ~overlapped' => old \in {"unsent", "pending"}
                 /\ old # "accepted" /\ new = "accepted" /\ ~overlapped'
                    => Taken(invitation[k].email)
<1>1. ASSUME ParentInv, SerialInv, [Next]_vars
      PROVE  Step
  <2>1. CASE invitation' = invitation
    BY <2>1
  <2>2. ASSUME NEW k \in Invitations, Lapse(k)
        PROVE  Step
    BY <1>1, <2>2 DEF Lapse, ParentInv, StoreOK, StoreTyped, InvitationRow
  <2>3. ASSUME NEW r \in Requests, StoreInvitation(r)
        PROVE  Step
    <3>. SUFFICES ASSUME ~overlapped PROVE Step
      BY <2>3 DEF StoreInvitation, history
    <3>1. PICK c : c = call[r]
      OBVIOUS
    <3>2. Busy(r) /\ c.pc = "storeInvitation"
      BY <2>3, <3>1 DEF StoreInvitation, Busy, At
    <3>3. CallOK(c) /\ Facts(c)
      BY <1>1, <3>1, <3>2, SoleActor DEF ParentInv
    <3>4. /\ c.invitation \in Invitations /\ invitation[c.invitation].status = "unsent"
          /\ invitation'[c.invitation].status = "pending"
          /\ \A k \in Invitations \ {c.invitation} : invitation'[k] = invitation[k]
      BY <1>1, <2>3, <3>1, <3>2, <3>3 DEF CallOK, Shape, Facts, Settling, StoreInvitation,
         ParentInv, StoreOK, StoreTyped, InvitationRow
    <3>. QED
      BY <3>4
  <2>4. ASSUME NEW r \in Requests, NEW status \in {"expired", "accepted"},
               call[r].pc = (IF status = "expired" THEN "markExpired" ELSE "markAccepted"),
               Mark(r, status)
        PROVE  Step
    <3>. SUFFICES ASSUME ~overlapped PROVE Step
      BY <2>4 DEF Mark, history
    <3>1. PICK c : c = call[r]
      OBVIOUS
    <3>2. Busy(r) /\ c.pc = (IF status = "expired" THEN "markExpired" ELSE "markAccepted")
      BY <2>4, <3>1 DEF Busy
    <3>3. CallOK(c) /\ Facts(c)
      BY <1>1, <3>1, <3>2, SoleActor DEF ParentInv
    <3>4. c.invitation \in Invitations /\ c.invitation # 0
      <4>1. 0 \notin Invitations
        BY InvitationAssumption, FS_CardinalityType
      <4>. QED
        BY <3>2, <3>3, <4>1 DEF CallOK, Shape
    <3>5. /\ invitation[c.invitation].status = "pending"
          /\ status = "accepted" => Taken(invitation[c.invitation].email)
      BY <3>2, <3>3, <3>4 DEF Facts, Settling
    <3>6. /\ invitation'[c.invitation].status = status
          /\ \A k \in Invitations \ {c.invitation} : invitation'[k] = invitation[k]
      BY <1>1, <2>4, <3>1, <3>4 DEF Mark, ParentInv, StoreOK, StoreTyped, InvitationRow
    <3>. QED
      BY <3>5, <3>6
  <2>5. ASSUME NEW r \in Requests, MarkExpired(r) \/ MarkAccepted(r)
        PROVE  Step
    <3>. HIDE DEF Step
    <3>. QED
      BY <2>4, <2>5 DEF MarkExpired, MarkAccepted, At
  <2>. HIDE DEF Step
  <2>. QED
    BY <1>1, <2>1, <2>2, <2>3, <2>5, InvitationWriters
<1>2. ParentInv /\ SerialInv /\ [Next]_vars => [Step]_vars
  BY <1>1
<1>3. Spec => [][Step]_vars
  BY <1>2, RequestsAreSerial, PTL DEF Spec
<1>. QED
  BY <1>3 DEF InvitationSettles

=============================================================================
