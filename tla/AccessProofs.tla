---------------------------- MODULE AccessProofs ----------------------------
(***************************************************************************)
(* Theorems about Access and Registry, for every set of administrators,    *)
(* members and requests, every time to live and every bound:               *)
(*   - an administrator who may act remains, while changes do not overlap; *)
(*   - a borrowed session is flagged, and ends with its hour;              *)
(*   - the limiter lets through what it should, and no more;               *)
(*   - a cached feature list is never older than its time to live;         *)
(*   - an environment that was set is the one that is served.              *)
(***************************************************************************)
EXTENDS Access, Registry, FiniteSetTheorems, SequenceTheorems, TLAPS

\* The two parts on their own, as in their scenes of MCAccess.
AccessSpec == AccessInit /\ [][AccessNext]_accessVars
RegistrySpec == RegistryInit /\ [][RegistryNext]_registryVars

-----------------------------------------------------------------------------
(* Administrators *)

Change == [op : {"none", "update", "delete"},
           pc : {"idle", "read", "count", "write", "sessions", "row"},
           target : Admins \cup {None},
           role : {"admin", "editor", "keep"},
           status : {"active", "disabled", "keep"}]

AdminsTyped ==
    /\ admins \in [Admins -> AdminRow \cup {None}]
    /\ change \in [Requests -> Change]
    /\ overlapped \in BOOLEAN
    /\ \A r \in Requests :
          /\ change[r].pc # "idle" => change[r].target \in Admins
          /\ change[r].pc \in {"count", "write"} => change[r].role # "keep" /\ change[r].status # "keep"

\* A change past its guard has another administrator to rely on, or writes an
\* active one.
GuardHolds(r) ==
    LET c == change[r]
    IN /\ c.pc = "write" /\ ~(c.role = "admin" /\ c.status = "active")
             => OtherAdmins(c.target) # {}
       /\ c.pc \in {"sessions", "row"} => OtherAdmins(c.target) # {}

\* While changes come one at a time there is an administrator at every moment,
\* not only between them.
SerialAdminInv ==
    /\ \A q, r \in Requests : change[q].pc # "idle" /\ change[r].pc # "idle" => q = r
    /\ \E a \in Admins : admins[a] = ActiveAdmin
    /\ \A r \in Requests : GuardHolds(r)

AdminInv == AdminsTyped /\ (~overlapped => SerialAdminInv)

-----------------------------------------------------------------------------

LEMMA AdminInvInit == AccessInit => AdminInv
<1>. SUFFICES ASSUME AccessInit PROVE AdminInv
  OBVIOUS
<1>1. PICK a \in StartAdmins : admins[a] = ActiveAdmin
  BY AccessAssumption DEF AccessInit
<1>2. \E b \in Admins : admins[b] = ActiveAdmin
  BY <1>1, AccessAssumption
<1>3. \A r \in Requests : change[r] = IdleChange
  BY DEF AccessInit
<1>4. AdminsTyped
  BY <1>3 DEF AccessInit, AdminsTyped, ActiveAdmin, AdminRow, Change, IdleChange
<1>. QED
  BY <1>2, <1>3, <1>4 DEF AdminInv, SerialAdminInv, GuardHolds, IdleChange

\* A request begins; a second one in flight ends the promise.
LEMMA BeginKeeps ==
    ASSUME AdminInv, NEW r \in Requests, NEW a \in Admins,
           NEW op \in {"update", "delete"}, NEW role \in {"admin", "editor", "keep"},
           NEW status \in {"active", "disabled", "keep"}, Begin(r, op, a, role, status)
    PROVE  AdminInv'
<1>. DEFINE c == [op |-> op, pc |-> "read", target |-> a, role |-> role, status |-> status]
<1>1. change' = [change EXCEPT ![r] = c] /\ c \in Change /\ admins' = admins
  BY DEF Begin, Change
<1>2. AdminsTyped'
  BY <1>1 DEF AdminInv, AdminsTyped, Begin
<1>3. ASSUME ~overlapped' PROVE SerialAdminInv'
  <2>1. ~overlapped /\ \A q \in Requests : change[q].pc = "idle"
    BY <1>3 DEF Begin, AtRestChanges
  <2>. QED
    BY <1>1, <2>1 DEF AdminInv, AdminsTyped, SerialAdminInv, GuardHolds, OtherAdmins
<1>. QED
  BY <1>2, <1>3 DEF AdminInv

\* A new account takes nobody's place.
LEMMA CreateAdminKeeps ==
    ASSUME AdminInv, NEW a \in Admins, NEW role \in {"admin", "editor"}, CreateAdmin(a, role)
    PROVE  AdminInv'
<1>1. /\ admins[a] = None /\ change' = change /\ overlapped' = overlapped
      /\ admins' = [admins EXCEPT ![a] = [role |-> role, status |-> "active"]]
  BY DEF CreateAdmin
<1>2. AdminsTyped'
  BY <1>1 DEF AdminInv, AdminsTyped, AdminRow
<1>3. \A b \in Admins : admins[b] = ActiveAdmin => admins'[b] = ActiveAdmin
  BY <1>1, AccessAssumption DEF AdminInv, AdminsTyped, ActiveAdmin, AdminRow
<1>4. \A b \in Admins : OtherAdmins(b) # {} => OtherAdmins(b)' # {}
  BY <1>3 DEF OtherAdmins
<1>5. ASSUME SerialAdminInv PROVE SerialAdminInv'
  <2>. USE DEF SerialAdminInv
  <2>1. \A r \in Requests : GuardHolds(r)'
    BY <1>1, <1>2, <1>4, <1>5 DEF GuardHolds, AdminInv, AdminsTyped
  <2>. QED
    BY <1>1, <1>3, <1>5, <2>1
<1>. QED
  BY <1>1, <1>2, <1>5 DEF AdminInv

\* What a slot works out from the row it reads makes its guard due, or holds.
LEMMA ReadAdminKeeps ==
    ASSUME AdminInv, NEW r \in Requests, ReadAdmin(r)
    PROVE  AdminInv'
<1>. DEFINE c == change[r]
            row == admins[c.target]
            next == [c EXCEPT !.pc = IF LosesAdmin(c, row) THEN "count"
                                     ELSE IF c.op = "delete" THEN "sessions" ELSE "write",
                              !.role = Pick(c.role, row.role),
                              !.status = Pick(c.status, row.status)]
<1>1. c.pc = "read" /\ c.target \in Admins /\ c \in Change
  BY DEF ReadAdmin, AdminInv, AdminsTyped
<1>2. admins' = admins /\ overlapped' = overlapped
  BY DEF ReadAdmin, Unchanged
<1>3. CASE row = None
  <2>1. change' = [change EXCEPT ![r] = IdleChange]
    BY <1>3 DEF ReadAdmin, Finish
  <2>2. AdminsTyped'
    BY <1>2, <2>1 DEF AdminInv, AdminsTyped, IdleChange, Change
  <2>3. SerialAdminInv => SerialAdminInv'
    BY <1>2, <2>1 DEF SerialAdminInv, GuardHolds, OtherAdmins, IdleChange, AdminInv, AdminsTyped
  <2>. QED
    BY <1>2, <2>2, <2>3 DEF AdminInv
<1>4. CASE row # None
  <2>1. row \in AdminRow
    BY <1>1, <1>4 DEF AdminInv, AdminsTyped
  <2>2. change' = [change EXCEPT ![r] = next]
    BY <1>4 DEF ReadAdmin
  <2>3. /\ next \in Change /\ next.target = c.target /\ next.pc # "idle"
        /\ next.role # "keep" /\ next.status # "keep"
        /\ next.role = Pick(c.role, row.role) /\ next.status = Pick(c.status, row.status)
    BY <1>1, <2>1 DEF Change, AdminRow, Pick
  <2>4. next.pc \in {"write", "sessions"} => ~LosesAdmin(c, row)
    BY <1>1 DEF Change
  <2>. HIDE DEF next
  <2>5. AdminsTyped'
    BY <1>1, <1>2, <2>2, <2>3 DEF AdminInv, AdminsTyped
  <2>6. ASSUME SerialAdminInv PROVE SerialAdminInv'
    <3>1. next.pc \in {"write", "sessions", "count"}
      BY <1>1 DEF next, Change
    <3>2. ASSUME row.role # "admin" \/ row.status # "active"
          PROVE  OtherAdmins(c.target) # {}
      BY <2>6, <3>2, <1>1 DEF SerialAdminInv, OtherAdmins, ActiveAdmin
    <3>3. ASSUME next.pc = "write", ~(next.role = "admin" /\ next.status = "active")
          PROVE  row.role # "admin"
      BY <3>3, <2>3, <2>4 DEF LosesAdmin
    <3>4. ASSUME next.pc = "sessions" PROVE row.role # "admin"
      <4>1. c.op = "delete"
        BY <3>4, <1>1 DEF next, Change
      <4>. QED
        BY <3>4, <4>1, <2>4 DEF LosesAdmin
    <3>5. GuardHolds(r)'
      BY <1>2, <2>2, <2>3, <3>1, <3>2, <3>3, <3>4 DEF GuardHolds, OtherAdmins, AdminInv, AdminsTyped
    <3>6. \A q \in Requests \ {r} : GuardHolds(q)'
      BY <1>2, <2>2, <2>6 DEF SerialAdminInv, GuardHolds, OtherAdmins, AdminInv, AdminsTyped
    <3>. QED
      BY <1>1, <1>2, <2>2, <2>6, <3>5, <3>6 DEF SerialAdminInv, AdminInv, AdminsTyped
  <2>. QED
    BY <1>2, <2>5, <2>6 DEF AdminInv
<1>. QED
  BY <1>3, <1>4

LEMMA CountAdminsKeeps ==
    ASSUME AdminInv, NEW r \in Requests, CountAdmins(r)
    PROVE  AdminInv'
<1>1. /\ admins' = admins /\ overlapped' = overlapped
      /\ change[r].pc = "count" /\ change[r] \in Change
  BY DEF CountAdmins, Unchanged, AdminInv, AdminsTyped
<1>2. CASE ~Enough(change[r].target)
  <2>1. change' = [change EXCEPT ![r] = IdleChange]
    BY <1>2 DEF CountAdmins, Finish
  <2>. QED
    BY <1>1, <2>1 DEF AdminInv, AdminsTyped, SerialAdminInv, GuardHolds, OtherAdmins,
                      IdleChange, Change
<1>3. CASE Enough(change[r].target)
  <2>. DEFINE pc == IF change[r].op = "delete" THEN "sessions" ELSE "write"
  <2>1. change' = [change EXCEPT ![r].pc = pc]
    BY <1>3 DEF CountAdmins, Goto
  <2>. QED
    BY <1>1, <1>3, <2>1 DEF AdminInv, AdminsTyped, SerialAdminInv, GuardHolds, OtherAdmins,
                            Enough, Change
<1>. QED
  BY <1>2, <1>3

\* What is written is an active administrator, or somebody else is one.
LEMMA WriteAdminKeeps ==
    ASSUME AdminInv, NEW r \in Requests, WriteAdmin(r)
    PROVE  AdminInv'
<1>. DEFINE c == change[r]
            new == [role |-> c.role, status |-> c.status]
<1>1. /\ c.pc = "write" /\ c \in Change /\ c.target \in Admins /\ overlapped' = overlapped
      /\ change' = [change EXCEPT ![r] = IdleChange]
      /\ new \in AdminRow
  BY DEF WriteAdmin, Finish, Unchanged, changeVars, AdminInv, AdminsTyped, Change, AdminRow
<1>2. \/ admins' = admins
      \/ admins' = [admins EXCEPT ![c.target] = new]
  BY DEF WriteAdmin
<1>3. AdminsTyped'
  BY <1>1, <1>2 DEF AdminInv, AdminsTyped, IdleChange, Change
<1>4. ASSUME ~overlapped, SerialAdminInv PROVE SerialAdminInv'
  <2>1. new = ActiveAdmin \/ OtherAdmins(c.target) # {}
    BY <1>1, <1>4 DEF SerialAdminInv, GuardHolds, ActiveAdmin
  <2>2. \E a \in Admins : admins'[a] = ActiveAdmin
    <3>. HIDE DEF new
    <3>1. CASE admins' = admins
      BY <1>4, <3>1 DEF SerialAdminInv
    <3>2. CASE admins' = [admins EXCEPT ![c.target] = new]
      BY <1>1, <2>1, <3>2 DEF OtherAdmins, AdminInv, AdminsTyped
    <3>. QED
      BY <1>2, <3>1, <3>2
  <2>3. \A q \in Requests : change'[q].pc = "idle"
    BY <1>1, <1>4 DEF SerialAdminInv, AdminInv, AdminsTyped, IdleChange
  <2>. QED
    BY <2>2, <2>3 DEF SerialAdminInv, GuardHolds
<1>. QED
  BY <1>1, <1>3, <1>4 DEF AdminInv

\* A deletion leaves the administrator it counted.
LEMMA DeleteKeeps ==
    ASSUME AdminInv, NEW r \in Requests, DropSessions(r) \/ DropRow(r)
    PROVE  AdminInv'
<1>. DEFINE c == change[r]
<1>1. CASE DropSessions(r)
  BY <1>1 DEF DropSessions, Goto, Unchanged, changeVars, AdminInv, AdminsTyped, Change,
              SerialAdminInv, GuardHolds, OtherAdmins
<1>2. CASE DropRow(r)
  <2>1. /\ c.pc = "row" /\ c.target \in Admins /\ overlapped' = overlapped
        /\ change' = [change EXCEPT ![r] = IdleChange]
        /\ admins' = admins \/ admins' = [admins EXCEPT ![c.target] = None]
    BY <1>2 DEF DropRow, Finish, Unchanged, changeVars, AdminInv, AdminsTyped
  <2>2. AdminsTyped'
    BY <2>1 DEF AdminInv, AdminsTyped, IdleChange, Change
  <2>3. ASSUME ~overlapped, SerialAdminInv PROVE SerialAdminInv'
    <3>1. OtherAdmins(c.target) # {}
      BY <2>1, <2>3 DEF SerialAdminInv, GuardHolds
    <3>2. \E a \in Admins : admins'[a] = ActiveAdmin
      BY <2>1, <3>1 DEF OtherAdmins, AdminInv, AdminsTyped
    <3>3. \A q \in Requests : change'[q].pc = "idle"
      BY <2>1, <2>3 DEF SerialAdminInv, AdminInv, AdminsTyped, IdleChange
    <3>. QED
      BY <3>2, <3>3 DEF SerialAdminInv, GuardHolds
  <2>. QED
    BY <2>1, <2>2, <2>3 DEF AdminInv
<1>. QED
  BY <1>1, <1>2

\* Nothing else touches an administrator's account or a change of one.
LEMMA OthersLeaveAdmins ==
    ASSUME NEW right \in BOOLEAN,
           \/ \E a \in Admins : AdminLogin(a, right)
           \/ \E u \in Users : UserLogin(u, right)
           \/ VisitStep \/ CleanUp \/ Tick
    PROVE  UNCHANGED <<admins, change, overlapped>>
BY DEF AdminLogin, UserLogin, VisitStep, AdminLogout, UserLogout, StopImpersonation, AdminMe,
       Impersonate, SetUserStatus, UserMe, CleanUp, Tick, Visit, changeVars

\* As long as changes of administrators' accounts are made one at a time, an
\* active administrator with the role admin is left, whoever is demoted,
\* disabled or deleted (admin-service.ts:93-100, 115-119).
THEOREM AnAdministratorRemains == AccessSpec => []ActiveAdminRemains
<1>1. AdminInv /\ [AccessNext]_accessVars => AdminInv'
  <2>. SUFFICES ASSUME AdminInv, [AccessNext]_accessVars PROVE AdminInv'
    OBVIOUS
  <2>1. CASE UNCHANGED <<admins, change, overlapped>>
    BY <2>1 DEF AdminInv, AdminsTyped, SerialAdminInv, GuardHolds, OtherAdmins
  <2>2. CASE ChangeStep
    <3>1. ASSUME NEW a \in Admins, NEW role \in {"admin", "editor"}, CreateAdmin(a, role)
          PROVE  AdminInv'
      BY <3>1, CreateAdminKeeps
    <3>2. ASSUME NEW r \in Requests, NEW a \in Admins, NEW role \in {"admin", "editor", "keep"},
                 NEW status \in {"active", "disabled", "keep"}, BeginUpdate(r, a, role, status)
          PROVE  AdminInv'
      BY <3>2, BeginKeeps DEF BeginUpdate
    <3>3. ASSUME NEW r \in Requests, NEW a \in Admins, BeginDelete(r, a)
          PROVE  AdminInv'
      BY <3>3, BeginKeeps DEF BeginDelete
    <3>4. ASSUME NEW r \in Requests, Proceed(r)
          PROVE  AdminInv'
      BY <3>4, ReadAdminKeeps, CountAdminsKeeps, WriteAdminKeeps, DeleteKeeps DEF Proceed
    <3>. QED
      BY <2>2, <3>1, <3>2, <3>3, <3>4 DEF ChangeStep
  <2>3. CASE UNCHANGED accessVars
    BY <2>1, <2>3 DEF accessVars, changeVars
  <2>. QED
    BY <2>1, <2>2, <2>3, OthersLeaveAdmins DEF AccessNext
<1>2. AdminInv => ActiveAdminRemains
  BY DEF AdminInv, SerialAdminInv, ActiveAdminRemains
<1>. QED
  BY AdminInvInit, <1>1, <1>2, PTL DEF AccessSpec

-----------------------------------------------------------------------------
(* Impersonation *)

Cookie == [token : Nat, until : Nat]

\* A cookie's token was drawn, and a token that was borrowed in the past.
BrowserTyped ==
    /\ now \in Nat
    /\ borrowed \in Seq(Nat \cup {None})
    /\ cookies = [admin |-> cookies.admin, user |-> cookies.user, mark |-> cookies.mark]
    /\ cookies.user \in Cookie
    /\ cookies.user.token \in {0} \cup DOMAIN borrowed
    /\ answer # None => answer.token \in {0} \cup DOMAIN borrowed

\* The cookie of a borrowed session comes with a mark of the same moment and
\* the same end, and with the administrator's name.
BorrowedIsMarked ==
    LET t == cookies.user.token
    IN t # 0 /\ borrowed[t] # None =>
          /\ cookies.mark.admin # None
          /\ cookies.mark.issued = borrowed[t]
          /\ cookies.mark.until = borrowed[t] + ImpersonationLife
          /\ cookies.user.until = borrowed[t] + ImpersonationLife

BrowserInv == BrowserTyped /\ BorrowedIsMarked /\ ImpersonatedIsFlagged

\* Tokens drawn later leave those drawn before as they were.
LEMMA TokenDrawn ==
    ASSUME borrowed \in Seq(Nat \cup {None}), NEW lent \in Nat \cup {None},
           borrowed' = Append(borrowed, lent)
    PROVE  /\ borrowed' \in Seq(Nat \cup {None})
           /\ UserToken \in Nat \ {0}
           /\ UserToken \notin DOMAIN borrowed
           /\ DOMAIN borrowed' = DOMAIN borrowed \cup {UserToken}
           /\ \A t \in DOMAIN borrowed : borrowed'[t] = borrowed[t]
           /\ borrowed'[UserToken] = lent
<1>1. Len(borrowed) \in Nat /\ DOMAIN borrowed = 1..Len(borrowed)
  BY LenProperties
<1>2. /\ borrowed' \in Seq(Nat \cup {None})
      /\ Len(borrowed') = Len(borrowed) + 1
      /\ \A i \in 1..Len(borrowed) : borrowed'[i] = borrowed[i]
      /\ borrowed'[Len(borrowed) + 1] = lent
  BY AppendProperties
<1>3. DOMAIN borrowed' = 1..(Len(borrowed) + 1)
  BY <1>2, LenProperties
<1>. QED
  BY <1>1, <1>2, <1>3 DEF UserToken

LEMMA BrowserInvInit == AccessInit => BrowserInv
<1>. SUFFICES ASSUME AccessInit PROVE BrowserInv
  OBVIOUS
<1>1. borrowed \in Seq(Nat \cup {None})
  BY EmptySeq DEF AccessInit
<1>. QED
  BY <1>1 DEF AccessInit, BrowserInv, BrowserTyped, BorrowedIsMarked, ImpersonatedIsFlagged,
              NoCookie, NoMark, Cookie

\* A member signs in, or the attempt fails.
LEMMA UserLoginKeeps ==
    ASSUME BrowserInv, NEW u \in Users, NEW right \in BOOLEAN, UserLogin(u, right)
    PROVE  BrowserInv'
<1>1. now' = now /\ answer' = answer
  BY DEF UserLogin, Visit
<1>2. CASE UNCHANGED <<cookies, borrowed>>
  BY <1>1, <1>2 DEF BrowserInv, BrowserTyped, BorrowedIsMarked, ImpersonatedIsFlagged
<1>3. CASE /\ borrowed' = Append(borrowed, None)
           /\ cookies' = [cookies EXCEPT !.user = Held(UserToken, SessionLife)]
  <2>1. /\ borrowed' \in Seq(Nat \cup {None}) /\ UserToken \in Nat \ {0}
        /\ DOMAIN borrowed' = DOMAIN borrowed \cup {UserToken}
        /\ \A t \in DOMAIN borrowed : borrowed'[t] = borrowed[t]
        /\ borrowed'[UserToken] = None
    BY <1>3, TokenDrawn DEF BrowserInv, BrowserTyped
  <2>2. BrowserTyped'
    BY <1>1, <1>3, <2>1, AccessAssumption DEF BrowserInv, BrowserTyped, Held, Cookie
  <2>3. BorrowedIsMarked'
    BY <1>3, <2>1 DEF BrowserInv, BrowserTyped, BorrowedIsMarked, Held
  <2>4. ImpersonatedIsFlagged'
    BY <1>1, <2>1 DEF BrowserInv, BrowserTyped, ImpersonatedIsFlagged
  <2>. QED
    BY <2>2, <2>3, <2>4 DEF BrowserInv
<1>. QED
  BY <1>2, <1>3 DEF UserLogin, StartUserSession

\* The session and its mark are given out together.
LEMMA ImpersonateKeeps ==
    ASSUME BrowserInv, NEW u \in Users, Impersonate(u)
    PROVE  BrowserInv'
<1>1. /\ now' = now /\ answer' = answer
      /\ borrowed' = Append(borrowed, now)
      /\ cookies' = [cookies EXCEPT !.user = Held(UserToken, ImpersonationLife),
                                    !.mark = MarkFor(AuthSession, u)]
      /\ AuthSession # None /\ IsActive(AuthSession)
  BY DEF Impersonate, Visit, StartUserSession, BorrowedLife, AuthSession
<1>2. /\ borrowed' \in Seq(Nat \cup {None}) /\ UserToken \in Nat \ {0}
      /\ DOMAIN borrowed' = DOMAIN borrowed \cup {UserToken}
      /\ \A t \in DOMAIN borrowed : borrowed'[t] = borrowed[t]
      /\ borrowed'[UserToken] = now
  BY <1>1, TokenDrawn DEF BrowserInv, BrowserTyped
<1>3. BrowserTyped'
  <2>. DEFINE mark == MarkFor(AuthSession, u)
              user == Held(UserToken, ImpersonationLife)
  <2>1. cookies' = [admin |-> cookies.admin, user |-> user, mark |-> mark]
    BY <1>1 DEF BrowserInv, BrowserTyped
  <2>2. user \in Cookie /\ user.token = UserToken
    BY <1>2, AccessAssumption DEF BrowserInv, BrowserTyped, Held, Cookie
  <2>. HIDE DEF mark, user
  <2>3. cookies'.admin = cookies.admin /\ cookies'.user = user /\ cookies'.mark = mark
    BY <2>1
  <2>4. now' \in Nat /\ borrowed' \in Seq(Nat \cup {None})
    BY <1>1, <1>2 DEF BrowserInv, BrowserTyped
  <2>5. answer' # None => answer'.token \in {0} \cup DOMAIN borrowed'
    BY <1>1, <1>2 DEF BrowserInv, BrowserTyped
  <2>. QED
    BY <1>2, <2>1, <2>2, <2>3, <2>4, <2>5 DEF BrowserTyped
<1>4. BorrowedIsMarked'
  BY <1>1, <1>2, AccessAssumption DEF BrowserInv, BrowserTyped, BorrowedIsMarked, Held, MarkFor
<1>5. ImpersonatedIsFlagged'
  BY <1>1, <1>2 DEF BrowserInv, BrowserTyped, ImpersonatedIsFlagged
<1>. QED
  BY <1>3, <1>4, <1>5 DEF BrowserInv

\* A member signs out, or gives a borrowed session back: cookie and mark go.
LEMMA ReleaseKeeps ==
    ASSUME BrowserInv, UserLogout \/ StopImpersonation
    PROVE  BrowserInv'
<1>1. /\ now' = now /\ answer' = answer /\ borrowed' = borrowed
      /\ cookies' = [cookies EXCEPT !.user = NoCookie, !.mark = NoMark]
  BY DEF UserLogout, StopImpersonation, Visit
<1>. QED
  BY <1>1 DEF BrowserInv, BrowserTyped, BorrowedIsMarked, ImpersonatedIsFlagged, NoCookie, Cookie

\* Whoever is told who is signed in, in a borrowed session, is told by whom.
LEMMA UserMeKeeps ==
    ASSUME BrowserInv, NEW identity \in Users \cup {None}, UserMe(identity)
    PROVE  BrowserInv'
<1>. DEFINE t == cookies.user.token
<1>1. /\ now' = now /\ borrowed' = borrowed /\ cookies' = cookies
      /\ answer' = IF Marked THEN MarkedAnswer ELSE PlainAnswer(identity)
  BY DEF UserMe, Visit
<1>2. Sent(cookies.user) \in {0, t} /\ (Sent(cookies.user) # 0 => now < cookies.user.until)
  BY DEF Sent
<1>3. ASSUME answer' # None
      PROVE  /\ answer'.token \in {0, Sent(cookies.user)} /\ answer'.at = now
             /\ Marked => answer'.by = cookies.mark.admin
  BY <1>1, <1>3 DEF MarkedAnswer, PlainAnswer, Answer
<1>4. BrowserTyped' /\ BorrowedIsMarked'
  BY <1>1, <1>2, <1>3 DEF BrowserInv, BrowserTyped, BorrowedIsMarked
<1>5. ASSUME answer' # None, answer'.token # 0, borrowed[answer'.token] # None
      PROVE  answer'.by # None /\ answer'.at <= borrowed[answer'.token] + ImpersonationLife
  <2>1. answer'.token = t /\ t # 0 /\ now < cookies.user.until
    BY <1>2, <1>3, <1>5
  <2>2. borrowed[t] \in Nat
    BY <2>1, <1>5, ElementOfSeq, LenProperties DEF BrowserInv, BrowserTyped
  <2>3. /\ cookies.mark.admin # None
        /\ cookies.mark.issued = borrowed[t]
        /\ cookies.mark.until = borrowed[t] + ImpersonationLife
        /\ cookies.user.until = borrowed[t] + ImpersonationLife
    BY <2>1, <1>5 DEF BrowserInv, BorrowedIsMarked
  <2>4. Marked
    BY <2>1, <2>2, <2>3, AccessAssumption DEF Marked, BrowserInv, BrowserTyped
  <2>. QED
    BY <1>3, <1>5, <2>1, <2>2, <2>3, <2>4, AccessAssumption DEF BrowserInv, BrowserTyped
<1>. QED
  BY <1>1, <1>4, <1>5 DEF BrowserInv, ImpersonatedIsFlagged

\* What an administrator does with the own cookie, or elsewhere, and time.
LEMMA OthersLeaveBrowser ==
    ASSUME BrowserInv, NEW right \in BOOLEAN,
           \/ \E a \in Admins : AdminLogin(a, right)
           \/ \E u \in Users : SetUserStatus(u)
           \/ AdminLogout \/ AdminMe \/ ChangeStep \/ CleanUp \/ Tick
    PROVE  BrowserInv'
<1>1. /\ borrowed' = borrowed /\ answer' = answer
      /\ now' = now \/ now' = now + 1
      /\ \/ cookies' = cookies
         \/ cookies' = [cookies EXCEPT !.admin = Held(NextToken(adminSession), SessionLife)]
         \/ cookies' = [cookies EXCEPT !.admin = NoCookie]
  BY DEF AdminLogin, SetUserStatus, AdminLogout, AdminMe, ChangeStep, CleanUp, Tick, Visit,
         CreateAdmin, BeginUpdate, BeginDelete, Begin, Proceed, ReadAdmin, CountAdmins,
         WriteAdmin, DropSessions, DropRow, Unchanged, browserVars
<1>. QED
  BY <1>1 DEF BrowserInv, BrowserTyped, BorrowedIsMarked, ImpersonatedIsFlagged

\* A session that an administrator borrowed is only ever given out with the
\* administrator's name on it, and only within the hour, however often members
\* and administrators sign in and out at the browser (user-auth.ts:107-127).
THEOREM BorrowedSessionsAreFlagged == AccessSpec => []ImpersonatedIsFlagged
<1>1. BrowserInv /\ [AccessNext]_accessVars => BrowserInv'
  <2>. SUFFICES ASSUME BrowserInv, [AccessNext]_accessVars PROVE BrowserInv'
    OBVIOUS
  <2>1. CASE UNCHANGED accessVars
    BY <2>1 DEF accessVars, browserVars, BrowserInv, BrowserTyped, BorrowedIsMarked,
                ImpersonatedIsFlagged
  <2>2. CASE VisitStep
    BY <2>2, ImpersonateKeeps, ReleaseKeeps, UserMeKeeps, OthersLeaveBrowser DEF VisitStep
  <2>. QED
    BY <2>1, <2>2, UserLoginKeeps, OthersLeaveBrowser DEF AccessNext
<1>2. BrowserInv => ImpersonatedIsFlagged
  BY DEF BrowserInv
<1>. QED
  BY BrowserInvInit, <1>1, <1>2, PTL DEF AccessSpec

-----------------------------------------------------------------------------
(* The registry: loads and writers *)

Load == [of : {"none", "features", "env"}, pc : {"idle", "query", "store"},
         began : 0..MaxClock, value : (SUBSET Keys) \cup Envs \cup {Nothing}]
Writer == [of : {"none", "features", "env"}, pc : {"idle", "write", "invalidate"},
           op : {"none", "create", "switch", "delete", "set"}, key : Keys \cup Envs \cup {Nothing}]

RegistryTyped ==
    /\ clock \in 0..MaxClock
    /\ load \in [Loads -> Load]
    /\ writer \in [Writers -> Writer]
    /\ systemConfig \in Envs \cup {Nothing}
    /\ quiet \in BOOLEAN
    /\ \A w \in Writers : writer[w].of = "env" => writer[w].key \in Envs

LEMMA RegistryTypedInit == RegistryInit => RegistryTyped
BY RegistryAssumption DEF RegistryInit, RegistryTyped, Load, Writer, Idle, IdleWriter

LEMMA ActiveKeys == Active(features) \in SUBSET Keys
BY DEF Active

\* What a load that is answered holds.
LEMMA LoadedFields ==
    ASSUME NEW reading \in Load, NEW value \in (SUBSET Keys) \cup Envs \cup {Nothing}
    PROVE  /\ Loaded(reading, value) \in Load
           /\ Loaded(reading, value).of = reading.of
           /\ Loaded(reading, value).began = reading.began
           /\ Loaded(reading, value).pc = "store"
           /\ Loaded(reading, value).value = value
BY DEF Load, Loaded

LEMMA RegistryTypedNext ==
    ASSUME RegistryTyped, [RegistryNext]_registryVars
    PROVE  RegistryTyped'
<1>. USE RegistryAssumption DEF RegistryTyped
<1>1. CASE UNCHANGED registryVars
  BY <1>1 DEF registryVars, envVars
<1>2. CASE Pass
  BY <1>2 DEF Pass, envVars
<1>3. ASSUME NEW l \in Loads, BeginFeatures(l) \/ BeginEnv(l)
      PROVE  RegistryTyped'
  BY <1>3 DEF BeginFeatures, BeginEnv, envVars, Load, Writer
<1>4. ASSUME NEW l \in Loads, QueryFeatures(l) \/ QueryEnv(l)
      PROVE  RegistryTyped'
  <2>1. Active(features) \in SUBSET Keys /\ Idle \in Load
    BY ActiveKeys DEF Idle, Load
  <2>2. CASE QueryFeatures(l)
    <3>1. load' \in [Loads -> Load]
      BY <2>1, <2>2, LoadedFields DEF QueryFeatures
    <3>. QED
      BY <2>2, <3>1 DEF QueryFeatures, envVars
  <2>3. CASE QueryEnv(l)
    <3>1. load' \in [Loads -> Load]
      BY <2>3, LoadedFields DEF QueryEnv
    <3>. QED
      BY <2>3, <3>1 DEF QueryEnv
  <2>. QED
    BY <1>4, <2>2, <2>3
<1>5. ASSUME NEW l \in Loads, StoreFeatures(l) \/ StoreEnv(l)
      PROVE  RegistryTyped'
  BY <1>5 DEF StoreFeatures, StoreEnv, Idle, envVars, Load, Writer
<1>6. ASSUME NEW w \in Writers, NEW k \in Keys, BeginFeatureCreate(w, k) \/ BeginFeatureItem(w, k)
      PROVE  RegistryTyped'
  BY <1>6 DEF BeginFeatureCreate, BeginFeatureItem, BeginWrite, envVars, Load, Writer
<1>7. ASSUME NEW w \in Writers, NEW e \in Envs, BeginSetEnv(w, e)
      PROVE  RegistryTyped'
  BY <1>7 DEF BeginSetEnv, BeginWrite, envVars, Load, Writer
<1>8. ASSUME NEW w \in Writers, WriteFeature(w) \/ InvalidateFeatures(w)
      PROVE  RegistryTyped'
  BY <1>8 DEF WriteFeature, InvalidateFeatures, IdleWriter, envVars, Load, Writer
<1>9. ASSUME NEW w \in Writers, WriteEnv(w) \/ InvalidateEnv(w)
      PROVE  RegistryTyped'
  <2>1. quiet' \in BOOLEAN
    BY <1>9, Zenon DEF WriteEnv, InvalidateEnv
  <2>. QED
    BY <1>9, <2>1 DEF WriteEnv, InvalidateEnv, Forgotten, IdleWriter, Load, Writer
<1>. QED
  BY <1>1, <1>2, <1>3, <1>4, <1>5, <1>6, <1>7, <1>8, <1>9 DEF RegistryNext, FeatureStep, EnvStep

-----------------------------------------------------------------------------
(* The registry of features *)

\* The lists that were active from t to now, by this history.
Since(history, upto, t) == UNION {history[s] : s \in {s \in 0..upto : s >= t}}

FeatureInv ==
    /\ DOMAIN was = 0..MaxClock
    /\ Active(features) \in was[clock]
    /\ \A l \in Loads : load[l].of = "features" =>
          /\ load[l].began <= clock
          /\ load[l].pc = "store" => load[l].value \in Since(was, clock, load[l].began)
    /\ featureCache # Nothing =>
          /\ featureCache.expiresAt \in Nat /\ featureCache.expiresAt >= FeatureTtl
          /\ featureCache.value \in Since(was, clock, featureCache.expiresAt - FeatureTtl)

\* What was active since a moment goes on being what was active since then.
LEMMA SinceGrows ==
    ASSUME clock \in Nat, clock' \in Nat, clock <= clock', NEW t,
           \A s \in 0..clock : was[s] \subseteq was'[s]
    PROVE  Since(was, clock, t) \subseteq Since(was', clock', t)
BY DEF Since

\* The list of now is the list since any moment there was.
LEMMA ActiveNow ==
    ASSUME clock \in Nat, NEW t \in Nat, t <= clock
    PROVE  was[clock] \subseteq Since(was, clock, t)
BY DEF Since

\* Each step keeps what was, or adds to it.
LEMMA HistoryGrows ==
    ASSUME RegistryTyped, FeatureInv, [RegistryNext]_registryVars
    PROVE  /\ clock' \in 0..MaxClock /\ clock <= clock'
           /\ DOMAIN was' = 0..MaxClock
           /\ Active(features)' \in was'[clock']
           /\ \A s \in 0..clock : was[s] \subseteq was'[s]
<1>. USE RegistryAssumption DEF FeatureInv, RegistryTyped
<1>1. CASE UNCHANGED <<features, was, clock>>
  BY <1>1 DEF Active
<1>2. CASE Pass
  <2>1. /\ clock' = clock + 1 /\ clock' \in 0..MaxClock
        /\ features' = features
        /\ was' = [was EXCEPT ![clock + 1] = {Active(features)}]
    BY <1>2 DEF Pass
  <2>. QED
    BY <2>1 DEF Active
<1>3. ASSUME NEW w \in Writers, WriteFeature(w)
      PROVE  \/ UNCHANGED <<features, was, clock>>
             \/ clock' = clock /\ was' = [was EXCEPT ![clock] = @ \cup {Active(features')}]
  BY <1>3 DEF WriteFeature
<1>4. CASE clock' = clock /\ was' = [was EXCEPT ![clock] = @ \cup {Active(features')}]
  <2>1. Active(features)' = Active(features')
    BY DEF Active
  <2>. QED
    BY <1>4, <2>1
<1>5. CASE FeatureStep
  BY <1>1, <1>3, <1>4, <1>5 DEF FeatureStep, BeginFeatures, QueryFeatures, StoreFeatures,
     BeginFeatureCreate, BeginFeatureItem, BeginWrite, InvalidateFeatures, featureVars
<1>6. CASE EnvStep
  BY <1>1, <1>6 DEF EnvStep, BeginEnv, QueryEnv, StoreEnv, BeginSetEnv, BeginWrite, WriteEnv,
     InvalidateEnv, featureVars
<1>. QED
  BY <1>1, <1>2, <1>5, <1>6 DEF RegistryNext, registryVars, featureVars

\* What a step puts into a slot: nothing, the load it had, a load that begins
\* now, or, when it has queried, the list of now.
LEMMA LoadStep ==
    ASSUME RegistryTyped, [RegistryNext]_registryVars, NEW l \in Loads, load'[l].of = "features"
    PROVE  \/ load'[l] = load[l]
           \/ load'[l].began = clock /\ load'[l].pc = "query" /\ clock' = clock
           \/ /\ load[l].of = "features" /\ load'[l].began = load[l].began
              /\ load'[l].value = Active(features) /\ clock' = clock /\ features' = features
<1>. DEFINE Goal == \/ load'[l] = load[l]
                    \/ load'[l].began = clock /\ load'[l].pc = "query" /\ clock' = clock
                    \/ /\ load[l].of = "features" /\ load'[l].began = load[l].began
                       /\ load'[l].value = Active(features) /\ clock' = clock /\ features' = features
<1>1. CASE load' = load
  BY <1>1
<1>2. ASSUME NEW k \in Loads, k # l,
             \/ BeginFeatures(k) \/ QueryFeatures(k) \/ StoreFeatures(k)
             \/ BeginEnv(k) \/ QueryEnv(k) \/ StoreEnv(k)
      PROVE  load'[l] = load[l]
  BY <1>2 DEF BeginFeatures, QueryFeatures, StoreFeatures, BeginEnv, QueryEnv, StoreEnv, RegistryTyped
<1>3. ASSUME BeginFeatures(l)
      PROVE  Goal
  BY <1>3 DEF BeginFeatures, RegistryTyped
<1>4. ASSUME QueryFeatures(l)
      PROVE  Goal
  BY <1>4, LoadedFields, ActiveKeys DEF QueryFeatures, Idle, RegistryTyped, featureVars
<1>5. ASSUME StoreFeatures(l) \/ BeginEnv(l) \/ QueryEnv(l) \/ StoreEnv(l)
      PROVE  FALSE
  <2>1. CASE QueryEnv(l)
    BY <2>1, LoadedFields, RegistryAssumption DEF QueryEnv, RegistryTyped
  <2>. QED
    BY <1>5, <2>1 DEF StoreFeatures, BeginEnv, StoreEnv, Idle, RegistryTyped
<1>6. CASE FeatureStep
  BY <1>1, <1>2, <1>3, <1>4, <1>5, <1>6 DEF FeatureStep, BeginFeatureCreate, BeginFeatureItem,
     BeginWrite, WriteFeature, InvalidateFeatures
<1>7. CASE EnvStep
  BY <1>1, <1>2, <1>3, <1>4, <1>5, <1>7 DEF EnvStep, BeginSetEnv, BeginWrite, WriteEnv, InvalidateEnv
<1>. QED
  BY <1>1, <1>6, <1>7 DEF RegistryNext, registryVars, Pass

\* The cache holds what it held, or what the load that ends had read.
LEMMA CacheStep ==
    ASSUME RegistryTyped, [RegistryNext]_registryVars
    PROVE  \/ featureCache' \in {featureCache, Nothing}
           \/ \E l \in Loads :
                 /\ load[l].of = "features" /\ load[l].pc = "store"
                 /\ featureCache' = [value |-> load[l].value,
                                     expiresAt |-> load[l].began + FeatureTtl]
<1>1. CASE FeatureStep
  BY <1>1 DEF FeatureStep, BeginFeatures, QueryFeatures, StoreFeatures, BeginFeatureCreate,
     BeginFeatureItem, BeginWrite, WriteFeature, InvalidateFeatures, featureVars, Expiry
<1>2. CASE EnvStep
  BY <1>2 DEF EnvStep, BeginEnv, QueryEnv, StoreEnv, BeginSetEnv, BeginWrite, WriteEnv,
     InvalidateEnv, featureVars
<1>. QED
  BY <1>1, <1>2 DEF RegistryNext, Pass, registryVars, featureVars

LEMMA FeatureInvNext ==
    ASSUME RegistryTyped, FeatureInv, [RegistryNext]_registryVars
    PROVE  FeatureInv'
<1>1. /\ clock \in Nat /\ clock' \in Nat /\ clock <= clock'
      /\ DOMAIN was' = 0..MaxClock
      /\ Active(features)' \in was'[clock']
      /\ \A s \in 0..clock : was[s] \subseteq was'[s]
  BY HistoryGrows, RegistryAssumption DEF RegistryTyped
<1>2. \A t : Since(was, clock, t) \subseteq Since(was', clock', t)
  BY <1>1, SinceGrows
<1>3. ASSUME NEW l \in Loads, load'[l].of = "features"
      PROVE  /\ load'[l].began <= clock'
             /\ load'[l].pc = "store" => load'[l].value \in Since(was', clock', load'[l].began)
  <2>1. CASE load'[l] = load[l]
    BY <1>1, <1>2, <1>3, <2>1, RegistryAssumption DEF FeatureInv, RegistryTyped, Load
  <2>2. CASE load'[l].began = clock /\ load'[l].pc = "query" /\ clock' = clock
    BY <1>1, <2>2
  <2>3. CASE /\ load[l].of = "features" /\ load'[l].began = load[l].began
             /\ load'[l].value = Active(features) /\ clock' = clock /\ features' = features
    <3>1. load[l].began \in Nat /\ load[l].began <= clock
      BY <2>3, RegistryAssumption DEF FeatureInv, RegistryTyped, Load
    <3>2. load'[l].value \in was[clock]
      BY <2>3 DEF FeatureInv
    <3>3. was[clock] \subseteq Since(was, clock, load[l].began)
      BY <1>1, <3>1, ActiveNow
    <3>. QED
      BY <1>2, <2>3, <3>1, <3>2, <3>3
  <2>. QED
    BY <1>3, <2>1, <2>2, <2>3, LoadStep
<1>4. ASSUME featureCache' # Nothing
      PROVE  /\ featureCache'.expiresAt \in Nat /\ featureCache'.expiresAt >= FeatureTtl
             /\ featureCache'.value \in Since(was', clock', featureCache'.expiresAt - FeatureTtl)
  <2>1. CASE featureCache' = featureCache
    BY <1>2, <1>4, <2>1 DEF FeatureInv
  <2>2. ASSUME NEW l \in Loads, load[l].of = "features", load[l].pc = "store",
               featureCache' = [value |-> load[l].value, expiresAt |-> load[l].began + FeatureTtl]
        PROVE  /\ featureCache'.expiresAt \in Nat /\ featureCache'.expiresAt >= FeatureTtl
               /\ featureCache'.value \in Since(was', clock', featureCache'.expiresAt - FeatureTtl)
    <3>1. load[l].began \in Nat
      BY RegistryAssumption DEF RegistryTyped, Load
    <3>2. /\ featureCache'.expiresAt - FeatureTtl = load[l].began
          /\ featureCache'.expiresAt \in Nat /\ featureCache'.expiresAt >= FeatureTtl
      BY <2>2, <3>1, RegistryAssumption
    <3>3. featureCache'.value \in Since(was, clock, load[l].began)
      BY <2>2 DEF FeatureInv
    <3>. QED
      BY <1>2, <3>1, <3>2, <3>3
  <2>. QED
    BY <1>4, <2>1, <2>2, CacheStep
<1>. QED
  BY <1>1, <1>3, <1>4 DEF FeatureInv

\* Features that are served were the active ones at some moment less than a
\* time to live ago, also when a load from before an invalidation ends after
\* it and puts the old list back (feature-registry.ts:19-29).
THEOREM FeaturesAreRecent == RegistrySpec => []FeatureStaleness
<1>1. RegistryInit => FeatureInv
  BY RegistryAssumption DEF RegistryInit, FeatureInv, Active, Idle
<1>2. RegistryTyped /\ FeatureInv => FeatureStaleness
  <2>. SUFFICES ASSUME RegistryTyped, FeatureInv, Serves(featureCache)
                PROVE  featureCache.value \in
                          UNION {was[t] : t \in {s \in 0..clock : s > clock - FeatureTtl}}
    BY DEF FeatureStaleness
  <2>1. clock \in Nat /\ FeatureTtl \in Nat /\ featureCache.expiresAt \in Nat /\ featureCache.expiresAt >= FeatureTtl
    BY RegistryAssumption DEF RegistryTyped, FeatureInv, Serves
  <2>2. PICK t \in 0..clock : /\ t >= featureCache.expiresAt - FeatureTtl
                             /\ featureCache.value \in was[t]
    BY DEF FeatureInv, Since, Serves
  <2>3. clock - FeatureTtl < t
    BY <2>1, <2>2 DEF Serves
  <2>. QED
    BY <2>2, <2>3
<1>. QED
  BY RegistryTypedInit, RegistryTypedNext, FeatureInvNext, <1>1, <1>2, PTL DEF RegistrySpec

-----------------------------------------------------------------------------
(* The environment *)

\* As long as no load was in flight when APP_ENV was written, what loads have
\* read and what the cache keeps is what was set, but for a cache that is
\* still to be dropped.
EnvInv ==
    quiet /\ systemConfig # Nothing =>
        /\ \A l \in Loads : load[l].of = "env" /\ load[l].pc = "store" => load[l].value = systemConfig
        /\ \/ cachedEnv = Nothing \/ cachedEnv.value = systemConfig
           \/ \E w \in Writers : writer[w].of = "env" /\ writer[w].pc = "invalidate"

LEMMA EnvInvNext ==
    ASSUME RegistryTyped, EnvInv, [RegistryNext]_registryVars
    PROVE  EnvInv'
<1>. USE DEF EnvInv, RegistryTyped
<1>1. CASE UNCHANGED registryVars \/ Pass
  BY <1>1 DEF registryVars, envVars, Pass
<1>2. ASSUME NEW l \in Loads, BeginFeatures(l) \/ QueryFeatures(l) \/ StoreFeatures(l) \/ BeginEnv(l)
      PROVE  EnvInv'
  <2>1. CASE QueryFeatures(l)
    BY <2>1, LoadedFields, ActiveKeys DEF QueryFeatures, envVars, Idle
  <2>2. CASE BeginFeatures(l)
    BY <2>2 DEF BeginFeatures, envVars
  <2>3. CASE StoreFeatures(l)
    BY <2>3 DEF StoreFeatures, envVars, Idle
  <2>4. CASE BeginEnv(l)
    BY <2>4 DEF BeginEnv
  <2>. QED
    BY <1>2, <2>1, <2>2, <2>3, <2>4
<1>3. ASSUME NEW l \in Loads, QueryEnv(l)
      PROVE  EnvInv'
  BY <1>3, LoadedFields, RegistryAssumption DEF QueryEnv
<1>4. ASSUME NEW l \in Loads, StoreEnv(l)
      PROVE  EnvInv'
  BY <1>4 DEF StoreEnv, Idle
<1>5. ASSUME NEW w \in Writers, NEW of, NEW op, NEW key, BeginWrite(w, of, op, key)
      PROVE  EnvInv'
  BY <1>5 DEF BeginWrite, IdleWriter, envVars
<1>6. ASSUME NEW w \in Writers, WriteFeature(w) \/ InvalidateFeatures(w)
      PROVE  EnvInv'
  BY <1>6 DEF WriteFeature, InvalidateFeatures, IdleWriter, envVars
<1>7. ASSUME NEW w \in Writers, WriteEnv(w)
      PROVE  EnvInv'
  <2>1. quiet' => \A l \in Loads : load[l].of # "env"
    BY <1>7, Zenon DEF WriteEnv, EnvLoads
  <2>2. writer'[w].of = "env" /\ writer'[w].pc = "invalidate"
    BY <1>7 DEF WriteEnv, Writer
  <2>. QED
    BY <1>7, <2>1, <2>2 DEF WriteEnv
<1>8. ASSUME NEW w \in Writers, InvalidateEnv(w)
      PROVE  EnvInv'
  BY <1>8 DEF InvalidateEnv, Forgotten
<1>. QED
  BY <1>1, <1>2, <1>3, <1>4, <1>5, <1>6, <1>7, <1>8 DEF RegistryNext, FeatureStep, EnvStep,
     BeginFeatureCreate, BeginFeatureItem, BeginSetEnv

\* Once APP_ENV is set, and if no load was in flight when it was written, the
\* old environment is served to nobody, whatever other writes and loads there
\* are (env.ts:50-71, system-config-service.ts:33-38).
THEOREM EnvironmentIsFresh == RegistrySpec => []EnvFreshAfterSet
<1>1. RegistryInit => EnvInv
  BY DEF RegistryInit, EnvInv
<1>2. EnvInv => EnvFreshAfterSet
  BY DEF EnvInv, EnvFreshAfterSet, Serves
<1>. QED
  BY RegistryTypedInit, RegistryTypedNext, EnvInvNext, <1>1, <1>2, PTL DEF RegistrySpec

-----------------------------------------------------------------------------
(* The limiter *)

\* In the window that ends at t.
InWindow(list, t) == {a \in list : a.at > t - Window}
UpTo(list, n, t) == {a \in list : a.nr <= n /\ a.at > t - Window}

\* Attempts are numbered as they are let through, and what the limiter keeps
\* of them has all of the window that ends now.
Kept(made, kept, t) ==
    /\ IsFiniteSet(made)
    /\ \A a \in made : a.at \in Nat /\ a.at <= t /\ a.nr \in 1..Cardinality(made)
    /\ kept \subseteq made /\ InWindow(made, t) \subseteq kept

LimiterInv ==
    /\ now \in Nat
    /\ attempts = [k \in Actions |-> attempts[k]] /\ passed = [k \in Actions |-> passed[k]]
    /\ \A k \in Actions :
          /\ Kept(passed[k], attempts[k], now)
          /\ \A a \in passed[k] : Cardinality(UpTo(passed[k], a.nr, a.at)) <= MaxAttempts[k]
    /\ ~early

LEMMA RecentIsExact ==
    ASSUME LimiterInv, NEW k \in Actions
    PROVE  Recent(k) = InWindow(passed[k], now)
<1>1. Kept(passed[k], attempts[k], now)
  BY DEF LimiterInv
<1>. QED
  BY <1>1 DEF Kept, InWindow, Recent

\* One more attempt in its window, and as many as before in those of others.
LEMMA OneMore ==
    ASSUME NEW made, NEW kept, NEW t \in Nat, Kept(made, kept, t),
           NEW limit \in Nat, Cardinality(InWindow(made, t)) < limit,
           \A a \in made : Cardinality(UpTo(made, a.nr, a.at)) <= limit,
           NEW new, new = [at |-> t, nr |-> Cardinality(made) + 1],
           NEW more, more = made \cup {new}
    PROVE  /\ Kept(more, InWindow(made, t) \cup {new}, t)
           /\ \A a \in more : Cardinality(UpTo(more, a.nr, a.at)) <= limit
<1>1. IsFiniteSet(made) /\ Cardinality(made) \in Nat
  BY FS_CardinalityType DEF Kept
<1>2. new \notin made
  BY <1>1 DEF Kept
<1>3. IsFiniteSet(more) /\ Cardinality(more) = Cardinality(made) + 1
  BY <1>1, <1>2, FS_AddElement
<1>4. \A a \in made : a.at \in Nat /\ a.at <= t /\ a.nr \in 1..Cardinality(made)
  BY DEF Kept
<1>5. Kept(more, InWindow(made, t) \cup {new}, t)
  <2>1. \A a \in more : a.at \in Nat /\ a.at <= t /\ a.nr \in 1..Cardinality(more)
    BY <1>1, <1>3, <1>4
  <2>2. InWindow(more, t) \subseteq InWindow(made, t) \cup {new}
    BY DEF InWindow
  <2>3. InWindow(made, t) \subseteq made
    BY DEF InWindow
  <2>. QED
    BY <1>3, <2>1, <2>2, <2>3 DEF Kept
<1>6. ASSUME NEW a \in made PROVE Cardinality(UpTo(more, a.nr, a.at)) <= limit
  <2>1. UpTo(more, a.nr, a.at) = UpTo(made, a.nr, a.at)
    BY <1>1, <1>4 DEF UpTo
  <2>. QED
    BY <2>1
<1>7. Cardinality(UpTo(more, new.nr, new.at)) <= limit
  <2>1. IsFiniteSet(InWindow(made, t)) /\ new \notin InWindow(made, t)
    BY <1>1, <1>2, FS_Subset DEF InWindow
  <2>2. /\ Cardinality(InWindow(made, t) \cup {new}) = Cardinality(InWindow(made, t)) + 1
        /\ IsFiniteSet(InWindow(made, t) \cup {new})
    BY <2>1, FS_AddElement
  <2>3. UpTo(more, new.nr, new.at) \subseteq InWindow(made, t) \cup {new}
    BY DEF UpTo, InWindow
  <2>4. /\ Cardinality(UpTo(more, new.nr, new.at)) <= Cardinality(InWindow(made, t) \cup {new})
        /\ Cardinality(UpTo(more, new.nr, new.at)) \in Nat
    BY <2>2, <2>3, FS_Subset, FS_CardinalityType
  <2>5. Cardinality(InWindow(made, t)) \in Nat
    BY <2>1, FS_CardinalityType
  <2>. QED
    BY <2>2, <2>4, <2>5
<1>. QED
  BY <1>5, <1>6, <1>7

LEMMA AttemptKeeps ==
    ASSUME LimiterInv, UNCHANGED now, NEW k \in Actions, Attempt(k)
    PROVE  LimiterInv'
<1>1. now \in Nat /\ Kept(passed[k], attempts[k], now) /\ MaxAttempts[k] \in Nat
      /\ \A a \in passed[k] : Cardinality(UpTo(passed[k], a.nr, a.at)) <= MaxAttempts[k]
  BY LimiterAssumption DEF LimiterInv, Actions
<1>. PICK new : new = [at |-> now, nr |-> Cardinality(passed[k]) + 1]
  OBVIOUS
<1>. PICK more : more = passed[k] \cup {new}
  OBVIOUS
<1>2. Cardinality(InWindow(passed[k], now)) < MaxAttempts[k]
  BY RecentIsExact DEF Attempt, Allowed
<1>3. /\ attempts' = [attempts EXCEPT ![k] = InWindow(passed[k], now) \cup {new}]
      /\ passed' = [passed EXCEPT ![k] = more]
      /\ early' = early
  BY RecentIsExact DEF Attempt
<1>4. /\ Kept(more, InWindow(passed[k], now) \cup {new}, now)
      /\ \A a \in more : Cardinality(UpTo(more, a.nr, a.at)) <= MaxAttempts[k]
  BY <1>1, <1>2, OneMore
<1>5. /\ attempts'[k] = InWindow(passed[k], now) \cup {new} /\ passed'[k] = more
      /\ attempts' = [j \in Actions |-> attempts'[j]] /\ passed' = [j \in Actions |-> passed'[j]]
      /\ \A j \in Actions \ {k} : attempts'[j] = attempts[j] /\ passed'[j] = passed[j]
  BY <1>3 DEF LimiterInv
<1>. QED
  BY <1>3, <1>4, <1>5 DEF LimiterInv

\* The filter on its own, by a refusal or by the timer, forgets nothing of the
\* window.
LEMMA FilterKeeps ==
    ASSUME NEW made, NEW kept, NEW t, Kept(made, kept, t)
    PROVE  Kept(made, {a \in kept : a.at > t - Window}, t)
BY DEF Kept, InWindow

LEMMA RefuseKeeps ==
    ASSUME LimiterInv, UNCHANGED now, NEW k \in Actions, Refuse(k)
    PROVE  LimiterInv'
<1>1. /\ attempts' = [attempts EXCEPT ![k] = Recent(k)] /\ passed' = passed
      /\ ~early'
  BY RecentIsExact DEF Refuse, Allowed, InWindow, LimiterInv
<1>2. /\ attempts'[k] = Recent(k) /\ \A j \in Actions \ {k} : attempts'[j] = attempts[j]
      /\ attempts' = [j \in Actions |-> attempts'[j]]
  BY <1>1 DEF LimiterInv
<1>3. Kept(passed[k], Recent(k), now)
  BY FilterKeeps DEF LimiterInv, Recent
<1>. QED
  BY <1>1, <1>2, <1>3 DEF LimiterInv

LEMMA CleanUpKeeps == ASSUME LimiterInv, CleanUp PROVE LimiterInv'
<1>1. /\ attempts' = [k \in Actions |-> Recent(k)] /\ UNCHANGED <<passed, early, now>>
  BY DEF CleanUp
<1>2. \A k \in Actions : Kept(passed[k], Recent(k), now)
  BY FilterKeeps DEF LimiterInv, Recent
<1>. QED
  BY <1>1, <1>2 DEF LimiterInv

LEMMA TickForgets == ASSUME LimiterInv, Tick PROVE LimiterInv'
<1>1. now' = now + 1 /\ UNCHANGED <<attempts, passed, early>>
  BY DEF Tick, limiterVars
<1>2. ASSUME NEW k \in Actions PROVE Kept(passed[k], attempts[k], now + 1)
  <2>1. Kept(passed[k], attempts[k], now) /\ now \in Nat /\ Window \in Nat
    BY LimiterAssumption DEF LimiterInv
  <2>. QED
    BY <2>1 DEF Kept, InWindow
<1>. QED
  BY <1>1, <1>2 DEF LimiterInv

LEMMA LimiterStep == LimiterInv /\ [AccessNext]_accessVars => LimiterInv'
<1>. SUFFICES ASSUME LimiterInv, [AccessNext]_accessVars PROVE LimiterInv'
  OBVIOUS
<1>1. CASE UNCHANGED <<attempts, passed, early, now>>
  BY <1>1 DEF LimiterInv
<1>2. ASSUME NEW right \in BOOLEAN, NEW a \in Admins, AdminLogin(a, right) PROVE LimiterInv'
  BY <1>2, AttemptKeeps, RefuseKeeps, LimiterAssumption DEF AdminLogin, Visit, Actions
<1>3. ASSUME NEW right \in BOOLEAN, NEW u \in Users, UserLogin(u, right) PROVE LimiterInv'
  BY <1>3, AttemptKeeps, RefuseKeeps, LimiterAssumption DEF UserLogin, Visit, Actions
<1>4. CASE VisitStep
  <2>1. AdminLogout \/ UserLogout \/ StopImpersonation \/ AdminMe => UNCHANGED <<limiterVars, now>>
    BY DEF AdminLogout, UserLogout, StopImpersonation, AdminMe, Visit
  <2>2. ASSUME NEW u \in Users PROVE Impersonate(u) \/ SetUserStatus(u) => UNCHANGED <<limiterVars, now>>
    BY DEF Impersonate, SetUserStatus, Visit
  <2>3. ASSUME NEW i \in Users \cup {None} PROVE UserMe(i) => UNCHANGED <<limiterVars, now>>
    BY DEF UserMe, Visit
  <2>. QED
    BY <1>1, <1>4, <2>1, <2>2, <2>3 DEF VisitStep, limiterVars
<1>5. CASE ChangeStep
  BY <1>1, <1>5 DEF ChangeStep, Proceed, CreateAdmin, BeginUpdate, BeginDelete, Begin, ReadAdmin,
                    CountAdmins, WriteAdmin, DropSessions, DropRow, Unchanged, limiterVars
<1>6. CASE UNCHANGED accessVars
  BY <1>1, <1>6 DEF accessVars, limiterVars
<1>. QED
  BY <1>2, <1>3, <1>4, <1>5, <1>6, CleanUpKeeps, TickForgets DEF AccessNext

\* In no window are more attempts let through than the limit, and none is
\* refused while fewer were, whatever the filter and the timer have dropped
\* (rate-limiter.ts:15-17, 49-60).
THEOREM LimitsAreExact == AccessSpec => []RateLimitExact
<1>1. AccessInit => LimiterInv
  <2>. SUFFICES ASSUME AccessInit PROVE LimiterInv
    OBVIOUS
  <2>1. /\ now = 0 /\ ~early
        /\ attempts = [k \in Actions |-> {}] /\ passed = [k \in Actions |-> {}]
    BY DEF AccessInit
  <2>2. Kept({}, {}, 0)
    BY FS_EmptySet DEF Kept, InWindow
  <2>. QED
    BY <2>1, <2>2 DEF LimiterInv
<1>2. LimiterInv => RateLimitExact
  BY DEF LimiterInv, RateLimitExact, UpTo
<1>. QED
  BY <1>1, <1>2, LimiterStep, PTL DEF AccessSpec

=============================================================================
