-------------------------------- MODULE Access --------------------------------
(***************************************************************************)
(* Who is signed in: administrators and their accounts                     *)
(* (admin-service.ts), their sessions (lib/admin-auth.ts), members'        *)
(* sessions and impersonation (lib/user-auth.ts), and the limiter of       *)
(* sign-in attempts (lib/rate-limiter.ts).                                 *)
(*                                                                         *)
(* One browser is modelled, used by an administrator and by members in     *)
(* turn; administrators at other machines change administrators' accounts  *)
(* at the same time, in the slots of Requests.  A handler that writes once *)
(* is one step: what it read before is read again by every request that    *)
(* uses the session it makes.  Time is counted in units of the             *)
(* impersonation's lifetime.                                               *)
(***************************************************************************)
EXTENDS Integers, FiniteSets, SequencesExt

CONSTANTS
    None,
    Admins,             \* administrators' accounts, made or not
    StartAdmins,        \* those there are at first
    Users,
    Tokens,             \* session tokens: 1..n, in order of creation
    Providers,          \* identity providers that may be configured
    Requests,           \* slots for changes of administrators' accounts
    ImpersonationLife,  \* IMPERSONATION_SECONDS
    SessionLife,        \* SESSION_SECONDS, of members and administrators
    Window,             \* windowMs of both limits
    MaxAttempts,        \* maxAttempts by action
    MaxTime,            \* bound: the clock
    MaxVisits,          \* bound: requests of the browser
    MaxChanges          \* bound: changes of administrators' accounts

AdminRow == [role : {"admin", "editor"}, status : {"active", "disabled"}]

\* The seed makes the first administrator (prisma/seed.ts).
ASSUME AccessAssumption ==
    /\ StartAdmins \subseteq Admins /\ StartAdmins # {}
    /\ None \notin Admins \cup Users \cup AdminRow
    /\ Tokens = 1..Cardinality(Tokens)
    /\ ImpersonationLife \in Nat \ {0} /\ SessionLife \in Nat
    /\ ImpersonationLife < SessionLife

ASSUME LimiterAssumption ==
    /\ Window \in Nat
    /\ {"admin.login", "user.login"} \subseteq DOMAIN MaxAttempts
    /\ MaxAttempts \in [DOMAIN MaxAttempts -> Nat]

VARIABLES
    admins,         \* Admin rows, [role, status], or None
    adminSession,   \* AdminSession rows by token, [admin, expires], or None
    userStatus,     \* User rows: their status
    userSession,    \* UserSession rows by token, [user, expires], or None
    cookies,        \* what the browser holds: two tokens and a mark
    provider,       \* the configured member identity provider
    attempts,       \* the limiter's timestamps by action, numbered as made
    now,
    change,         \* per slot: the change of an administrator in progress
    passed, early,  \* history: attempts let through, one refused too early
    borrowed,       \* history: by member's token drawn so far, when an
                    \* administrator borrowed it, or None
    answer,         \* history: the last session userMe gave out
    visits, changes, overlapped     \* history: requests made

browserVars == <<cookies, answer, borrowed, visits>>
limiterVars == <<attempts, passed, early>>
changeVars == <<change, changes, overlapped>>
accessVars == <<admins, adminSession, userStatus, userSession, provider, now,
                browserVars, limiterVars, changeVars>>

-----------------------------------------------------------------------------
(* State *)

ActiveAdmin == [role |-> "admin", status |-> "active"]

Actions == DOMAIN MaxAttempts

\* A cookie is sent until Max-Age has passed; NoCookie is never sent.
NoCookie == [token |-> 0, until |-> 0]
NoMark == [admin |-> None, user |-> None, issued |-> 0, until |-> 0]

IdleChange == [op |-> "none", pc |-> "idle", target |-> None,
               role |-> "keep", status |-> "keep"]

AtRestChanges == \A r \in Requests : change[r].pc = "idle"

IsActive(a) == admins[a] # None /\ admins[a].status = "active"

\* countAdmins(exceptId).
OtherAdmins(a) == {b \in Admins \ {a} : admins[b] = ActiveAdmin}

AccessInit ==
    /\ admins = [a \in Admins |-> IF a \in StartAdmins THEN ActiveAdmin ELSE None]
    /\ adminSession = [t \in Tokens |-> None]
    /\ userStatus = [u \in Users |-> "active"]
    /\ userSession = [t \in Tokens |-> None]
    /\ cookies = [admin |-> NoCookie, user |-> NoCookie, mark |-> NoMark]
    /\ provider \in Providers
    /\ attempts = [k \in Actions |-> {}]
    /\ now = 0
    /\ change = [r \in Requests |-> IdleChange]
    /\ passed = [k \in Actions |-> {}] /\ early = FALSE
    /\ answer = None /\ borrowed = <<>>
    /\ visits = 0 /\ changes = 0 /\ overlapped = FALSE

-----------------------------------------------------------------------------
(* The limiter.  It is synchronous: a step each. *)

\* Bug: an attempt made exactly windowMs ago still counts.
RecentInclusive(k) == {a \in attempts[k] : a.at >= now - Window}

Recent(k) == {a \in attempts[k] : a.at > now - Window}

Allowed(k) == Cardinality(Recent(k)) < MaxAttempts[k]

\* checkRateLimit, of an attempt that is let through and of one refused.
Attempt(k) ==
    /\ Allowed(k)
    /\ LET made == [at |-> now, nr |-> Cardinality(passed[k]) + 1]
       IN /\ attempts' = [attempts EXCEPT ![k] = Recent(k) \cup {made}]
          /\ passed' = [passed EXCEPT ![k] = @ \cup {made}]
    /\ UNCHANGED early

Refuse(k) ==
    /\ ~Allowed(k)
    /\ attempts' = [attempts EXCEPT ![k] = Recent(k)]
    /\ early' = (early \/ Cardinality({a \in passed[k] : a.at > now - Window}) < MaxAttempts[k])
    /\ UNCHANGED passed

\* The timer drops what is as old as the longest window.
CleanUp ==
    /\ attempts' = [k \in Actions |-> Recent(k)]
    /\ attempts' # attempts
    /\ UNCHANGED <<admins, adminSession, userStatus, userSession, provider, now,
                   passed, early, browserVars, changeVars>>

-----------------------------------------------------------------------------
(* Sessions *)

Visit == /\ visits < MaxVisits
         /\ visits' = visits + 1
         /\ UNCHANGED <<now, provider, changeVars>>

Sent(c) == IF now < c.until THEN c.token ELSE 0

\* The next token of an administrator: the browser's cookie is the only one
\* that is looked at, and it is replaced with it.
FreeTokens(rows) == {t \in Tokens : rows[t] = None /\ \A s \in Tokens : s > t => rows[s] = None}
NextToken(rows) == CHOOSE t \in FreeTokens(rows) : \A s \in FreeTokens(rows) : t <= s

\* createAdminSession and createUserSession: the row, and the cookie.
Held(t, life) == [token |-> t, until |-> now + life]

\* Members' tokens are random, and none is ever drawn twice.
UserToken == Len(borrowed) + 1

\* createUserSession(userId, res, maxAgeSeconds).
StartUserSession(u, life, lent) ==
    /\ UserToken \in Tokens
    /\ userSession' = [userSession EXCEPT ![UserToken] =
                           [user |-> u, expires |-> now + life]]
    /\ borrowed' = Append(borrowed, lent)

\* clearUserSession deletes the presented row.
DropUserSession ==
    userSession' = IF Sent(cookies.user) = 0 THEN userSession
                   ELSE [userSession EXCEPT ![Sent(cookies.user)] = None]

\* The administrator whose session the browser presents.  A row that has
\* run out is nobody's; a disabled administrator's row is deleted.
Presented == LET t == Sent(cookies.admin)
             IN IF t = 0 \/ adminSession[t] = None THEN None
                ELSE IF adminSession[t].expires < now THEN None
                ELSE adminSession[t].admin
AuthSession == IF Presented # None /\ IsActive(Presented) THEN Presented ELSE None
RevokeUseless ==
    adminSession' = IF Sent(cookies.admin) # 0 /\ AuthSession = None
                    THEN [adminSession EXCEPT ![Sent(cookies.admin)] = None]
                    ELSE adminSession

\* loginController, of an attempt with the right password or a wrong one.
AdminLogin(a, right) ==
    /\ Visit
    /\ \/ /\ Attempt("admin.login")
          /\ IF right /\ IsActive(a)
             THEN /\ FreeTokens(adminSession) # {}
                  /\ adminSession' = [adminSession EXCEPT ![NextToken(adminSession)] =
                                          [admin |-> a, expires |-> now + SessionLife]]
                  /\ cookies' = [cookies EXCEPT !.admin = Held(NextToken(adminSession), SessionLife)]
             ELSE UNCHANGED <<adminSession, cookies>>
       \/ /\ Refuse("admin.login")
          /\ UNCHANGED <<adminSession, cookies>>
    /\ UNCHANGED <<admins, userStatus, userSession, answer, borrowed>>

\* logoutController.
AdminLogout ==
    /\ Visit
    /\ adminSession' = IF Sent(cookies.admin) = 0 THEN adminSession
                       ELSE [adminSession EXCEPT ![Sent(cookies.admin)] = None]
    /\ cookies' = [cookies EXCEPT !.admin = NoCookie]
    /\ UNCHANGED <<admins, userStatus, userSession, answer, borrowed, limiterVars>>

\* userLoginController; the provider must be the credentials one.
UserLogin(u, right) ==
    /\ Visit
    /\ provider = "credentials"
    /\ \/ /\ Attempt("user.login")
          /\ IF right /\ userStatus[u] = "active"
             THEN /\ StartUserSession(u, SessionLife, None)
                  /\ cookies' = [cookies EXCEPT !.user = Held(UserToken, SessionLife)]
             ELSE UNCHANGED <<userSession, cookies, borrowed>>
       \/ /\ Refuse("user.login")
          /\ UNCHANGED <<userSession, cookies, borrowed>>
    /\ UNCHANGED <<admins, adminSession, userStatus, answer>>

\* userLogoutController and clearUserSession's cookies.
UserLogout ==
    /\ Visit
    /\ DropUserSession
    /\ cookies' = [cookies EXCEPT !.user = NoCookie, !.mark = NoMark]
    /\ UNCHANGED <<admins, adminSession, userStatus, answer, borrowed, limiterVars>>

-----------------------------------------------------------------------------
(* Impersonation *)

\* Bug: the default lifetime.
BorrowedLifeDefault == SessionLife

\* The lifetime startImpersonationController asks for.
BorrowedLife == ImpersonationLife

\* setImpersonationCookie.
MarkFor(a, u) == [admin |-> a, user |-> u, issued |-> now,
                  until |-> now + ImpersonationLife]

\* getImpersonationInfo: the browser sends the mark and it is not too old.
Marked == now < cookies.mark.until /\ now - cookies.mark.issued <= ImpersonationLife

\* startImpersonationController, of an administrator with the role admin.
Impersonate(u) ==
    /\ Visit
    /\ AuthSession # None /\ admins[AuthSession].role = "admin"
    /\ userStatus[u] = "active"
    /\ StartUserSession(u, BorrowedLife, now)
    /\ cookies' = [cookies EXCEPT !.user = Held(UserToken, BorrowedLife),
                                  !.mark = MarkFor(AuthSession, u)]
    /\ UNCHANGED <<admins, adminSession, userStatus, answer, limiterVars>>

\* stopImpersonationController.
StopImpersonation ==
    /\ Visit
    /\ Marked
    /\ DropUserSession
    /\ cookies' = [cookies EXCEPT !.user = NoCookie, !.mark = NoMark]
    /\ UNCHANGED <<admins, adminSession, userStatus, answer, borrowed, limiterVars>>

\* credentialsAuthProvider.verify and the local account's status.
CredentialsUser ==
    LET t == Sent(cookies.user)
    IN IF t = 0 \/ userSession[t] = None THEN None
       ELSE IF userSession[t].expires < now THEN None
       ELSE IF userStatus[userSession[t].user] = "active" THEN userSession[t].user
       ELSE None

\* getUserSession under a mark, and without one.
Answer(u, t, by) == [user |-> u, token |-> t, by |-> by, at |-> now]
MarkedAnswer ==
    IF ~IsActive(cookies.mark.admin) \/ CredentialsUser # cookies.mark.user THEN None
    ELSE Answer(CredentialsUser, Sent(cookies.user), cookies.mark.admin)
Resolved(identity) ==
    IF provider = "credentials" THEN CredentialsUser
    ELSE IF identity # None /\ userStatus[identity] = "active" THEN identity ELSE None
PlainAnswer(identity) ==
    IF Resolved(identity) = None THEN None
    ELSE Answer(Resolved(identity), IF provider = "credentials" THEN Sent(cookies.user) ELSE 0, None)

\* userMeController.  An expired row is deleted when it is presented; identity
\* is whoever the external provider says the request is from.
UserMe(identity) ==
    /\ Visit
    /\ answer' = IF Marked THEN MarkedAnswer ELSE PlainAnswer(identity)
    /\ LET t == Sent(cookies.user)
           looked == IF Marked THEN IsActive(cookies.mark.admin)
                               ELSE provider = "credentials"
       IN userSession' = IF looked /\ t # 0 /\ userSession[t] # None /\ userSession[t].expires < now
                         THEN [userSession EXCEPT ![t] = None] ELSE userSession
    /\ UNCHANGED <<admins, adminSession, userStatus, cookies, borrowed, limiterVars>>

\* meController.
AdminMe ==
    /\ Visit
    /\ RevokeUseless
    /\ UNCHANGED <<admins, userStatus, userSession, cookies, answer, borrowed, limiterVars>>

-----------------------------------------------------------------------------
(* Changes of administrators' accounts *)

Acting == \E b \in Admins : admins[b] = ActiveAdmin

Begin(r, op, a, role, status) ==
    /\ Acting
    /\ change[r].pc = "idle"
    /\ changes < MaxChanges
    /\ change' = [change EXCEPT ![r] = [op |-> op, pc |-> "read", target |-> a,
                                        role |-> role, status |-> status]]
    /\ changes' = changes + 1
    /\ overlapped' = (overlapped \/ ~AtRestChanges)
    /\ UNCHANGED <<admins, adminSession, userStatus, userSession, provider, now,
                   browserVars, limiterVars>>

\* adminItemController, PUT and DELETE.
BeginUpdate(r, a, role, status) == Begin(r, "update", a, role, status)
BeginDelete(r, a) == Begin(r, "delete", a, "keep", "keep")

\* adminService.create: one write, of an account that was not there.
CreateAdmin(a, role) ==
    /\ Acting
    /\ changes < MaxChanges
    /\ admins[a] = None
    /\ admins' = [admins EXCEPT ![a] = [role |-> role, status |-> "active"]]
    /\ changes' = changes + 1
    /\ UNCHANGED <<adminSession, userStatus, userSession, provider, now, change,
                   overlapped, browserVars, limiterVars>>

Goto(r, pc) == change' = [change EXCEPT ![r].pc = pc]
Finish(r) == change' = [change EXCEPT ![r] = IdleChange]
Unchanged == UNCHANGED <<userStatus, userSession, provider, now, changes, overlapped,
                         browserVars, limiterVars>>

Pick(input, current) == IF input = "keep" THEN current ELSE input

\* Whether the change takes an administrator's role or access away.
LosesAdmin(c, row) ==
    /\ row.role = "admin"
    /\ c.op = "delete" \/ Pick(c.role, row.role) # "admin"
                       \/ Pick(c.status, row.status) # "active"

\* findById; an update works out every field from the row it read.
ReadAdmin(r) ==
    LET c == change[r] row == admins[c.target]
    IN /\ c.pc = "read"
       /\ IF row = None THEN Finish(r)
          ELSE change' = [change EXCEPT ![r] =
                   [c EXCEPT !.pc = IF LosesAdmin(c, row) THEN "count"
                                    ELSE IF c.op = "delete" THEN "sessions" ELSE "write",
                             !.role = Pick(c.role, row.role),
                             !.status = Pick(c.status, row.status)]]
       /\ UNCHANGED <<admins, adminSession>> /\ Unchanged

\* Bug: every administrator counts, whatever the status.
EnoughAnyStatus(a) == \E b \in Admins \ {a} : admins[b] # None /\ admins[b].role = "admin"

\* The guard of update and of delete.
Enough(a) == OtherAdmins(a) # {}

CountAdmins(r) ==
    /\ change[r].pc = "count"
    /\ IF Enough(change[r].target)
       THEN Goto(r, IF change[r].op = "delete" THEN "sessions" ELSE "write")
       ELSE Finish(r)
    /\ UNCHANGED <<admins, adminSession>> /\ Unchanged

\* adminRepository.update; the row may be gone.
WriteAdmin(r) ==
    LET c == change[r]
    IN /\ c.pc = "write"
       /\ admins' = IF admins[c.target] = None THEN admins
                    ELSE [admins EXCEPT ![c.target] = [role |-> c.role, status |-> c.status]]
       /\ Finish(r)
       /\ UNCHANGED adminSession /\ Unchanged

\* adminRepository.delete: the sessions, then the row, which is refused while
\* a session refers to it.
DropSessions(r) ==
    /\ change[r].pc = "sessions"
    /\ adminSession' = [t \in Tokens |->
           IF adminSession[t] # None /\ adminSession[t].admin = change[r].target
           THEN None ELSE adminSession[t]]
    /\ Goto(r, "row")
    /\ UNCHANGED admins /\ Unchanged

DropRow(r) ==
    LET a == change[r].target
    IN /\ change[r].pc = "row"
       /\ admins' = IF \E t \in Tokens : adminSession[t] # None /\ adminSession[t].admin = a
                    THEN admins ELSE [admins EXCEPT ![a] = None]
       /\ Finish(r)
       /\ UNCHANGED adminSession /\ Unchanged

-----------------------------------------------------------------------------
(* The rest of the world *)

\* An administrator disables or enables a member's account (Accounts).
SetUserStatus(u) ==
    /\ Visit
    /\ userStatus' = [userStatus EXCEPT ![u] = IF @ = "active" THEN "disabled" ELSE "active"]
    /\ UNCHANGED <<admins, adminSession, userSession, cookies, answer, borrowed, limiterVars>>

Tick ==
    /\ now < MaxTime
    /\ now' = now + 1
    /\ UNCHANGED <<admins, adminSession, userStatus, userSession, provider,
                   browserVars, limiterVars, changeVars>>

VisitStep ==
    \/ AdminLogout \/ UserLogout \/ StopImpersonation \/ AdminMe
    \/ \E u \in Users : Impersonate(u) \/ SetUserStatus(u)
    \/ \E i \in Users \cup {None} : UserMe(i)

\* A change goes on.
Proceed(r) == \/ ReadAdmin(r) \/ CountAdmins(r) \/ WriteAdmin(r)
              \/ DropSessions(r) \/ DropRow(r)

ChangeStep ==
    \/ \E a \in Admins, role \in {"admin", "editor"} : CreateAdmin(a, role)
    \/ \E r \in Requests :
          \/ \E a \in Admins, role \in {"admin", "editor", "keep"},
                status \in {"active", "disabled", "keep"} : BeginUpdate(r, a, role, status)
          \/ \E a \in Admins : BeginDelete(r, a)
          \/ Proceed(r)

AccessNext ==
    \/ \E right \in BOOLEAN : \/ \E a \in Admins : AdminLogin(a, right)
                              \/ \E u \in Users : UserLogin(u, right)
    \/ VisitStep \/ ChangeStep \/ CleanUp \/ Tick

-----------------------------------------------------------------------------
(* Properties *)

\* As long as changes of administrators' accounts are made one at a time, an
\* active administrator with the role admin is left whenever none is under
\* way: update and delete count the others before they write
\* (admin-service.ts:93-100, 115-119).
ActiveAdminRemains ==
    ~overlapped /\ AtRestChanges => \E a \in Admins : admins[a] = ActiveAdmin

\* A session that an administrator borrowed is only ever given out with the
\* administrator's name on it, and only within the hour, whatever the browser
\* does in between: sign in, out, or borrow another account
\* (user-auth.ts:107-127).  The mark and the session must end together.
ImpersonatedIsFlagged ==
    answer # None /\ answer.token # 0 /\ borrowed[answer.token] # None =>
        /\ answer.by # None
        /\ answer.at <= borrowed[answer.token] + ImpersonationLife

\* In no window are more attempts let through than the limit, counted at
\* every attempt, and none is refused while fewer were: neither the filter nor
\* the timer forgets too much or too little (rate-limiter.ts:15-17, 49-60).
RateLimitExact ==
    /\ \A k \in Actions : \A a \in passed[k] :
           Cardinality({b \in passed[k] : b.nr <= a.nr /\ b.at > a.at - Window}) <= MaxAttempts[k]
    /\ ~early

=============================================================================
