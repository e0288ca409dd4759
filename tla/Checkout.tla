------------------------------- MODULE Checkout -------------------------------
(***************************************************************************)
(* Checkout: app-api/services/checkout-service.ts on top of                *)
(* PurchaseService.  createSession validates the cart, opens a session at  *)
(* the payment provider and stores a CheckoutSession row; the buyer pays   *)
(* at the provider; verifySession, called by the success page on each      *)
(* load, finds or creates the buyer's account and calls                    *)
(* purchaseService.create once per cart item.                              *)
(*                                                                         *)
(* As in PurchaseService every awaited call is one action.  Slot r runs    *)
(* one request: work[r] is the checkout procedure, call[r] the             *)
(* purchaseService.create it awaits, or a request of its own.  Awaited     *)
(* calls that only read settings or prices can do nothing but reject,      *)
(* which Fail covers.  A tenant is always selected.                        *)
(***************************************************************************)
EXTENDS PurchaseService

CONSTANTS
    Cart,           \* Cart[s]: the products of checkout session s, in order
    Registered,     \* users with an account at the start
    Joined,         \* users with an active membership of the tenant
    Foreign,        \* users whose account belongs to another tenant
    Suspended,      \* users whose membership of the tenant is not active
    MaxRows         \* bound: purchases that verifications of one session make

\* The provider's reference of what session s paid for (subscription, payment
\* intent or session id) is unique to s and stands for the session itself.
Sessions == Refs

ASSUME CartAssumption ==
    Cart \in [Sessions -> Seq(Products)]

ASSUME AccountAssumption ==
    /\ Registered \subseteq Users
    /\ Joined \subseteq Registered
    /\ Foreign \subseteq Registered \ Joined
    /\ Suspended \subseteq Registered \ Joined
    /\ MaxRows \in Nat

VARIABLES
    work,           \* per slot: the checkout procedure in progress
    session,        \* CheckoutSession row and the provider's session
    accounts,       \* User rows, one per email
    members,        \* users with an active OrganizationMembership
    customer        \* User.stripeCustomerId

people == <<accounts, members, customer>>
checkoutVars == <<work, session, people>>
allVars == <<vars, checkoutVars>>

-----------------------------------------------------------------------------
(* State *)

\* A session as the shop (row) and the provider (payment) have it.  user is the
\* logged-in buyer's id, None for a guest; payer is the user that has, or will
\* get, the email the provider reports with the payment; a customer is known by
\* the user it was created for, or by the guest session that created it.
NoSession == [row |-> "none", payment |-> "none", user |-> None,
              payer |-> None, customer |-> None]

IdleWork == [pc |-> "idle", session |-> None, user |-> None,
             customer |-> None, todo |-> {}, item |-> 1]

\* Positions of cart s, and whether the provider bills it as a subscription.
Items(s) == DOMAIN Cart[s]
CartProducts(s) == {Cart[s][k] : k \in Items(s)}
InCart(s, p) == {k \in Items(s) : Cart[s][k] = p}
IsSubscription(s) == CartProducts(s) \cap Recurring # {}

Bought(s, p) == {i \in PurchaseIds : purchases[i].ref = s
                                     /\ purchases[i].product = p}

Idle(r) == work[r].pc = "idle" /\ ~Busy(r)

\* The procedure in slot r waits at pc, for the session, and moves to next.
At(r, pc) == work[r].pc = pc
Move(r, next) == work' = [work EXCEPT ![r].pc = next]

CheckoutInit ==
    /\ Init
    /\ work = [r \in Requests |-> IdleWork]
    /\ session = [s \in Sessions |-> NoSession]
    /\ accounts = Registered
    /\ members = Joined
    /\ customer = [u \in Users |-> None]

-----------------------------------------------------------------------------
(* checkoutService.createSession *)

\* POST /checkout by a logged-in user u or, with u = None, a guest.  The
\* provider allots a fresh session id, so a session is opened once.
BeginCheckout(r, s, u) ==
    /\ Idle(r)
    /\ session[s].payment = "none"
    /\ \A q \in Requests : work[q].session # s
    /\ Cart[s] # <<>>
    /\ work' = [work EXCEPT ![r] =
            [IdleWork EXCEPT !.pc = IF u = None THEN "readProducts"
                                    ELSE "checkBuyer",
                             !.session = s,
                             !.user = u,
                             !.todo = CartProducts(s)]]
    /\ UNCHANGED <<vars, session, people>>

CheckBuyer(r) ==
    /\ At(r, "checkBuyer")
    /\ Move(r, IF work[r].user \in members THEN "readProducts"
               ELSE "threw")
    /\ UNCHANGED <<vars, session, people>>

\* Promise.all: the products are read one by one, in any order.
ReadProduct(r) ==
    /\ At(r, "readProducts")
    /\ \E p \in work[r].todo :
          work' = [work EXCEPT
            ![r].todo = @ \ {p},
            ![r].pc = IF p \notin onSale THEN "threw"
                      ELSE IF work[r].todo # {p} THEN "readProducts"
                      ELSE IF work[r].user = None THEN "openSession"
                      ELSE "findCustomer"]
    /\ UNCHANGED <<vars, session, people>>

FindCustomer(r) ==
    /\ At(r, "findCustomer")
    /\ LET known == customer[work[r].user]
       IN work' = [work EXCEPT
            ![r].customer = known,
            ![r].pc = IF known = None THEN "createCustomer"
                      ELSE "openSession"]
    /\ UNCHANGED <<vars, session, people>>

\* provider.findOrCreateCustomer looks the email up first, and may find a
\* customer an earlier guest session of the same person left there.
CreateCustomer(r) ==
    /\ At(r, "createCustomer")
    /\ \E c \in {work[r].user} \cup {s \in Sessions :
                        /\ session[s].payer = work[r].user
                        /\ session[s].customer = s} :
          work' = [work EXCEPT ![r].customer = c, ![r].pc = "saveCustomer"]
    /\ UNCHANGED <<vars, session, people>>

SaveCustomer(r) ==
    /\ At(r, "saveCustomer")
    /\ customer' = [customer EXCEPT ![work[r].user] = work[r].customer]
    /\ Move(r, "openSession")
    /\ UNCHANGED <<vars, session, accounts, members>>

\* Mutant: the answer leaves before the row is stored.
OpenSessionAnswersFirst(r) ==
    /\ At(r, "openSession")
    /\ session' = [session EXCEPT
            ![work[r].session].payment = "offered",
            ![work[r].session].user = work[r].user,
            ![work[r].session].customer = work[r].customer]
    /\ Move(r, "storeSession")
    /\ UNCHANGED <<vars, people>>

OpenSession(r) ==
    /\ At(r, "openSession")
    /\ session' = [session EXCEPT
            ![work[r].session].payment = "open",
            ![work[r].session].user = work[r].user,
            ![work[r].session].customer = work[r].customer]
    /\ Move(r, "storeSession")
    /\ UNCHANGED <<vars, people>>

StoreSession(r) ==
    /\ At(r, "storeSession")
    /\ session' = [session EXCEPT ![work[r].session].row = "pending"]
    /\ Move(r, "offer")
    /\ UNCHANGED <<vars, people>>

\* The answer carries the provider's URL, without which nobody can pay.
Offer(r) ==
    /\ At(r, "offer")
    /\ session' = [session EXCEPT ![work[r].session].payment = "offered"]
    /\ Move(r, "returned")
    /\ UNCHANGED <<vars, people>>

-----------------------------------------------------------------------------
(* The payment provider *)

\* A guest gives the email u is or will be registered with, and becomes a
\* customer of the provider by subscribing.
Pay(s, u) ==
    /\ session[s].payment = "offered"
    /\ session[s].user \in {u, None}
    /\ session' = [session EXCEPT
            ![s].payment = "paid",
            ![s].payer = u,
            ![s].customer = IF @ = None /\ IsSubscription(s) THEN s ELSE @]
    /\ UNCHANGED <<vars, work, people>>

-----------------------------------------------------------------------------
(* checkoutService.verifySession *)

\* The success page calls it on every load; nothing keeps two loads apart.
BeginVerify(r, s) ==
    /\ Idle(r)
    /\ session[s].payment \in {"offered", "paid"}
    /\ Cardinality(UNION {Bought(s, p) : p \in Products}) < MaxRows
    /\ work' = [work EXCEPT ![r] =
            [IdleWork EXCEPT !.pc = "readSession", !.session = s]]
    /\ UNCHANGED <<vars, session, people>>

\* Mutant: a completed session is verified again.
ReadSessionAnyStatus(r) ==
    /\ At(r, "readSession")
    /\ Move(r, IF session[work[r].session].row # "none" THEN "checkPaid"
               ELSE "threw")
    /\ UNCHANGED <<vars, session, people>>

ReadSession(r) ==
    /\ At(r, "readSession")
    /\ Move(r, IF session[work[r].session].row = "pending" THEN "checkPaid"
               ELSE "threw")
    /\ UNCHANGED <<vars, session, people>>

CheckPaid(r) ==
    /\ At(r, "checkPaid")
    /\ LET s == work[r].session
       IN work' = [work EXCEPT
            ![r].customer = session[s].customer,
            ![r].pc = IF session[s].payment # "paid" THEN "threw"
                      ELSE IF session[s].user = None THEN "findUser"
                      ELSE "checkMember"]
    /\ UNCHANGED <<vars, session, people>>

CheckMember(r) ==
    /\ At(r, "checkMember")
    /\ LET u == session[work[r].session].user
       IN work' = [work EXCEPT
            ![r].user = u,
            ![r].pc = IF u \in members THEN "attach" ELSE "threw"]
    /\ UNCHANGED <<vars, session, people>>

\* Mutant: a known email is not checked for membership of the tenant.
FindUserTrustsEmail(r) ==
    /\ At(r, "findUser")
    /\ LET u == session[work[r].session].payer
       IN work' = [work EXCEPT
            ![r].user = u,
            ![r].pc = IF u \in accounts THEN "attach" ELSE "createUser"]
    /\ UNCHANGED <<vars, session, people>>

FindUser(r) ==
    /\ At(r, "findUser")
    /\ LET u == session[work[r].session].payer
       IN work' = [work EXCEPT
            ![r].user = u,
            ![r].pc = IF u \in accounts THEN "checkGuest" ELSE "createUser"]
    /\ UNCHANGED <<vars, session, people>>

\* Mutant: known emails must already be members.
CheckGuestRefuses(r) ==
    /\ At(r, "checkGuest")
    /\ Move(r, IF work[r].user \in members THEN "attach" ELSE "threw")
    /\ UNCHANGED <<vars, session, people>>

CheckGuest(r) ==
    /\ At(r, "checkGuest")
    /\ Move(r, IF work[r].user \in members THEN "attach" ELSE "provision")
    /\ UNCHANGED <<vars, session, people>>

\* The unique index on the email rejects the second of two creations.
CreateUser(r) ==
    /\ At(r, "createUser")
    /\ accounts' = accounts \cup {work[r].user}
    /\ Move(r, IF work[r].user \in accounts THEN "threw" ELSE "provision")
    /\ UNCHANGED <<vars, session, members, customer>>

\* provisionNewUserTenantMembership refuses users of another tenant and those
\* whose membership of this one is there and not active; it accepts the
\* membership a concurrent call has just created.
Provision(r) ==
    /\ At(r, "provision")
    /\ LET refused == work[r].user \in Foreign \cup Suspended
       IN /\ members' = IF refused THEN members
                        ELSE members \cup {work[r].user}
          /\ Move(r, IF refused THEN "threw" ELSE "attach")
    /\ UNCHANGED <<vars, session, accounts, customer>>

\* Mutant: the provider's customer is kept for later and lost.
AttachNothing(r) ==
    /\ At(r, "attach")
    /\ Move(r, "items")
    /\ UNCHANGED <<vars, session, people>>

\* The provider's customer replaces the one on file.
Attach(r) ==
    /\ At(r, "attach")
    /\ customer' = IF work[r].customer = None THEN customer
                   ELSE [customer EXCEPT ![work[r].user] = work[r].customer]
    /\ Move(r, "items")
    /\ UNCHANGED <<vars, session, accounts, members>>

\* The loop over the items: purchaseService.create, awaited once per item.
CreateItem(r) ==
    /\ At(r, "items")
    /\ call' = [call EXCEPT ![r] =
            [IdleCall EXCEPT !.op = "create", !.pc = "findProduct",
                             !.user = work[r].user,
                             !.product = Cart[work[r].session][work[r].item],
                             !.ref = work[r].session]]
    /\ Move(r, "await")
    /\ UNCHANGED <<tables, started, failures, session, people>>

\* Mutant: an item that could not be bought is skipped.
ItemDoneSkipsErrors(r) ==
    /\ At(r, "await")
    /\ Finished(r)
    /\ call' = [call EXCEPT ![r] = IdleCall]
    /\ work' = [work EXCEPT
            ![r].item = @ + 1,
            ![r].pc = IF work[r].item = Len(Cart[work[r].session])
                      THEN "complete" ELSE "items"]
    /\ UNCHANGED <<tables, started, failures, session, people>>

ItemDone(r) ==
    /\ At(r, "await")
    /\ Finished(r)
    /\ call' = [call EXCEPT ![r] = IdleCall]
    /\ work' = [work EXCEPT
            ![r].item = @ + 1,
            ![r].pc = IF call[r].pc = "threw" THEN "threw"
                      ELSE IF work[r].item = Len(Cart[work[r].session])
                      THEN "complete"
                      ELSE "items"]
    /\ UNCHANGED <<tables, started, failures, session, people>>

\* updateStatus does not look at the status it replaces.
Complete(r) ==
    /\ At(r, "complete")
    /\ session' = [session EXCEPT ![work[r].session].row = "completed"]
    /\ Move(r, "returned")
    /\ UNCHANGED <<vars, people>>

-----------------------------------------------------------------------------
(* Requests *)

\* One awaited call of the checkout procedure in slot r.
WorkStep(r) ==
    \/ CheckBuyer(r) \/ ReadProduct(r) \/ FindCustomer(r)
    \/ CreateCustomer(r) \/ SaveCustomer(r) \/ OpenSession(r)
    \/ StoreSession(r) \/ Offer(r)
    \/ ReadSession(r) \/ CheckPaid(r) \/ CheckMember(r) \/ FindUser(r)
    \/ CheckGuest(r) \/ CreateUser(r) \/ Provision(r) \/ Attach(r)
    \/ CreateItem(r) \/ ItemDone(r) \/ Complete(r)

Answer(r) ==
    /\ work[r].pc \in {"returned", "threw"}
    /\ work' = [work EXCEPT ![r] = IdleWork]
    /\ UNCHANGED <<vars, session, people>>

\* The awaited call rejects, or the process dies: what was written stays.
Fail(r) ==
    /\ work[r].pc \notin {"idle", "await", "returned", "threw"}
    /\ failures < MaxFailures
    /\ failures' = failures + 1
    /\ Move(r, "threw")
    /\ UNCHANGED <<tables, call, started, session, people>>

\* One step of PurchaseService: of the awaited create, or of a request that
\* has the slot to itself.
PurchaseStep(r) ==
    /\ \/ Step(r)
       \/ Raise(r)
       \/ At(r, "idle") /\ (Receive(r) \/ Respond(r))
    /\ UNCHANGED checkoutVars

CheckoutNext ==
    \/ \E r \in Requests :
          \/ WorkStep(r) \/ Answer(r) \/ Fail(r) \/ PurchaseStep(r)
          \/ \E s \in Sessions, u \in accounts \cup {None} :
                BeginCheckout(r, s, u)
          \/ \E s \in Sessions : BeginVerify(r, s)
    \/ \E s \in Sessions, u \in Users : Pay(s, u)

\* The event loop runs what is pending.  That a buyer who has paid loads the
\* success page until it answers is an assumption about buyers: there is no
\* webhook and no server-side retry.
Fairness ==
    /\ \A r \in Requests :
          /\ WF_allVars(WorkStep(r))
          /\ WF_allVars(Answer(r))
          /\ WF_allVars(PurchaseStep(r) /\ (Step(r) \/ Respond(r)))
    /\ \A s \in Sessions :
          SF_allVars(\E r \in Requests :
                        session[s].payment = "paid" /\ BeginVerify(r, s))

CheckoutSpec == CheckoutInit /\ [][CheckoutNext]_allVars /\ Fairness

-----------------------------------------------------------------------------
(* Properties *)

\* A session is marked completed only when every item of its cart was bought
\* for its buyer, although purchases are made one by one, by verifications
\* that overlap and break off anywhere (checkout-service.ts, the loop before
\* updateStatus).
CompletedIsFulfilled ==
    \A s \in Sessions : session[s].row = "completed" =>
        \A p \in CartProducts(s) :
            /\ Cardinality(InCart(s, p)) <= Cardinality(Bought(s, p))
            /\ \E i \in Bought(s, p) : purchases[i].user = session[s].payer

\* What a session paid for goes to one account, that of its buyer, and only
\* once that account is an active member of the tenant and was never another
\* tenant's or suspended in this one:
\* concurrent verifications of a guest session create no second account and
\* an interrupted one leaves no purchase outside the tenant.
FulfilledToMember ==
    \A i \in PurchaseIds : purchases[i].ref # None =>
        /\ purchases[i].user = session[purchases[i].ref].payer
        /\ purchases[i].user \in members \ (Foreign \cup Suspended)

\* Nobody can pay for a session the shop does not know: the row is stored
\* before the URL leaves the server, wherever createSession breaks off.
PaidSessionIsStored ==
    \A s \in Sessions : session[s].payment = "paid" => session[s].row # "none"

\* Whoever got something from a session the provider has a customer for has a
\* customer on file, so that billing sync can find the subscription later,
\* even if verification broke off before the session was completed.
FulfilledHasCustomer ==
    \A i \in PurchaseIds :
        /\ purchases[i].ref # None
        /\ session[purchases[i].ref].customer # None
        => customer[purchases[i].user] # None

\* Nothing is handed over twice for one session; error text of verifySession:
\* "This checkout session has already been processed."
FulfilledOnce ==
    \A s \in Sessions : \A p \in CartProducts(s) :
        Cardinality(Bought(s, p)) <= Cardinality(InCart(s, p))

\* A session that was paid is completed in the end, if its buyer keeps loading
\* the success page, the cart stays on sale and the buyer's account belongs to
\* no other tenant and is not suspended in this one.  Any call may fail, a
\* bounded number of times.
PaidIsCompleted ==
    \A s \in Sessions :
        session[s].payment = "paid" ~>
            \/ session[s].row = "completed"
            \/ session[s].payer \in Foreign \cup Suspended
            \/ ~(CartProducts(s) \subseteq onSale)

-----------------------------------------------------------------------------
(* Refinement *)

\* A verification counts as an attempt from the moment it found the session
\* open until it completes it, fails or breaks off.
Attempting(r, s) ==
    /\ work[r].session = s
    /\ work[r].pc \in {"checkPaid", "checkMember", "findUser", "checkGuest",
                       "createUser", "provision", "attach", "items", "await",
                       "complete"}

PaidSessions == {s \in Sessions : session[s].payment = "paid"}

ClosedSessions == {s \in Sessions : session[s].row = "completed"}

OrderedGoods ==
    [s \in Sessions |-> [p \in Products |-> Cardinality(InCart(s, p))]]

HandedGoods ==
    [s \in Sessions |-> [p \in Products |-> Cardinality(Bought(s, p))]]

Attempts ==
    [s \in Sessions |-> Cardinality({r \in Requests : Attempting(r, s)})]

F == INSTANCE Fulfilment WITH
    Goods <- Products,
    Ordered <- OrderedGoods,
    paid <- PaidSessions,
    closed <- ClosedSessions,
    attempts <- Attempts,
    handed <- HandedGoods

\* Checkout implements the at-least-once promise of Fulfilment: verifySession
\* hands over only for paid sessions, only after it found the session open,
\* and closes a session only when the whole cart was handed over.
ImplementsFulfilment == F!Spec

=============================================================================
