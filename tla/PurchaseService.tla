--------------------------- MODULE PurchaseService ---------------------------
(***************************************************************************)
(* Purchases, the entitlements (Membership rows) they grant, and the       *)
(* service procedures that write both:                                     *)
(*   app-api/services/purchase-service.ts, membership-service.ts and       *)
(*   product-service.ts (the isActive flag), with their repositories.      *)
(*                                                                         *)
(* A procedure is a sequence of awaited database calls without a           *)
(* transaction.  Every awaited call is one action here, so the calls of    *)
(* different requests interleave exactly at the awaits.  A request in      *)
(* flight is a slot r \in Requests; call[r] is the procedure's local state.*)
(***************************************************************************)
EXTENDS Naturals, Sequences, FiniteSets

CONSTANTS
    Requests,       \* slots for requests in flight
    Users,          \* user ids
    Products,       \* product ids
    Recurring,      \* products whose paymentModel is "recurring"
    Keyed,          \* products with a non-empty accessKeys array
    FreeProduct,    \* the product with slug "free", or None
    None,           \* a null reference
    Refs,           \* externalId values, the payment provider's references
    Ops,            \* the operations an instance exercises
    Overlap,        \* may requests that touch the same user overlap?
    MaxOps,         \* bound: operations started over a behaviour
    MaxFailures     \* bound: awaited calls that reject, or processes that die

AllOps == {"create", "subscribe", "cancel", "expire", "grant", "revoke",
           "deactivate", "update"}

ASSUME CatalogueAssumption ==
    /\ Recurring \subseteq Products
    /\ Keyed \subseteq Products
    /\ FreeProduct \in Products \cup {None}
    /\ None \notin Products \cup Users \cup Refs

ASSUME BoundAssumption ==
    /\ Ops \subseteq AllOps
    /\ Overlap \in BOOLEAN
    /\ MaxOps \in Nat
    /\ MaxFailures \in Nat

VARIABLES
    purchases,      \* Purchase rows in creation order; the row id is the index
    memberships,    \* Membership rows in creation order
    onSale,         \* products with isActive = true
    call,           \* per slot: the procedure in progress
    started,        \* operations started so far
    failures        \* rejected calls so far

tables == <<purchases, memberships, onSale>>
vars == <<purchases, memberships, onSale, call, started, failures>>

-----------------------------------------------------------------------------
(* Rows *)

PurchaseStatus == {"active", "completed", "cancelled", "expired"}

\* endDate as the queries see it: null, later than now, or no longer so.
EndDates == {"none", "future", "past"}

\* product.paymentModel and the owner are joined through these references;
\* ref is externalId, the provider's reference (None when not sold online).
PurchaseRow == [user : Users, product : Products, status : PurchaseStatus,
                endDate : EndDates, ref : Refs \cup {None}]

\* sourceId is the id of a purchase, or 0 for an id that is none.  gift is
\* history: an administrator gave access from something that was not a live
\* purchase of the user.
MembershipRow == [user : Users, source : Nat,
                  status : {"active", "revoked"}, gift : BOOLEAN]

PurchaseIds == DOMAIN purchases

IsLive(row) == row.status \in {"active", "completed"}

IsActiveSubscription(row, u) ==
    row.user = u /\ row.status = "active" /\ row.product \in Recurring

ActiveSubscriptions(u) ==
    {i \in PurchaseIds : IsActiveSubscription(purchases[i], u)}

\* findFirst ordered by createdAt desc; 0 is "not found".
FindActiveSubscription(u) ==
    IF ActiveSubscriptions(u) = {}
    THEN 0
    ELSE CHOOSE i \in ActiveSubscriptions(u) :
            \A j \in ActiveSubscriptions(u) : j <= i

\* Mutant: the query forgets the status, and finds ended subscriptions again.
FindExpiredWhateverStatus ==
    {i \in PurchaseIds : purchases[i].endDate = "past"
                         /\ purchases[i].product \in Recurring}

FindExpiredSubscriptions ==
    {i \in PurchaseIds : /\ purchases[i].status = "active"
                         /\ purchases[i].endDate = "past"
                         /\ purchases[i].product \in Recurring}

CountActivePurchases(p) ==
    Cardinality({i \in PurchaseIds : purchases[i].product = p
                                     /\ IsLive(purchases[i])})

\* updateMany on the purchases in ids.
WithStatus(ids, status) ==
    [i \in PurchaseIds |->
        IF i \in ids THEN [purchases[i] EXCEPT !.status = status]
                     ELSE purchases[i]]

\* updateMany on the active memberships granted by purchase src.
RevokeBySourceId(src) ==
    [m \in DOMAIN memberships |->
        IF memberships[m].source = src
        THEN [memberships[m] EXCEPT !.status = "revoked"]
        ELSE memberships[m]]

EntitlementsFrom(i) ==
    {m \in DOMAIN memberships :
        memberships[m].source = i /\ memberships[m].status = "active"}

HasAccessFrom(i) == EntitlementsFrom(i) # {}

-----------------------------------------------------------------------------
(* Calls *)

Steps == {"idle", "findProduct", "findSubscription", "revokeOld", "cancelAll",
          "findFree", "insert", "grantRevoke", "grantCreate", "findExpired",
          "revokeExpired", "expireBatch", "revoke", "countActive",
          "setInactive", "update", "returned", "threw"}

\* A user of None means the call is about every user (checkExpired) or about
\* the catalogue (product changes).
CallRecord == [pc : Steps, op : AllOps \cup {"none"}, user : Users \cup {None},
               product : Products \cup {None}, ref : Refs \cup {None}, target : Nat,
               queue : SUBSET Nat, ids : SUBSET Nat]

IdleCall == [pc |-> "idle", op |-> "none", user |-> None, product |-> None,
             ref |-> None, target |-> 0, queue |-> {}, ids |-> {}]

Busy(r) == call[r].pc # "idle"
Finished(r) == call[r].pc \in {"returned", "threw"}

TypeOK ==
    /\ purchases \in Seq(PurchaseRow)
    /\ memberships \in Seq(MembershipRow)
    /\ onSale \in SUBSET Products
    /\ call \in [Requests -> CallRecord]
    /\ started \in Nat
    /\ failures \in Nat

Goto(r, pc) == call' = [call EXCEPT ![r].pc = pc]

Init ==
    /\ purchases = <<>>
    /\ memberships = <<>>
    /\ onSale = Products
    /\ call = [r \in Requests |-> IdleCall]
    /\ started = 0
    /\ failures = 0

-----------------------------------------------------------------------------
(* purchaseService.create and purchaseService.subscribe *)

\* The product is read once; what follows uses that snapshot.  subscribe also
\* insists on a recurring product.
FindProduct(r) ==
    /\ call[r].pc = "findProduct"
    /\ LET p == call[r].product
           sellable == p \in onSale
                       /\ (call[r].op = "subscribe" => p \in Recurring)
       IN Goto(r, IF ~sellable THEN "threw"
                  ELSE IF p \in Recurring THEN "findSubscription"
                  ELSE "insert")
    /\ UNCHANGED <<tables, started, failures>>

\* Mutant: the old subscription is cancelled without revoking its access.
FindSubscriptionSkipsRevoke(r) ==
    /\ call[r].pc = "findSubscription"
    /\ LET found == FindActiveSubscription(call[r].user)
       IN call' = [call EXCEPT
            ![r].target = found,
            ![r].pc = IF found # 0 \/ call[r].op = "cancel" THEN "cancelAll"
                      ELSE "insert"]
    /\ UNCHANGED <<tables, started, failures>>

\* Without a current subscription create and subscribe go straight to the
\* insert; cancelSubscription cancels unconditionally.
FindSubscription(r) ==
    /\ call[r].pc = "findSubscription"
    /\ LET found == FindActiveSubscription(call[r].user)
       IN call' = [call EXCEPT
            ![r].target = found,
            ![r].pc = IF found # 0 THEN "revokeOld"
                      ELSE IF call[r].op = "cancel" THEN "cancelAll"
                      ELSE "insert"]
    /\ UNCHANGED <<tables, started, failures>>

\* Mutant: the old subscription loses its access and is never cancelled.
RevokeOldSkipsCancel(r) ==
    /\ call[r].pc = "revokeOld"
    /\ memberships' = RevokeBySourceId(call[r].target)
    /\ Goto(r, IF call[r].op = "cancel" THEN "findFree" ELSE "insert")
    /\ UNCHANGED <<purchases, onSale, started, failures>>

\* Only the subscription that was found loses its entitlement here.
RevokeOld(r) ==
    /\ call[r].pc = "revokeOld"
    /\ memberships' = RevokeBySourceId(call[r].target)
    /\ Goto(r, "cancelAll")
    /\ UNCHANGED <<purchases, onSale, started, failures>>

\* updateMany: every active subscription the user has by now.
CancelAll(r) ==
    /\ call[r].pc = "cancelAll"
    /\ purchases' = WithStatus(ActiveSubscriptions(call[r].user), "cancelled")
    /\ Goto(r, IF call[r].op = "cancel" THEN "findFree" ELSE "insert")
    /\ UNCHANGED <<memberships, onSale, started, failures>>

\* cancelSubscription falls back to the product with slug "free", on sale or
\* not, when there is one.
FindFree(r) ==
    /\ call[r].pc = "findFree"
    /\ call' = [call EXCEPT
            ![r].product = FreeProduct,
            ![r].pc = IF FreeProduct = None THEN "returned" ELSE "insert"]
    /\ UNCHANGED <<tables, started, failures>>

\* The status comes from the payment model, except that the free fallback is
\* inserted as "active" whatever it is, and without an end date.  An end date
\* an administrator gives to subscribe is "future" until PeriodEnds, like the
\* computed ones; a date already past may end at once.
NewPurchase(c) ==
    [user |-> c.user, product |-> c.product, ref |-> c.ref,
     status |-> IF c.op = "cancel" \/ c.product \in Recurring
                THEN "active" ELSE "completed",
     endDate |-> IF c.op # "cancel" /\ c.product \in Recurring
                 THEN "future" ELSE "none"]

InsertPurchase(r) ==
    /\ call[r].pc = "insert"
    /\ purchases' = Append(purchases, NewPurchase(call[r]))
    /\ call' = [call EXCEPT
            ![r].target = Len(purchases) + 1,
            ![r].pc = IF call[r].product \in Keyed THEN "grantRevoke"
                      ELSE "returned"]
    /\ UNCHANGED <<memberships, onSale, started, failures>>

-----------------------------------------------------------------------------
(* membershipService.grantFromPurchase and membershipService.revoke *)

\* Mutant: a grant leaves the purchase's previous entitlement active.
GrantWithoutRevoke(r) ==
    /\ call[r].pc = "grantRevoke"
    /\ Goto(r, "grantCreate")
    /\ UNCHANGED <<tables, started, failures>>

GrantRevoke(r) ==
    /\ call[r].pc = "grantRevoke"
    /\ memberships' = RevokeBySourceId(call[r].target)
    /\ Goto(r, "grantCreate")
    /\ UNCHANGED <<purchases, onSale, started, failures>>

IsGift(c) ==
    c.op = "grant" /\ ~(/\ c.target \in PurchaseIds
                        /\ purchases[c.target].user = c.user
                        /\ IsLive(purchases[c.target]))

GrantCreate(r) ==
    /\ call[r].pc = "grantCreate"
    /\ memberships' = Append(memberships,
            [user |-> call[r].user, source |-> call[r].target,
             status |-> "active", gift |-> IsGift(call[r])])
    /\ Goto(r, "returned")
    /\ UNCHANGED <<purchases, onSale, started, failures>>

\* An administrator revokes one membership row; target is the row here.
RevokeMembership(r) ==
    /\ call[r].pc = "revoke"
    /\ memberships' = [memberships EXCEPT ![call[r].target].status = "revoked"]
    /\ Goto(r, "returned")
    /\ UNCHANGED <<purchases, onSale, started, failures>>

-----------------------------------------------------------------------------
(* purchaseService.checkExpired *)

FindExpired(r) ==
    /\ call[r].pc = "findExpired"
    /\ LET due == FindExpiredSubscriptions
       IN call' = [call EXCEPT
            ![r].queue = due,
            ![r].ids = due,
            ![r].pc = IF due = {} THEN "returned" ELSE "revokeExpired"]
    /\ UNCHANGED <<tables, started, failures>>

\* Mutant: the loop over the expired subscriptions revokes nothing.
RevokeExpiredNothing(r) ==
    /\ call[r].pc = "revokeExpired"
    /\ \E i \in call[r].queue :
          call' = [call EXCEPT
                ![r].queue = @ \ {i},
                ![r].pc = IF call[r].queue = {i} THEN "expireBatch"
                          ELSE "revokeExpired"]
    /\ UNCHANGED <<tables, started, failures>>

RevokeExpired(r) ==
    /\ call[r].pc = "revokeExpired"
    /\ \E i \in call[r].queue :
        /\ memberships' = RevokeBySourceId(i)
        /\ call' = [call EXCEPT
                ![r].queue = @ \ {i},
                ![r].pc = IF call[r].queue = {i} THEN "expireBatch"
                          ELSE "revokeExpired"]
    /\ UNCHANGED <<purchases, onSale, started, failures>>

\* Writes every id of the snapshot, whatever the row's status is by now.
ExpireBatch(r) ==
    /\ call[r].pc = "expireBatch"
    /\ purchases' = WithStatus(call[r].ids, "expired")
    /\ Goto(r, "returned")
    /\ UNCHANGED <<memberships, onSale, started, failures>>

-----------------------------------------------------------------------------
(* productService.deactivate, and productService.update of isActive *)

CountActive(r) ==
    /\ call[r].pc = "countActive"
    /\ Goto(r, IF CountActivePurchases(call[r].product) > 0 THEN "threw"
               ELSE "setInactive")
    /\ UNCHANGED <<tables, started, failures>>

SetInactive(r) ==
    /\ call[r].pc = "setInactive"
    /\ onSale' = onSale \ {call[r].product}
    /\ Goto(r, "returned")
    /\ UNCHANGED <<purchases, memberships, started, failures>>

\* update writes the isActive it was given, without counting purchases.
UpdateProduct(r) ==
    /\ call[r].pc = "update"
    /\ \/ onSale' = onSale \cup {call[r].product}
       \/ onSale' = onSale \ {call[r].product}
    /\ Goto(r, "returned")
    /\ UNCHANGED <<purchases, memberships, started, failures>>

-----------------------------------------------------------------------------
(* Requests *)

\* One awaited call of the procedure in slot r.
Step(r) ==
    \/ FindProduct(r) \/ FindSubscription(r) \/ RevokeOld(r) \/ CancelAll(r)
    \/ FindFree(r) \/ InsertPurchase(r)
    \/ GrantRevoke(r) \/ GrantCreate(r) \/ RevokeMembership(r)
    \/ FindExpired(r) \/ RevokeExpired(r) \/ ExpireBatch(r)
    \/ CountActive(r) \/ SetInactive(r) \/ UpdateProduct(r)

\* The awaited call rejects, or the process dies: what was written stays.
Raise(r) ==
    /\ Busy(r) /\ ~Finished(r)
    /\ failures < MaxFailures
    /\ failures' = failures + 1
    /\ Goto(r, "threw")
    /\ UNCHANGED <<tables, started>>

\* Whose rows a request is about; an administrator's grant is also about the
\* owner of the purchase it names.
Concerns(c) ==
    {c.user} \cup {purchases[i].user :
                      i \in {i \in PurchaseIds : c.op = "grant" /\ i = c.target}}

Apart(c, d) == Concerns(c) \cap Concerns(d) = {} /\ None \notin Concerns(c) \cup Concerns(d)

\* With Overlap = FALSE no two requests about the same user are in flight.
\* Nothing in the code arranges that: it is the world in which callers wait
\* for one answer before they send the next request.
MayRun(r, c) == Overlap \/ \A q \in Requests \ {r} : Busy(q) => Apart(c, call[q])

Begin(r, op, pc, u, p, target) ==
    /\ op \in Ops
    /\ ~Busy(r)
    /\ started < MaxOps
    /\ started' = started + 1
    /\ LET c == [IdleCall EXCEPT !.op = op, !.pc = pc, !.user = u, !.product = p,
                                 !.target = target]
       IN MayRun(r, c) /\ call' = [call EXCEPT ![r] = c]
    /\ UNCHANGED <<tables, failures>>

\* POST /purchases, and the administrator's subscription, membership and
\* product endpoints.  The optional externalId of POST /purchases, which
\* nothing in the repository sends, is left out: only checkout sets ref.
\* The endpoint for grants takes any user and any id as the source.
Receive(r) ==
    \/ \E u \in Users, p \in Products :
          \/ Begin(r, "create", "findProduct", u, p, 0)
          \/ Begin(r, "subscribe", "findProduct", u, p, 0)
    \/ \E u \in Users : Begin(r, "cancel", "findSubscription", u, None, 0)
    \/ Begin(r, "expire", "findExpired", None, None, 0)
    \/ \E u \in Users, i \in PurchaseIds \cup {0} :
          Begin(r, "grant", "grantRevoke", u, None, i)
    \/ \E m \in DOMAIN memberships :
          Begin(r, "revoke", "revoke", memberships[m].user, None, m)
    \/ \E p \in Products :
          \/ Begin(r, "deactivate", "countActive", None, p, 0)
          \/ Begin(r, "update", "update", None, p, 0)

Respond(r) ==
    /\ Finished(r)
    /\ call' = [call EXCEPT ![r] = IdleCall]
    /\ UNCHANGED <<tables, started, failures>>

\* The end date of a subscription passes.
PeriodEnds(i) ==
    /\ purchases[i].endDate = "future"
    /\ purchases' = [purchases EXCEPT ![i].endDate = "past"]
    /\ UNCHANGED <<memberships, onSale, call, started, failures>>

Next ==
    \/ \E r \in Requests : Receive(r) \/ Step(r) \/ Raise(r) \/ Respond(r)
    \/ \E i \in PurchaseIds : PeriodEnds(i)

Spec == Init /\ [][Next]_vars

-----------------------------------------------------------------------------
(* Properties *)

\* A user never has two active subscriptions, whichever step of whichever
\* procedure is pending or has failed (README of app-api, "Purchase Model":
\* assigning a recurring product cancels the current one first).
OneActiveSubscription ==
    \A u \in Users : \A i, j \in ActiveSubscriptions(u) : i = j

\* Access is never left behind: an active entitlement comes from a purchase
\* of the same user that is still live, unless an administrator gave it away
\* from something else.  create, subscribe and cancel revoke before they
\* cancel, checkExpired revokes before it expires, and a purchase is inserted
\* before its entitlement, so no failure in between breaks this.
EntitlementBacked ==
    \A m \in DOMAIN memberships :
        memberships[m].status = "active" /\ ~memberships[m].gift =>
            /\ memberships[m].source \in PurchaseIds
            /\ purchases[memberships[m].source].user = memberships[m].user
            /\ IsLive(purchases[memberships[m].source])

\* A purchase has at most one active entitlement, administrators' grants from
\* it included: grantFromPurchase revokes the previous one first.
OneEntitlementPerPurchase ==
    \A m, n \in DOMAIN memberships :
        /\ memberships[m].source # 0
        /\ memberships[m].status = "active"
        /\ memberships[n].status = "active"
        /\ memberships[m].source = memberships[n].source
        => m = n

\* Once nothing is in flight and no call has failed, whoever holds a live
\* purchase of a product with access keys has access from it, however the
\* requests overlapped, unless an administrator gave that access to somebody
\* else.
LivePurchaseGivesAccess ==
    (failures = 0 /\ \A r \in Requests : ~Busy(r)) =>
        \A i \in PurchaseIds :
            IsLive(purchases[i]) /\ purchases[i].product \in Keyed =>
                \E m \in EntitlementsFrom(i) :
                    memberships[m].user = purchases[i].user \/ memberships[m].gift

\* cancelled and expired are final: an ended subscription is neither revived
\* nor relabelled by a later cancel or expiry of the same user's rows.
EndedPurchaseIsFinal ==
    [][\A i \in PurchaseIds :
          ~IsLive(purchases[i]) => purchases'[i].status = purchases[i].status]_vars

\* productService.deactivate takes a product off sale only while nobody holds
\* a live purchase of it.
DeactivatesOnlyUnused ==
    [][\A r \in Requests :
          SetInactive(r) => CountActivePurchases(call[r].product) = 0]_vars

-----------------------------------------------------------------------------
(* The strengthenings that make the properties above inductive *)

\* What the pending step of request r may rely on about its own arguments.
CallTyped(r) ==
    LET c == call[r]
    IN /\ c.pc \in {"findProduct", "findSubscription", "revokeOld", "cancelAll",
                    "findFree", "insert", "grantRevoke", "grantCreate"} =>
             c.user \in Users
       /\ c.pc \in {"findProduct", "insert", "countActive", "setInactive",
                    "update"} => c.product \in Products
       /\ c.pc \in {"findSubscription", "revokeOld", "cancelAll"}
          /\ c.op # "cancel" => c.product \in Products
       /\ c.op = "grant" =>
             /\ c.pc \in {"grantRevoke", "grantCreate", "returned", "threw"}
             /\ c.target \in PurchaseIds \cup {0}
       /\ c.op # "grant" /\ c.pc \in {"grantRevoke", "grantCreate"} =>
             c.target \in PurchaseIds /\ purchases[c.target].user = c.user
       /\ c.pc = "revokeOld" =>
             /\ c.target \in PurchaseIds
             /\ purchases[c.target].user = c.user
             /\ purchases[c.target].product \in Recurring
       /\ c.pc \in {"revokeExpired", "expireBatch"} => c.queue \subseteq c.ids
       /\ c.pc = "expireBatch" => c.queue = {}

TypeInv == TypeOK /\ \A r \in Requests : CallTyped(r)

\* Request r is about to give purchase i its entitlement, or to end it.
PendingBy(r, i) ==
    LET c == call[r]
    IN \/ c.pc \in {"grantRevoke", "grantCreate"} /\ c.target = i
       \/ c.pc = "cancelAll" /\ IsActiveSubscription(purchases[i], c.user)
       \/ c.pc \in {"revokeExpired", "expireBatch"} /\ i \in c.ids \ c.queue

NeedsAccess(i) == IsLive(purchases[i]) /\ purchases[i].product \in Keyed

AccessOrPending(i) == HasAccessFrom(i) \/ \E r \in Requests : PendingBy(r, i)

\* Only an administrator's gift entitles somebody else than the owner.
OthersByGift ==
    \A m \in DOMAIN memberships :
        \/ memberships[m].gift
        \/ /\ memberships[m].source \in PurchaseIds
           /\ purchases[memberships[m].source].user = memberships[m].user

\* Inductive under any overlap when administrators revoke nothing by hand.
AccessInv ==
    /\ TypeInv
    /\ OthersByGift
    /\ \A r \in Requests : call[r].pc # "revoke"
    /\ \A i \in PurchaseIds :
          purchases[i].product \in Recurring => purchases[i].status # "completed"
    /\ failures = 0 =>
          \A i \in PurchaseIds : NeedsAccess(i) => AccessOrPending(i)

\* Requests about the same user do not overlap.
Isolated ==
    \A q, r \in Requests :
        q # r /\ Busy(q) /\ Busy(r) => Apart(call[q], call[r])

\* What each pending step of a procedure may rely on about its user's rows.
StepInv(r) ==
    LET c == call[r]
    IN /\ c.pc = "revokeOld" => purchases[c.target].status = "active"
       /\ c.pc = "cancelAll" =>
             \A i \in ActiveSubscriptions(c.user) : ~HasAccessFrom(i)
       /\ c.pc = "findFree" \/ (c.pc = "insert" /\ c.product \in Recurring)
             => ActiveSubscriptions(c.user) = {}
       /\ c.pc \in {"grantRevoke", "grantCreate"} /\ c.op # "grant" =>
             IsLive(purchases[c.target])
       /\ c.pc = "grantCreate" /\ c.target # 0 => ~HasAccessFrom(c.target)
       /\ c.pc \in {"findExpired", "revokeExpired", "expireBatch"} =>
             c.user = None
       /\ c.pc \in {"revokeExpired", "expireBatch"} =>
             /\ c.ids \subseteq PurchaseIds
             /\ \A i \in c.ids : purchases[i].status = "active"
             /\ \A i \in c.ids \ c.queue : ~HasAccessFrom(i)

\* Inductive when Overlap = FALSE.
SerialInv ==
    /\ TypeInv
    /\ Isolated
    /\ \A r \in Requests : StepInv(r)
    /\ OneActiveSubscription
    /\ EntitlementBacked
    /\ OneEntitlementPerPurchase

=============================================================================
