-------------------------------- MODULE Billing --------------------------------
(***************************************************************************)
(* Billing synchronisation (billing-service.ts) of one member: what the    *)
(* payment provider knows, the local purchases, and the syncs that copy    *)
(* the one to the other while the member pays, returns to the shop, and    *)
(* cancels at either side.                                                 *)
(*                                                                         *)
(* A payment is a subscription with its first invoice, or a single one, of *)
(* the customer that its checkout session named, or that the provider made *)
(* for a guest.  The member's row holds one customer, and a sync asks for  *)
(* the payments of that one only.                                          *)
(*                                                                         *)
(* The purchase that the browser's return makes (Checkout) is one step     *)
(* here.  Every call of a sync to the provider or the database is a step,  *)
(* and may be rejected.                                                    *)
(***************************************************************************)
EXTENDS Integers, FiniteSets, SequencesExt

CONSTANTS
    Nil,
    Syncs,          \* slots: syncs in flight
    Payments,       \* 1..n, in order of creation
    Products,
    ListLimit,      \* subscriptions the provider lists
    Throttle,       \* SYNC_THROTTLE_MS
    MaxClock,       \* bound: the clock
    MaxSyncs,       \* bound: syncs begun
    MaxEvents       \* bound: what else happens

\* Names that purchases are found by: the subscription's, the invoice's and
\* the payment intent's.
Ref(kind, i) == [kind |-> kind, of |-> i]
Refs == [kind : {"subscription", "invoice", "intent"}, of : Payments]

ASSUME BillingAssumption ==
    /\ IsFiniteSet(Payments) /\ Payments = 1..Cardinality(Payments)
    /\ ListLimit \in Nat \ {0} /\ Throttle \in Nat \ {0}
    /\ Nil \notin Refs        \* a null name is nobody's name

VARIABLES
    payment,        \* what the provider knows of each payment
    accounts,       \* customers of the member's email at the provider: 1..accounts
    customer,       \* User.stripeCustomerId, 0 when there is none
    link,           \* Product.stripeTestProductId is set, by product
    purchase,       \* Purchase rows, a sequence
    lastSync,       \* the member's entry of lastSyncMap, or Nil
    clock,
    sync,           \* per slot: the sync, or the portal request, in progress
    syncs, events,  \* history: syncs and other events so far
    synced,         \* history: when a sync last ended well, or Nil
    settled,        \* history: a sync ended undisturbed and nothing happened since
    disturbed,      \* history: the syncs that something happened during
    mixed,          \* history: something ever happened during a sync, or the
                    \* browser returned after a sync had made the purchase
    together,       \* history: two requests for a customer were ever in flight
    filed,          \* history: the customers that were ever on file
    guests          \* history: customers that the provider made for guests

provider == <<payment, accounts>>
local == <<customer, link, purchase, lastSync>>
history == <<syncs, events, synced, settled, disturbed, mixed, together, filed, guests>>
vars == <<provider, local, clock, sync, history>>

-----------------------------------------------------------------------------
(* State *)

PaymentRow == [kind : {"none", "subscription", "single"}, product : Products \cup {Nil},
               customer : Nat, status : {"active", "canceled", "past_due"}, ending : BOOLEAN,
               returned : BOOLEAN]
NoPayment == [kind |-> "none", product |-> Nil, customer |-> 0, status |-> "active",
              ending |-> FALSE, returned |-> FALSE]

IdleSync == [pc |-> "idle", customer |-> 0, subs |-> {}, single |-> {}, fetched |-> {},
             todo |-> {}, item |-> Nil, row |-> 0]

Made(i) == payment[i].kind # "none"
Subscriptions == {i \in Payments : payment[i].kind = "subscription"}

\* The provider lists the newest of a customer first.
Newer(i) == {j \in Subscriptions : j > i /\ payment[j].customer = payment[i].customer}
Listed == {i \in Subscriptions : Cardinality(Newer(i)) < ListLimit}

Running(s) == sync[s].pc # "idle"
Step(s, pc) == sync' = [sync EXCEPT ![s].pc = pc]

Init ==
    /\ payment = [i \in Payments |-> NoPayment]
    /\ accounts = 0 /\ customer = 0
    /\ link = [p \in Products |-> FALSE]
    /\ purchase = <<>>
    /\ lastSync = Nil
    /\ clock = 0
    /\ sync = [s \in Syncs |-> IdleSync]
    /\ syncs = 0 /\ events = 0
    /\ synced = Nil /\ settled = FALSE /\ disturbed = {} /\ mixed = FALSE
    /\ together = FALSE /\ filed = {} /\ guests = 0

-----------------------------------------------------------------------------
(* What happens meanwhile *)

Event(tooLate) ==
    /\ events < MaxEvents
    /\ events' = events + 1
    /\ settled' = FALSE
    /\ disturbed' = {s \in Syncs : Running(s)}
    /\ mixed' = (mixed \/ disturbed' # {} \/ tooLate)
    /\ UNCHANGED <<lastSync, clock, sync, syncs, synced, together>>

\* Who a session charges: a member's the customer on file when it was opened,
\* a guest's a new customer, or none for a single payment.
Payers(kind) == filed \cup {accounts + 1} \cup (IF kind = "single" THEN {0} ELSE {})

\* The provider's side of a checkout: the payment.
Pay(i, kind, p, c) ==
    /\ Event(FALSE)
    /\ ~Made(i) /\ \A j \in Payments : j < i => Made(j)
    /\ c \in Payers(kind)
    /\ payment' = [payment EXCEPT ![i] =
                      [NoPayment EXCEPT !.kind = kind, !.product = p, !.customer = c]]
    /\ IF c = accounts + 1 THEN accounts' = accounts + 1 /\ guests' = guests + 1
                           ELSE UNCHANGED <<accounts, guests>>
    /\ UNCHANGED <<customer, link, purchase, filed>>

Local(ref, status) == [ref |-> ref, status |-> status, ending |-> FALSE]
RefOfReturn(i) == Ref(IF payment[i].kind = "subscription" THEN "subscription" ELSE "intent", i)
Stands(r, i) == r.ref.of = i

\* verifySession: the session's customer, if it has one, takes the place of the
\* one on file; a recurring product first ends the subscriptions that are
\* active.
Return(i) ==
    /\ Event(\E k \in DOMAIN purchase : Stands(purchase[k], i))
    /\ Made(i) /\ ~payment[i].returned
    /\ payment' = [payment EXCEPT ![i].returned = TRUE]
    /\ IF payment[i].customer # 0
       THEN customer' = payment[i].customer /\ filed' = filed \cup {customer'}
       ELSE UNCHANGED <<customer, filed>>
    /\ purchase' =
          LET recurring == payment[i].kind = "subscription"
              ended == [k \in DOMAIN purchase |->
                           IF recurring /\ purchase[k].status = "active"
                           THEN [purchase[k] EXCEPT !.status = "cancelled", !.ending = TRUE]
                           ELSE purchase[k]]
          IN Append(ended, Local(RefOfReturn(i), IF recurring THEN "active" ELSE "completed"))
    /\ UNCHANGED <<accounts, link, guests>>

\* The provider changes a subscription: an unpaid renewal, an end, or the
\* member's wish, in the portal, that it ends with its period.
Change(i, status, ending) ==
    /\ Event(FALSE)
    /\ i \in Subscriptions
    /\ payment' = [payment EXCEPT ![i] = [@ EXCEPT !.status = status, !.ending = ending]]
    /\ UNCHANGED <<accounts, customer, link, purchase, filed, guests>>

\* The member cancels in the shop; the provider is not told.
CancelHere(k) ==
    /\ Event(FALSE)
    /\ k \in DOMAIN purchase /\ purchase[k].status = "active"
    /\ purchase' = [purchase EXCEPT ![k] = [@ EXCEPT !.status = "cancelled", !.ending = TRUE]]
    /\ UNCHANGED <<provider, customer, link, filed, guests>>

\* The first price with a product at the provider links the product for good
\* (productPriceService.create).
LinkProduct(p) ==
    /\ Event(FALSE)
    /\ ~link[p]
    /\ link' = [link EXCEPT ![p] = TRUE]
    /\ UNCHANGED <<provider, customer, purchase, filed, guests>>

-----------------------------------------------------------------------------
(* A sync *)

BeginSync(s, row) ==
    /\ ~Running(s) /\ syncs < MaxSyncs
    /\ syncs' = syncs + 1
    /\ sync' = [sync EXCEPT ![s] = row]
    /\ disturbed' = IF \E t \in Syncs : Running(t)
                    THEN {t \in Syncs : Running(t)} \cup {s} ELSE {}
    /\ mixed' = (mixed \/ disturbed' # {})
    /\ UNCHANGED <<provider, customer, link, purchase, clock, events, synced, settled, filed, guests>>

Started == [IdleSync EXCEPT !.pc = "user"]

Throttled == lastSync # Nil /\ clock - lastSync < Throttle

\* syncPurchases past the throttle, from a sign-in, a session check or an
\* administrator's view.
Background(s) ==
    /\ ~Throttled
    /\ BeginSync(s, Started)
    /\ UNCHANGED <<lastSync, together>>

\* forceSyncPurchases forgets the last sync first.
ForceSync(s) ==
    /\ lastSync' = Nil
    /\ BeginSync(s, Started)
    /\ UNCHANGED together

\* createPortalSession needs a customer.
Portal(s) ==
    /\ BeginSync(s, [IdleSync EXCEPT !.pc = "ensure"])
    /\ together' = (together \/ \E t \in Syncs : sync[t].pc \in {"ensure", "search", "create", "store"})
    /\ UNCHANGED lastSync

Quietly == UNCHANGED <<clock, syncs, events, mixed, together, guests>>

End(s) == sync' = [sync EXCEPT ![s] = IdleSync]

\* A rejected call ends the sync, and lastSyncMap is left as it was.
Fail(s) ==
    /\ Running(s)
    /\ End(s)
    /\ UNCHANGED <<provider, local, synced, settled, disturbed, filed>> /\ Quietly

\* Bug: the time is set when the sync begins to ask.
LastSyncEarly == clock

\* lastSyncMap's entry once the user is read.
LastSyncKept == lastSync

ReadUser(s) ==
    /\ sync[s].pc = "user"
    /\ IF customer = 0 THEN End(s) /\ UNCHANGED lastSync
       ELSE /\ sync' = [sync EXCEPT ![s] = [sync[s] EXCEPT !.pc = "fetch", !.customer = customer]]
            /\ lastSync' = LastSyncKept
    /\ UNCHANGED <<provider, customer, link, purchase, synced, settled, disturbed, filed>> /\ Quietly

\* What the provider answers about a customer: the subscriptions it lists, and
\* the invoices.
SubscriptionsNow(c) ==
    {[of |-> i, product |-> payment[i].product, status |-> payment[i].status,
      ending |-> payment[i].ending] : i \in {j \in Listed : payment[j].customer = c}}
InvoicesNow(c) ==
    {[of |-> i, kind |-> payment[i].kind, product |-> payment[i].product]
        : i \in {j \in Payments : Made(j) /\ payment[j].customer = c}}

\* The two lists are asked for at once and read at different moments.
FetchSubscriptions(s) ==
    /\ sync[s].pc = "fetch" /\ "subscriptions" \notin sync[s].fetched
    /\ sync' = [sync EXCEPT ![s] = [sync[s] EXCEPT
           !.fetched = sync[s].fetched \cup {"subscriptions"}, !.subs = SubscriptionsNow(sync[s].customer)]]
    /\ UNCHANGED <<provider, local, synced, settled, disturbed, filed>> /\ Quietly

FetchInvoices(s) ==
    /\ sync[s].pc = "fetch" /\ "invoices" \notin sync[s].fetched
    /\ sync' = [sync EXCEPT ![s] = [sync[s] EXCEPT
           !.fetched = sync[s].fetched \cup {"invoices"}, !.single = InvoicesNow(sync[s].customer)]]
    /\ UNCHANGED <<provider, local, synced, settled, disturbed, filed>> /\ Quietly

\* mapSubscriptionStatus, of the statuses modelled.
MapStatus == [active |-> "active", canceled |-> "cancelled", past_due |-> "pending"]

Item(ref, also, status, ending) ==
    [ref |-> ref, also |-> also, status |-> status, ending |-> ending]
SubscriptionItem(x) == Item(Ref("subscription", x.of), Nil, MapStatus[x.status], x.ending)
InvoiceItem(x) == Item(Ref("invoice", x.of), Ref("intent", x.of), "completed", FALSE)

\* What is left to copy of two lists: subscriptions and invoices of linked
\* products, but no invoice of a subscription that was listed.
ToCopy(subs, single) ==
    LET listed == {x.of : x \in subs}
    IN {SubscriptionItem(x) : x \in {y \in subs : link[y.product]}}
       \cup {InvoiceItem(x) : x \in {y \in single : /\ link[y.product]
                                                   /\ ~(y.kind = "subscription" /\ y.of \in listed)}}

\* listAll.
ReadProducts(s) ==
    /\ sync[s].pc = "fetch" /\ sync[s].fetched = {"subscriptions", "invoices"}
    /\ sync' = [sync EXCEPT ![s] = [sync[s] EXCEPT
           !.pc = "next", !.todo = ToCopy(sync[s].subs, sync[s].single)]]
    /\ UNCHANGED <<provider, local, synced, settled, disturbed, filed>> /\ Quietly

\* Bug: a payment is looked for under the invoice's name only.
FoundByInvoiceOnly(x) == {k \in DOMAIN purchase : purchase[k].ref = x.ref}

\* findByExternalId, under the second name if there is none under the first.
Found(x) ==
    LET Under(ref) == {k \in DOMAIN purchase : purchase[k].ref = ref}
    IN IF Under(x.ref) # {} THEN Under(x.ref) ELSE Under(x.also)

\* The next item, subscriptions first, and the row it is about.
Lookup(s) ==
    LET first == {x \in sync[s].todo : x.ref.kind = "subscription"}
    IN /\ sync[s].pc = "next"
       /\ \E x \in IF first # {} THEN first ELSE sync[s].todo :
             \E k \in IF Found(x) = {} THEN {0} ELSE Found(x) :
                sync' = [sync EXCEPT ![s] = [sync[s] EXCEPT !.pc = "write", !.item = x, !.row = k,
                                                            !.todo = sync[s].todo \ {x}]]
       /\ UNCHANGED <<provider, local, synced, settled, disturbed, filed>> /\ Quietly

\* upsertPurchase; an end once announced is never taken back.
WritePurchase(s) ==
    LET x == sync[s].item k == sync[s].row
    IN /\ sync[s].pc = "write"
       /\ purchase' =
             IF k = 0 THEN Append(purchase, [ref |-> x.ref, status |-> x.status, ending |-> x.ending])
             ELSE [purchase EXCEPT ![k] = [purchase[k] EXCEPT !.status = x.status,
                                                              !.ending = purchase[k].ending \/ x.ending]]
       /\ sync' = [sync EXCEPT ![s] = [sync[s] EXCEPT !.pc = "next", !.item = Nil, !.row = 0]]
       /\ UNCHANGED <<provider, customer, link, lastSync, synced, settled, disturbed, filed>> /\ Quietly

EndSync(s) ==
    /\ sync[s].pc = "next" /\ sync[s].todo = {}
    /\ lastSync' = clock
    /\ synced' = clock
    /\ settled' = (s \notin disturbed)
    /\ disturbed' = disturbed \ {s}
    /\ End(s)
    /\ UNCHANGED <<provider, customer, link, purchase, filed>> /\ Quietly

-----------------------------------------------------------------------------
(* ensureStripeCustomer, and the same steps of a member's createSession *)

Ensure(s) ==
    /\ sync[s].pc = "ensure"
    /\ IF customer = 0 THEN Step(s, "search") ELSE End(s)
    /\ UNCHANGED <<provider, local, synced, settled, disturbed, filed>> /\ Quietly

\* Bug: the provider is not asked for customers it has.
KnownNever == FALSE

\* Whether the provider has a customer with the email.
Known == accounts > 0

\* The newest customer with the email.
Search(s) ==
    /\ sync[s].pc = "search"
    /\ IF Known
       THEN sync' = [sync EXCEPT ![s] = [sync[s] EXCEPT !.pc = "store", !.customer = accounts]]
       ELSE Step(s, "create")
    /\ UNCHANGED <<provider, local, synced, settled, disturbed, filed>> /\ Quietly

CreateCustomer(s) ==
    /\ sync[s].pc = "create"
    /\ accounts' = accounts + 1
    /\ sync' = [sync EXCEPT ![s] = [sync[s] EXCEPT !.pc = "store", !.customer = accounts + 1]]
    /\ UNCHANGED <<payment, local, synced, settled, disturbed, filed>> /\ Quietly

StoreCustomer(s) ==
    /\ sync[s].pc = "store"
    /\ customer' = sync[s].customer /\ filed' = filed \cup {customer'}
    /\ End(s)
    /\ UNCHANGED <<provider, link, purchase, lastSync, synced, settled, disturbed>> /\ Quietly

Tick == /\ clock < MaxClock
        /\ clock' = clock + 1
        /\ UNCHANGED <<provider, local, sync, history>>

SyncStep(s) ==
    \/ Background(s) \/ ForceSync(s) \/ ReadUser(s)
    \/ FetchSubscriptions(s) \/ FetchInvoices(s) \/ ReadProducts(s)
    \/ Lookup(s) \/ WritePurchase(s) \/ EndSync(s) \/ Fail(s)

PortalStep(s) == \/ Portal(s) \/ Ensure(s) \/ Search(s)
                 \/ CreateCustomer(s) \/ StoreCustomer(s)

Happens ==
    \/ \E i \in Payments :
          \/ \E kind \in {"subscription", "single"}, p \in Products :
                \E c \in Payers(kind) : Pay(i, kind, p, c)
          \/ Return(i)
          \/ \E status \in {"active", "canceled", "past_due"}, ending \in BOOLEAN :
                Change(i, status, ending)
    \/ \E k \in DOMAIN purchase : CancelHere(k)
    \/ \E p \in Products : LinkProduct(p)

Next == Happens \/ Tick \/ \E s \in Syncs : SyncStep(s) \/ PortalStep(s)

Spec == Init /\ [][Next]_vars

-----------------------------------------------------------------------------
(* Properties *)

RowsOf(i) == {k \in DOMAIN purchase : Stands(purchase[k], i)}

\* After a sync that nothing disturbed, the shop shows what the provider says of
\* the customer on file: each of its listed subscriptions and single payments of
\* a linked product has a purchase with its status, whether or not the browser
\* ever returned.  And nothing has two purchases, whichever customer paid it, as
\* long as nothing happened during a sync and no browser returned after a sync
\* had made the purchase (billing-service.ts:108-192, 270-298).
SyncConverges ==
    \A i \in Payments :
        Made(i) /\ (payment[i].kind = "single" \/ i \in Listed) =>
            /\ settled /\ payment[i].customer = customer /\ link[payment[i].product] =>
                  \E k \in RowsOf(i) :
                      purchase[k].status = IF payment[i].kind = "single" THEN "completed"
                                           ELSE MapStatus[payment[i].status]
            /\ ~mixed => Cardinality(RowsOf(i)) <= 1

\* Automatic syncs are held back only by one that ended well: after a sync
\* that broke off the next one runs (billing-service.ts:98-100, 194).
HeldBackBySuccess == lastSync # Nil => lastSync = synced

\* A member whose requests for a customer come one at a time gets one customer
\* at the provider, also when storing it failed before and is tried again, or a
\* guest with the same email pays meanwhile; the checkouts of guests make one
\* each (billing-service.ts:35-51, stripe-provider.ts:131-138).
OneCustomer == ~together => accounts <= guests + 1

=============================================================================
