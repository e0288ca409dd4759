----------------------------- MODULE BillingProofs -----------------------------
(***************************************************************************)
(* What Billing promises, for any number of payments, products, syncs and  *)
(* events.                                                                 *)
(***************************************************************************)
EXTENDS Billing, FiniteSetTheorems, SequenceTheorems, TLAPS

ProviderStatus == {"active", "canceled", "past_due"}
LocalStatus == {"active", "cancelled", "pending", "completed"}
Pcs == {"idle", "user", "fetch", "next", "write", "ensure", "search", "create", "store"}

SubscriptionRows == [of : Payments, product : Products \cup {Nil}, status : ProviderStatus,
                     ending : BOOLEAN]
InvoiceRows == [of : Payments, kind : {"none", "subscription", "single"},
                product : Products \cup {Nil}]
Items == {x \in [ref : Refs, also : Refs \cup {Nil}, status : LocalStatus, ending : BOOLEAN] :
             x.also # Nil => x.also.of = x.ref.of}
PurchaseRows == [ref : Refs, status : LocalStatus, ending : BOOLEAN]
SyncRow == [pc : Pcs, customer : Nat, subs : SUBSET SubscriptionRows, single : SUBSET InvoiceRows,
            fetched : SUBSET {"subscriptions", "invoices"}, todo : SUBSET Items,
            item : Items \cup {Nil}, row : Nat]

Typed ==
    /\ payment \in [Payments -> PaymentRow]
    /\ accounts \in Nat /\ customer \in Nat
    /\ link \in [Products -> BOOLEAN]
    /\ purchase \in Seq(PurchaseRows)
    /\ sync \in [Syncs -> SyncRow]
    /\ \A s \in Syncs : sync[s].pc = "write" => sync[s].item \in Items
    /\ settled \in BOOLEAN /\ mixed \in BOOLEAN /\ together \in BOOLEAN
    /\ disturbed \subseteq Syncs /\ filed \subseteq Nat

-----------------------------------------------------------------------------
(* Types *)

LEMMA TypedInit == Init => Typed
<1>1. NoPayment \in PaymentRow
  BY DEF NoPayment, PaymentRow
<1>2. IdleSync \in SyncRow /\ IdleSync.pc = "idle"
  BY DEF IdleSync, SyncRow, Pcs
<1>3. << >> \in Seq(PurchaseRows)
  BY EmptySeq
<1>4. Init => /\ link \in [Products -> BOOLEAN]
             /\ settled \in BOOLEAN /\ mixed \in BOOLEAN /\ together \in BOOLEAN
  BY Zenon DEF Init
<1>. QED
  BY <1>1, <1>2, <1>3, <1>4 DEF Init, Typed

\* Statuses that a sync writes.
LEMMA StatusMapped == ASSUME NEW st \in ProviderStatus PROVE MapStatus[st] \in LocalStatus
BY DEF MapStatus, ProviderStatus, LocalStatus

LEMMA AnswersTyped ==
    ASSUME Typed
    PROVE  \A c : SubscriptionsNow(c) \subseteq SubscriptionRows /\ InvoicesNow(c) \subseteq InvoiceRows
<1>1. ASSUME NEW i \in Payments
      PROVE  /\ payment[i].product \in Products \cup {Nil}
             /\ payment[i].kind \in {"none", "subscription", "single"}
             /\ payment[i].status \in ProviderStatus /\ payment[i].ending \in BOOLEAN
  BY DEF Typed, PaymentRow, ProviderStatus
<1>2. Listed \subseteq Payments
  BY DEF Listed, Subscriptions, Newer
<1>3. ASSUME NEW c PROVE SubscriptionsNow(c) \subseteq SubscriptionRows
  BY <1>1, <1>2 DEF SubscriptionsNow, SubscriptionRows
<1>4. ASSUME NEW c PROVE InvoicesNow(c) \subseteq InvoiceRows
  BY <1>1 DEF InvoicesNow, InvoiceRows
<1>. QED
  BY <1>3, <1>4

LEMMA ToCopyTyped ==
    ASSUME Typed, NEW subs \in SUBSET SubscriptionRows, NEW single \in SUBSET InvoiceRows
    PROVE  ToCopy(subs, single) \subseteq Items
<1>1. ASSUME NEW x \in subs
      PROVE  SubscriptionItem(x) \in Items
  <2>1. MapStatus[x.status] \in LocalStatus /\ x.of \in Payments /\ x.ending \in BOOLEAN
    BY StatusMapped DEF SubscriptionRows
  <2>. QED
    BY <2>1 DEF SubscriptionItem, Item, Items, Ref, Refs
<1>2. ASSUME NEW x \in single
      PROVE  InvoiceItem(x) \in Items
  BY DEF InvoiceRows, InvoiceItem, Item, Items, Ref, Refs, LocalStatus
<1>. QED
  BY <1>1, <1>2 DEF ToCopy

\* A row whose status a sync, a return or the member changes.
LEMMA RowChanged ==
    ASSUME NEW row \in PurchaseRows, NEW st \in LocalStatus, NEW ending \in BOOLEAN
    PROVE  [row EXCEPT !.status = st, !.ending = ending] \in PurchaseRows
BY DEF PurchaseRows

LEMMA HappensTyped ==
    ASSUME Typed, Happens
    PROVE  Typed'
<1>. USE DEF Typed
<1>1. ASSUME NEW tooLate, Event(tooLate)
      PROVE  /\ sync' = sync /\ together' = together
             /\ settled' \in BOOLEAN /\ mixed' \in BOOLEAN /\ disturbed' \subseteq Syncs
  BY <1>1, Zenon DEF Event
<1>2. ASSUME NEW i \in Payments, NEW kind \in {"subscription", "single"}, NEW p \in Products,
             NEW c \in Payers(kind), Pay(i, kind, p, c)
      PROVE  Typed'
  <2>1. [NoPayment EXCEPT !.kind = kind, !.product = p, !.customer = c] \in PaymentRow
    <3>1. c \in Nat
      BY DEF Payers
    <3>. QED
      BY <3>1 DEF NoPayment, PaymentRow
  <2>2. Event(FALSE)
    BY <1>2 DEF Pay
  <2>3. payment' \in [Payments -> PaymentRow] /\ accounts' \in Nat
    BY <1>2, <2>1 DEF Pay
  <2>. QED
    BY <1>1, <1>2, <2>2, <2>3 DEF Pay
<1>3. ASSUME NEW i \in Payments, Return(i)
      PROVE  Typed'
  <2>. DEFINE recurring == payment[i].kind = "subscription"
  <2>. DEFINE ended == [k \in DOMAIN purchase |->
                           IF recurring /\ purchase[k].status = "active"
                           THEN [purchase[k] EXCEPT !.status = "cancelled", !.ending = TRUE]
                           ELSE purchase[k]]
  <2>. DEFINE row == Local(RefOfReturn(i), IF recurring THEN "active" ELSE "completed")
  <2>1. Event(\E k \in DOMAIN purchase : Stands(purchase[k], i))
    BY <1>3 DEF Return
  <2>2. payment' \in [Payments -> PaymentRow]
    <3>1. [payment[i] EXCEPT !.returned = TRUE] \in PaymentRow
      BY DEF PaymentRow
    <3>. QED
      BY <1>3, <3>1 DEF Return
  <2>3. row \in PurchaseRows
    BY DEF Local, RefOfReturn, Ref, Refs, PurchaseRows, LocalStatus
  <2>4. \A k \in DOMAIN purchase : purchase[k] \in PurchaseRows
    BY ElementOfSeq, LenProperties
  <2>5. \A k \in DOMAIN purchase :
           [purchase[k] EXCEPT !.status = "cancelled", !.ending = TRUE] \in PurchaseRows
    BY <2>4, RowChanged DEF LocalStatus
  <2>6. ended \in Seq(PurchaseRows)
    <3>1. ended \in [1..Len(purchase) -> PurchaseRows]
      BY <2>4, <2>5, LenProperties
    <3>2. Len(purchase) \in Nat
      BY LenProperties
    <3>. HIDE DEF ended
    <3>. QED
      BY <3>1, <3>2, SeqDef
  <2>7. purchase' = Append(ended, row)
    BY <1>3 DEF Return
  <2>8. purchase' \in Seq(PurchaseRows)
    BY <2>3, <2>6, <2>7, AppendProperties
  <2>. QED
    <3>1. customer' \in Nat /\ filed' \subseteq Nat
      <4>1. payment[i].customer \in Nat
        BY DEF PaymentRow
      <4>. QED
        BY <1>3, <4>1 DEF Return
    <3>. QED
      BY <1>1, <1>3, <2>1, <2>2, <2>8, <3>1 DEF Return
<1>4. ASSUME NEW i \in Payments, NEW status \in ProviderStatus, NEW ending \in BOOLEAN,
             Change(i, status, ending)
      PROVE  Typed'
  <2>1. [payment[i] EXCEPT !.status = status, !.ending = ending] \in PaymentRow
    BY DEF PaymentRow, ProviderStatus
  <2>. QED
    BY <1>1, <1>4, <2>1 DEF Change
<1>5. ASSUME NEW k \in DOMAIN purchase, CancelHere(k)
      PROVE  Typed'
  <2>1. purchase[k] \in PurchaseRows /\ k \in 1..Len(purchase)
    BY ElementOfSeq, LenProperties
  <2>2. [purchase[k] EXCEPT !.status = "cancelled", !.ending = TRUE] \in PurchaseRows
    BY <2>1, RowChanged DEF LocalStatus
  <2>3. purchase' \in Seq(PurchaseRows)
    BY <1>5, <2>1, <2>2, ExceptSeq DEF CancelHere
  <2>. QED
    BY <1>1, <1>5, <2>3 DEF CancelHere, provider
<1>6. ASSUME NEW p \in Products, LinkProduct(p)
      PROVE  Typed'
  <2>1. link' \in [Products -> BOOLEAN]
    BY <1>6, Zenon DEF LinkProduct
  <2>. QED
    BY <1>1, <1>6, <2>1 DEF LinkProduct, provider
<1>. QED
  BY <1>2, <1>3, <1>4, <1>5, <1>6 DEF Happens, ProviderStatus

\* What a step of a sync does to its slot, for the steps that only do that.
LEMMA SlotTyped ==
    ASSUME Typed, NEW s \in Syncs, NEW row \in SyncRow, row.pc # "write",
           sync' = [sync EXCEPT ![s] = row],
           UNCHANGED <<payment, accounts, customer, link, purchase, filed>>,
           settled' \in BOOLEAN, mixed' \in BOOLEAN, together' \in BOOLEAN,
           disturbed' \subseteq Syncs
    PROVE  Typed'
BY DEF Typed

\* The slot of a sync that only goes on, or ends.
LEMMA RowAt ==
    ASSUME NEW row \in SyncRow, NEW pc \in Pcs \ {"write"}
    PROVE  [row EXCEPT !.pc = pc] \in SyncRow /\ [row EXCEPT !.pc = pc].pc = pc
BY DEF SyncRow

LEMMA IdleTyped == IdleSync \in SyncRow /\ IdleSync.pc = "idle"
BY DEF IdleSync, SyncRow, Pcs

LEMMA BeginTyped ==
    ASSUME Typed, NEW s \in Syncs, Background(s) \/ ForceSync(s) \/ Portal(s)
    PROVE  Typed'
<1>1. PICK row \in {Started, [IdleSync EXCEPT !.pc = "ensure"]} : BeginSync(s, row)
  BY DEF Background, ForceSync, Portal
<1>2. row \in SyncRow /\ row.pc # "write"
  BY IdleTyped, RowAt DEF Started, Pcs
<1>3. /\ settled' \in BOOLEAN /\ mixed' \in BOOLEAN /\ together' \in BOOLEAN
      /\ disturbed' \subseteq Syncs
  BY <1>1, Zenon DEF BeginSync, Background, ForceSync, Portal, Typed
<1>. QED
  BY <1>1, <1>2, <1>3, SlotTyped DEF BeginSync, provider

LEMMA SyncStepTyped ==
    ASSUME Typed, NEW s \in Syncs, SyncStep(s) \/ PortalStep(s)
    PROVE  Typed'
<1>1. CASE Background(s) \/ ForceSync(s) \/ Portal(s)
  BY <1>1, BeginTyped
<1>2. sync[s] \in SyncRow /\ sync \in [Syncs -> SyncRow]
  BY DEF Typed
<1>3. CASE Fail(s) \/ ReadUser(s) \/ Ensure(s) \/ Search(s)
  <2>1. PICK row : /\ sync' = [sync EXCEPT ![s] = row]
                   /\ \/ row = IdleSync
                      \/ \E pc \in {"search", "create"} : row = [sync[s] EXCEPT !.pc = pc]
                      \/ row = [sync[s] EXCEPT !.pc = "fetch", !.customer = customer]
                      \/ row = [sync[s] EXCEPT !.pc = "store", !.customer = accounts]
    BY <1>2, <1>3 DEF Fail, ReadUser, Ensure, Search, End, Step
  <2>2. row \in SyncRow /\ row.pc # "write"
    BY <1>2, <2>1, IdleTyped DEF SyncRow, Pcs, Typed
  <2>3. UNCHANGED <<payment, accounts, customer, link, purchase, filed, settled, mixed, together, disturbed>>
    BY <1>3 DEF Fail, ReadUser, Ensure, Search, local, Quietly, provider
  <2>4. /\ settled' \in BOOLEAN /\ mixed' \in BOOLEAN /\ together' \in BOOLEAN
        /\ disturbed' \subseteq Syncs
    BY <2>3 DEF Typed
  <2>. QED
    BY <2>1, <2>2, <2>3, <2>4, SlotTyped
<1>4. CASE FetchSubscriptions(s)
  <2>. DEFINE row == [sync[s] EXCEPT !.fetched = sync[s].fetched \cup {"subscriptions"},
                                     !.subs = SubscriptionsNow(sync[s].customer)]
  <2>1. row \in SyncRow /\ row.pc = "fetch"
    BY <1>2, <1>4, AnswersTyped DEF SyncRow, FetchSubscriptions
  <2>2. sync' = [sync EXCEPT ![s] = row]
    BY <1>4 DEF FetchSubscriptions
  <2>. QED
    BY <1>4, <2>1, <2>2, SlotTyped DEF FetchSubscriptions, Quietly, provider, local, Typed
<1>5. CASE FetchInvoices(s)
  <2>. DEFINE row == [sync[s] EXCEPT !.fetched = sync[s].fetched \cup {"invoices"},
                                     !.single = InvoicesNow(sync[s].customer)]
  <2>1. row \in SyncRow /\ row.pc = "fetch"
    BY <1>2, <1>5, AnswersTyped DEF SyncRow, FetchInvoices
  <2>2. sync' = [sync EXCEPT ![s] = row]
    BY <1>5 DEF FetchInvoices
  <2>. QED
    BY <1>5, <2>1, <2>2, SlotTyped DEF FetchInvoices, Quietly, provider, local, Typed
<1>6. CASE ReadProducts(s)
  <2>. DEFINE row == [sync[s] EXCEPT !.pc = "next", !.todo = ToCopy(sync[s].subs, sync[s].single)]
  <2>1. ToCopy(sync[s].subs, sync[s].single) \subseteq Items
    BY <1>2, ToCopyTyped DEF SyncRow
  <2>2. row \in SyncRow /\ row.pc = "next"
    BY <1>2, <2>1 DEF SyncRow, Pcs
  <2>3. sync' = [sync EXCEPT ![s] = row]
    BY <1>6 DEF ReadProducts
  <2>. QED
    BY <1>6, <2>1, <2>2, SlotTyped DEF ReadProducts, Quietly, provider, local, Typed
<1>7. CASE Lookup(s)
  <2>1. PICK x \in sync[s].todo : \E k \in IF Found(x) = {} THEN {0} ELSE Found(x) :
           sync' = [sync EXCEPT ![s] = [sync[s] EXCEPT !.pc = "write", !.item = x, !.row = k,
                                                       !.todo = sync[s].todo \ {x}]]
    BY <1>7 DEF Lookup
  <2>2. PICK k \in IF Found(x) = {} THEN {0} ELSE Found(x) :
           sync' = [sync EXCEPT ![s] = [sync[s] EXCEPT !.pc = "write", !.item = x, !.row = k,
                                                       !.todo = sync[s].todo \ {x}]]
    BY <2>1
  <2>3. k \in Nat
    <3>1. DOMAIN purchase \subseteq Nat
      BY LenProperties DEF Typed
    <3>. QED
      BY <2>2, <3>1 DEF Found
  <2>4. x \in Items
    BY <1>2, <2>1 DEF SyncRow
  <2>5. /\ [sync[s] EXCEPT !.pc = "write", !.item = x, !.row = k, !.todo = sync[s].todo \ {x}] \in SyncRow
        /\ [sync[s] EXCEPT !.pc = "write", !.item = x, !.row = k, !.todo = sync[s].todo \ {x}].item = x
    BY <1>2, <2>3, <2>4 DEF SyncRow, Pcs
  <2>. QED
    BY <1>7, <2>2, <2>4, <2>5 DEF Lookup, Quietly, provider, local, Typed
<1>8. CASE WritePurchase(s)
  <2>. DEFINE x == sync[s].item
              k == sync[s].row
  <2>1. x \in Items /\ k \in Nat
    BY <1>2, <1>8 DEF WritePurchase, Typed, SyncRow
  <2>2. x.ref \in Refs /\ x.status \in LocalStatus /\ x.ending \in BOOLEAN
    BY <2>1 DEF Items
  <2>3. purchase' \in Seq(PurchaseRows)
    <3>1. CASE k = 0
      <4>1. [ref |-> x.ref, status |-> x.status, ending |-> x.ending] \in PurchaseRows
        BY <2>2 DEF PurchaseRows
      <4>. QED
        BY <1>8, <3>1, <4>1, AppendProperties DEF WritePurchase, Typed
    <3>2. CASE k # 0 /\ k \in DOMAIN purchase
      <4>1. purchase[k] \in PurchaseRows /\ k \in 1..Len(purchase)
        BY <3>2, ElementOfSeq, LenProperties DEF Typed
      <4>2. (purchase[k].ending \/ x.ending) \in BOOLEAN
        OBVIOUS
      <4>3. [purchase[k] EXCEPT !.status = x.status, !.ending = purchase[k].ending \/ x.ending]
               \in PurchaseRows
        BY <2>2, <4>1, <4>2, RowChanged
      <4>4. purchase' = [purchase EXCEPT ![k] = [purchase[k] EXCEPT !.status = x.status,
                                                    !.ending = purchase[k].ending \/ x.ending]]
        BY <1>8, <3>2 DEF WritePurchase
      <4>. QED
        BY <4>1, <4>3, <4>4, ExceptSeq DEF Typed
    <3>3. CASE k # 0 /\ k \notin DOMAIN purchase
      <4>1. purchase' = purchase
        BY <1>8, <3>3, LenProperties DEF WritePurchase, Typed
      <4>. QED
        BY <4>1 DEF Typed
    <3>. QED
      BY <3>1, <3>2, <3>3
  <2>4. [sync[s] EXCEPT !.pc = "next", !.item = Nil, !.row = 0] \in SyncRow
    BY <1>2 DEF SyncRow, Pcs
  <2>5. [sync[s] EXCEPT !.pc = "next", !.item = Nil, !.row = 0].pc = "next"
    BY <1>2 DEF SyncRow
  <2>. QED
    BY <1>8, <2>3, <2>4, <2>5 DEF WritePurchase, Quietly, provider, Typed
<1>9. CASE EndSync(s)
  <2>1. settled' \in BOOLEAN /\ disturbed' \subseteq Syncs
    BY <1>9, Zenon DEF EndSync, Typed
  <2>. QED
    <3>1. /\ sync' = [sync EXCEPT ![s] = IdleSync]
          /\ UNCHANGED <<payment, accounts, customer, link, purchase, filed, mixed, together>>
      BY <1>9 DEF EndSync, End, Quietly, provider
    <3>2. mixed' \in BOOLEAN /\ together' \in BOOLEAN
      BY <3>1 DEF Typed
    <3>3. IdleSync \in SyncRow /\ IdleSync.pc # "write"
      BY IdleTyped
    <3>4. /\ sync' \in [Syncs -> SyncRow]
          /\ \A t \in Syncs : sync'[t].pc = "write" => sync'[t].item \in Items
      BY <3>1, <3>3 DEF Typed
    <3>5. /\ payment' \in [Payments -> PaymentRow] /\ accounts' \in Nat /\ customer' \in Nat
          /\ link' \in [Products -> BOOLEAN] /\ purchase' \in Seq(PurchaseRows) /\ filed' \subseteq Nat
      BY <3>1 DEF Typed
    <3>. QED
      BY <2>1, <3>2, <3>4, <3>5, Zenon DEF Typed
<1>10. CASE CreateCustomer(s)
  <2>. DEFINE row == [sync[s] EXCEPT !.pc = "store", !.customer = accounts + 1]
  <2>1. row \in SyncRow /\ row.pc = "store"
    <3>1. accounts + 1 \in Nat
      BY DEF Typed
    <3>. QED
      BY <1>2, <3>1 DEF SyncRow, Pcs
  <2>2. sync' = [sync EXCEPT ![s] = row]
    BY <1>10 DEF CreateCustomer
  <2>. HIDE DEF row
  <2>. QED
    BY <1>10, <2>1, <2>2 DEF CreateCustomer, Quietly, local, Typed
<1>11. CASE StoreCustomer(s)
  <2>1. sync[s].customer \in Nat
    BY <1>2 DEF SyncRow
  <2>. QED
    BY <1>11, <2>1, IdleTyped DEF StoreCustomer, End, Quietly, provider, Typed
<1>. QED
  BY <1>1, <1>3, <1>4, <1>5, <1>6, <1>7, <1>8, <1>9, <1>10, <1>11 DEF SyncStep, PortalStep

LEMMA TypedNext == ASSUME Typed, [Next]_vars PROVE Typed'
<1>1. CASE Tick \/ UNCHANGED vars
  BY <1>1 DEF Tick, vars, provider, local, history, Typed
<1>. QED
  BY <1>1, HappensTyped, SyncStepTyped DEF Next

-----------------------------------------------------------------------------
(* Invariants *)

\* What a sync that sees the present would have to copy.
SubsNow == SubscriptionsNow(customer)
BillsNow == InvoicesNow(customer)
ItemsNow == ToCopy(SubsNow, BillsNow)

\* The row that a sync is about to write is one of the payment's, and rows do
\* not move.
RowFound ==
    \A s \in Syncs : sync[s].pc = "write" =>
        \/ sync[s].row = 0
        \/ sync[s].row \in DOMAIN purchase /\ Stands(purchase[sync[s].row], sync[s].item.ref.of)

\* Of two that run, each has been disturbed.
Alone == \A s, t \in Syncs : Running(s) /\ Running(t) /\ s # t => s \in disturbed

Copied(x) == \E k \in DOMAIN purchase :
    Stands(purchase[k], x.ref.of) /\ purchase[k].status = x.status

\* What a sync has read is still so, and what it has to copy is copied or
\* still to be copied.
UpToDate(s) ==
    /\ sync[s].pc \in {"fetch", "next", "write"} => sync[s].customer = customer /\ customer # 0
    /\ "subscriptions" \in sync[s].fetched => sync[s].subs = SubsNow
    /\ "invoices" \in sync[s].fetched => sync[s].single = BillsNow
    /\ sync[s].pc \in {"next", "write"} =>
          /\ sync[s].todo \subseteq ItemsNow
          /\ sync[s].pc = "write" => sync[s].item \in ItemsNow
          /\ \A x \in ItemsNow : \/ x \in sync[s].todo
                                 \/ sync[s].pc = "write" /\ x = sync[s].item
                                 \/ Copied(x)

\* A sync is up to date as long as nothing happened since it began, or since
\* one before it settled everything.
Fresh(s) == Running(s) /\ (settled \/ s \notin disturbed)

\* A request that found no customer on file.
Filing(pc) == pc \in {"search", "create", "store"}

CopyInv ==
    /\ RowFound
    /\ Alone
    /\ settled => customer # 0 /\ \A s \in Syncs : ~Filing(sync[s].pc)
    /\ \A s \in Syncs : Fresh(s) => UpToDate(s)
    /\ settled => \A x \in ItemsNow : Copied(x)

\* Payments that are to have exactly one purchase.
Claimable(i) == payment[i].kind = "single" \/ i \in Listed

\* The names that a payment's purchase may have.
Fits(ref) ==
    /\ Made(ref.of)
    /\ payment[ref.of].kind = "single" => ref.kind \in {"invoice", "intent"}
    /\ ref.of \in Listed => ref.kind = "subscription"

\* As long as nothing happened in between, purchases have the names a sync
\* looks for, and there are no two for one payment.
OneRowInv ==
    ~mixed =>
        /\ disturbed = {}
        /\ \A k \in DOMAIN purchase : Fits(purchase[k].ref)
        /\ \A k, m \in DOMAIN purchase :
              /\ purchase[k].ref.of = purchase[m].ref.of
              /\ Claimable(purchase[k].ref.of)
              => k = m
        /\ \A s \in Syncs :
              /\ sync[s].pc = "write" /\ sync[s].row = 0
              /\ Claimable(sync[s].item.ref.of)
              => \A k \in DOMAIN purchase : purchase[k].ref.of # sync[s].item.ref.of

Asks(s) == sync[s].pc \in {"ensure", "search", "create", "store"}

\* The only account that no guest's checkout made is the one of the request that
\* is alone in asking for it.
CustomerInv ==
    /\ guests \in Nat /\ guests <= accounts
    /\ ~together =>
          /\ \A s, t \in Syncs : Asks(s) /\ Asks(t) => s = t
          /\ accounts <= guests + 1
          /\ \A s \in Syncs : sync[s].pc = "create" => accounts = guests

-----------------------------------------------------------------------------
(* Held back by success *)

\* Automatic syncs are held back only by one that ended well: after a sync
\* that broke off the next one runs (billing-service.ts:98-100, 194).
THEOREM HeldBackBySuccessHolds == Spec => []HeldBackBySuccess
<1>1. Init => HeldBackBySuccess
  BY DEF Init, HeldBackBySuccess
<1>2. HeldBackBySuccess /\ [Next]_vars => HeldBackBySuccess'
  <2>. SUFFICES ASSUME HeldBackBySuccess, [Next]_vars PROVE HeldBackBySuccess'
    OBVIOUS
  <2>1. \/ lastSync' = lastSync /\ synced' = synced
        \/ lastSync' = Nil
        \/ lastSync' = clock /\ synced' = clock
    <3>1. CASE Happens
      BY <3>1 DEF Happens, Pay, Return, Change, CancelHere, LinkProduct, Event
    <3>2. ASSUME NEW s \in Syncs, SyncStep(s)
          PROVE  <2>1!:
      BY <3>2 DEF SyncStep, Background, ForceSync, BeginSync, ReadUser, LastSyncKept, FetchSubscriptions,
         FetchInvoices, ReadProducts, Lookup, WritePurchase, EndSync, Fail, local
    <3>3. ASSUME NEW s \in Syncs, PortalStep(s)
          PROVE  <2>1!:
      BY <3>3 DEF PortalStep, Portal, BeginSync, Ensure, Search, CreateCustomer, StoreCustomer, local
    <3>. QED
      BY <3>1, <3>2, <3>3 DEF Next, Tick, vars, local, history
  <2>. QED
    BY <2>1 DEF HeldBackBySuccess
<1>. QED
  BY <1>1, <1>2, PTL DEF Spec

-----------------------------------------------------------------------------
(* One customer *)

\* What a step does to the slots, as far as requests for a customer go.
LEMMA AsksStep ==
    ASSUME Typed, NEW s \in Syncs, SyncStep(s) \/ PortalStep(s)
    PROVE  /\ \A t \in Syncs \ {s} : sync'[t] = sync[t]
           /\ \/ ~Asks(s)' /\ accounts' = accounts
              \/ Portal(s)
              \/ Asks(s) /\ Ensure(s)
              \/ Asks(s) /\ Search(s)
              \/ Asks(s) /\ CreateCustomer(s)
<1>. USE DEF Typed
<1>1. sync[s] \in SyncRow
  OBVIOUS
<1>2. ASSUME NEW row, sync' = [sync EXCEPT ![s] = row], row.pc \in {"idle", "user", "fetch", "next", "write"},
             accounts' = accounts
      PROVE  /\ \A t \in Syncs \ {s} : sync'[t] = sync[t]
             /\ ~Asks(s)' /\ accounts' = accounts
  BY <1>2 DEF Asks
<1>3. CASE Background(s) \/ ForceSync(s)
  <2>1. BeginSync(s, Started) /\ Started.pc = "user"
    BY <1>3 DEF Background, ForceSync, Started, IdleSync
  <2>. QED
    BY <1>2, <2>1 DEF BeginSync, provider
<1>4. CASE Fail(s) \/ EndSync(s) \/ StoreCustomer(s)
  BY <1>2, <1>4, IdleTyped DEF Fail, EndSync, StoreCustomer, End, provider
<1>5. CASE ReadUser(s)
  <2>1. [sync[s] EXCEPT !.pc = "fetch", !.customer = customer].pc = "fetch"
    BY <1>1 DEF SyncRow
  <2>. QED
    BY <1>2, <1>5, <2>1, IdleTyped DEF ReadUser, End, provider
<1>6. CASE FetchSubscriptions(s)
  BY <1>1, <1>2, <1>6 DEF FetchSubscriptions, SyncRow, provider
<1>7. CASE FetchInvoices(s)
  BY <1>1, <1>2, <1>7 DEF FetchInvoices, SyncRow, provider
<1>8. CASE ReadProducts(s)
  BY <1>1, <1>2, <1>8 DEF ReadProducts, SyncRow, provider
<1>9. CASE Lookup(s)
  BY <1>1, <1>2, <1>9 DEF Lookup, SyncRow, provider
<1>10. CASE WritePurchase(s)
  BY <1>1, <1>2, <1>10 DEF WritePurchase, SyncRow, provider
<1>11. CASE Portal(s) \/ Ensure(s) \/ Search(s) \/ CreateCustomer(s)
  BY <1>11 DEF Portal, BeginSync, Ensure, Search, CreateCustomer, Step, End, Asks
<1>. QED
  BY <1>3, <1>4, <1>5, <1>6, <1>7, <1>8, <1>9, <1>10, <1>11 DEF SyncStep, PortalStep

LEMMA CustomerInvNext ==
    ASSUME Typed, CustomerInv, [Next]_vars
    PROVE  CustomerInv'
<1>. USE DEF CustomerInv
<1>1. CASE Tick \/ UNCHANGED vars
  BY <1>1 DEF Tick, vars, provider, local, history, Asks
<1>2. CASE Happens
  <2>1. sync' = sync /\ together' = together
    BY <1>2 DEF Happens, Pay, Return, Change, CancelHere, LinkProduct, Event
  <2>2. \/ accounts' = accounts /\ guests' = guests
        \/ accounts' = accounts + 1 /\ guests' = guests + 1
    <3>1. ASSUME NEW i \in Payments, NEW kind \in {"subscription", "single"}, NEW p \in Products,
                 NEW c \in Payers(kind), Pay(i, kind, p, c)
          PROVE  <2>2!:
      BY <3>1 DEF Pay
    <3>2. \/ \E i \in Payments : \/ Return(i)
                               \/ \E st \in ProviderStatus, e \in BOOLEAN : Change(i, st, e)
          \/ \E k \in DOMAIN purchase : CancelHere(k)
          \/ \E p \in Products : LinkProduct(p)
          => accounts' = accounts /\ guests' = guests
      BY DEF Return, Change, CancelHere, LinkProduct, provider
    <3>. QED
      BY <1>2, <3>1, <3>2 DEF Happens, ProviderStatus
  <2>. QED
    BY <2>1, <2>2 DEF Asks, Typed
<1>3. ASSUME NEW s \in Syncs, SyncStep(s) \/ PortalStep(s)
      PROVE  CustomerInv'
  <2>1. guests' = guests
    BY <1>3 DEF SyncStep, PortalStep, Background, ForceSync, BeginSync, ReadUser, FetchSubscriptions,
       FetchInvoices, ReadProducts, Lookup, WritePurchase, EndSync, Fail, Portal, Ensure, Search,
       CreateCustomer, StoreCustomer, Quietly
  <2>2. \A t \in Syncs \ {s} : sync'[t] = sync[t]
    BY <1>3, AsksStep
  <2>4. CASE ~Asks(s)' /\ accounts' = accounts
    <3>1. Portal(s) => Asks(s)'
      <4>1. [IdleSync EXCEPT !.pc = "ensure"].pc = "ensure"
        BY DEF IdleSync
      <4>. QED
        BY <4>1 DEF Portal, BeginSync, Typed, Asks
    <3>2. \/ Portal(s) \/ Background(s) \/ ForceSync(s)
          \/ Quietly
      BY <1>3 DEF SyncStep, PortalStep, ReadUser, FetchSubscriptions, FetchInvoices,
         ReadProducts, Lookup, WritePurchase, EndSync, Fail, Ensure, Search, CreateCustomer, StoreCustomer
    <3>3. together' = together
      BY <2>4, <3>1, <3>2 DEF Background, ForceSync, Quietly
    <3>. QED
      BY <2>1, <2>2, <2>4, <3>3 DEF Asks
  <2>5. CASE Portal(s)
    <3>1. [IdleSync EXCEPT !.pc = "ensure"].pc = "ensure"
      BY DEF IdleSync
    <3>2. /\ sync'[s].pc = "ensure" /\ accounts' = accounts
          /\ together' = (together \/ \E t \in Syncs : Asks(t))
      BY <2>5, <3>1 DEF Portal, BeginSync, Typed, provider, Asks
    <3>. QED
      BY <2>1, <2>2, <3>2 DEF Asks
  <2>6. CASE Asks(s) /\ Ensure(s)
    <3>1. sync'[s].pc \in {"search", "idle"} /\ accounts' = accounts /\ together' = together
      <4>1. [sync[s] EXCEPT !.pc = "search"].pc = "search"
        BY RowAt DEF Typed, Pcs
      <4>. QED
        BY <2>6, <4>1, IdleTyped DEF Ensure, Step, End, Typed, provider, Quietly
    <3>. QED
      BY <2>1, <2>2, <2>6, <3>1 DEF Asks
  <2>7. CASE Asks(s) /\ Search(s)
    <3>1. /\ sync'[s].pc \in {"store", "create"} /\ accounts' = accounts /\ together' = together
          /\ sync'[s].pc = "create" => ~(accounts > 0)
      <4>1. /\ [sync[s] EXCEPT !.pc = "store", !.customer = accounts].pc = "store"
            /\ [sync[s] EXCEPT !.pc = "create"].pc = "create"
        BY RowAt DEF Typed, SyncRow, Pcs
      <4>. QED
        BY <2>7, <4>1 DEF Search, Known, Step, Typed, provider, Quietly
    <3>. QED
      BY <2>1, <2>2, <2>7, <3>1 DEF Asks, Typed
  <2>8. CASE Asks(s) /\ CreateCustomer(s)
    <3>1. /\ sync[s].pc = "create" /\ sync'[s].pc = "store"
          /\ accounts' = accounts + 1 /\ together' = together
      <4>1. [sync[s] EXCEPT !.pc = "store", !.customer = accounts + 1].pc = "store"
        BY DEF Typed, SyncRow
      <4>. QED
        BY <2>8, <4>1 DEF CreateCustomer, Typed, Quietly
    <3>. QED
      BY <2>1, <2>2, <2>8, <3>1 DEF Asks, Typed
  <2>. QED
    BY <1>3, <2>4, <2>5, <2>6, <2>7, <2>8, AsksStep
<1>. QED
  BY <1>1, <1>2, <1>3 DEF Next

\* A member whose requests for a customer come one at a time gets one customer
\* at the provider, also when storing it failed before and is tried again, or a
\* guest with the same email pays meanwhile; the checkouts of guests make one
\* each (billing-service.ts:35-51, stripe-provider.ts:131-138).
THEOREM OneCustomerHolds == Spec => []OneCustomer
<1>1. Init => CustomerInv
  BY DEF Init, CustomerInv, Asks, IdleSync
<1>2. CustomerInv => OneCustomer
  BY DEF CustomerInv, OneCustomer
<1>. QED
  BY TypedInit, TypedNext, CustomerInvNext, <1>1, <1>2, PTL DEF Spec

-----------------------------------------------------------------------------
(* What a sync has to copy *)

\* The item that a sync makes of a payment: of a subscription that is listed,
\* or of an invoice.
ItemOf(i) ==
    IF i \in Listed
    THEN Item(Ref("subscription", i), Nil, MapStatus[payment[i].status], payment[i].ending)
    ELSE Item(Ref("invoice", i), Ref("intent", i), "completed", FALSE)

LEMMA ListedAre ==
    ASSUME NEW i \in Listed
    PROVE  i \in Payments /\ payment[i].kind = "subscription" /\ Made(i)
BY DEF Listed, Subscriptions, Made

\* Each payment of the customer on file for a linked product, and it once.
Synced(i) == Made(i) /\ payment[i].customer = customer /\ link[payment[i].product]

LEMMA ItemsAre == ItemsNow = {ItemOf(i) : i \in {j \in Payments : Synced(j)}}
<1>. DEFINE SubRow(i) == [of |-> i, product |-> payment[i].product, status |-> payment[i].status,
                          ending |-> payment[i].ending]
            InvRow(i) == [of |-> i, kind |-> payment[i].kind, product |-> payment[i].product]
            Here == {i \in Listed : payment[i].customer = customer}
            Bills == {i \in Payments : Made(i) /\ payment[i].customer = customer}
<1>1. SubsNow = {SubRow(i) : i \in Here} /\ \A i \in Here : SubRow(i).of = i
  BY DEF SubsNow, SubscriptionsNow
<1>2. BillsNow = {InvRow(i) : i \in Bills} /\ \A i \in Bills : InvRow(i).of = i
  BY DEF BillsNow, InvoicesNow
<1>3. {x.of : x \in SubsNow} = Here
  <2>. HIDE DEF SubRow
  <2>. QED
    BY <1>1
<1>4. ItemsNow = {SubscriptionItem(x) : x \in {y \in SubsNow : link[y.product]}}
       \cup {InvoiceItem(x) : x \in {y \in BillsNow : /\ link[y.product]
                                              /\ ~(y.kind = "subscription" /\ y.of \in Here)}}
  BY <1>3 DEF ItemsNow, ToCopy
<1>5. \A i \in Listed : SubscriptionItem(SubRow(i)) = ItemOf(i)
  BY DEF SubscriptionItem, ItemOf
<1>6. \A i \in Payments \ Listed : InvoiceItem(InvRow(i)) = ItemOf(i)
  BY DEF InvoiceItem, ItemOf
<1>7. ASSUME NEW x \in ItemsNow
      PROVE  \E i \in Payments : Synced(i) /\ x = ItemOf(i)
  <2>1. CASE \E y \in SubsNow : link[y.product] /\ x = SubscriptionItem(y)
    <3>1. PICK i \in Here : link[SubRow(i).product] /\ x = SubscriptionItem(SubRow(i))
      BY <1>1, <2>1
    <3>. QED
      BY <3>1, <1>5, ListedAre DEF Synced
  <2>2. CASE \E y \in BillsNow : /\ link[y.product] /\ x = InvoiceItem(y)
                                /\ ~(y.kind = "subscription" /\ y.of \in Here)
    <3>1. PICK i \in Bills : /\ link[InvRow(i).product] /\ x = InvoiceItem(InvRow(i))
                            /\ ~(InvRow(i).kind = "subscription" /\ InvRow(i).of \in Here)
      BY <1>2, <2>2
    <3>2. i \notin Listed
      BY <3>1, ListedAre
    <3>. QED
      BY <3>1, <3>2, <1>6 DEF Synced
  <2>. QED
    BY <1>4, <2>1, <2>2
<1>8. ASSUME NEW i \in Payments, Synced(i)
      PROVE  ItemOf(i) \in ItemsNow
  <2>1. CASE i \in Listed
    <3>1. SubRow(i) \in SubsNow /\ link[SubRow(i).product]
      BY <1>1, <1>8, <2>1 DEF Synced
    <3>. QED
      BY <1>4, <1>5, <2>1, <3>1
  <2>2. CASE i \notin Listed
    <3>1. InvRow(i) \in BillsNow /\ link[InvRow(i).product] /\ InvRow(i).of \notin Here
      BY <1>2, <1>8, <2>2 DEF Synced
    <3>. QED
      BY <1>4, <1>6, <2>2, <3>1
  <2>. QED
    BY <2>1, <2>2
<1>. QED
  BY <1>7, <1>8

LEMMA ItemFields ==
    ASSUME NEW i
    PROVE  /\ ItemOf(i).ref.of = i
           /\ i \in Listed => /\ ItemOf(i).ref = Ref("subscription", i) /\ ItemOf(i).also = Nil
                             /\ ItemOf(i).status = MapStatus[payment[i].status]
           /\ i \notin Listed => /\ ItemOf(i).ref = Ref("invoice", i)
                                /\ ItemOf(i).also = Ref("intent", i)
                                /\ ItemOf(i).status = "completed"
BY DEF ItemOf, Item, Ref

LEMMA OneItemEach ==
    ASSUME NEW x \in ItemsNow, NEW y \in ItemsNow, x.ref.of = y.ref.of
    PROVE  x = y
BY ItemsAre, ItemFields

\* The present stays as it is while payments and links do.
LEMMA NowKept ==
    ASSUME UNCHANGED <<payment, link, customer>>
    PROVE  /\ SubsNow' = SubsNow /\ BillsNow' = BillsNow
           /\ ItemsNow' = ItemsNow /\ Listed' = Listed
<1>1. Listed' = Listed
  BY DEF Listed, Subscriptions, Newer
<1>2. SubsNow' = SubsNow /\ BillsNow' = BillsNow
  BY <1>1 DEF SubsNow, SubscriptionsNow, BillsNow, InvoicesNow, Made
<1>3. ItemsNow' = ItemsNow
  BY <1>2 DEF ItemsNow, ToCopy
<1>. QED
  BY <1>1, <1>2, <1>3

-----------------------------------------------------------------------------
(* Copies *)

\* Rows are never taken out, moved or renamed.
RefsKept ==
    /\ DOMAIN purchase \subseteq DOMAIN purchase'
    /\ \A k \in DOMAIN purchase : purchase'[k].ref = purchase[k].ref

\* A step of one sync that leaves the provider and what is copied as it was.
LEMMA OthersKept ==
    ASSUME Typed, CopyInv, NEW s \in Syncs, NEW row, sync' = [sync EXCEPT ![s] = row],
           Running(s), UNCHANGED <<payment, link, customer, settled, disturbed>>, RefsKept,
           Fresh(s) => \A x \in ItemsNow : Copied(x) => Copied(x)',
           row.pc = "write" => \/ row.row = 0
                               \/ row.row \in DOMAIN purchase' /\ Stands(purchase'[row.row], row.item.ref.of),
           Fresh(s) /\ row.pc # "idle" => UpToDate(s)',
           settled => ~Filing(row.pc)
    PROVE  CopyInv'
<1>. USE DEF Typed
<1>1. sync'[s] = row /\ \A t \in Syncs \ {s} : sync'[t] = sync[t]
  OBVIOUS
<1>2. \A t \in Syncs : Running(t)' => Running(t)
  BY <1>1 DEF Running
<1>3. /\ SubsNow' = SubsNow /\ BillsNow' = BillsNow
      /\ ItemsNow' = ItemsNow
  BY NowKept
<1>4. RowFound'
  BY <1>1 DEF RowFound, CopyInv, RefsKept, Stands
<1>5. Alone'
  BY <1>2 DEF Alone, CopyInv
<1>6. ASSUME NEW t \in Syncs, Fresh(t)'
      PROVE  UpToDate(t)'
  <2>1. Fresh(t)
    BY <1>2, <1>6 DEF Fresh
  <2>2. CASE t = s
    BY <1>1, <1>6, <2>1, <2>2 DEF Fresh, Running
  <2>3. CASE t # s
    <3>1. Fresh(s)
      BY <2>1, <2>3 DEF Fresh, CopyInv, Alone
    <3>. QED
      BY <1>1, <1>3, <2>1, <2>3, <3>1 DEF UpToDate, CopyInv
  <2>. QED
    BY <2>2, <2>3
<1>7. settled' => \A x \in ItemsNow' : Copied(x)'
  BY <1>3 DEF CopyInv, Fresh
<1>8. settled' => customer' # 0 /\ \A t \in Syncs : ~Filing(sync[t].pc)'
  BY <1>1 DEF CopyInv, Filing
<1>. QED
  BY <1>4, <1>5, <1>6, <1>7, <1>8 DEF CopyInv

\* The same, of a step that leaves the purchases alone.
LEMMA QuietKept ==
    ASSUME Typed, CopyInv, NEW s \in Syncs, NEW row, sync' = [sync EXCEPT ![s] = row],
           Running(s), UNCHANGED <<payment, link, customer, settled, disturbed, purchase>>,
           row.pc = "write" => \/ row.row = 0
                               \/ row.row \in DOMAIN purchase /\ Stands(purchase[row.row], row.item.ref.of),
           Fresh(s) /\ row.pc # "idle" => UpToDate(s)',
           settled => ~Filing(row.pc)
    PROVE  CopyInv'
<1>1. RefsKept
  BY DEF RefsKept
<1>2. \A x : Copied(x) => Copied(x)'
  BY DEF Copied
<1>. QED
  BY <1>1, <1>2, OthersKept

\* A request for a customer, or the end of what runs.
LEMMA RequestKept ==
    ASSUME Typed, CopyInv, NEW s \in Syncs,
           Fail(s) \/ Ensure(s) \/ Search(s) \/ CreateCustomer(s)
    PROVE  CopyInv'
<1>1. /\ sync[s] \in SyncRow /\ Running(s)
      /\ UNCHANGED <<payment, link, customer, settled, disturbed, purchase>>
  BY DEF Fail, Ensure, Search, CreateCustomer, Running, provider, local, Typed
<1>2. CASE End(s)
  BY <1>1, <1>2, IdleTyped, QuietKept DEF End, Filing
<1>3. CASE ~End(s)
  <2>1. ~settled
    BY <1>3 DEF Fail, Ensure, Search, CreateCustomer, CopyInv, Filing
  <2>2. PICK row : /\ sync' = [sync EXCEPT ![s] = row]
                   /\ \/ \E pc \in {"search", "create"} : row = [sync[s] EXCEPT !.pc = pc]
                      \/ \E c : row = [sync[s] EXCEPT !.pc = "store", !.customer = c]
    BY <1>3 DEF Fail, Ensure, Search, CreateCustomer, Step
  <2>3. /\ row.pc \in {"search", "create", "store"} /\ row.fetched = sync[s].fetched
        /\ row.subs = sync[s].subs /\ row.single = sync[s].single
    BY <1>1, <2>2 DEF SyncRow
  <2>4. sync'[s] = row
    BY <2>2 DEF Typed
  <2>5. Fresh(s) => UpToDate(s)'
    BY <1>1, <2>3, <2>4, NowKept DEF CopyInv, UpToDate
  <2>. QED
    BY <1>1, <2>1, <2>2, <2>3, <2>5, QuietKept
<1>. QED
  BY <1>2, <1>3

\* The user is read: a sync goes on with the customer on file.
LEMMA ReadUserKept ==
    ASSUME Typed, CopyInv, NEW s \in Syncs, ReadUser(s)
    PROVE  CopyInv'
<1>1. /\ sync[s] \in SyncRow /\ Running(s)
      /\ UNCHANGED <<payment, link, customer, settled, disturbed, purchase>>
  BY DEF ReadUser, Running, provider, Typed
<1>2. CASE End(s)
  BY <1>1, <1>2, IdleTyped, QuietKept DEF End, Filing
<1>3. CASE ~End(s)
  <2>. DEFINE row == [sync[s] EXCEPT !.pc = "fetch", !.customer = customer]
  <2>1. /\ row.pc = "fetch" /\ row.fetched = sync[s].fetched /\ row.customer = customer
        /\ row.subs = sync[s].subs /\ row.single = sync[s].single
    BY <1>1 DEF SyncRow
  <2>2. sync' = [sync EXCEPT ![s] = row] /\ customer # 0
    BY <1>3 DEF ReadUser
  <2>3. sync'[s] = row
    BY <2>2 DEF Typed
  <2>. HIDE DEF row
  <2>4. Fresh(s) => UpToDate(s)'
    BY <1>1, <2>1, <2>2, <2>3, NowKept DEF CopyInv, UpToDate
  <2>. QED
    BY <1>1, <2>1, <2>2, <2>4, QuietKept DEF Filing
<1>. QED
  BY <1>2, <1>3

\* A customer is stored only when nothing that runs is up to date.
LEMMA StoreKept ==
    ASSUME Typed, CopyInv, NEW s \in Syncs, StoreCustomer(s)
    PROVE  CopyInv'
<1>1. /\ sync[s].pc = "store" /\ Running(s)
      /\ UNCHANGED <<purchase, settled, disturbed>>
      /\ sync'[s] = IdleSync /\ \A t \in Syncs \ {s} : sync'[t] = sync[t]
  BY DEF StoreCustomer, End, Running, Typed
<1>2. ~settled
  BY <1>1 DEF CopyInv, Filing
<1>3. \A t \in Syncs : Running(t)' => Running(t) /\ t # s
  BY <1>1, IdleTyped DEF Running
<1>4. \A t \in Syncs : ~Fresh(t)'
  BY <1>1, <1>2, <1>3 DEF CopyInv, Alone, Fresh
<1>5. RowFound'
  BY <1>1, IdleTyped DEF CopyInv, RowFound
<1>6. Alone'
  BY <1>1, <1>3 DEF CopyInv, Alone
<1>. QED
  BY <1>1, <1>2, <1>4, <1>5, <1>6 DEF CopyInv

LEMMA FetchKept ==
    ASSUME Typed, CopyInv, NEW s \in Syncs, FetchSubscriptions(s) \/ FetchInvoices(s)
    PROVE  CopyInv'
<1>1. /\ sync[s] \in SyncRow /\ sync[s].pc = "fetch" /\ Running(s)
      /\ UNCHANGED <<payment, link, customer, settled, disturbed, purchase>>
  BY DEF FetchSubscriptions, FetchInvoices, Typed, Running, provider, local
<1>2. CASE FetchSubscriptions(s)
  <2>. DEFINE row == [sync[s] EXCEPT !.fetched = sync[s].fetched \cup {"subscriptions"},
                                     !.subs = SubscriptionsNow(sync[s].customer)]
  <2>1. /\ row.pc = "fetch" /\ row.fetched = sync[s].fetched \cup {"subscriptions"}
        /\ row.subs = SubscriptionsNow(sync[s].customer) /\ row.single = sync[s].single
        /\ row.customer = sync[s].customer
    BY <1>1 DEF SyncRow
  <2>2. sync' = [sync EXCEPT ![s] = row]
    BY <1>2 DEF FetchSubscriptions
  <2>3. sync'[s] = row
    BY <2>2 DEF Typed
  <2>. HIDE DEF row
  <2>4. Fresh(s) => UpToDate(s)'
    BY <1>1, <2>1, <2>3, NowKept DEF CopyInv, UpToDate, SubsNow, BillsNow
  <2>. QED
    BY <1>1, <2>1, <2>2, <2>4, QuietKept DEF Filing
<1>3. CASE FetchInvoices(s)
  <2>. DEFINE row == [sync[s] EXCEPT !.fetched = sync[s].fetched \cup {"invoices"},
                                     !.single = InvoicesNow(sync[s].customer)]
  <2>1. /\ row.pc = "fetch" /\ row.fetched = sync[s].fetched \cup {"invoices"}
        /\ row.single = InvoicesNow(sync[s].customer) /\ row.subs = sync[s].subs
        /\ row.customer = sync[s].customer
    BY <1>1 DEF SyncRow
  <2>2. sync' = [sync EXCEPT ![s] = row]
    BY <1>3 DEF FetchInvoices
  <2>3. sync'[s] = row
    BY <2>2 DEF Typed
  <2>. HIDE DEF row
  <2>4. Fresh(s) => UpToDate(s)'
    BY <1>1, <2>1, <2>3, NowKept DEF CopyInv, UpToDate, SubsNow, BillsNow
  <2>. QED
    BY <1>1, <2>1, <2>2, <2>4, QuietKept DEF Filing
<1>. QED
  BY <1>2, <1>3

LEMMA ReadProductsKept ==
    ASSUME Typed, CopyInv, NEW s \in Syncs, ReadProducts(s)
    PROVE  CopyInv'
<1>. DEFINE row == [sync[s] EXCEPT !.pc = "next", !.todo = ToCopy(sync[s].subs, sync[s].single)]
<1>1. /\ sync[s] \in SyncRow /\ sync[s].pc = "fetch" /\ Running(s)
      /\ sync[s].fetched = {"subscriptions", "invoices"}
      /\ UNCHANGED <<payment, link, customer, settled, disturbed, purchase>>
  BY DEF ReadProducts, Typed, Running, provider, local
<1>2. /\ row.pc = "next" /\ row.fetched = sync[s].fetched
      /\ row.single = sync[s].single /\ row.subs = sync[s].subs /\ row.customer = sync[s].customer
      /\ row.todo = ToCopy(sync[s].subs, sync[s].single)
  BY <1>1 DEF SyncRow
<1>3. sync' = [sync EXCEPT ![s] = row]
  BY DEF ReadProducts
<1>4. sync'[s] = row
  BY <1>3 DEF Typed
<1>. HIDE DEF row
<1>5. Fresh(s) => UpToDate(s)'
  <2>. SUFFICES ASSUME Fresh(s) PROVE UpToDate(s)'
    OBVIOUS
  <2>1. sync[s].subs = SubsNow /\ sync[s].single = BillsNow
    BY <1>1 DEF CopyInv, UpToDate
  <2>2. row.todo = ItemsNow
    BY <1>2, <2>1 DEF ItemsNow
  <2>3. sync[s].customer = customer /\ customer # 0
    BY <1>1 DEF CopyInv, UpToDate
  <2>. QED
    BY <1>1, <1>2, <1>4, <2>1, <2>2, <2>3, NowKept DEF UpToDate
<1>. QED
  BY <1>1, <1>2, <1>3, <1>5, QuietKept DEF Filing

\* A row that is found under one of an item's names is a row of its payment.
LEMMA FoundStands ==
    ASSUME Typed, NEW x \in Items, NEW k \in Found(x)
    PROVE  k \in DOMAIN purchase /\ Stands(purchase[k], x.ref.of)
<1>1. k \in DOMAIN purchase /\ (purchase[k].ref = x.ref \/ purchase[k].ref = x.also)
  BY DEF Found
<1>2. purchase[k].ref \in Refs
  <2>1. purchase[k] \in PurchaseRows
    BY <1>1, ElementOfSeq, LenProperties DEF Typed
  <2>. QED
    BY <2>1 DEF PurchaseRows
<1>3. purchase[k].ref # Nil
  BY <1>2, BillingAssumption
<1>. QED
  BY <1>1, <1>3 DEF Items, Stands

LEMMA LookupKept ==
    ASSUME Typed, CopyInv, NEW s \in Syncs, Lookup(s)
    PROVE  CopyInv'
<1>1. PICK x \in sync[s].todo : \E k \in IF Found(x) = {} THEN {0} ELSE Found(x) :
         sync' = [sync EXCEPT ![s] = [sync[s] EXCEPT !.pc = "write", !.item = x, !.row = k,
                                                     !.todo = sync[s].todo \ {x}]]
  BY DEF Lookup
<1>2. PICK k \in IF Found(x) = {} THEN {0} ELSE Found(x) :
         sync' = [sync EXCEPT ![s] = [sync[s] EXCEPT !.pc = "write", !.item = x, !.row = k,
                                                     !.todo = sync[s].todo \ {x}]]
  BY <1>1
<1>. DEFINE row == [sync[s] EXCEPT !.pc = "write", !.item = x, !.row = k,
                                   !.todo = sync[s].todo \ {x}]
<1>3. /\ sync[s] \in SyncRow /\ sync[s].pc = "next" /\ Running(s)
      /\ UNCHANGED <<payment, link, customer, settled, disturbed, purchase>>
  BY DEF Lookup, Typed, Running, provider, local
<1>4. /\ row.pc = "write" /\ row.fetched = sync[s].fetched
      /\ row.single = sync[s].single /\ row.subs = sync[s].subs /\ row.customer = sync[s].customer
      /\ row.todo = sync[s].todo \ {x} /\ row.item = x /\ row.row = k
  BY <1>3 DEF SyncRow
<1>5. sync' = [sync EXCEPT ![s] = row]
  BY <1>2
<1>6. sync'[s] = row
  BY <1>5 DEF Typed
<1>. HIDE DEF row
<1>7. \/ row.row = 0
      \/ row.row \in DOMAIN purchase /\ Stands(purchase[row.row], row.item.ref.of)
  <2>1. x \in Items
    BY <1>1, <1>3 DEF SyncRow
  <2>. QED
    BY <1>2, <1>4, <2>1, FoundStands
<1>8. Fresh(s) => UpToDate(s)'
  <2>. SUFFICES ASSUME Fresh(s) PROVE UpToDate(s)'
    OBVIOUS
  <2>1. UpToDate(s)
    BY DEF CopyInv
  <2>2. \A y : Copied(y) => Copied(y)'
    BY <1>3 DEF Copied
  <2>3. /\ SubsNow' = SubsNow /\ BillsNow' = BillsNow
        /\ ItemsNow' = ItemsNow
    BY <1>3, NowKept
  <2>4. row.todo \subseteq ItemsNow /\ row.item \in ItemsNow
    BY <1>1, <1>3, <1>4, <2>1 DEF UpToDate
  <2>5. ASSUME NEW y \in ItemsNow
        PROVE  y \in row.todo \/ y = row.item \/ Copied(y)'
    BY <1>3, <1>4, <2>1, <2>2 DEF UpToDate
  <2>. QED
    BY <1>3, <1>4, <1>6, <2>1, <2>3, <2>4, <2>5 DEF UpToDate
<1>. QED
  BY <1>3, <1>4, <1>5, <1>7, <1>8, QuietKept DEF Filing

LEMMA WriteKept ==
    ASSUME Typed, CopyInv, NEW s \in Syncs, WritePurchase(s)
    PROVE  CopyInv'
<1>1. PICK x, k : x = sync[s].item /\ k = sync[s].row
  OBVIOUS
<1>. DEFINE row == [sync[s] EXCEPT !.pc = "next", !.item = Nil, !.row = 0]
            written == [purchase[k] EXCEPT !.status = x.status, !.ending = purchase[k].ending \/ x.ending]
<1>2. /\ sync[s] \in SyncRow /\ sync[s].pc = "write" /\ Running(s)
      /\ UNCHANGED <<payment, link, customer, settled, disturbed>>
  BY DEF WritePurchase, Typed, Running, provider
<1>3. /\ row.pc = "next" /\ row.fetched = sync[s].fetched
      /\ row.single = sync[s].single /\ row.subs = sync[s].subs /\ row.customer = sync[s].customer /\ row.todo = sync[s].todo
  BY <1>2 DEF SyncRow
<1>4. sync' = [sync EXCEPT ![s] = row]
  BY DEF WritePurchase
<1>5. sync'[s] = row
  BY <1>4 DEF Typed
<1>6. DOMAIN purchase = 1..Len(purchase) /\ Len(purchase) \in Nat
  BY LenProperties DEF Typed
<1>7. \A m \in DOMAIN purchase : purchase[m] \in PurchaseRows
  BY ElementOfSeq, <1>6 DEF Typed
<1>8. \/ /\ k = 0
         /\ purchase' = Append(purchase, [ref |-> x.ref, status |-> x.status, ending |-> x.ending])
      \/ /\ k \in DOMAIN purchase /\ Stands(purchase[k], x.ref.of)
         /\ purchase' = [purchase EXCEPT ![k] = written]
         /\ written.ref = purchase[k].ref /\ written.status = x.status
  <2>1. k = 0 \/ (k \in DOMAIN purchase /\ Stands(purchase[k], x.ref.of))
    BY <1>1, <1>2 DEF CopyInv, RowFound
  <2>2. k = 0 => purchase' = Append(purchase, [ref |-> x.ref, status |-> x.status, ending |-> x.ending])
    BY <1>1 DEF WritePurchase
  <2>3. k \in DOMAIN purchase => purchase' = [purchase EXCEPT ![k] = written]
    <3>1. k \in DOMAIN purchase => k # 0
      BY <1>6
    <3>. QED
      BY <1>1, <3>1 DEF WritePurchase
  <2>4. k \in DOMAIN purchase => written.ref = purchase[k].ref /\ written.status = x.status
    BY <1>7 DEF PurchaseRows
  <2>. QED
    BY <2>1, <2>2, <2>3, <2>4
<1>. HIDE DEF row, written
<1>9. /\ DOMAIN purchase \subseteq DOMAIN purchase'
      /\ \A m \in DOMAIN purchase :
            /\ purchase'[m].ref = purchase[m].ref
            /\ purchase'[m].status = purchase[m].status \/ (m = k /\ purchase'[m].status = x.status)
      /\ \E m \in DOMAIN purchase' : Stands(purchase'[m], x.ref.of) /\ purchase'[m].status = x.status
      /\ k # 0 => Stands(purchase[k], x.ref.of)
  <2>1. CASE k = 0
    <3>. DEFINE new == [ref |-> x.ref, status |-> x.status, ending |-> x.ending]
    <3>1. purchase' = Append(purchase, new) /\ new.ref = x.ref /\ new.status = x.status
      BY <1>6, <1>8, <2>1
    <3>. HIDE DEF new
    <3>2. /\ DOMAIN purchase' = 1..(Len(purchase) + 1)
          /\ purchase'[Len(purchase) + 1] = new
          /\ \A m \in 1..Len(purchase) : purchase'[m] = purchase[m]
      BY <1>6, <3>1 DEF Typed
    <3>. QED
      BY <1>6, <2>1, <3>1, <3>2 DEF Stands
  <2>2. CASE k # 0
    BY <1>6, <1>8, <2>2 DEF Stands
  <2>. QED
    BY <2>1, <2>2
<1>10. Copied(x)'
  BY <1>9 DEF Copied
<1>11. Fresh(s) => \A y \in ItemsNow : Copied(y) => Copied(y)'
  <2>. SUFFICES ASSUME Fresh(s), NEW y \in ItemsNow, Copied(y) PROVE Copied(y)'
    OBVIOUS
  <2>1. x \in ItemsNow
    BY <1>1, <1>2 DEF CopyInv, UpToDate
  <2>2. CASE y.ref.of = x.ref.of
    BY <2>1, <2>2, <1>10, OneItemEach
  <2>3. CASE y.ref.of # x.ref.of
    <3>1. PICK m \in DOMAIN purchase : Stands(purchase[m], y.ref.of) /\ purchase[m].status = y.status
      BY DEF Copied
    <3>2. m # k
      BY <1>6, <1>9, <2>3, <3>1 DEF Stands
    <3>. QED
      BY <1>9, <3>1, <3>2 DEF Copied, Stands
  <2>. QED
    BY <2>2, <2>3
<1>12. RefsKept
  BY <1>9 DEF RefsKept
<1>13. Fresh(s) => UpToDate(s)'
  <2>. SUFFICES ASSUME Fresh(s) PROVE UpToDate(s)'
    OBVIOUS
  <2>1. UpToDate(s)
    BY DEF CopyInv
  <2>2. /\ SubsNow' = SubsNow /\ BillsNow' = BillsNow
        /\ ItemsNow' = ItemsNow
    BY <1>2, NowKept
  <2>3. ASSUME NEW y \in ItemsNow
        PROVE  y \in row.todo \/ Copied(y)'
    BY <1>1, <1>2, <1>3, <1>10, <1>11, <2>1 DEF UpToDate
  <2>. QED
    BY <1>2, <1>3, <1>5, <2>1, <2>2, <2>3 DEF UpToDate
<1>. QED
  BY <1>2, <1>3, <1>4, <1>11, <1>12, <1>13, OthersKept DEF Filing

LEMMA BeginKept ==
    ASSUME Typed, CopyInv, NEW s \in Syncs, Background(s) \/ ForceSync(s) \/ Portal(s)
    PROVE  CopyInv'
<1>1. PICK row \in {Started, [IdleSync EXCEPT !.pc = "ensure"]} : BeginSync(s, row)
  BY DEF Background, ForceSync, Portal
<1>2. row.pc \in {"user", "ensure"} /\ row.fetched = {}
  BY DEF Started, IdleSync
<1>3. /\ sync'[s] = row /\ \A t \in Syncs \ {s} : sync'[t] = sync[t]
      /\ UNCHANGED <<payment, link, customer, purchase, settled>>
  BY <1>1 DEF BeginSync, Typed, provider
<1>4. /\ (\E t \in Syncs : Running(t)) => disturbed' = {t \in Syncs : Running(t)} \cup {s}
      /\ ~(\E t \in Syncs : Running(t)) => disturbed' = {}
  BY <1>1 DEF BeginSync
<1>5. \A t \in Syncs : Running(t)' => Running(t) \/ t = s
  BY <1>3 DEF Running
<1>6. RowFound'
  BY <1>2, <1>3 DEF CopyInv, RowFound
<1>7. Alone'
  BY <1>4, <1>5 DEF Alone
<1>8. ASSUME NEW t \in Syncs, Fresh(t)'
      PROVE  UpToDate(t)'
  <2>1. CASE t = s
    BY <1>2, <1>3, <2>1 DEF UpToDate
  <2>2. CASE t # s
    <3>1. Fresh(t)
      BY <1>3, <1>4, <1>5, <1>8, <2>2 DEF Fresh
    <3>. QED
      BY <1>3, <2>2, <3>1, NowKept DEF CopyInv, UpToDate, Copied
  <2>. QED
    BY <2>1, <2>2
<1>9. settled' => \A x \in ItemsNow' : Copied(x)'
  BY <1>3, NowKept DEF CopyInv, Copied
<1>10. settled' => customer' # 0 /\ \A t \in Syncs : ~Filing(sync[t].pc)'
  BY <1>2, <1>3 DEF CopyInv, Filing
<1>. QED
  BY <1>6, <1>7, <1>8, <1>9, <1>10 DEF CopyInv

LEMMA EndKept ==
    ASSUME Typed, CopyInv, NEW s \in Syncs, EndSync(s)
    PROVE  CopyInv'
<1>1. /\ sync[s].pc = "next" /\ sync[s].todo = {} /\ Running(s)
      /\ settled' = (s \notin disturbed) /\ disturbed' = disturbed \ {s}
      /\ sync' = [sync EXCEPT ![s] = IdleSync]
      /\ UNCHANGED <<payment, link, customer, purchase>>
  BY DEF EndSync, End, Running, provider
<1>2. sync'[s] = IdleSync /\ \A t \in Syncs \ {s} : sync'[t] = sync[t]
  BY <1>1 DEF Typed
<1>3. \A t \in Syncs : Running(t)' => Running(t) /\ t # s
  BY <1>2, IdleTyped DEF Running
<1>4. RowFound'
  BY <1>1, <1>2, IdleTyped DEF CopyInv, RowFound
<1>5. Alone'
  BY <1>1, <1>3 DEF Alone, CopyInv
<1>6. \A t \in Syncs : ~Fresh(t)'
  BY <1>1, <1>3 DEF Fresh, Alone, CopyInv
<1>7. settled' => \A x \in ItemsNow' : Copied(x)'
  <2>. SUFFICES ASSUME s \notin disturbed PROVE \A x \in ItemsNow : Copied(x)
    BY <1>1, NowKept DEF Copied
  <2>1. UpToDate(s)
    BY <1>1 DEF CopyInv, Fresh
  <2>. QED
    BY <1>1, <2>1 DEF UpToDate
<1>8. settled' => customer' # 0 /\ \A t \in Syncs : ~Filing(sync[t].pc)'
  <2>. SUFFICES ASSUME s \notin disturbed PROVE <1>8!2
    BY <1>1
  <2>1. customer' # 0
    BY <1>1 DEF CopyInv, Fresh, UpToDate
  <2>2. \A t \in Syncs \ {s} : ~Running(t)
    BY <1>1 DEF CopyInv, Alone
  <2>. QED
    BY <1>2, <2>1, <2>2, IdleTyped DEF Filing, Running
<1>. QED
  BY <1>4, <1>5, <1>6, <1>7, <1>8 DEF CopyInv

\* The rows after the browser's return: those there were, and one more.
LEMMA ReturnRows ==
    ASSUME Typed, NEW i \in Payments, Return(i)
    PROVE  /\ DOMAIN purchase = 1..Len(purchase) /\ Len(purchase) \in Nat
           /\ DOMAIN purchase' = 1..(Len(purchase) + 1)
           /\ purchase'[Len(purchase) + 1].ref = RefOfReturn(i)
           /\ \A k \in DOMAIN purchase : purchase'[k].ref = purchase[k].ref
<1>. DEFINE recurring == payment[i].kind = "subscription"
            ended == [k \in DOMAIN purchase |->
                         IF recurring /\ purchase[k].status = "active"
                         THEN [purchase[k] EXCEPT !.status = "cancelled", !.ending = TRUE]
                         ELSE purchase[k]]
            row == Local(RefOfReturn(i), IF recurring THEN "active" ELSE "completed")
<1>1. DOMAIN purchase = 1..Len(purchase) /\ Len(purchase) \in Nat
  BY LenProperties DEF Typed
<1>2. \A k \in DOMAIN purchase : purchase[k] \in PurchaseRows
  BY ElementOfSeq, <1>1 DEF Typed
<1>3. \A k \in DOMAIN purchase : ended[k].ref = purchase[k].ref
  BY <1>2 DEF PurchaseRows
<1>4. \A k \in DOMAIN purchase : ended[k] \in PurchaseRows
  BY <1>2, RowChanged DEF LocalStatus
<1>5. ended \in [1..Len(purchase) -> PurchaseRows]
  BY <1>1, <1>4
<1>6. row.ref = RefOfReturn(i)
  BY DEF Local
<1>7. purchase' = Append(ended, row)
  BY DEF Return
<1>. HIDE DEF ended, row
<1>8. ended \in Seq(PurchaseRows)
  BY <1>1, <1>5, SeqDef
<1>9. Len(ended) = Len(purchase)
  BY <1>1, <1>5, <1>8, LenProperties
<1>10. /\ DOMAIN purchase' = 1..(Len(purchase) + 1)
       /\ purchase'[Len(purchase) + 1] = row
       /\ \A k \in 1..Len(purchase) : purchase'[k] = ended[k]
  BY <1>1, <1>7, <1>8, <1>9
<1>. QED
  BY <1>1, <1>3, <1>6, <1>10

LEMMA HappensRefs ==
    ASSUME Typed, Happens
    PROVE  RefsKept
<1>1. ASSUME NEW i \in Payments, Return(i)
      PROVE  RefsKept
  BY <1>1, ReturnRows DEF RefsKept
<1>2. ASSUME NEW k \in DOMAIN purchase, CancelHere(k)
      PROVE  RefsKept
  <2>1. purchase[k] \in PurchaseRows
    BY ElementOfSeq, LenProperties DEF Typed
  <2>2. [purchase[k] EXCEPT !.status = "cancelled", !.ending = TRUE].ref = purchase[k].ref
    BY <2>1 DEF PurchaseRows
  <2>. QED
    BY <1>2, <2>2 DEF CancelHere, RefsKept
<1>3. UNCHANGED purchase => RefsKept
  BY DEF RefsKept
<1>. QED
  BY <1>1, <1>2, <1>3 DEF Happens, Pay, Change, LinkProduct

LEMMA HappensKept ==
    ASSUME Typed, CopyInv, Happens
    PROVE  CopyInv'
<1>1. settled' = FALSE /\ disturbed' = {s \in Syncs : Running(s)} /\ sync' = sync
  BY DEF Happens, Pay, Return, Change, CancelHere, LinkProduct, Event
<1>2. RowFound'
  BY <1>1, HappensRefs DEF RefsKept, RowFound, CopyInv, Stands
<1>. QED
  BY <1>1, <1>2 DEF CopyInv, Alone, Fresh, Running

LEMMA CopyInvNext == ASSUME Typed, CopyInv, [Next]_vars PROVE CopyInv'
<1>1. CASE Tick \/ UNCHANGED vars
  <2>1. UNCHANGED <<payment, link, customer, purchase, sync, settled, disturbed>>
    BY <1>1 DEF Tick, vars, provider, local, history
  <2>. QED
    BY <2>1, NowKept DEF CopyInv, RowFound, Alone, Running, Fresh, UpToDate, Copied, Filing
<1>2. ASSUME NEW s \in Syncs, SyncStep(s) \/ PortalStep(s)
      PROVE  CopyInv'
  BY <1>2, RequestKept, ReadUserKept, StoreKept, BeginKept, FetchKept, ReadProductsKept, LookupKept,
     WriteKept, EndKept DEF SyncStep, PortalStep
<1>. QED
  BY <1>1, <1>2, HappensKept DEF Next

-----------------------------------------------------------------------------
(* One row for a payment *)

\* What happens at the provider makes no payment another, and lists none again
\* that newer ones have pushed off the list.
LEMMA HappensPayments ==
    ASSUME Typed, Happens, NEW i \in Payments, Made(i)
    PROVE  /\ Made(i)' /\ payment'[i].kind = payment[i].kind
           /\ i \in Listed' => i \in Listed
<1>. DEFINE Same(j) == payment'[j].kind = payment[j].kind /\ payment'[j].customer = payment[j].customer
<1>1. /\ \A j \in Payments : Made(j) => Same(j)
      /\ Made(i)'
  <2>1. ASSUME NEW k \in Payments, NEW kind \in {"subscription", "single"}, NEW p \in Products, NEW c \in Payers(kind),
               Pay(k, kind, p, c)
        PROVE  \A j \in Payments : Made(j) => payment'[j] = payment[j]
    BY <2>1 DEF Pay, Typed
  <2>2. ASSUME NEW k \in Payments, Return(k)
        PROVE  \A j \in Payments : Same(j)
    BY <2>2 DEF Return, Typed, PaymentRow
  <2>3. ASSUME NEW k \in Payments, NEW st \in ProviderStatus, NEW e \in BOOLEAN, Change(k, st, e)
        PROVE  \A j \in Payments : Same(j)
    BY <2>3 DEF Change, Typed, PaymentRow
  <2>4. ASSUME \/ \E k \in DOMAIN purchase : CancelHere(k)
               \/ \E p \in Products : LinkProduct(p)
        PROVE  payment' = payment
    BY <2>4 DEF CancelHere, LinkProduct, provider
  <2>5. \A j \in Payments : Made(j) => Same(j)
    BY <2>1, <2>2, <2>3, <2>4 DEF Happens, ProviderStatus
  <2>. QED
    BY <2>5 DEF Made
<1>2. Subscriptions \subseteq Subscriptions'
  BY <1>1 DEF Subscriptions, Made
<1>3. ASSUME i \in Listed'
      PROVE  i \in Listed
  <2>1. IsFiniteSet(Newer(i)') /\ Newer(i) \subseteq Newer(i)'
    <3>1. Newer(i)' \subseteq Payments
      BY DEF Newer, Subscriptions
    <3>2. Newer(i) \subseteq Newer(i)'
      BY <1>1, <1>2 DEF Newer, Subscriptions, Made
    <3>. QED
      BY <3>1, <3>2, FS_Subset, BillingAssumption
  <2>2. /\ Cardinality(Newer(i)) \in Nat /\ Cardinality(Newer(i)') \in Nat
        /\ Cardinality(Newer(i)) <= Cardinality(Newer(i)')
    BY <2>1, FS_Subset, FS_CardinalityType
  <2>3. Cardinality(Newer(i)') < ListLimit /\ i \in Subscriptions'
    BY <1>3 DEF Listed
  <2>4. i \in Subscriptions
    BY <1>1, <2>3 DEF Subscriptions
  <2>5. Cardinality(Newer(i)) < ListLimit
    BY <2>2, <2>3, BillingAssumption
  <2>. QED
    BY <2>4, <2>5 DEF Listed
<1>. QED
  BY <1>1, <1>3

LEMMA FitsKept ==
    ASSUME Typed, Happens, NEW ref \in Refs, Fits(ref)
    PROVE  Fits(ref)' /\ (Claimable(ref.of)' => Claimable(ref.of))
<1>1. ref.of \in Payments
  BY DEF Refs
<1>. QED
  BY <1>1, HappensPayments DEF Fits, Claimable

\* The names of rows.
LEMMA RowRefs ==
    ASSUME Typed
    PROVE  /\ \A k \in DOMAIN purchase : purchase[k].ref \in Refs
           /\ DOMAIN purchase = 1..Len(purchase) /\ Len(purchase) \in Nat
<1>1. \A k \in DOMAIN purchase : purchase[k] \in PurchaseRows
  BY ElementOfSeq, LenProperties DEF Typed
<1>. QED
  BY <1>1, LenProperties DEF PurchaseRows, Typed

LEMMA HappensOneRow ==
    ASSUME Typed, OneRowInv, Happens
    PROVE  OneRowInv'
<1>. SUFFICES ASSUME ~mixed'
              PROVE  OneRowInv'
  BY DEF OneRowInv
<1>1. /\ ~mixed /\ disturbed' = {} /\ sync' = sync
      /\ \A s \in Syncs : ~Running(s)
  BY Zenon DEF Happens, Pay, Return, Change, CancelHere, LinkProduct, Event
<1>2. \A ref \in Refs : Fits(ref) => Fits(ref)' /\ (Claimable(ref.of)' => Claimable(ref.of))
  BY FitsKept
<1>3. \A s \in Syncs : sync'[s].pc # "write"
  BY <1>1 DEF Running
<1>4. /\ \A k \in DOMAIN purchase : Fits(purchase[k].ref) /\ purchase[k].ref \in Refs
      /\ \A k, m \in DOMAIN purchase :
            /\ purchase[k].ref.of = purchase[m].ref.of
            /\ Claimable(purchase[k].ref.of)
            => k = m
  BY <1>1, RowRefs DEF OneRowInv
<1>5. CASE DOMAIN purchase' = DOMAIN purchase /\ \A k \in DOMAIN purchase : purchase'[k].ref = purchase[k].ref
  BY <1>1, <1>2, <1>3, <1>4, <1>5 DEF OneRowInv, Fits, Claimable, Made
<1>6. ASSUME NEW i \in Payments, Return(i)
      PROVE  OneRowInv'
  <2>. DEFINE n == Len(purchase) + 1
  <2>1. \A k \in DOMAIN purchase : purchase[k].ref.of # i
    BY <1>1, <1>6, Zenon DEF Return, Event, Stands
  <2>2. /\ Made(i)' /\ RefOfReturn(i).of = i
        /\ (payment'[i].kind = "single" => RefOfReturn(i).kind \in {"invoice", "intent"})
        /\ (i \in Listed' => RefOfReturn(i).kind = "subscription")
    <3>1. Made(i)
      BY <1>6 DEF Return
    <3>2. Made(i)' /\ payment'[i].kind = payment[i].kind /\ (i \in Listed' => i \in Listed)
      BY <1>6, <3>1, HappensPayments DEF Happens
    <3>. QED
      BY <3>2, ListedAre DEF RefOfReturn, Ref
  <2>3. /\ DOMAIN purchase' = 1..n /\ DOMAIN purchase = 1..(n - 1) /\ n \in Nat \ {0}
        /\ purchase'[n].ref = RefOfReturn(i)
        /\ \A k \in DOMAIN purchase : purchase'[k].ref = purchase[k].ref
    BY <1>6, ReturnRows
  <2>. HIDE DEF n
  <2>4. \A k \in DOMAIN purchase' : k = n \/ k \in DOMAIN purchase
    BY <2>3
  <2>5. \A k \in DOMAIN purchase' : Fits(purchase[k].ref)'
    BY <1>2, <1>4, <2>2, <2>3, <2>4 DEF Fits, Made
  <2>6. \A k, m \in DOMAIN purchase' :
            /\ purchase'[k].ref.of = purchase'[m].ref.of
            /\ Claimable(purchase[k].ref.of)'
            => k = m
    BY <1>2, <1>4, <2>1, <2>2, <2>3, <2>4 DEF Claimable
  <2>. QED
    BY <1>1, <1>3, <2>5, <2>6 DEF OneRowInv
<1>7. ASSUME NEW k \in DOMAIN purchase, CancelHere(k)
      PROVE  OneRowInv'
  <2>1. [purchase[k] EXCEPT !.status = "cancelled", !.ending = TRUE].ref = purchase[k].ref
    <3>1. purchase[k] \in PurchaseRows
      BY ElementOfSeq, LenProperties DEF Typed
    <3>. QED
      BY <3>1 DEF PurchaseRows
  <2>2. DOMAIN purchase' = DOMAIN purchase /\ \A m \in DOMAIN purchase : purchase'[m].ref = purchase[m].ref
    BY <1>7, <2>1 DEF CancelHere
  <2>. QED
    BY <1>5, <2>2
<1>. QED
  BY <1>5, <1>6, <1>7 DEF Happens, Pay, Change, LinkProduct

\* A step of a sync that writes nothing and is not about to write.
LEMMA SlotOneRow ==
    ASSUME Typed, OneRowInv, NEW s \in Syncs, UNCHANGED <<payment, purchase>>,
           \A t \in Syncs \ {s} : sync'[t] = sync[t], sync'[s].pc # "write",
           ~mixed' => ~mixed /\ disturbed' = {}
    PROVE  OneRowInv'
<1>1. Listed' = Listed
  BY DEF Listed, Subscriptions, Newer
<1>. QED
  BY <1>1 DEF OneRowInv, Fits, Claimable, Made

LEMMA StepOneRow ==
    ASSUME Typed, OneRowInv, NEW s \in Syncs,
           SyncStep(s) \/ PortalStep(s), ~Lookup(s), ~WritePurchase(s)
    PROVE  OneRowInv'
<1>1. sync[s] \in SyncRow /\ sync \in [Syncs -> SyncRow]
  BY DEF Typed
<1>2. CASE Background(s) \/ ForceSync(s) \/ Portal(s)
  <2>1. PICK row \in {Started, [IdleSync EXCEPT !.pc = "ensure"]} : BeginSync(s, row)
    BY <1>2 DEF Background, ForceSync, Portal
  <2>2. row.pc # "write"
    BY DEF Started, IdleSync
  <2>3. ~mixed' => ~mixed /\ disturbed' = {}
    BY <2>1, Zenon DEF BeginSync
  <2>. QED
    BY <1>1, <2>1, <2>2, <2>3, SlotOneRow DEF BeginSync, provider
<1>3. CASE Fail(s) \/ ReadUser(s) \/ Ensure(s) \/ Search(s) \/ CreateCustomer(s) \/ StoreCustomer(s)
  <2>1. \/ End(s)
        \/ \E pc \in {"search", "create"} : Step(s, pc)
        \/ \E pc \in {"fetch", "store"} : \E c :
              sync' = [sync EXCEPT ![s] = [sync[s] EXCEPT !.pc = pc, !.customer = c]]
    BY <1>3 DEF Fail, ReadUser, Ensure, Search, CreateCustomer, StoreCustomer
  <2>2. sync'[s].pc # "write" /\ \A t \in Syncs \ {s} : sync'[t] = sync[t]
    <3>2. \A pc : [sync[s] EXCEPT !.pc = pc].pc = pc
      BY <1>1 DEF SyncRow
    <3>3. \A pc, c : [sync[s] EXCEPT !.pc = pc, !.customer = c].pc = pc
      BY <1>1 DEF SyncRow
    <3>4. CASE End(s)
      BY <1>1, <3>4, IdleTyped DEF End
    <3>5. ASSUME NEW pc \in {"search", "create"}, Step(s, pc)
          PROVE  <2>2!:
      BY <1>1, <3>2, <3>5 DEF Step
    <3>6. ASSUME NEW pc \in {"fetch", "store"}, NEW c,
                 sync' = [sync EXCEPT ![s] = [sync[s] EXCEPT !.pc = pc, !.customer = c]]
          PROVE  <2>2!:
      BY <1>1, <3>3, <3>6
    <3>. QED
      BY <2>1, <3>4, <3>5, <3>6
  <2>3. UNCHANGED <<payment, purchase, mixed, disturbed>>
    BY <1>3 DEF Fail, ReadUser, Ensure, Search, CreateCustomer, StoreCustomer, provider, local, Quietly
  <2>. QED
    BY <2>2, <2>3, SlotOneRow DEF OneRowInv
<1>4. CASE FetchSubscriptions(s)
  BY <1>1, <1>4, SlotOneRow DEF FetchSubscriptions, provider, local, Quietly, SyncRow, OneRowInv
<1>5. CASE FetchInvoices(s)
  BY <1>1, <1>5, SlotOneRow DEF FetchInvoices, provider, local, Quietly, SyncRow, OneRowInv
<1>6. CASE ReadProducts(s)
  BY <1>1, <1>6, SlotOneRow DEF ReadProducts, provider, local, Quietly, SyncRow, OneRowInv
<1>7. CASE EndSync(s)
  BY <1>1, <1>7, IdleTyped, SlotOneRow DEF EndSync, End, provider, Quietly, OneRowInv
<1>. QED
  BY <1>2, <1>3, <1>4, <1>5, <1>6, <1>7 DEF SyncStep, PortalStep

\* The names of the item of a payment that is to have one purchase.
LEMMA ItemNames ==
    ASSUME NEW x \in ItemsNow, Typed
    PROVE  /\ x.ref.of \in Payments /\ Fits(x.ref)
           /\ x.ref.of \in Listed => x.ref = Ref("subscription", x.ref.of)
           /\ payment[x.ref.of].kind = "single" =>
                 x.ref = Ref("invoice", x.ref.of) /\ x.also = Ref("intent", x.ref.of)
<1>1. PICK i \in Payments : Made(i) /\ x = ItemOf(i)
  BY ItemsAre DEF Synced
<1>2. x.ref.of = i
  BY <1>1, ItemFields
<1>3. i \in Listed => payment[i].kind # "single"
  BY ListedAre
<1>4. CASE i \in Listed
  BY <1>1, <1>2, <1>3, <1>4, ItemFields DEF Fits, Ref
<1>5. CASE i \notin Listed
  BY <1>1, <1>2, <1>5, ItemFields DEF Fits, Ref
<1>. QED
  BY <1>4, <1>5

LEMMA LookupOneRow ==
    ASSUME Typed, CopyInv, OneRowInv, NEW s \in Syncs, Lookup(s)
    PROVE  OneRowInv'
<1>. SUFFICES ASSUME ~mixed'
              PROVE  OneRowInv'
  BY DEF OneRowInv
<1>1. /\ UNCHANGED <<payment, purchase, mixed, disturbed>> /\ ~mixed /\ Running(s)
      /\ sync[s] \in SyncRow /\ sync[s].pc = "next"
  BY DEF Lookup, provider, local, Quietly, Running, Typed
<1>2. PICK x \in sync[s].todo : \E k \in IF Found(x) = {} THEN {0} ELSE Found(x) :
         sync' = [sync EXCEPT ![s] = [sync[s] EXCEPT !.pc = "write", !.item = x, !.row = k,
                                                     !.todo = sync[s].todo \ {x}]]
  BY DEF Lookup
<1>3. PICK k \in IF Found(x) = {} THEN {0} ELSE Found(x) :
         sync' = [sync EXCEPT ![s] = [sync[s] EXCEPT !.pc = "write", !.item = x, !.row = k,
                                                     !.todo = sync[s].todo \ {x}]]
  BY <1>2
<1>4. /\ sync'[s].item = x /\ sync'[s].row = k
      /\ \A t \in Syncs \ {s} : sync'[t] = sync[t]
  <2>. DEFINE row == [sync[s] EXCEPT !.pc = "write", !.item = x, !.row = k,
                                     !.todo = sync[s].todo \ {x}]
  <2>1. row.item = x /\ row.row = k
    BY <1>1 DEF SyncRow
  <2>2. sync' = [sync EXCEPT ![s] = row]
    BY <1>3
  <2>. HIDE DEF row
  <2>. QED
    BY <2>1, <2>2 DEF Typed
<1>5. x \in ItemsNow
  BY <1>1, <1>2 DEF CopyInv, OneRowInv, Fresh, UpToDate
<1>6. ASSUME k = 0, Claimable(x.ref.of), NEW m \in DOMAIN purchase, purchase[m].ref.of = x.ref.of
      PROVE  FALSE
  <2>1. Found(x) = {}
    <3>1. 0 \notin Found(x)
      BY RowRefs DEF Found
    <3>. QED
      BY <1>3, <1>6, <3>1
  <2>2. purchase[m].ref # x.ref /\ purchase[m].ref # x.also
    BY <2>1 DEF Found
  <2>3. purchase[m].ref = Ref(purchase[m].ref.kind, x.ref.of)
    BY <1>6, RowRefs DEF Refs, Ref
  <2>4. Fits(purchase[m].ref)
    BY <1>1 DEF OneRowInv
  <2>5. CASE x.ref.of \in Listed
    BY <1>5, <1>6, <2>2, <2>3, <2>4, <2>5, ItemNames DEF Fits
  <2>6. CASE payment[x.ref.of].kind = "single"
    BY <1>5, <1>6, <2>2, <2>3, <2>4, <2>6, ItemNames DEF Fits
  <2>. QED
    BY <1>6, <2>5, <2>6 DEF Claimable
<1>7. Listed' = Listed
  BY <1>1 DEF Listed, Subscriptions, Newer
<1>. QED
  BY <1>1, <1>4, <1>6, <1>7 DEF OneRowInv, Fits, Claimable, Made

LEMMA WriteOneRow ==
    ASSUME Typed, CopyInv, OneRowInv, NEW s \in Syncs, WritePurchase(s)
    PROVE  OneRowInv'
<1>. SUFFICES ASSUME ~mixed'
              PROVE  OneRowInv'
  BY DEF OneRowInv
<1>1. /\ UNCHANGED <<payment, mixed, disturbed>> /\ ~mixed /\ Running(s)
      /\ sync[s] \in SyncRow /\ sync[s].pc = "write" /\ disturbed = {}
  BY DEF WritePurchase, provider, Quietly, Running, Typed, OneRowInv
<1>2. \A t \in Syncs : sync'[t].pc # "write"
  <2>1. \A t \in Syncs \ {s} : ~Running(t)
    BY <1>1 DEF CopyInv, Alone
  <2>2. [sync[s] EXCEPT !.pc = "next", !.item = Nil, !.row = 0].pc = "next"
    BY <1>1 DEF SyncRow
  <2>3. sync' = [sync EXCEPT ![s] = [sync[s] EXCEPT !.pc = "next", !.item = Nil, !.row = 0]]
    BY DEF WritePurchase
  <2>. QED
    BY <2>1, <2>2, <2>3 DEF Running, Typed
<1>3. PICK x, k : x = sync[s].item /\ k = sync[s].row
  OBVIOUS
<1>4. x \in ItemsNow
  BY <1>1, <1>3 DEF CopyInv, Fresh, UpToDate
<1>5. Listed' = Listed
  BY <1>1 DEF Listed, Subscriptions, Newer
<1>6. /\ \A m \in DOMAIN purchase : Fits(purchase[m].ref)
      /\ \A m, n \in DOMAIN purchase :
            /\ purchase[m].ref.of = purchase[n].ref.of
            /\ Claimable(purchase[m].ref.of)
            => m = n
      /\ k = 0 /\ Claimable(x.ref.of) => \A m \in DOMAIN purchase : purchase[m].ref.of # x.ref.of
  BY <1>1, <1>3 DEF OneRowInv
<1>7. CASE k # 0
  <2>1. k \in DOMAIN purchase
    BY <1>1, <1>3, <1>7 DEF CopyInv, RowFound
  <2>. DEFINE written == [purchase[k] EXCEPT !.status = x.status, !.ending = purchase[k].ending \/ x.ending]
  <2>2. purchase' = [purchase EXCEPT ![k] = written]
    BY <1>3, <1>7 DEF WritePurchase
  <2>3. written.ref = purchase[k].ref
    <3>1. purchase[k] \in PurchaseRows
      BY <2>1, ElementOfSeq, LenProperties DEF Typed
    <3>. QED
      BY <3>1 DEF PurchaseRows
  <2>. HIDE DEF written
  <2>4. DOMAIN purchase' = DOMAIN purchase /\ \A m \in DOMAIN purchase : purchase'[m].ref = purchase[m].ref
    BY <2>2, <2>3
  <2>. QED
    BY <1>1, <1>2, <1>5, <1>6, <2>4 DEF OneRowInv, Fits, Claimable, Made
<1>8. CASE k = 0
  <2>. DEFINE new == [ref |-> x.ref, status |-> x.status, ending |-> x.ending]
              n == Len(purchase) + 1
  <2>1. purchase' = Append(purchase, new) /\ new.ref = x.ref
    BY <1>3, <1>8 DEF WritePurchase
  <2>. HIDE DEF new
  <2>2. /\ DOMAIN purchase' = 1..n /\ n \in Nat \ {0} /\ DOMAIN purchase = 1..(n - 1)
        /\ purchase'[n] = new /\ \A m \in DOMAIN purchase : purchase'[m] = purchase[m]
    BY <2>1, RowRefs DEF Typed
  <2>. HIDE DEF n
  <2>3. \A m \in DOMAIN purchase' : m = n \/ m \in DOMAIN purchase
    BY <2>2
  <2>4. Fits(x.ref)
    BY <1>4, ItemNames
  <2>5. \A m \in DOMAIN purchase' : Fits(purchase[m].ref)'
    BY <1>1, <1>5, <1>6, <2>1, <2>2, <2>3, <2>4 DEF Fits, Made
  <2>6. \A m, o \in DOMAIN purchase' :
            /\ purchase'[m].ref.of = purchase'[o].ref.of
            /\ Claimable(purchase[m].ref.of)'
            => m = o
    BY <1>1, <1>5, <1>6, <1>8, <2>1, <2>2, <2>3 DEF Claimable
  <2>. QED
    BY <1>1, <1>2, <2>5, <2>6 DEF OneRowInv
<1>. QED
  BY <1>7, <1>8

LEMMA OneRowInvNext == ASSUME Typed, CopyInv, OneRowInv, [Next]_vars PROVE OneRowInv'
<1>1. CASE Tick \/ UNCHANGED vars
  <2>1. UNCHANGED <<payment, purchase, sync, mixed, disturbed>>
    BY <1>1 DEF Tick, vars, provider, local, history
  <2>2. Listed' = Listed
    BY <2>1 DEF Listed, Subscriptions, Newer
  <2>. QED
    BY <2>1, <2>2 DEF OneRowInv, Fits, Claimable, Made
<1>. QED
  BY <1>1, HappensOneRow, StepOneRow, LookupOneRow, WriteOneRow DEF Next

\* After a sync that nothing disturbed, the shop shows what the provider says of
\* the customer on file, and no payment has two purchases as long as nothing
\* happened during a sync, for any number of payments, customers, syncs and
\* events (billing-service.ts:108-192, 270-298).
THEOREM SyncConvergesHolds == Spec => []SyncConverges
<1>1. Init => CopyInv /\ OneRowInv
  BY DEF Init, CopyInv, RowFound, Alone, Running, Fresh, IdleSync, OneRowInv
<1>2. ASSUME Typed, CopyInv, OneRowInv
      PROVE  SyncConverges
  <2>. SUFFICES ASSUME NEW i \in Payments, Made(i), payment[i].kind = "single" \/ i \in Listed
                PROVE  /\ settled /\ payment[i].customer = customer /\ link[payment[i].product] =>
                              \E k \in RowsOf(i) :
                                  purchase[k].status = IF payment[i].kind = "single" THEN "completed"
                                                       ELSE MapStatus[payment[i].status]
                       /\ ~mixed => Cardinality(RowsOf(i)) <= 1
    BY DEF SyncConverges
  <2>1. ASSUME settled, payment[i].customer = customer, link[payment[i].product]
        PROVE  \E k \in RowsOf(i) :
                  purchase[k].status = IF payment[i].kind = "single" THEN "completed"
                                       ELSE MapStatus[payment[i].status]
    <3>1. ItemOf(i) \in ItemsNow
      BY <2>1, ItemsAre DEF Synced
    <3>2. PICK k \in DOMAIN purchase : Stands(purchase[k], i) /\ purchase[k].status = ItemOf(i).status
      BY <1>2, <2>1, <3>1, ItemFields DEF CopyInv, Copied
    <3>3. ItemOf(i).status = IF payment[i].kind = "single" THEN "completed" ELSE MapStatus[payment[i].status]
      BY ListedAre, ItemFields
    <3>. QED
      BY <3>2, <3>3 DEF RowsOf
  <2>2. ASSUME ~mixed
        PROVE  Cardinality(RowsOf(i)) <= 1
    <3>1. \A k, m \in RowsOf(i) : k = m
      BY <1>2, <2>2 DEF OneRowInv, RowsOf, Stands, Claimable
    <3>2. RowsOf(i) = {} \/ \E k : RowsOf(i) = {k}
      BY <3>1
    <3>. QED
      BY <3>2, FS_EmptySet, FS_Singleton
  <2>. QED
    BY <2>1, <2>2
<1>. QED
  BY TypedInit, TypedNext, CopyInvNext, OneRowInvNext, <1>1, <1>2, PTL DEF Spec

=============================================================================
