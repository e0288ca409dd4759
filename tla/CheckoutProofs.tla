---------------------------- MODULE CheckoutProofs ----------------------------
(***************************************************************************)
(* Theorems about Checkout, for every catalogue, every cart, every number  *)
(* of users, sessions and requests, and every bound:                       *)
(*   - a paid session is known to the shop (PaidSessionIsStored);          *)
(*   - what was paid for goes to the buyer's account, a member of the      *)
(*     tenant, which has the provider's customer on file                   *)
(*     (FulfilledToMember, FulfilledHasCustomer);                          *)
(*   - a completed session was delivered in full (CompletedIsFulfilled);   *)
(*   - checkoutService implements the at-least-once promise of Fulfilment. *)
(***************************************************************************)
EXTENDS Checkout, PurchaseProofs, FiniteSetTheorems

-----------------------------------------------------------------------------
(* The inductive invariant *)

\* createSession, by its awaited calls, and verifySession by its own: before it
\* knows that the session is paid, while it looks for the buyer's account, and
\* while it buys.
Ordering == {"checkBuyer", "readProducts", "findCustomer", "createCustomer",
             "saveCustomer", "openSession"}
Opening == {"storeSession", "offer"}
Creating == Ordering \cup Opening
Asking == {"readSession", "checkPaid"}
Identifying == {"checkMember", "findUser", "checkGuest", "createUser",
                "provision", "attach"}
Buying == {"items", "await", "complete"}

WorkSteps == Creating \cup Asking \cup Identifying \cup Buying
                \cup {"idle", "returned", "threw"}

Buyers == Users \cup {None}
Customers == Users \cup Sessions \cup {None}

WorkRecord == [pc : WorkSteps, session : Sessions \cup {None}, user : Buyers,
               customer : Customers, todo : SUBSET Products, item : Nat]

SessionRecord == [row : {"none", "pending", "completed"},
                  payment : {"none", "open", "offered", "paid"},
                  user : Buyers, payer : Buyers, customer : Customers]

Typed ==
    /\ TypeInv
    /\ work \in [Requests -> WorkRecord]
    /\ session \in [Sessions -> SessionRecord]
    /\ accounts \subseteq Users
    /\ members \subseteq Users \ (Foreign \cup Suspended)
    /\ customer \in [Users -> Customers]

\* What the rows and the provider's answer say of a session fit together.
SessionSound(s) ==
    LET x == session[s]
    IN /\ x.payment # "none" => Cart[s] # <<>>
       /\ x.payment \in {"offered", "paid"} => x.row # "none"
       /\ x.row = "completed" => x.payment = "paid"
       /\ x.payment = "paid" =>
             x.payer \in Users /\ x.user \in {x.payer, None}

\* createSession has its session to itself until the answer leaves, and keeps
\* track of the customer it found or made.
OrderSound(r) ==
    LET w == work[r]
    IN /\ w.pc \in Creating =>
             /\ Cart[w.session] # <<>>
             /\ \A q \in Requests \ {r} : work[q].session # w.session
       /\ w.pc \in Ordering => session[w.session].payment = "none"
       /\ w.pc \in Opening => session[w.session].payment = "open"
       /\ w.pc = "offer" => session[w.session].row # "none"
       /\ w.pc \in {"checkBuyer", "findCustomer", "createCustomer",
                    "saveCustomer"} => w.user \in Users
       /\ w.pc = "saveCustomer" => w.customer # None

\* verifySession knows the buyer of the session, and buys for nobody else; the
\* buyer is a member, and has a customer if the session has one.
BuyerSound(r) ==
    LET w == work[r]
        x == session[work[r].session]
    IN /\ w.pc \in Identifying \cup Buying => x.payment = "paid"
       /\ w.pc \in {"checkGuest", "createUser", "provision", "attach"}
                      \cup Buying => w.user = x.payer
       /\ w.pc \in {"attach"} \cup Buying => w.user \in members
       /\ w.pc \in Identifying => w.customer = x.customer
       /\ w.pc \in Buying /\ x.customer # None => customer[w.user] # None

\* The loop is at an item of the cart, or past the last.
LoopSound(r) ==
    LET w == work[r]
    IN /\ w.pc \in Asking \cup Identifying => w.item = 1
       /\ w.pc \in Asking \cup Identifying => Cart[w.session] # <<>>
       /\ w.pc \in {"items", "await"} => w.item \in Items(w.session)
       /\ w.pc = "complete" => w.item = Len(Cart[w.session]) + 1

CreateSteps == {"findProduct", "findSubscription", "revokeOld", "cancelAll",
                "insert", "grantRevoke", "grantCreate", "returned", "threw"}

\* The slot's purchase request is the awaited create and has its arguments; no
\* other request sets a reference.
CallSound(r) ==
    LET w == work[r]
        c == call[r]
    IN /\ w.pc # "idle" => w.session \in Sessions
       /\ w.pc \notin {"idle", "await"} => c.pc = "idle"
       /\ w.pc # "await" => c.ref = None
       /\ w.pc = "await" =>
             /\ c.op = "create" /\ c.pc \in CreateSteps
             /\ c.user = w.user /\ c.ref = w.session
             /\ c.product = Cart[w.session][w.item]

WorkSound(r) ==
    /\ CallSound(r)
    /\ OrderSound(r)
    /\ BuyerSound(r)
    /\ LoopSound(r)

CheckoutInv ==
    /\ Typed
    /\ \A s \in Sessions : SessionSound(s)
    /\ \A r \in Requests : WorkSound(r)

\* A purchase made for a session is its buyer's.
SoldRight(i) ==
    LET row == purchases[i]
    IN row.ref # None =>
          /\ session[row.ref].payment = "paid"
          /\ row.user = session[row.ref].payer
          /\ row.user \in members
          /\ session[row.ref].customer # None => customer[row.user] # None

SalesInv == \A i \in PurchaseIds : SoldRight(i)

\* How many items of its cart the verification in slot r has bought so far.
Done(r) ==
    IF At(r, "await") /\ call[r].pc \in {"grantRevoke", "grantCreate", "returned"}
    THEN work[r].item
    ELSE work[r].item - 1

\* The first n items of cart s that are product p.
Ahead(s, n, p) == {k \in InCart(s, p) : k <= n}

\* A verification that goes on has bought every item it went past, whatever
\* else was bought for the session; a completed session was bought in full.
Delivers(r) ==
    work[r].pc \in Buying /\ ~(At(r, "await") /\ call[r].pc = "threw") =>
        \A p \in Products :
            Cardinality(Ahead(work[r].session, Done(r), p))
                <= HandedGoods[work[r].session][p]

Delivered(s) ==
    session[s].row = "completed" =>
        \A p \in Products : OrderedGoods[s][p] <= HandedGoods[s][p]

DeliveryInv ==
    /\ \A r \in Requests : Delivers(r)
    /\ \A s \in Sessions : Delivered(s)

-----------------------------------------------------------------------------
(* What a step of purchaseService does to the rows and to its own record *)

SoldSteps == {"grantRevoke", "grantCreate", "returned"}

\* Every purchase keeps its user, product and reference.
RowsSame ==
    /\ PurchaseIds' = PurchaseIds
    /\ \A i \in PurchaseIds : /\ purchases'[i].user = purchases[i].user
                              /\ purchases'[i].product = purchases[i].product
                              /\ purchases'[i].ref = purchases[i].ref

\* One more purchase, the one procedure c asks for.
RowSold(c) ==
    LET n == Len(purchases) + 1
    IN /\ PurchaseIds' = PurchaseIds \cup {n}
       /\ n \notin PurchaseIds
       /\ \A i \in PurchaseIds : purchases'[i] = purchases[i]
       /\ purchases'[n].user = c.user
       /\ purchases'[n].product = c.product
       /\ purchases'[n].ref = c.ref

\* A procedure keeps its arguments, and create goes through its own steps.
CallMoves(r) ==
    LET c == call[r]
        d == call'[r]
    IN /\ d.op = c.op /\ d.user = c.user /\ d.ref = c.ref
       /\ c.op = "create" /\ c.pc \in CreateSteps =>
             /\ d.product = c.product
             /\ d.pc \in CreateSteps
             /\ d.pc \in SoldSteps => c.pc \in SoldSteps \cup {"insert"}

LEMMA StatusKeepsRows ==
    ASSUME TypeOK, NEW ids, NEW s \in PurchaseStatus,
           purchases' = WithStatus(ids, s)
    PROVE  RowsSame
<1>1. \A i \in PurchaseIds : purchases[i] \in PurchaseRow
  BY RowsTyped
<1>2. \A i \in PurchaseIds : purchases'[i].ref = purchases[i].ref
  BY <1>1 DEF WithStatus, PurchaseRow
<1>. QED
  BY <1>2, StatusWrite DEF RowsSame

LEMMA InsertSells ==
    ASSUME TypeInv, NEW r \in Requests, InsertPurchase(r)
    PROVE  RowSold(call[r])
<1>1. call[r] \in CallRecord /\ call[r].user \in Users
      /\ call[r].product \in Products /\ TypeOK
  BY DEF TypeInv, TypeOK, CallTyped, InsertPurchase
<1>2. /\ NewPurchase(call[r]) \in PurchaseRow
      /\ NewPurchase(call[r]).user = call[r].user
      /\ NewPurchase(call[r]).product = call[r].product
      /\ NewPurchase(call[r]).ref = call[r].ref
  BY <1>1, NewPurchaseTyped DEF NewPurchase
<1>3. purchases' = Append(purchases, NewPurchase(call[r]))
  BY DEF InsertPurchase
<1>. QED
  BY <1>1, <1>2, <1>3, PurchaseAppended DEF RowSold

\* One awaited call: no row changes hands, and only the insert sells.
LEMMA StepMoves ==
    ASSUME TypeInv, NEW r \in Requests, Step(r) \/ Raise(r)
    PROVE  /\ \A q \in Requests \ {r} : call'[q] = call[q]
           /\ CallMoves(r)
           /\ call[r].pc \notin {"idle", "returned", "threw"}
           /\ RowsSame \/ (call[r].pc = "insert" /\ RowSold(call[r]))
           /\ call[r].pc = "insert" /\ call'[r].pc \in SoldSteps
                 => RowSold(call[r])
<1>t. TypeOK /\ call \in [Requests -> CallRecord] /\ call[r] \in CallRecord
  BY DEF TypeInv, TypeOK
<1>s. UNCHANGED purchases => RowsSame
  BY DEF RowsSame, PurchaseIds
<1>1. CASE InsertPurchase(r)
  <2>1. RowSold(call[r]) /\ call[r].pc = "insert"
    BY <1>1, InsertSells DEF InsertPurchase
  <2>2. /\ \A q \in Requests \ {r} : call'[q] = call[q]
        /\ CallMoves(r)
    BY <1>1, <1>t DEF InsertPurchase, CallMoves, CallRecord, CreateSteps, SoldSteps
  <2>. QED
    BY <2>1, <2>2
<1>2. CASE CancelAll(r) \/ ExpireBatch(r)
  <2>1. RowsSame
    BY <1>2, <1>t, StatusKeepsRows DEF CancelAll, ExpireBatch, PurchaseStatus
  <2>2. /\ \A q \in Requests \ {r} : call'[q] = call[q]
        /\ CallMoves(r)
        /\ call[r].pc \notin {"idle", "returned", "threw", "insert"}
    BY <1>2, <1>t DEF CancelAll, ExpireBatch, Goto, CallMoves, CallRecord,
                      CreateSteps, SoldSteps
  <2>. QED
    BY <2>1, <2>2
<1>3. CASE FindProduct(r) \/ FindSubscription(r) \/ RevokeOld(r) \/ FindFree(r)
  <2>1. /\ \A q \in Requests \ {r} : call'[q] = call[q]
        /\ CallMoves(r)
        /\ call[r].pc \notin {"idle", "returned", "threw", "insert"}
    BY <1>3, <1>t DEF FindProduct, FindSubscription, RevokeOld, FindFree, Goto,
                      CallMoves, CallRecord, CreateSteps, SoldSteps
  <2>. QED
    BY <2>1, <1>3, <1>s DEF FindProduct, FindSubscription, RevokeOld, FindFree,
                            tables
<1>4. CASE GrantRevoke(r) \/ GrantCreate(r) \/ RevokeMembership(r)
  <2>1. /\ \A q \in Requests \ {r} : call'[q] = call[q]
        /\ CallMoves(r)
        /\ call[r].pc \notin {"idle", "returned", "threw", "insert"}
    BY <1>4, <1>t DEF GrantRevoke, GrantCreate, RevokeMembership, Goto,
                      CallMoves, CallRecord, CreateSteps, SoldSteps
  <2>. QED
    BY <2>1, <1>4, <1>s DEF GrantRevoke, GrantCreate, RevokeMembership, tables
<1>5. CASE FindExpired(r) \/ RevokeExpired(r)
  <2>1. call[r].pc \notin {"idle", "returned", "threw", "insert"} \cup CreateSteps
    BY <1>5 DEF FindExpired, RevokeExpired, CreateSteps
  <2>2. PICK queue, ids, pc :
            call' = [call EXCEPT ![r] = [@ EXCEPT !.queue = queue, !.ids = ids,
                                                  !.pc = pc]]
    <3>1. CASE FindExpired(r)
      BY <3>1, <1>t DEF FindExpired
    <3>2. CASE RevokeExpired(r)
      <4>1. PICK i \in call[r].queue : call' = [call EXCEPT
                ![r].queue = @ \ {i},
                ![r].pc = IF call[r].queue = {i} THEN "expireBatch"
                          ELSE "revokeExpired"]
        BY <3>2 DEF RevokeExpired
      <4>2. call' = [call EXCEPT ![r] =
                [@ EXCEPT !.queue = call[r].queue \ {i}, !.ids = call[r].ids,
                          !.pc = IF call[r].queue = {i} THEN "expireBatch"
                                 ELSE "revokeExpired"]]
        BY <4>1, <1>t DEF CallRecord
      <4>. QED
        BY <4>2
    <3>. QED
      BY <1>5, <3>1, <3>2
  <2>3. /\ \A q \in Requests \ {r} : call'[q] = call[q]
        /\ CallMoves(r)
    BY <2>1, <2>2, <1>t DEF CallMoves, CallRecord
  <2>. QED
    BY <2>1, <2>3, <1>5, <1>s DEF FindExpired, RevokeExpired, tables
<1>6. CASE CountActive(r) \/ SetInactive(r) \/ UpdateProduct(r)
  <2>1. /\ \A q \in Requests \ {r} : call'[q] = call[q]
        /\ CallMoves(r)
        /\ call[r].pc \notin {"idle", "returned", "threw", "insert"}
    BY <1>6, <1>t DEF CountActive, SetInactive, UpdateProduct, Goto,
                      CallMoves, CallRecord, CreateSteps, SoldSteps
  <2>. QED
    BY <2>1, <1>6, <1>s DEF CountActive, SetInactive, UpdateProduct, tables
<1>7. CASE Raise(r)
  <2>1. /\ \A q \in Requests \ {r} : call'[q] = call[q]
        /\ CallMoves(r)
        /\ call[r].pc \notin {"idle", "returned", "threw"}
        /\ call'[r].pc \notin SoldSteps
    BY <1>7, <1>t DEF Raise, Busy, Finished, Goto,
                      CallMoves, CallRecord, CreateSteps, SoldSteps
  <2>. QED
    BY <2>1, <1>7, <1>s DEF Raise, tables
<1>. QED
  BY <1>1, <1>2, <1>3, <1>4, <1>5, <1>6, <1>7 DEF Step

\* A request of its own starts, or is answered: no row changes.
LEMMA OtherRequest ==
    ASSUME TypeInv, NEW r \in Requests, Receive(r) \/ Respond(r)
    PROVE  /\ \A q \in Requests \ {r} : call'[q] = call[q]
           /\ call'[r].ref = None
           /\ UNCHANGED tables
<1>t. call \in [Requests -> CallRecord] /\ IdleCall.ref = None
  BY DEF TypeInv, TypeOK, IdleCall
<1>1. ASSUME NEW op, NEW pc, NEW u, NEW p, NEW target,
             Begin(r, op, pc, u, p, target)
      PROVE  /\ \A q \in Requests \ {r} : call'[q] = call[q]
             /\ call'[r].ref = None
             /\ UNCHANGED tables
  <2>. DEFINE new == [IdleCall EXCEPT !.op = op, !.pc = pc, !.user = u,
                                      !.product = p, !.target = target]
  <2>1. call' = [call EXCEPT ![r] = new] /\ UNCHANGED tables
    BY <1>1 DEF Begin
  <2>2. new.ref = None
    BY DEF IdleCall
  <2>. HIDE DEF new
  <2>3. call'[r] = new /\ \A q \in Requests \ {r} : call'[q] = call[q]
    BY <2>1, <1>t
  <2>. QED
    BY <2>1, <2>2, <2>3
<1>2. CASE Respond(r)
  BY <1>2, <1>t DEF Respond
<1>. QED
  BY <1>1, <1>2 DEF Receive

-----------------------------------------------------------------------------
(* The sessions and the procedures fit together *)

\* What the procedures rely on about a session stays as it is.
SameDeal(s) ==
    /\ session'[s].payment = session[s].payment
    /\ session'[s].user = session[s].user
    /\ session'[s].payer = session[s].payer
    /\ session'[s].customer = session[s].customer
    /\ session[s].row # "none" => session'[s].row # "none"

\* Memberships and customers are given, never taken away.
PeopleKept ==
    /\ members \subseteq members'
    /\ \A u \in Users : customer[u] # None => customer'[u] # None

\* Cart s has the positions 1 to its length.
LEMMA CartPositions ==
    ASSUME NEW s \in Sessions
    PROVE  /\ Len(Cart[s]) \in Nat
           /\ Items(s) = 1..Len(Cart[s])
           /\ \A k \in Items(s) : Cart[s][k] \in Products
           /\ CartProducts(s) \subseteq Products
           /\ Cart[s] # <<>> => Len(Cart[s]) > 0
<1>1. Cart[s] \in Seq(Products)
  BY CartAssumption
<1>2. Len(Cart[s]) \in Nat /\ Items(s) = 1..Len(Cart[s])
  BY <1>1, LenProperties DEF Items
<1>3. \A k \in Items(s) : Cart[s][k] \in Products
  BY <1>1, <1>2, ElementOfSeq
<1>4. Cart[s] # <<>> => Len(Cart[s]) # 0
  BY <1>1, EmptySeq
<1>. QED
  BY <1>2, <1>3, <1>4 DEF CartProducts

\* It is enough to look at the slot that moved and at its session.
LEMMA WorkFrame ==
    ASSUME CheckoutInv, Typed', NEW r \in Requests,
           \A q \in Requests \ {r} : work'[q] = work[q] /\ call'[q] = call[q],
           PeopleKept,
           \A s \in Sessions :
              \/ SameDeal(s)
              \/ work[r].pc \in Creating /\ s = work[r].session,
           \A s \in Sessions : session'[s] = session[s] \/ SessionSound(s)',
           \/ work'[r].session \in {work[r].session, None}
           \/ \A q \in Requests \ {r} :
                 work[q].pc \in Creating => work[q].session # work'[r].session,
           WorkSound(r)'
    PROVE  CheckoutInv'
<1>1. ASSUME NEW s \in Sessions
      PROVE  SessionSound(s)'
  <2>1. SessionSound(s)
    BY DEF CheckoutInv
  <2>2. CASE session'[s] = session[s]
    BY <2>1, <2>2 DEF SessionSound
  <2>. QED
    BY <2>2
<1>2. ASSUME NEW q \in Requests, q # r
      PROVE  WorkSound(q)'
  <2>. DEFINE s == work[q].session
  <2>1. WorkSound(q) /\ WorkSound(r) /\ work'[q] = work[q] /\ call'[q] = call[q]
    BY <1>2 DEF CheckoutInv
  <2>2. work[q].pc # "idle" => s \in Sessions
    BY <2>1 DEF WorkSound, CallSound
  <2>3. work[q] \in WorkRecord
    BY DEF CheckoutInv, Typed
  <2>4. ASSUME work[q].pc # "idle" PROVE SameDeal(s)
    <3>1. ~(work[r].pc \in Creating /\ s = work[r].session)
      BY <1>2, <2>1 DEF WorkSound, OrderSound
    <3>. QED
      BY <2>2, <2>4, <3>1
  <2>5. CallSound(q)'
    BY <2>1 DEF WorkSound, CallSound
  <2>6. OrderSound(q)'
    <3>1. ASSUME work[q].pc \in Creating, NEW p \in Requests \ {q}
          PROVE  work'[p].session # s
      <4>1. work[p].session # s
        BY <2>1, <3>1 DEF WorkSound, OrderSound
      <4>2. CASE p = r
        <5>1. s # None
          BY <3>1, <2>2, CatalogueAssumption DEF Creating, Ordering, Opening, Sessions
        <5>. QED
          BY <4>1, <4>2, <5>1, <1>2, <3>1
      <4>. QED
        BY <4>1, <4>2
    <3>. QED
      BY <2>1, <2>4, <3>1
         DEF WorkSound, OrderSound, SameDeal, Creating, Ordering, Opening
  <2>7. BuyerSound(q)'
    <3>1. work[q].pc \in {"attach"} \cup Buying => work[q].user \in members
      BY <2>1 DEF WorkSound, BuyerSound
    <3>2. members \subseteq Users
      BY DEF CheckoutInv, Typed
    <3>. QED
      BY <2>1, <2>4, <3>1, <3>2
         DEF WorkSound, BuyerSound, SameDeal, PeopleKept, Identifying, Buying
  <2>8. LoopSound(q)'
    BY <2>1 DEF WorkSound, LoopSound
  <2>. QED
    BY <2>5, <2>6, <2>7, <2>8 DEF WorkSound
<1>. QED
  BY <1>1, <1>2 DEF CheckoutInv

\* The most frequent case: the slot's procedure goes on, and nothing else.
LEMMA MoveFrame ==
    ASSUME CheckoutInv, NEW r \in Requests, NEW w \in WorkRecord,
           work' = [work EXCEPT ![r] = w],
           UNCHANGED <<vars, session, people>>,
           w.session \in {work[r].session, None},
           WorkSound(r)'
    PROVE  CheckoutInv'
<1>1. TypeInv'
  BY TypeStep DEF CheckoutInv, Typed
<1>2. Typed'
  BY <1>1 DEF CheckoutInv, Typed, people
<1>3. \A q \in Requests \ {r} : work'[q] = work[q] /\ call'[q] = call[q]
  BY DEF vars, CheckoutInv, Typed
<1>4. work'[r] = w
  BY DEF CheckoutInv, Typed
<1>5. PeopleKept /\ \A s \in Sessions : SameDeal(s) /\ session'[s] = session[s]
  BY DEF people, PeopleKept, SameDeal
<1>. QED
  BY <1>2, <1>3, <1>4, <1>5, WorkFrame

\* Slot r is at pc, with everything else in its record as before.
Moved(r, pc) ==
    /\ [work[r] EXCEPT !.pc = pc] \in WorkRecord
    /\ work' = [work EXCEPT ![r] = [work[r] EXCEPT !.pc = pc]]
    /\ work' \in [Requests -> WorkRecord]
    /\ work'[r].pc = pc
    /\ work'[r].session = work[r].session
    /\ work'[r].user = work[r].user
    /\ work'[r].customer = work[r].customer
    /\ work'[r].item = work[r].item
    /\ \A q \in Requests \ {r} : work'[q] = work[q]

LEMMA MoveEffect ==
    ASSUME Typed, NEW r \in Requests, NEW pc \in WorkSteps, Move(r, pc)
    PROVE  Moved(r, pc)
<1>1. work[r] \in WorkRecord
  BY DEF Typed
<1>2. [work[r] EXCEPT !.pc = pc] \in WorkRecord
  BY <1>1 DEF WorkRecord
<1>3. work' = [work EXCEPT ![r] = [work[r] EXCEPT !.pc = pc]]
  BY DEF Move
<1>. QED
  BY <1>1, <1>2, <1>3 DEF Typed, WorkRecord, Moved

\* At first nothing was ordered.
LEMMA CheckoutInvInit == CheckoutInit => CheckoutInv
<1>. SUFFICES ASSUME CheckoutInit PROVE CheckoutInv
  OBVIOUS
<1>1. TypeInv
  BY TypeInit DEF CheckoutInit
<1>2. IdleWork \in WorkRecord /\ NoSession \in SessionRecord
  BY DEF IdleWork, NoSession, WorkRecord, SessionRecord, WorkSteps, Buyers,
         Customers
<1>3. Typed
  BY <1>1, <1>2, AccountAssumption DEF CheckoutInit, Typed, Customers
<1>4. ASSUME NEW s \in Sessions PROVE SessionSound(s)
  BY DEF CheckoutInit, SessionSound, NoSession
<1>5. ASSUME NEW r \in Requests PROVE WorkSound(r)
  <2>1. work[r].pc = "idle" /\ call[r].ref = None
    BY DEF CheckoutInit, Init, IdleWork, IdleCall
  <2>. QED
    BY <2>1 DEF WorkSound, CallSound, OrderSound, BuyerSound, LoopSound,
                Creating, Ordering, Opening, Asking, Identifying, Buying
<1>. QED
  BY <1>3, <1>4, <1>5 DEF CheckoutInv

\* Any procedure may break off, or be answered.
LEMMA EndsSound ==
    ASSUME CheckoutInv, NEW r \in Requests,
           work'[r].pc \in {"returned", "threw"},
           work'[r].session \in Sessions,
           call'[r].ref = None, call'[r].pc = "idle"
    PROVE  WorkSound(r)'
BY DEF WorkSound, CallSound, OrderSound, BuyerSound, LoopSound,
       Creating, Ordering, Opening, Asking, Identifying, Buying

\* createSession keeps all this.
LEMMA OrderSteps ==
    ASSUME CheckoutInv, NEW r \in Requests,
           \/ CheckBuyer(r) \/ ReadProduct(r) \/ FindCustomer(r)
           \/ CreateCustomer(r) \/ SaveCustomer(r)
           \/ OpenSession(r) \/ StoreSession(r) \/ Offer(r)
    PROVE  CheckoutInv'
<1>. USE DEF Ordering, Opening, Creating, Asking, Identifying, Buying, At
<1>t. Typed /\ work[r] \in WorkRecord /\ WorkSound(r)
  BY DEF CheckoutInv, Typed
<1>s. work[r].pc # "idle" => work[r].session \in Sessions
  BY <1>t DEF WorkSound, CallSound
<1>c. ASSUME work[r].pc \in Creating
      PROVE  /\ call[r].pc = "idle" /\ call[r].ref = None
             /\ work[r].session \in Sessions
  BY <1>t, <1>c DEF WorkSound, CallSound
<1>i. UNCHANGED vars => TypeInv'
  BY TypeStep DEF CheckoutInv, Typed
<1>1. CASE CheckBuyer(r)
  <2>1. PICK pc \in {"readProducts", "threw"} : Move(r, pc)
    BY <1>1 DEF CheckBuyer
  <2>2. work[r].pc = "checkBuyer" /\ UNCHANGED <<vars, session, people>>
    BY <1>1 DEF CheckBuyer
  <2>m. pc \in WorkSteps /\ Moved(r, pc)
    BY <1>t, <2>1, MoveEffect DEF WorkSteps
  <2>3. WorkSound(r)'
    BY <1>t, <1>c, <2>1, <2>2, <2>m
       DEF WorkSound, CallSound, OrderSound, BuyerSound, LoopSound, vars, Moved
  <2>. QED
    BY <2>2, <2>3, <2>m, MoveFrame DEF Moved
<1>2. CASE ReadProduct(r)
  <2>1. PICK pc \in {"threw", "readProducts", "openSession", "findCustomer"},
             todo \in SUBSET Products :
          /\ work' = [work EXCEPT ![r] = [@ EXCEPT !.todo = todo, !.pc = pc]]
          /\ pc = "findCustomer" => work[r].user # None
    <3>1. PICK p \in work[r].todo :
          work' = [work EXCEPT
            ![r].todo = @ \ {p},
            ![r].pc = IF p \notin onSale THEN "threw"
                      ELSE IF work[r].todo # {p} THEN "readProducts"
                      ELSE IF work[r].user = None THEN "openSession"
                      ELSE "findCustomer"]
      BY <1>2 DEF ReadProduct
    <3>2. work[r].todo \ {p} \in SUBSET Products
      BY <1>t DEF WorkRecord
    <3>3. work' = [work EXCEPT ![r] = [@ EXCEPT !.todo = work[r].todo \ {p},
            !.pc = IF p \notin onSale THEN "threw"
                      ELSE IF work[r].todo # {p} THEN "readProducts"
                      ELSE IF work[r].user = None THEN "openSession"
                      ELSE "findCustomer"]]
      BY <3>1, <1>t DEF WorkRecord, Typed
    <3>. QED
      BY <3>2, <3>3
  <2>2. work[r].pc = "readProducts" /\ UNCHANGED <<vars, session, people>>
    BY <1>2 DEF ReadProduct
  <2>. DEFINE w == [work[r] EXCEPT !.todo = todo, !.pc = pc]
  <2>3. /\ w \in WorkRecord /\ w.pc = pc /\ w.session = work[r].session
        /\ w.user = work[r].user
    BY <1>t DEF WorkRecord, WorkSteps
  <2>4. work' = [work EXCEPT ![r] = w]
    BY <2>1
  <2>. HIDE DEF w
  <2>5. work'[r] = w /\ \A q \in Requests \ {r} : work'[q] = work[q]
    BY <2>4, <1>t DEF Typed
  <2>6. w.user # None => w.user \in Users
    BY <2>3 DEF WorkRecord, Buyers
  <2>7. WorkSound(r)'
    BY <1>t, <1>c, <2>1, <2>2, <2>3, <2>5, <2>6
       DEF WorkSound, CallSound, OrderSound, BuyerSound, LoopSound, vars
  <2>. QED
    BY <2>2, <2>3, <2>4, <2>7, MoveFrame
<1>3. CASE FindCustomer(r)
  <2>1. PICK pc \in {"createCustomer", "openSession"}, known \in Customers :
          work' = [work EXCEPT ![r] = [@ EXCEPT !.customer = known, !.pc = pc]]
    <3>1. work[r].user \in Users
      BY <1>3, <1>t DEF FindCustomer, WorkSound, OrderSound
    <3>2. customer[work[r].user] \in Customers
      BY <3>1, <1>t DEF Typed
    <3>. QED
      BY <3>2, <1>3, <1>t DEF FindCustomer, Typed
  <2>2. work[r].pc = "findCustomer" /\ UNCHANGED <<vars, session, people>>
    BY <1>3 DEF FindCustomer
  <2>. DEFINE w == [work[r] EXCEPT !.customer = known, !.pc = pc]
  <2>3. /\ w \in WorkRecord /\ w.pc = pc /\ w.session = work[r].session
        /\ w.user = work[r].user
    BY <1>t DEF WorkRecord, WorkSteps
  <2>4. work' = [work EXCEPT ![r] = w]
    BY <2>1
  <2>. HIDE DEF w
  <2>5. work'[r] = w /\ \A q \in Requests \ {r} : work'[q] = work[q]
    BY <2>4, <1>t DEF Typed
  <2>6. WorkSound(r)'
    BY <1>t, <1>c, <2>1, <2>2, <2>3, <2>5
       DEF WorkSound, CallSound, OrderSound, BuyerSound, LoopSound, vars
  <2>. QED
    BY <2>2, <2>3, <2>4, <2>6, MoveFrame
<1>4. CASE CreateCustomer(r)
  <2>1. work[r].user \in Users
    BY <1>4, <1>t DEF CreateCustomer, WorkSound, OrderSound
  <2>2. PICK c \in Users \cup Sessions :
          work' = [work EXCEPT ![r] = [@ EXCEPT !.customer = c,
                                                !.pc = "saveCustomer"]]
    BY <2>1, <1>4, <1>t DEF CreateCustomer, Typed
  <2>3. work[r].pc = "createCustomer" /\ UNCHANGED <<vars, session, people>>
    BY <1>4 DEF CreateCustomer
  <2>. DEFINE w == [work[r] EXCEPT !.customer = c, !.pc = "saveCustomer"]
  <2>4. /\ w \in WorkRecord /\ w.pc = "saveCustomer"
        /\ w.session = work[r].session /\ w.user = work[r].user
        /\ w.customer = c /\ c # None
    BY <1>t, CatalogueAssumption DEF WorkRecord, WorkSteps, Customers, Sessions
  <2>5. work' = [work EXCEPT ![r] = w]
    BY <2>2
  <2>. HIDE DEF w
  <2>6. work'[r] = w /\ \A q \in Requests \ {r} : work'[q] = work[q]
    BY <2>5, <1>t DEF Typed
  <2>7. WorkSound(r)'
    BY <1>t, <1>c, <2>1, <2>3, <2>4, <2>6
       DEF WorkSound, CallSound, OrderSound, BuyerSound, LoopSound, vars
  <2>. QED
    BY <2>3, <2>4, <2>5, <2>7, MoveFrame
<1>5. CASE SaveCustomer(r)
  <2>1. /\ work[r].pc = "saveCustomer" /\ Move(r, "openSession")
        /\ customer' = [customer EXCEPT ![work[r].user] = work[r].customer]
        /\ UNCHANGED <<vars, session, accounts, members>>
    BY <1>5 DEF SaveCustomer
  <2>2. work[r].user \in Users /\ work[r].customer # None
        /\ work[r].customer \in Customers
    BY <2>1, <1>t DEF WorkSound, OrderSound, WorkRecord
  <2>3. customer' \in [Users -> Customers] /\ PeopleKept
    BY <2>1, <2>2, <1>t DEF Typed, PeopleKept
  <2>m. Moved(r, "openSession")
    BY <1>t, <2>1, MoveEffect DEF WorkSteps
  <2>4. Typed'
    BY <1>i, <1>t, <2>1, <2>3, <2>m DEF Typed, Moved
  <2>5. WorkSound(r)'
    BY <1>t, <1>c, <2>1, <2>m
       DEF WorkSound, CallSound, OrderSound, BuyerSound, LoopSound, vars, Moved
  <2>. QED
    BY <2>1, <2>3, <2>4, <2>5, <2>m, WorkFrame DEF SameDeal, vars, Moved
<1>6. CASE OpenSession(r)
  <2>. DEFINE s == work[r].session
  <2>1. /\ work[r].pc = "openSession" /\ Move(r, "storeSession")
        /\ UNCHANGED <<vars, people>>
    BY <1>6 DEF OpenSession
  <2>2. s \in Sessions /\ session[s] \in SessionRecord
    BY <2>1, <1>c, <1>t DEF Typed
  <2>3. session' = [session EXCEPT ![s] =
            [@ EXCEPT !.payment = "open", !.user = work[r].user,
                      !.customer = work[r].customer]]
    BY <1>6, <2>2, <1>t DEF OpenSession, Typed
  <2>. DEFINE x == [session[s] EXCEPT !.payment = "open", !.user = work[r].user,
                                      !.customer = work[r].customer]
  <2>4. /\ x \in SessionRecord /\ x.payment = "open"
        /\ x.row = session[s].row
    BY <2>2, <1>t DEF SessionRecord, WorkRecord
  <2>. HIDE DEF x
  <2>5. /\ session' \in [Sessions -> SessionRecord]
        /\ session'[s] = x
        /\ \A z \in Sessions \ {s} : session'[z] = session[z]
    BY <2>2, <2>3, <2>4, <1>t DEF Typed, x
  <2>m. Moved(r, "storeSession")
    BY <1>t, <2>1, MoveEffect DEF WorkSteps
  <2>6. Typed' /\ PeopleKept
    BY <1>i, <1>t, <2>1, <2>5, <2>m DEF Typed, people, PeopleKept, Moved
  <2>7. Cart[s] # <<>> /\ SessionSound(s) /\ session[s].payment = "none"
    BY <2>1, <2>2, <1>t DEF WorkSound, OrderSound, CheckoutInv
  <2>8. ASSUME NEW z \in Sessions, z = s PROVE SessionSound(z)'
    BY <2>4, <2>5, <2>7, <2>8 DEF SessionSound
  <2>9. WorkSound(r)'
    BY <1>t, <1>c, <2>1, <2>4, <2>5, <2>m
       DEF WorkSound, CallSound, OrderSound, BuyerSound, LoopSound, vars, Moved
  <2>. QED
    BY <2>1, <2>5, <2>6, <2>8, <2>9, <2>m, WorkFrame DEF SameDeal, vars, Moved
<1>7. CASE StoreSession(r) \/ Offer(r)
  <2>. DEFINE s == work[r].session
  <2>1. PICK pc \in {"offer", "returned"}, row \in {"none", "pending", "completed"},
             payment \in {"open", "offered"} :
          /\ Move(r, pc)
          /\ session' = [session EXCEPT ![s] = [@ EXCEPT !.row = row,
                                                         !.payment = payment]]
          /\ pc = "offer" => row = "pending" /\ payment = "open"
          /\ pc = "returned" => row = session[s].row /\ payment = "offered"
                                /\ row # "none"
    <3>1. work[r].pc \in Opening /\ s \in Sessions
      BY <1>7, <1>c DEF StoreSession, Offer
    <3>2. session[s] \in SessionRecord /\ session[s].payment = "open"
          /\ (work[r].pc = "offer" => session[s].row # "none")
      BY <3>1, <1>t DEF Typed, WorkSound, OrderSound
    <3>3. CASE StoreSession(r)
      <4>1. [session[s] EXCEPT !.row = "pending"] =
            [session[s] EXCEPT !.row = "pending", !.payment = "open"]
        BY <3>2 DEF SessionRecord
      <4>2. session' = [session EXCEPT ![s] = [session[s] EXCEPT !.row = "pending"]]
        BY <3>3 DEF StoreSession
      <4>3. session' = [session EXCEPT ![s] = [@ EXCEPT !.row = "pending",
                                                        !.payment = "open"]]
        BY <3>1, <4>1, <4>2
      <4>. QED
        BY <3>3, <4>3 DEF StoreSession
    <3>4. CASE Offer(r)
      BY <3>1, <3>2, <3>4, <1>t DEF Offer, Typed, SessionRecord
    <3>. QED
      BY <1>7, <3>3, <3>4
  <2>2. work[r].pc \in Opening /\ UNCHANGED <<vars, people>>
    BY <1>7 DEF StoreSession, Offer
  <2>3. s \in Sessions /\ session[s] \in SessionRecord
    BY <2>2, <1>c, <1>t DEF Typed
  <2>. DEFINE x == [session[s] EXCEPT !.row = row, !.payment = payment]
  <2>4. /\ x \in SessionRecord /\ x.payment = payment /\ x.row = row
    BY <2>1, <2>3 DEF SessionRecord
  <2>. HIDE DEF x
  <2>5. /\ session' \in [Sessions -> SessionRecord]
        /\ session'[s] = x
        /\ \A z \in Sessions \ {s} : session'[z] = session[z]
    BY <2>1, <2>3, <2>4, <1>t DEF Typed, x
  <2>m. Moved(r, pc)
    BY <1>t, <2>1, MoveEffect DEF WorkSteps
  <2>6. Typed' /\ PeopleKept
    BY <1>i, <1>t, <2>1, <2>2, <2>5, <2>m DEF Typed, people, PeopleKept, Moved
  <2>7. Cart[s] # <<>> /\ session[s].payment = "open" /\ SessionSound(s)
    BY <2>2, <2>3, <1>t DEF WorkSound, OrderSound, CheckoutInv
  <2>8. ASSUME NEW z \in Sessions, z = s PROVE SessionSound(z)'
    BY <2>1, <2>4, <2>5, <2>7, <2>8 DEF SessionSound
  <2>9. WorkSound(r)'
    BY <1>t, <1>c, <2>1, <2>2, <2>4, <2>5, <2>m
       DEF WorkSound, CallSound, OrderSound, BuyerSound, LoopSound, vars, Moved
  <2>. QED
    BY <2>1, <2>2, <2>5, <2>6, <2>8, <2>9, <2>m, WorkFrame
       DEF SameDeal, vars, Moved
<1>. QED
  BY <1>1, <1>2, <1>3, <1>4, <1>5, <1>6, <1>7

\* verifySession keeps it until it knows the buyer's account.
LEMMA BuyerSteps ==
    ASSUME CheckoutInv, NEW r \in Requests,
           \/ ReadSession(r) \/ CheckPaid(r) \/ CheckMember(r) \/ FindUser(r)
           \/ CheckGuest(r) \/ CreateUser(r) \/ Provision(r) \/ Attach(r)
    PROVE  CheckoutInv'
<1>. USE DEF Ordering, Opening, Creating, Asking, Identifying, Buying, At
<1>t. Typed /\ work[r] \in WorkRecord /\ WorkSound(r)
  BY DEF CheckoutInv, Typed
<1>c. ASSUME work[r].pc \in Asking \cup Identifying
      PROVE  /\ call[r].pc = "idle" /\ call[r].ref = None
             /\ work[r].session \in Sessions
             /\ session[work[r].session] \in SessionRecord
             /\ SessionSound(work[r].session)
  BY <1>t, <1>c DEF WorkSound, CallSound, CheckoutInv, Typed
<1>i. UNCHANGED vars => TypeInv'
  BY TypeStep DEF CheckoutInv, Typed
<1>1. CASE ReadSession(r) \/ CheckGuest(r)
  <2>1. PICK pc \in {"checkPaid", "attach", "provision", "threw"} :
          /\ Move(r, pc)
          /\ pc = "checkPaid" => work[r].pc = "readSession"
          /\ pc = "attach" => work[r].user \in members
          /\ pc \in {"attach", "provision"} => work[r].pc = "checkGuest"
    BY <1>1 DEF ReadSession, CheckGuest
  <2>2. /\ work[r].pc \in {"readSession", "checkGuest"}
        /\ UNCHANGED <<vars, session, people>>
    BY <1>1 DEF ReadSession, CheckGuest
  <2>m. pc \in WorkSteps /\ Moved(r, pc)
    BY <1>t, <2>1, MoveEffect DEF WorkSteps
  <2>3. WorkSound(r)'
    BY <1>t, <1>c, <2>1, <2>2, <2>m
       DEF WorkSound, CallSound, OrderSound, BuyerSound, LoopSound, vars, Moved,
           people
  <2>. QED
    BY <2>2, <2>3, <2>m, MoveFrame DEF Moved
<1>2. CASE CheckPaid(r)
  <2>. DEFINE s == work[r].session
  <2>1. PICK pc \in {"findUser", "checkMember", "threw"} :
          /\ work' = [work EXCEPT ![r] = [@ EXCEPT
                !.customer = session[s].customer, !.pc = pc]]
          /\ pc # "threw" => session[s].payment = "paid"
    BY <1>2, <1>t DEF CheckPaid, Typed
  <2>2. work[r].pc = "checkPaid" /\ UNCHANGED <<vars, session, people>>
    BY <1>2 DEF CheckPaid
  <2>. DEFINE w == [work[r] EXCEPT !.customer = session[s].customer, !.pc = pc]
  <2>3. /\ w \in WorkRecord /\ w.pc = pc /\ w.session = s
        /\ w.customer = session[s].customer /\ w.item = work[r].item
    BY <1>t, <1>c, <2>2 DEF WorkRecord, WorkSteps, SessionRecord
  <2>4. work' = [work EXCEPT ![r] = w]
    BY <2>1
  <2>. HIDE DEF w
  <2>5. work'[r] = w /\ \A q \in Requests \ {r} : work'[q] = work[q]
    BY <2>4, <1>t DEF Typed
  <2>6. WorkSound(r)'
    BY <1>t, <1>c, <2>1, <2>2, <2>3, <2>5
       DEF WorkSound, CallSound, OrderSound, BuyerSound, LoopSound, vars, people
  <2>. QED
    BY <2>2, <2>3, <2>4, <2>6, MoveFrame
<1>3. CASE CheckMember(r) \/ FindUser(r)
  <2>. DEFINE s == work[r].session
  <2>1. PICK pc \in {"attach", "threw", "checkGuest", "createUser"},
             u \in Buyers :
          /\ work' = [work EXCEPT ![r] = [@ EXCEPT !.user = u, !.pc = pc]]
          /\ pc = "attach" => u \in members /\ u = session[s].user
          /\ pc \in {"checkGuest", "createUser"} => u = session[s].payer
    <3>1. work[r].pc \in Identifying
      BY <1>3 DEF CheckMember, FindUser
    <3>2. session[s].user \in Buyers /\ session[s].payer \in Buyers
      BY <1>c, <3>1 DEF SessionRecord
    <3>3. CASE CheckMember(r)
      BY <3>2, <3>3, <1>t DEF CheckMember, Typed
    <3>4. CASE FindUser(r)
      BY <3>2, <3>4, <1>t DEF FindUser, Typed
    <3>. QED
      BY <1>3, <3>3, <3>4
  <2>2. /\ work[r].pc \in {"checkMember", "findUser"}
        /\ UNCHANGED <<vars, session, people>>
    BY <1>3 DEF CheckMember, FindUser
  <2>. DEFINE w == [work[r] EXCEPT !.user = u, !.pc = pc]
  <2>3. /\ w \in WorkRecord /\ w.pc = pc /\ w.session = s /\ w.user = u
        /\ w.customer = work[r].customer /\ w.item = work[r].item
    BY <1>t DEF WorkRecord, WorkSteps
  <2>4. work' = [work EXCEPT ![r] = w]
    BY <2>1
  <2>. HIDE DEF w
  <2>5. work'[r] = w /\ \A q \in Requests \ {r} : work'[q] = work[q]
    BY <2>4, <1>t DEF Typed
  <2>6. session[s].payment = "paid" /\ work[r].customer = session[s].customer
    BY <1>t, <2>2 DEF WorkSound, BuyerSound
  <2>7. pc # "threw" => u = session[s].payer
    <3>1. session[s].user \in {session[s].payer, None}
      BY <1>c, <2>2, <2>6 DEF SessionSound
    <3>2. None \notin members
      BY <1>t, CatalogueAssumption DEF Typed
    <3>. QED
      BY <2>1, <3>1, <3>2
  <2>8. WorkSound(r)'
    BY <1>t, <1>c, <2>1, <2>2, <2>3, <2>5, <2>6, <2>7
       DEF WorkSound, CallSound, OrderSound, BuyerSound, LoopSound, vars, people
  <2>. QED
    BY <2>2, <2>3, <2>4, <2>8, MoveFrame
<1>4. CASE CreateUser(r) \/ Provision(r)
  <2>1. PICK pc \in {"threw", "provision", "attach"} :
          /\ Move(r, pc)
          /\ pc = "attach" => work[r].user \in members'
    BY <1>4 DEF CreateUser, Provision
  <2>2. /\ work[r].pc \in {"createUser", "provision"}
        /\ UNCHANGED <<vars, session, customer>>
    BY <1>4 DEF CreateUser, Provision
  <2>3. work[r].user \in Users
    BY <1>t, <1>c, <2>2 DEF WorkSound, BuyerSound, SessionSound
  <2>4. accounts' \subseteq Users /\ members' \subseteq Users \ (Foreign \cup Suspended)
        /\ members \subseteq members'
    BY <1>4, <1>t, <2>3 DEF CreateUser, Provision, Typed
  <2>m. Moved(r, pc)
    BY <1>t, <2>1, MoveEffect DEF WorkSteps
  <2>5. Typed' /\ PeopleKept
    BY <1>i, <1>t, <2>2, <2>4, <2>m DEF Typed, PeopleKept, Moved
  <2>6. WorkSound(r)'
    BY <1>t, <1>c, <2>1, <2>2, <2>m
       DEF WorkSound, CallSound, OrderSound, BuyerSound, LoopSound, vars, Moved
  <2>. QED
    BY <2>2, <2>5, <2>6, <2>m, WorkFrame DEF SameDeal, vars, Moved
<1>5. CASE Attach(r)
  <2>1. /\ work[r].pc = "attach" /\ Move(r, "items")
        /\ UNCHANGED <<vars, session, accounts, members>>
    BY <1>5 DEF Attach
  <2>2. /\ work[r].user \in Users /\ work[r].customer \in Customers
        /\ work[r].customer = session[work[r].session].customer
    BY <2>1, <1>t DEF WorkSound, BuyerSound, Typed, WorkRecord
  <2>3. /\ customer' \in [Users -> Customers] /\ PeopleKept
        /\ work[r].customer # None => customer'[work[r].user] # None
    BY <1>5, <2>1, <2>2, <1>t DEF Attach, Typed, PeopleKept
  <2>m. Moved(r, "items")
    BY <1>t, <2>1, MoveEffect DEF WorkSteps
  <2>4. Typed'
    BY <1>i, <1>t, <2>1, <2>3, <2>m DEF Typed, Moved
  <2>5. work[r].item \in Items(work[r].session)
    BY <1>t, <1>c, <2>1, CartPositions DEF WorkSound, LoopSound
  <2>6. WorkSound(r)'
    BY <1>t, <1>c, <2>1, <2>2, <2>3, <2>5, <2>m
       DEF WorkSound, CallSound, OrderSound, BuyerSound, LoopSound, vars, Moved
  <2>. QED
    BY <2>1, <2>3, <2>4, <2>6, <2>m, WorkFrame DEF SameDeal, vars, Moved
<1>. QED
  BY <1>1, <1>2, <1>3, <1>4, <1>5

\* So does the loop over the items.
LEMMA LoopSteps ==
    ASSUME CheckoutInv, NEW r \in Requests,
           CreateItem(r) \/ ItemDone(r) \/ Complete(r)
    PROVE  CheckoutInv'
<1>. USE DEF Ordering, Opening, Creating, Asking, Identifying, Buying, At
<1>t. /\ Typed /\ work[r] \in WorkRecord /\ WorkSound(r)
      /\ call \in [Requests -> CallRecord] /\ call[r] \in CallRecord
  BY DEF CheckoutInv, Typed, TypeInv, TypeOK
<1>s. /\ work[r].session \in Sessions /\ session[work[r].session] \in SessionRecord
      /\ SessionSound(work[r].session) /\ session[work[r].session].payment = "paid"
      /\ work[r].user \in Users
  <2>1. work[r].pc \in Buying
    BY DEF CreateItem, ItemDone, Complete
  <2>2. /\ work[r].session \in Sessions
        /\ session[work[r].session] \in SessionRecord
        /\ SessionSound(work[r].session)
    BY <1>t, <2>1 DEF WorkSound, CallSound, CheckoutInv, Typed
  <2>3. /\ session[work[r].session].payment = "paid"
        /\ work[r].user = session[work[r].session].payer
    BY <1>t, <2>1 DEF WorkSound, BuyerSound
  <2>. QED
    BY <2>2, <2>3 DEF SessionSound
<1>p. UNCHANGED people => PeopleKept
  BY DEF people, PeopleKept
<1>1. CASE CreateItem(r)
  <2>. DEFINE c == [IdleCall EXCEPT !.op = "create", !.pc = "findProduct",
                             !.user = work[r].user,
                             !.product = Cart[work[r].session][work[r].item],
                             !.ref = work[r].session]
  <2>1. /\ work[r].pc = "items" /\ Move(r, "await")
        /\ call' = [call EXCEPT ![r] = c]
        /\ UNCHANGED <<tables, started, failures, session, people>>
    BY <1>1 DEF CreateItem
  <2>2. /\ work[r].item \in Items(work[r].session)
        /\ Cart[work[r].session][work[r].item] \in Products
    BY <1>t, <1>s, <2>1, CartPositions DEF WorkSound, LoopSound
  <2>3. /\ c \in CallRecord /\ c.op = "create" /\ c.pc = "findProduct"
        /\ c.user = work[r].user /\ c.ref = work[r].session
        /\ c.product = Cart[work[r].session][work[r].item]
    BY <1>s, <2>2 DEF IdleCall, CallRecord, Steps, AllOps, Sessions
  <2>. HIDE DEF c
  <2>4. /\ call'[r] = c /\ call' \in [Requests -> CallRecord]
        /\ \A q \in Requests \ {r} : call'[q] = call[q]
    BY <1>t, <2>1, <2>3
  <2>5. CallTyped(r)'
    BY <1>s, <2>2, <2>3, <2>4 DEF CallTyped
  <2>6. TypeInv'
    <3>1. /\ purchases' \in Seq(PurchaseRow) /\ memberships' \in Seq(MembershipRow)
          /\ onSale' \in SUBSET Products /\ started' \in Nat /\ failures' \in Nat
          /\ RowsKept
      BY <1>t, <2>1 DEF Typed, TypeInv, TypeOK, tables, RowsKept, PurchaseIds
    <3>. QED
      BY <1>t, <2>4, <2>5, <3>1, TypeFrame DEF Typed
  <2>m. Moved(r, "await")
    BY <1>t, <2>1, MoveEffect DEF WorkSteps
  <2>7. Typed'
    BY <1>t, <2>1, <2>6, <2>m DEF Typed, Moved, people
  <2>8. WorkSound(r)'
    BY <1>t, <1>s, <2>1, <2>2, <2>3, <2>4, <2>m
       DEF WorkSound, CallSound, OrderSound, BuyerSound, LoopSound, Moved,
           people, CreateSteps
  <2>. QED
    BY <1>p, <2>1, <2>4, <2>7, <2>8, <2>m, WorkFrame DEF SameDeal, Moved
<1>2. CASE ItemDone(r)
  <2>1. PICK pc \in {"threw", "complete", "items"} :
          /\ work' = [work EXCEPT ![r] = [@ EXCEPT !.item = work[r].item + 1,
                                                   !.pc = pc]]
          /\ pc = "complete" => work[r].item = Len(Cart[work[r].session])
          /\ pc = "items" => work[r].item # Len(Cart[work[r].session])
    BY <1>2, <1>t DEF ItemDone, Typed, WorkRecord
  <2>2. /\ work[r].pc = "await" /\ call' = [call EXCEPT ![r] = IdleCall]
        /\ UNCHANGED <<tables, started, failures, session, people>>
    BY <1>2 DEF ItemDone
  <2>3. work[r].item \in Items(work[r].session) /\ work[r].item \in Nat
    BY <1>t, <2>2 DEF WorkSound, LoopSound, WorkRecord
  <2>4. /\ pc = "items" => work[r].item + 1 \in Items(work[r].session)
        /\ pc = "complete" => work[r].item + 1 = Len(Cart[work[r].session]) + 1
    BY <1>s, <2>1, <2>3, CartPositions
  <2>. DEFINE w == [work[r] EXCEPT !.item = work[r].item + 1, !.pc = pc]
  <2>5. /\ w \in WorkRecord /\ w.pc = pc /\ w.session = work[r].session
        /\ w.user = work[r].user /\ w.item = work[r].item + 1
        /\ w.customer = work[r].customer
    <3>1. PICK n \in Nat : n = work[r].item + 1
      BY <2>3
    <3>2. pc \in WorkSteps
      BY DEF WorkSteps
    <3>3. w = [work[r] EXCEPT !.item = n, !.pc = pc]
      BY <3>1
    <3>. QED
      BY <1>t, <3>1, <3>2, <3>3 DEF WorkRecord
  <2>6. work' = [work EXCEPT ![r] = w]
    BY <2>1
  <2>. HIDE DEF w
  <2>7. /\ work'[r] = w /\ \A q \in Requests \ {r} : work'[q] = work[q]
        /\ work' \in [Requests -> WorkRecord]
    BY <1>t, <2>5, <2>6 DEF Typed
  <2>8. /\ IdleCall \in CallRecord /\ IdleCall.pc = "idle" /\ IdleCall.ref = None
    BY DEF IdleCall, CallRecord, Steps
  <2>9. /\ call'[r] = IdleCall /\ call' \in [Requests -> CallRecord]
        /\ \A q \in Requests \ {r} : call'[q] = call[q]
    BY <1>t, <2>2, <2>8
  <2>10. TypeInv'
    <3>1. Respond(r)
      BY <1>2 DEF ItemDone, Respond
    <3>. QED
      BY <1>t, <3>1, TypeStep DEF Typed, Next
  <2>11. Typed'
    BY <1>t, <2>2, <2>7, <2>10 DEF Typed, people
  <2>12. WorkSound(r)'
    BY <1>t, <1>s, <2>2, <2>4, <2>5, <2>7, <2>8, <2>9
       DEF WorkSound, CallSound, OrderSound, BuyerSound, LoopSound, people
  <2>. QED
    BY <1>p, <2>2, <2>5, <2>7, <2>9, <2>11, <2>12, WorkFrame DEF SameDeal
<1>3. CASE Complete(r)
  <2>. DEFINE s == work[r].session
  <2>1. /\ work[r].pc = "complete" /\ Move(r, "returned")
        /\ session' = [session EXCEPT ![s].row = "completed"]
        /\ UNCHANGED <<vars, people>>
    BY <1>3 DEF Complete
  <2>. DEFINE x == [session[s] EXCEPT !.row = "completed"]
  <2>2. /\ x \in SessionRecord /\ x.row = "completed"
        /\ x.payment = session[s].payment /\ x.user = session[s].user
        /\ x.payer = session[s].payer /\ x.customer = session[s].customer
    BY <1>s DEF SessionRecord
  <2>3. session' = [session EXCEPT ![s] = x]
    BY <2>1
  <2>. HIDE DEF x
  <2>4. /\ session' \in [Sessions -> SessionRecord]
        /\ session'[s] = x
        /\ \A z \in Sessions \ {s} : session'[z] = session[z]
    BY <1>s, <1>t, <2>2, <2>3 DEF Typed
  <2>m. Moved(r, "returned")
    BY <1>t, <2>1, MoveEffect DEF WorkSteps
  <2>5. Typed'
    <3>1. TypeInv'
      BY <1>t, <2>1, TypeStep DEF Typed
    <3>. QED
      BY <1>t, <2>1, <2>4, <2>m, <3>1 DEF Typed, people, Moved
  <2>6. ASSUME NEW z \in Sessions, z = s PROVE SessionSound(z)'
    BY <1>s, <2>2, <2>4, <2>6 DEF SessionSound
  <2>7. WorkSound(r)'
    <3>1. call[r].pc = "idle" /\ call[r].ref = None
      BY <1>t, <2>1 DEF WorkSound, CallSound
    <3>. QED
      BY <1>s, <2>1, <2>m, <3>1, EndsSound DEF Moved, vars
  <2>8. \A z \in Sessions : SameDeal(z)
    BY <1>s, <2>2, <2>4 DEF SameDeal
  <2>9. PeopleKept /\ UNCHANGED call
    BY <1>p, <2>1 DEF vars
  <2>. QED
    BY <2>4, <2>5, <2>6, <2>7, <2>8, <2>9, <2>m, WorkFrame DEF Moved
<1>. QED
  BY <1>1, <1>2, <1>3

\* And so does whatever starts or ends a request, and the payment.
LEMMA RequestSteps ==
    ASSUME CheckoutInv, NEW r \in Requests,
           \/ \E s \in Sessions, u \in accounts \cup {None} :
                 BeginCheckout(r, s, u)
           \/ \E s \in Sessions : BeginVerify(r, s)
           \/ Answer(r) \/ Fail(r) \/ PurchaseStep(r)
    PROVE  CheckoutInv'
<1>. USE DEF Ordering, Opening, Creating, Asking, Identifying, Buying, At
<1>t. /\ Typed /\ work[r] \in WorkRecord /\ WorkSound(r)
      /\ call \in [Requests -> CallRecord] /\ call[r] \in CallRecord
  BY DEF CheckoutInv, Typed, TypeInv, TypeOK
<1>i. UNCHANGED vars => TypeInv' /\ UNCHANGED call
  BY TypeStep DEF CheckoutInv, Typed, vars
<1>p. UNCHANGED people => PeopleKept
  BY DEF people, PeopleKept
<1>1. ASSUME NEW s \in Sessions, NEW u \in accounts \cup {None},
             BeginCheckout(r, s, u)
      PROVE  CheckoutInv'
  <2>. DEFINE pc == IF u = None THEN "readProducts" ELSE "checkBuyer"
              w == [IdleWork EXCEPT !.pc = IF u = None THEN "readProducts"
                                           ELSE "checkBuyer",
                                    !.session = s, !.user = u,
                                    !.todo = CartProducts(s)]
  <2>1. /\ work[r].pc = "idle" /\ call[r].pc = "idle"
        /\ session[s].payment = "none" /\ Cart[s] # <<>>
        /\ \A q \in Requests : work[q].session # s
        /\ work' = [work EXCEPT ![r] = w]
        /\ UNCHANGED <<vars, session, people>>
    BY <1>1 DEF BeginCheckout, Idle, Busy
  <2>2. u \in Buyers /\ CartProducts(s) \in SUBSET Products
    BY <1>t, CartPositions DEF Typed, Buyers
  <2>3. /\ w \in WorkRecord /\ w.session = s /\ w.user = u /\ w.pc = pc
    BY <2>2 DEF IdleWork, WorkRecord, WorkSteps, Buyers, Customers
  <2>4. pc \in {"readProducts", "checkBuyer"}
        /\ (pc = "checkBuyer" => u \in Users)
    BY <2>2 DEF Buyers
  <2>. HIDE DEF w, pc
  <2>5. /\ work'[r] = w /\ \A q \in Requests \ {r} : work'[q] = work[q]
        /\ work' \in [Requests -> WorkRecord]
    BY <1>t, <2>1, <2>3 DEF Typed
  <2>6. Typed'
    BY <1>i, <1>t, <2>1, <2>5 DEF Typed, people
  <2>7. WorkSound(r)'
    BY <1>t, <2>1, <2>3, <2>4, <2>5
       DEF WorkSound, CallSound, OrderSound, BuyerSound, LoopSound, vars
  <2>. QED
    BY <1>i, <1>p, <2>1, <2>3, <2>5, <2>6, <2>7, WorkFrame DEF SameDeal
<1>2. ASSUME NEW s \in Sessions, BeginVerify(r, s)
      PROVE  CheckoutInv'
  <2>. DEFINE w == [IdleWork EXCEPT !.pc = "readSession", !.session = s]
  <2>1. /\ work[r].pc = "idle" /\ call[r].pc = "idle"
        /\ session[s].payment \in {"offered", "paid"}
        /\ work' = [work EXCEPT ![r] = w]
        /\ UNCHANGED <<vars, session, people>>
    BY <1>2 DEF BeginVerify, Idle, Busy
  <2>2. /\ w \in WorkRecord /\ w.session = s /\ w.pc = "readSession"
        /\ w.item = 1
    BY DEF IdleWork, WorkRecord, WorkSteps, Buyers, Customers
  <2>. HIDE DEF w
  <2>3. /\ work'[r] = w /\ \A q \in Requests \ {r} : work'[q] = work[q]
        /\ work' \in [Requests -> WorkRecord]
    BY <1>t, <2>1, <2>2 DEF Typed
  <2>4. Typed'
    BY <1>i, <1>t, <2>1, <2>3 DEF Typed, people
  <2>5. Cart[s] # <<>>
    BY <2>1 DEF CheckoutInv, SessionSound
  <2>6. WorkSound(r)'
    BY <1>t, <2>1, <2>2, <2>3, <2>5
       DEF WorkSound, CallSound, OrderSound, BuyerSound, LoopSound, vars
  <2>7. ASSUME NEW q \in Requests, work[q].pc \in Creating
        PROVE  work[q].session # s
    BY <2>1, <2>7 DEF CheckoutInv, WorkSound, OrderSound
  <2>. QED
    BY <1>i, <1>p, <2>1, <2>2, <2>3, <2>4, <2>6, <2>7, WorkFrame DEF SameDeal
<1>3. CASE Answer(r)
  <2>1. /\ work[r].pc \in {"returned", "threw"}
        /\ work' = [work EXCEPT ![r] = IdleWork]
        /\ UNCHANGED <<vars, session, people>>
    BY <1>3 DEF Answer
  <2>2. /\ IdleWork \in WorkRecord /\ IdleWork.pc = "idle"
        /\ IdleWork.session = None
    BY DEF IdleWork, WorkRecord, WorkSteps, Buyers, Customers
  <2>3. work'[r] = IdleWork
    BY <1>t, <2>1 DEF Typed
  <2>4. WorkSound(r)'
    BY <1>t, <2>1, <2>2, <2>3
       DEF WorkSound, CallSound, OrderSound, BuyerSound, LoopSound, vars
  <2>. QED
    BY <2>1, <2>2, <2>4, MoveFrame
<1>4. CASE Fail(r)
  <2>1. /\ work[r].pc \notin {"idle", "await"}
        /\ Move(r, "threw") /\ failures' = failures + 1
        /\ UNCHANGED <<tables, call, started, session, people>>
    BY <1>4 DEF Fail
  <2>2. /\ call[r].pc = "idle" /\ call[r].ref = None
        /\ work[r].session \in Sessions
    BY <1>t, <2>1 DEF WorkSound, CallSound
  <2>3. TypeInv'
    <3>1. RowsKept
      BY <2>1 DEF RowsKept, tables, PurchaseIds
    <3>2. CallTyped(r)'
      BY <1>t, <2>1 DEF CallTyped, Typed, TypeInv, tables, PurchaseIds
    <3>. QED
      BY <1>t, <2>1, <3>1, <3>2, TypeFrame DEF Typed, TypeInv, TypeOK, tables
  <2>m. Moved(r, "threw")
    BY <1>t, <2>1, MoveEffect DEF WorkSteps
  <2>4. Typed'
    BY <1>t, <2>1, <2>3, <2>m DEF Typed, Moved, people
  <2>5. WorkSound(r)'
    BY <2>1, <2>2, <2>m, EndsSound DEF Moved
  <2>. QED
    BY <1>p, <2>1, <2>4, <2>5, <2>m, WorkFrame DEF SameDeal, Moved
<1>5. CASE PurchaseStep(r)
  <2>1. UNCHANGED <<work, session, people>>
    BY <1>5 DEF PurchaseStep, checkoutVars
  <2>2. TypeInv'
    <3>1. Next
      BY <1>5 DEF PurchaseStep, Next
    <3>. QED
      BY <1>t, <3>1, TypeStep DEF Typed
  <2>3. Typed'
    BY <1>t, <2>1, <2>2 DEF Typed, people
  <2>4. /\ CallSound(r)'
        /\ \A q \in Requests \ {r} : call'[q] = call[q]
    <3>1. CASE Step(r) \/ Raise(r)
      <4>1. /\ \A q \in Requests \ {r} : call'[q] = call[q]
            /\ CallMoves(r) /\ call[r].pc \notin {"idle", "returned", "threw"}
        BY <1>t, <3>1, StepMoves DEF Typed
      <4>. QED
        BY <1>t, <2>1, <4>1 DEF WorkSound, CallSound, CallMoves
    <3>2. CASE work[r].pc = "idle" /\ (Receive(r) \/ Respond(r))
      <4>1. /\ \A q \in Requests \ {r} : call'[q] = call[q]
            /\ call'[r].ref = None
        BY <1>t, <3>2, OtherRequest DEF Typed
      <4>. QED
        BY <1>t, <2>1, <3>2, <4>1 DEF CallSound
    <3>. QED
      BY <1>5, <3>1, <3>2 DEF PurchaseStep
  <2>5. WorkSound(r)'
    BY <1>t, <2>1, <2>4
       DEF WorkSound, OrderSound, BuyerSound, LoopSound, people
  <2>. QED
    BY <1>p, <2>1, <2>3, <2>4, <2>5, WorkFrame DEF SameDeal
<1>. QED
  BY <1>1, <1>2, <1>3, <1>4, <1>5

LEMMA PayStep ==
    ASSUME CheckoutInv, NEW s \in Sessions, NEW u \in Users, Pay(s, u)
    PROVE  /\ CheckoutInv'
           /\ session[s].payment = "offered" /\ session'[s].payment = "paid"
           /\ \A z \in Sessions \ {s} : session'[z] = session[z]
           /\ session'[s].row = session[s].row
<1>t. /\ Typed /\ session[s] \in SessionRecord
  BY DEF CheckoutInv, Typed
<1>1. /\ session[s].payment = "offered" /\ session[s].user \in {u, None}
      /\ UNCHANGED <<vars, work, people>>
  BY DEF Pay
<1>2. PICK c \in Customers :
        session' = [session EXCEPT ![s] = [@ EXCEPT !.payment = "paid",
                                                    !.payer = u, !.customer = c]]
  <2>1. session[s].customer \in Customers /\ s \in Customers
    BY <1>t DEF SessionRecord, Customers
  <2>. DEFINE d == IF session[s].customer = None /\ IsSubscription(s) THEN s
                   ELSE session[s].customer
  <2>2. session' = [session EXCEPT ![s] =
            [session[s] EXCEPT !.payment = "paid", !.payer = u, !.customer = d]]
    BY DEF Pay
  <2>3. d \in Customers
    BY <2>1
  <2>. HIDE DEF d
  <2>. QED
    BY <2>2, <2>3
<1>. DEFINE x == [session[s] EXCEPT !.payment = "paid", !.payer = u,
                                    !.customer = c]
<1>3. /\ x \in SessionRecord /\ x.payment = "paid" /\ x.payer = u
      /\ x.row = session[s].row /\ x.user = session[s].user
  BY <1>t DEF SessionRecord, Buyers
<1>4. session' = [session EXCEPT ![s] = x]
  BY <1>2
<1>. HIDE DEF x
<1>5. /\ session'[s] = x /\ session' \in [Sessions -> SessionRecord]
      /\ \A z \in Sessions \ {s} : session'[z] = session[z]
  BY <1>t, <1>3, <1>4 DEF Typed
<1>6. Typed'
  <2>1. TypeInv'
    BY <1>t, <1>1, TypeStep DEF Typed
  <2>. QED
    BY <1>t, <1>1, <1>5, <2>1 DEF Typed, people
<1>7. ASSUME NEW z \in Sessions PROVE SessionSound(z)'
  BY <1>1, <1>3, <1>5 DEF CheckoutInv, SessionSound
<1>8. ASSUME NEW q \in Requests PROVE WorkSound(q)'
  <2>1. WorkSound(q)
    BY DEF CheckoutInv
  <2>2. work[q].session = s =>
           work[q].pc \notin Creating \cup Identifying \cup Buying
    BY <1>1, <2>1 DEF WorkSound, OrderSound, BuyerSound, Creating
  <2>3. work[q].pc # "idle" => work[q].session \in Sessions
    BY <2>1 DEF WorkSound, CallSound
  <2>. QED
    BY <1>1, <1>5, <2>1, <2>2, <2>3
       DEF WorkSound, CallSound, OrderSound, BuyerSound, LoopSound, Creating,
           Ordering, Opening, Asking, Identifying, Buying, vars, people
<1>. QED
  BY <1>1, <1>3, <1>5, <1>6, <1>7, <1>8 DEF CheckoutInv

\* No step breaks the invariant.
LEMMA CheckoutInvStep == CheckoutInv /\ [CheckoutNext]_allVars => CheckoutInv'
<1>. SUFFICES ASSUME CheckoutInv, [CheckoutNext]_allVars PROVE CheckoutInv'
  OBVIOUS
<1>1. CASE UNCHANGED allVars
  BY <1>1 DEF allVars, vars, checkoutVars, people, CheckoutInv, Typed, TypeInv,
              TypeOK, CallTyped, PurchaseIds, SessionSound, WorkSound, CallSound,
              OrderSound, BuyerSound, LoopSound
<1>2. ASSUME NEW r \in Requests, WorkStep(r) PROVE CheckoutInv'
  BY <1>2, OrderSteps, BuyerSteps, LoopSteps DEF WorkStep
<1>. QED
  BY <1>1, <1>2, RequestSteps, PayStep DEF CheckoutNext

-----------------------------------------------------------------------------
(* The steps as the buyer and the provider see them *)

Trying == {"checkPaid"} \cup Identifying \cup Buying

\* The awaited create threw, and the verification is about to break off.
Broken(r) == At(r, "await") /\ call[r].pc = "threw"

\* No purchase is made; nobody pays, no session is closed.
RowsQuiet ==
    /\ UNCHANGED purchases
    /\ PeopleKept
    /\ \A s \in Sessions :
          /\ session'[s].row = "completed" <=> session[s].row = "completed"
          /\ session'[s].payment = "paid" <=> session[s].payment = "paid"
          /\ session[s].payment = "paid" => SameDeal(s)

\* Only slot r moves; it verifies an open session or goes on with one, and
\* counts no item it did not buy.
WorkQuiet(r) ==
    /\ \A q \in Requests \ {r} : work'[q] = work[q] /\ call'[q] = call[q]
    /\ work'[r].pc \in Trying =>
          /\ work'[r].session = work[r].session
          /\ \/ work[r].pc \in Trying
             \/ session[work[r].session].row = "pending"
    /\ work'[r].pc \in Buying /\ ~Broken(r)' =>
          \/ Done(r)' = 0
          \/ /\ work[r].pc \in Buying /\ ~Broken(r)
             /\ Done(r)' = Done(r)

QuietStep(r) == RowsQuiet /\ WorkQuiet(r)

LEMMA UnchangedQuiet ==
    ASSUME UNCHANGED <<purchases, session>>, PeopleKept
    PROVE  RowsQuiet
BY DEF RowsQuiet, SameDeal

\* createSession is quiet.
LEMMA OrderQuiet ==
    ASSUME CheckoutInv, NEW r \in Requests,
           \/ CheckBuyer(r) \/ ReadProduct(r) \/ FindCustomer(r)
           \/ CreateCustomer(r) \/ SaveCustomer(r)
           \/ OpenSession(r) \/ StoreSession(r) \/ Offer(r)
    PROVE  QuietStep(r)
<1>t. /\ work \in [Requests -> WorkRecord] /\ work[r] \in WorkRecord
      /\ session \in [Sessions -> SessionRecord]
      /\ customer \in [Users -> Customers] /\ WorkSound(r)
  BY DEF CheckoutInv, Typed
<1>1. WorkQuiet(r)
  <2>1. /\ \A q \in Requests \ {r} : work'[q] = work[q] /\ call'[q] = call[q]
        /\ work'[r].pc \in Creating \cup {"threw", "returned"}
    <3>1. CASE CheckBuyer(r) \/ FindCustomer(r) \/ CreateCustomer(r)
      <4>1. CASE CheckBuyer(r)
        BY <4>1, <1>t DEF CheckBuyer, Move, vars, WorkRecord, Creating, Ordering
      <4>2. CASE FindCustomer(r)
        BY <4>2, <1>t DEF FindCustomer, Move, vars, WorkRecord, Creating, Ordering
      <4>3. CASE CreateCustomer(r)
        BY <4>3, <1>t DEF CreateCustomer, Move, vars, WorkRecord, Creating, Ordering
      <4>. QED
        BY <3>1, <4>1, <4>2, <4>3
    <3>2. CASE ReadProduct(r)
      <4>1. PICK p \in work[r].todo :
          work' = [work EXCEPT
            ![r].todo = @ \ {p},
            ![r].pc = IF p \notin onSale THEN "threw"
                      ELSE IF work[r].todo # {p} THEN "readProducts"
                      ELSE IF work[r].user = None THEN "openSession"
                      ELSE "findCustomer"]
        BY <3>2 DEF ReadProduct
      <4>2. UNCHANGED call
        BY <3>2 DEF ReadProduct, vars
      <4>. QED
        BY <4>1, <4>2, <1>t DEF WorkRecord, Creating, Ordering
    <3>3. CASE SaveCustomer(r) \/ OpenSession(r) \/ StoreSession(r) \/ Offer(r)
      BY <3>3, <1>t DEF SaveCustomer, OpenSession, StoreSession, Offer, Move,
                        vars, WorkRecord, Creating, Ordering, Opening
    <3>. QED
      BY <3>1, <3>2, <3>3
  <2>. QED
    BY <2>1 DEF WorkQuiet, Trying, Identifying, Buying, Creating, Ordering,
                Opening
<1>2. RowsQuiet
  <2>1. CASE UNCHANGED <<vars, session, people>>
    BY <2>1, UnchangedQuiet DEF vars, people, PeopleKept
  <2>2. CASE SaveCustomer(r)
    <3>1. work[r].pc = "saveCustomer"
          /\ customer' = [customer EXCEPT ![work[r].user] = work[r].customer]
          /\ UNCHANGED <<vars, session, members>>
      BY <2>2 DEF SaveCustomer, At
    <3>2. work[r].customer # None
      BY <3>1, <1>t DEF WorkSound, OrderSound
    <3>3. PeopleKept
      BY <3>1, <3>2, <1>t DEF PeopleKept
    <3>. QED
      BY <3>1, <3>3, UnchangedQuiet DEF vars
  <2>3. CASE OpenSession(r) \/ StoreSession(r) \/ Offer(r)
    <3>. DEFINE s == work[r].session
    <3>1. work[r].pc \in Creating /\ s \in Sessions
          /\ UNCHANGED <<vars, people>>
      BY <2>3, <1>t DEF OpenSession, StoreSession, Offer, At, WorkSound,
                        CallSound, Creating, Ordering, Opening
    <3>2. session[s].payment # "paid" /\ session[s].row # "completed"
      BY <3>1, <1>t DEF WorkSound, OrderSound, Creating, CheckoutInv,
                        SessionSound
    <3>3. /\ session'[s].payment # "paid" /\ session'[s].row # "completed"
          /\ \A z \in Sessions \ {s} : session'[z] = session[z]
      BY <2>3, <3>1, <3>2, <1>t DEF OpenSession, StoreSession, Offer,
                                    SessionRecord
    <3>. QED
      BY <3>1, <3>2, <3>3 DEF RowsQuiet, SameDeal, PeopleKept, people, vars
  <2>. QED
    BY <2>1, <2>2, <2>3
       DEF CheckBuyer, ReadProduct, FindCustomer, CreateCustomer
<1>. QED
  BY <1>1, <1>2 DEF QuietStep

\* So is finding the buyer's account.
LEMMA BuyerQuiet ==
    ASSUME CheckoutInv, NEW r \in Requests,
           \/ ReadSession(r) \/ CheckPaid(r) \/ CheckMember(r) \/ FindUser(r)
           \/ CheckGuest(r) \/ CreateUser(r) \/ Provision(r) \/ Attach(r)
    PROVE  QuietStep(r)
<1>t. /\ work \in [Requests -> WorkRecord] /\ work[r] \in WorkRecord
      /\ session \in [Sessions -> SessionRecord]
      /\ customer \in [Users -> Customers] /\ WorkSound(r)
  BY DEF CheckoutInv, Typed
<1>1. WorkQuiet(r)
  <2>1. /\ \A q \in Requests \ {r} : work'[q] = work[q] /\ call'[q] = call[q]
        /\ work'[r].session = work[r].session
        /\ work'[r].item = work[r].item
        /\ work[r].pc \in {"readSession"} \cup Trying
        /\ work[r].pc \in Asking \cup Identifying
        /\ work'[r].pc \in {"threw", "items", "checkPaid"} \cup Identifying
        /\ work'[r].pc = "checkPaid" =>
              session[work[r].session].row = "pending"
        /\ work[r].pc = "readSession" => work'[r].pc \in {"checkPaid", "threw"}
    <3>1. CASE ReadSession(r) \/ CheckGuest(r)
      BY <3>1, <1>t DEF ReadSession, CheckGuest, At, Move, vars, WorkRecord,
                        Asking, Identifying, Trying
    <3>2. CASE CheckPaid(r)
      BY <3>2, <1>t DEF CheckPaid, At, vars, WorkRecord, Asking, Identifying,
                        Trying
    <3>3. CASE CheckMember(r) \/ FindUser(r)
      BY <3>3, <1>t DEF CheckMember, FindUser, At, vars, WorkRecord, Asking,
                        Identifying, Trying
    <3>4. CASE CreateUser(r) \/ Provision(r) \/ Attach(r)
      BY <3>4, <1>t DEF CreateUser, Provision, Attach, At, Move, vars,
                        WorkRecord, Asking, Identifying, Trying
    <3>. QED
      BY <3>1, <3>2, <3>3, <3>4
  <2>2. work[r].item = 1
    BY <2>1, <1>t DEF WorkSound, LoopSound
  <2>3. work'[r].pc \in Buying => Done(r)' = 0
    BY <2>1, <2>2 DEF Done, At, Buying, Identifying
  <2>. QED
    BY <2>1, <2>3 DEF WorkQuiet, Trying, Identifying, Buying
<1>2. RowsQuiet
  <2>1. CASE UNCHANGED <<vars, session, people>>
    BY <2>1, UnchangedQuiet DEF vars, people, PeopleKept
  <2>2. CASE CreateUser(r) \/ Provision(r)
    <3>1. UNCHANGED <<vars, session, customer>> /\ members \subseteq members'
      BY <2>2 DEF CreateUser, Provision
    <3>. QED
      BY <3>1, UnchangedQuiet DEF vars, PeopleKept
  <2>3. CASE Attach(r)
    <3>1. UNCHANGED <<vars, session, members>>
      BY <2>3 DEF Attach
    <3>2. \A u \in Users : customer[u] # None => customer'[u] # None
      BY <2>3, <1>t DEF Attach
    <3>. QED
      BY <3>1, <3>2, UnchangedQuiet DEF vars, PeopleKept
  <2>. QED
    BY <2>1, <2>2, <2>3
       DEF ReadSession, CheckPaid, CheckMember, FindUser, CheckGuest
<1>. QED
  BY <1>1, <1>2 DEF QuietStep

\* So are going on to the next item, and the start and the end of a request.
LEMMA RequestQuiet ==
    ASSUME CheckoutInv, NEW r \in Requests,
           \/ CreateItem(r) \/ ItemDone(r) \/ Answer(r) \/ Fail(r)
           \/ \E s \in Sessions, u \in accounts \cup {None} :
                 BeginCheckout(r, s, u)
           \/ \E s \in Sessions : BeginVerify(r, s)
    PROVE  QuietStep(r)
<1>t. /\ work \in [Requests -> WorkRecord] /\ work[r] \in WorkRecord
      /\ call \in [Requests -> CallRecord] /\ call[r] \in CallRecord
      /\ WorkSound(r)
  BY DEF CheckoutInv, Typed, TypeInv, TypeOK
<1>1. RowsQuiet
  <2>1. UNCHANGED <<purchases, session, people>>
    BY DEF CreateItem, ItemDone, Answer, Fail, BeginCheckout, BeginVerify, vars,
           tables
  <2>. QED
    BY <2>1, UnchangedQuiet DEF people, PeopleKept
<1>2. CASE CreateItem(r)
  <2>1. /\ work[r].pc = "items" /\ work'[r].pc = "await"
        /\ work'[r].session = work[r].session /\ work'[r].item = work[r].item
        /\ \A q \in Requests \ {r} : work'[q] = work[q]
    BY <1>2, <1>t DEF CreateItem, At, Move, WorkRecord
  <2>2. /\ call'[r].pc = "findProduct"
        /\ \A q \in Requests \ {r} : call'[q] = call[q]
    <3>. DEFINE c == [IdleCall EXCEPT !.op = "create", !.pc = "findProduct",
                             !.user = work[r].user,
                             !.product = Cart[work[r].session][work[r].item],
                             !.ref = work[r].session]
    <3>1. call' = [call EXCEPT ![r] = c]
      BY <1>2 DEF CreateItem
    <3>2. c.pc = "findProduct"
      BY DEF IdleCall
    <3>. QED
      BY <3>1, <3>2, <1>t
  <2>3. WorkQuiet(r)
    BY <2>1, <2>2 DEF WorkQuiet, Trying, Buying, Broken, Done, At
  <2>. QED
    BY <1>1, <2>3 DEF QuietStep
<1>3. CASE ItemDone(r)
  <2>1. /\ work[r].pc = "await"
        /\ work'[r].pc \in {"threw", "complete", "items"}
        /\ call[r].pc = "threw" => work'[r].pc = "threw"
        /\ work'[r].session = work[r].session
        /\ work'[r].item = work[r].item + 1
        /\ \A q \in Requests \ {r} : work'[q] = work[q] /\ call'[q] = call[q]
    BY <1>3, <1>t DEF ItemDone, At, WorkRecord
  <2>2. call[r].pc \in {"returned", "threw"} /\ work[r].item \in Nat
    BY <1>3, <1>t DEF ItemDone, Finished, WorkRecord
  <2>3. work'[r].pc \in Buying => ~Broken(r) /\ Done(r)' = Done(r)
    BY <2>1, <2>2 DEF Done, Broken, At, Buying
  <2>4. WorkQuiet(r)
    BY <2>1, <2>3 DEF WorkQuiet, Trying, Buying
  <2>. QED
    BY <1>1, <2>4 DEF QuietStep
<1>4. CASE Answer(r) \/ Fail(r)
  <2>1. /\ work'[r].pc \in {"idle", "threw"}
        /\ \A q \in Requests \ {r} : work'[q] = work[q] /\ call'[q] = call[q]
    <3>1. CASE Answer(r)
      BY <3>1, <1>t DEF Answer, IdleWork, vars
    <3>2. CASE Fail(r)
      BY <3>2, <1>t DEF Fail, Move, WorkRecord
    <3>. QED
      BY <1>4, <3>1, <3>2
  <2>. QED
    BY <1>1, <2>1 DEF QuietStep, WorkQuiet, Trying, Identifying, Buying
<1>5. CASE \/ \E s \in Sessions, u \in accounts \cup {None} :
                 BeginCheckout(r, s, u)
           \/ \E s \in Sessions : BeginVerify(r, s)
  <2>1. PICK w : /\ work' = [work EXCEPT ![r] = w]
                 /\ w.pc \in {"readProducts", "checkBuyer", "readSession"}
    <3>1. ASSUME NEW s \in Sessions, NEW u \in accounts \cup {None},
                 BeginCheckout(r, s, u)
          PROVE  \E w : /\ work' = [work EXCEPT ![r] = w]
                        /\ w.pc \in {"readProducts", "checkBuyer"}
      <4>. DEFINE w == [IdleWork EXCEPT !.pc = IF u = None THEN "readProducts"
                                           ELSE "checkBuyer",
                                    !.session = s, !.user = u,
                                    !.todo = CartProducts(s)]
      <4>1. work' = [work EXCEPT ![r] = w]
        BY <3>1 DEF BeginCheckout
      <4>2. w.pc \in {"readProducts", "checkBuyer"}
        BY DEF IdleWork
      <4>. QED
        BY <4>1, <4>2
    <3>2. ASSUME NEW s \in Sessions, BeginVerify(r, s)
          PROVE  \E w : /\ work' = [work EXCEPT ![r] = w]
                        /\ w.pc = "readSession"
      <4>. DEFINE w == [IdleWork EXCEPT !.pc = "readSession", !.session = s]
      <4>1. work' = [work EXCEPT ![r] = w]
        BY <3>2 DEF BeginVerify
      <4>2. w.pc = "readSession"
        BY DEF IdleWork
      <4>. QED
        BY <4>1, <4>2
    <3>. QED
      BY <1>5, <3>1, <3>2
  <2>2. /\ work'[r] = w
        /\ \A q \in Requests \ {r} : work'[q] = work[q] /\ call'[q] = call[q]
    BY <1>5, <2>1, <1>t DEF BeginCheckout, BeginVerify, vars
  <2>. QED
    BY <1>1, <2>1, <2>2
       DEF QuietStep, WorkQuiet, Trying, Identifying, Buying
<1>. QED
  BY <1>2, <1>3, <1>4, <1>5

\* All that is not quiet: a payment, a step of purchaseService, and the end of
\* a verification.
LEMMA StepKinds ==
    ASSUME CheckoutInv, CheckoutNext
    PROVE  \/ \E s \in Sessions, u \in Users : Pay(s, u)
           \/ \E r \in Requests :
                 PurchaseStep(r) \/ Complete(r) \/ QuietStep(r)
BY OrderQuiet, BuyerQuiet, RequestQuiet DEF CheckoutNext, WorkStep

-----------------------------------------------------------------------------
(* Sales: who gets what a session paid for *)

\* What a step of purchaseService sells is the item its verification awaits,
\* or has no reference to a session.
LEMMA SaleEffect ==
    ASSUME CheckoutInv, NEW r \in Requests, PurchaseStep(r)
    PROVE  /\ UNCHANGED <<work, session, people>>
           /\ \A q \in Requests \ {r} : call'[q] = call[q]
           /\ At(r, "await") =>
                 /\ CallMoves(r) /\ ~Finished(r)
                 /\ call[r].pc = "insert" /\ call'[r].pc \in SoldSteps
                       => RowSold(call[r])
           /\ \/ RowsSame
              \/ /\ RowSold(call[r])
                 /\ \/ call[r].ref = None
                    \/ At(r, "await") /\ call[r].pc = "insert"
<1>t. TypeInv /\ WorkSound(r)
  BY DEF CheckoutInv, Typed
<1>1. UNCHANGED <<work, session, people>>
  BY DEF PurchaseStep, checkoutVars
<1>2. CASE Step(r) \/ Raise(r)
  <2>1. call[r].ref = None \/ At(r, "await")
    BY <1>t DEF WorkSound, CallSound, At
  <2>. QED
    BY <1>t, <1>1, <1>2, <2>1, StepMoves DEF Finished
<1>3. CASE At(r, "idle") /\ (Receive(r) \/ Respond(r))
  <2>1. /\ \A q \in Requests \ {r} : call'[q] = call[q]
        /\ UNCHANGED tables
    BY <1>t, <1>3, OtherRequest
  <2>. QED
    BY <1>1, <1>3, <2>1 DEF RowsSame, tables, PurchaseIds, At
<1>. QED
  BY <1>2, <1>3 DEF PurchaseStep

LEMMA CompleteEffect ==
    ASSUME CheckoutInv, NEW r \in Requests, Complete(r)
    PROVE  /\ work[r].pc = "complete" /\ work[r].session \in Sessions
           /\ work'[r].pc = "returned"
           /\ \A q \in Requests \ {r} : work'[q] = work[q]
           /\ UNCHANGED <<vars, people>>
           /\ session'[work[r].session].row = "completed"
           /\ \A s \in Sessions \ {work[r].session} : session'[s] = session[s]
           /\ \A s \in Sessions : SameDeal(s)
<1>1. /\ work \in [Requests -> WorkRecord] /\ work[r] \in WorkRecord
      /\ session \in [Sessions -> SessionRecord] /\ WorkSound(r)
  BY DEF CheckoutInv, Typed
<1>2. work[r].pc = "complete" /\ work[r].session \in Sessions
  BY <1>1 DEF Complete, At, WorkSound, CallSound
<1>3. session[work[r].session] \in SessionRecord
  BY <1>1, <1>2
<1>. QED
  BY <1>1, <1>2, <1>3 DEF Complete, Move, WorkRecord, SessionRecord, SameDeal

\* Rows that keep their user, product and reference stay right.
LEMMA SalesFrame ==
    ASSUME SalesInv, PeopleKept, members \subseteq Users,
           \A s \in Sessions : session[s].payment = "paid" => SameDeal(s),
           TypeInv,
           \A i \in PurchaseIds : /\ purchases'[i].user = purchases[i].user
                                  /\ purchases'[i].ref = purchases[i].ref,
           \A n \in PurchaseIds' \ PurchaseIds : SoldRight(n)'
    PROVE  SalesInv'
<1>1. ASSUME NEW i \in PurchaseIds PROVE SoldRight(i)'
  <2>1. SoldRight(i)
    BY DEF SalesInv
  <2>2. purchases[i].ref \in Sessions \cup {None}
    <3>1. purchases[i] \in PurchaseRow
      BY RowsTyped DEF TypeInv
    <3>. QED
      BY <3>1 DEF PurchaseRow, Sessions
  <2>. QED
    BY <2>1, <2>2 DEF SoldRight, SameDeal, PeopleKept
<1>. QED
  BY <1>1 DEF SalesInv

LEMMA SalesStep ==
    ASSUME CheckoutInv, SalesInv, [CheckoutNext]_allVars
    PROVE  SalesInv'
<1>t. TypeInv /\ members \subseteq Users /\ CheckoutInv
  BY DEF CheckoutInv, Typed
<1>u. ASSUME UNCHANGED <<purchases, people>>,
             \A s \in Sessions : session[s].payment = "paid" => SameDeal(s)
      PROVE  SalesInv'
  BY <1>t, <1>u, SalesFrame DEF PurchaseIds, people, PeopleKept
<1>1. CASE UNCHANGED allVars
  BY <1>1, <1>u DEF allVars, vars, checkoutVars, people, SameDeal
<1>2. ASSUME NEW r \in Requests, PurchaseStep(r) PROVE SalesInv'
  <2>1. UNCHANGED <<work, session, people>>
    BY <1>2, <1>t, SaleEffect
  <2>2. PeopleKept /\ \A s \in Sessions : SameDeal(s)
    BY <2>1 DEF people, PeopleKept, SameDeal
  <2>3. CASE RowsSame
    BY <1>t, <2>2, <2>3, SalesFrame DEF RowsSame
  <2>4. CASE RowSold(call[r]) /\ (call[r].ref = None \/ At(r, "await"))
    <3>1. PICK new : new = Len(purchases) + 1
      OBVIOUS
    <3>2. /\ PurchaseIds' = PurchaseIds \cup {new}
          /\ \A i \in PurchaseIds : purchases'[i] = purchases[i]
          /\ purchases'[new].user = call[r].user
          /\ purchases'[new].ref = call[r].ref
      BY <2>4, <3>1 DEF RowSold
    <3>3. SoldRight(new)'
      <4>1. CASE call[r].ref = None
        BY <3>2, <4>1 DEF SoldRight
      <4>2. CASE At(r, "await")
        <5>1. /\ call[r].user = work[r].user /\ call[r].ref = work[r].session
              /\ session[work[r].session].payment = "paid"
              /\ work[r].user = session[work[r].session].payer
              /\ work[r].user \in members
              /\ session[work[r].session].customer # None
                    => customer[work[r].user] # None
          BY <1>t, <4>2 DEF CheckoutInv, WorkSound, CallSound, BuyerSound, At,
                            Buying
        <5>. QED
          BY <2>1, <3>2, <5>1 DEF SoldRight, people
      <4>. QED
        BY <2>4, <4>1, <4>2
    <3>. QED
      BY <1>t, <2>2, <3>2, <3>3, SalesFrame
  <2>. QED
    BY <1>2, <1>t, <2>3, <2>4, SaleEffect
<1>3. ASSUME NEW r \in Requests, Complete(r) PROVE SalesInv'
  BY <1>3, <1>t, <1>u, CompleteEffect DEF vars
<1>4. ASSUME NEW r \in Requests, QuietStep(r) PROVE SalesInv'
  BY <1>4, <1>t, SalesFrame DEF QuietStep, RowsQuiet, PurchaseIds
<1>5. ASSUME NEW s \in Sessions, NEW u \in Users, Pay(s, u) PROVE SalesInv'
  <2>1. UNCHANGED <<purchases, people>>
    BY <1>5 DEF Pay, vars
  <2>2. \A z \in Sessions : session[z].payment = "paid" => SameDeal(z)
    BY <1>5, <1>t, PayStep DEF SameDeal
  <2>. QED
    BY <2>1, <2>2, <1>u
<1>. QED
  BY <1>t, <1>1, <1>2, <1>3, <1>4, <1>5, StepKinds

\* Nobody can pay for a session the shop does not know, whatever the number of
\* sessions and requests and wherever createSession breaks off.
THEOREM PaidSessionIsKnown == CheckoutSpec => []PaidSessionIsStored
<1>1. CheckoutInv => PaidSessionIsStored
  BY DEF CheckoutInv, SessionSound, PaidSessionIsStored
<1>. QED
  BY <1>1, CheckoutInvInit, CheckoutInvStep, PTL DEF CheckoutSpec

LEMMA SalesAreRight == CheckoutSpec => [](CheckoutInv /\ SalesInv)
<1>1. CheckoutInit => SalesInv
  BY EmptySeq DEF CheckoutInit, Init, SalesInv, PurchaseIds
<1>2. CheckoutInv /\ SalesInv /\ [CheckoutNext]_allVars => SalesInv'
  BY SalesStep
<1>. QED
  BY <1>1, <1>2, CheckoutInvInit, CheckoutInvStep, PTL DEF CheckoutSpec

\* What a session paid for goes to the account of its buyer, who is a member of
\* the tenant and of no other, however verifications overlap and break off.
THEOREM SoldToTheBuyer == CheckoutSpec => []FulfilledToMember
<1>1. CheckoutInv /\ SalesInv => FulfilledToMember
  BY DEF CheckoutInv, Typed, SalesInv, SoldRight, FulfilledToMember
<1>. QED
  BY <1>1, SalesAreRight, PTL

\* Whoever got something from a session with a customer has a customer on file.
THEOREM TheBuyerHasACustomer == CheckoutSpec => []FulfilledHasCustomer
<1>1. SalesInv => FulfilledHasCustomer
  BY DEF SalesInv, SoldRight, FulfilledHasCustomer
<1>. QED
  BY <1>1, SalesAreRight, PTL

-----------------------------------------------------------------------------
(* Delivery: how much of a cart was bought *)

\* Counting cart s up to a position: nothing before the first, one more where
\* the product stands, the whole cart at its end.
LEMMA CountAhead ==
    ASSUME NEW s \in Sessions, NEW p \in Products
    PROVE  /\ Cardinality(Ahead(s, 0, p)) = 0
           /\ Cardinality(Ahead(s, Len(Cart[s]), p)) = OrderedGoods[s][p]
           /\ OrderedGoods[s][p] \in Nat
           /\ \A n \in Items(s) :
                 /\ Cardinality(Ahead(s, n - 1, p)) \in Nat
                 /\ Cardinality(Ahead(s, n, p)) =
                       Cardinality(Ahead(s, n - 1, p))
                          + (IF Cart[s][n] = p THEN 1 ELSE 0)
<1>1. Items(s) = 1..Len(Cart[s]) /\ Len(Cart[s]) \in Nat
  BY CartPositions
<1>2. InCart(s, p) \subseteq 1..Len(Cart[s])
  BY <1>1 DEF InCart
<1>3. IsFiniteSet(1..Len(Cart[s]))
  BY <1>1, FS_Interval
<1>4. ASSUME NEW n \in Int PROVE IsFiniteSet(Ahead(s, n, p))
  <2>1. Ahead(s, n, p) \subseteq 1..Len(Cart[s])
    BY <1>2 DEF Ahead
  <2>. QED
    BY <1>3, <2>1, FS_Subset
<1>5. Cardinality(Ahead(s, 0, p)) = 0
  <2>1. Ahead(s, 0, p) = {}
    BY <1>1, <1>2 DEF Ahead
  <2>. QED
    BY <2>1, FS_EmptySet
<1>6. Ahead(s, Len(Cart[s]), p) = InCart(s, p)
  BY <1>1, <1>2 DEF Ahead
<1>7. IsFiniteSet(InCart(s, p))
  BY <1>2, <1>3, FS_Subset
<1>8. OrderedGoods[s][p] = Cardinality(InCart(s, p))
  BY DEF OrderedGoods
<1>9. OrderedGoods[s][p] \in Nat
  BY <1>7, <1>8, FS_CardinalityType
<1>10. ASSUME NEW n \in Items(s)
       PROVE  /\ Cardinality(Ahead(s, n - 1, p)) \in Nat
              /\ Cardinality(Ahead(s, n, p)) =
                    Cardinality(Ahead(s, n - 1, p))
                       + (IF Cart[s][n] = p THEN 1 ELSE 0)
  <2>1. n \in Nat /\ n - 1 \in Int
    BY <1>1
  <2>2. IsFiniteSet(Ahead(s, n - 1, p))
    BY <1>4, <2>1
  <2>3. Cardinality(Ahead(s, n - 1, p)) \in Nat
    BY <2>2, FS_CardinalityType
  <2>4. CASE Cart[s][n] = p
    <3>1. Ahead(s, n, p) = Ahead(s, n - 1, p) \cup {n}
      BY <1>1, <1>2, <2>1, <2>4 DEF Ahead, InCart
    <3>2. n \notin Ahead(s, n - 1, p)
      BY <2>1 DEF Ahead
    <3>. QED
      BY <2>2, <2>3, <2>4, <3>1, <3>2, FS_AddElement
  <2>5. CASE Cart[s][n] # p
    <3>1. Ahead(s, n, p) = Ahead(s, n - 1, p)
      BY <1>1, <1>2, <2>1, <2>5 DEF Ahead, InCart
    <3>. QED
      BY <2>3, <2>5, <3>1
  <2>. QED
    BY <2>4, <2>5
<1>. QED
  BY <1>5, <1>6, <1>8, <1>9, <1>10

\* What was bought is counted in natural numbers.
LEMMA HandedTyped ==
    ASSUME TypeInv, NEW s \in Sessions, NEW p \in Products
    PROVE  /\ IsFiniteSet(Bought(s, p))
           /\ HandedGoods[s][p] = Cardinality(Bought(s, p))
           /\ HandedGoods[s][p] \in Nat
<1>1. PurchaseIds = 1..Len(purchases) /\ Len(purchases) \in Nat
  BY LenProperties DEF TypeInv, TypeOK, PurchaseIds
<1>2. IsFiniteSet(PurchaseIds)
  BY <1>1, FS_Interval
<1>3. IsFiniteSet(Bought(s, p))
  BY <1>2, FS_Subset DEF Bought
<1>. QED
  BY <1>3, FS_CardinalityType DEF HandedGoods

\* Without a sale the count stays.
LEMMA HandedSame ==
    ASSUME RowsSame
    PROVE  HandedGoods' = HandedGoods
<1>1. ASSUME NEW s \in Sessions, NEW p \in Products
      PROVE  Bought(s, p)' = Bought(s, p)
  BY DEF RowsSame, Bought
<1>2. HandedGoods' = [s \in Sessions |-> [p \in Products |->
                        Cardinality(Bought(s, p)')]]
  BY DEF HandedGoods
<1>. QED
  BY <1>1, <1>2 DEF HandedGoods

\* A sale for a session counts once, where the procedure's arguments say.
LEMMA HandedOne ==
    ASSUME TypeInv, TypeInv', NEW s0, NEW p0,
           NEW r \in Requests, call[r].ref = s0, call[r].product = p0,
           RowSold(call[r])
    PROVE  /\ s0 \in Sessions /\ p0 \in Products =>
                 HandedGoods' = [HandedGoods EXCEPT ![s0][p0] = @ + 1]
           /\ s0 = None => HandedGoods' = HandedGoods
           /\ \A s \in Sessions, p \in Products :
                 HandedGoods'[s][p] = HandedGoods[s][p]
                    + (IF s = s0 /\ p = p0 THEN 1 ELSE 0)
<1>. PICK n : n = Len(purchases) + 1
  OBVIOUS
<1>1. /\ PurchaseIds' = PurchaseIds \cup {n} /\ n \notin PurchaseIds
      /\ \A i \in PurchaseIds : purchases'[i] = purchases[i]
      /\ purchases'[n].product = p0 /\ purchases'[n].ref = s0
  BY DEF RowSold
<1>2. ASSUME NEW s \in Sessions, NEW p \in Products
      PROVE  HandedGoods'[s][p] = HandedGoods[s][p]
                + (IF s = s0 /\ p = p0 THEN 1 ELSE 0)
  <2>1. /\ IsFiniteSet(Bought(s, p))
        /\ HandedGoods[s][p] = Cardinality(Bought(s, p))
        /\ HandedGoods[s][p] \in Nat
    BY HandedTyped
  <2>2. HandedGoods'[s][p] = Cardinality(Bought(s, p)')
    BY DEF HandedGoods
  <2>3. CASE s = s0 /\ p = p0
    <3>1. Bought(s, p)' = Bought(s, p) \cup {n} /\ n \notin Bought(s, p)
      BY <1>1, <2>3 DEF Bought
    <3>2. Cardinality(Bought(s, p) \cup {n}) = Cardinality(Bought(s, p)) + 1
      BY <2>1, <3>1, FS_AddElement
    <3>3. HandedGoods'[s][p] = Cardinality(Bought(s, p) \cup {n})
      BY <2>2, <3>1
    <3>. QED
      BY <2>1, <2>3, <3>2, <3>3
  <2>4. CASE ~(s = s0 /\ p = p0)
    <3>1. Bought(s, p)' = Bought(s, p)
      BY <1>1, <2>4 DEF Bought
    <3>. QED
      BY <2>1, <2>2, <2>4, <3>1
  <2>. QED
    BY <2>3, <2>4
<1>3. /\ HandedGoods \in [Sessions -> [Products -> Nat]]
      /\ HandedGoods' = [s \in Sessions |-> [p \in Products |->
                           HandedGoods'[s][p]]]
  <2>1. HandedGoods = [s \in Sessions |-> [p \in Products |->
                           HandedGoods[s][p]]]
    BY DEF HandedGoods
  <2>2. HandedGoods' = [s \in Sessions |-> [p \in Products |->
                           HandedGoods'[s][p]]]
    BY DEF HandedGoods
  <2>. QED
    BY <2>1, <2>2, HandedTyped
<1>4. ASSUME s0 \in Sessions, p0 \in Products
      PROVE  HandedGoods' = [HandedGoods EXCEPT ![s0][p0] = @ + 1]
  <2>. DEFINE H == [HandedGoods EXCEPT ![s0][p0] = @ + 1]
  <2>1. \A s \in Sessions, p \in Products : H[s][p] = HandedGoods'[s][p]
    BY <1>2, <1>3, <1>4
  <2>2. H = [s \in Sessions |-> [p \in Products |-> H[s][p]]]
    BY <1>3, <1>4
  <2>. HIDE DEF H
  <2>3. H = [s \in Sessions |-> [p \in Products |-> HandedGoods'[s][p]]]
    BY <2>1, <2>2
  <2>. QED
    BY <1>3, <2>3 DEF H
<1>5. ASSUME s0 = None
      PROVE  HandedGoods' = HandedGoods
  <2>1. s0 \notin Sessions
    BY <1>5, CatalogueAssumption DEF Sessions
  <2>2. \A s \in Sessions, p \in Products : HandedGoods'[s][p] = HandedGoods[s][p]
    BY <1>2, <1>3, <2>1
  <2>. QED
    BY <1>3, <2>2
<1>. QED
  BY <1>2, <1>4, <1>5

\* Who counts what was bought, and what is counted.
LEMMA DeliveryFrame ==
    ASSUME CheckoutInv, CheckoutInv', DeliveryInv, NEW r \in Requests,
           \A q \in Requests \ {r} : work'[q] = work[q] /\ call'[q] = call[q],
           \A s \in Sessions, p \in Products :
              HandedGoods'[s][p] >= HandedGoods[s][p],
           Delivers(r)',
           \A s \in Sessions :
              \/ session[s].row = "completed"
              \/ session'[s].row = "completed" => Delivered(s)'
    PROVE  DeliveryInv'
<1>h. ASSUME NEW s \in Sessions, NEW p \in Products
      PROVE  /\ HandedGoods[s][p] \in Nat /\ HandedGoods'[s][p] \in Nat
             /\ HandedGoods'[s][p] >= HandedGoods[s][p]
  <2>1. HandedGoods[s][p] \in Nat
    BY HandedTyped DEF CheckoutInv, Typed
  <2>2. HandedGoods'[s][p] = Cardinality(Bought(s, p)')
    BY DEF HandedGoods
  <2>3. Cardinality(Bought(s, p)') \in Nat
    <3>0. purchases' \in Seq(PurchaseRow)
      BY DEF CheckoutInv, Typed, TypeInv, TypeOK
    <3>1. PICK n \in Nat : PurchaseIds' = 1..n
      BY <3>0, LenProperties DEF PurchaseIds
    <3>2. IsFiniteSet(PurchaseIds')
      <4>1. n \in Int /\ 1 \in Int
        OBVIOUS
      <4>2. IsFiniteSet(1..n)
        BY ONLY <4>1, FS_Interval
      <4>. QED
        BY <3>1, <4>2
    <3>3. Bought(s, p)' \subseteq PurchaseIds'
      BY DEF Bought
    <3>. QED
      BY <3>2, <3>3, FS_Subset, FS_CardinalityType
  <2>. QED
    BY <2>1, <2>2, <2>3
<1>1. ASSUME NEW q \in Requests, q # r PROVE Delivers(q)'
  <2>1. Delivers(q) /\ work'[q] = work[q] /\ call'[q] = call[q]
    BY <1>1 DEF DeliveryInv
  <2>2. ASSUME work[q].pc \in Buying, ~(At(q, "await") /\ call[q].pc = "threw"),
               NEW p \in Products
        PROVE  Cardinality(Ahead(work[q].session, Done(q), p))
                  <= HandedGoods'[work[q].session][p]
    <3>1. work[q].session \in Sessions /\ work[q] \in WorkRecord
      BY <2>2 DEF CheckoutInv, Typed, WorkSound, CallSound, Buying
    <3>2. work[q].pc \in {"items", "await"} =>
             work[q].item \in Items(work[q].session)
      BY DEF CheckoutInv, WorkSound, LoopSound
    <3>3. work[q].pc = "complete" =>
             work[q].item = Len(Cart[work[q].session]) + 1
      BY DEF CheckoutInv, WorkSound, LoopSound
    <3>4. Cardinality(Ahead(work[q].session, Done(q), p)) \in Nat
      <4>1. CASE work[q].pc = "complete"
        <5>1. Done(q) = Len(Cart[work[q].session])
          BY <3>1, <3>3, <4>1, CartPositions DEF Done, At
        <5>. QED
          BY <3>1, <5>1, CountAhead
      <4>2. CASE work[q].pc # "complete"
        <5>1. work[q].item \in Items(work[q].session)
          BY <2>2, <3>2, <4>2 DEF Buying
        <5>2. Done(q) = work[q].item \/ Done(q) = work[q].item - 1
          BY DEF Done
        <5>. QED
          BY <3>1, <5>1, <5>2, CountAhead
      <4>. QED
        BY <4>1, <4>2
    <3>5. Cardinality(Ahead(work[q].session, Done(q), p))
             <= HandedGoods[work[q].session][p]
      BY <2>1, <2>2 DEF Delivers
    <3>. QED
      BY <1>h, <3>1, <3>4, <3>5
  <2>3. Done(q)' = Done(q)
    BY <2>1 DEF Done, At
  <2>. QED
    BY <2>1, <2>2, <2>3 DEF Delivers, At
<1>2. ASSUME NEW s \in Sessions PROVE Delivered(s)'
  <2>1. CASE session[s].row = "completed"
    <3>1. \A p \in Products : OrderedGoods[s][p] <= HandedGoods[s][p]
      BY <2>1 DEF DeliveryInv, Delivered
    <3>. QED
      BY <1>h, <3>1, CountAhead DEF Delivered
  <2>2. CASE session'[s].row # "completed"
    BY <2>2 DEF Delivered
  <2>. QED
    BY <2>1, <2>2
<1>. QED
  BY <1>1, <1>2 DEF DeliveryInv

LEMMA DeliveryStep ==
    ASSUME CheckoutInv, DeliveryInv, [CheckoutNext]_allVars
    PROVE  DeliveryInv'
<1>t. CheckoutInv /\ CheckoutInv' /\ TypeInv /\ TypeInv'
  <2>1. CheckoutInv'
    BY CheckoutInvStep
  <2>. QED
    BY <2>1 DEF CheckoutInv, Typed
<1>h. \A s \in Sessions, p \in Products : HandedGoods[s][p] \in Nat
  BY <1>t, HandedTyped
<1>s. UNCHANGED purchases => HandedGoods' = HandedGoods
  BY HandedSame DEF RowsSame, PurchaseIds
<1>1. CASE UNCHANGED allVars
  <2>1. /\ UNCHANGED <<work, call, session>> /\ HandedGoods' = HandedGoods
    BY <1>1, <1>s DEF allVars, vars, checkoutVars
  <2>2. \A r \in Requests : Done(r)' = Done(r)
    BY <2>1 DEF Done, At
  <2>. QED
    BY <2>1, <2>2 DEF DeliveryInv, Delivers, Delivered, At
<1>2. ASSUME NEW r \in Requests, PurchaseStep(r) PROVE DeliveryInv'
  <2>1. /\ UNCHANGED <<work, session>>
        /\ \A q \in Requests \ {r} : call'[q] = call[q]
        /\ At(r, "await") =>
              /\ CallMoves(r) /\ ~Finished(r)
              /\ call[r].pc = "insert" /\ call'[r].pc \in SoldSteps
                    => RowSold(call[r])
        /\ \/ RowsSame
           \/ /\ RowSold(call[r])
              /\ \/ call[r].ref = None
                 \/ At(r, "await") /\ call[r].pc = "insert"
    <3>1. CheckoutInv /\ PurchaseStep(r)
      BY <1>2, <1>t
    <3>. QED
      BY <3>1, SaleEffect
  <2>2. RowSold(call[r]) =>
           \A s \in Sessions, p \in Products :
              HandedGoods'[s][p] = HandedGoods[s][p]
                 + (IF s = call[r].ref /\ p = call[r].product THEN 1 ELSE 0)
    BY <1>t, HandedOne
  <2>3. \A s \in Sessions, p \in Products :
           HandedGoods'[s][p] >= HandedGoods[s][p]
    BY <1>h, <2>1, <2>2, HandedSame
  <2>4. Delivers(r)'
    <3>1. CASE ~At(r, "await")
      <4>1. Done(r)' = Done(r)
        BY <2>1, <3>1 DEF Done, At
      <4>2. RowSold(call[r]) => call[r].ref = None \/ RowsSame
        BY <2>1, <3>1
      <4>3. CASE work[r].pc \in Buying
        <5>1. work[r].session \in Sessions /\ WorkSound(r)
          BY <1>t, <4>3 DEF CheckoutInv, WorkSound, CallSound, Buying
        <5>2. \A p \in Products : HandedGoods'[work[r].session][p]
                                     = HandedGoods[work[r].session][p]
          <6>1. CASE RowsSame
            BY <6>1, HandedSame
          <6>2. CASE RowSold(call[r]) /\ call[r].ref = None
            BY <1>h, <2>2, <5>1, <6>2, CatalogueAssumption DEF Sessions
          <6>. QED
            BY <2>1, <3>1, <6>1, <6>2
        <5>. QED
          BY <2>1, <3>1, <4>1, <5>2 DEF DeliveryInv, Delivers, At
      <4>4. CASE work[r].pc \notin Buying
        BY <2>1, <4>4 DEF Delivers
      <4>. QED
        BY <4>3, <4>4
    <3>2. CASE At(r, "await")
      <4>. DEFINE s == work[r].session
                  n == work[r].item
      <4>1. /\ s \in Sessions /\ n \in Items(s)
            /\ call[r].op = "create" /\ call[r].pc \in CreateSteps
            /\ call[r].ref = s /\ call[r].product = Cart[s][n]
        BY <1>t, <3>2 DEF CheckoutInv, WorkSound, CallSound, LoopSound, At
      <4>2. /\ call[r].pc \notin {"returned", "threw"}
            /\ call'[r].pc \in SoldSteps => call[r].pc \in SoldSteps \cup {"insert"}
        BY <2>1, <3>2, <4>1 DEF CallMoves, Finished
      <4>3. /\ Done(r) = IF call[r].pc \in SoldSteps THEN n ELSE n - 1
            /\ Done(r)' = IF call'[r].pc \in SoldSteps THEN n ELSE n - 1
        BY <2>1, <3>2 DEF Done, At, SoldSteps
      <4>4. ASSUME NEW p \in Products
            PROVE  Cardinality(Ahead(s, Done(r), p)) <= HandedGoods[s][p]
        BY <3>2, <4>2 DEF DeliveryInv, Delivers, At, Buying
      <4>5. ASSUME NEW p \in Products, call'[r].pc # "threw"
            PROVE  Cardinality(Ahead(s, Done(r)', p)) <= HandedGoods'[s][p]
        <5>1. /\ Cardinality(Ahead(s, n - 1, p)) \in Nat
              /\ Cardinality(Ahead(s, n, p)) =
                    Cardinality(Ahead(s, n - 1, p))
                       + (IF Cart[s][n] = p THEN 1 ELSE 0)
          BY <4>1, CountAhead
        <5>2. HandedGoods[s][p] \in Nat /\ HandedGoods'[s][p] >= HandedGoods[s][p]
              /\ (HandedGoods'[s][p] = HandedGoods[s][p]
                  \/ HandedGoods'[s][p] = HandedGoods[s][p] + 1)
          BY <1>h, <2>1, <2>2, <2>3, <4>1, HandedSame
        <5>3. CASE Done(r)' = Done(r) \/ Done(r)' = n - 1
          BY <4>3, <4>4, <5>1, <5>2, <5>3
        <5>4. CASE call[r].pc = "insert" /\ call'[r].pc \in SoldSteps
          <6>1. RowSold(call[r])
            BY <2>1, <3>2, <5>4
          <6>2. HandedGoods'[s][p] = HandedGoods[s][p]
                   + (IF Cart[s][n] = p THEN 1 ELSE 0)
            BY <2>2, <4>1, <6>1
          <6>3. Done(r) = n - 1 /\ Done(r)' = n
            BY <4>3, <5>4 DEF SoldSteps
          <6>. QED
            BY <4>4, <5>1, <5>2, <6>2, <6>3
        <5>. QED
          BY <4>2, <4>3, <5>3, <5>4
      <4>. QED
        BY <2>1, <4>5, <3>2 DEF Delivers, At
    <3>. QED
      BY <3>1, <3>2
  <2>. QED
    BY <1>t, <2>1, <2>3, <2>4, DeliveryFrame DEF Delivered
<1>3. ASSUME NEW r \in Requests, Complete(r) PROVE DeliveryInv'
  <2>. PICK s : s = work[r].session
    OBVIOUS
  <2>1. /\ work[r].pc = "complete" /\ s \in Sessions
        /\ work'[r].pc = "returned"
        /\ \A q \in Requests \ {r} : work'[q] = work[q]
        /\ UNCHANGED <<vars, people>>
        /\ session'[s].row = "completed"
        /\ \A z \in Sessions \ {s} : session'[z] = session[z]
    BY <1>3, <1>t, CompleteEffect
  <2>2. UNCHANGED call /\ HandedGoods' = HandedGoods
    BY <1>s, <2>1 DEF vars
  <2>3. Done(r) = Len(Cart[s])
    <3>1. work[r].item = Len(Cart[s]) + 1 /\ Len(Cart[s]) \in Nat
      BY <1>t, <2>1, CartPositions DEF CheckoutInv, WorkSound, LoopSound
    <3>. QED
      BY <2>1, <3>1 DEF Done, At
  <2>4. ASSUME NEW p \in Products
        PROVE  OrderedGoods[s][p] <= HandedGoods'[s][p]
    <3>1. Cardinality(Ahead(s, Done(r), p)) <= HandedGoods[s][p]
      BY <2>1 DEF DeliveryInv, Delivers, At, Buying
    <3>. QED
      BY <2>1, <2>2, <2>3, <3>1, CountAhead
  <2>5. Delivers(r)'
    BY <2>1 DEF Delivers, Buying
  <2>6. ASSUME NEW z \in Sessions, session'[z].row = "completed",
               session[z].row # "completed"
        PROVE  Delivered(z)'
    BY <2>1, <2>4, <2>6 DEF Delivered
  <2>7. \A z \in Sessions, p \in Products :
           HandedGoods'[z][p] >= HandedGoods[z][p]
    BY <1>h, <2>2
  <2>. QED
    BY <1>t, <2>1, <2>2, <2>5, <2>6, <2>7, DeliveryFrame
<1>4. ASSUME NEW r \in Requests, QuietStep(r) PROVE DeliveryInv'
  <2>1. /\ RowsQuiet /\ WorkQuiet(r)
        /\ \A q \in Requests \ {r} : work'[q] = work[q] /\ call'[q] = call[q]
        /\ UNCHANGED purchases /\ HandedGoods' = HandedGoods
    BY <1>4, <1>s DEF QuietStep, RowsQuiet, WorkQuiet
  <2>2. \A z \in Sessions, p \in Products :
           HandedGoods'[z][p] >= HandedGoods[z][p]
    BY <1>h, <2>1
  <2>3. Delivers(r)'
    <3>1. ASSUME work'[r].pc \in Buying, ~Broken(r)', NEW p \in Products
          PROVE  Cardinality(Ahead(work'[r].session, Done(r)', p))
                    <= HandedGoods'[work'[r].session][p]
      <4>1. work'[r].session \in Sessions
        BY <1>t, <3>1 DEF CheckoutInv, WorkSound, CallSound, Buying
      <4>2. CASE Done(r)' = 0
        <5>1. Cardinality(Ahead(work'[r].session, 0, p)) = 0
          BY <4>1, CountAhead
        <5>. QED
          BY <1>h, <2>1, <4>1, <4>2, <5>1
      <4>3. CASE /\ work[r].pc \in Buying /\ ~Broken(r)
                 /\ Done(r)' = Done(r)
        <5>1. work'[r].session = work[r].session
          BY <2>1, <3>1 DEF WorkQuiet, Trying
        <5>2. Cardinality(Ahead(work[r].session, Done(r), p))
                 <= HandedGoods[work[r].session][p]
          BY <4>3 DEF DeliveryInv, Delivers, Broken
        <5>. QED
          BY <2>1, <4>3, <5>1, <5>2
      <4>. QED
        BY <2>1, <3>1, <4>2, <4>3 DEF WorkQuiet
    <3>. QED
      BY <3>1 DEF Delivers, Broken
  <2>4. ASSUME NEW z \in Sessions, session'[z].row = "completed"
        PROVE  session[z].row = "completed"
    BY <2>1, <2>4 DEF RowsQuiet
  <2>. QED
    BY <1>t, <2>1, <2>2, <2>3, <2>4, DeliveryFrame
<1>5. ASSUME NEW s \in Sessions, NEW u \in Users, Pay(s, u)
      PROVE  DeliveryInv'
  <2>1. /\ UNCHANGED <<work, call>> /\ HandedGoods' = HandedGoods
        /\ \A z \in Sessions \ {s} : session'[z] = session[z]
        /\ session'[s].row = session[s].row
    BY <1>5, <1>s, <1>t, PayStep DEF Pay, vars
  <2>2. \A r \in Requests : Done(r)' = Done(r)
    BY <2>1 DEF Done, At
  <2>. QED
    BY <2>1, <2>2 DEF DeliveryInv, Delivers, Delivered, At
<1>. QED
  BY <1>t, <1>1, <1>2, <1>3, <1>4, <1>5, StepKinds

LEMMA DeliveriesAreMade == CheckoutSpec => [](CheckoutInv /\ SalesInv /\ DeliveryInv)
<1>1. CheckoutInit => DeliveryInv
  <2>. SUFFICES ASSUME CheckoutInit PROVE DeliveryInv
    OBVIOUS
  <2>1. ASSUME NEW r \in Requests PROVE Delivers(r)
    BY DEF CheckoutInit, IdleWork, Delivers, Buying
  <2>2. ASSUME NEW s \in Sessions PROVE Delivered(s)
    BY DEF CheckoutInit, NoSession, Delivered
  <2>. QED
    BY <2>1, <2>2 DEF DeliveryInv
<1>2. CheckoutInv /\ DeliveryInv /\ [CheckoutNext]_allVars => DeliveryInv'
  BY DeliveryStep
<1>3. CheckoutSpec => [](CheckoutInv /\ SalesInv)
  BY SalesAreRight
<1>. QED
  BY <1>1, <1>2, <1>3, PTL DEF CheckoutSpec

\* A completed session was delivered in full, to its buyer, although purchases
\* are made one by one, by verifications that overlap and break off anywhere.
THEOREM CompletedIsDelivered == CheckoutSpec => []CompletedIsFulfilled
<1>1. ASSUME CheckoutInv, SalesInv, DeliveryInv PROVE CompletedIsFulfilled
  <2>1. ASSUME NEW s \in Sessions, session[s].row = "completed",
               NEW p \in CartProducts(s)
        PROVE  /\ Cardinality(InCart(s, p)) <= Cardinality(Bought(s, p))
               /\ \E i \in Bought(s, p) : purchases[i].user = session[s].payer
    <3>1. p \in Products
      BY <2>1, CartPositions
    <3>2. PICK k \in Items(s) : Cart[s][k] = p
      BY <2>1 DEF CartProducts
    <3>3. /\ IsFiniteSet(InCart(s, p)) /\ IsFiniteSet(Bought(s, p))
          /\ Cardinality(InCart(s, p)) <= Cardinality(Bought(s, p))
      <4>1. OrderedGoods[s][p] <= HandedGoods[s][p]
        BY <1>1, <2>1, <3>1 DEF DeliveryInv, Delivered
      <4>2. OrderedGoods[s][p] = Cardinality(InCart(s, p))
        BY <3>1 DEF OrderedGoods
      <4>3. /\ HandedGoods[s][p] = Cardinality(Bought(s, p))
            /\ IsFiniteSet(Bought(s, p))
        BY <1>1, <3>1, HandedTyped DEF CheckoutInv, Typed
      <4>4. IsFiniteSet(InCart(s, p))
        <5>1. Items(s) = 1..Len(Cart[s]) /\ Len(Cart[s]) \in Nat
          BY CartPositions
        <5>2. InCart(s, p) \subseteq 1..Len(Cart[s])
          BY <5>1 DEF InCart
        <5>3. IsFiniteSet(1..Len(Cart[s]))
          BY <5>1, FS_Interval
        <5>. QED
          BY <5>2, <5>3, FS_Subset
      <4>. QED
        BY <4>1, <4>2, <4>3, <4>4
    <3>4. Bought(s, p) # {}
      <4>1. InCart(s, p) # {}
        BY <3>2 DEF InCart
      <4>2. Cardinality(InCart(s, p)) # 0 /\ Cardinality(InCart(s, p)) \in Nat
        BY <3>3, <4>1, FS_EmptySet, FS_CardinalityType
      <4>3. Cardinality({}) = 0
        BY FS_EmptySet
      <4>. QED
        BY <3>3, <4>2, <4>3
    <3>5. PICK i \in Bought(s, p) : TRUE
      BY <3>4
    <3>6. purchases[i].user = session[s].payer
      <4>1. i \in PurchaseIds /\ purchases[i].ref = s /\ s # None
        BY CatalogueAssumption DEF Bought, Sessions
      <4>. QED
        BY <1>1, <4>1 DEF SalesInv, SoldRight
    <3>. QED
      BY <3>3, <3>5, <3>6
  <2>. QED
    BY <2>1 DEF CompletedIsFulfilled
<1>. QED
  BY <1>1, DeliveriesAreMade, PTL

-----------------------------------------------------------------------------
(* Checkout implements Fulfilment *)

Attempters(s) == {r \in Requests : Attempting(r, s)}

\* However many slots there are, finitely many verify a session.
AttemptsInv == \A s \in Sessions : IsFiniteSet(Attempters(s))

LEMMA AttemptsCounted ==
    ASSUME AttemptsInv
    PROVE  /\ Attempts \in [Sessions -> Nat]
           /\ \A s \in Sessions : Attempts[s] = Cardinality(Attempters(s))
           /\ \A s \in Sessions : \A r \in Attempters(s) : Attempts[s] > 0
<1>1. ASSUME NEW s \in Sessions
      PROVE  /\ Attempts[s] = Cardinality(Attempters(s))
             /\ Cardinality(Attempters(s)) \in Nat
  BY FS_CardinalityType DEF AttemptsInv, Attempts, Attempters
<1>2. ASSUME NEW s \in Sessions, NEW r \in Attempters(s)
      PROVE  Attempts[s] > 0
  <2>1. IsFiniteSet(Attempters(s)) /\ Attempters(s) # {}
    BY <1>2 DEF AttemptsInv
  <2>2. Cardinality(Attempters(s)) # 0
    BY <2>1, FS_EmptySet
  <2>. QED
    BY <1>1, <2>2
<1>3. Attempts \in [Sessions -> Nat]
  BY <1>1 DEF Attempts, Attempters
<1>. QED
  BY <1>1, <1>2, <1>3

\* Slot r enters the verification of s, or leaves it, or neither.
LEMMA AttemptsMove ==
    ASSUME AttemptsInv, NEW r \in Requests, NEW s \in Sessions,
           \A q \in Requests \ {r} : work'[q] = work[q],
           \A z \in Sessions \ {s} : Attempting(r, z)' <=> Attempting(r, z)
    PROVE  /\ AttemptsInv'
           /\ (Attempting(r, s)' <=> Attempting(r, s)) => Attempts' = Attempts
           /\ ~Attempting(r, s) /\ Attempting(r, s)' =>
                 Attempts' = [Attempts EXCEPT ![s] = @ + 1]
           /\ Attempting(r, s) /\ ~Attempting(r, s)' =>
                 /\ Attempts' = [Attempts EXCEPT ![s] = @ - 1]
                 /\ Attempts[s] > 0
<1>1. ASSUME NEW z \in Sessions
      PROVE  Attempters(z)' = IF Attempting(r, z)' THEN Attempters(z) \cup {r}
                              ELSE Attempters(z) \ {r}
  BY DEF Attempters, Attempting
<1>2. ASSUME NEW z \in Sessions, z # s
      PROVE  Attempters(z)' = Attempters(z)
  BY <1>1, <1>2 DEF Attempters
<1>3. ASSUME NEW z \in Sessions
      PROVE  IsFiniteSet(Attempters(z)) /\ IsFiniteSet(Attempters(z)')
  <2>1. IsFiniteSet(Attempters(z))
    BY DEF AttemptsInv
  <2>2. IsFiniteSet(Attempters(z) \cup {r}) /\ IsFiniteSet(Attempters(z) \ {r})
    BY <2>1, FS_AddElement, FS_RemoveElement
  <2>. QED
    BY <1>1, <2>1, <2>2
<1>4. AttemptsInv'
  BY <1>3 DEF AttemptsInv
<1>5. Attempts \in [Sessions -> Nat]
      /\ \A z \in Sessions : Attempts[z] = Cardinality(Attempters(z))
  BY AttemptsCounted
<1>6. /\ Attempts' = [z \in Sessions |-> Attempts'[z]]
      /\ \A z \in Sessions : Attempts'[z] = Cardinality(Attempters(z)')
  BY DEF Attempts, Attempters
<1>7. \A z \in Sessions \ {s} : Attempts'[z] = Attempts[z]
  BY <1>2, <1>5, <1>6
<1>8. ASSUME Attempting(r, s)' <=> Attempting(r, s)
      PROVE  Attempts' = Attempts
  <2>1. Attempters(s)' = Attempters(s)
    BY <1>1, <1>8 DEF Attempters
  <2>2. \A z \in Sessions : Attempts'[z] = Attempts[z]
    BY <1>5, <1>6, <1>7, <2>1
  <2>. QED
    BY <1>5, <1>6, <2>2
<1>9. ASSUME ~Attempting(r, s), Attempting(r, s)'
      PROVE  Attempts' = [Attempts EXCEPT ![s] = @ + 1]
  <2>1. Attempters(s)' = Attempters(s) \cup {r} /\ r \notin Attempters(s)
    BY <1>1, <1>9 DEF Attempters
  <2>2. Cardinality(Attempters(s) \cup {r}) = Cardinality(Attempters(s)) + 1
    BY <1>3, <2>1, FS_AddElement
  <2>3. Attempts'[s] = Attempts[s] + 1
    BY <1>5, <1>6, <2>1, <2>2
  <2>. QED
    BY <1>5, <1>6, <1>7, <2>3
<1>10. ASSUME Attempting(r, s), ~Attempting(r, s)'
       PROVE  /\ Attempts' = [Attempts EXCEPT ![s] = @ - 1]
              /\ Attempts[s] > 0
  <2>1. Attempters(s)' = Attempters(s) \ {r} /\ r \in Attempters(s)
    BY <1>1, <1>10 DEF Attempters
  <2>2. Cardinality(Attempters(s) \ {r}) = Cardinality(Attempters(s)) - 1
    BY <1>3, <2>1, FS_RemoveElement
  <2>3. Attempts'[s] = Attempts[s] - 1
    BY <1>5, <1>6, <2>1, <2>2
  <2>4. Attempts[s] > 0
    BY <2>1, AttemptsCounted
  <2>. QED
    BY <1>5, <1>6, <1>7, <2>3, <2>4
<1>. QED
  BY <1>4, <1>8, <1>9, <1>10

\* A slot verifies at most the session it works on.
LEMMA AttemptingIs ==
    ASSUME NEW r, NEW s
    PROVE  Attempting(r, s) <=> work[r].session = s /\ work[r].pc \in Trying
BY DEF Attempting, Trying, Identifying, Buying

LEMMA AttemptingIsNext ==
    ASSUME NEW r, NEW s
    PROVE  Attempting(r, s)' <=> work'[r].session = s /\ work'[r].pc \in Trying
BY DEF Attempting, Trying, Identifying, Buying

\* The state of Fulfilment is unchanged.
PromiseKept ==
    /\ PaidSessions' = PaidSessions
    /\ ClosedSessions' = ClosedSessions
    /\ Attempts' = Attempts
    /\ HandedGoods' = HandedGoods

LEMMA PromiseStep ==
    ASSUME CheckoutInv, AttemptsInv, DeliveryInv, [CheckoutNext]_allVars
    PROVE  AttemptsInv' /\ [F!Next]_F!vars
<1>t. /\ CheckoutInv /\ CheckoutInv' /\ TypeInv /\ TypeInv'
      /\ work \in [Requests -> WorkRecord]
  <2>1. CheckoutInv'
    BY CheckoutInvStep
  <2>. QED
    BY <2>1 DEF CheckoutInv, Typed
<1>s. UNCHANGED purchases => HandedGoods' = HandedGoods
  BY HandedSame DEF RowsSame, PurchaseIds
<1>w. ASSUME UNCHANGED work
      PROVE  AttemptsInv' /\ Attempts' = Attempts
  BY <1>w DEF AttemptsInv, Attempters, Attempts, Attempting
<1>k. ASSUME PromiseKept PROVE [F!Next]_F!vars
  BY <1>k DEF PromiseKept, F!vars
<1>1. CASE UNCHANGED allVars
  <2>1. UNCHANGED <<work, session, purchases>>
    BY <1>1 DEF allVars, vars, checkoutVars
  <2>2. PromiseKept
    BY <1>s, <1>w, <2>1 DEF PromiseKept, PaidSessions, ClosedSessions
  <2>. QED
    BY <1>k, <1>w, <2>1, <2>2
<1>2. ASSUME NEW r \in Requests, PurchaseStep(r)
      PROVE  AttemptsInv' /\ [F!Next]_F!vars
  <2>1. CheckoutInv /\ PurchaseStep(r)
    BY <1>2, <1>t
  <2>2. /\ UNCHANGED <<work, session, people>>
        /\ \/ RowsSame
           \/ /\ RowSold(call[r])
              /\ \/ call[r].ref = None
                 \/ At(r, "await") /\ call[r].pc = "insert"
    BY <2>1, SaleEffect
  <2>3. /\ AttemptsInv' /\ Attempts' = Attempts
        /\ PaidSessions' = PaidSessions /\ ClosedSessions' = ClosedSessions
    BY <1>w, <2>2 DEF PaidSessions, ClosedSessions
  <2>4. CASE HandedGoods' = HandedGoods
    BY <1>k, <2>3, <2>4 DEF PromiseKept
  <2>5. CASE RowSold(call[r]) /\ At(r, "await")
    <3>. DEFINE s == work[r].session
                p == call[r].product
    <3>1. /\ s \in Sessions /\ p \in Products /\ call[r].ref = s
          /\ session[s].payment = "paid"
      <4>1. /\ WorkSound(r) /\ work[r].pc = "await"
        BY <1>t, <2>5 DEF CheckoutInv, At
      <4>2. /\ s \in Sessions /\ call[r].ref = s
            /\ p = Cart[s][work[r].item] /\ work[r].item \in Items(s)
            /\ session[s].payment = "paid"
        BY <4>1 DEF WorkSound, CallSound, LoopSound, BuyerSound, Buying
      <4>. QED
        BY <4>2, CartPositions
    <3>2. HandedGoods' = [HandedGoods EXCEPT ![s][p] = @ + 1]
      BY <1>t, <2>5, <3>1, HandedOne
    <3>3. s \in PaidSessions
      BY <3>1 DEF PaidSessions
    <3>4. Attempts[s] > 0
      <4>1. r \in Attempters(s)
        BY <2>5 DEF Attempters, Attempting, At
      <4>. QED
        BY <3>1, <4>1, AttemptsCounted
    <3>5. F!HandOver(s, p)
      BY <2>3, <3>2, <3>3, <3>4 DEF F!HandOver
    <3>. QED
      BY <2>3, <3>1, <3>5 DEF F!Next
  <2>. QED
    BY <1>t, <2>2, <2>4, <2>5, HandedSame, HandedOne
<1>3. ASSUME NEW r \in Requests, Complete(r)
      PROVE  AttemptsInv' /\ [F!Next]_F!vars
  <2>. PICK s : s = work[r].session
    OBVIOUS
  <2>1. /\ work[r].pc = "complete" /\ s \in Sessions
        /\ work'[r].pc = "returned"
        /\ \A q \in Requests \ {r} : work'[q] = work[q]
        /\ UNCHANGED <<vars, people>>
        /\ session'[s].row = "completed"
        /\ \A z \in Sessions \ {s} : session'[z] = session[z]
        /\ \A z \in Sessions : SameDeal(z)
    BY <1>3, <1>t, CompleteEffect
  <2>2. /\ Attempting(r, s) /\ ~Attempting(r, s)'
        /\ \A z \in Sessions \ {s} : Attempting(r, z)' <=> Attempting(r, z)
    BY <2>1 DEF Attempting
  <2>3. /\ AttemptsInv' /\ Attempts' = [Attempts EXCEPT ![s] = @ - 1]
        /\ Attempts[s] > 0
    BY <2>1, <2>2, AttemptsMove
  <2>4. /\ PaidSessions' = PaidSessions
        /\ ClosedSessions' = ClosedSessions \cup {s}
        /\ HandedGoods' = HandedGoods
    BY <1>s, <2>1 DEF PaidSessions, ClosedSessions, SameDeal, vars
  <2>5. s \in PaidSessions
    BY <1>t, <2>1 DEF PaidSessions, CheckoutInv, WorkSound, BuyerSound, Buying
  <2>6. \A p \in Products : HandedGoods[s][p] >= OrderedGoods[s][p]
    <3>1. DeliveryInv'
      BY <1>t, DeliveryStep
    <3>2. \A p \in Products : OrderedGoods[s][p] <= HandedGoods'[s][p]
      BY <2>1, <3>1 DEF DeliveryInv, Delivered
    <3>3. \A p \in Products : OrderedGoods[s][p] \in Nat /\ HandedGoods[s][p] \in Nat
      BY <1>t, <2>1, CountAhead, HandedTyped
    <3>. QED
      BY <2>4, <3>2, <3>3
  <2>7. F!Close(s)
    BY <2>3, <2>4, <2>5, <2>6 DEF F!Close
  <2>. QED
    BY <2>1, <2>3, <2>7 DEF F!Next
<1>4. ASSUME NEW r \in Requests, QuietStep(r)
      PROVE  AttemptsInv' /\ [F!Next]_F!vars
  <2>1. /\ UNCHANGED purchases
        /\ \A q \in Requests \ {r} : work'[q] = work[q]
        /\ PaidSessions' = PaidSessions /\ ClosedSessions' = ClosedSessions
        /\ HandedGoods' = HandedGoods
    BY <1>4, <1>s DEF QuietStep, RowsQuiet, WorkQuiet, PaidSessions,
                      ClosedSessions
  <2>2. work'[r].pc \in Trying =>
           /\ work'[r].session = work[r].session
           /\ work[r].pc \in Trying \/ session[work[r].session].row = "pending"
    BY <1>4 DEF QuietStep, WorkQuiet
  <2>3. work[r].pc \in Trying => work[r].session \in Sessions
    BY <1>t DEF CheckoutInv, WorkSound, CallSound, Trying, Identifying, Buying
  <2>4. work'[r].pc \in Trying => work'[r].session \in Sessions
    BY <1>t DEF CheckoutInv, WorkSound, CallSound, Trying, Identifying, Buying
  <2>5. CASE \A z \in Sessions : Attempting(r, z)' <=> Attempting(r, z)
    <3>1. AttemptsInv' /\ Attempts' = Attempts
      <4>1. CASE Sessions = {}
        BY <4>1 DEF AttemptsInv, Attempts
      <4>2. ASSUME NEW s \in Sessions PROVE AttemptsInv' /\ Attempts' = Attempts
        BY <2>1, <2>5, AttemptsMove
      <4>. QED
        BY <4>1, <4>2
    <3>. QED
      BY <1>k, <2>1, <3>1 DEF PromiseKept
  <2>6. ASSUME NEW s \in Sessions, ~Attempting(r, s), Attempting(r, s)'
        PROVE  AttemptsInv' /\ [F!Next]_F!vars
    <3>1. /\ work'[r].session = s /\ work'[r].pc \in Trying
          /\ work[r].session = s /\ work[r].pc \notin Trying
          /\ session[s].row = "pending"
      BY <2>2, <2>6, AttemptingIs, AttemptingIsNext
    <3>2. \A z \in Sessions \ {s} : Attempting(r, z)' <=> Attempting(r, z)
      BY <3>1, AttemptingIs, AttemptingIsNext
    <3>3. AttemptsInv' /\ Attempts' = [Attempts EXCEPT ![s] = @ + 1]
      BY <2>1, <2>6, <3>2, AttemptsMove
    <3>4. s \notin ClosedSessions
      BY <3>1 DEF ClosedSessions
    <3>5. F!Enter(s)
      BY <2>1, <3>3, <3>4 DEF F!Enter
    <3>. QED
      BY <3>3, <3>5 DEF F!Next
  <2>7. ASSUME NEW s \in Sessions, Attempting(r, s), ~Attempting(r, s)'
        PROVE  AttemptsInv' /\ [F!Next]_F!vars
    <3>1. work[r].session = s /\ work[r].pc \in Trying
      BY <2>7, AttemptingIs
    <3>2. \A z \in Sessions \ {s} : Attempting(r, z)' <=> Attempting(r, z)
      BY <2>2, <3>1, AttemptingIs, AttemptingIsNext
    <3>3. /\ AttemptsInv' /\ Attempts' = [Attempts EXCEPT ![s] = @ - 1]
          /\ Attempts[s] > 0
      BY <2>1, <2>7, <3>2, AttemptsMove
    <3>4. F!Leave(s)
      BY <2>1, <3>3 DEF F!Leave
    <3>. QED
      BY <3>3, <3>4 DEF F!Next
  <2>. QED
    BY <2>5, <2>6, <2>7
<1>5. ASSUME NEW s \in Sessions, NEW u \in Users, Pay(s, u)
      PROVE  AttemptsInv' /\ [F!Next]_F!vars
  <2>1. /\ UNCHANGED <<work, purchases>> /\ HandedGoods' = HandedGoods
        /\ session'[s].payment = "paid"
        /\ \A z \in Sessions \ {s} : session'[z] = session[z]
        /\ session'[s].row = session[s].row
    BY <1>5, <1>s, <1>t, PayStep DEF Pay, vars
  <2>2. /\ PaidSessions' = PaidSessions \cup {s}
        /\ ClosedSessions' = ClosedSessions
    BY <2>1 DEF PaidSessions, ClosedSessions
  <2>3. AttemptsInv' /\ Attempts' = Attempts
    BY <1>w, <2>1
  <2>4. F!Pay(s)
    BY <2>1, <2>2, <2>3 DEF F!Pay
  <2>. QED
    BY <2>3, <2>4 DEF F!Next
<1>. QED
  BY <1>t, <1>1, <1>2, <1>3, <1>4, <1>5, StepKinds

\* checkoutService implements the at-least-once promise: goods are handed over
\* only for paid sessions and by an attempt that found the session open, and a
\* session is closed only when its whole cart was handed over.
THEOREM CheckoutKeepsItsPromise == CheckoutSpec => ImplementsFulfilment
<1>1. CheckoutInit => F!Init /\ AttemptsInv
  <2>. SUFFICES ASSUME CheckoutInit PROVE F!Init /\ AttemptsInv
    OBVIOUS
  <2>1. \A s \in Sessions : Attempters(s) = {}
    BY DEF CheckoutInit, IdleWork, Attempters, Attempting
  <2>2. AttemptsInv /\ Attempts = [s \in Sessions |-> 0]
    <3>1. IsFiniteSet({}) /\ Cardinality({}) = 0
      BY FS_EmptySet
    <3>. QED
      BY <2>1, <3>1 DEF AttemptsInv, Attempts, Attempters
  <2>3. \A s \in Sessions, p \in Products : Bought(s, p) = {}
    <3>1. PurchaseIds = {}
      BY EmptySeq DEF CheckoutInit, Init, PurchaseIds
    <3>. QED
      BY <3>1 DEF Bought
  <2>4. HandedGoods = [s \in Sessions |-> [p \in Products |-> 0]]
    BY <2>3, FS_EmptySet DEF HandedGoods
  <2>5. PaidSessions = {} /\ ClosedSessions = {}
    BY DEF CheckoutInit, NoSession, PaidSessions, ClosedSessions
  <2>. QED
    BY <2>2, <2>4, <2>5 DEF F!Init
<1>2. CheckoutInv /\ AttemptsInv /\ DeliveryInv /\ [CheckoutNext]_allVars
         => AttemptsInv' /\ [F!Next]_F!vars
  BY PromiseStep
<1>3. CheckoutSpec => [](CheckoutInv /\ SalesInv /\ DeliveryInv)
  BY DeliveriesAreMade
<1>. QED
  BY <1>1, <1>2, <1>3, PTL DEF CheckoutSpec, ImplementsFulfilment, F!Spec

=============================================================================
