--------------------------- MODULE PurchaseProofs ---------------------------
(***************************************************************************)
(* Theorems about PurchaseService, for every catalogue, every number of    *)
(* users and requests, and every bound:                                    *)
(*   - type correctness;                                                   *)
(*   - whoever keeps a live purchase keeps access, under any overlap;      *)
(*   - as long as one user's requests do not overlap, a user has at most   *)
(*     one active subscription, entitlements are single and backed by      *)
(*     live purchases, and purchases that ended stay so, whichever call    *)
(*     fails (SerialRequestsAreSafe).                                      *)
(***************************************************************************)
EXTENDS PurchaseService, TLAPS, SequenceTheorems, WellFoundedInduction

-----------------------------------------------------------------------------
(* What the queries and the bulk writes do to the tables *)

\* Every stored row is well formed.
LEMMA RowsTyped ==
    ASSUME TypeOK
    PROVE  /\ \A i \in PurchaseIds : purchases[i] \in PurchaseRow
           /\ \A m \in DOMAIN memberships : memberships[m] \in MembershipRow
<1>1. purchases \in [PurchaseIds -> PurchaseRow]
  BY LenProperties DEF TypeOK, PurchaseIds
<1>2. memberships \in [DOMAIN memberships -> MembershipRow]
  BY LenProperties DEF TypeOK
<1>. QED
  BY <1>1, <1>2

\* findFirst ordered by createdAt desc returns an active subscription of the
\* user whenever there is one, the newest, and 0 otherwise.
LEMMA FindLatest ==
    ASSUME TypeOK, NEW u
    PROVE  /\ ActiveSubscriptions(u) = {} => FindActiveSubscription(u) = 0
           /\ ActiveSubscriptions(u) # {} =>
                 /\ FindActiveSubscription(u) \in ActiveSubscriptions(u)
                 /\ FindActiveSubscription(u) # 0
<1>1. purchases \in Seq(PurchaseRow)
  BY DEF TypeOK
<1>2. PurchaseIds = 1..Len(purchases) /\ Len(purchases) \in Nat
  BY <1>1, LenProperties DEF PurchaseIds
<1>3. ActiveSubscriptions(u) \subseteq 1..Len(purchases)
  BY <1>2 DEF ActiveSubscriptions
<1>4. ASSUME ActiveSubscriptions(u) # {}
      PROVE  \E i \in ActiveSubscriptions(u) :
                \A j \in ActiveSubscriptions(u) : j <= i
  <2>. DEFINE gaps == {k \in Nat : Len(purchases) - k \in ActiveSubscriptions(u)}
  <2>1. gaps # {}
    <3>1. PICK i \in ActiveSubscriptions(u) : TRUE
      BY <1>4
    <3>2. Len(purchases) - i \in Nat
          /\ Len(purchases) - (Len(purchases) - i) = i
      BY <3>1, <1>2, <1>3
    <3>. QED
      BY <3>1, <3>2
  <2>2. PICK k \in gaps : \A l \in gaps : ~(<<l, k>> \in OpToRel(<, Nat))
    <3>. HIDE DEF gaps
    <3>1. gaps \subseteq Nat
      BY DEF gaps
    <3>. QED
      BY <2>1, <3>1, WFMin, NatLessThanWellFounded
  <2>3. ASSUME NEW l \in gaps
        PROVE  k <= l
    <3>1. <<l, k>> \in Nat \X Nat /\ <<l, k>>[1] = l /\ <<l, k>>[2] = k
      OBVIOUS
    <3>2. l < k => <<l, k>> \in OpToRel(<, Nat)
      BY <3>1 DEF OpToRel
    <3>3. ~(l < k)
      BY <3>2, <2>2
    <3>. QED
      BY <3>3
  <2>4. ASSUME NEW j \in ActiveSubscriptions(u)
        PROVE  j <= Len(purchases) - k
    <3>1. Len(purchases) - j \in gaps
      BY <1>2, <1>3
    <3>. QED
      BY <3>1, <2>3, <1>2, <1>3
  <2>. QED
    BY <2>4
<1>. QED
  BY <1>2, <1>3, <1>4 DEF FindActiveSubscription

\* updateMany on purchases changes the status of the rows it selects and
\* nothing else.
LEMMA StatusWrite ==
    ASSUME TypeOK, NEW ids, NEW s \in PurchaseStatus,
           purchases' = WithStatus(ids, s)
    PROVE  /\ purchases' \in Seq(PurchaseRow)
           /\ PurchaseIds' = PurchaseIds
           /\ Len(purchases') = Len(purchases)
           /\ \A i \in PurchaseIds :
                 /\ purchases'[i].user = purchases[i].user
                 /\ purchases'[i].product = purchases[i].product
                 /\ purchases'[i].status = IF i \in ids THEN s
                                           ELSE purchases[i].status
<1>1. purchases \in Seq(PurchaseRow)
  BY DEF TypeOK
<1>2. PurchaseIds = 1..Len(purchases) /\ Len(purchases) \in Nat
  BY <1>1, LenProperties DEF PurchaseIds
<1>3. \A i \in PurchaseIds : purchases[i] \in PurchaseRow
  BY <1>1, <1>2, ElementOfSeq
<1>4. \A i \in PurchaseIds : purchases'[i] \in PurchaseRow
  BY <1>3 DEF WithStatus, PurchaseRow
<1>5. purchases' \in [1..Len(purchases) -> PurchaseRow]
  BY <1>2, <1>4 DEF WithStatus
<1>6. purchases' \in Seq(PurchaseRow)
  BY <1>2, <1>5, SeqDef
<1>7. Len(purchases') = Len(purchases)
  BY <1>2, <1>5, <1>6, LenProperties
<1>. QED
  BY <1>2, <1>3, <1>5, <1>6, <1>7 DEF WithStatus, PurchaseRow, PurchaseIds

\* Revoking by source touches the memberships of that source only, and leaves
\* none of them active.
LEMMA RevokeWrite ==
    ASSUME TypeOK, NEW src, memberships' = RevokeBySourceId(src)
    PROVE  /\ memberships' \in Seq(MembershipRow)
           /\ DOMAIN memberships' = DOMAIN memberships
           /\ \A m \in DOMAIN memberships :
                 /\ memberships'[m].user = memberships[m].user
                 /\ memberships'[m].source = memberships[m].source
                 /\ memberships'[m].gift = memberships[m].gift
                 /\ memberships'[m].status =
                       IF memberships[m].source = src THEN "revoked"
                       ELSE memberships[m].status
<1>1. memberships \in Seq(MembershipRow)
  BY DEF TypeOK
<1>2. DOMAIN memberships = 1..Len(memberships) /\ Len(memberships) \in Nat
  BY <1>1, LenProperties
<1>3. \A m \in DOMAIN memberships : memberships[m] \in MembershipRow
  BY <1>1, <1>2, ElementOfSeq
<1>4. \A m \in DOMAIN memberships : memberships'[m] \in MembershipRow
  BY <1>3 DEF RevokeBySourceId, MembershipRow
<1>5. memberships' \in [1..Len(memberships) -> MembershipRow]
  BY <1>2, <1>4 DEF RevokeBySourceId
<1>6. memberships' \in Seq(MembershipRow)
  BY <1>2, <1>5, SeqDef
<1>. QED
  BY <1>2, <1>3, <1>5, <1>6 DEF RevokeBySourceId, MembershipRow

\* Inserting a row keeps the earlier ones; the new row is the last.
LEMMA PurchaseAppended ==
    ASSUME TypeOK, NEW row \in PurchaseRow,
           purchases' = Append(purchases, row)
    PROVE  /\ purchases' \in Seq(PurchaseRow)
           /\ Len(purchases) \in Nat
           /\ PurchaseIds = 1..Len(purchases)
           /\ PurchaseIds' = PurchaseIds \cup {Len(purchases) + 1}
           /\ Len(purchases) + 1 \notin PurchaseIds
           /\ \A i \in PurchaseIds : purchases'[i] = purchases[i]
           /\ purchases'[Len(purchases) + 1] = row
<1>1. purchases \in Seq(PurchaseRow)
  BY DEF TypeOK
<1>2. PurchaseIds = 1..Len(purchases) /\ Len(purchases) \in Nat
  BY <1>1, LenProperties DEF PurchaseIds
<1>3. /\ purchases' \in Seq(PurchaseRow)
      /\ Len(purchases') = Len(purchases) + 1
      /\ \A i \in 1..Len(purchases) : purchases'[i] = purchases[i]
      /\ purchases'[Len(purchases) + 1] = row
  BY <1>1, AppendProperties
<1>4. PurchaseIds' = 1..(Len(purchases) + 1)
  BY <1>3, LenProperties DEF PurchaseIds
<1>. QED
  BY <1>2, <1>3, <1>4

\* Granting an entitlement keeps the earlier rows; the new row is the last.
LEMMA MembershipAppended ==
    ASSUME TypeOK, NEW row \in MembershipRow,
           memberships' = Append(memberships, row)
    PROVE  /\ memberships' \in Seq(MembershipRow)
           /\ Len(memberships) \in Nat
           /\ DOMAIN memberships = 1..Len(memberships)
           /\ DOMAIN memberships' = DOMAIN memberships \cup {Len(memberships) + 1}
           /\ Len(memberships) + 1 \notin DOMAIN memberships
           /\ \A m \in DOMAIN memberships : memberships'[m] = memberships[m]
           /\ memberships'[Len(memberships) + 1] = row
<1>1. memberships \in Seq(MembershipRow)
  BY DEF TypeOK
<1>2. DOMAIN memberships = 1..Len(memberships) /\ Len(memberships) \in Nat
  BY <1>1, LenProperties
<1>3. /\ memberships' \in Seq(MembershipRow)
      /\ Len(memberships') = Len(memberships) + 1
      /\ \A m \in 1..Len(memberships) : memberships'[m] = memberships[m]
      /\ memberships'[Len(memberships) + 1] = row
  BY <1>1, AppendProperties
<1>4. DOMAIN memberships' = 1..(Len(memberships) + 1)
  BY <1>3, LenProperties
<1>. QED
  BY <1>2, <1>3, <1>4

\* The row create, subscribe and cancelSubscription insert is well formed.
LEMMA NewPurchaseTyped ==
    ASSUME NEW c \in CallRecord, c.user \in Users, c.product \in Products
    PROVE  /\ NewPurchase(c) \in PurchaseRow
           /\ NewPurchase(c).user = c.user
           /\ NewPurchase(c).product = c.product
           /\ IsLive(NewPurchase(c))
           /\ c.product \in Recurring => NewPurchase(c).status = "active"
BY DEF CallRecord, NewPurchase, PurchaseRow, PurchaseStatus, EndDates, IsLive

\* Goto moves one request and leaves the rest of its record alone.
LEMMA GotoEffect ==
    ASSUME TypeOK, NEW r \in Requests, NEW pc \in Steps, Goto(r, pc)
    PROVE  /\ call' \in [Requests -> CallRecord]
           /\ \A q \in Requests \ {r} : call'[q] = call[q]
           /\ call'[r] = [call[r] EXCEPT !.pc = pc]
           /\ call'[r].pc = pc
           /\ call'[r].op = call[r].op
           /\ call'[r].user = call[r].user
           /\ call'[r].product = call[r].product
           /\ call'[r].target = call[r].target
           /\ call'[r].queue = call[r].queue
           /\ call'[r].ids = call[r].ids
<1>1. call[r] \in CallRecord
  BY DEF TypeOK
<1>2. [call[r] EXCEPT !.pc = pc] \in CallRecord
  BY <1>1 DEF CallRecord
<1>3. call' = [call EXCEPT ![r] = [call[r] EXCEPT !.pc = pc]]
  BY DEF Goto
<1>. QED
  BY <1>1, <1>2, <1>3 DEF TypeOK, CallRecord

-----------------------------------------------------------------------------
(* Type correctness *)

\* No step removes a purchase or changes its owner or product.
RowsKept ==
    /\ PurchaseIds \subseteq PurchaseIds'
    /\ \A i \in PurchaseIds : /\ purchases'[i].user = purchases[i].user
                              /\ purchases'[i].product = purchases[i].product

\* Only the request that moved has to be looked at again.
LEMMA TypeFrame ==
    ASSUME TypeInv, NEW r \in Requests,
           purchases' \in Seq(PurchaseRow),
           memberships' \in Seq(MembershipRow),
           onSale' \in SUBSET Products,
           started' \in Nat, failures' \in Nat,
           call' \in [Requests -> CallRecord],
           \A q \in Requests \ {r} : call'[q] = call[q],
           RowsKept,
           CallTyped(r)'
    PROVE  TypeInv'
<1>1. ASSUME NEW q \in Requests, q # r
      PROVE  CallTyped(q)'
  <2>1. CallTyped(q) /\ call'[q] = call[q]
    BY <1>1 DEF TypeInv
  <2>. QED
    BY <2>1 DEF CallTyped, RowsKept
<1>. QED
  BY <1>1 DEF TypeInv, TypeOK

\* At first the tables are empty and every slot is free.
LEMMA TypeInit == Init => TypeInv
<1>1. ASSUME Init PROVE IdleCall \in CallRecord
  BY DEF IdleCall, CallRecord, Steps
<1>. QED
  BY <1>1, EmptySeq DEF Init, TypeInv, TypeOK, CallTyped, IdleCall

\* Every step keeps rows and procedure states well formed, and gives the next
\* step of its procedure the arguments it relies on.
LEMMA TypeStep == TypeInv /\ [Next]_vars => TypeInv'
<1>. SUFFICES ASSUME TypeInv, [Next]_vars PROVE TypeInv'
  OBVIOUS
<1>t. TypeOK /\ \A r \in Requests : CallTyped(r) /\ call[r] \in CallRecord
  BY DEF TypeInv, TypeOK
<1>k. UNCHANGED purchases => RowsKept
  BY DEF RowsKept, PurchaseIds
<1>0. CASE UNCHANGED vars
  BY <1>0 DEF vars, TypeInv, TypeOK, CallTyped, PurchaseIds
<1>1. ASSUME NEW r \in Requests, FindProduct(r) PROVE TypeInv'
  <2>1. PICK pc \in {"threw", "findSubscription", "insert"} : Goto(r, pc)
    BY <1>1 DEF FindProduct
  <2>2. call[r].pc = "findProduct" /\ UNCHANGED <<tables, started, failures>>
    BY <1>1 DEF FindProduct
  <2>3. CallTyped(r)'
    BY <2>1, <2>2, <1>t, GotoEffect DEF CallTyped, Steps
  <2>. QED
    BY <2>1, <2>2, <2>3, <1>t, <1>k, GotoEffect, TypeFrame DEF tables, TypeOK, Steps
<1>2. ASSUME NEW r \in Requests, FindSubscription(r) PROVE TypeInv'
  <2>1. PICK found \in Nat :
            /\ call' = [call EXCEPT
                  ![r].target = found,
                  ![r].pc = IF found # 0 THEN "revokeOld"
                            ELSE IF call[r].op = "cancel" THEN "cancelAll"
                            ELSE "insert"]
            /\ found # 0 => /\ found \in PurchaseIds
                            /\ purchases[found].user = call[r].user
                            /\ purchases[found].product \in Recurring
    <3>1. PurchaseIds \subseteq Nat
      BY <1>t, LenProperties DEF TypeOK, PurchaseIds
    <3>. QED
      BY <1>t, <1>2, <3>1, FindLatest
         DEF FindSubscription, ActiveSubscriptions, IsActiveSubscription
  <2>2. call[r].pc = "findSubscription" /\ UNCHANGED <<tables, started, failures>>
    BY <1>2 DEF FindSubscription
  <2>3. PICK pc \in {"revokeOld", "cancelAll", "insert"} :
            /\ call' = [call EXCEPT ![r] = [@ EXCEPT !.target = found, !.pc = pc]]
            /\ found = 0 => pc # "revokeOld"
            /\ pc = "insert" => call[r].op # "cancel"
    BY <1>t, <2>1 DEF TypeOK
  <2>4. [call[r] EXCEPT !.target = found, !.pc = pc] \in CallRecord
    BY <1>t DEF CallRecord, Steps
  <2>5. /\ call' \in [Requests -> CallRecord]
        /\ \A q \in Requests \ {r} : call'[q] = call[q]
        /\ call'[r] = [call[r] EXCEPT !.target = found, !.pc = pc]
    BY <1>t, <2>3, <2>4 DEF TypeOK
  <2>6. CallTyped(r)'
    BY <1>t, <2>1, <2>2, <2>3, <2>5 DEF CallTyped, CallRecord, tables, PurchaseIds
  <2>. QED
    BY <2>2, <2>5, <2>6, <1>t, <1>k, TypeFrame DEF tables, TypeOK
<1>3. ASSUME NEW r \in Requests, RevokeOld(r) PROVE TypeInv'
  <2>1. Goto(r, "cancelAll") /\ call[r].pc = "revokeOld"
        /\ UNCHANGED <<purchases, onSale, started, failures>>
    BY <1>3 DEF RevokeOld
  <2>2. memberships' \in Seq(MembershipRow)
    BY <1>3, <1>t, RevokeWrite DEF RevokeOld
  <2>3. CallTyped(r)'
    BY <2>1, <1>t, GotoEffect DEF CallTyped, Steps, PurchaseIds
  <2>. QED
    BY <2>1, <2>2, <2>3, <1>t, <1>k, GotoEffect, TypeFrame DEF TypeOK, Steps
<1>4. ASSUME NEW r \in Requests, CancelAll(r) PROVE TypeInv'
  <2>1. PICK pc \in {"findFree", "insert"} :
            Goto(r, pc) /\ (pc = "insert" => call[r].op # "cancel")
    BY <1>4 DEF CancelAll
  <2>2. call[r].pc = "cancelAll"
        /\ UNCHANGED <<memberships, onSale, started, failures>>
    BY <1>4 DEF CancelAll
  <2>3. purchases' \in Seq(PurchaseRow) /\ RowsKept
    BY <1>4, <1>t, StatusWrite DEF CancelAll, RowsKept, PurchaseStatus
  <2>4. CallTyped(r)'
    BY <2>1, <2>2, <2>3, <1>t, GotoEffect DEF CallTyped, Steps
  <2>. QED
    BY <2>1, <2>2, <2>3, <2>4, <1>t, GotoEffect, TypeFrame DEF TypeOK, Steps
<1>5. ASSUME NEW r \in Requests, FindFree(r) PROVE TypeInv'
  <2>1. PICK pc \in {"returned", "insert"} :
            /\ call' = [call EXCEPT ![r] = [@ EXCEPT !.product = FreeProduct, !.pc = pc]]
            /\ pc = "insert" => FreeProduct # None
    BY <1>t, <1>5 DEF FindFree, TypeOK
  <2>2. call[r].pc = "findFree" /\ UNCHANGED <<tables, started, failures>>
    BY <1>5 DEF FindFree
  <2>3. [call[r] EXCEPT !.product = FreeProduct, !.pc = pc] \in CallRecord
    BY <1>t, CatalogueAssumption DEF CallRecord, Steps
  <2>4. /\ call' \in [Requests -> CallRecord]
        /\ \A q \in Requests \ {r} : call'[q] = call[q]
        /\ call'[r] = [call[r] EXCEPT !.product = FreeProduct, !.pc = pc]
    BY <1>t, <2>1, <2>3 DEF TypeOK
  <2>5. CallTyped(r)'
    BY <1>t, <2>1, <2>2, <2>4, CatalogueAssumption
       DEF CallTyped, CallRecord, tables, PurchaseIds
  <2>. QED
    BY <2>2, <2>4, <2>5, <1>t, <1>k, TypeFrame DEF tables, TypeOK
<1>6. ASSUME NEW r \in Requests, InsertPurchase(r) PROVE TypeInv'
  <2>1. call[r].pc = "insert" /\ UNCHANGED <<memberships, onSale, started, failures>>
        /\ purchases' = Append(purchases, NewPurchase(call[r]))
    BY <1>6 DEF InsertPurchase
  <2>2. /\ NewPurchase(call[r]) \in PurchaseRow
        /\ NewPurchase(call[r]).user = call[r].user
        /\ call[r].op # "grant"
    BY <1>t, <2>1, NewPurchaseTyped DEF CallTyped
  <2>3. purchases' \in Seq(PurchaseRow) /\ RowsKept
        /\ Len(purchases) + 1 \in PurchaseIds' /\ Len(purchases) + 1 \in Nat
        /\ purchases'[Len(purchases) + 1].user = call[r].user
    BY <1>t, <2>1, <2>2, PurchaseAppended DEF RowsKept
  <2>4. PICK pc \in {"grantRevoke", "returned"} :
            call' = [call EXCEPT ![r] =
                        [@ EXCEPT !.target = Len(purchases) + 1, !.pc = pc]]
    BY <1>t, <1>6 DEF InsertPurchase, TypeOK
  <2>5. [call[r] EXCEPT !.target = Len(purchases) + 1, !.pc = pc] \in CallRecord
    BY <1>t, <2>3 DEF CallRecord, Steps
  <2>6. /\ call' \in [Requests -> CallRecord]
        /\ \A q \in Requests \ {r} : call'[q] = call[q]
        /\ call'[r] = [call[r] EXCEPT !.target = Len(purchases) + 1, !.pc = pc]
    BY <1>t, <2>4, <2>5 DEF TypeOK
  <2>7. CallTyped(r)'
    BY <1>t, <2>1, <2>2, <2>3, <2>6 DEF CallTyped, CallRecord
  <2>. QED
    BY <2>1, <2>3, <2>6, <2>7, <1>t, TypeFrame DEF TypeOK
<1>7. ASSUME NEW r \in Requests, GrantRevoke(r) PROVE TypeInv'
  <2>1. Goto(r, "grantCreate") /\ call[r].pc = "grantRevoke"
        /\ UNCHANGED <<purchases, onSale, started, failures>>
    BY <1>7 DEF GrantRevoke
  <2>2. memberships' \in Seq(MembershipRow)
    BY <1>7, <1>t, RevokeWrite DEF GrantRevoke
  <2>3. CallTyped(r)'
    <3>1. /\ call[r].user \in Users
          /\ call[r].op = "grant" => call[r].target \in PurchaseIds \cup {0}
          /\ call[r].op # "grant" => /\ call[r].target \in PurchaseIds
                                    /\ purchases[call[r].target].user = call[r].user
      BY <2>1, <1>t DEF CallTyped
    <3>2. /\ call'[r].pc = "grantCreate" /\ call'[r].op = call[r].op
          /\ call'[r].user = call[r].user /\ call'[r].target = call[r].target
      BY <2>1, <1>t, GotoEffect DEF Steps
    <3>3. purchases' = purchases /\ PurchaseIds' = PurchaseIds
      BY <2>1 DEF PurchaseIds
    <3>. QED
      BY <3>1, <3>2, <3>3 DEF CallTyped
  <2>. QED
    BY <2>1, <2>2, <2>3, <1>t, <1>k, GotoEffect, TypeFrame DEF TypeOK, Steps
<1>8. ASSUME NEW r \in Requests, GrantCreate(r) PROVE TypeInv'
  <2>1. Goto(r, "returned") /\ call[r].pc = "grantCreate"
        /\ UNCHANGED <<purchases, onSale, started, failures>>
    BY <1>8 DEF GrantCreate
  <2>2. [user |-> call[r].user, source |-> call[r].target, status |-> "active",
         gift |-> IsGift(call[r])] \in MembershipRow
    <3>1. call[r].user \in Users /\ call[r].target \in Nat
      BY <2>1, <1>t DEF CallTyped, CallRecord
    <3>. QED
      BY <3>1 DEF MembershipRow, IsGift
  <2>3. memberships' \in Seq(MembershipRow)
    BY <1>8, <1>t, <2>2, MembershipAppended DEF GrantCreate
  <2>4. CallTyped(r)'
    BY <2>1, <1>t, GotoEffect DEF CallTyped, Steps, PurchaseIds
  <2>. QED
    BY <2>1, <2>3, <2>4, <1>t, <1>k, GotoEffect, TypeFrame DEF TypeOK, Steps
<1>9. ASSUME NEW r \in Requests, RevokeMembership(r) PROVE TypeInv'
  <2>1. Goto(r, "returned") /\ call[r].pc = "revoke"
        /\ UNCHANGED <<purchases, onSale, started, failures>>
    BY <1>9 DEF RevokeMembership
  <2>2. memberships' \in Seq(MembershipRow)
    <3>1. memberships \in [1..Len(memberships) -> MembershipRow]
          /\ Len(memberships) \in Nat
      BY <1>t, LenProperties DEF TypeOK
    <3>2. memberships' \in [1..Len(memberships) -> MembershipRow]
      BY <3>1, <1>9 DEF RevokeMembership, MembershipRow
    <3>. QED
      BY <3>1, <3>2, SeqDef
  <2>3. CallTyped(r)'
    BY <2>1, <1>t, GotoEffect DEF CallTyped, Steps
  <2>. QED
    BY <2>1, <2>2, <2>3, <1>t, <1>k, GotoEffect, TypeFrame DEF TypeOK, Steps
<1>10. ASSUME NEW r \in Requests, FindExpired(r) PROVE TypeInv'
  <2>1. PICK pc \in {"returned", "revokeExpired"} :
            call' = [call EXCEPT ![r] =
                        [@ EXCEPT !.queue = FindExpiredSubscriptions,
                                  !.ids = FindExpiredSubscriptions, !.pc = pc]]
    BY <1>t, <1>10 DEF FindExpired, TypeOK
  <2>2. call[r].pc = "findExpired" /\ UNCHANGED <<tables, started, failures>>
    BY <1>10 DEF FindExpired
  <2>3. FindExpiredSubscriptions \in SUBSET Nat
    BY <1>t, LenProperties DEF TypeOK, PurchaseIds, FindExpiredSubscriptions
  <2>4. [call[r] EXCEPT !.queue = FindExpiredSubscriptions,
                        !.ids = FindExpiredSubscriptions, !.pc = pc] \in CallRecord
    BY <1>t, <2>3 DEF CallRecord, Steps
  <2>5. /\ call' \in [Requests -> CallRecord]
        /\ \A q \in Requests \ {r} : call'[q] = call[q]
        /\ call'[r].pc = pc /\ call'[r].op = call[r].op
        /\ call'[r].queue = call'[r].ids
    BY <1>t, <2>1, <2>4 DEF TypeOK, CallRecord
  <2>6. CallTyped(r)'
    BY <1>t, <2>2, <2>5 DEF CallTyped
  <2>. QED
    BY <2>2, <2>5, <2>6, <1>t, <1>k, TypeFrame DEF tables, TypeOK
<1>11. ASSUME NEW r \in Requests, RevokeExpired(r) PROVE TypeInv'
  <2>1. PICK i \in call[r].queue :
            /\ memberships' = RevokeBySourceId(i)
            /\ call' = [call EXCEPT
                  ![r].queue = @ \ {i},
                  ![r].pc = IF call[r].queue = {i} THEN "expireBatch"
                            ELSE "revokeExpired"]
    BY <1>11 DEF RevokeExpired
  <2>2. UNCHANGED <<purchases, onSale, started, failures>>
    BY <1>11 DEF RevokeExpired
  <2>3. memberships' \in Seq(MembershipRow)
    BY <1>t, <2>1, RevokeWrite
  <2>. DEFINE c == [call[r] EXCEPT
                       !.queue = @ \ {i},
                       !.pc = IF call[r].queue = {i} THEN "expireBatch"
                              ELSE "revokeExpired"]
  <2>4. c \in CallRecord /\ (c.pc = "expireBatch" => c.queue = {})
        /\ c.pc \in {"expireBatch", "revokeExpired"}
        /\ c.queue \subseteq c.ids /\ c.op # "grant"
    <3>1. call[r].queue \subseteq call[r].ids /\ call[r].op # "grant"
      BY <1>t, <1>11 DEF RevokeExpired, CallTyped
    <3>. QED
      BY <1>t, <3>1 DEF CallRecord, Steps
  <2>5. /\ call' \in [Requests -> CallRecord]
        /\ \A q \in Requests \ {r} : call'[q] = call[q]
        /\ call'[r] = c
    BY <1>t, <2>1, <2>4 DEF TypeOK, CallRecord
  <2>6. CallTyped(r)'
    BY <2>4, <2>5 DEF CallTyped
  <2>. QED
    BY <2>2, <2>3, <2>5, <2>6, <1>t, <1>k, TypeFrame DEF TypeOK
<1>12. ASSUME NEW r \in Requests, ExpireBatch(r) PROVE TypeInv'
  <2>1. Goto(r, "returned") /\ UNCHANGED <<memberships, onSale, started, failures>>
        /\ call[r].pc = "expireBatch"
    BY <1>12 DEF ExpireBatch
  <2>2. purchases' \in Seq(PurchaseRow) /\ RowsKept
    BY <1>12, <1>t, StatusWrite DEF ExpireBatch, RowsKept, PurchaseStatus
  <2>3. CallTyped(r)'
    BY <2>1, <1>t, GotoEffect DEF CallTyped, Steps
  <2>. QED
    BY <2>1, <2>2, <2>3, <1>t, GotoEffect, TypeFrame DEF TypeOK, Steps
<1>13. ASSUME NEW r \in Requests, CountActive(r) PROVE TypeInv'
  <2>1. PICK pc \in {"threw", "setInactive"} : Goto(r, pc)
    BY <1>13 DEF CountActive
  <2>2. call[r].pc = "countActive" /\ UNCHANGED <<tables, started, failures>>
    BY <1>13 DEF CountActive
  <2>3. CallTyped(r)'
    BY <2>1, <2>2, <1>t, GotoEffect DEF CallTyped, Steps
  <2>. QED
    BY <2>1, <2>2, <2>3, <1>t, <1>k, GotoEffect, TypeFrame DEF tables, TypeOK, Steps
<1>14. ASSUME NEW r \in Requests, SetInactive(r) \/ UpdateProduct(r)
       PROVE  TypeInv'
  <2>1. Goto(r, "returned") /\ call[r].pc \in {"setInactive", "update"}
        /\ UNCHANGED <<purchases, memberships, started, failures>>
    BY <1>14 DEF SetInactive, UpdateProduct
  <2>2. onSale' \in SUBSET Products
    BY <1>14, <1>t, <2>1 DEF SetInactive, UpdateProduct, CallTyped, TypeOK
  <2>3. CallTyped(r)'
    BY <2>1, <1>t, GotoEffect DEF CallTyped, Steps
  <2>. QED
    BY <2>1, <2>2, <2>3, <1>t, <1>k, GotoEffect, TypeFrame DEF TypeOK, Steps
<1>15. ASSUME NEW r \in Requests, Receive(r) PROVE TypeInv'
  <2>1. PurchaseIds \subseteq Nat /\ DOMAIN memberships \subseteq Nat
    BY <1>t, LenProperties DEF TypeOK, PurchaseIds
  <2>2. /\ \A i \in PurchaseIds : purchases[i].user \in Users
        /\ \A m \in DOMAIN memberships : memberships[m].user \in Users
    BY <1>t, RowsTyped DEF PurchaseRow, MembershipRow
  <2>3. PICK op \in AllOps, pc \in Steps, u \in Users \cup {None},
             p \in Products \cup {None}, n \in Nat :
          /\ Begin(r, op, pc, u, p, n)
          /\ pc \in {"findProduct", "findSubscription", "grantRevoke"} => u \in Users
          /\ pc \in {"findProduct", "countActive", "update"} => p \in Products
          /\ op = "grant" <=> pc = "grantRevoke"
          /\ op = "grant" => n \in PurchaseIds \cup {0}
          /\ pc = "findSubscription" => op = "cancel"
          /\ pc \in {"findProduct", "findSubscription", "grantRevoke", "revoke",
                     "findExpired", "countActive", "update"}
    BY <1>15, <2>1, <2>2 DEF Receive, AllOps, Steps
  <2>. DEFINE c == [IdleCall EXCEPT !.op = op, !.pc = pc, !.user = u, !.product = p,
                                    !.target = n]
  <2>4. /\ c \in CallRecord
        /\ c.op = op /\ c.pc = pc /\ c.user = u /\ c.product = p /\ c.target = n
    BY DEF IdleCall, CallRecord
  <2>5. /\ call' = [call EXCEPT ![r] = c]
        /\ started' = started + 1
        /\ UNCHANGED <<tables, failures>>
    BY <2>3 DEF Begin
  <2>6. /\ call' \in [Requests -> CallRecord]
        /\ \A q \in Requests \ {r} : call'[q] = call[q]
        /\ call'[r] = c
    BY <1>t, <2>4, <2>5 DEF TypeOK
  <2>7. CallTyped(r)'
    <3>. HIDE DEF c
    <3>. QED
      BY <2>3, <2>4, <2>5, <2>6 DEF CallTyped, tables, PurchaseIds
  <2>. QED
    BY <2>5, <2>6, <2>7, <1>t, <1>k, TypeFrame DEF tables, TypeOK
<1>16. ASSUME NEW r \in Requests, Raise(r) PROVE TypeInv'
  <2>1. Goto(r, "threw") /\ failures' = failures + 1 /\ UNCHANGED <<tables, started>>
    BY <1>16 DEF Raise
  <2>2. CallTyped(r)'
    <3>1. call[r].pc # "idle"
      BY <1>16 DEF Raise, Busy
    <3>. QED
      BY <2>1, <3>1, <1>t, GotoEffect DEF CallTyped, Steps, tables, PurchaseIds
  <2>3. /\ call' \in [Requests -> CallRecord]
        /\ \A q \in Requests \ {r} : call'[q] = call[q]
    BY <2>1, <1>t, GotoEffect DEF Steps
  <2>4. failures' \in Nat
    BY <2>1, <1>t DEF TypeOK
  <2>. QED
    BY <2>1, <2>2, <2>3, <2>4, <1>t, <1>k, TypeFrame DEF tables, TypeOK
<1>17. ASSUME NEW r \in Requests, Respond(r) PROVE TypeInv'
  <2>1. call' = [call EXCEPT ![r] = IdleCall] /\ UNCHANGED <<tables, started, failures>>
    BY <1>17 DEF Respond
  <2>2. IdleCall \in CallRecord /\ IdleCall.pc = "idle" /\ IdleCall.op = "none"
    BY DEF IdleCall, CallRecord, Steps
  <2>3. /\ call' \in [Requests -> CallRecord]
        /\ \A q \in Requests \ {r} : call'[q] = call[q]
        /\ call'[r].pc = "idle" /\ call'[r].op = "none"
    BY <1>t, <2>1, <2>2 DEF TypeOK
  <2>4. CallTyped(r)'
    BY <2>3 DEF CallTyped
  <2>. QED
    BY <2>1, <2>3, <2>4, <1>t, <1>k, TypeFrame DEF tables, TypeOK
<1>18. ASSUME NEW i \in PurchaseIds, PeriodEnds(i) PROVE TypeInv'
  <2>1. purchases \in [1..Len(purchases) -> PurchaseRow] /\ Len(purchases) \in Nat
        /\ PurchaseIds = 1..Len(purchases)
    BY <1>t, LenProperties DEF TypeOK, PurchaseIds
  <2>2. purchases' = [purchases EXCEPT ![i] = [@ EXCEPT !.endDate = "past"]]
        /\ UNCHANGED <<memberships, onSale, call, started, failures>>
    BY <1>18 DEF PeriodEnds
  <2>3. purchases' \in [1..Len(purchases) -> PurchaseRow] /\ RowsKept
    BY <2>1, <2>2 DEF PurchaseRow, EndDates, RowsKept, PurchaseIds
  <2>4. purchases' \in Seq(PurchaseRow)
    BY <2>1, <2>3, SeqDef
  <2>5. \A r \in Requests : CallTyped(r)'
    BY <1>t, <2>2, <2>3 DEF CallTyped, RowsKept
  <2>. QED
    BY <1>t, <2>2, <2>4, <2>5 DEF TypeInv, TypeOK
<1>. QED
  BY <1>0, <1>1, <1>2, <1>3, <1>4, <1>5, <1>6, <1>7, <1>8, <1>9, <1>10, <1>11,
     <1>12, <1>13, <1>14, <1>15, <1>16, <1>17, <1>18 DEF Next, Step

\* Every row and every procedure state keeps its type, under any mix of
\* requests, overlaps and failures.
THEOREM TypeCorrect == Spec => []TypeOK
<1>1. TypeInv => TypeOK
  BY DEF TypeInv
<1>. QED
  BY <1>1, TypeInit, TypeStep, PTL DEF Spec

-----------------------------------------------------------------------------
(* Access follows live purchases *)

\* Statuses of the purchases other than those in ids are untouched.
StatusKept(i) == purchases'[i].status = purchases[i].status

\* It is enough to look at the request that moved: the others still have
\* their steps to take.
LEMMA AccessFrame ==
    ASSUME AccessInv, TypeInv', RowsKept, NEW r \in Requests,
           \A q \in Requests \ {r} : call'[q] = call[q],
           call'[r].pc # "revoke", OthersByGift',
           \A i \in PurchaseIds' : purchases'[i].product \in Recurring
                => purchases'[i].status # "completed",
           failures' = 0 => failures = 0,
           failures' = 0 => \A i \in PurchaseIds' : NeedsAccess(i)' =>
              \/ HasAccessFrom(i)'
              \/ PendingBy(r, i)'
              \/ /\ i \in PurchaseIds /\ NeedsAccess(i) /\ StatusKept(i)
                 /\ HasAccessFrom(i) => HasAccessFrom(i)' \/ PendingBy(r, i)'
                 /\ ~PendingBy(r, i)
    PROVE  AccessInv'
<1>1. ASSUME failures' = 0, NEW i \in PurchaseIds', NeedsAccess(i)'
      PROVE  AccessOrPending(i)'
  <2>1. CASE HasAccessFrom(i)' \/ PendingBy(r, i)'
    BY <2>1 DEF AccessOrPending
  <2>2. CASE /\ i \in PurchaseIds /\ NeedsAccess(i) /\ StatusKept(i)
             /\ HasAccessFrom(i) => HasAccessFrom(i)' \/ PendingBy(r, i)'
             /\ ~PendingBy(r, i)
    <3>1. AccessOrPending(i)
      BY <1>1, <2>2 DEF AccessInv
    <3>2. ASSUME NEW q \in Requests, PendingBy(q, i)
          PROVE  PendingBy(q, i)'
      <4>1. q # r /\ call'[q] = call[q]
        BY <2>2, <3>2
      <4>. QED
        BY <2>2, <3>2, <4>1
           DEF PendingBy, IsActiveSubscription, StatusKept, RowsKept
    <3>. QED
      BY <2>2, <3>1, <3>2 DEF AccessOrPending
  <2>. QED
    BY <1>1, <2>1, <2>2
<1>. QED
  BY <1>1 DEF AccessInv

\* A request that arrives occupies a free slot and writes nothing yet.
LEMMA BeginEffect ==
    ASSUME TypeOK, NEW r \in Requests, NEW op, NEW pc, NEW u, NEW p, NEW n,
           Begin(r, op, pc, u, p, n)
    PROVE  /\ op \in Ops
           /\ call[r].pc = "idle"
           /\ UNCHANGED <<purchases, memberships, failures>>
           /\ \A q \in Requests \ {r} : call'[q] = call[q]
           /\ call'[r].pc = pc
BY DEF Begin, Busy, tables, IdleCall, TypeOK

\* Without purchases nobody lacks access.
LEMMA AccessInit == Init => AccessInv
BY TypeInit DEF Init, AccessInv, OthersByGift, PurchaseIds, IdleCall

\* Whom an entitlement belongs to follows from the purchase it came from,
\* unless an administrator decided: no step gives a row another owner.
LEMMA GiftsStep ==
    ASSUME AccessInv, [Next]_vars
    PROVE  OthersByGift'
<1>t. TypeInv /\ TypeOK /\ OthersByGift
  BY DEF AccessInv, TypeInv
<1>c. \A r \in Requests : CallTyped(r) /\ call[r] \in CallRecord /\ call[r].pc # "revoke"
  BY <1>t DEF TypeInv, TypeOK, AccessInv
<1>1. ASSUME UNCHANGED <<purchases, memberships>> PROVE OthersByGift'
  BY <1>1, <1>t DEF OthersByGift, PurchaseIds
<1>2. ASSUME RowsKept, UNCHANGED memberships PROVE OthersByGift'
  BY <1>2, <1>t DEF OthersByGift, RowsKept
<1>3. ASSUME NEW src, memberships' = RevokeBySourceId(src), UNCHANGED purchases
      PROVE  OthersByGift'
  BY <1>3, <1>t, RevokeWrite DEF OthersByGift, PurchaseIds
<1>4. ASSUME NEW r \in Requests, CancelAll(r) \/ ExpireBatch(r)
      PROVE  OthersByGift'
  <2>1. RowsKept /\ UNCHANGED memberships
    BY <1>4, <1>t, StatusWrite DEF CancelAll, ExpireBatch, RowsKept, PurchaseStatus
  <2>. QED
    BY <1>2, <2>1
<1>5. ASSUME NEW r \in Requests, InsertPurchase(r) PROVE OthersByGift'
  <2>1. NewPurchase(call[r]) \in PurchaseRow
    BY <1>5, <1>c, NewPurchaseTyped DEF InsertPurchase, CallTyped
  <2>2. RowsKept /\ UNCHANGED memberships
    BY <1>5, <1>t, <2>1, PurchaseAppended DEF InsertPurchase, RowsKept
  <2>. QED
    BY <1>2, <2>2
<1>6. ASSUME NEW r \in Requests, GrantCreate(r) PROVE OthersByGift'
  <2>. DEFINE row == [user |-> call[r].user, source |-> call[r].target,
                      status |-> "active", gift |-> IsGift(call[r])]
  <2>1. /\ call[r].pc = "grantCreate" /\ UNCHANGED purchases
        /\ memberships' = Append(memberships, row)
    BY <1>6 DEF GrantCreate
  <2>2. row \in MembershipRow
    BY <1>c, <2>1 DEF CallTyped, CallRecord, MembershipRow, IsGift
  <2>3. \/ row.gift
        \/ row.source \in PurchaseIds /\ purchases[row.source].user = row.user
    BY <1>c, <2>1 DEF CallTyped, IsGift
  <2>. HIDE DEF row
  <2>4. /\ DOMAIN memberships' = DOMAIN memberships \cup {Len(memberships) + 1}
        /\ \A m \in DOMAIN memberships : memberships'[m] = memberships[m]
        /\ memberships'[Len(memberships) + 1] = row
    BY <1>t, <2>1, <2>2, MembershipAppended
  <2>. QED
    BY <1>t, <2>1, <2>3, <2>4 DEF OthersByGift, PurchaseIds
<1>7. ASSUME NEW i \in PurchaseIds, PeriodEnds(i) PROVE OthersByGift'
  <2>1. RowsKept /\ UNCHANGED memberships
    BY <1>7, <1>t, RowsTyped DEF PeriodEnds, RowsKept, PurchaseIds, PurchaseRow
  <2>. QED
    BY <1>2, <2>1
<1>8. ASSUME NEW r \in Requests,
             Receive(r) \/ Raise(r) \/ Respond(r) \/ RevokeMembership(r)
      PROVE  OthersByGift'
  <2>1. ~RevokeMembership(r)
    BY <1>c DEF RevokeMembership
  <2>. QED
    BY <1>1, <1>8, <2>1 DEF Receive, Begin, Raise, Respond, tables
<1>9. ASSUME NEW r \in Requests, RevokeOld(r) \/ GrantRevoke(r) \/ RevokeExpired(r)
      PROVE  OthersByGift'
  BY <1>3, <1>9 DEF RevokeOld, GrantRevoke, RevokeExpired
<1>10. ASSUME NEW r \in Requests,
              \/ FindProduct(r) \/ FindSubscription(r) \/ FindFree(r)
              \/ FindExpired(r) \/ CountActive(r) \/ SetInactive(r)
              \/ UpdateProduct(r)
       PROVE  OthersByGift'
  BY <1>1, <1>10 DEF FindProduct, FindSubscription, FindFree, FindExpired,
                     CountActive, SetInactive, UpdateProduct, tables
<1>. QED
  BY <1>1, <1>4, <1>5, <1>6, <1>7, <1>8, <1>9, <1>10 DEF Next, Step, vars

\* Every step keeps access, or leaves it to the step that restores it.
LEMMA AccessStep ==
    ASSUME "revoke" \notin Ops
    PROVE  AccessInv /\ [Next]_vars => AccessInv'
<1>. SUFFICES ASSUME AccessInv, [Next]_vars PROVE AccessInv'
  OBVIOUS
<1>t. TypeInv /\ TypeOK /\ TypeInv'
  BY TypeStep DEF AccessInv, TypeInv
<1>g. OthersByGift'
  BY GiftsStep
<1>c. \A r \in Requests : CallTyped(r) /\ call[r] \in CallRecord /\ call[r].pc # "revoke"
  BY <1>t DEF TypeInv, TypeOK, AccessInv
<1>n. \A i \in PurchaseIds :
          purchases[i].product \in Recurring => purchases[i].status # "completed"
  BY DEF AccessInv
<1>k. UNCHANGED purchases => /\ RowsKept
                             /\ PurchaseIds' = PurchaseIds
                             /\ \A i \in PurchaseIds : StatusKept(i)
                             /\ \A i \in PurchaseIds : NeedsAccess(i)' <=> NeedsAccess(i)
  BY DEF RowsKept, PurchaseIds, StatusKept, NeedsAccess, IsLive
<1>0. CASE UNCHANGED vars
  BY <1>0, <1>t, <1>k, <1>g DEF vars, AccessInv, AccessOrPending, HasAccessFrom, EntitlementsFrom, PendingBy,
                    NeedsAccess
<1>1. ASSUME NEW r \in Requests, UNCHANGED <<purchases, memberships, failures>>,
             \A q \in Requests \ {r} : call'[q] = call[q],
             call[r].pc \notin {"grantRevoke", "grantCreate", "cancelAll",
                                "revokeExpired", "expireBatch"},
             call'[r].pc # "revoke"
      PROVE  AccessInv'
  <2>1. \A i \in PurchaseIds : ~PendingBy(r, i)
    BY <1>1 DEF PendingBy
  <2>2. \A i \in PurchaseIds : HasAccessFrom(i) => HasAccessFrom(i)'
    BY <1>1 DEF HasAccessFrom, EntitlementsFrom
  <2>. QED
    BY <1>1, <1>k, <1>t, <1>n, <2>1, <2>2, <1>g, AccessFrame
<1>2. ASSUME NEW r \in Requests,
             \/ FindProduct(r) \/ FindSubscription(r) \/ FindFree(r)
             \/ FindExpired(r) \/ CountActive(r) \/ SetInactive(r)
             \/ UpdateProduct(r) \/ Respond(r)
      PROVE  AccessInv'
  <2>1. /\ UNCHANGED <<purchases, memberships, failures>>
        /\ call[r].pc \notin {"grantRevoke", "grantCreate", "cancelAll",
                              "revokeExpired", "expireBatch"}
    BY <1>2 DEF FindProduct, FindSubscription, FindFree, FindExpired, CountActive,
                SetInactive, UpdateProduct, Respond, Finished, tables
  <2>2. (\A q \in Requests \ {r} : call'[q] = call[q]) /\ call'[r].pc # "revoke"
    <3>1. CASE FindProduct(r)
      BY <3>1, <1>t, <1>c DEF FindProduct, Goto, TypeOK, CallRecord
    <3>2. CASE FindSubscription(r)
      BY <3>2, <1>t, <1>c DEF FindSubscription, TypeOK, CallRecord
    <3>3. CASE FindFree(r)
      BY <3>3, <1>t, <1>c DEF FindFree, TypeOK, CallRecord
    <3>4. CASE FindExpired(r)
      BY <3>4, <1>t, <1>c DEF FindExpired, TypeOK, CallRecord
    <3>5. CASE CountActive(r)
      BY <3>5, <1>t, <1>c DEF CountActive, Goto, TypeOK, CallRecord
    <3>6. CASE SetInactive(r) \/ UpdateProduct(r)
      BY <3>6, <1>t, <1>c DEF SetInactive, UpdateProduct, Goto, TypeOK, CallRecord
    <3>7. CASE Respond(r)
      BY <3>7, <1>t, <1>c DEF Respond, IdleCall, TypeOK
    <3>. QED
      BY <1>2, <3>1, <3>2, <3>3, <3>4, <3>5, <3>6, <3>7
  <2>. QED
    BY <1>1, <2>1, <2>2
<1>3. ASSUME NEW r \in Requests, Receive(r) PROVE AccessInv'
  <2>1. /\ UNCHANGED <<purchases, memberships, failures>>
        /\ call[r].pc = "idle"
        /\ \A q \in Requests \ {r} : call'[q] = call[q]
        /\ call'[r].pc # "revoke"
    BY <1>3, <1>t, BeginEffect DEF Receive
  <2>. QED
    BY <1>1, <2>1
<1>4. ASSUME NEW r \in Requests, RevokeOld(r) PROVE AccessInv'
  <2>1. /\ call[r].pc = "revokeOld" /\ Goto(r, "cancelAll")
        /\ UNCHANGED <<purchases, failures>>
        /\ memberships' = RevokeBySourceId(call[r].target)
    BY <1>4 DEF RevokeOld
  <2>2. /\ \A q \in Requests \ {r} : call'[q] = call[q]
        /\ call'[r].pc = "cancelAll" /\ call'[r].user = call[r].user
    BY <1>t, <2>1, GotoEffect DEF Steps
  <2>3. ASSUME NEW i \in PurchaseIds, NeedsAccess(i)
        PROVE  /\ ~PendingBy(r, i)
               /\ HasAccessFrom(i) => HasAccessFrom(i)' \/ PendingBy(r, i)'
    <3>1. CASE i # call[r].target
      BY <3>1, <1>t, <2>1, RevokeWrite DEF HasAccessFrom, EntitlementsFrom, PendingBy
    <3>2. CASE i = call[r].target
      <4>1. IsActiveSubscription(purchases[i], call[r].user)
        BY <3>2, <2>3, <2>1, <1>c, <1>n
           DEF CallTyped, IsActiveSubscription, NeedsAccess, IsLive
      <4>. QED
        BY <4>1, <2>1, <2>2 DEF PendingBy, IsActiveSubscription
    <3>. QED
      BY <3>1, <3>2
  <2>. QED
    BY <1>k, <1>t, <1>n, <2>1, <2>2, <2>3, <1>g, AccessFrame
<1>5. ASSUME NEW r \in Requests, CancelAll(r) PROVE AccessInv'
  <2>1. /\ call[r].pc = "cancelAll"
        /\ UNCHANGED <<memberships, failures>>
        /\ purchases' = WithStatus(ActiveSubscriptions(call[r].user), "cancelled")
    BY <1>5 DEF CancelAll
  <2>2. PICK pc \in {"findFree", "insert"} : Goto(r, pc)
    BY <1>5 DEF CancelAll
  <2>3. (\A q \in Requests \ {r} : call'[q] = call[q]) /\ call'[r].pc # "revoke"
    BY <1>t, <2>2, GotoEffect DEF Steps
  <2>4. /\ RowsKept /\ PurchaseIds' = PurchaseIds
        /\ \A i \in PurchaseIds : purchases'[i].status =
              IF i \in ActiveSubscriptions(call[r].user) THEN "cancelled"
              ELSE purchases[i].status
    BY <1>t, <2>1, StatusWrite DEF RowsKept, PurchaseStatus
  <2>5. ASSUME NEW i \in PurchaseIds, NeedsAccess(i)'
        PROVE  /\ NeedsAccess(i) /\ StatusKept(i) /\ ~PendingBy(r, i)
               /\ HasAccessFrom(i) => HasAccessFrom(i)'
    <3>1. i \notin ActiveSubscriptions(call[r].user)
      BY <2>4, <2>5 DEF NeedsAccess, IsLive
    <3>. QED
      BY <3>1, <2>1, <2>4, <2>5
         DEF NeedsAccess, IsLive, StatusKept, PendingBy, HasAccessFrom, EntitlementsFrom, RowsKept,
             ActiveSubscriptions
  <2>6. \A i \in PurchaseIds' : purchases'[i].product \in Recurring
            => purchases'[i].status # "completed"
    BY <1>n, <2>4 DEF RowsKept
  <2>. QED
    BY <1>t, <2>1, <2>3, <2>4, <2>5, <2>6, <1>g, AccessFrame
<1>6. ASSUME NEW r \in Requests, InsertPurchase(r) PROVE AccessInv'
  <2>. DEFINE row == NewPurchase(call[r])
              new == Len(purchases) + 1
  <2>1. /\ call[r].pc = "insert" /\ UNCHANGED <<memberships, failures>>
        /\ purchases' = Append(purchases, row)
        /\ call' = [call EXCEPT ![r].target = new,
              ![r].pc = IF call[r].product \in Keyed THEN "grantRevoke"
                        ELSE "returned"]
    BY <1>6 DEF InsertPurchase
  <2>2. /\ row \in PurchaseRow /\ row.product = call[r].product
        /\ row.product \in Recurring => row.status = "active"
    BY <1>c, <2>1, NewPurchaseTyped DEF CallTyped
  <2>. HIDE DEF row
  <2>3. /\ PurchaseIds' = PurchaseIds \cup {new} /\ new \notin PurchaseIds
        /\ \A i \in PurchaseIds : purchases'[i] = purchases[i]
        /\ purchases'[new] = row
    BY <1>t, <2>1, <2>2, PurchaseAppended
  <2>4. /\ \A q \in Requests \ {r} : call'[q] = call[q]
        /\ call'[r].pc # "revoke"
        /\ call[r].product \in Keyed =>
              call'[r].pc = "grantRevoke" /\ call'[r].target = new
    BY <1>t, <1>c, <2>1 DEF TypeOK, CallRecord
  <2>5. ASSUME NEW i \in PurchaseIds', NeedsAccess(i)'
        PROVE  \/ PendingBy(r, i)'
               \/ /\ i \in PurchaseIds /\ NeedsAccess(i) /\ StatusKept(i)
                  /\ HasAccessFrom(i) => HasAccessFrom(i)'
                  /\ ~PendingBy(r, i)
    <3>1. CASE i = new
      BY <3>1, <2>2, <2>3, <2>4, <2>5 DEF NeedsAccess, PendingBy
    <3>2. CASE i # new
      BY <3>2, <2>1, <2>3, <2>5
         DEF NeedsAccess, IsLive, StatusKept, HasAccessFrom, EntitlementsFrom, PendingBy
    <3>. QED
      BY <3>1, <3>2
  <2>6. RowsKept /\ \A i \in PurchaseIds' : purchases'[i].product \in Recurring
            => purchases'[i].status # "completed"
    BY <1>n, <2>2, <2>3 DEF RowsKept
  <2>. QED
    BY <1>t, <2>1, <2>4, <2>5, <2>6, <1>g, AccessFrame
<1>7. ASSUME NEW r \in Requests, GrantRevoke(r) PROVE AccessInv'
  <2>1. /\ call[r].pc = "grantRevoke" /\ Goto(r, "grantCreate")
        /\ UNCHANGED <<purchases, failures>>
        /\ memberships' = RevokeBySourceId(call[r].target)
    BY <1>7 DEF GrantRevoke
  <2>2. /\ \A q \in Requests \ {r} : call'[q] = call[q]
        /\ call'[r].pc = "grantCreate" /\ call'[r].target = call[r].target
    BY <1>t, <2>1, GotoEffect DEF Steps
  <2>3. ASSUME NEW i \in PurchaseIds
        PROVE  \/ PendingBy(r, i)'
               \/ (HasAccessFrom(i) => HasAccessFrom(i)') /\ ~PendingBy(r, i)
    BY <1>t, <2>1, <2>2, RevokeWrite DEF HasAccessFrom, EntitlementsFrom, PendingBy
  <2>. QED
    BY <1>k, <1>t, <1>n, <2>1, <2>2, <2>3, <1>g, AccessFrame
<1>8. ASSUME NEW r \in Requests, GrantCreate(r) PROVE AccessInv'
  <2>. DEFINE row == [user |-> call[r].user, source |-> call[r].target,
                      status |-> "active", gift |-> IsGift(call[r])]
  <2>1. /\ call[r].pc = "grantCreate" /\ Goto(r, "returned")
        /\ UNCHANGED <<purchases, failures>>
        /\ memberships' = Append(memberships, row)
    BY <1>8 DEF GrantCreate
  <2>2. (\A q \in Requests \ {r} : call'[q] = call[q]) /\ call'[r].pc # "revoke"
    BY <1>t, <2>1, GotoEffect DEF Steps
  <2>3. row \in MembershipRow
    BY <2>1, <1>c DEF CallTyped, CallRecord, MembershipRow, IsGift
  <2>4. /\ row.source = call[r].target /\ row.status = "active"
        /\ DOMAIN memberships' = DOMAIN memberships \cup {Len(memberships) + 1}
        /\ \A m \in DOMAIN memberships : memberships'[m] = memberships[m]
        /\ memberships'[Len(memberships) + 1] = row
    <3>1. row.source = call[r].target /\ row.status = "active"
      OBVIOUS
    <3>. HIDE DEF row
    <3>. QED
      BY <1>t, <2>1, <2>3, <3>1, MembershipAppended
  <2>. HIDE DEF row
  <2>5. \E m \in DOMAIN memberships' : memberships'[m].source = call[r].target
                                       /\ memberships'[m].status = "active"
    <3>. DEFINE m == Len(memberships) + 1
    <3>1. m \in DOMAIN memberships' /\ memberships'[m] = row
      BY <2>4
    <3>2. call[r].target = memberships'[m].source /\ memberships'[m].status = "active"
      BY <2>4, <3>1
    <3>. QED
      BY <3>1, <3>2
  <2>6. ASSUME NEW i \in PurchaseIds
        PROVE  \/ HasAccessFrom(i)'
               \/ (HasAccessFrom(i) => HasAccessFrom(i)') /\ ~PendingBy(r, i)
    <3>1. HasAccessFrom(i) => HasAccessFrom(i)'
      BY <2>4 DEF HasAccessFrom, EntitlementsFrom
    <3>2. PendingBy(r, i) => i = call[r].target
      BY <2>1 DEF PendingBy
    <3>3. i = call[r].target => HasAccessFrom(i)'
      BY <2>5 DEF HasAccessFrom, EntitlementsFrom
    <3>. QED
      BY <3>1, <3>2, <3>3
  <2>. QED
    BY <1>k, <1>t, <1>n, <2>1, <2>2, <2>6, <1>g, AccessFrame
<1>9. ASSUME NEW r \in Requests, RevokeExpired(r) PROVE AccessInv'
  <2>1. PICK k \in call[r].queue :
            /\ memberships' = RevokeBySourceId(k)
            /\ call' = [call EXCEPT
                  ![r].queue = @ \ {k},
                  ![r].pc = IF call[r].queue = {k} THEN "expireBatch"
                            ELSE "revokeExpired"]
    BY <1>9 DEF RevokeExpired
  <2>2. UNCHANGED <<purchases, failures>> /\ call[r].pc = "revokeExpired"
    BY <1>9 DEF RevokeExpired
  <2>3. /\ \A q \in Requests \ {r} : call'[q] = call[q]
        /\ call'[r].pc \in {"expireBatch", "revokeExpired"}
        /\ call'[r].queue = call[r].queue \ {k}
        /\ call'[r].ids = call[r].ids
    BY <1>t, <1>c, <2>1 DEF TypeOK, CallRecord
  <2>4. k \in call[r].ids
    BY <2>1, <2>2, <1>c DEF CallTyped
  <2>5. ASSUME NEW i \in PurchaseIds
        PROVE  \/ PendingBy(r, i)'
               \/ (HasAccessFrom(i) => HasAccessFrom(i)') /\ ~PendingBy(r, i)
    <3>1. CASE i = k
      BY <3>1, <2>3, <2>4 DEF PendingBy
    <3>2. CASE i # k
      <4>1. HasAccessFrom(i) => HasAccessFrom(i)'
        BY <3>2, <1>t, <2>1, RevokeWrite DEF HasAccessFrom, EntitlementsFrom
      <4>2. PendingBy(r, i) => PendingBy(r, i)'
        BY <3>2, <2>2, <2>3 DEF PendingBy
      <4>. QED
        BY <4>1, <4>2
    <3>. QED
      BY <3>1, <3>2
  <2>. QED
    BY <1>k, <1>t, <1>n, <2>2, <2>3, <2>5, <1>g, AccessFrame
<1>10. ASSUME NEW r \in Requests, ExpireBatch(r) PROVE AccessInv'
  <2>1. /\ call[r].pc = "expireBatch" /\ Goto(r, "returned")
        /\ UNCHANGED <<memberships, failures>>
        /\ purchases' = WithStatus(call[r].ids, "expired")
    BY <1>10 DEF ExpireBatch
  <2>2. (\A q \in Requests \ {r} : call'[q] = call[q]) /\ call'[r].pc # "revoke"
    BY <1>t, <2>1, GotoEffect DEF Steps
  <2>3. /\ RowsKept /\ PurchaseIds' = PurchaseIds
        /\ \A i \in PurchaseIds : purchases'[i].status =
              IF i \in call[r].ids THEN "expired" ELSE purchases[i].status
    BY <1>t, <2>1, StatusWrite DEF RowsKept, PurchaseStatus
  <2>4. ASSUME NEW i \in PurchaseIds, NeedsAccess(i)'
        PROVE  /\ NeedsAccess(i) /\ StatusKept(i) /\ ~PendingBy(r, i)
               /\ HasAccessFrom(i) => HasAccessFrom(i)'
    <3>1. i \notin call[r].ids
      BY <2>3, <2>4 DEF NeedsAccess, IsLive
    <3>. QED
      BY <3>1, <2>1, <2>3, <2>4
         DEF NeedsAccess, IsLive, StatusKept, PendingBy, HasAccessFrom, EntitlementsFrom, RowsKept
  <2>5. \A i \in PurchaseIds' : purchases'[i].product \in Recurring
            => purchases'[i].status # "completed"
    BY <1>n, <2>3 DEF RowsKept
  <2>. QED
    BY <1>t, <2>1, <2>2, <2>3, <2>4, <2>5, <1>g, AccessFrame
<1>11. ASSUME NEW r \in Requests, Raise(r) PROVE AccessInv'
  <2>1. Goto(r, "threw") /\ failures' = failures + 1 /\ UNCHANGED <<tables, started>>
    BY <1>11 DEF Raise
  <2>2. failures' # 0
    BY <2>1, <1>t DEF TypeOK
  <2>3. (\A q \in Requests \ {r} : call'[q] = call[q]) /\ call'[r].pc # "revoke"
    BY <1>t, <2>1, GotoEffect DEF Steps
  <2>. QED
    BY <1>k, <1>n, <1>t, <1>c, <1>g, <2>1, <2>2, <2>3 DEF AccessInv, tables
<1>12. ASSUME NEW i \in PurchaseIds, PeriodEnds(i) PROVE AccessInv'
  <2>1. UNCHANGED <<memberships, call, failures>>
        /\ purchases' = [purchases EXCEPT ![i] = [@ EXCEPT !.endDate = "past"]]
    BY <1>12 DEF PeriodEnds
  <2>2. /\ PurchaseIds' = PurchaseIds
        /\ \A j \in PurchaseIds : /\ purchases'[j].status = purchases[j].status
                                  /\ purchases'[j].user = purchases[j].user
                                  /\ purchases'[j].product = purchases[j].product
    BY <1>t, <2>1, RowsTyped DEF PurchaseIds, PurchaseRow
  <2>3. \A r \in Requests, j \in PurchaseIds : PendingBy(r, j) <=> PendingBy(r, j)'
    BY <2>1, <2>2 DEF PendingBy, IsActiveSubscription
  <2>4. \A j \in PurchaseIds : NeedsAccess(j)' /\ failures' = 0 => AccessOrPending(j)'
    BY <2>1, <2>2, <2>3
       DEF AccessInv, NeedsAccess, IsLive, AccessOrPending, HasAccessFrom, EntitlementsFrom
  <2>. QED
    BY <1>t, <1>n, <1>c, <1>g, <2>1, <2>2, <2>4 DEF AccessInv
<1>13. ASSUME NEW r \in Requests, RevokeMembership(r) PROVE AccessInv'
  BY <1>13, <1>c DEF RevokeMembership
<1>. QED
  BY <1>0, <1>2, <1>3, <1>4, <1>5, <1>6, <1>7, <1>8, <1>9, <1>10, <1>11, <1>12,
     <1>13 DEF Next, Step

\* Under any overlap of requests: when nothing is in flight and no call has
\* failed, every live purchase of a product with access keys gives access.
\* Administrators may grant entitlements by hand but not revoke them.
THEOREM LivePurchaseKeepsAccess ==
    ASSUME "revoke" \notin Ops
    PROVE  Spec => []LivePurchaseGivesAccess
<1>1. AccessInv => LivePurchaseGivesAccess
  <2>. SUFFICES ASSUME AccessInv, failures = 0, \A r \in Requests : ~Busy(r),
                       NEW i \in PurchaseIds, NeedsAccess(i)
                PROVE  \E m \in EntitlementsFrom(i) :
                          memberships[m].user = purchases[i].user \/ memberships[m].gift
    BY DEF LivePurchaseGivesAccess, NeedsAccess
  <2>1. HasAccessFrom(i)
    BY DEF AccessInv, AccessOrPending, PendingBy, Busy
  <2>. QED
    BY <2>1 DEF AccessInv, OthersByGift, HasAccessFrom, EntitlementsFrom
<1>. QED
  BY <1>1, AccessInit, AccessStep, PTL DEF Spec

-----------------------------------------------------------------------------
(* What a step leaves alone *)

\* A request in progress stays about the same user and, when it is a grant,
\* about the same purchase.
SameRequest(r) ==
    /\ call'[r].user = call[r].user
    /\ call'[r].op = call[r].op
    /\ call[r].op = "grant" => call'[r].target = call[r].target

\* A request concerns its user and, when it is a grant from a purchase, that
\* purchase's owner.
LEMMA ConcernsAre ==
    ASSUME NEW c
    PROVE  /\ c.user \in Concerns(c)
           /\ c.op = "grant" /\ c.target \in PurchaseIds =>
                 purchases[c.target].user \in Concerns(c)
BY DEF Concerns

\* Whom a request concerns does not change while it goes on.
LEMMA ConcernsStay ==
    ASSUME TypeInv, TypeInv', RowsKept, NEW r \in Requests, SameRequest(r)
    PROVE  Concerns(call[r])' = Concerns(call[r])
<1>1. 0 \notin PurchaseIds'
  BY LenProperties DEF TypeInv, TypeOK, PurchaseIds
<1>2. call[r].op = "grant" => call[r].target \in PurchaseIds \cup {0}
  BY DEF TypeInv, CallTyped
<1>. QED
  BY <1>1, <1>2 DEF Concerns, SameRequest, RowsKept

\* Request r adds rows only for its own user, ends only that user's purchases
\* (any purchase when it is about everyone), and gives access only from
\* purchases of those it concerns.
OwnRowsOnly(r) ==
    /\ \A i \in PurchaseIds :
          \/ StatusKept(i)
          \/ purchases[i].user = call[r].user
          \/ call[r].user = None
    /\ \A i \in PurchaseIds' \ PurchaseIds : purchases'[i].user = call[r].user
    /\ \A i \in PurchaseIds' :
          HasAccessFrom(i)' =>
              HasAccessFrom(i) \/ purchases'[i].user \in Concerns(call[r])

\* What another request relies on is about another user's rows.
LEMMA OthersUndisturbed ==
    ASSUME TypeInv, Isolated, RowsKept,
           NEW r \in Requests, Busy(r), OwnRowsOnly(r),
           NEW q \in Requests, q # r, call'[q] = call[q], StepInv(q)
    PROVE  StepInv(q)'
<1>1. CASE ~Busy(q)
  BY <1>1 DEF StepInv, Busy
<1>2. CASE Busy(q)
  <2>1. /\ call[q].user # None /\ call[r].user # None
        /\ call[q].user \in Concerns(call[q]) /\ call[r].user \in Concerns(call[r])
        /\ Concerns(call[q]) \cap Concerns(call[r]) = {}
    BY <1>2, ConcernsAre DEF Isolated, Apart
  <2>2. \A i \in PurchaseIds' : purchases'[i].user \in Concerns(call[q]) =>
            /\ i \in PurchaseIds
            /\ purchases[i].user = purchases'[i].user
            /\ purchases'[i].product = purchases[i].product
            /\ purchases'[i].status = purchases[i].status
            /\ HasAccessFrom(i)' => HasAccessFrom(i)
    BY <2>1 DEF OwnRowsOnly, RowsKept, StatusKept
  <2>3. CallTyped(q)
    BY DEF TypeInv
  <2>4. call[q].pc = "revokeOld" => purchases'[call[q].target].status = "active"
    BY <2>1, <2>2, <2>3 DEF StepInv, CallTyped, RowsKept
  <2>5. \A i \in PurchaseIds' :
            IsActiveSubscription(purchases'[i], call[q].user) =>
                i \in ActiveSubscriptions(call[q].user)
    BY <2>1, <2>2 DEF ActiveSubscriptions, IsActiveSubscription
  <2>6. call[q].pc = "cancelAll" =>
            \A i \in PurchaseIds' :
                IsActiveSubscription(purchases'[i], call[q].user) => ~HasAccessFrom(i)'
    BY <2>1, <2>2, <2>5 DEF StepInv, IsActiveSubscription
  <2>7. call[q].pc = "findFree" \/ (call[q].pc = "insert" /\ call[q].product \in Recurring) =>
            \A i \in PurchaseIds' :
                ~IsActiveSubscription(purchases'[i], call[q].user)
    BY <2>5 DEF StepInv
  <2>8. call[q].pc \in {"grantRevoke", "grantCreate"} =>
            /\ call[q].op # "grant" => IsLive(purchases'[call[q].target])
            /\ call[q].pc = "grantCreate" /\ call[q].target # 0 =>
                  ~HasAccessFrom(call[q].target)'
    <3>. SUFFICES ASSUME call[q].pc \in {"grantRevoke", "grantCreate"},
                         call[q].target # 0
                  PROVE  /\ call[q].op # "grant" => IsLive(purchases'[call[q].target])
                         /\ call[q].pc = "grantCreate" =>
                               ~HasAccessFrom(call[q].target)'
      <4>1. PurchaseIds \subseteq Nat \ {0}
        BY LenProperties DEF TypeInv, TypeOK, PurchaseIds
      <4>. QED
        BY <2>3, <4>1 DEF CallTyped
    <3>1. /\ call[q].target \in PurchaseIds'
          /\ call[q].target \in PurchaseIds
          /\ purchases'[call[q].target].user = purchases[call[q].target].user
      BY <2>3 DEF CallTyped, RowsKept
    <3>2. purchases[call[q].target].user \in Concerns(call[q])
      BY <2>1, <2>3, <3>1, ConcernsAre DEF CallTyped
    <3>3. /\ purchases'[call[q].target].status = purchases[call[q].target].status
          /\ HasAccessFrom(call[q].target)' => HasAccessFrom(call[q].target)
      <4>. DEFINE t == call[q].target
      <4>1. /\ purchases'[t].status = purchases[t].status
            /\ HasAccessFrom(t)' => HasAccessFrom(t)
        BY <2>2, <3>1, <3>2
      <4>. QED
        BY <4>1
    <3>. QED
      BY <3>3 DEF StepInv, IsLive
  <2>9. call[q].pc \notin {"findExpired", "revokeExpired", "expireBatch"}
    BY <2>1 DEF StepInv
  <2>. QED
    BY <2>4, <2>6, <2>7, <2>8, <2>9 DEF StepInv, ActiveSubscriptions
<1>. QED
  BY <1>1, <1>2

\* A request that goes on, or ends, still meets no other about its user.
LEMMA IsolationKept ==
    ASSUME TypeInv, TypeInv', RowsKept, Isolated, NEW r \in Requests,
           \A q \in Requests \ {r} : call'[q] = call[q],
           Busy(r)' => Busy(r) /\ SameRequest(r)
    PROVE  Isolated'
<1>1. ASSUME NEW q \in Requests, Busy(q)'
      PROVE  Busy(q) /\ Concerns(call[q])' = Concerns(call[q])
  <2>1. SameRequest(q) /\ Busy(q)
    BY <1>1 DEF SameRequest, Busy
  <2>. QED
    BY <2>1, ConcernsStay
<1>. QED
  BY <1>1 DEF Isolated, Apart

\* A step that writes neither table is judged by what comes next.
LEMMA ReadFrame ==
    ASSUME SerialInv, TypeInv', Isolated', NEW r \in Requests,
           UNCHANGED <<purchases, memberships>>,
           \A q \in Requests \ {r} : call'[q] = call[q],
           StepInv(r)'
    PROVE  SerialInv'
<1>1. ASSUME NEW q \in Requests, q # r PROVE StepInv(q)'
  <2>1. StepInv(q) /\ call'[q] = call[q]
    BY <1>1 DEF SerialInv
  <2>. QED
    BY <2>1 DEF StepInv, HasAccessFrom, EntitlementsFrom, ActiveSubscriptions, PurchaseIds
<1>2. OneActiveSubscription' /\ EntitlementBacked' /\ OneEntitlementPerPurchase'
  BY DEF SerialInv, OneActiveSubscription, EntitlementBacked,
         OneEntitlementPerPurchase, ActiveSubscriptions, PurchaseIds
<1>. QED
  BY <1>1, <1>2 DEF SerialInv

\* A step of a running procedure that writes rows of its own user.
LEMMA WriteFrame ==
    ASSUME SerialInv, TypeInv', RowsKept, NEW r \in Requests, Busy(r),
           \A q \in Requests \ {r} : call'[q] = call[q],
           SameRequest(r),
           OwnRowsOnly(r), StepInv(r)',
           OneActiveSubscription', EntitlementBacked',
           OneEntitlementPerPurchase'
    PROVE  SerialInv'
<1>1. Isolated'
  BY IsolationKept DEF SerialInv
<1>2. ASSUME NEW q \in Requests, q # r PROVE StepInv(q)'
  BY <1>2, OthersUndisturbed DEF SerialInv
<1>. QED
  BY <1>1, <1>2 DEF SerialInv

\* Where fewer entitlements are active and all else is as it was, nothing that
\* held of the tables fails.
LEMMA FewerEntitlements ==
    ASSUME SerialInv, UNCHANGED purchases,
           DOMAIN memberships' = DOMAIN memberships,
           \A m \in DOMAIN memberships :
              /\ memberships'[m].user = memberships[m].user
              /\ memberships'[m].source = memberships[m].source
              /\ memberships'[m].gift = memberships[m].gift
              /\ memberships'[m].status = "active" => memberships[m].status = "active"
    PROVE  /\ RowsKept
           /\ \A i \in PurchaseIds : StatusKept(i)
           /\ PurchaseIds' = PurchaseIds
           /\ \A i : HasAccessFrom(i)' => HasAccessFrom(i)
           /\ OneActiveSubscription'
           /\ EntitlementBacked'
           /\ OneEntitlementPerPurchase'
<1>1. /\ RowsKept /\ PurchaseIds' = PurchaseIds
      /\ \A i \in PurchaseIds : StatusKept(i)
  BY DEF RowsKept, StatusKept, PurchaseIds
<1>2. \A i : HasAccessFrom(i)' => HasAccessFrom(i)
  BY DEF HasAccessFrom, EntitlementsFrom
<1>3. OneActiveSubscription'
  BY DEF SerialInv, OneActiveSubscription, ActiveSubscriptions, PurchaseIds
<1>4. EntitlementBacked'
  BY <1>1 DEF SerialInv, EntitlementBacked
<1>5. OneEntitlementPerPurchase'
  BY DEF SerialInv, OneEntitlementPerPurchase
<1>. QED
  BY <1>1, <1>2, <1>3, <1>4, <1>5

\* A procedure that revokes what one purchase grants goes on safely when its
\* next step finds what it relies on.
LEMMA Revocation ==
    ASSUME SerialInv, TypeInv', NEW r \in Requests, Busy(r), NEW src,
           UNCHANGED purchases, memberships' = RevokeBySourceId(src),
           \A q \in Requests \ {r} : call'[q] = call[q],
           SameRequest(r),
           (\A i : HasAccessFrom(i)' => HasAccessFrom(i) /\ i # src)
              => StepInv(r)'
    PROVE  SerialInv'
<1>1. /\ DOMAIN memberships' = DOMAIN memberships
      /\ \A m \in DOMAIN memberships :
            /\ memberships'[m].user = memberships[m].user
            /\ memberships'[m].source = memberships[m].source
            /\ memberships'[m].gift = memberships[m].gift
            /\ memberships'[m].status = "active" =>
                  /\ memberships[m].status = "active"
                  /\ memberships[m].source # src
  BY RevokeWrite DEF SerialInv, TypeInv
<1>2. /\ RowsKept
      /\ \A i \in PurchaseIds : StatusKept(i)
      /\ PurchaseIds' = PurchaseIds
      /\ \A i : HasAccessFrom(i)' => HasAccessFrom(i)
      /\ OneActiveSubscription' /\ EntitlementBacked' /\ OneEntitlementPerPurchase'
  BY <1>1, FewerEntitlements
<1>3. \A i : HasAccessFrom(i)' => HasAccessFrom(i) /\ i # src
  BY <1>1 DEF HasAccessFrom, EntitlementsFrom
<1>4. OwnRowsOnly(r)
  BY <1>2 DEF OwnRowsOnly
<1>. QED
  BY <1>2, <1>3, <1>4, WriteFrame

\* Ending purchases that give no access.
LEMMA Ending ==
    ASSUME SerialInv, NEW ids, NEW s \in {"cancelled", "expired"},
           purchases' = WithStatus(ids, s), UNCHANGED memberships,
           \A i \in ids \cap PurchaseIds : ~HasAccessFrom(i)
    PROVE  /\ RowsKept
           /\ PurchaseIds' = PurchaseIds
           /\ \A i \in PurchaseIds \ ids : StatusKept(i)
           /\ \A i \in PurchaseIds \cap ids : purchases'[i].status = s
           /\ \A i : HasAccessFrom(i)' => HasAccessFrom(i)
           /\ OneActiveSubscription'
           /\ EntitlementBacked'
           /\ OneEntitlementPerPurchase'
<1>1. /\ PurchaseIds' = PurchaseIds
      /\ \A i \in PurchaseIds :
            /\ purchases'[i].user = purchases[i].user
            /\ purchases'[i].product = purchases[i].product
            /\ purchases'[i].status = IF i \in ids THEN s ELSE purchases[i].status
  BY StatusWrite DEF SerialInv, TypeInv, PurchaseStatus
<1>2. RowsKept /\ \A i \in PurchaseIds \ ids : StatusKept(i)
  BY <1>1 DEF RowsKept, StatusKept
<1>3. \A i : HasAccessFrom(i)' => HasAccessFrom(i)
  BY DEF HasAccessFrom, EntitlementsFrom
<1>4. \A u \in Users : ActiveSubscriptions(u)' \subseteq ActiveSubscriptions(u)
  BY <1>1 DEF ActiveSubscriptions, IsActiveSubscription
<1>5. OneActiveSubscription'
  BY <1>4 DEF SerialInv, OneActiveSubscription
<1>6. EntitlementBacked'
  <2>1. ASSUME NEW m \in DOMAIN memberships, memberships[m].status = "active"
        PROVE  memberships[m].gift \/ memberships[m].source \notin ids
    BY <2>1 DEF SerialInv, EntitlementBacked, HasAccessFrom, EntitlementsFrom
  <2>. QED
    BY <1>1, <2>1 DEF SerialInv, EntitlementBacked, IsLive
<1>7. OneEntitlementPerPurchase'
  BY DEF SerialInv, OneEntitlementPerPurchase
<1>. QED
  BY <1>1, <1>2, <1>3, <1>5, <1>6, <1>7

-----------------------------------------------------------------------------
(* The invariant of serial requests *)

\* A request that arrives meets no other about its user.
LEMMA Arrival ==
    ASSUME Overlap = FALSE, SerialInv, TypeInv', NEW r \in Requests,
           NEW op, NEW pc, NEW u, NEW p, NEW n,
           Begin(r, op, pc, u, p, n),
           call'[r].pc = pc /\ call'[r].op = op /\ call'[r].user = u => StepInv(r)'
    PROVE  SerialInv'
<1>. DEFINE c == [IdleCall EXCEPT !.op = op, !.pc = pc, !.user = u, !.product = p,
                                  !.target = n]
<1>1. /\ UNCHANGED <<purchases, memberships>>
      /\ \A q \in Requests \ {r} : call'[q] = call[q]
      /\ call'[r] = c /\ MayRun(r, c)
  BY DEF Begin, tables, SerialInv, TypeInv, TypeOK
<1>2. c.pc = pc /\ c.op = op /\ c.user = u /\ c.target = n
  BY DEF IdleCall
<1>. HIDE DEF c
<1>3. \A d : Concerns(d)' = Concerns(d)
  BY <1>1 DEF Concerns, PurchaseIds
<1>4. \A q \in Requests \ {r} : Busy(q) => Apart(c, call[q]) /\ Apart(call[q], c)
  BY <1>1 DEF MayRun, Apart
<1>5. Isolated'
  BY <1>1, <1>3, <1>4 DEF SerialInv, Isolated, Busy, Apart
<1>. QED
  BY <1>1, <1>2, <1>5, ReadFrame

\* Empty tables and free slots satisfy it.
LEMMA SerialInit == Init => SerialInv
<1>1. ASSUME Init PROVE TypeInv
  BY <1>1, TypeInit
<1>2. ASSUME Init
      PROVE  /\ PurchaseIds = {} /\ DOMAIN memberships = {}
             /\ \A r \in Requests : call[r].pc = "idle"
  BY <1>2 DEF Init, PurchaseIds, IdleCall
<1>. QED
  BY <1>1, <1>2 DEF SerialInv, Isolated, Busy, StepInv, OneActiveSubscription,
                    EntitlementBacked, OneEntitlementPerPurchase,
                    ActiveSubscriptions

\* Every step of every procedure keeps it.
LEMMA SerialStep ==
    ASSUME Overlap = FALSE
    PROVE  SerialInv /\ [Next]_vars => SerialInv'
<1>. SUFFICES ASSUME SerialInv, [Next]_vars PROVE SerialInv'
  OBVIOUS
<1>t. TypeInv /\ TypeOK /\ TypeInv'
  BY TypeStep DEF SerialInv, TypeInv
<1>c. \A r \in Requests : CallTyped(r) /\ call[r] \in CallRecord /\ StepInv(r)
  BY <1>t DEF TypeInv, TypeOK, SerialInv
<1>a. /\ OneActiveSubscription /\ EntitlementBacked /\ OneEntitlementPerPurchase
      /\ Isolated
  BY DEF SerialInv
<1>k. UNCHANGED purchases => /\ RowsKept
                             /\ PurchaseIds' = PurchaseIds
                             /\ \A i \in PurchaseIds : StatusKept(i)
  BY DEF RowsKept, PurchaseIds, StatusKept
<1>0. CASE UNCHANGED vars
  <2>1. Isolated'
    BY <1>0, <1>a DEF vars, Isolated, Apart, Concerns, Busy, PurchaseIds
  <2>2. \A r \in Requests : StepInv(r)'
    BY <1>0, <1>c DEF vars, StepInv, HasAccessFrom, EntitlementsFrom,
                      ActiveSubscriptions, PurchaseIds
  <2>3. OneActiveSubscription' /\ EntitlementBacked' /\ OneEntitlementPerPurchase'
    BY <1>0, <1>a DEF vars, OneActiveSubscription, EntitlementBacked,
                      OneEntitlementPerPurchase, ActiveSubscriptions, PurchaseIds
  <2>. QED
    BY <1>t, <2>1, <2>2, <2>3 DEF SerialInv
<1>1. ASSUME NEW r \in Requests, UNCHANGED <<purchases, memberships>>, Busy(r),
             \A q \in Requests \ {r} : call'[q] = call[q],
             Busy(r)' => SameRequest(r),
             StepInv(r)'
      PROVE  SerialInv'
  <2>1. Isolated'
    BY <1>1, <1>t, <1>a, <1>k, IsolationKept
  <2>. QED
    BY <1>1, <1>t, <2>1, ReadFrame
<1>2. ASSUME NEW r \in Requests,
             \/ FindProduct(r) \/ CountActive(r) \/ SetInactive(r)
             \/ UpdateProduct(r) \/ Raise(r) \/ Respond(r)
      PROVE  SerialInv'
  <2>1. UNCHANGED <<purchases, memberships>> /\ Busy(r)
    BY <1>2 DEF FindProduct, CountActive, SetInactive, UpdateProduct, Raise,
                Respond, Finished, Busy, tables
  <2>2. CASE Respond(r)
    <3>1. (\A q \in Requests \ {r} : call'[q] = call[q]) /\ call'[r].pc = "idle"
      BY <2>2, <1>t DEF Respond, IdleCall, TypeOK
    <3>2. StepInv(r)'
      BY <3>1 DEF StepInv
    <3>. QED
      BY <1>1, <2>1, <3>1, <3>2 DEF Busy
  <2>3. CASE ~Respond(r)
    <3>1. PICK pc \in {"findSubscription", "insert", "threw", "setInactive", "returned"} :
              /\ Goto(r, pc)
              /\ pc = "insert" => call[r].product \notin Recurring
      BY <1>2, <2>3 DEF FindProduct, CountActive, SetInactive, UpdateProduct, Raise
    <3>2. /\ \A q \in Requests \ {r} : call'[q] = call[q]
          /\ call'[r].pc = pc /\ SameRequest(r)
          /\ call'[r].product = call[r].product
      BY <3>1, <1>t, GotoEffect DEF Steps, SameRequest
    <3>3. StepInv(r)'
      BY <3>1, <3>2 DEF StepInv
    <3>. QED
      BY <1>1, <2>1, <3>2, <3>3
  <2>. QED
    BY <2>2, <2>3
<1>3. ASSUME NEW r \in Requests, Receive(r) PROVE SerialInv'
  <2>1. ASSUME NEW op, NEW u, NEW p, NEW n,
               NEW pc \in {"findProduct", "findSubscription", "revoke",
                           "countActive", "update"},
               Begin(r, op, pc, u, p, n)
        PROVE  SerialInv'
    <3>1. call'[r].pc = pc /\ call'[r].op = op /\ call'[r].user = u => StepInv(r)'
      BY DEF StepInv
    <3>. QED
      BY <2>1, <3>1, <1>t, Arrival
  <2>2. ASSUME Begin(r, "expire", "findExpired", None, None, 0)
        PROVE  SerialInv'
    <3>1. call'[r].pc = "findExpired" /\ call'[r].op = "expire" /\ call'[r].user = None
             => StepInv(r)'
      BY DEF StepInv
    <3>. QED
      BY <2>2, <3>1, <1>t, Arrival
  <2>3. ASSUME NEW u, NEW i, Begin(r, "grant", "grantRevoke", u, None, i)
        PROVE  SerialInv'
    <3>1. call'[r].pc = "grantRevoke" /\ call'[r].op = "grant" /\ call'[r].user = u
             => StepInv(r)'
      BY DEF StepInv
    <3>. QED
      BY <2>3, <3>1, <1>t, Arrival
  <2>. QED
    BY <1>3, <2>1, <2>2, <2>3 DEF Receive
<1>4. ASSUME NEW r \in Requests, FindSubscription(r) PROVE SerialInv'
  <2>. DEFINE found == FindActiveSubscription(call[r].user)
  <2>1. /\ UNCHANGED <<purchases, memberships>> /\ call[r].pc = "findSubscription"
        /\ \A q \in Requests \ {r} : call'[q] = call[q]
        /\ call'[r].user = call[r].user /\ SameRequest(r)
        /\ call'[r].target = found
        /\ call'[r].pc = IF found # 0 THEN "revokeOld"
                         ELSE IF call[r].op = "cancel" THEN "cancelAll" ELSE "insert"
    BY <1>4, <1>t, <1>c DEF FindSubscription, TypeOK, CallRecord, tables, SameRequest, CallTyped
  <2>2. /\ found # 0 => purchases[found].status = "active"
        /\ found = 0 => ActiveSubscriptions(call[r].user) = {}
    BY <1>t, FindLatest DEF ActiveSubscriptions, IsActiveSubscription
  <2>. HIDE DEF found
  <2>3. found = 0 =>
            \A i \in PurchaseIds' : ~IsActiveSubscription(purchases'[i], call[r].user)
    BY <2>1, <2>2 DEF ActiveSubscriptions, PurchaseIds
  <2>4. StepInv(r)'
    BY <2>1, <2>2, <2>3 DEF StepInv, ActiveSubscriptions
  <2>. QED
    BY <1>1, <2>1, <2>4 DEF Busy
<1>5. ASSUME NEW r \in Requests, RevokeOld(r) PROVE SerialInv'
  <2>1. /\ call[r].pc = "revokeOld" /\ Goto(r, "cancelAll")
        /\ UNCHANGED purchases
        /\ memberships' = RevokeBySourceId(call[r].target)
    BY <1>5 DEF RevokeOld
  <2>2. /\ \A q \in Requests \ {r} : call'[q] = call[q]
        /\ call'[r].pc = "cancelAll" /\ call'[r].user = call[r].user
        /\ SameRequest(r)
    BY <1>t, <2>1, GotoEffect DEF Steps, SameRequest
  <2>3. /\ call[r].user \in Users
        /\ call[r].target \in ActiveSubscriptions(call[r].user)
    BY <1>c, <2>1 DEF CallTyped, StepInv, ActiveSubscriptions, IsActiveSubscription
  <2>4. \A i \in ActiveSubscriptions(call[r].user) : i = call[r].target
    BY <1>a, <2>3 DEF OneActiveSubscription
  <2>5. \A i \in PurchaseIds' :
            IsActiveSubscription(purchases'[i], call[r].user) => i = call[r].target
    BY <2>1, <2>4 DEF ActiveSubscriptions, PurchaseIds
  <2>6. (\A i : HasAccessFrom(i)' => HasAccessFrom(i) /\ i # call[r].target)
           => StepInv(r)'
    BY <2>2, <2>5 DEF StepInv, ActiveSubscriptions
  <2>. QED
    BY <1>t, <2>1, <2>2, <2>6, Revocation DEF Busy
<1>6. ASSUME NEW r \in Requests, CancelAll(r) PROVE SerialInv'
  <2>. DEFINE old == ActiveSubscriptions(call[r].user)
  <2>1. /\ call[r].pc = "cancelAll" /\ UNCHANGED memberships
        /\ purchases' = WithStatus(old, "cancelled")
    BY <1>6 DEF CancelAll
  <2>2. PICK pc \in {"findFree", "insert"} : Goto(r, pc)
    BY <1>6 DEF CancelAll
  <2>3. /\ \A q \in Requests \ {r} : call'[q] = call[q]
        /\ call'[r].pc = pc /\ call'[r].user = call[r].user
        /\ SameRequest(r)
    BY <1>t, <2>2, GotoEffect DEF Steps, SameRequest
  <2>4. /\ RowsKept /\ PurchaseIds' = PurchaseIds
        /\ \A i \in PurchaseIds \ old : StatusKept(i)
        /\ \A i \in PurchaseIds \cap old : purchases'[i].status = "cancelled"
        /\ \A i : HasAccessFrom(i)' => HasAccessFrom(i)
        /\ OneActiveSubscription' /\ EntitlementBacked' /\ OneEntitlementPerPurchase'
    <3>1. \A i \in old \cap PurchaseIds : ~HasAccessFrom(i)
      BY <1>c, <2>1 DEF StepInv
    <3>. HIDE DEF old
    <3>. QED
      BY <2>1, <3>1, Ending
  <2>5. OwnRowsOnly(r)
    BY <2>4 DEF OwnRowsOnly, ActiveSubscriptions, IsActiveSubscription
  <2>6. \A i \in PurchaseIds' : ~IsActiveSubscription(purchases'[i], call[r].user)
    BY <2>4 DEF ActiveSubscriptions, IsActiveSubscription, RowsKept, StatusKept
  <2>7. StepInv(r)'
    BY <2>3, <2>6 DEF StepInv, ActiveSubscriptions
  <2>. QED
    BY <1>t, <2>1, <2>3, <2>4, <2>5, <2>7, WriteFrame DEF Busy
<1>7. ASSUME NEW r \in Requests, FindFree(r) PROVE SerialInv'
  <2>1. /\ UNCHANGED <<purchases, memberships>> /\ call[r].pc = "findFree"
        /\ \A q \in Requests \ {r} : call'[q] = call[q]
        /\ call'[r].user = call[r].user /\ SameRequest(r)
        /\ call'[r].pc \in {"returned", "insert"}
    BY <1>7, <1>t, <1>c DEF FindFree, TypeOK, CallRecord, tables, SameRequest
  <2>2. \A i \in PurchaseIds' : ~IsActiveSubscription(purchases'[i], call[r].user)
    BY <1>c, <2>1 DEF StepInv, ActiveSubscriptions, PurchaseIds
  <2>3. StepInv(r)'
    BY <2>1, <2>2 DEF StepInv, ActiveSubscriptions
  <2>. QED
    BY <1>1, <2>1, <2>3 DEF Busy
<1>8. ASSUME NEW r \in Requests, InsertPurchase(r) PROVE SerialInv'
  <2>. DEFINE row == NewPurchase(call[r])
              new == Len(purchases) + 1
  <2>1. /\ call[r].pc = "insert" /\ UNCHANGED memberships
        /\ purchases' = Append(purchases, row)
        /\ call' = [call EXCEPT ![r].target = new,
              ![r].pc = IF call[r].product \in Keyed THEN "grantRevoke"
                        ELSE "returned"]
    BY <1>8 DEF InsertPurchase
  <2>2. /\ row \in PurchaseRow /\ row.product = call[r].product
        /\ row.user = call[r].user /\ IsLive(row)
    BY <1>c, <2>1, NewPurchaseTyped DEF CallTyped
  <2>. HIDE DEF row
  <2>3. /\ PurchaseIds' = PurchaseIds \cup {new} /\ new \notin PurchaseIds
        /\ \A i \in PurchaseIds : purchases'[i] = purchases[i]
        /\ purchases'[new] = row
    BY <1>t, <2>1, <2>2, PurchaseAppended
  <2>4. /\ \A q \in Requests \ {r} : call'[q] = call[q]
        /\ call'[r].user = call[r].user /\ call'[r].op = call[r].op
        /\ call[r].op # "grant"
        /\ call'[r].target = new
        /\ call'[r].pc \in {"grantRevoke", "returned"}
    BY <1>t, <1>c, <2>1 DEF TypeOK, CallRecord, CallTyped
  <2>5. /\ RowsKept
        /\ \A i \in PurchaseIds : StatusKept(i)
    BY <2>3 DEF RowsKept, StatusKept
  <2>6. \A i : HasAccessFrom(i)' <=> HasAccessFrom(i)
    BY <2>1 DEF HasAccessFrom, EntitlementsFrom
  <2>7. OwnRowsOnly(r)
    BY <2>2, <2>3, <2>5, <2>6 DEF OwnRowsOnly
  <2>8. OneActiveSubscription'
    <3>. SUFFICES ASSUME NEW u \in Users, NEW i \in ActiveSubscriptions(u)',
                         NEW j \in ActiveSubscriptions(u)'
                  PROVE  i = j
      BY DEF OneActiveSubscription
    <3>1. \A k \in ActiveSubscriptions(u)' :
              \/ k \in ActiveSubscriptions(u)
              \/ k = new /\ u = call[r].user /\ ActiveSubscriptions(u) = {}
      <4>1. ASSUME NEW k \in ActiveSubscriptions(u)', k # new
            PROVE  k \in ActiveSubscriptions(u)
        BY <2>3, <4>1 DEF ActiveSubscriptions
      <4>2. ASSUME new \in ActiveSubscriptions(u)'
            PROVE  u = call[r].user /\ call[r].product \in Recurring
        BY <2>2, <2>3, <4>2 DEF ActiveSubscriptions, IsActiveSubscription
      <4>3. call[r].product \in Recurring => ActiveSubscriptions(call[r].user) = {}
        BY <1>c, <2>1 DEF StepInv
      <4>. QED
        BY <4>1, <4>2, <4>3
    <3>. QED
      BY <1>a, <3>1 DEF OneActiveSubscription
  <2>9. EntitlementBacked' /\ OneEntitlementPerPurchase'
    BY <1>a, <2>1, <2>3 DEF EntitlementBacked, OneEntitlementPerPurchase
  <2>10. StepInv(r)'
    BY <2>2, <2>3, <2>4 DEF StepInv
  <2>. QED
    BY <1>t, <2>1, <2>4, <2>5, <2>7, <2>8, <2>9, <2>10, WriteFrame
       DEF Busy, SameRequest
<1>9. ASSUME NEW r \in Requests, GrantRevoke(r) PROVE SerialInv'
  <2>1. /\ call[r].pc = "grantRevoke" /\ Goto(r, "grantCreate")
        /\ UNCHANGED purchases
        /\ memberships' = RevokeBySourceId(call[r].target)
    BY <1>9 DEF GrantRevoke
  <2>2. /\ \A q \in Requests \ {r} : call'[q] = call[q]
        /\ call'[r].pc = "grantCreate" /\ call'[r].target = call[r].target
        /\ SameRequest(r)
    BY <1>t, <2>1, GotoEffect DEF Steps, SameRequest
  <2>3. call'[r].op # "grant" => IsLive(purchases'[call[r].target])
    BY <1>c, <2>1, <2>2 DEF StepInv, SameRequest
  <2>4. (\A i : HasAccessFrom(i)' => HasAccessFrom(i) /\ i # call[r].target)
           => StepInv(r)'
    <3>. SUFFICES ASSUME \A i : HasAccessFrom(i)' => HasAccessFrom(i) /\ i # call[r].target
                  PROVE  StepInv(r)'
      OBVIOUS
    <3>1. \A m \in DOMAIN memberships' :
              ~(memberships'[m].source = call[r].target
                /\ memberships'[m].status = "active")
      BY DEF HasAccessFrom, EntitlementsFrom
    <3>. QED
      BY <2>1, <2>2, <2>3, <3>1 DEF StepInv, IsLive, HasAccessFrom, EntitlementsFrom
  <2>. QED
    BY <1>t, <2>1, <2>2, <2>4, Revocation DEF Busy
<1>10. ASSUME NEW r \in Requests, GrantCreate(r) PROVE SerialInv'
  <2>. DEFINE row == [user |-> call[r].user, source |-> call[r].target,
                      status |-> "active", gift |-> IsGift(call[r])]
              new == Len(memberships) + 1
  <2>1. /\ call[r].pc = "grantCreate" /\ Goto(r, "returned")
        /\ UNCHANGED purchases
        /\ memberships' = Append(memberships, row)
    BY <1>10 DEF GrantCreate
  <2>2. /\ \A q \in Requests \ {r} : call'[q] = call[q]
        /\ call'[r].pc = "returned" /\ SameRequest(r)
    BY <1>t, <2>1, GotoEffect DEF Steps, SameRequest
  <2>3. /\ call[r].user \in Users /\ call[r].target \in PurchaseIds \cup {0}
        /\ call[r].target # 0 => ~HasAccessFrom(call[r].target)
        /\ call[r].target \in PurchaseIds => 
              purchases[call[r].target].user \in Concerns(call[r])
    BY <2>1, <1>c, ConcernsAre DEF CallTyped, StepInv
  <2>4. row \in MembershipRow
    BY <2>1, <1>c DEF CallTyped, CallRecord, MembershipRow, IsGift
  <2>5. /\ row.user = call[r].user /\ row.source = call[r].target
        /\ \/ row.gift
           \/ /\ row.source \in PurchaseIds /\ IsLive(purchases[row.source])
              /\ purchases[row.source].user = row.user
    BY <2>1, <1>c DEF CallTyped, StepInv, IsGift
  <2>. HIDE DEF row
  <2>6. /\ DOMAIN memberships' = DOMAIN memberships \cup {new}
        /\ \A m \in DOMAIN memberships : memberships'[m] = memberships[m]
        /\ memberships'[new] = row
    BY <1>t, <2>1, <2>4, MembershipAppended
  <2>. HIDE DEF new
  <2>7. \A i : HasAccessFrom(i)' => HasAccessFrom(i) \/ i = call[r].target
    BY <2>5, <2>6 DEF HasAccessFrom, EntitlementsFrom
  <2>8. OwnRowsOnly(r)
    BY <1>k, <2>1, <2>3, <2>7 DEF OwnRowsOnly
  <2>9. EntitlementBacked'
    BY <1>a, <1>k, <2>1, <2>3, <2>5, <2>6 DEF EntitlementBacked
  <2>10. OneEntitlementPerPurchase'
    <3>1. ASSUME NEW m \in DOMAIN memberships, memberships[m].status = "active",
                 row.source # 0
          PROVE  memberships[m].source # row.source
      BY <2>3, <2>5, <3>1 DEF HasAccessFrom, EntitlementsFrom
    <3>. QED
      BY <1>a, <2>6, <3>1 DEF OneEntitlementPerPurchase
  <2>11. OneActiveSubscription'
    BY <1>a, <2>1 DEF OneActiveSubscription, ActiveSubscriptions, PurchaseIds
  <2>12. StepInv(r)'
    BY <2>2 DEF StepInv
  <2>. QED
    BY <1>k, <1>t, <2>1, <2>2, <2>8, <2>9, <2>10, <2>11, <2>12, WriteFrame DEF Busy
<1>11. ASSUME NEW r \in Requests, RevokeMembership(r) PROVE SerialInv'
  <2>1. /\ call[r].pc = "revoke" /\ Goto(r, "returned") /\ UNCHANGED purchases
        /\ memberships' = [memberships EXCEPT ![call[r].target] =
                              [@ EXCEPT !.status = "revoked"]]
    BY <1>11 DEF RevokeMembership
  <2>2. /\ \A q \in Requests \ {r} : call'[q] = call[q]
        /\ call'[r].pc = "returned" /\ SameRequest(r)
    BY <1>t, <2>1, GotoEffect DEF Steps, SameRequest
  <2>3. /\ DOMAIN memberships' = DOMAIN memberships
        /\ \A m \in DOMAIN memberships :
              /\ memberships'[m].user = memberships[m].user
              /\ memberships'[m].source = memberships[m].source
              /\ memberships'[m].gift = memberships[m].gift
              /\ memberships'[m].status = "active" => memberships[m].status = "active"
    <3>1. \A m \in DOMAIN memberships : memberships[m] \in MembershipRow
      BY <1>t, RowsTyped
    <3>. QED
      BY <2>1, <3>1 DEF MembershipRow
  <2>4. /\ RowsKept /\ PurchaseIds' = PurchaseIds
        /\ \A i \in PurchaseIds : StatusKept(i)
        /\ \A i : HasAccessFrom(i)' => HasAccessFrom(i)
        /\ OneActiveSubscription' /\ EntitlementBacked' /\ OneEntitlementPerPurchase'
    BY <2>1, <2>3, FewerEntitlements
  <2>5. OwnRowsOnly(r) /\ StepInv(r)'
    BY <2>2, <2>4 DEF OwnRowsOnly, StepInv
  <2>. QED
    BY <1>t, <2>1, <2>2, <2>4, <2>5, WriteFrame DEF Busy
<1>12. ASSUME NEW r \in Requests, FindExpired(r) PROVE SerialInv'
  <2>. DEFINE due == FindExpiredSubscriptions
  <2>1. /\ UNCHANGED <<purchases, memberships>> /\ call[r].pc = "findExpired"
        /\ \A q \in Requests \ {r} : call'[q] = call[q]
        /\ call'[r].user = call[r].user /\ SameRequest(r)
        /\ call'[r].queue = due /\ call'[r].ids = due
        /\ call'[r].pc \in {"returned", "revokeExpired"}
    BY <1>12, <1>t, <1>c DEF FindExpired, TypeOK, CallRecord, tables, SameRequest
  <2>2. /\ due \subseteq PurchaseIds
        /\ \A i \in due : purchases[i].status = "active"
    BY DEF FindExpiredSubscriptions
  <2>3. call[r].user = None
    BY <1>c, <2>1 DEF StepInv
  <2>. HIDE DEF due
  <2>4. StepInv(r)'
    BY <1>k, <2>1, <2>2, <2>3 DEF StepInv
  <2>. QED
    BY <1>1, <2>1, <2>4 DEF Busy
<1>13. ASSUME NEW r \in Requests, RevokeExpired(r) PROVE SerialInv'
  <2>1. PICK k \in call[r].queue :
            /\ memberships' = RevokeBySourceId(k)
            /\ call' = [call EXCEPT
                  ![r].queue = @ \ {k},
                  ![r].pc = IF call[r].queue = {k} THEN "expireBatch"
                            ELSE "revokeExpired"]
    BY <1>13 DEF RevokeExpired
  <2>2. UNCHANGED purchases /\ call[r].pc = "revokeExpired"
    BY <1>13 DEF RevokeExpired
  <2>3. /\ \A q \in Requests \ {r} : call'[q] = call[q]
        /\ call'[r].pc \in {"expireBatch", "revokeExpired"}
        /\ call'[r].queue = call[r].queue \ {k}
        /\ call'[r].ids = call[r].ids
        /\ call'[r].user = call[r].user /\ SameRequest(r)
    BY <1>t, <1>c, <2>1 DEF TypeOK, CallRecord, SameRequest
  <2>4. (\A i : HasAccessFrom(i)' => HasAccessFrom(i) /\ i # k) => StepInv(r)'
    <3>. SUFFICES ASSUME \A i : HasAccessFrom(i)' => HasAccessFrom(i) /\ i # k
                  PROVE  StepInv(r)'
      OBVIOUS
    <3>1. \A i \in call'[r].ids \ call'[r].queue : ~HasAccessFrom(i)'
      BY <1>c, <2>2, <2>3 DEF StepInv
    <3>2. /\ call'[r].user = None /\ call'[r].ids \subseteq PurchaseIds'
          /\ \A i \in call'[r].ids : purchases'[i].status = "active"
      BY <1>c, <1>k, <2>2, <2>3 DEF StepInv
    <3>. QED
      BY <2>3, <3>1, <3>2 DEF StepInv
  <2>. QED
    BY <1>t, <2>1, <2>2, <2>3, <2>4, Revocation DEF Busy
<1>14. ASSUME NEW r \in Requests, ExpireBatch(r) PROVE SerialInv'
  <2>1. /\ call[r].pc = "expireBatch" /\ Goto(r, "returned")
        /\ UNCHANGED memberships
        /\ purchases' = WithStatus(call[r].ids, "expired")
    BY <1>14 DEF ExpireBatch
  <2>2. /\ \A q \in Requests \ {r} : call'[q] = call[q]
        /\ call'[r].pc = "returned" /\ SameRequest(r)
    BY <1>t, <2>1, GotoEffect DEF Steps, SameRequest
  <2>3. call[r].user = None /\ \A i \in call[r].ids : ~HasAccessFrom(i)
    BY <1>c, <2>1 DEF StepInv, CallTyped
  <2>4. /\ RowsKept /\ PurchaseIds' = PurchaseIds
        /\ \A i : HasAccessFrom(i)' => HasAccessFrom(i)
        /\ OneActiveSubscription' /\ EntitlementBacked' /\ OneEntitlementPerPurchase'
    BY <2>1, <2>3, Ending
  <2>5. OwnRowsOnly(r) /\ StepInv(r)'
    BY <2>2, <2>3, <2>4 DEF OwnRowsOnly, StepInv
  <2>. QED
    BY <1>t, <2>1, <2>2, <2>4, <2>5, WriteFrame DEF Busy
<1>15. ASSUME NEW i \in PurchaseIds, PeriodEnds(i) PROVE SerialInv'
  <2>1. UNCHANGED <<memberships, call>>
        /\ purchases' = [purchases EXCEPT ![i] = [@ EXCEPT !.endDate = "past"]]
    BY <1>15 DEF PeriodEnds
  <2>2. /\ PurchaseIds' = PurchaseIds
        /\ \A j \in PurchaseIds : /\ purchases'[j].status = purchases[j].status
                                  /\ purchases'[j].user = purchases[j].user
                                  /\ purchases'[j].product = purchases[j].product
    BY <1>t, <2>1, RowsTyped DEF PurchaseIds, PurchaseRow
  <2>3. \A j : HasAccessFrom(j)' <=> HasAccessFrom(j)
    BY <2>1 DEF HasAccessFrom, EntitlementsFrom
  <2>4. \A u : ActiveSubscriptions(u)' = ActiveSubscriptions(u)
    BY <2>2 DEF ActiveSubscriptions, IsActiveSubscription
  <2>5. ASSUME NEW r \in Requests PROVE StepInv(r)'
    <3>1. \A j \in PurchaseIds : IsLive(purchases'[j]) <=> IsLive(purchases[j])
      BY <2>2 DEF IsLive
    <3>2. CallTyped(r) /\ StepInv(r) /\ UNCHANGED call
      BY <1>c, <2>1
    <3>. QED
      BY <2>1, <2>2, <2>3, <2>4, <3>1, <3>2 DEF StepInv, CallTyped, HasAccessFrom, EntitlementsFrom
  <2>6. OneActiveSubscription' /\ EntitlementBacked' /\ OneEntitlementPerPurchase'
    BY <1>a, <2>1, <2>2, <2>4
       DEF OneActiveSubscription, EntitlementBacked, OneEntitlementPerPurchase, IsLive
  <2>7. Isolated'
    <3>1. \A d : Concerns(d)' = Concerns(d)
      BY <2>2 DEF Concerns
    <3>. QED
      BY <1>a, <2>1, <3>1 DEF Isolated, Apart, Busy
  <2>. QED
    BY <1>t, <2>5, <2>6, <2>7 DEF SerialInv
<1>. QED
  BY <1>0, <1>2, <1>3, <1>4, <1>5, <1>6, <1>7, <1>8, <1>9, <1>10, <1>11, <1>12,
     <1>13, <1>14, <1>15 DEF Next, Step

\* No step gives an ended purchase another status: cancelling selects active
\* rows, and the batch checkExpired wrote down has not been touched meanwhile.
LEMMA EndedStaysEnded ==
    SerialInv /\ [Next]_vars =>
        [\A i \in PurchaseIds :
            ~IsLive(purchases[i]) => purchases'[i].status = purchases[i].status]_vars
<1>. SUFFICES ASSUME SerialInv, [Next]_vars, NEW i \in PurchaseIds,
                     ~IsLive(purchases[i])
              PROVE  purchases'[i].status = purchases[i].status
  OBVIOUS
<1>t. TypeOK /\ \A r \in Requests : call[r] \in CallRecord /\ CallTyped(r) /\ StepInv(r)
  BY DEF SerialInv, TypeInv, TypeOK
<1>1. CASE UNCHANGED purchases
  BY <1>1
<1>2. ASSUME NEW r \in Requests, CancelAll(r)
      PROVE  purchases'[i].status = purchases[i].status
  <2>1. i \notin ActiveSubscriptions(call[r].user)
    BY DEF ActiveSubscriptions, IsActiveSubscription, IsLive
  <2>. QED
    BY <1>2, <1>t, <2>1, StatusWrite DEF CancelAll, PurchaseStatus
<1>3. ASSUME NEW r \in Requests, ExpireBatch(r)
      PROVE  purchases'[i].status = purchases[i].status
  <2>1. i \notin call[r].ids
    BY <1>3, <1>t DEF ExpireBatch, StepInv, IsLive
  <2>. QED
    BY <1>3, <1>t, <2>1, StatusWrite DEF ExpireBatch, PurchaseStatus
<1>4. ASSUME NEW r \in Requests, InsertPurchase(r)
      PROVE  purchases'[i].status = purchases[i].status
  <2>1. purchases' = Append(purchases, NewPurchase(call[r]))
    BY <1>4 DEF InsertPurchase
  <2>2. NewPurchase(call[r]) \in PurchaseRow
    BY <1>4, <1>t, NewPurchaseTyped DEF InsertPurchase, CallTyped
  <2>. QED
    BY <1>t, <2>1, <2>2, PurchaseAppended
<1>5. ASSUME NEW j \in PurchaseIds, PeriodEnds(j)
      PROVE  purchases'[i].status = purchases[i].status
  <2>1. purchases' = [purchases EXCEPT ![j] = [@ EXCEPT !.endDate = "past"]]
    BY <1>5 DEF PeriodEnds
  <2>. QED
    BY <1>t, <2>1, RowsTyped DEF PurchaseIds, PurchaseRow
<1>6. CASE Next
  <2>1. ASSUME NEW r \in Requests, Receive(r) \/ Raise(r) \/ Respond(r)
        PROVE  UNCHANGED purchases
    BY <2>1 DEF Receive, Begin, Raise, Respond, tables
  <2>2. ASSUME NEW r \in Requests, Step(r),
               ~CancelAll(r), ~ExpireBatch(r), ~InsertPurchase(r)
        PROVE  UNCHANGED purchases
    BY <2>2 DEF Step, FindProduct, FindSubscription, RevokeOld, FindFree,
                GrantRevoke, GrantCreate, RevokeMembership, FindExpired,
                RevokeExpired, CountActive, SetInactive, UpdateProduct, tables
  <2>. QED
    BY <1>1, <1>2, <1>3, <1>4, <1>5, <1>6, <2>1, <2>2 DEF Next
<1>. QED
  BY <1>1, <1>6 DEF vars

-----------------------------------------------------------------------------
(* The theorems *)

\* The order of the awaited calls in create, subscribe, cancelSubscription,
\* checkExpired and grantFromPurchase keeps every step's expectations true as
\* long as one user's requests do not overlap, whichever call fails.
THEOREM SerialRequestsAreSafe ==
    ASSUME Overlap = FALSE
    PROVE  Spec => []SerialInv
BY SerialInit, SerialStep, PTL DEF Spec

\* "Assigning a recurring product cancels the current one first" leaves at
\* most one active subscription per user, if one user's requests do not overlap.
THEOREM AtMostOneSubscription ==
    ASSUME Overlap = FALSE
    PROVE  Spec => []OneActiveSubscription
<1>1. SerialInv => OneActiveSubscription
  BY DEF SerialInv
<1>. QED
  BY <1>1, SerialInit, SerialStep, PTL DEF Spec

\* Under the same conditions no active entitlement outlives its purchase, or
\* belongs to anyone but the buyer, except what an administrator gave away
\* from something else than the holder's own live purchase.
THEOREM EntitlementsAreBacked ==
    ASSUME Overlap = FALSE
    PROVE  Spec => []EntitlementBacked
<1>1. SerialInv => EntitlementBacked
  BY DEF SerialInv
<1>. QED
  BY <1>1, SerialInit, SerialStep, PTL DEF Spec

\* Under the same conditions grantFromPurchase never doubles an entitlement.
THEOREM EntitlementsAreSingle ==
    ASSUME Overlap = FALSE
    PROVE  Spec => []OneEntitlementPerPurchase
<1>1. SerialInv => OneEntitlementPerPurchase
  BY DEF SerialInv
<1>. QED
  BY <1>1, SerialInit, SerialStep, PTL DEF Spec

\* Under the same conditions cancelled and expired are final.
THEOREM EndedPurchasesAreFinal ==
    ASSUME Overlap = FALSE
    PROVE  Spec => EndedPurchaseIsFinal
BY EndedStaysEnded, SerialInit, SerialStep, PTL DEF Spec, EndedPurchaseIsFinal

=============================================================================
