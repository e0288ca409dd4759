------------------------------ MODULE Catalogue ------------------------------
(***************************************************************************)
(* Products and their prices, as the administration edits them:             *)
(* services/product-service.ts and product-price-service.ts.  A price that  *)
(* was picked from the payment provider's catalogue brings the provider's   *)
(* product with it, and the first of them, by mode, becomes the product's    *)
(* link, by which billing-service.ts recognises what was paid.              *)
(***************************************************************************)
EXTENDS Desk

CONSTANTS
    Products, ProductSlugs,
    StartProducts,  \* slugs of the products there are at first
    Modes,          \* of payment: test and live
    External,       \* the provider's products
    MaxPrices       \* bound on the prices ever inserted

ProductRow == [slug : ProductSlugs, active : BOOLEAN, link : [Modes -> {Void} \cup External]]

ASSUME CatalogueAssumption ==
    /\ DOMAIN StartProducts \subseteq Products
    /\ \A p \in DOMAIN StartProducts : StartProducts[p] \in ProductSlugs
    /\ Void \notin ProductRow

VARIABLES
    product,        \* by id: [slug, active, link], or Void
    price,          \* in order of insertion: [product, mode], or Void
    sold            \* products with a purchase that is active or completed

shop == <<product, price, sold>>

IsProduct(p) == product[p] # Void
SlugHolders(slug) == {p \in Products : IsProduct(p) /\ product[p].slug = slug}

NewProduct(slug) == [slug |-> slug, active |-> TRUE, link |-> [m \in Modes |-> Void]]

CatalogueInit ==
    /\ product = [p \in Products |-> IF p \in DOMAIN StartProducts THEN NewProduct(StartProducts[p]) ELSE Void]
    /\ price = <<>>
    /\ sold = {}

\* The bodies the schemas let through, as far as anything here depends on them.
\* A price has a mode, and the provider's product it was picked from, as
\* stripe-catalog-service.ts looked it up, or none; a new product with two
\* prices comes with picked ones.
PriceInput == [mode : Modes, external : External \cup {Void}]
Picked == {i \in PriceInput : i.external # Void}
PriceChanges == [mode : Modes]
NewProducts == [slug : ProductSlugs, prices : {<<i>> : i \in PriceInput} \cup (Picked \X Picked)]
ProductChanges == [slug : ProductSlugs \cup {Void}, active : BOOLEAN \cup {Void}]

ProductRequests(s) ==
    \/ \E new \in NewProducts :
          Begin(s, [op |-> "product.create", id |-> Void, slug |-> new.slug, todo |-> new.prices,
                    alone |-> TRUE, pc |-> "find"])
    \/ \E p \in {q \in Products : IsProduct(q)} :
          \/ \E new \in ProductChanges :
                Begin(s, [op |-> "product.update", id |-> p, slug |-> new.slug, active |-> new.active, pc |-> "find"])
          \/ Begin(s, [op |-> "product.deactivate", id |-> p, pc |-> "count"])

PriceRequests(s) ==
    \/ \E p \in {q \in Products : IsProduct(q)}, i \in PriceInput :
          Begin(s, [op |-> "price.create", id |-> p, todo |-> <<i>>, alone |-> TRUE, pc |-> "insert"])
    \/ \E k \in DOMAIN price :
          \/ \E new \in PriceChanges : Begin(s, [op |-> "price.update", id |-> k, mode |-> new.mode, pc |-> "write"])
          \/ Begin(s, [op |-> "price.delete", id |-> k, pc |-> "write"])

\* The slug is looked for, and unique in the environment besides.
FindSlug(s) ==
    /\ At(s, "product.create", "find")
    /\ IF SlugHolders(call[s].slug) = {} THEN Await(s, [call[s] EXCEPT !.pc = "product"]) ELSE Answer(s)
    /\ UNCHANGED shop

CreateProduct(s) ==
    /\ At(s, "product.create", "product")
    /\ IF SlugHolders(call[s].slug) # {} THEN Answer(s) /\ UNCHANGED product
       ELSE \E p \in Products :
               /\ ~IsProduct(p)
               /\ product' = [product EXCEPT ![p] = NewProduct(call[s].slug)]
               /\ Await(s, [call[s] EXCEPT !.pc = "insert", !.id = p])
    /\ UNCHANGED <<price, sold>>

\* productPriceService.create, for a request of its own or for each price a new
\* product was sent with.
Creating(s, pc) == At(s, "product.create", pc) \/ At(s, "price.create", pc)
NextPrice(c) == IF Len(c.todo) = 1 THEN Idle ELSE [c EXCEPT !.pc = "insert", !.todo = Tail(@)]

InsertPrice(s) ==
    /\ Creating(s, "insert")
    /\ Len(price) < MaxPrices
    /\ price' = Append(price, [product |-> call[s].id, mode |-> Head(call[s].todo).mode])
    /\ Await(s, IF Head(call[s].todo).external = Void THEN NextPrice(call[s])
                ELSE [call[s] EXCEPT !.pc = "look"])
    /\ UNCHANGED <<product, sold>>

\* Bug: the link is set without looking.
Always(link) == TRUE
Unlinked(link) == link = Void

LookProduct(s) ==
    /\ Creating(s, "look")
    /\ Await(s, IF Unlinked(product[call[s].id].link[Head(call[s].todo).mode])
                THEN [call[s] EXCEPT !.pc = "link", !.alone = TRUE]
                ELSE NextPrice(call[s]))
    /\ UNCHANGED shop

\* Whoever has looked at the same link meanwhile is no longer alone.
SameLink(c, d) == c.pc = "link" /\ c.id = d.id /\ Head(c.todo).mode = Head(d.todo).mode

LinkProduct(s) ==
    /\ Creating(s, "link")
    /\ product' = [product EXCEPT ![call[s].id].link[Head(call[s].todo).mode] = Head(call[s].todo).external]
    /\ call' = [t \in Slots |-> IF t = s THEN NextPrice(call[s])
                                ELSE IF Creating(t, "link") /\ SameLink(call[t], call[s])
                                THEN [call[t] EXCEPT !.alone = FALSE] ELSE call[t]]
    /\ UNCHANGED <<calls, fails, price, sold>>

\* update: the product is read, then another's slug, then everything sent is
\* written; isActive among it, without the check deactivate makes.
FindProduct(s) ==
    /\ At(s, "product.update", "find")
    /\ Await(s, IF call[s].slug \in {Void, product[call[s].id].slug}
                THEN [call[s] EXCEPT !.pc = "write"] ELSE [call[s] EXCEPT !.pc = "slug"])
    /\ UNCHANGED shop

FindOther(s) ==
    /\ At(s, "product.update", "slug")
    /\ IF SlugHolders(call[s].slug) = {} THEN Await(s, [call[s] EXCEPT !.pc = "write"]) ELSE Answer(s)
    /\ UNCHANGED shop

WriteProduct(s) ==
    /\ At(s, "product.update", "write")
    /\ LET p == call[s].id
           slug == IF call[s].slug = Void THEN product[p].slug ELSE call[s].slug
           active == IF call[s].active = Void THEN product[p].active ELSE call[s].active
       IN product' = [product EXCEPT ![p] = IF SlugHolders(slug) \subseteq {p}
                                            THEN [@ EXCEPT !.slug = slug, !.active = active] ELSE @]
    /\ Answer(s)
    /\ UNCHANGED <<price, sold>>

CountPurchases(s) ==
    /\ At(s, "product.deactivate", "count")
    /\ IF call[s].id \in sold THEN Answer(s) ELSE Await(s, [call[s] EXCEPT !.pc = "write"])
    /\ UNCHANGED shop

Deactivate(s) ==
    /\ At(s, "product.deactivate", "write")
    /\ product' = [product EXCEPT ![call[s].id].active = FALSE]
    /\ Answer(s)
    /\ UNCHANGED <<price, sold>>

UpdatePrice(s) ==
    /\ At(s, "price.update", "write")
    /\ price' = [price EXCEPT ![call[s].id] = IF @ = Void THEN Void ELSE [@ EXCEPT !.mode = call[s].mode]]
    /\ Answer(s)
    /\ UNCHANGED <<product, sold>>

DeletePrice(s) ==
    /\ At(s, "price.delete", "write")
    /\ price' = [price EXCEPT ![call[s].id] = Void]
    /\ Answer(s)
    /\ UNCHANGED <<product, sold>>

\* Purchases come and end elsewhere.
Trade ==
    /\ calls < MaxCalls
    /\ calls' = calls + 1
    /\ UNCHANGED <<call, fails, product, price>>

Sell(p) == IsProduct(p) /\ product[p].active /\ sold' = sold \cup {p} /\ Trade
Lapse(p) == p \in sold /\ sold' = sold \ {p} /\ Trade

CatalogueRequests(s) == ProductRequests(s) \/ PriceRequests(s)

CatalogueStep(s) ==
    \/ FindSlug(s) \/ CreateProduct(s) \/ InsertPrice(s) \/ LookProduct(s) \/ LinkProduct(s)
    \/ FindProduct(s) \/ FindOther(s) \/ WriteProduct(s)
    \/ CountPurchases(s) \/ Deactivate(s) \/ UpdatePrice(s) \/ DeletePrice(s)

\* The link by which billing recognises a product stays what it first was,
\* whatever prices are added, changed or deleted; only two creations that both
\* saw no link can end with the later one's.
LinkIsKept ==
    [][\A p \in Products, m \in Modes :
          IsProduct(p) /\ product[p].link[m] # Void
          => \/ product'[p].link[m] = product[p].link[m]
             \/ \E s \in Slots : Creating(s, "link") /\ call[s].id = p /\ ~call[s].alone]_<<product, call>>

=============================================================================
