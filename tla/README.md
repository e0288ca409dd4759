# A verification project for mono-next

TLA+ models of the API server (`app-api`), the TLC runs that check them on
small instances, and theorems that TLAPS proves for every instance. All paths
are relative to the repository. The models are written from the code; docs are
quoted only where they make a claim that a run contradicts.

Contents: 1 the system, 2 the modules, 3 the runs, 4 the proofs, 5 what is only
model-checked, 6 what is not modelled, 7 disagreements found, 8 the plan.

## 1 The system

`app-api` is a Next.js API server over MongoDB (Prisma). It sells products to
users of a tenant, keeps their subscriptions and entitlements, and serves a CMS.
`app-client` is the storefront and admin UI; it talks to the API only. There are
no transactions and no queues: a request runs one service procedure, a sequence
of awaited database or provider calls. Requests interleave at the awaits, in one
process and across processes, and a call may reject or the process die between
any two of them. That is where the hard behaviour is, so every model has one
action per awaited call.

| Component | State | Operations | Hard behaviour | What makes it correct | Module |
|---|---|---|---|---|---|
| Purchases and entitlements (`services/purchase-service.ts`, `membership-service.ts`) | `Purchase`, `Membership` rows | create, subscribe, cancelSubscription, checkExpired, grant, revoke | multi-step writes, overlap, snapshots written late | one active subscription; access exactly for live purchases, but for administrators' gifts | PurchaseService |
| Products and prices (`product-service.ts`, `product-price-service.ts`) | products, prices, the provider's product link | create with prices, update, deactivate | check, then write; the first price sets the link | not off sale while somebody holds it; the link billing relies on stays | PurchaseService, Catalogue |
| Checkout (`checkout-service.ts`) | `CheckoutSession`, accounts, tenant memberships, the provider's sessions | createSession, verifySession | two services, retries by the browser, guest accounts created on the way | paid means delivered in the end; delivered only if paid, and to the buyer | Checkout, Fulfilment |
| Configuration caches (`lib/async-ttl-cache.ts`, `setting-service.ts`) | per process: value, expiry, promise in flight, generation | get, set, invalidate | loads in flight across an invalidation, several processes | read your own writes; bounded staleness; one load at a time | TtlCache |
| Billing sync (`billing-service.ts`) | `lastSyncMap`, purchases by `externalId`, the customer | automatic and forced sync, portal | throttle set at the end, find-then-create, lists cut off, a customer that is replaced | after a sync the shop agrees with the provider about the customer on file | Billing |
| Accounts (`user-service.ts`, `invitation-service.ts`, `tenant-membership.ts`, `identity-resolver.ts`) | users, two hierarchies, invitations, identities | register, sub-users, invite, accept, revoke, update, delete | compensation that may fail, limits checked before the write, plans that shrink and end | no half-made account; the hierarchies agree; no sub-user beyond the plan | Accounts |
| Administrators, sessions, impersonation, limiter (`admin-service.ts`, `admin-auth.ts`, `user-auth.ts`, `rate-limiter.ts`) | admin rows, session rows, cookies, timestamps | sign in and out, borrow, update, delete, attempt | count, then write; a mark in one cookie and a session in another; window boundary | an administrator remains; borrowed sessions are marked; limits are exact | Access |
| Feature registry, `APP_ENV` (`feature-registry.ts`, `env.ts`) | per-process caches | get, invalidate | no generation | bounded staleness; fresh after a set | Registry |
| Tenancy (`prisma-scope.ts`, `api-request-scope.ts`, `tenant-*.ts`) | the request's snapshot, cached configuration | resolve, bind, rewrite every call | configuration changing under a request | a request touches its environment and tenant only | ScopeGuard, TenantScope |
| Tenant migration (`scripts/*.mjs`) | tenant ids of all rows, memberships, identities | backfill, verify | interrupted and repeated runs beside a server | running again completes it | Dataset, Backfill, Cutover |
| CMS (`page-`, `content-*`, `taxonomy-*`, `media-service.ts`) | content rows, stored objects | CRUD | two-step operations, referential actions | one homepage, nothing without its owner | Pages, Content, Files |
| Settings (`setting-service.ts`, `secret-crypto.ts`, `encrypt-secret-settings.ts`, the settings page) | settings per environment, key versions, a page's fields | set, rotate, encrypt; a form is several requests | a form half sent, keys changing under servers | secrets stay readable; no form half sent switches to Clerk before its key | Secrets, SettingsForm |
| Seed (`prisma/seed.ts`) | every table | run | stopped anywhere, run again, between other writes, in an environment it looks up at every call | a repeated run ends where one run does | Seed |
| Reports, activity log, routes, storefront | - | reads and single writes | - | - | - |

How they interact: `verifySession` calls `purchaseService.create` once per cart
item; `purchaseService` calls `membershipService`; `featureService` reads the
memberships to answer what a user may do; billing sync writes purchases behind
`purchaseService`'s back, keyed by the reference checkout stored and by the link
the catalogue's prices set; every request is bound to an environment and a
tenant before its handler runs, and its database calls pass through the scoped
client; the settings page sends its forms one setting at a time; every service
reads its configuration through the caches; the success page of `app-client`
triggers fulfilment, there is no webhook.

The hazards, each at its line, are in `PROJECT.json`; most of them need two
requests, or a failure between two calls of one.

## 2 The modules

### PurchaseService

State: `purchases` and `memberships`, sequences of rows in creation order (a row's
index is its id); `onSale`, the products with `isActive`; `call[r]`, the local
state of the procedure that slot `r` runs; two counters that only bound runs.

| Action | Code |
|---|---|
| `FindProduct` | `findById` and the refusals at the head of `create` and `subscribe` |
| `FindSubscription`, `RevokeOld`, `CancelAll` | `findActiveSubscription`, `revokeBySource`, `cancelActiveSubscriptions` in `create`, `subscribe`, `cancelSubscription` |
| `FindFree` | `findBySlug("free")` in `cancelSubscription` |
| `InsertPurchase` | `purchaseRepository.create`, with the status each procedure writes |
| `GrantRevoke`, `GrantCreate` | the two calls of `grantFromPurchase` |
| `RevokeMembership` | `membershipService.revoke` |
| `FindExpired`, `RevokeExpired`, `ExpireBatch` | `checkExpired` |
| `CountActive`, `SetInactive`, `UpdateProduct` | `productService.deactivate`, and `update` of `isActive` |
| `Receive`, `Respond` | a controller starts a procedure and answers |
| `Raise` | an awaited call rejects, or the process dies: earlier writes stay |
| `PeriodEnds` | a subscription's end date passes |

Amounts, currencies and dates other than the end date are dropped; the end date
is null, in the future or past. `product.paymentModel` and `accessKeys` are the
constants `Recurring` and `Keyed`: they are read once per procedure and assumed
not to be edited while purchases are made. `checkExpired` has no caller in the
repository; it is modelled as an operation somebody may schedule.

`Overlap` is not something the code provides. It selects between two questions:
with FALSE, what the order of the calls guarantees on its own to callers that
wait for an answer; with TRUE, what survives any interleaving.

An administrator's grant takes any user and any source, a purchase of somebody
else, one that has ended or an id of nothing among them, because the endpoint
checks neither (`membership-controller.ts:47-60`). Such an entitlement is a gift:
`gift` marks the row, and `EntitlementBacked` leaves it out, since it is there by
the administrator's decision and goes only by another. Giving somebody the access
that comes from another user's purchase takes it from that user, because a
purchase entitles once; `LivePurchaseGivesAccess` says so.

### Checkout (extends PurchaseService) and Fulfilment

`work[r]` is the checkout procedure of slot `r`, `call[r]` the purchase procedure
it awaits. `session[s]` joins the local row and what the provider knows;
`accounts`, `members` and `customer` are the users, their tenant memberships and
`stripeCustomerId`. `Suspended` users have a membership of the tenant that is not
active, which `Provision` refuses as it refuses other tenants' users.
`BeginCheckout` to `Offer` is `createSession`, one action per
awaited call; `BeginVerify` to `Complete` is `verifySession`; `Pay` is the
buyer at the provider's page (external). A cart item's quantity is not modelled:
`verifySession` ignores it and makes one purchase per item.

`Fulfilment` is the promise without requests or rows: goods are handed over only
for paid sessions, by an attempt that entered while the session was open, and a
session is closed only when everything ordered was handed over. `Checkout`
implements it (`ImplementsFulfilment`) under the mapping at the end of the
module. The promise is at-least-once, because exactly-once is false (run
`checkout_twice`).

### TtlCache

The variables of `createAsyncTtlCache` per process, the callers of `get` with the
promise each awaits, the writers in `settingService.set`, and a clock. JavaScript
runs one synchronous piece at a time, so the pieces are the actions: `Hit`,
`Join` and `Load` are the three ways through `get`; `Query`, `Store`, `Settle`
are the loader, `.then` and `.finally`; `Write` and `Invalidate` are the two
halves of `set`; `LoseAck` is a write that happened although `set` threw. A
configuration is its version number. `since` and `settled` are history
variables: when a version became current, and the newest version whose `set` has
returned in a process.

### Accounts

`users[u]`, `member[u]` (the organization's membership), `plan[u]` and
`invitation[k]` are the rows; `call[r]` is the procedure of slot `r`. There is one
action per awaited write and per read whose result is used later; an awaited read
that can only reject is covered by the rejection of the next step, because
nothing is written in between. `Fail` rejects the current call, and `OnReject`
says which `catch` of the code takes over: `rollbackOrThrow`, the compensations
of `createSubUser` and `revokeSubUser`, or none. `rejected` keeps what was
rejected, and `overlapped` whether two requests were ever in progress at once, so
that a property can say which of the two kinds of trouble it survives. A
hierarchy is written as the path of ancestors; the parent is its last element.
Ids are drawn from `MaxUsers` of them, which is enough for the requests there are
(`BoundAssumption`): no request is refused for want of an id.

`plan[u]` is what the user is subscribed to, `Ended` if only other purchases are
left, which keep the account from being deleted. `subscribe` stands for
everything that changes it, from a checkout to an expiry. A plan that shrinks or
ends leaves the sub-users where they are, and the limits of the creator's own
ancestors are not looked at, so `SubUserLimit` is a property of the step that
adds one: whoever gets it has a plan that allows it, by the count of all
descendants that the code makes. What undoes a revocation asks nobody.

### Access and Registry

`Access` is one browser, used by an administrator and by members in turn, with
its three cookies, the session rows and the accounts behind them; administrators
elsewhere change administrators' accounts in the slots of `Requests`
(`BeginUpdate` ... `WriteAdmin`, `CountAdmins` ... `DropRow`). `Impersonate`,
`StopImpersonation` and `UserMe` are the two cookies of impersonation and what
`/me` answers from them; a member's session has a token that none had before.
`Attempt`, `Refuse` and `CleanUp` are the limiter and its timer; its list of
timestamps is a set of instants numbered as they were added, because the list is
only ever filtered and counted. `Registry` has the loads, writes and invalidations
of the two caches that have no generation.

### Billing

What the provider knows (`payment`, each of a customer, and `accounts`, the
customers), the shop's purchases, and syncs in slots: `ReadUser`, the two lists,
which are of one customer, `ReadProducts`, then a `Lookup` and a `WritePurchase`
for each item, and `EndSync`. The member pays, as the customer on file or as a
guest, returns to the shop (`Return`, which is `Checkout` in one step, and puts
the session's customer on file), cancels here or there. `settled`, `mixed` and
`together` are history: whether the last sync ran undisturbed, whether anything
ever happened during one, whether two requests for a customer met; `filed` and
`guests` remember who was on file and how many customers guests have made.

### Dataset, Cutover, Backfill

`Dataset` is the tables the migration touches, as rows with an environment, a
tenant and references. `Cutover` is the verifier: the set of failures it reports,
each named by its check and row. `Backfill` is the script, one action per
database call, which `Stop` may end at any of them, and the server beside it
(`Create`, `Relink`, `Delete`), bound to the tenant or not, at any moment; ids of
deleted rows are not used again.

### ScopeGuard and TenantScope

`ScopeGuard` is the scoped client as a function: `Guarded` and `Staged` rewrite a
call, `After` is what Prisma then does with it (external). A call is a record
that may claim any environment and tenant, in its filter, its data, a nested
write or an include. `TenantScope` is the request around it: `Arrive` takes the
snapshot, `Resolve` finds the candidate by the cached configuration, `Bind` looks
the tenant up, `Query` makes calls, while operators change configuration,
tenants and domains.

### Desk: Pages, Content, Files, Catalogue, Secrets, SettingsForm, Seed

`Desk` is what the administration's controllers share: a request in a slot, an
answer, a rejection at any await (`Rejected`). The other modules extend it, each
with the requests and steps of its services. `Secrets` adds servers that read the
key variables when they start, the rotation of docs/security.md and the
encryption script. `SettingsForm` is the settings page: fields loaded once, a
form sent as one request per setting until one is rejected, and the switch of the
environment; any field may be empty, and `blanked` and `crossed` remember where an
empty key was stored or a page of another environment was saved. `Seed` is the
script, one step per table and one per write where the order matters, beside
purchases, edits and prices whose labels administrators give and take. Each step
looks its environment up (`SeedEnv`): a rejected look falls back to the one the
script was launched for, and such a run is no longer `calm`.

### MC modules

They hold the values a `.cfg` cannot write down and compose modules. `MCAccess`,
`MCTenancy` and `MCContent` check several modules in one run: the first state
chooses a scene, and the steps of one scene leave the variables of the others
alone, so that state spaces add up instead of being multiplied.

## 3 The runs

| Run | Question | Result | Bounds |
|---|---|---|---|
| `purchases_serial` | Does the order of the calls suffice when one user's requests do not overlap and one call may fail? | holds, about 1.5 million states | 2 users, 2 slots, a free and a paid plan, 4 operations, 1 failure |
| `purchases_overlap` | Does a live purchase give access under any overlap? | holds, about 710 000 states | 1 user, 3 slots, 2 plans and an e-book, 3 operations |
| `purchases_double` | "at most one active subscription" | violated | 2 slots, 2 operations |
| `purchases_deactivate` | "Cannot deactivate a product with active purchases" | violated | 2 slots, 2 operations |
| `checkout` | Is what is paid delivered, and only that? | holds, about 120 000 states | 2 slots, a cart of a plan and an e-book, a member, a newcomer, a stranger, a suspended member, 1 failure, 1 deactivation |
| `checkout_twice` | "already been processed" | violated | the same, no failure |
| `ttl_cache` | Own writes, staleness, shared loads | holds, about 460 000 states | 2 processes, 2 readers, 2 writers, 2 writes, ttl 2, load 1, 5 instants |
| `accounts` | Do the hierarchies agree, is no account left half made, do limits hold? | holds, about 620 000 states | 2 slots, 3 requests, 2 if they overlap, 2 rejected calls, 6 accounts |
| `access` | Administrators, borrowed sessions, limits, caches | holds, about 690 000 states | 2 administrators, 2 users, 3 tokens, 2 overlapping changes, window and lifetimes 1 to 2, 4 instants (2 and 5 visits for the browser) |
| `billing` | Does an undisturbed sync make the shop agree with the provider? | holds, about 1.4 million states | 2 sync slots, 3 syncs, 2 payments, a list cut off after 1, 3 events |
| `tenancy` | Does the migration end clean, is a request bound and scoped as configured? | holds, about 340 000 states | 10 rows, 2 stops, 2 writes of the server; 2 tenants, 2 changes; 6 rows, 2 calls |
| `content` | The desk: homepage, owners, objects, links, secrets, settings, seed | holds, about 1.2 million states | 7 scenes, 2 slots or browsers, at most 5 requests less the scene's `Used`, 1 rejected call |

Why these bounds: every property relates at most two requests of one user and what
a third left behind, and a procedure's effect on a user's rows repeats after one
purchase is replaced by another; four operations let a purchase be made, replaced,
expired and granted again. In `purchases_serial` the second user shows that rows
of different users do not meet and allows two requests in flight. In `checkout`
three purchases per session are one and a half fulfilments, enough for a
broken-off one and a complete one; one session means that races between sessions
(two customers created for one user) do not occur, which is noted as a hazard. In
`ttl_cache` the clock passes the end of a ttl that began after the first write,
with a load before and after it. In `accounts` three requests make a sub-user,
change its parent and undo one of them; two overlap because every check is
followed by one write of its own. In `billing` the list of one element stands for
the provider's page of ten, and a second payment is what falls off it; three
events are two payments and the return or the change of one. In `tenancy` two
stops leave the script half way in two different places; one row per reference the
script follows, and at most one oddity at a time. In `content` each property
relates at most two requests and what one before them left; the larger a scene,
the fewer requests it makes (`Used` in `MCContent`). Deadlock is not checked: a
server without requests stops, and so do the bounded behaviours.

Symmetry is used in `purchases_serial` (slots, users) and `purchases_overlap`
(slots), and likewise in `accounts`, `access`, `billing` and `content`: no action
tells the permuted values apart, and these runs check no liveness.

Fairness. `Checkout` assumes that pending steps of a request run and that
requests are answered (the event loop), weakly fair. It also assumes that a
buyer who has paid keeps loading the success page: strong fairness of
`BeginVerify` for paid sessions, because the action is disabled while the slots
are busy. Nothing in the repository retries on the server, so without that
assumption a paid session may stay open for ever; docs/checkout-payment.md says
so too. No fairness is assumed of payments, new carts or failures. `TtlCache`
assumes that database calls answer or reject and callbacks run; readers and
writers need not act. `BackfillFairness` assumes that a running script goes on,
and that the operator applies the mapping again until the verifier accepts, which
is what the runbook asks for; stops and writes of the server are bounded, not
fair. `BackfillCompletes` is claimed of data the runbook takes for granted
(`Mappable`: one environment to one tenant, no address with two accounts, and
none of the oddities), and ends in `accepted` or in `Orphaned`: a user deleted
between the script's reading of it and its upserts leaves a membership or an
identity of nobody, and no later run is accepted.

What properties excuse is said at each of them, and is either a finding of
section 7 or a limit of the deployment. The models take for granted: the
order of docs/security.md for rotations, with servers that are restarted and
finish their requests; that the environment is not switched while the seed or a
form runs, except where the model says so (`crossed`, `calm`); one server process
for the settings page; that both prices of a new product are picked from the
provider's catalogue; and that a signed token cannot be made up.

`PaidIsCompleted` excuses a session whose buyer's email belongs to another
tenant's account or to a suspended member, and a cart with a product taken off
sale after the payment: `verifySession` fails on them every time, and the money is
not returned by code.

Mutants: each property of a passing run is broken by a plausible bug, written in
the module above the definition it replaces (`\* Mutant: ...` or `\* Bug: ...`)
and listed in `PROJECT.json`.

## 4 The proofs

Assumptions are the named `ASSUME`s of the modules; everything else is
arbitrary: numbers of users, requests, products, rows, processes, tenants, failures
and bounds. What is assumed is what the code's types or start give:

- null is no user, product, reference, row or other value (in every module), a row
  that is missing is no row, a masked secret is no secret, user and purchase ids differ;
- `Accounts`: `Ended` is no plan; `Seed`: null is no environment;
- catalogues: recurring and keyed products are products; carts are lists of
  products; tables start with rows of their own type;
- bounds are natural numbers; times to live, the throttle and the page size of
  the provider are positive;
- `TtlCache`: everybody has one home process;
- `Access`: there is an administrator at the start, which the seed makes
  (`prisma/seed.ts:239-251`); tokens are numbered as they are given out and never
  used twice (`user-auth.ts`, `admin-auth.ts`: random);
- `Access`, the limiter: the window is a natural number, the two actions of
  signing in have limits;
- `Accounts`: there is a slot, and an id for every account the requests can create;
  invitations are finitely many and numbered; `MaxSubUsers` gives every plan an
  integer; and of the accounts at the start (`StartAssumption`) what the operations
  themselves leave behind: ancestors are accounts of the tenant with a plan,
  whatever it allows by now;
- `Billing`: finitely many payments, numbered;
- `Dataset`, `Backfill`: finitely many rows; the tenant of the run and the other one
  differ; the script's list of models is not empty and has the model of every row
  it migrates.

`PurchaseProofs`:

- `TypeCorrect`: `Spec => []TypeOK`. `TypeOK` alone is not inductive: that
  `revokeOld` finds its row needs what earlier steps left in the procedure's
  state. `TypeInv` adds `CallTyped`, what each pending step relies on.
- `LivePurchaseKeepsAccess`: without administrators revoking by hand,
  `Spec => []LivePurchaseGivesAccess`. The property speaks of quiet states only;
  `AccessInv` says of every state that a live purchase with access keys has an
  active entitlement or somebody is about to grant one or to end the purchase
  (`PendingBy`). The step that could break it is a revocation: each one is
  followed in the same procedure by the write that ends the purchase or by a
  new grant.
- `SerialRequestsAreSafe`, under `Overlap = FALSE`, with any number of failures
  and whatever administrators give away: `Spec => []SerialInv`, and from it
  `AtMostOneSubscription`, `EntitlementsAreBacked`, `EntitlementsAreSingle` and
  `EndedPurchasesAreFinal`. The four properties are not inductive: that
  `cancelAll` ends only purchases without access, that `insert` finds no other
  subscription and that `expireBatch` writes only active rows depends on the
  calls before. `StepInv(r)` says what each pending step found, `Isolated` that
  no other request is about the same users (`Concerns`: a grant is also about the
  owner of the purchase it names). The argument: a step adds and ends rows of its
  own users only (`OwnRowsOnly`), so what the others rely on stays
  true (`OthersUndisturbed`); what the request itself relies on is established
  by its previous step. `Raise` keeps everything because a request that has
  thrown relies on nothing: that is why the order of the calls is safe under
  failures.

`TtlCacheProofs`:

- `ProcessReadsItsWrites` and `MissesShareOneLoader`, from `CacheInv`: a load of
  the current generation is the promise in flight, and has read, or will read,
  nothing older than what was settled; loads of earlier generations cannot
  store; whoever waits, waits for a load that answers with its floor or better.
- `AnswersAreRecent`: from `TimeInv`, which dates everything: what was loaded
  was current when the load started, a cached value expires at most one ttl and
  one load after it was superseded.

`CheckoutProofs`, on top of `PurchaseProofs`, because the two services take turns:

- `PaidSessionIsKnown`, from `CheckoutInv`: types, what is true of a session by its
  payment (`SessionSound`), and what each pending step of either service knows
  (`WorkSound`: of its call, its order, its buyer, its place in the cart).
- `SoldToTheBuyer` and `TheBuyerHasACustomer`, from `SalesInv`: the buyer a
  verification has found stays the payer's account, in the tenant and with its
  customer on file; purchases are made for that buyer only.
- `CompletedIsDelivered`, from `DeliveryInv`: the verification at item `n` has had
  the items before it bought, once for each time they are in the cart. `StepKinds`
  sorts the steps into those that sell, those that move on in a cart and quiet
  ones, so that the invariant is shown three times and not for each action.
- `CheckoutKeepsItsPromise`: `CheckoutSpec => ImplementsFulfilment`. `Fulfilment` counts
  the attempts in progress, so it needs them to be finitely many however many slots
  there are (`AttemptsInv`); each kind of step is then a step of `Fulfilment` or a
  stutter.

`BillingProofs`:

- `HeldBackBySuccessHolds` is inductive as it stands; `OneCustomerHolds` is by
  `CustomerInv`: while requests for a customer come one at a time, the request
  about to create one is alone and there are none yet but those of guests.
- `SyncConvergesHolds`. `CopyInv` says how far an undisturbed sync has come: each
  item the provider lists for the customer the sync read is copied already or
  among what is still to be written, as it is now (`UpToDate`). `OneRowInv`, as
  long as nothing ever happened during a sync, gives each payment one row under a
  name that syncs look for.

`AccessProofs`, about the scenes of `MCAccess` each on its own:

- `AnAdministratorRemains`, by `AdminInv`: a change past its guard still has the
  other administrator it counted (`GuardHolds`).
- `BorrowedSessionsAreFlagged`, by `BrowserInv`: while the browser holds a
  borrowed session, the mark in its other cookie names the administrator and has
  the same beginning and end; tokens are not used twice, so no member's own
  session is taken for a borrowed one.
- `LimitsAreExact`, by `LimiterInv`: the limiter has every attempt of the last
  window that passed, and what it has besides is older, so filtering by the same
  boundary, before a check or by the timer, loses nothing a later check counts.
- `FeaturesAreRecent` (`FeatureInv`) and `EnvironmentIsFresh` (`EnvInv`): what a load in
  flight has read, and since when it may be stale.

`TenancyProofs`:

- `RequestsAreConfined`: `ScopeSpec` lets a handler make any call of `Calls`, whatever
  environment and tenant it claims in its filter, data, nested write or include,
  over tables with any rows. `Scoped` is what `Guarded` and `Staged` make of a call;
  `Confined` says that `After` touches only rows of the scope for such calls.
- `RequestsAreBound`, by `BoundInv`: what the cache holds was in force when it was
  loaded (`Configured`), and each request has a tenant only as its candidate, which
  the configuration gave it (`Resolved`).
- `BackfillKeepsTenants` and `CleanBackfill`, by `MigrationInv`. `Planned` and
  `Prepared` say what a run knows once its preflight is over; `Undisturbed` what
  each completed stage has left done, if the server wrote nothing since; rows of
  another tenant never become more. That every user is a member at the end is a
  count in the code, so the last step compares cardinalities of finite sets.

`DeskProofs`, about a scene of `MCContent` each (`SecretsSpec`, `SettingsFormSpec`,
`PagesSpec` and so on: the scene's steps from its first state, for any number of
requests):

- `SecretsAreKept`. `SecretSurvives` says nothing of servers on older variables nor
  of what a script has read; `SecretsInv` adds both: the version a server encrypts
  with was never retired under it, since `Retire` waits for the servers; and what
  the script has still to write was last sent, or its setting is marked `raced`.
- `ClerkComesAfterItsKey`. `PageIsSound` says of every page what its half-sent form
  relies on: a mask stands for a key that is there, and the request for Clerk is
  preceded by a key or finds one (`HasKey`), or the key it sends is empty. A key
  becomes empty only where that is remembered (`blanked`), and a page that writes
  into another environment marks both as `crossed`.
- `HomepageIsAlone`, by `PagesInv`: a setter that is alone and about to write sees no
  other homepage, because only setters make one.
- `OwnersStay`, by `ContentInv`: rows only change in ways that keep what they are,
  so a request knows what the row behind an id once was (`Knows`), and if the row
  is still there it is that; a missing owner makes the write fail.
- `ObjectsKeepRows`, by `FilesInv`: an object has a row that says it is in the
  bucket, and for the row a request is about to delete there is no object any more.
- `LinksLast`, by `CatalogueInv`: whoever saw no link, alone, still sees none when it
  writes (`LinkIsFree`).
- `SeedLeavesOne`, by `SeedInv`: what a run that nothing interfered with has made
  true by its step (`Standing`), in the environment it was launched for or found in
  `SystemConfig` (`Aim`). From the cancellation on no subscription but its own
  lives, from the clearing on no other entitles, and the labelled prices are those
  it met until the step that adds one if there are none. Runs that were disturbed
  need no invariant of their own: what they leave behind, the next run meets.

`AccountsProofs`, for any accounts to start with, any number of slots and any
bounds:

- `ParentsExist`, whatever overlaps or rejects, by `ParentInv` (`AccountsAreSound`). That a
  parent is there cannot be kept by itself: `createSubUser` reads the parent's path
  and writes it with the child several awaits later. What makes it safe is that
  every ancestor was asked for its plan, that plans go only with an account whose
  rollback runs, and that a row with purchases restricts its deletion; so `Anchored`
  (an active membership and a plan) is for ever, and `Sound` says of each pending
  step that the path it holds is anchored, or that the account it may delete
  never was.
- `RequestsAreSerial`, by `SerialInv`, as long as nothing overlapped. One request is in
  progress, and `Facts` says by its next step where the store differs from a store
  at rest: the sub-user being attached (`Attached`) or revoked (`Detached`) has two
  paths and the compensation writes back the one that is in the other row, the
  account being registered (`Registered`) has no membership yet, and so on. Each
  `XSerial` lemma shows that step X leaves the facts of the step after it,
  `FailSerial` that a rejection leaves those of the `catch` which takes over.
  Nothing is said about the two rows once a compensating write rejected (`Clean`).
- `HierarchiesStayTogether` (from `Agreed`), `NoHalfAccounts` (`Whole`),
  `SubUsersAreLimited` (`Counted`: the count a request has made, against the limit
  it read, still stands when it attaches) and `InvitationsSettle` (`Settling`)
  follow.

`ParentInv` and the `SerialInv` of `AccountsProofs` held in TLC on the instance of the
run `accounts` before they were proved. `PurchaseProofs`' `SerialInv` is also an
invariant of the run `purchases_serial`; it contains
`OneEntitlementPerPurchase`, which the run does not list a second time. The other
inductive invariants were written for the proofs; the properties they imply are
what the runs check.

## 5 Only model-checked

- Liveness (`PaidIsCompleted`, `ReadersAreAnswered`, `BackfillCompletes`), which TLAPS
  cannot prove under fairness.
- The three runs that refute a document (section 7): a counterexample is one behaviour.

Every safety invariant and action property of the passing runs is a theorem.

## 6 Not modelled

- Reports and the activity log: reading, and appending what nothing reads.
- Public reads of content, downloads of files, the upload of purchase files, and
  the read-through of the provider's catalogue: no state is changed, or one row
  is.
- Hashing, signing of storage requests, the CSRF token: pure functions whose
  point is cryptographic.
- HTTP adapters of the providers; `woocommerce-provider.ts` is commented out.
- The client's pages other than the success page and the settings page: they
  send one request per form. The cart lives in the browser's storage.
- Validation, wording and formatting: a request that validation refuses changes
  nothing, and is a rejection before the first step.
- Multi-key settings as such, custom fields, blocks and texts: they tie no rows
  together.

Within modelled parts: removal of a tenant membership during a checkout and edits
of a product's payment model while it is bought are left out; rate limits count
in one process, as in the code.

## 7 Disagreements found

- `app-api/README.md:401-402` "Users always have at most one active
  subscription": two overlapping purchases leave two (`purchases_double`).
- `product-service.ts:163-166` "Cannot deactivate a product with active
  purchases": a purchase slips in between count and write
  (`purchases_deactivate`).
- `checkout-service.ts:154-155` "already been processed": two page loads fulfil
  one payment twice (`checkout_twice`); docs/checkout-payment.md tracks
  idempotency as T-705.

Seen while modelling, and excused or set aside by a run's property:

- The settings page keeps the fields of the old environment after a switch and
  saves them into the new one; the theme form empties gradients it never loaded;
  the payment form sends the mode before the keys.
- Two overlapping homepages leave two, a failure between the two calls none; two
  administrators who demote each other leave none (docs/cms-guide.md:219,
  docs/architecture.md:410).
- The sync throttle is set when a sync ends, so overlapping syncs all run and
  insert one payment twice (docs/checkout-payment.md:138).
- `register` returns `enrichWithPlan` without awaiting it inside its `try`, so a
  rejection there is not rolled back; the first request of a Clerk identity is
  never rolled back.
- `createSubUser` links a root account without asking whether it has sub-users
  or is an ancestor of the creator.
- The seed writes to `SystemConfig`'s environment, whatever `APP_ENV` it was
  launched with, and where reading it is rejected single steps go to the launched
  one after all: a cancellation that misses leaves two live subscriptions until
  the next run. Labels are not unique; prices that share one stay as they are.
- `verifySession` replaces the customer on file, and a sync asks for the payments
  of that one only: the subscriptions of the former are not synced again.
- The settings page can switch to Clerk with an empty key, and an empty key is
  stored over one that is there.
- The backfill does not recover from a user deleted between its reading of the
  users and its upserts.
- Plans that shrink or end leave sub-users beyond what they allow, and a sub-user's
  own sub-users count against its limit, not against its ancestors'.
- Administrators' grants check neither the user nor the purchase they name.
- `encrypt-secret-settings.ts` writes over a secret saved after it read the row.
- The backfill refuses a second environment mapped to one tenant, which the
  runbook allows.
- docs/checkout-payment.md:160 says that recurring products require an account;
  `createSession` lets a guest order them.

## 8 The plan

Modules: what is left needs no module (section 6). Proofs: what is left is the
liveness of section 5. Its safety halves are proved: `CompletedIsDelivered` and
`CheckoutKeepsItsPromise` for `PaidIsCompleted`, `CleanBackfill` for `BackfillCompletes`;
that the waiting ends stays with TLC. When the code changes, the runs are the
first to run again; a proof whose actions did not change is found again in the
prover's cache.
