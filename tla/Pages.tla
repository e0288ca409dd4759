-------------------------------- MODULE Pages --------------------------------
(***************************************************************************)
(* Pages and the homepage: services/page-service.ts over the repository of  *)
(* pages, as page-controller.ts calls them.  Making a page the homepage is  *)
(* two calls: every homepage of the environment is unset, then the page is  *)
(* written; nothing holds the two together.                                *)
(***************************************************************************)
EXTENDS Desk

CONSTANTS
    Pages,          \* ids of pages
    PageSlugs,
    StartPages,     \* the pages there are at first
    SeededHome      \* by slug: whether the seed's page is a homepage

PageRow == [slug : PageSlugs, published : BOOLEAN, home : BOOLEAN]

ASSUME PagesAssumption ==
    /\ Void \notin PageRow
    /\ DOMAIN StartPages \subseteq Pages /\ \A p \in DOMAIN StartPages : StartPages[p] \in PageRow
    /\ SeededHome \in [PageSlugs -> BOOLEAN]

VARIABLE page       \* by id: [slug, published, home], or Void

Exists(p) == page[p] # Void
HomePages(rows) == {p \in Pages : rows[p] # Void /\ rows[p].home}
SlugTaken(slug, p) == \E q \in Pages \ {p} : Exists(q) /\ page[q].slug = slug

PageInit == page = [p \in Pages |-> IF p \in DOMAIN StartPages THEN StartPages[p] ELSE Void]

\* A request that makes a page the homepage has its first call to make.
Opening(home) == IF home = TRUE THEN "unset" ELSE "write"

PageRequests(s) ==
    \/ \E slug \in PageSlugs, published, home \in BOOLEAN :
          Begin(s, [op |-> "page.create", id |-> Void, slug |-> slug, published |-> published,
                    home |-> home, alone |-> TRUE, pc |-> Opening(home)])
    \/ \E p \in Pages, slug \in PageSlugs \cup {Void}, published \in BOOLEAN, home \in BOOLEAN \cup {Void} :
          Begin(s, [op |-> "page.update", id |-> p, slug |-> slug, published |-> published,
                    home |-> home, alone |-> TRUE, pc |-> Opening(home)])
    \/ \E p \in Pages :
          Exists(p) /\ Begin(s, [op |-> "page.delete", id |-> p, home |-> Void, pc |-> "write"])

\* Bug: pages that are no longer published keep their flag.
UnsetPublished ==
    [p \in Pages |-> IF Exists(p) /\ page[p].published THEN [page[p] EXCEPT !.home = FALSE] ELSE page[p]]

UnsetAllHomepages == [p \in Pages |-> IF Exists(p) THEN [page[p] EXCEPT !.home = FALSE] ELSE page[p]]

Unset(s) ==
    /\ call[s] # Idle /\ call[s].pc = "unset"
    /\ page' = UnsetAllHomepages
    /\ Await(s, [call[s] EXCEPT !.pc = "write"])

\* Page p becomes row, and a homepage if the row says so: the other requests
\* about to set theirs are no longer alone.
Crowded(c, set) == IF set /\ c # Idle /\ c.home = TRUE /\ c.pc = "write" THEN [c EXCEPT !.alone = FALSE] ELSE c

Write(s, p, row) ==
    /\ page' = [page EXCEPT ![p] = row]
    /\ call' = [t \in Slots |-> IF t = s THEN Idle ELSE Crowded(call[t], call[s].home = TRUE)]
    /\ UNCHANGED <<calls, fails>>

CreatePage(s) ==
    /\ At(s, "page.create", "write")
    /\ \E p \in Pages :
          /\ ~Exists(p)
          /\ IF SlugTaken(call[s].slug, p)
             THEN Answer(s) /\ UNCHANGED page
             ELSE Write(s, p, [slug |-> call[s].slug, published |-> call[s].published, home |-> call[s].home])

\* A page that is gone, or a slug another has, rejects the update.
UpdatePage(s) ==
    /\ At(s, "page.update", "write")
    /\ LET p == call[s].id
           slug == IF call[s].slug = Void THEN page[p].slug ELSE call[s].slug
           home == IF call[s].home = Void THEN page[p].home ELSE call[s].home
       IN IF Exists(p) /\ ~SlugTaken(slug, p)
          THEN Write(s, p, [slug |-> slug, published |-> call[s].published, home |-> home])
          ELSE Answer(s) /\ UNCHANGED page

DeletePage(s) ==
    /\ At(s, "page.delete", "write")
    /\ page' = [page EXCEPT ![call[s].id] = Void]
    /\ Answer(s)

\* The seed's pages replace what has their slugs; the seed unsets no other's flag.
SeedPage(slug) ==
    /\ calls < MaxCalls
    /\ calls' = calls + 1
    /\ \E p \in Pages :
          /\ IF \E q \in Pages : Exists(q) /\ page[q].slug = slug
             THEN Exists(p) /\ page[p].slug = slug ELSE ~Exists(p)
          /\ page' = [page EXCEPT ![p] = [slug |-> slug, published |-> TRUE, home |-> SeededHome[slug]]]
    /\ call' = [t \in Slots |-> Crowded(call[t], SeededHome[slug])]
    /\ UNCHANGED fails

PageStep(s) == Unset(s) \/ CreatePage(s) \/ UpdatePage(s) \/ DeletePage(s)

\* A page made the homepage by a request no other setter came into is then the
\* only one, drafts included: the two calls of create and update, and nothing
\* else in the database, keep a homepage single.
HomeIsAlone ==
    [][\A s \in Slots :
          /\ call[s].op \in {"page.create", "page.update"}
          /\ call[s].pc = "write" /\ call[s].home = TRUE /\ call[s].alone
          /\ call'[s] = Idle /\ page' # page
          => Cardinality(HomePages(page')) = 1]_<<page, call>>

=============================================================================
