------------------------------ MODULE MCContent ------------------------------
(***************************************************************************)
(* The desk of the administration for TLC, in scenes the first state        *)
(* chooses between: pages and the seed's pages; content and taxonomies;      *)
(* files; products and prices; secret settings; the settings page; the seed. *)
(***************************************************************************)
EXTENDS Pages, Content, Files, Catalogue, Secrets, SettingsForm, Seed, TLC

CONSTANTS s1, s2, e1, e2, test, live, sk1, sk2, web1, web2, tab1, tab2,
          dev, production

VARIABLE scene

MCStartPages == 1 :> [slug |-> "home", published |-> FALSE, home |-> TRUE]
                @@ 2 :> [slug |-> "about", published |-> TRUE, home |-> FALSE]
MCSeededHome == [slug \in {"home", "about"} |-> slug = "home"]
MCStartFiles == "a" :> [where |-> "bucket", url |-> FALSE]
                @@ "b" :> [where |-> "unknown", url |-> TRUE]
                @@ "f" :> [where |-> "bucket", url |-> FALSE]
MCStartProducts == "p" :> "x"
MCSettings == "stripe" :> "secret" @@ "clerk" :> "secret" @@ "title" :> "open"
MCStartStored == "stripe" :> ""

vars_ == <<scene, desk, page, rows, vault, shop, keyring, panel, crop>>

\* The larger a scene, the fewer requests are made in it.
Used == [pages |-> 2, content |-> 1, files |-> 1, catalogue |-> 2, secrets |-> 3, settings |-> 3, seed |-> 1]

Init ==
    /\ scene \in DOMAIN Used
    /\ DeskInit(Used[scene])
    /\ PageInit /\ ContentInit /\ FilesInit /\ CatalogueInit /\ SecretsInit /\ SettingsFormInit /\ SeedInit

InPages ==
    /\ scene = "pages"
    /\ \/ \E s \in Slots : ((PageRequests(s) \/ Rejected(s)) /\ UNCHANGED page) \/ PageStep(s)
       \/ \E slug \in PageSlugs : SeedPage(slug)
    /\ UNCHANGED <<scene, rows, vault, shop, keyring, crop, panel>>

InContent ==
    /\ scene = "content"
    /\ \E s \in Slots : ContentRequests(s) \/ ContentStep(s) \/ (Rejected(s) /\ UNCHANGED rows)
    /\ UNCHANGED <<scene, page, vault, shop, keyring, crop, panel>>

InFiles ==
    /\ scene = "files"
    /\ \/ \E s \in Slots : ((FileRequests(s) \/ Rejected(s)) /\ UNCHANGED vault) \/ FileStep(s)
       \/ Configure
    /\ UNCHANGED <<scene, page, rows, shop, keyring, crop, panel>>

\* The last request is about a price.
CatalogueBegin(s) == PriceRequests(s) \/ (calls + 1 < MaxCalls /\ ProductRequests(s))

InCatalogue ==
    /\ scene = "catalogue"
    /\ \/ \E s \in Slots : ((CatalogueBegin(s) \/ Rejected(s)) /\ UNCHANGED shop) \/ CatalogueStep(s)
       \/ \E p \in Products : Sell(p) \/ Lapse(p)
    /\ UNCHANGED <<scene, page, rows, vault, keyring, crop, panel>>

InSecrets == scene = "secrets" /\ SecretsStep /\ UNCHANGED <<scene, page, rows, vault, shop, crop, panel>>
InSettings == scene = "settings" /\ SettingsFormStep /\ UNCHANGED <<scene, page, rows, vault, shop, keyring, crop>>
InSeed == scene = "seed" /\ SeedStep /\ UNCHANGED <<scene, page, rows, vault, shop, keyring, panel>>

Next == InPages \/ InContent \/ InFiles \/ InCatalogue \/ InSecrets \/ InSettings \/ InSeed
Spec == Init /\ [][Next]_vars_

\* Slots, servers, tabs and the seed's environments are alike, and no scene has
\* two of these; likewise the choices and the provider's products, and the modes.
Symmetry == {a @@ e @@ m : a \in {[b \in {s1, s2, web1, web2, tab1, tab2, dev, production} |-> b],
                                  s1 :> s2 @@ s2 :> s1 @@ web1 :> web2 @@ web2 :> web1 @@ tab1 :> tab2 @@ tab2 :> tab1
                                  @@ dev :> production @@ production :> dev},
                           e \in {[b \in {e1, e2, sk1, sk2} |-> b],
                                  e1 :> e2 @@ e2 :> e1 @@ sk1 :> sk2 @@ sk2 :> sk1},
                           m \in Permutations(Modes)}

=============================================================================
