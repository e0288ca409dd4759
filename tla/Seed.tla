-------------------------------- MODULE Seed --------------------------------
(***************************************************************************)
(* prisma/seed.ts: a script of upserts and plain writes, one await after    *)
(* another, which may stop at any of them and is run again.  It is launched *)
(* for an environment, but writes through the scoped client, which puts an   *)
(* environment of its own into every call (lib/env.ts).  One row stands for   *)
(* the rows of each table, one label for the labels of its prices, and one    *)
(* look at the environment for those of a step; demo user and product are     *)
(* named by their environment.                                               *)
(***************************************************************************)
EXTENDS Desk

CONSTANTS Envs, MaxBought, MaxPriced

ASSUME SeedAssumption == Void \notin Envs

VARIABLES
    config,         \* SystemConfig APP_ENV, or Void
    seed,           \* Void, or the run: the environment it was launched for and
                    \* the one last looked up (env), the step it is at, the ids it
                    \* holds (user, product, id of the purchase), the labelled
                    \* prices it met (had), and whether nothing interfered (calm)
    table,          \* by environment and table: "none", "seeded" or "edited"
    bought,         \* the demo users' purchases: [env, user, recurring, live]
    entitled,       \* memberships: [env, of], where of is the purchase
    priced,         \* prices: [env, product, label], where label is the seed's or not
    guides          \* the purchases with a file

crop == <<config, seed, table, bought, entitled, priced, guides>>

Tables == {"products", "features", "admin", "user", "subUser", "settings", "invitation", "types", "taxonomies",
           "templates", "pages"}
Steps == <<"config", "products", "features", "admin", "user", "cancel", "buy", "clear", "grant", "subUser",
           "settings", "prices", "file", "invitation", "types", "taxonomies", "templates", "pages">>

SeedInit ==
    /\ config = Void /\ seed = Void /\ bought = <<>> /\ entitled = {} /\ priced = <<>> /\ guides = {}
    /\ table = [e \in Envs |-> [t \in Tables |-> "none"]]

-----------------------------------------------------------------------------
Of(e, u) == {i \in DOMAIN bought : bought[i].env = e /\ bought[i].user = u}
Live(e, u) == {i \in Of(e, u) : bought[i].recurring /\ bought[i].live}
Recurring(u) == {i \in DOMAIN bought : bought[i].user = u /\ bought[i].recurring}
Labelled(e, p) == {i \in DOMAIN priced : priced[i].env = e /\ priced[i].product = p /\ priced[i].label}

\* The environment of a run launched for e.
Target(e) == IF config = Void THEN e ELSE config

Launch(e) ==
    /\ seed = Void
    /\ calls < MaxCalls
    /\ calls' = calls + 1
    /\ seed' = [launched |-> e, env |-> Void, at |-> 1, user |-> Void, product |-> Void, id |-> Void,
                had |-> Labelled(Target(e), Target(e)), calm |-> TRUE]
    /\ UNCHANGED <<call, fails, config, table, bought, entitled, priced, guides>>

\* The environment put into a call: SystemConfig's, read or still cached; where
\* reading it is rejected the one launched for, and while that is cached.
SeedEnv(e) ==
    \/ e \in {config, seed.env} /\ UNCHANGED fails
    \/ e = seed.launched /\ e # config /\ fails < MaxFails /\ fails' = fails + 1

Now(step) == seed # Void /\ Steps[seed.at] = step
Onward == [seed EXCEPT !.at = @ + 1]
Advance(e) == IF seed.at = Len(Steps) THEN Void
              ELSE [Onward EXCEPT !.env = e, !.calm = @ /\ e = config]

\* A step that writes to e.
In(e, step) == Now(step) /\ SeedEnv(e) /\ UNCHANGED <<call, calls, config>>

KeepConfig ==
    /\ Now("config")
    /\ config' = Target(seed.launched)
    /\ seed' = Onward
    /\ UNCHANGED <<desk, table, bought, entitled, priced, guides>>

\* What the update of an upsert names is put back.
Upsert(e, t) ==
    /\ In(e, t)
    /\ table' = [table EXCEPT ![e][t] = "seeded"]
    /\ UNCHANGED <<bought, entitled, priced, guides>>

\* What is there stays as it is.
CreateMissing(e, t) ==
    /\ In(e, t)
    /\ table' = [table EXCEPT ![e][t] = IF @ = "none" THEN "seeded" ELSE @]
    /\ seed' = Advance(e)
    /\ UNCHANGED <<bought, entitled, priced, guides>>

SeedProducts(e) == Upsert(e, "products") /\ seed' = [Advance(e) EXCEPT !.product = e]
SeedUser(e) == Upsert(e, "user") /\ seed' = [Advance(e) EXCEPT !.user = e]

\* An administrator is of no environment, so it is every environment's.
SeedAdmin ==
    /\ Now("admin")
    /\ table' = [e \in Envs |-> [table[e] EXCEPT !["admin"] = "seeded"]]
    /\ seed' = Onward
    /\ UNCHANGED <<desk, config, bought, entitled, priced, guides>>

SeedTable(e, t) == Upsert(e, t) /\ seed' = Advance(e)
SeedFeatures(e) == SeedTable(e, "features")
SeedSubUser(e) == SeedTable(e, "subUser")
SeedSettings(e) == CreateMissing(e, "settings")
SeedInvitation(e) == CreateMissing(e, "invitation")
SeedTypes(e) == SeedTable(e, "types")
SeedTaxonomies(e) == SeedTable(e, "taxonomies")
SeedTemplates(e) == SeedTable(e, "templates")
SeedPages(e) == SeedTable(e, "pages")

Ended(ids) == [i \in DOMAIN bought |-> IF i \in ids THEN [bought[i] EXCEPT !.live = FALSE] ELSE bought[i]]

\* Bug: a purchase made by an earlier run goes on.
CancelUnentitled(e) == Ended({i \in Live(e, seed.user) : \A m \in entitled : m.of # i})
CancelActive(e) == Ended(Live(e, seed.user))

CancelSubscriptions(e) ==
    /\ In(e, "cancel")
    /\ bought' = CancelActive(e)
    /\ seed' = Advance(e)
    /\ UNCHANGED <<table, entitled, priced, guides>>

AssignStarter(e) ==
    /\ In(e, "buy")
    /\ Len(bought) < MaxBought
    /\ bought' = Append(bought, [env |-> e, user |-> seed.user, recurring |-> TRUE, live |-> TRUE])
    /\ seed' = [Advance(e) EXCEPT !.id = Len(bought')]
    /\ UNCHANGED <<table, entitled, priced, guides>>

\* Every membership a purchase gave, those of one-time purchases among them.
ClearMemberships(e) ==
    /\ In(e, "clear")
    /\ entitled' = {m \in entitled : ~(m.env = e /\ bought[m.of].user = seed.user)}
    /\ seed' = Advance(e)
    /\ UNCHANGED <<table, bought, priced, guides>>

GrantMembership(e) ==
    /\ In(e, "grant")
    /\ entitled' = entitled \cup {[env |-> e, of |-> seed.id]}
    /\ seed' = Advance(e)
    /\ UNCHANGED <<table, bought, priced, guides>>

\* A price is found by product, mode and label; what is found keeps its label.
SeedPrices(e) ==
    /\ In(e, "prices")
    /\ IF Labelled(e, seed.product) # {} THEN UNCHANGED priced
       ELSE /\ Len(priced) < MaxPriced
            /\ priced' = Append(priced, [env |-> e, product |-> seed.product, label |-> TRUE])
    /\ seed' = Advance(e)
    /\ UNCHANGED <<table, bought, entitled, guides>>

\* The purchase is new, so the file is never found.
SeedFile(e) ==
    /\ In(e, "file")
    /\ guides' = guides \cup {seed.id}
    /\ seed' = Advance(e)
    /\ UNCHANGED <<table, bought, entitled, priced>>

\* An await is rejected, or the process is killed.
Stop ==
    /\ seed # Void
    /\ fails < MaxFails
    /\ fails' = fails + 1
    /\ seed' = Void
    /\ UNCHANGED <<call, calls, config, table, bought, entitled, priced, guides>>

-----------------------------------------------------------------------------
(* External: what the server does meanwhile, each of it modelled elsewhere *)

Disturb(e) ==
    /\ calls < MaxCalls
    /\ calls' = calls + 1
    /\ seed' = IF seed # Void /\ Target(seed.launched) = e THEN [seed EXCEPT !.calm = FALSE] ELSE seed
    /\ UNCHANGED <<call, fails, table, guides>>

Buy(e, recurring) ==
    /\ Disturb(e)
    /\ table[e]["user"] # "none" /\ Len(bought) < MaxBought
    /\ LET ended == IF recurring THEN Live(e, e) ELSE {}
       IN /\ bought' = Append(Ended(ended), [env |-> e, user |-> e, recurring |-> recurring, live |-> TRUE])
          /\ entitled' = {m \in entitled : ~(m.env = e /\ m.of \in ended)} \cup {[env |-> e, of |-> Len(bought')]}
    /\ UNCHANGED <<config, priced>>

\* An administrator gives a price any label, one that is there already, too.
Relabel(i) ==
    /\ Disturb(priced[i].env)
    /\ priced' = [priced EXCEPT ![i].label = ~@]
    /\ UNCHANGED <<config, bought, entitled>>

AddPrice(e, label) ==
    /\ Disturb(e)
    /\ table[e]["products"] # "none" /\ Len(priced) < MaxPriced
    /\ priced' = Append(priced, [env |-> e, product |-> e, label |-> label])
    /\ UNCHANGED <<config, bought, entitled>>

Edit(e, t) ==
    /\ calls < MaxCalls
    /\ table[e][t] = "seeded"
    /\ calls' = calls + 1
    /\ table' = [table EXCEPT ![e][t] = "edited"]
    /\ UNCHANGED <<call, fails, config, seed, bought, entitled, priced, guides>>

\* The environment is not switched under a running seed.
Switch(e) ==
    /\ seed = Void /\ config \notin {Void, e}
    /\ Disturb(e)
    /\ config' = e
    /\ UNCHANGED <<bought, entitled, priced>>

SeedStep ==
    \/ \E e \in Envs :
          \/ Launch(e) \/ Switch(e)
          \/ SeedProducts(e) \/ SeedFeatures(e) \/ SeedUser(e)
          \/ CancelSubscriptions(e) \/ AssignStarter(e) \/ ClearMemberships(e) \/ GrantMembership(e)
          \/ SeedSubUser(e) \/ SeedSettings(e) \/ SeedPrices(e) \/ SeedFile(e) \/ SeedInvitation(e)
          \/ SeedTypes(e) \/ SeedTaxonomies(e) \/ SeedTemplates(e) \/ SeedPages(e)
          \/ \E recurring \in BOOLEAN : Buy(e, recurring)
          \/ \E label \in BOOLEAN : AddPrice(e, label)
          \/ \E t \in {"products", "settings"} : Edit(e, t)
    \/ KeepConfig \/ SeedAdmin \/ Stop
    \/ \E i \in DOMAIN priced : Relabel(i)

\* The seed can be run again: however many runs stopped half way before or lost
\* sight of the environment, and whatever was bought, priced and labelled since, a
\* run that nothing interfered with leaves its environment with one live
\* subscription of the demo user, the only one that entitles, and with the prices
\* of each label it met, or one where it met none.  What interferes is the server
\* writing to the same rows, and a look at SystemConfig that was rejected: the
\* cancellation then misses, and two subscriptions live until the next run.
SeedRepeats ==
    [][seed # Void /\ seed.at = Len(Steps) /\ seed.calm /\ seed' = Void
       => /\ Live(config, config) = {seed.id}
          /\ {m \in entitled : m.env = config /\ m.of \in Recurring(config)} = {[env |-> config, of |-> seed.id]}
          /\ IF seed.had = {} THEN Cardinality(Labelled(config, config)) = 1
             ELSE Labelled(config, config) = seed.had]_crop

=============================================================================
