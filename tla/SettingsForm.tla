---------------------------- MODULE SettingsForm ----------------------------
(***************************************************************************)
(* The settings page of the administration (app-client, admin/settings): it *)
(* loads every setting once, and a form of it sends one request per setting, *)
(* one after the other, until one is rejected.  The server keeps a setting   *)
(* per environment and writes to the one that is active when a request       *)
(* comes in; the page can switch the environment, too.  Two keys stand for    *)
(* the settings of a form, the order they are sent in being the form's.      *)
(* Encryption is the matter of Secrets, validation rejects (Refuse).         *)
(***************************************************************************)
EXTENDS Desk

CONSTANTS
    Browsers,       \* tabs that may show the page
    Datasets        \* environments

VARIABLES
    active,         \* SystemConfig APP_ENV
    kept,           \* settings, by environment and key
    form,           \* by tab: [from, fields, shown, todo], or Void
    crossed,        \* environments of pages whose authentication was saved in
                    \* another one, and those; history
    blanked         \* environments where an empty key of Clerk's was stored; history

panel == <<active, kept, form, crossed, blanked>>

\* By form: the keys in the order of its fields, the secret one first.
\* The site and the theme count as one form.
FormKeys == [auth |-> {"clerkSecret", "provider"}, payment |-> {"mode", "liveSecret"},
             look |-> {"title", "gradient"}]
Forms == DOMAIN FormKeys
Keys == UNION {FormKeys[g] : g \in Forms}
MaskedKeys == {"clerkSecret", "liveSecret"}

\* What can be chosen or typed.
Inputs(k) == CASE k = "provider" -> {"credentials", "clerk"}
               [] k = "mode" -> {"test", "live"}
               [] OTHER -> {"", "typed"}

\* What the page shows for a setting that is not there.
Default(k) == CASE k = "provider" -> "credentials" [] k = "mode" -> "test" [] OTHER -> ""

SettingsFormInit ==
    /\ active \in Datasets
    /\ kept = [e \in Datasets |-> [k \in Keys |-> Default(k)]]
    /\ form = [b \in Browsers |-> Void]
    /\ crossed = {} /\ blanked = {}

\* getAll answers with masks; the gradients are the one part of the answer the
\* page does not take over.
Field(k) ==
    CASE k = "gradient" -> ""
      [] k \in MaskedKeys /\ kept[active][k] # "" -> "masked"
      [] OTHER -> kept[active][k]

Nothing == [g \in Forms |-> <<>>]

-----------------------------------------------------------------------------
\* The page asks for the settings and for the environment, in two requests;
\* nobody switches the environment before it is shown.
OpenPage(b) ==
    /\ form[b] = Void
    /\ form' = [form EXCEPT ![b] = [from |-> active, fields |-> [k \in Keys |-> Field(k)],
                                    shown |-> Void, todo |-> Nothing]]
    /\ UNCHANGED <<desk, active, kept, crossed, blanked>>

LoadEnv(b) ==
    /\ form[b] # Void /\ form[b].shown = Void
    /\ form' = [form EXCEPT ![b].shown = active]
    /\ UNCHANGED <<desk, active, kept, crossed, blanked>>

\* The tab is closed or left, in the middle of a form perhaps.
ClosePage(b) ==
    /\ form[b] # Void
    /\ form' = [form EXCEPT ![b] = Void]
    /\ UNCHANGED <<desk, active, kept, crossed, blanked>>

\* The keys a form sends, in order: the provider after its keys, and the keys
\* only with the provider that needs them; the mode before its keys.
\* Bug: the provider is switched first.
ProviderFirst(fields) == IF fields["provider"] = "clerk" THEN <<"provider", "clerkSecret">> ELSE <<"provider">>
AuthOrder(fields) == IF fields["provider"] = "clerk" THEN <<"clerkSecret", "provider">> ELSE <<"provider">>

SendOrder(g, fields) ==
    CASE g = "auth" -> AuthOrder(fields)
      [] g = "payment" -> <<"mode", "liveSecret">>
      [] g = "look" -> <<"title", "gradient">>

\* A form is sent with the fields as they are then, a key left empty or not yet
\* there when the page was loaded among them.
SendForm(b, g) ==
    /\ form[b] # Void /\ form[b].todo[g] = <<>>
    /\ calls < MaxCalls
    /\ \E typed \in [FormKeys[g] -> {"as it was"} \cup UNION {Inputs(k) : k \in FormKeys[g]}] :
          LET fields == [k \in Keys |-> IF k \notin FormKeys[g] \/ typed[k] = "as it was"
                                        THEN form[b].fields[k] ELSE typed[k]]
              order == SendOrder(g, fields)
          IN /\ \A k \in FormKeys[g] : typed[k] \in Inputs(k) \cup {"as it was"}
             /\ form' = [form EXCEPT ![b].fields = fields,
                                     ![b].todo[g] = [i \in DOMAIN order |-> <<order[i], fields[order[i]]>>]]
    /\ calls' = calls + 1
    /\ UNCHANGED <<call, fails, active, kept, crossed, blanked>>

\* One request: settingService.set in the environment of the moment.
PutSetting(b, g) ==
    /\ form[b] # Void /\ form[b].todo[g] # <<>>
    /\ LET k == Head(form[b].todo[g])[1]
           v == Head(form[b].todo[g])[2]
       IN /\ kept' = [kept EXCEPT ![active][k] = IF v = "masked" THEN @ ELSE v]
          /\ blanked' = IF k = "clerkSecret" /\ v = "" THEN blanked \cup {active} ELSE blanked
    /\ form' = [form EXCEPT ![b].todo[g] = Tail(@)]
    /\ crossed' = IF g # "auth" \/ form[b].from = active THEN crossed
                  ELSE crossed \cup {active, form[b].from}
    /\ UNCHANGED <<desk, active>>

\* A request is rejected, and the rest of the form is not sent.
RefuseSetting(b, g) ==
    /\ form[b] # Void /\ form[b].todo[g] # <<>>
    /\ fails < MaxFails
    /\ fails' = fails + 1
    /\ form' = [form EXCEPT ![b].todo[g] = <<>>]
    /\ UNCHANGED <<call, calls, active, kept, crossed, blanked>>

\* The environment tab; the fields of the other forms stay as they were.
SwitchEnv(b, e) ==
    /\ form[b] # Void /\ form[b].shown \notin {Void, e}
    /\ calls < MaxCalls
    /\ calls' = calls + 1
    /\ active' = e
    /\ form' = [form EXCEPT ![b].shown = e]
    /\ UNCHANGED <<call, fails, kept, crossed, blanked>>

SettingsFormStep ==
    \E b \in Browsers :
        \/ OpenPage(b) \/ LoadEnv(b) \/ ClosePage(b)
        \/ \E g \in Forms : SendForm(b, g) \/ PutSetting(b, g) \/ RefuseSetting(b, g)
        \/ \E e \in Datasets : SwitchEnv(b, e)

\* However forms are sent at once, rejected or left half way, users are never
\* switched to Clerk in an environment that has no key of Clerk's, the order a
\* form is sent in sees to that.  Two ways there are open, and the only ones:
\* neither the page nor the server asks for a key, so that an empty one is
\* stored, which need not be the last form's doing; and an authentication form
\* saved in another environment than its page's takes a mask for a key there.
SwitchedWithKeys ==
    \A e \in Datasets \ (crossed \cup blanked) :
        kept[e]["provider"] = "clerk" => kept[e]["clerkSecret"] # ""

=============================================================================
